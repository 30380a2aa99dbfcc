----------------------------- MODULE AccountLife -----------------------------
(***************************************************************************)
(* What the documentation promises about one mailbox: it is registered     *)
(* once, verified once by the token that is valid at that moment, and      *)
(* deleted for good.  A fresh token replaces the previous one, and a token *)
(* whose mail failed is withdrawn.                                         *)
(***************************************************************************)
CONSTANTS
  Accounts,     \* mailboxes: the email is the identity of an account
  Tokens,       \* verification tokens
  None

VARIABLES
  phase,        \* where each account is in its life
  valid         \* the token that can verify it, None when there is none

lifeVars == <<phase, valid>>

LifeInit ==
  /\ phase = [u \in Accounts |-> "none"]
  /\ valid = [u \in Accounts |-> None]

Become(u, p) == phase' = [phase EXCEPT ![u] = p]

Register(u) ==
  /\ phase[u] = "none"
  /\ Become(u, "unverified")
  /\ \E t \in Tokens : valid' = [valid EXCEPT ![u] = t]

\* A fresh token, or none once its mail has failed.
Rotate(u) ==
  /\ phase[u] = "unverified"
  /\ \E t \in Tokens \cup {None} : valid' = [valid EXCEPT ![u] = t]
  /\ UNCHANGED phase

Verify(u) ==
  /\ phase[u] = "unverified"
  /\ valid[u] # None
  /\ Become(u, "verified")
  /\ valid' = [valid EXCEPT ![u] = None]

Delete(u) ==
  /\ phase[u] = "verified"
  /\ Become(u, "deleted")
  /\ UNCHANGED valid

LifeNext == \E u \in Accounts : Register(u) \/ Rotate(u) \/ Verify(u) \/ Delete(u)

LifeSpec == LifeInit /\ [][LifeNext]_lifeVars
=============================================================================
