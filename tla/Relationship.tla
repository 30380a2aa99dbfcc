---------------------------- MODULE Relationship ----------------------------
(***************************************************************************)
(* What the contacts component promises its callers, with every call a     *)
(* single atomic step: at most one request row per directed pair, at most  *)
(* one chat per pair of users, and a chat opened by the very step that     *)
(* accepts a request.                                                      *)
(*                                                                         *)
(* Calls that do not overlap only take Request, Accept and Decline.  The   *)
(* other steps are what remains of the promise when the read and the write *)
(* of a call are separate database statements: an answer may overwrite an  *)
(* answer, and a re-sent request may overwrite an acceptance.              *)
(***************************************************************************)
CONSTANT Users              \* account ids

VARIABLES
  status,                   \* status of the request row of each directed pair
  chats                     \* pairs of users that have a one-to-one chat

relVars == <<status, chats>>

\* A request row is keyed by <<sender, receiver>>; the CHECK constraint of the
\* table and the 400 of sendRequest exclude a request to oneself.
Pairs == {p \in Users \X Users : p[1] # p[2]}

Statuses == {"none", "pending", "accepted", "declined"}

\* The chat key of a request: the same value whichever direction it was sent.
ChatKey(p) == {p[1], p[2]}

RelInit ==
  /\ status = [p \in Pairs |-> "none"]
  /\ chats = {}

SetStatus(p, s) == status' = [status EXCEPT ![p] = s]

Request(p) ==
  /\ status[p] \in {"none", "declined"}
  /\ SetStatus(p, "pending")
  /\ UNCHANGED chats

Accept(p) ==
  /\ status[p] = "pending"
  /\ SetStatus(p, "accepted")
  /\ chats' = chats \cup {ChatKey(p)}

Decline(p) ==
  /\ status[p] = "pending"
  /\ SetStatus(p, "declined")
  /\ UNCHANGED chats

\* A re-sent request that was decided on a status read earlier.
Reopen(p) ==
  /\ status[p] = "accepted"
  /\ SetStatus(p, "pending")
  /\ UNCHANGED chats

\* An answer that was decided on a status read earlier.
LateAccept(p) ==
  /\ status[p] = "declined"
  /\ SetStatus(p, "accepted")
  /\ chats' = chats \cup {ChatKey(p)}

LateDecline(p) ==
  /\ status[p] = "accepted"
  /\ SetStatus(p, "declined")
  /\ UNCHANGED chats

RelStep(p) ==
  \/ Request(p) \/ Accept(p) \/ Decline(p)
  \/ Reopen(p) \/ LateAccept(p) \/ LateDecline(p)

RelNext == \E p \in Pairs : RelStep(p)

RelSpec == RelInit /\ [][RelNext]_relVars
=============================================================================
