------------------------------ MODULE Accounts ------------------------------
(***************************************************************************)
(* The users table and the handlers of the auth and users services that    *)
(* write it (apps/backend/src/modules/auth, apps/backend/src/modules/users).*)
(*                                                                         *)
(* A handler loads a row into an entity, changes the entity and saves it.  *)
(* Save is TypeORM's, external: it selects the row again, collects the     *)
(* columns in which the entity differs from it, and updates those columns  *)
(* in a second statement.  An entity that is stale by then writes its old  *)
(* values back.  Other handlers run at every await: after the load, while  *)
(* mail is sent or a password is compared, and between the two statements  *)
(* of a save.                                                              *)
(*                                                                         *)
(* A call that its first query refuses changes nothing and is not started; *)
(* so is a verification whose token has expired.                           *)
(***************************************************************************)
EXTENDS Naturals

CONSTANTS
  Accounts,     \* mailboxes: the email is the identity of an account
  Workers,      \* handlers in flight at once (bounds concurrency)
  Names,        \* usernames
  Updates,      \* the profile updates that may be asked for
  MaxTokens,    \* bounds the verification tokens issued
  Faults,       \* whether a statement may fail
  None          \* NULL, and the value of an unused field

ASSUME MaxTokensAssumption == MaxTokens \in Nat

Tokens == 1..MaxTokens

ASSUME NoneAssumption == None \notin Names \cup Tokens \cup Accounts

VARIABLES
  row,          \* users: the committed row of each account, None before it exists
  nextToken,    \* the next token to issue
  inbox,        \* the tokens whose mail has reached the account's mailbox
  sessions,     \* accounts a session token has been signed for
  call          \* the handler of each worker, NoCall when idle

vars == <<row, nextToken, inbox, sessions, call>>

\* gone stands for deleted_at, is_active and password_hash, which only change
\* together; a deleted account's username is one that nobody can claim: None.
Row == [verified : BOOLEAN, token : Tokens \cup {None}, name : Names \cup {None},
        full : BOOLEAN, done : BOOLEAN, gone : BOOLEAN]

Columns == {"verified", "token", "name", "full", "done", "gone"}

\* The fields a profile update may carry; None leaves the column alone.
Profile == [name : Names \cup {None}, full : BOOLEAN \cup {None}]

ASSUME NoRowAssumption == None \notin Row
ASSUME UpdatesAssumption == Updates \subseteq Profile

Pcs == {"idle", "insert", "mail", "sign", "nameCheck", "password",
        "saveSelect", "saveUpdate"}
Kinds == {"register", "resend", "verify", "login", "profile", "delete"}

NoCall == [pc |-> "idle", kind |-> None, user |-> None, entity |-> None,
           diff |-> {}, token |-> None, dto |-> None]

Calls == [pc : Pcs, kind : Kinds \cup {None}, user : Accounts \cup {None},
          entity : Row \cup {None}, diff : SUBSET Columns,
          token : Tokens \cup {None}, dto : Profile \cup {None}]

Init ==
  /\ row = [u \in Accounts |-> None]
  /\ nextToken = 1
  /\ inbox = [u \in Accounts |-> {}]
  /\ sessions = {}
  /\ call = [w \in Workers |-> NoCall]

-----------------------------------------------------------------------------
At(w, pc) == call[w].pc = pc

Become(w, c) == call' = [call EXCEPT ![w] = c]

Return(w) == Become(w, NoCall)

\* Handlers start with the query that loads their row.
Start(w, c) == At(w, "idle") /\ Become(w, c)

\* A plain find: it does not see a soft-deleted row.
Found(u) == row[u] # None /\ ~row[u].gone

\* The session guard: JwtStrategy.validate loads the caller's row.
Authenticated(u) == u \in sessions /\ Found(u)

Saving(c, entity) == [c EXCEPT !.pc = "saveSelect", !.entity = entity]

-----------------------------------------------------------------------------
\* TypeORM's save(entity), and the unique index on the username.

Taken(u, name) == \E v \in Accounts \ {u} : row[v] # None /\ row[v].name = name

\* A verification mail follows the first save of a resend.
AfterSave(c) ==
  IF c.kind = "resend" /\ c.entity.token # None
  THEN [c EXCEPT !.pc = "mail", !.diff = {}] ELSE NoCall

\* The row with the columns of diff taken from the entity.
Merged(r, entity, diff) ==
  [verified |-> IF "verified" \in diff THEN entity.verified ELSE r.verified,
   token |-> IF "token" \in diff THEN entity.token ELSE r.token,
   name |-> IF "name" \in diff THEN entity.name ELSE r.name,
   full |-> IF "full" \in diff THEN entity.full ELSE r.full,
   done |-> IF "done" \in diff THEN entity.done ELSE r.done,
   gone |-> IF "gone" \in diff THEN entity.gone ELSE r.gone]

SaveSelect(w) ==
  LET c == call[w]
      diff == {k \in Columns : c.entity[k] # row[c.user][k]}
  IN /\ At(w, "saveSelect")
     /\ Become(w, IF diff = {} THEN AfterSave(c)
                  ELSE [c EXCEPT !.pc = "saveUpdate", !.diff = diff])
     /\ UNCHANGED <<row, nextToken, inbox, sessions>>

\* Mutant: the table has no unique index on LOWER(username).
SaveUpdate_NoIndex(w) ==
  LET c == call[w]
  IN /\ At(w, "saveUpdate")
     /\ row' = [row EXCEPT ![c.user] = Merged(row[c.user], c.entity, c.diff)]
     /\ Become(w, AfterSave(c))
     /\ UNCHANGED <<nextToken, inbox, sessions>>

SaveUpdate(w) ==
  LET c == call[w]
      clash == "name" \in c.diff /\ c.entity.name # None /\ Taken(c.user, c.entity.name)
  IN /\ At(w, "saveUpdate")
     /\ \/ clash /\ Return(w) /\ UNCHANGED row
        \/ /\ ~clash
           /\ row' = [row EXCEPT ![c.user] = Merged(row[c.user], c.entity, c.diff)]
           /\ Become(w, AfterSave(c))
     /\ UNCHANGED <<nextToken, inbox, sessions>>

-----------------------------------------------------------------------------
\* POST /auth/register, /auth/resend-verification, /auth/verify-email.

RegisterBegin(w, u) ==
  /\ ~Found(u)
  /\ row[u] = None => nextToken \in Tokens
  /\ Start(w, [NoCall EXCEPT !.pc = "insert", !.kind = "register", !.user = u])
  /\ UNCHANGED <<row, nextToken, inbox, sessions>>

\* The unique email answers 409, also for the address of a deleted account.
RegisterInsert(w) ==
  LET c == call[w]
      new == [verified |-> FALSE, token |-> nextToken, name |-> None,
              full |-> FALSE, done |-> FALSE, gone |-> FALSE]
  IN /\ At(w, "insert")
     /\ \/ row[c.user] # None /\ Return(w) /\ UNCHANGED <<row, nextToken>>
        \/ /\ row[c.user] = None
           /\ nextToken \in Tokens
           /\ nextToken' = nextToken + 1
           /\ row' = [row EXCEPT ![c.user] = new]
           /\ Become(w, [c EXCEPT !.pc = "mail", !.entity = new])
     /\ UNCHANGED <<inbox, sessions>>

\* Mutant: a verified account is given a fresh token as well.
ResendBegin_AlsoVerified(w, u) ==
  /\ Found(u)
  /\ nextToken \in Tokens
  /\ nextToken' = nextToken + 1
  /\ Start(w, Saving([NoCall EXCEPT !.kind = "resend", !.user = u],
                     [row[u] EXCEPT !.token = nextToken]))
  /\ UNCHANGED <<row, inbox, sessions>>

ResendBegin(w, u) ==
  /\ Found(u) /\ ~row[u].verified
  /\ nextToken \in Tokens
  /\ nextToken' = nextToken + 1
  /\ Start(w, Saving([NoCall EXCEPT !.kind = "resend", !.user = u],
                     [row[u] EXCEPT !.token = nextToken]))
  /\ UNCHANGED <<row, inbox, sessions>>

\* Mutant: a failed delivery leaves the token in place.
Mail_KeepsToken(w) ==
  LET c == call[w]
  IN /\ At(w, "mail")
     /\ \E delivered \in BOOLEAN :
          inbox' = IF delivered
                   THEN [inbox EXCEPT ![c.user] = @ \cup {c.entity.token}] ELSE inbox
     /\ Return(w)
     /\ UNCHANGED <<row, nextToken, sessions>>

\* The provider delivers, refuses, or delivers and its answer is lost; an error
\* clears the entity's token and saves the entity again.
Mail(w) ==
  LET c == call[w]
  IN /\ At(w, "mail")
     /\ \E delivered, error \in BOOLEAN :
          /\ delivered \/ error
          /\ inbox' = IF delivered
                      THEN [inbox EXCEPT ![c.user] = @ \cup {c.entity.token}] ELSE inbox
          /\ IF error THEN Become(w, Saving(c, [c.entity EXCEPT !.token = None]))
             ELSE Return(w)
     /\ UNCHANGED <<row, nextToken, sessions>>

\* The token must be the one the row holds when it is looked up.
VerifyBegin(w, u, t) ==
  /\ t \in inbox[u]
  /\ Found(u) /\ row[u].token = t
  /\ Start(w, Saving([NoCall EXCEPT !.kind = "verify", !.user = u, !.token = t],
                     [row[u] EXCEPT !.verified = TRUE, !.token = None]))
  /\ UNCHANGED <<row, nextToken, inbox, sessions>>

-----------------------------------------------------------------------------
\* POST /auth/login: the password comparison is awaited.

LoginBegin(w, u) ==
  /\ Found(u)
  /\ Start(w, [NoCall EXCEPT !.pc = "sign", !.kind = "login", !.user = u,
                             !.entity = row[u]])
  /\ UNCHANGED <<row, nextToken, inbox, sessions>>

\* Mutant: an unverified account is signed in.
LoginSign_AnyAccount(w) ==
  /\ At(w, "sign")
  /\ sessions' = sessions \cup {call[w].user}
  /\ Return(w)
  /\ UNCHANGED <<row, nextToken, inbox>>

LoginSign(w) ==
  /\ At(w, "sign")
  /\ sessions' = IF call[w].entity.verified THEN sessions \cup {call[w].user} ELSE sessions
  /\ Return(w)
  /\ UNCHANGED <<row, nextToken, inbox>>

-----------------------------------------------------------------------------
\* PATCH /users/me and DELETE /users/me.

ProfileBegin(w, u, dto) ==
  /\ Authenticated(u)
  /\ Start(w, [NoCall EXCEPT !.pc = "nameCheck", !.kind = "profile", !.user = u,
                             !.entity = row[u], !.dto = dto])
  /\ UNCHANGED <<row, nextToken, inbox, sessions>>

\* The entity with the fields of the update, profile_completed recomputed.
Patched(entity, dto) ==
  LET name == IF dto.name # None THEN dto.name ELSE entity.name
      full == IF dto.full # None THEN dto.full ELSE entity.full
  IN [entity EXCEPT !.name = name, !.full = full, !.done = name # None /\ full]

\* A new username must not belong to another account that a find returns.
NameCheck(w) ==
  LET c == call[w]
      taken == /\ c.dto.name \notin {None, c.entity.name}
               /\ \E v \in Accounts \ {c.user} : Found(v) /\ row[v].name = c.dto.name
  IN /\ At(w, "nameCheck")
     /\ IF taken THEN Return(w) ELSE Become(w, Saving(c, Patched(c.entity, c.dto)))
     /\ UNCHANGED <<row, nextToken, inbox, sessions>>

DeleteBegin(w, u) ==
  /\ Authenticated(u)
  /\ Start(w, [NoCall EXCEPT !.pc = "password", !.kind = "delete", !.user = u,
                             !.entity = row[u]])
  /\ UNCHANGED <<row, nextToken, inbox, sessions>>

\* The password is wrong, or the entity is anonymized and saved.
DeletePassword(w) ==
  LET c == call[w]
  IN /\ At(w, "password")
     /\ \/ Return(w)
        \/ Become(w, Saving(c, [c.entity EXCEPT !.gone = TRUE, !.name = None,
                                                !.full = FALSE]))
     /\ UNCHANGED <<row, nextToken, inbox, sessions>>

-----------------------------------------------------------------------------
\* A statement fails or the process dies.
CallFails(w) ==
  /\ Faults
  /\ ~At(w, "idle")
  /\ Return(w)
  /\ UNCHANGED <<row, nextToken, inbox, sessions>>

Begin(w) ==
  \E u \in Accounts :
    \/ RegisterBegin(w, u) \/ ResendBegin(w, u) \/ LoginBegin(w, u) \/ DeleteBegin(w, u)
    \/ \E t \in Tokens : VerifyBegin(w, u, t)
    \/ \E dto \in Updates : ProfileBegin(w, u, dto)

Next ==
  \E w \in Workers :
    \/ Begin(w)
    \/ RegisterInsert(w) \/ Mail(w) \/ LoginSign(w) \/ NameCheck(w) \/ DeletePassword(w)
    \/ SaveSelect(w) \/ SaveUpdate(w)
    \/ CallFails(w)

Spec == Init /\ [][Next]_vars

-----------------------------------------------------------------------------
\* Every variable keeps its type.
TypeOK ==
  /\ row \in [Accounts -> Row \cup {None}]
  /\ nextToken \in 1..(MaxTokens + 1)
  /\ inbox \in [Accounts -> SUBSET Tokens]
  /\ sessions \subseteq Accounts
  /\ call \in [Workers -> Calls]

\* No two accounts share a username, although the availability check and the
\* write are separate statements and stale entities write old names back.
NamesAreUnique ==
  \A u, v \in Accounts :
    u # v /\ row[u] # None /\ row[v] # None /\ row[u].name # None
      => row[u].name # row[v].name

\* "Users must verify their email address before accessing authenticated
\* application features": an account is verified, or has ever been signed in,
\* only after a token has reached its mailbox.
VerifiedByMail ==
  \A u \in Accounts :
    u \in sessions \/ (row[u] # None /\ row[u].verified) => inbox[u] # {}

\* What a handler's entity may hold: it exists past its load, it belongs to an
\* account that has a row, and it is verified only if the mailbox was reached.
EntityKnows(c) ==
  /\ c.pc # "idle" => c.user \in Accounts
  /\ c.pc \notin {"idle", "insert"} => c.entity \in Row /\ row[c.user] # None
  /\ c.pc \notin {"idle", "insert"} /\ c.entity.verified => inbox[c.user] # {}
  /\ c.pc = "mail" => c.entity.token \in Tokens
  /\ c.pc = "nameCheck" => c.dto \in Profile

\* The inductive invariant of the component.
IInv ==
  /\ TypeOK
  /\ \A w \in Workers : EntityKnows(call[w])
  /\ NamesAreUnique
  /\ VerifiedByMail

\* A call for account u is in flight.
Busy(u) == \E w \in Workers : ~At(w, "idle") /\ call[w].user = u

\* "Leaving no way to complete verification": while no statement fails, a token
\* whose mail never arrived does not outlive the calls of its account.
TokenIsMailed ==
  \A u \in Accounts :
    row[u] # None /\ ~Busy(u) => row[u].token \in inbox[u] \cup {None}

\* One call at a time moves every account through the documented life.
phase == [u \in Accounts |->
            IF row[u] = None THEN "none" ELSE IF row[u].gone THEN "deleted"
            ELSE IF row[u].verified THEN "verified" ELSE "unverified"]
valid == [u \in Accounts |-> IF row[u] = None THEN None ELSE row[u].token]

Life == INSTANCE AccountLife

FollowsLife == Life!LifeSpec

=============================================================================
