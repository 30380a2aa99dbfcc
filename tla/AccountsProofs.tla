--------------------------- MODULE AccountsProofs ---------------------------
(***************************************************************************)
(* Proofs about Accounts, for any mailboxes, usernames and number of       *)
(* overlapping handlers.                                                   *)
(***************************************************************************)
EXTENDS Accounts, TLAPS

USE MaxTokensAssumption, NoneAssumption, NoRowAssumption, UpdatesAssumption DEF At

\* What a step does to the parts that the handlers' knowledge depends on.
Grows ==
  /\ \A u \in Accounts : row[u] # None => row'[u] # None
  /\ \A u \in Accounts : inbox[u] \subseteq inbox'[u]

\* The tables keep their types.
TablesOK ==
  /\ row \in [Accounts -> Row \cup {None}]
  /\ nextToken \in 1..(MaxTokens + 1)
  /\ inbox \in [Accounts -> SUBSET Tokens]
  /\ sessions \subseteq Accounts

\* EntityKnows for rows r and mailboxes b.
Knows(c, r, b) ==
  /\ c.pc # "idle" => c.user \in Accounts
  /\ c.pc \notin {"idle", "insert"} => c.entity \in Row /\ r[c.user] # None
  /\ c.pc \notin {"idle", "insert"} /\ c.entity.verified => b[c.user] # {}
  /\ c.pc = "mail" => c.entity.token \in Tokens
  /\ c.pc = "nameCheck" => c.dto \in Profile

\* An idle worker holds nothing.
LEMMA NoCallKnows == NoCall \in Calls /\ EntityKnows(NoCall)
  BY DEF NoCall, Calls, Pcs, EntityKnows

\* A handler that goes on with a call it may have, while tables only grow.
LEMMA HandlerMoves ==
  ASSUME NEW w \in Workers, NEW c \in Calls, IInv, Become(w, c), Grows, TablesOK',
         Knows(c, row', inbox'), NamesAreUnique', VerifiedByMail'
  PROVE  IInv'
<1>1. TypeOK'
  BY DEF IInv, TypeOK, TablesOK, Become
<1>2. ASSUME NEW v \in Workers PROVE EntityKnows(call[v])'
  <2>1. CASE v = w
    BY <2>1 DEF IInv, TypeOK, Become, EntityKnows, Knows
  <2>2. CASE v # w
    <3>1. call'[v] = call[v] /\ call[v] \in Calls /\ EntityKnows(call[v])
      BY <2>2 DEF IInv, TypeOK, Become
    <3>2. QED
      BY <3>1 DEF EntityKnows, Grows
  <2>3. QED
    BY <2>1, <2>2
<1>3. QED
  BY <1>1, <1>2 DEF IInv

\* The same when no table but the token counter changes.
LEMMA HandlerMovesAlone ==
  ASSUME NEW w \in Workers, NEW c \in Calls, IInv, Become(w, c), EntityKnows(c),
         UNCHANGED <<row, inbox, sessions>>, nextToken' \in 1..(MaxTokens + 1)
  PROVE  IInv'
<1>1. Grows /\ TablesOK' /\ NamesAreUnique' /\ VerifiedByMail'
  BY DEF Grows, TablesOK, IInv, TypeOK, NamesAreUnique, VerifiedByMail
<1>2. Knows(c, row', inbox')
  BY DEF EntityKnows, Knows
<1>3. QED
  BY <1>1, <1>2, HandlerMoves

\* A call may end at any time, answered or failed.
LEMMA ReturnAlone ==
  ASSUME NEW w \in Workers, IInv, Return(w), UNCHANGED <<row, nextToken, inbox, sessions>>
  PROVE  IInv'
<1>1. nextToken' \in 1..(MaxTokens + 1)
  BY DEF IInv, TypeOK
<1>2. QED
  BY <1>1, NoCallKnows, HandlerMovesAlone DEF Return

\* An entity on its way to a save is known if it was, or is the row itself.
LEMMA SavingKnows ==
  ASSUME NEW c \in Calls, NEW e \in Row, c.user \in Accounts, row[c.user] # None,
         e.verified => inbox[c.user] # {}
  PROVE  Saving(c, e) \in Calls /\ EntityKnows(Saving(c, e))
  BY DEF Saving, Calls, Pcs, EntityKnows

\* What follows a save is known if the saved entity was.
LEMMA AfterSaveKnows ==
  ASSUME NEW c \in Calls, NEW r, NEW b, c.user \in Accounts, c.entity \in Row,
         r[c.user] # None, c.entity.verified => b[c.user] # {}
  PROVE  AfterSave(c) \in Calls /\ Knows(AfterSave(c), r, b)
<1>1. CASE c.kind = "resend" /\ c.entity.token # None
  <2>1. AfterSave(c) = [c EXCEPT !.pc = "mail", !.diff = {}]
    BY <1>1 DEF AfterSave
  <2>2. AfterSave(c) \in Calls
    BY <2>1 DEF Calls, Pcs
  <2>3. c.entity.token \in Tokens
    BY <1>1 DEF Row
  <2>4. QED
    BY <2>1, <2>2, <2>3 DEF Knows, Calls
<1>2. CASE ~(c.kind = "resend" /\ c.entity.token # None)
  BY <1>2, NoCallKnows DEF AfterSave, Knows, NoCall
<1>3. QED
  BY <1>1, <1>2

\* The invariant holds before any account exists.
LEMMA InitIInv == Init => IInv
<1> SUFFICES ASSUME Init PROVE IInv
  OBVIOUS
<1>1. TypeOK
  BY NoCallKnows DEF Init, TypeOK
<1>2. \A w \in Workers : EntityKnows(call[w])
  BY NoCallKnows DEF Init
<1>3. NamesAreUnique /\ VerifiedByMail
  BY DEF Init, NamesAreUnique, VerifiedByMail
<1>4. QED
  BY <1>1, <1>2, <1>3 DEF IInv

\* What is known of a call in flight.
LEMMA CallKnown ==
  ASSUME NEW w \in Workers, IInv, ~At(w, "idle")
  PROVE  /\ call[w] \in Calls /\ call[w].user \in Accounts
         /\ ~At(w, "insert") =>
              /\ call[w].entity \in Row /\ row[call[w].user] \in Row
              /\ call[w].entity.verified => inbox[call[w].user] # {}
  BY DEF IInv, TypeOK, EntityKnows

\* A save's UPDATE yields a row; it is verified only if the entity or the old
\* row was, and its name comes from one of them.
LEMMA MergedRow ==
  ASSUME NEW r \in Row, NEW e \in Row, NEW diff
  PROVE  /\ Merged(r, e, diff) \in Row
         /\ Merged(r, e, diff).verified => e.verified \/ r.verified
         /\ Merged(r, e, diff).name = IF "name" \in diff THEN e.name ELSE r.name
<1>1. /\ r.verified \in BOOLEAN /\ r.token \in Tokens \cup {None}
      /\ r.name \in Names \cup {None} /\ r.full \in BOOLEAN /\ r.done \in BOOLEAN
      /\ r.gone \in BOOLEAN
  BY DEF Row
<1>2. /\ e.verified \in BOOLEAN /\ e.token \in Tokens \cup {None}
      /\ e.name \in Names \cup {None} /\ e.full \in BOOLEAN /\ e.done \in BOOLEAN
      /\ e.gone \in BOOLEAN
  BY DEF Row
<1>3. QED
  BY <1>1, <1>2 DEF Merged, Row

\* The SELECT of a save, which collects the columns that differ.
LEMMA SaveSelectKeeps ==
  ASSUME NEW w \in Workers, IInv, SaveSelect(w)
  PROVE  IInv'
<1> DEFINE c == call[w]
           diff == {k \in Columns : c.entity[k] # row[c.user][k]}
           d == [c EXCEPT !.pc = "saveUpdate", !.diff = diff]
<1>1. /\ c \in Calls /\ c.user \in Accounts /\ c.entity \in Row /\ row[c.user] # None
      /\ c.entity.verified => inbox[c.user] # {}
  BY CallKnown DEF SaveSelect
<1>2. AfterSave(c) \in Calls /\ EntityKnows(AfterSave(c))
  BY <1>1, NoCallKnows, AfterSaveKnows DEF EntityKnows, Knows
<1>3. d \in Calls /\ EntityKnows(d)
  BY <1>1 DEF Calls, Pcs, EntityKnows
<1>4. nextToken' \in 1..(MaxTokens + 1)
  BY DEF SaveSelect, IInv, TypeOK
<1>5. Become(w, AfterSave(c)) \/ Become(w, d)
  BY DEF SaveSelect
<1>6. QED
  BY <1>2, <1>3, <1>4, <1>5, HandlerMovesAlone DEF SaveSelect

\* The UPDATE of a save, which may write stale columns back.
LEMMA SaveUpdateKeeps ==
  ASSUME NEW w \in Workers, IInv, SaveUpdate(w)
  PROVE  IInv'
<1> DEFINE c == call[w]
           u == c.user
           r == Merged(row[u], c.entity, c.diff)
<1>1. /\ c \in Calls /\ u \in Accounts /\ c.entity \in Row /\ row[u] \in Row
      /\ c.entity.verified => inbox[u] # {}
  BY CallKnown DEF SaveUpdate
<1>2. r \in Row /\ (r.verified => c.entity.verified \/ row[u].verified)
      /\ r.name = IF "name" \in c.diff THEN c.entity.name ELSE row[u].name
  BY <1>1, MergedRow
<1>3. CASE Return(w) /\ UNCHANGED row
  BY <1>3, ReturnAlone DEF SaveUpdate
<1>4. CASE /\ ~("name" \in c.diff /\ c.entity.name # None /\ Taken(u, c.entity.name))
           /\ row' = [row EXCEPT ![u] = r]
           /\ Become(w, AfterSave(c))
  <2>1. /\ row'[u] = r /\ \A v \in Accounts : v # u => row'[v] = row[v]
        /\ row' \in [Accounts -> Row \cup {None}]
    BY <1>1, <1>2, <1>4 DEF IInv, TypeOK
  <2>2. Grows /\ TablesOK'
    BY <1>2, <2>1 DEF SaveUpdate, Grows, TablesOK, IInv, TypeOK
  <2>3. VerifiedByMail'
    BY <1>1, <1>2, <2>1 DEF SaveUpdate, IInv, VerifiedByMail
  <2>4. ASSUME NEW v \in Accounts, v # u, row[v] # None, r.name # None
        PROVE  row[v].name # r.name
    <3>1. CASE "name" \in c.diff
      BY <1>2, <1>4, <2>4, <3>1 DEF Taken
    <3>2. CASE "name" \notin c.diff
      BY <1>1, <1>2, <2>4, <3>2 DEF IInv, NamesAreUnique
    <3>3. QED
      BY <3>1, <3>2
  <2>5. NamesAreUnique'
    BY <1>1, <2>1, <2>4 DEF IInv, NamesAreUnique
  <2>6. AfterSave(c) \in Calls /\ Knows(AfterSave(c), row', inbox')
    BY <1>1, <1>2, <2>1, AfterSaveKnows, NoneAssumption, NoRowAssumption DEF SaveUpdate
  <2>7. QED
    BY <1>4, <2>2, <2>3, <2>5, <2>6, HandlerMoves
<1>5. QED
  BY <1>3, <1>4 DEF SaveUpdate

\* The INSERT of a registration.
LEMMA RegisterInsertKeeps ==
  ASSUME NEW w \in Workers, IInv, RegisterInsert(w)
  PROVE  IInv'
<1> DEFINE c == call[w]
           new == [verified |-> FALSE, token |-> nextToken, name |-> None,
                   full |-> FALSE, done |-> FALSE, gone |-> FALSE]
           d == [c EXCEPT !.pc = "mail", !.entity = new]
<1>1. c \in Calls /\ c.user \in Accounts
  BY CallKnown DEF RegisterInsert
<1>2. CASE Return(w) /\ UNCHANGED <<row, nextToken>>
  BY <1>2, ReturnAlone DEF RegisterInsert
<1>3. CASE /\ row[c.user] = None /\ nextToken \in Tokens /\ nextToken' = nextToken + 1
           /\ row' = [row EXCEPT ![c.user] = new]
           /\ Become(w, d)
  <2>1. new \in Row /\ new.verified = FALSE /\ new.name = None /\ new.token \in Tokens
    BY <1>3 DEF Row
  <2>2. /\ row'[c.user] = new /\ \A v \in Accounts : v # c.user => row'[v] = row[v]
        /\ row' \in [Accounts -> Row \cup {None}]
    BY <1>1, <1>3, <2>1 DEF IInv, TypeOK
  <2>3. nextToken' \in 1..(MaxTokens + 1)
    BY <1>3 DEF Tokens
  <2>4. Grows /\ TablesOK'
    BY <2>1, <2>2, <2>3 DEF RegisterInsert, Grows, TablesOK, IInv, TypeOK
  <2>5. VerifiedByMail' /\ NamesAreUnique'
    BY <2>1, <2>2 DEF RegisterInsert, IInv, VerifiedByMail, NamesAreUnique
  <2>6. d \in Calls
    BY <1>1, <2>1 DEF Calls, Pcs
  <2>7. Knows(d, row', inbox')
    BY <1>1, <2>1, <2>2 DEF Knows, Calls
  <2>8. QED
    BY <1>3, <2>4, <2>5, <2>6, <2>7, HandlerMoves
<1>4. QED
  BY <1>2, <1>3 DEF RegisterInsert

\* The mail's three outcomes.
LEMMA MailKeeps ==
  ASSUME NEW w \in Workers, IInv, Mail(w)
  PROVE  IInv'
<1> DEFINE c == call[w]
           u == c.user
           e == [c.entity EXCEPT !.token = None]
<1>1. /\ c \in Calls /\ u \in Accounts /\ c.entity \in Row /\ row[u] \in Row
      /\ c.entity.verified => inbox[u] # {}
  BY CallKnown DEF Mail
<1>2. c.entity.token \in Tokens
  BY DEF Mail, IInv, EntityKnows
<1>3. /\ inbox' \in [Accounts -> SUBSET Tokens]
      /\ \A v \in Accounts : inbox[v] \subseteq inbox'[v]
  BY <1>1, <1>2 DEF Mail, IInv, TypeOK
<1>4. Grows /\ TablesOK' /\ VerifiedByMail' /\ NamesAreUnique'
  BY <1>3 DEF Mail, Grows, TablesOK, IInv, TypeOK, VerifiedByMail, NamesAreUnique
<1>5. CASE Return(w)
  <2>1. Knows(NoCall, row', inbox')
    BY DEF NoCall, Knows
  <2>2. QED
    BY <1>4, <1>5, <2>1, NoCallKnows, HandlerMoves DEF Return
<1>6. CASE Become(w, Saving(c, e))
  <2>1. e \in Row /\ e.verified = c.entity.verified
    BY <1>1 DEF Row
  <2>2. Saving(c, e) \in Calls
    BY <1>1, <2>1 DEF Saving, Calls, Pcs
  <2>3. Knows(Saving(c, e), row', inbox')
    BY <1>1, <1>3, <2>1 DEF Mail, Knows, Saving, Calls
  <2>4. QED
    BY <1>4, <1>6, <2>2, <2>3, HandlerMoves
<1>7. QED
  BY <1>5, <1>6 DEF Mail

\* The session token is signed for an entity loaded before.
LEMMA LoginSignKeeps ==
  ASSUME NEW w \in Workers, IInv, LoginSign(w)
  PROVE  IInv'
<1>1. /\ call[w].user \in Accounts
      /\ call[w].entity.verified => inbox[call[w].user] # {}
  BY CallKnown DEF LoginSign
<1>2. Grows /\ TablesOK' /\ VerifiedByMail' /\ NamesAreUnique'
  BY <1>1 DEF LoginSign, Grows, TablesOK, IInv, TypeOK, VerifiedByMail, NamesAreUnique
<1>3. Knows(NoCall, row', inbox')
  BY DEF NoCall, Knows
<1>4. QED
  BY <1>2, <1>3, NoCallKnows, HandlerMoves DEF LoginSign, Return

\* The availability check of a username, and the patch of the entity.
LEMMA NameCheckKeeps ==
  ASSUME NEW w \in Workers, IInv, NameCheck(w)
  PROVE  IInv'
<1> DEFINE c == call[w]
           e == Patched(c.entity, c.dto)
<1>1. /\ c \in Calls /\ c.user \in Accounts /\ c.entity \in Row /\ row[c.user] # None
      /\ c.entity.verified => inbox[c.user] # {}
  BY CallKnown DEF NameCheck
<1>2. c.dto \in Profile
  BY DEF NameCheck, IInv, EntityKnows
<1>3. e \in Row /\ e.verified = c.entity.verified
  BY <1>1, <1>2, ZenonT(60) DEF Patched, Row, Profile
<1>4. Saving(c, e) \in Calls /\ EntityKnows(Saving(c, e))
  BY <1>1, <1>3, SavingKnows
<1>5. nextToken' \in 1..(MaxTokens + 1)
  BY DEF NameCheck, IInv, TypeOK
<1>6. CASE Return(w)
  BY <1>6, ReturnAlone DEF NameCheck
<1>7. CASE Become(w, Saving(c, e))
  BY <1>4, <1>5, <1>7, HandlerMovesAlone DEF NameCheck
<1>8. QED
  BY <1>6, <1>7 DEF NameCheck

\* The password is compared, and the entity anonymized.
LEMMA DeletePasswordKeeps ==
  ASSUME NEW w \in Workers, IInv, DeletePassword(w)
  PROVE  IInv'
<1> DEFINE c == call[w]
           e == [c.entity EXCEPT !.gone = TRUE, !.name = None, !.full = FALSE]
<1>1. /\ c \in Calls /\ c.user \in Accounts /\ c.entity \in Row /\ row[c.user] # None
      /\ c.entity.verified => inbox[c.user] # {}
  BY CallKnown DEF DeletePassword
<1>2. e \in Row /\ e.verified = c.entity.verified
  BY <1>1 DEF Row
<1>3. Saving(c, e) \in Calls /\ EntityKnows(Saving(c, e))
  BY <1>1, <1>2, SavingKnows
<1>4. nextToken' \in 1..(MaxTokens + 1)
  BY DEF DeletePassword, IInv, TypeOK
<1>5. CASE Return(w)
  BY <1>5, ReturnAlone DEF DeletePassword
<1>6. CASE Become(w, Saving(c, e))
  BY <1>3, <1>4, <1>6, HandlerMovesAlone DEF DeletePassword
<1>7. QED
  BY <1>5, <1>6 DEF DeletePassword

\* A call that starts with the row it loads.
LEMMA BeginKeeps ==
  ASSUME NEW w \in Workers, NEW u \in Accounts, IInv,
         \/ RegisterBegin(w, u) \/ ResendBegin(w, u) \/ LoginBegin(w, u) \/ DeleteBegin(w, u)
         \/ \E t \in Tokens : VerifyBegin(w, u, t)
         \/ \E dto \in Updates : ProfileBegin(w, u, dto)
  PROVE  IInv'
<1>1. Found(u) => /\ row[u] \in Row /\ row[u] # None
                  /\ row[u].verified => inbox[u] # {}
  BY DEF Found, IInv, TypeOK, VerifiedByMail
<1>2. nextToken' = nextToken => nextToken' \in 1..(MaxTokens + 1)
  BY DEF IInv, TypeOK
<1>3. CASE RegisterBegin(w, u)
  <2> DEFINE c == [NoCall EXCEPT !.pc = "insert", !.kind = "register", !.user = u]
  <2>1. c \in Calls /\ EntityKnows(c)
    BY DEF NoCall, Calls, Pcs, Kinds, EntityKnows
  <2>2. QED
    BY <1>2, <1>3, <2>1, HandlerMovesAlone DEF RegisterBegin, Start
<1>4. CASE ResendBegin(w, u)
  <2> DEFINE c == [NoCall EXCEPT !.kind = "resend", !.user = u]
             e == [row[u] EXCEPT !.token = nextToken]
  <2>1. c \in Calls /\ c.user = u
    BY DEF NoCall, Calls, Pcs, Kinds
  <2>2. e \in Row /\ e.verified = row[u].verified
    BY <1>1, <1>4 DEF ResendBegin, Row
  <2>3. Saving(c, e) \in Calls /\ EntityKnows(Saving(c, e))
    BY <1>1, <1>4, <2>1, <2>2, SavingKnows DEF ResendBegin
  <2>4. nextToken' \in 1..(MaxTokens + 1)
    BY <1>4 DEF ResendBegin, Tokens
  <2>5. QED
    BY <1>4, <2>3, <2>4, HandlerMovesAlone DEF ResendBegin, Start
<1>5. CASE LoginBegin(w, u)
  <2> DEFINE c == [NoCall EXCEPT !.pc = "sign", !.kind = "login", !.user = u,
                                 !.entity = row[u]]
  <2>1. c \in Calls /\ EntityKnows(c)
    BY <1>1, <1>5 DEF LoginBegin, NoCall, Calls, Pcs, Kinds, EntityKnows
  <2>2. QED
    BY <1>2, <1>5, <2>1, HandlerMovesAlone DEF LoginBegin, Start
<1>6. CASE DeleteBegin(w, u)
  <2> DEFINE c == [NoCall EXCEPT !.pc = "password", !.kind = "delete", !.user = u,
                                 !.entity = row[u]]
  <2>1. c \in Calls /\ EntityKnows(c)
    BY <1>1, <1>6 DEF DeleteBegin, Authenticated, NoCall, Calls, Pcs, Kinds, EntityKnows
  <2>2. QED
    BY <1>2, <1>6, <2>1, HandlerMovesAlone DEF DeleteBegin, Start
<1>7. ASSUME NEW t \in Tokens, VerifyBegin(w, u, t) PROVE IInv'
  <2> DEFINE c == [NoCall EXCEPT !.kind = "verify", !.user = u, !.token = t]
             e == [row[u] EXCEPT !.verified = TRUE, !.token = None]
  <2>1. c \in Calls /\ c.user = u
    BY DEF NoCall, Calls, Pcs, Kinds
  <2>2. e \in Row /\ inbox[u] # {}
    BY <1>1, <1>7 DEF VerifyBegin, Row
  <2>3. Saving(c, e) \in Calls /\ EntityKnows(Saving(c, e))
    BY <1>1, <1>7, <2>1, <2>2, SavingKnows DEF VerifyBegin
  <2>4. QED
    BY <1>2, <1>7, <2>3, HandlerMovesAlone DEF VerifyBegin, Start
<1>8. ASSUME NEW dto \in Updates, ProfileBegin(w, u, dto) PROVE IInv'
  <2> DEFINE c == [NoCall EXCEPT !.pc = "nameCheck", !.kind = "profile", !.user = u,
                                 !.entity = row[u], !.dto = dto]
  <2>1. c \in Calls /\ EntityKnows(c)
    BY <1>1, <1>8 DEF ProfileBegin, Authenticated, NoCall, Calls, Pcs, Kinds, EntityKnows
  <2>2. QED
    BY <1>2, <1>8, <2>1, HandlerMovesAlone DEF ProfileBegin, Start
<1>9. QED
  BY <1>3, <1>4, <1>5, <1>6, <1>7, <1>8

\* Every step keeps the invariant.
LEMMA NextIInv == IInv /\ [Next]_vars => IInv'
<1> SUFFICES ASSUME IInv, [Next]_vars PROVE IInv'
  OBVIOUS
<1>1. CASE UNCHANGED vars
  BY <1>1 DEF vars, IInv, TypeOK, EntityKnows, NamesAreUnique, VerifiedByMail
<1>2. ASSUME NEW w \in Workers, CallFails(w) PROVE IInv'
  BY <1>2, ReturnAlone DEF CallFails
<1>3. QED
  BY <1>1, <1>2, BeginKeeps, RegisterInsertKeeps, MailKeeps, LoginSignKeeps,
     NameCheckKeeps, DeletePasswordKeeps, SaveSelectKeeps, SaveUpdateKeeps
  DEF Next, Begin

\* Rows, entities in flight and mailboxes agree in every reachable state.
THEOREM InductiveInvariant == Spec => []IInv
  BY InitIInv, NextIInv, PTL DEF Spec

\* No two accounts ever share a username, however stale the entities are.
THEOREM UniqueNames == Spec => []NamesAreUnique
<1>1. IInv => NamesAreUnique
  BY DEF IInv
<1>2. QED
  BY <1>1, InductiveInvariant, PTL

\* Nobody is verified or signed in whose mailbox no token has reached.
THEOREM VerifiedOnlyByMail == Spec => []VerifiedByMail
<1>1. IInv => VerifiedByMail
  BY DEF IInv
<1>2. QED
  BY <1>1, InductiveInvariant, PTL
-----------------------------------------------------------------------------
\* One call at a time, no statement fails: what the call in flight knows of the
\* tokens of its account, for the rows r and the mailboxes b.

Mailed(u, r, b) == r[u] # None => r[u].token \in b[u] \cup {None}

Differs(e, r) == {k \in Columns : e[k] # r[k]}

TokenKnown(c, r, b) ==
  /\ c.pc = "insert" => c.kind = "register" /\ Mailed(c.user, r, b)
  /\ c.pc \in {"sign", "nameCheck", "password"} =>
       /\ Mailed(c.user, r, b) /\ c.entity = r[c.user]
       /\ c.kind \notin {"register", "resend"}
  /\ c.pc \in {"saveSelect", "saveUpdate"} =>
       /\ c.kind = "resend" \/ c.entity.token \in b[c.user] \cup {None}
       /\ \/ Mailed(c.user, r, b)
          \/ /\ c.kind \in {"register", "resend"}
             /\ c.entity.name = r[c.user].name /\ c.entity.token = None
       /\ c.kind = "resend" => c.entity.name = r[c.user].name
  /\ c.pc = "saveUpdate" => c.diff = Differs(c.entity, r[c.user])
  /\ c.pc = "mail" =>
       /\ r[c.user].token = c.entity.token /\ r[c.user].name = c.entity.name
       /\ c.kind \in {"register", "resend"}

TokensInv == TokenIsMailed /\ \A w \in Workers : TokenKnown(call[w], row, inbox)

Sequential == ~Faults /\ \A v, w \in Workers : v = w

\* The token and the name are columns.
LEMMA ColumnsDiffer ==
  ASSUME NEW e \in Row, NEW r \in Row
  PROVE  /\ "token" \in Differs(e, r) <=> e.token # r.token
         /\ "name" \in Differs(e, r) <=> e.name # r.name
<1>1. e["token"] = e.token /\ r["token"] = r.token /\ e["name"] = e.name /\ r["name"] = r.name
  BY DEF Row
<1>2. QED
  BY <1>1 DEF Differs, Columns

\* A save that has written its row has written the token and the name.
LEMMA MergedToken ==
  ASSUME NEW e \in Row, NEW r \in Row
  PROVE  /\ Merged(r, e, Differs(e, r)).token = e.token
         /\ Merged(r, e, Differs(e, r)).name = e.name
  BY ColumnsDiffer DEF Merged

\* When the one worker moves on, only its account matters.
LEMMA OneMoves ==
  ASSUME NEW w \in Workers, NEW c \in Calls, Sequential, TokensInv, IInv, Become(w, c),
         call[w].pc = "idle" \/ c.pc = "idle" \/ c.user = call[w].user,
         \A u \in Accounts : (call[w].pc # "idle" /\ u = call[w].user)
                              \/ (row'[u] = row[u] /\ inbox[u] \subseteq inbox'[u]),
         TokenKnown(c, row', inbox'),
         c.pc = "idle" /\ call[w].pc # "idle" => Mailed(call[w].user, row', inbox')
  PROVE  TokensInv'
<1>1. call'[w] = c /\ \A v \in Workers : v = w
  BY DEF Become, IInv, TypeOK, Sequential
<1>2. ASSUME NEW u \in Accounts, row'[u] # None, ~Busy(u)'
      PROVE  row'[u].token \in inbox'[u] \cup {None}
  <2>1. c.pc = "idle" \/ c.user # u
    BY <1>1, <1>2 DEF Busy
  <2>2. CASE call[w].pc # "idle" /\ call[w].user = u
    BY <1>2, <2>1, <2>2 DEF Mailed
  <2>3. CASE call[w].pc = "idle" \/ call[w].user # u
    <3>1. ~Busy(u)
      BY <1>1, <2>3 DEF Busy
    <3>2. QED
      BY <1>2, <2>1, <2>3, <3>1 DEF TokensInv, TokenIsMailed
  <2>4. QED
    BY <2>2, <2>3
<1>3. QED
  BY <1>1, <1>2 DEF TokensInv, TokenIsMailed

\* A call that starts finds the tokens of its account mailed.
LEMMA BeginTokens ==
  ASSUME NEW w \in Workers, Sequential, TokensInv, IInv, Begin(w) PROVE TokensInv'
<1>1. ASSUME NEW c \in Calls, Start(w, c), UNCHANGED <<row, inbox>>,
             c.user \in Accounts, c.pc # "idle",
             Mailed(c.user, row, inbox) => TokenKnown(c, row, inbox)
      PROVE  TokensInv'
  <2>1. call[w].pc = "idle" /\ \A v \in Workers : v = w
    BY <1>1 DEF Start, Sequential
  <2>2. ~Busy(c.user)
    BY <2>1 DEF Busy
  <2>3. Mailed(c.user, row, inbox)
    BY <1>1, <2>2 DEF TokensInv, TokenIsMailed, Mailed
  <2>4. QED
    BY <1>1, <2>1, <2>3, OneMoves DEF Start
<1>2. ASSUME NEW u \in Accounts, Found(u) PROVE row[u] \in Row
  BY <1>2 DEF Found, IInv, TypeOK
<1>3. ASSUME NEW u \in Accounts, RegisterBegin(w, u) PROVE TokensInv'
  <2> DEFINE c == [NoCall EXCEPT !.pc = "insert", !.kind = "register", !.user = u]
  <2>1. c \in Calls /\ c.user = u /\ c.pc = "insert"
    BY DEF NoCall, Calls, Pcs, Kinds
  <2>2. Mailed(u, row, inbox) => TokenKnown(c, row, inbox)
    BY <2>1 DEF TokenKnown
  <2> HIDE DEF c
  <2>3. QED
    BY <1>1, <1>3, <2>1, <2>2 DEF RegisterBegin, c
<1>4. ASSUME NEW u \in Accounts, ResendBegin(w, u) PROVE TokensInv'
  <2> DEFINE e == [row[u] EXCEPT !.token = nextToken]
             c == Saving([NoCall EXCEPT !.kind = "resend", !.user = u], e)
  <2>1. e \in Row /\ e.name = row[u].name
    BY <1>2, <1>4 DEF ResendBegin, Row
  <2>2. /\ c \in Calls /\ c.user = u /\ c.pc = "saveSelect" /\ c.kind = "resend"
        /\ c.entity = e
    BY <2>1 DEF Saving, NoCall, Calls, Pcs, Kinds
  <2> HIDE DEF c, e
  <2>3. Mailed(u, row, inbox) => TokenKnown(c, row, inbox)
    BY <2>1, <2>2 DEF TokenKnown
  <2>4. QED
    BY <1>1, <1>4, <2>2, <2>3 DEF ResendBegin, c, e
<1>5. ASSUME NEW u \in Accounts, NEW t \in Tokens, VerifyBegin(w, u, t) PROVE TokensInv'
  <2> DEFINE e == [row[u] EXCEPT !.verified = TRUE, !.token = None]
             c == Saving([NoCall EXCEPT !.kind = "verify", !.user = u, !.token = t], e)
  <2>1. e \in Row /\ e.token = None
    BY <1>2, <1>5 DEF VerifyBegin, Row
  <2>2. /\ c \in Calls /\ c.user = u /\ c.pc = "saveSelect" /\ c.kind = "verify"
        /\ c.entity = e
    BY <2>1 DEF Saving, NoCall, Calls, Pcs, Kinds
  <2> HIDE DEF c, e
  <2>3. Mailed(u, row, inbox) => TokenKnown(c, row, inbox)
    BY <2>1, <2>2 DEF TokenKnown
  <2>4. QED
    BY <1>1, <1>5, <2>2, <2>3 DEF VerifyBegin, c, e
<1>6. ASSUME NEW u \in Accounts, LoginBegin(w, u) PROVE TokensInv'
  <2> DEFINE c == [NoCall EXCEPT !.pc = "sign", !.kind = "login", !.user = u, !.entity = row[u]]
  <2>1. /\ c \in Calls /\ c.user = u /\ c.pc = "sign" /\ c.kind = "login"
        /\ c.entity = row[u]
    BY <1>2, <1>6 DEF LoginBegin, NoCall, Calls, Pcs, Kinds
  <2> HIDE DEF c
  <2>2. Mailed(u, row, inbox) => TokenKnown(c, row, inbox)
    BY <2>1 DEF TokenKnown
  <2>3. QED
    BY <1>1, <1>6, <2>1, <2>2 DEF LoginBegin, c
<1>7. ASSUME NEW u \in Accounts, DeleteBegin(w, u) PROVE TokensInv'
  <2> DEFINE c == [NoCall EXCEPT !.pc = "password", !.kind = "delete", !.user = u,
                                 !.entity = row[u]]
  <2>1. /\ c \in Calls /\ c.user = u /\ c.pc = "password" /\ c.kind = "delete"
        /\ c.entity = row[u]
    BY <1>2, <1>7 DEF DeleteBegin, Authenticated, NoCall, Calls, Pcs, Kinds
  <2> HIDE DEF c
  <2>2. Mailed(u, row, inbox) => TokenKnown(c, row, inbox)
    BY <2>1 DEF TokenKnown
  <2>3. QED
    BY <1>1, <1>7, <2>1, <2>2 DEF DeleteBegin, c
<1>8. ASSUME NEW u \in Accounts, NEW dto \in Updates, ProfileBegin(w, u, dto) PROVE TokensInv'
  <2> DEFINE c == [NoCall EXCEPT !.pc = "nameCheck", !.kind = "profile", !.user = u,
                                 !.entity = row[u], !.dto = dto]
  <2>1. /\ c \in Calls /\ c.user = u /\ c.pc = "nameCheck" /\ c.kind = "profile"
        /\ c.entity = row[u]
    BY <1>2, <1>8 DEF ProfileBegin, Authenticated, NoCall, Calls, Pcs, Kinds
  <2> HIDE DEF c
  <2>2. Mailed(u, row, inbox) => TokenKnown(c, row, inbox)
    BY <2>1 DEF TokenKnown
  <2>3. QED
    BY <1>1, <1>8, <2>1, <2>2 DEF ProfileBegin, c
<1>9. QED
  BY <1>3, <1>4, <1>5, <1>6, <1>7, <1>8 DEF Begin

\* A call that ends, or goes on, without having changed a table.
LEMMA StaysAlone ==
  ASSUME NEW w \in Workers, NEW c \in Calls, Sequential, TokensInv, IInv, Become(w, c),
         ~At(w, "idle"), c.pc = "idle" \/ c.user = call[w].user,
         UNCHANGED <<row, inbox>>, TokenKnown(c, row, inbox),
         c.pc = "idle" => Mailed(call[w].user, row, inbox)
  PROVE  TokensInv'
<1>1. TokenKnown(c, row', inbox') /\ (c.pc = "idle" => Mailed(call[w].user, row', inbox'))
  BY DEF TokenKnown, Mailed
<1>2. QED
  BY <1>1, OneMoves

\* What is known of no call.
LEMMA IdleTokens == \A r, b : TokenKnown(NoCall, r, b)
  BY DEF TokenKnown, NoCall

\* What follows the save of an entity that the row agrees with.
LEMMA AfterSaveTokens ==
  ASSUME NEW c \in Calls, NEW r, NEW b, c.user \in Accounts, c.entity \in Row,
         r[c.user].token = c.entity.token, r[c.user].name = c.entity.name,
         c.kind = "resend" \/ c.entity.token \in b[c.user] \cup {None}
  PROVE  /\ TokenKnown(AfterSave(c), r, b)
         /\ AfterSave(c).pc = "idle" \/ AfterSave(c).user = c.user
         /\ AfterSave(c).pc = "idle" => Mailed(c.user, r, b)
<1>1. CASE c.kind = "resend" /\ c.entity.token # None
  <2> DEFINE d == [c EXCEPT !.pc = "mail", !.diff = {}]
  <2>1. /\ d.pc = "mail" /\ d.user = c.user /\ d.kind = "resend" /\ d.entity = c.entity
    BY <1>1 DEF Calls
  <2>2. AfterSave(c) = d
    BY <1>1 DEF AfterSave
  <2> HIDE DEF d
  <2>3. QED
    BY <2>1, <2>2 DEF TokenKnown
<1>2. CASE ~(c.kind = "resend" /\ c.entity.token # None)
  <2>1. AfterSave(c) = NoCall /\ NoCall.pc = "idle"
    BY <1>2 DEF AfterSave, NoCall
  <2>2. c.entity.token \in b[c.user] \cup {None}
    BY <1>2
  <2>3. QED
    BY <2>1, <2>2, IdleTokens DEF Mailed
<1>3. QED
  BY <1>1, <1>2

\* Every other step of the call keeps what it knows.
LEMMA StepTokens ==
  ASSUME NEW w \in Workers, Sequential, TokensInv, IInv,
         \/ RegisterInsert(w) \/ Mail(w) \/ LoginSign(w) \/ NameCheck(w) \/ DeletePassword(w)
         \/ SaveSelect(w) \/ SaveUpdate(w)
  PROVE  TokensInv'
<1> DEFINE c == call[w]
<1>1. /\ c \in Calls /\ c.user \in Accounts /\ TokenKnown(c, row, inbox)
      /\ c.pc # "idle"
      /\ c.pc # "insert" => c.entity \in Row /\ row[c.user] \in Row
  BY CallKnown DEF TokensInv, RegisterInsert, Mail, LoginSign, NameCheck, DeletePassword,
     SaveSelect, SaveUpdate
<1>2. NoCall \in Calls /\ NoCall.pc = "idle" /\ TokenKnown(NoCall, row, inbox)
  BY NoCallKnows, IdleTokens DEF NoCall
<1>3. CASE RegisterInsert(w)
  <2> DEFINE new == [verified |-> FALSE, token |-> nextToken, name |-> None,
                     full |-> FALSE, done |-> FALSE, gone |-> FALSE]
             d == [c EXCEPT !.pc = "mail", !.entity = new]
  <2>1. CASE row[c.user] # None /\ Return(w) /\ UNCHANGED <<row, nextToken>>
    BY <1>1, <1>2, <1>3, <2>1, StaysAlone DEF RegisterInsert, Return, TokenKnown
  <2>2. CASE /\ nextToken \in Tokens /\ row' = [row EXCEPT ![c.user] = new] /\ Become(w, d)
    <3>1. new \in Row /\ new.token = nextToken /\ new.name = None
      BY <2>2 DEF Row
    <3> HIDE DEF new
    <3>2. /\ d \in Calls /\ d.pc = "mail" /\ d.user = c.user /\ d.entity = new
          /\ d.kind = c.kind
      BY <1>1, <3>1 DEF Calls, Pcs
    <3>3. c.kind = "register"
      BY <1>1, <1>3 DEF RegisterInsert, TokenKnown
    <3>4. row'[c.user] = new /\ \A u \in Accounts \ {c.user} : row'[u] = row[u]
      BY <1>1, <2>2 DEF IInv, TypeOK
    <3> HIDE DEF d
    <3>5. TokenKnown(d, row', inbox')
      BY <3>2, <3>3, <3>4 DEF TokenKnown
    <3>6. QED
      BY <1>1, <1>3, <2>2, <3>2, <3>4, <3>5, OneMoves DEF RegisterInsert
  <2>3. QED
    BY <1>3, <2>1, <2>2 DEF RegisterInsert
<1>4. CASE Mail(w)
  <2> DEFINE e == [c.entity EXCEPT !.token = None]
             d == Saving(c, e)
  <2>1. /\ inbox' \in [Accounts -> SUBSET Tokens] /\ inbox'[c.user] \in SUBSET Tokens
        /\ \A u \in Accounts : inbox[u] \subseteq inbox'[u]
        /\ row' = row
    BY <1>1, <1>4 DEF Mail, IInv, TypeOK, EntityKnows
  <2>2. CASE Return(w) /\ inbox' = [inbox EXCEPT ![c.user] = @ \cup {c.entity.token}]
    <3>1. c.entity.token \in inbox'[c.user]
      BY <1>1, <2>2 DEF IInv, TypeOK
    <3>2. Mailed(c.user, row', inbox') /\ TokenKnown(NoCall, row', inbox')
      BY <1>1, <1>4, <2>1, <3>1, IdleTokens DEF Mail, Mailed, TokenKnown
    <3>3. QED
      BY <1>1, <1>2, <2>1, <2>2, <3>2, OneMoves DEF Return
  <2>3. CASE Become(w, d)
    <3>1. e \in Row /\ e.token = None /\ e.name = c.entity.name
      BY <1>1, <1>4 DEF Mail, Row
    <3> HIDE DEF e
    <3>2. /\ d \in Calls /\ d.pc = "saveSelect" /\ d.user = c.user /\ d.entity = e
          /\ d.kind = c.kind
      BY <1>1, <3>1 DEF Saving, Calls, Pcs
    <3> HIDE DEF d
    <3>3. TokenKnown(d, row', inbox')
      BY <1>1, <1>4, <2>1, <3>1, <3>2 DEF Mail, TokenKnown
    <3>4. QED
      BY <1>1, <2>1, <2>3, <3>2, <3>3, OneMoves
  <2>4. QED
    BY <1>4, <2>2, <2>3 DEF Mail
<1>5. CASE LoginSign(w)
  BY <1>1, <1>2, <1>5, StaysAlone DEF LoginSign, Return, TokenKnown
<1>6. CASE NameCheck(w)
  <2> DEFINE e == Patched(c.entity, c.dto)
             d == Saving(c, e)
  <2>1. CASE Return(w)
    BY <1>1, <1>2, <1>6, <2>1, StaysAlone DEF NameCheck, Return, TokenKnown
  <2>2. CASE Become(w, d)
    <3>1. c.dto \in Profile
      BY <1>6 DEF NameCheck, IInv, EntityKnows
    <3>2. e \in Row /\ e.token = c.entity.token
      <4> DEFINE n == IF c.dto.name # None THEN c.dto.name ELSE c.entity.name
                 f == IF c.dto.full # None THEN c.dto.full ELSE c.entity.full
      <4>1. c.entity \in Row
        BY <1>1, <1>6 DEF NameCheck
      <4>2. n \in Names \cup {None} /\ f \in BOOLEAN
        BY <3>1, <4>1 DEF Profile, Row
      <4>3. e = [c.entity EXCEPT !.name = n, !.full = f, !.done = n # None /\ f]
        BY DEF Patched
      <4> HIDE DEF n, f, e
      <4>4. QED
        BY <4>1, <4>2, <4>3 DEF Row
    <3> HIDE DEF e
    <3>3. /\ d \in Calls /\ d.pc = "saveSelect" /\ d.user = c.user /\ d.entity = e
          /\ d.kind = c.kind
      BY <1>1, <3>2 DEF Saving, Calls, Pcs
    <3> HIDE DEF d
    <3>4. TokenKnown(d, row, inbox)
      BY <1>1, <1>6, <3>2, <3>3 DEF NameCheck, TokenKnown, Mailed
    <3>5. QED
      BY <1>1, <1>6, <2>2, <3>3, <3>4, StaysAlone DEF NameCheck
  <2>3. QED
    BY <1>6, <2>1, <2>2 DEF NameCheck
<1>7. CASE DeletePassword(w)
  <2> DEFINE e == [c.entity EXCEPT !.gone = TRUE, !.name = None, !.full = FALSE]
             d == Saving(c, e)
  <2>1. CASE Return(w)
    BY <1>1, <1>2, <1>7, <2>1, StaysAlone DEF DeletePassword, Return, TokenKnown
  <2>2. CASE Become(w, d)
    <3>1. e \in Row /\ e.token = c.entity.token
      BY <1>1, <1>7 DEF DeletePassword, Row
    <3> HIDE DEF e
    <3>2. /\ d \in Calls /\ d.pc = "saveSelect" /\ d.user = c.user /\ d.entity = e
          /\ d.kind = c.kind
      BY <1>1, <3>1 DEF Saving, Calls, Pcs
    <3> HIDE DEF d
    <3>3. TokenKnown(d, row, inbox)
      BY <1>1, <1>7, <3>1, <3>2 DEF DeletePassword, TokenKnown, Mailed
    <3>4. QED
      BY <1>1, <1>7, <2>2, <3>2, <3>3, StaysAlone DEF DeletePassword
  <2>3. QED
    BY <1>7, <2>1, <2>2 DEF DeletePassword
<1>8. CASE SaveSelect(w)
  <2> DEFINE diff == Differs(c.entity, row[c.user])
             d == [c EXCEPT !.pc = "saveUpdate", !.diff = diff]
  <2>1. CASE diff = {} /\ Become(w, AfterSave(c))
    <3>1. c.entity.token = row[c.user].token /\ c.entity.name = row[c.user].name
      BY <1>1, <1>8, <2>1, ColumnsDiffer DEF SaveSelect
    <3>2. c.kind = "resend" \/ c.entity.token \in inbox[c.user] \cup {None}
      BY <1>1, <1>8 DEF SaveSelect, TokenKnown
    <3>3. AfterSave(c) \in Calls
      BY <1>1, <1>8, AfterSaveKnows DEF SaveSelect, IInv, EntityKnows
    <3>4. QED
      BY <1>1, <1>8, <2>1, <3>1, <3>2, <3>3, AfterSaveTokens, StaysAlone DEF SaveSelect
  <2>2. CASE Become(w, d)
    <3>1. /\ d \in Calls /\ d.pc = "saveUpdate" /\ d.user = c.user /\ d.entity = c.entity
          /\ d.kind = c.kind /\ d.diff = diff
      BY <1>1 DEF Calls, Pcs, Differs
    <3> HIDE DEF d
    <3>2. TokenKnown(d, row, inbox)
      BY <1>1, <1>8, <3>1 DEF SaveSelect, TokenKnown
    <3>3. QED
      BY <1>1, <1>8, <2>2, <3>1, <3>2, StaysAlone DEF SaveSelect
  <2>3. QED
    BY <1>8, <2>1, <2>2 DEF SaveSelect, Differs
<1>9. CASE SaveUpdate(w)
  <2> DEFINE new == Merged(row[c.user], c.entity, c.diff)
  <2>1. /\ c.diff = Differs(c.entity, row[c.user])
        /\ c.kind = "resend" \/ c.entity.token \in inbox[c.user] \cup {None}
    BY <1>1, <1>9 DEF SaveUpdate, TokenKnown
  <2>2. CASE "name" \in c.diff /\ Return(w) /\ UNCHANGED row
    <3>1. c.entity.name # row[c.user].name
      BY <1>1, <1>9, <2>1, <2>2, ColumnsDiffer DEF SaveUpdate
    <3>2. QED
      BY <1>1, <1>2, <1>9, <2>2, <3>1, StaysAlone DEF SaveUpdate, Return, TokenKnown
  <2>3. CASE row' = [row EXCEPT ![c.user] = new] /\ Become(w, AfterSave(c))
    <3>1. new.token = c.entity.token /\ new.name = c.entity.name
      BY <1>1, <1>9, <2>1, MergedToken DEF SaveUpdate
    <3> HIDE DEF new
    <3>2. row'[c.user] = new /\ \A u \in Accounts \ {c.user} : row'[u] = row[u]
      BY <1>1, <2>3 DEF IInv, TypeOK
    <3>3. inbox' = inbox
      BY <1>9 DEF SaveUpdate
    <3>4. AfterSave(c) \in Calls
      BY <1>1, <1>9, AfterSaveKnows DEF SaveUpdate, IInv, EntityKnows
    <3>5. /\ TokenKnown(AfterSave(c), row', inbox')
          /\ AfterSave(c).pc = "idle" \/ AfterSave(c).user = c.user
          /\ AfterSave(c).pc = "idle" => Mailed(c.user, row', inbox')
      BY <1>1, <1>9, <2>1, <3>1, <3>2, <3>3, AfterSaveTokens DEF SaveUpdate
    <3>6. QED
      BY <1>1, <2>3, <3>2, <3>3, <3>4, <3>5, OneMoves
  <2>4. QED
    BY <1>9, <2>2, <2>3 DEF SaveUpdate
<1>10. QED
  BY <1>3, <1>4, <1>5, <1>6, <1>7, <1>8, <1>9

\* One call at a time, and while no statement fails, no account is left with a
\* token whose mail never arrived: a failed delivery takes its token back.
THEOREM TokensReachMailboxes ==
  ASSUME Sequential PROVE Spec => []TokenIsMailed
<1>1. Init => TokensInv
  BY IdleTokens DEF Init, TokensInv, TokenIsMailed
<1>2. IInv /\ TokensInv /\ [Next]_vars => TokensInv'
  <2> SUFFICES ASSUME IInv, TokensInv, [Next]_vars PROVE TokensInv'
    OBVIOUS
  <2>1. CASE UNCHANGED vars
    BY <2>1 DEF vars, TokensInv, TokenIsMailed, TokenKnown, Mailed, Busy
  <2>2. CASE Next
    BY <2>2, BeginTokens, StepTokens DEF Next, CallFails, Sequential
  <2>3. QED
    BY <2>1, <2>2
<1>3. TokensInv => TokenIsMailed
  BY DEF TokensInv
<1>4. QED
  BY <1>1, <1>2, <1>3, InductiveInvariant, PTL DEF Spec
-----------------------------------------------------------------------------
\* One call at a time, whether or not statements fail: every write of a row is
\* a step of the life that AccountLife describes.

Alone == \A v, w \in Workers : v = w

\* An entity e that may be saved over the row r of an account not yet deleted:
\* an unverified account with another token or none, a verification that spends
\* the token the row holds, or a verified account, possibly deleted.
Passes(r, e) ==
  \/ ~r.verified /\ ~e.verified /\ ~e.gone
  \/ ~r.verified /\ r.token # None /\ e.verified /\ e.token = None /\ ~e.gone
  \/ r.verified /\ e.verified /\ r.token = None /\ e.token = None

\* What the call in flight knows of the row of its account.
LifeKnown(c, r) ==
  /\ c.pc \in {"sign", "nameCheck", "password", "mail"} =>
       c.entity = r[c.user] /\ ~c.entity.gone
  /\ c.pc \in {"nameCheck", "password"} => c.entity.verified /\ c.kind # "resend"
  /\ c.pc = "mail" => ~c.entity.verified
  /\ c.pc \in {"saveSelect", "saveUpdate"} =>
       /\ ~r[c.user].gone /\ Passes(r[c.user], c.entity)
       /\ c.kind = "resend" => ~c.entity.verified
  /\ c.pc = "saveUpdate" => c.diff = Differs(c.entity, r[c.user])

\* A verified account has no token left, and only a verified one is deleted.
Spent(r) == (r.verified => r.token = None) /\ (r.gone => r.verified)

LifeInv ==
  /\ \A u \in Accounts : row[u] # None => Spent(row[u])
  /\ \A u \in sessions : row[u] # None /\ row[u].verified
  /\ \A w \in Workers : LifeKnown(call[w], row)

\* A save alone at work writes the whole entity.
LEMMA MergedWhole ==
  ASSUME NEW e \in Row, NEW r \in Row
  PROVE  Merged(r, e, Differs(e, r)) = e
<1> DEFINE m == Merged(r, e, Differs(e, r))
<1>1. /\ e["verified"] = e.verified /\ r["verified"] = r.verified
      /\ e["token"] = e.token /\ r["token"] = r.token
      /\ e["name"] = e.name /\ r["name"] = r.name
      /\ e["full"] = e.full /\ r["full"] = r.full
      /\ e["done"] = e.done /\ r["done"] = r.done
      /\ e["gone"] = e.gone /\ r["gone"] = r.gone
  BY DEF Row
<1>2. m.verified = e.verified /\ m.token = e.token /\ m.name = e.name
  BY <1>1 DEF Merged, Differs, Columns
<1>3. m.full = e.full /\ m.done = e.done /\ m.gone = e.gone
  BY <1>1 DEF Merged, Differs, Columns
<1>4. m = [verified |-> m.verified, token |-> m.token, name |-> m.name,
           full |-> m.full, done |-> m.done, gone |-> m.gone]
  BY DEF Merged
<1>5. e = [verified |-> e.verified, token |-> e.token, name |-> e.name,
           full |-> e.full, done |-> e.done, gone |-> e.gone]
  BY DEF Row
<1> HIDE DEF m
<1>6. m = e
  BY <1>2, <1>3, <1>4, <1>5
<1>7. QED
  BY <1>6 DEF m

\* An update of no column changes nothing.
LEMMA MergedNothing ==
  ASSUME NEW e, NEW r \in Row
  PROVE  Merged(r, e, {}) = r
<1>1. r = [verified |-> r.verified, token |-> r.token, name |-> r.name,
           full |-> r.full, done |-> r.done, gone |-> r.gone]
  BY DEF Row
<1>2. QED
  BY <1>1 DEF Merged

\* An entity without a column of its own is the row.
LEMMA SameRow ==
  ASSUME NEW e \in Row, NEW r \in Row, Differs(e, r) = {}
  PROVE  e = r
<1>1. Merged(r, e, {}) = r
  BY MergedNothing
<1>2. QED
  BY <1>1, MergedWhole

\* The call that is alone moves on, or ends.
LEMMA LifeMoves ==
  ASSUME NEW w \in Workers, NEW c \in Calls, Alone, LifeInv, IInv, Become(w, c),
         UNCHANGED <<row, sessions>>, LifeKnown(c, row)
  PROVE  LifeInv'
<1>1. call'[w] = c /\ \A v \in Workers : v = w
  BY DEF Become, IInv, TypeOK, Alone
<1>2. QED
  BY <1>1 DEF LifeInv, LifeKnown

\* The same when it writes the row of its account.
LEMMA LifeWrites ==
  ASSUME NEW w \in Workers, NEW c \in Calls, NEW u \in Accounts, NEW r \in Row,
         Alone, LifeInv, IInv, Become(w, c), row' = [row EXCEPT ![u] = r],
         UNCHANGED sessions, Spent(r), u \in sessions => r.verified, LifeKnown(c, row')
  PROVE  LifeInv'
<1>1. call'[w] = c /\ \A v \in Workers : v = w
  BY DEF Become, IInv, TypeOK, Alone
<1>2. row'[u] = r /\ (\A v \in Accounts : v # u => row'[v] = row[v]) /\ sessions \subseteq Accounts
  BY DEF IInv, TypeOK
<1>3. \A v \in Accounts : row'[v] # None => Spent(row'[v])
  BY <1>2 DEF LifeInv
<1>4. \A v \in sessions' : row'[v] # None /\ row'[v].verified
  BY <1>2, NoRowAssumption DEF LifeInv
<1>5. QED
  BY <1>1, <1>3, <1>4 DEF LifeInv

\* No call knows nothing.
LEMMA IdleLife == \A r : LifeKnown(NoCall, r)
  BY DEF LifeKnown, NoCall

\* A call that starts holds the row it has just loaded.
LEMMA BeginLife ==
  ASSUME NEW w \in Workers, Alone, LifeInv, IInv, Begin(w) PROVE LifeInv'
<1>1. ASSUME NEW u \in Accounts, Found(u)
      PROVE  row[u] \in Row /\ ~row[u].gone /\ Spent(row[u])
  BY <1>1 DEF Found, IInv, TypeOK, LifeInv
<1>2. ASSUME NEW u \in Accounts, RegisterBegin(w, u) PROVE LifeInv'
  <2> DEFINE c == [NoCall EXCEPT !.pc = "insert", !.kind = "register", !.user = u]
  <2>1. c \in Calls /\ c.pc = "insert"
    BY DEF NoCall, Calls, Pcs, Kinds
  <2>2. Become(w, c) /\ UNCHANGED <<row, sessions>>
    BY <1>2 DEF RegisterBegin, Start
  <2> HIDE DEF c
  <2>3. LifeKnown(c, row)
    BY <2>1 DEF LifeKnown
  <2>4. QED
    BY <2>1, <2>2, <2>3, LifeMoves
<1>3. ASSUME NEW u \in Accounts, ResendBegin(w, u) PROVE LifeInv'
  <2> DEFINE e == [row[u] EXCEPT !.token = nextToken]
             c == Saving([NoCall EXCEPT !.kind = "resend", !.user = u], e)
  <2>1. row[u] \in Row /\ ~row[u].gone /\ ~row[u].verified
    BY <1>1, <1>3 DEF ResendBegin
  <2>2. e \in Row /\ ~e.verified /\ ~e.gone
    BY <1>3, <2>1 DEF ResendBegin, Row
  <2>3. Become(w, c) /\ UNCHANGED <<row, sessions>>
    BY <1>3 DEF ResendBegin, Start
  <2> HIDE DEF e
  <2>4. c \in Calls /\ c.user = u /\ c.pc = "saveSelect" /\ c.entity = e
    BY <2>2 DEF Saving, NoCall, Calls, Pcs, Kinds
  <2> HIDE DEF c
  <2>5. LifeKnown(c, row)
    BY <2>1, <2>2, <2>4 DEF LifeKnown, Passes
  <2>6. QED
    BY <2>3, <2>4, <2>5, LifeMoves
<1>4. ASSUME NEW u \in Accounts, NEW t \in Tokens, VerifyBegin(w, u, t) PROVE LifeInv'
  <2> DEFINE e == [row[u] EXCEPT !.verified = TRUE, !.token = None]
             c == Saving([NoCall EXCEPT !.kind = "verify", !.user = u, !.token = t], e)
  <2>1. row[u] \in Row /\ ~row[u].gone /\ Spent(row[u]) /\ row[u].token = t /\ t # None
    BY <1>1, <1>4 DEF VerifyBegin
  <2>2. e \in Row /\ e.verified /\ e.token = None /\ ~e.gone
    BY <2>1 DEF Row
  <2>3. Become(w, c) /\ UNCHANGED <<row, sessions>>
    BY <1>4 DEF VerifyBegin, Start
  <2> HIDE DEF e
  <2>4. /\ c \in Calls /\ c.user = u /\ c.pc = "saveSelect" /\ c.entity = e
        /\ c.kind = "verify"
    BY <2>2 DEF Saving, NoCall, Calls, Pcs, Kinds
  <2> HIDE DEF c
  <2>5. LifeKnown(c, row)
    BY <2>1, <2>2, <2>4 DEF LifeKnown, Passes, Spent
  <2>6. QED
    BY <2>3, <2>4, <2>5, LifeMoves
<1>5. ASSUME NEW u \in Accounts, LoginBegin(w, u) PROVE LifeInv'
  <2> DEFINE c == [NoCall EXCEPT !.pc = "sign", !.kind = "login", !.user = u, !.entity = row[u]]
  <2>1. row[u] \in Row /\ ~row[u].gone
    BY <1>1, <1>5 DEF LoginBegin
  <2>2. c \in Calls /\ c.user = u /\ c.pc = "sign" /\ c.entity = row[u]
    BY <2>1 DEF NoCall, Calls, Pcs, Kinds
  <2>3. Become(w, c) /\ UNCHANGED <<row, sessions>>
    BY <1>5 DEF LoginBegin, Start
  <2> HIDE DEF c
  <2>4. LifeKnown(c, row)
    BY <2>1, <2>2 DEF LifeKnown
  <2>5. QED
    BY <2>2, <2>3, <2>4, LifeMoves
<1>6. ASSUME NEW u \in Accounts, DeleteBegin(w, u) PROVE LifeInv'
  <2> DEFINE c == [NoCall EXCEPT !.pc = "password", !.kind = "delete", !.user = u,
                                 !.entity = row[u]]
  <2>1. row[u] \in Row /\ ~row[u].gone /\ row[u].verified
    BY <1>1, <1>6 DEF DeleteBegin, Authenticated, LifeInv
  <2>2. /\ c \in Calls /\ c.user = u /\ c.pc = "password" /\ c.entity = row[u]
        /\ c.kind = "delete"
    BY <2>1 DEF NoCall, Calls, Pcs, Kinds
  <2>3. Become(w, c) /\ UNCHANGED <<row, sessions>>
    BY <1>6 DEF DeleteBegin, Start
  <2> HIDE DEF c
  <2>4. LifeKnown(c, row)
    BY <2>1, <2>2 DEF LifeKnown
  <2>5. QED
    BY <2>2, <2>3, <2>4, LifeMoves
<1>7. ASSUME NEW u \in Accounts, NEW dto \in Updates, ProfileBegin(w, u, dto) PROVE LifeInv'
  <2> DEFINE c == [NoCall EXCEPT !.pc = "nameCheck", !.kind = "profile", !.user = u,
                                 !.entity = row[u], !.dto = dto]
  <2>1. row[u] \in Row /\ ~row[u].gone /\ row[u].verified
    BY <1>1, <1>7 DEF ProfileBegin, Authenticated, LifeInv
  <2>2. /\ c \in Calls /\ c.user = u /\ c.pc = "nameCheck" /\ c.entity = row[u]
        /\ c.kind = "profile"
    BY <2>1 DEF NoCall, Calls, Pcs, Kinds
  <2>3. Become(w, c) /\ UNCHANGED <<row, sessions>>
    BY <1>7 DEF ProfileBegin, Start
  <2> HIDE DEF c
  <2>4. LifeKnown(c, row)
    BY <2>1, <2>2 DEF LifeKnown
  <2>5. QED
    BY <2>2, <2>3, <2>4, LifeMoves
<1>8. QED
  BY <1>2, <1>3, <1>4, <1>5, <1>6, <1>7 DEF Begin

\* What follows a save that has left the entity in the row.
LEMMA AfterSaveLife ==
  ASSUME NEW c \in Calls, NEW r, c.user \in Accounts, c.entity = r[c.user],
         c.entity \in Row, c.kind = "resend" => ~c.entity.verified,
         Spent(c.entity)
  PROVE  LifeKnown(AfterSave(c), r)
<1>1. CASE c.kind = "resend" /\ c.entity.token # None
  <2> DEFINE d == [c EXCEPT !.pc = "mail", !.diff = {}]
  <2>1. d.pc = "mail" /\ d.user = c.user /\ d.entity = c.entity
    BY DEF Calls
  <2>2. AfterSave(c) = d
    BY <1>1 DEF AfterSave
  <2> HIDE DEF d
  <2>3. ~c.entity.gone
    BY <1>1 DEF Spent
  <2>4. QED
    BY <1>1, <2>1, <2>2, <2>3 DEF LifeKnown
<1>2. CASE ~(c.kind = "resend" /\ c.entity.token # None)
  BY <1>2, IdleLife DEF AfterSave
<1>3. QED
  BY <1>1, <1>2

\* The rest of what a step does, when it leaves the tables alone: the entity
\* that is about to be saved passes for its row.
LEMMA QuietLife ==
  ASSUME NEW w \in Workers, Alone, LifeInv, IInv,
         Mail(w) \/ NameCheck(w) \/ DeletePassword(w) \/ SaveSelect(w)
  PROVE  LifeInv'
<1> DEFINE c == call[w]
           r == row[c.user]
<1>1. /\ c \in Calls /\ c.user \in Accounts /\ LifeKnown(c, row)
      /\ c.entity \in Row /\ r \in Row /\ Spent(r)
  BY CallKnown DEF LifeInv, Mail, NameCheck, DeletePassword, SaveSelect
<1>2. UNCHANGED <<row, sessions>>
  BY DEF Mail, NameCheck, DeletePassword, SaveSelect
<1>3. CASE Return(w)
  BY <1>2, <1>3, IdleLife, NoCallKnows, LifeMoves DEF Return
<1>4. ASSUME NEW e \in Row, Become(w, Saving(c, e)), ~r.gone, Passes(r, e),
             c.kind = "resend" => ~e.verified
      PROVE  LifeInv'
  <2> DEFINE d == Saving(c, e)
  <2>1. /\ d \in Calls /\ d.pc = "saveSelect" /\ d.user = c.user /\ d.entity = e
        /\ d.kind = c.kind
    BY <1>1 DEF Saving, Calls, Pcs
  <2>2. Become(w, d)
    BY <1>4
  <2> HIDE DEF d
  <2>3. LifeKnown(d, row)
    BY <1>4, <2>1 DEF LifeKnown
  <2>4. QED
    BY <1>2, <2>1, <2>2, <2>3, LifeMoves
<1>5. ASSUME Mail(w), ~Return(w) PROVE LifeInv'
  <2> DEFINE e == [c.entity EXCEPT !.token = None]
  <2>1. Become(w, Saving(c, e)) /\ c.pc = "mail"
    BY <1>5 DEF Mail
  <2>2. c.entity = r /\ ~r.gone /\ ~r.verified
    BY <1>1, <2>1 DEF LifeKnown
  <2>3. e \in Row /\ ~e.verified /\ ~e.gone
    BY <1>1, <2>2 DEF Row
  <2> HIDE DEF e
  <2>4. QED
    BY <1>4, <2>1, <2>2, <2>3 DEF Passes
<1>6. ASSUME NameCheck(w), ~Return(w) PROVE LifeInv'
  <2> DEFINE e == Patched(c.entity, c.dto)
             n == IF c.dto.name # None THEN c.dto.name ELSE c.entity.name
             f == IF c.dto.full # None THEN c.dto.full ELSE c.entity.full
  <2>1. Become(w, Saving(c, e)) /\ c.pc = "nameCheck"
    BY <1>6 DEF NameCheck
  <2>2. c.entity = r /\ ~r.gone /\ r.verified /\ r.token = None
    BY <1>1, <2>1 DEF LifeKnown, Spent
  <2>3. c.dto \in Profile
    BY <2>1 DEF IInv, EntityKnows
  <2>4. n \in Names \cup {None} /\ f \in BOOLEAN
    BY <1>1, <2>3 DEF Profile, Row
  <2>5. e = [c.entity EXCEPT !.name = n, !.full = f, !.done = n # None /\ f]
    BY DEF Patched
  <2> HIDE DEF n, f, e
  <2>6. e \in Row /\ e.verified = c.entity.verified /\ e.token = c.entity.token
    BY <1>1, <2>4, <2>5 DEF Row
  <2>7. c.kind # "resend"
    BY <1>1, <2>1 DEF LifeKnown
  <2>8. QED
    BY <1>4, <2>1, <2>2, <2>6, <2>7 DEF Passes
<1>7. ASSUME DeletePassword(w), ~Return(w) PROVE LifeInv'
  <2> DEFINE e == [c.entity EXCEPT !.gone = TRUE, !.name = None, !.full = FALSE]
  <2>1. Become(w, Saving(c, e)) /\ c.pc = "password"
    BY <1>7 DEF DeletePassword
  <2>2. c.entity = r /\ ~r.gone /\ r.verified /\ r.token = None
    BY <1>1, <2>1 DEF LifeKnown, Spent
  <2>3. e \in Row /\ e.verified = c.entity.verified /\ e.token = c.entity.token
    BY <1>1 DEF Row
  <2>4. c.kind # "resend"
    BY <1>1, <2>1 DEF LifeKnown
  <2> HIDE DEF e
  <2>5. QED
    BY <1>4, <2>1, <2>2, <2>3, <2>4 DEF Passes
<1>8. CASE SaveSelect(w)
  <2> DEFINE diff == Differs(c.entity, r)
             d == [c EXCEPT !.pc = "saveUpdate", !.diff = diff]
  <2>1. /\ ~r.gone /\ Passes(r, c.entity)
        /\ c.kind = "resend" => ~c.entity.verified
    BY <1>1, <1>8 DEF SaveSelect, LifeKnown
  <2>2. CASE diff = {} /\ Become(w, AfterSave(c))
    <3>1. c.entity = r
      BY <1>1, <2>2, SameRow
    <3>2. AfterSave(c) \in Calls
      BY <1>1, <1>8, AfterSaveKnows DEF SaveSelect, IInv, EntityKnows
    <3>3. LifeKnown(AfterSave(c), row)
      BY <1>1, <2>1, <3>1, AfterSaveLife
    <3>4. QED
      BY <1>2, <2>2, <3>2, <3>3, LifeMoves
  <2>3. CASE Become(w, d)
    <3>1. diff \in SUBSET Columns
      BY DEF Differs
    <3> HIDE DEF diff
    <3>2. /\ d \in Calls /\ d.pc = "saveUpdate" /\ d.user = c.user /\ d.entity = c.entity
          /\ d.kind = c.kind /\ d.diff = diff
      BY <1>1, <3>1 DEF Calls, Pcs
    <3> HIDE DEF d
    <3>3. LifeKnown(d, row)
      BY <2>1, <3>2 DEF LifeKnown, diff
    <3>4. QED
      BY <1>2, <2>3, <3>2, <3>3, LifeMoves
  <2>4. QED
    BY <1>8, <2>2, <2>3 DEF SaveSelect, Differs
<1>9. QED
  BY <1>3, <1>5, <1>6, <1>7, <1>8

\* A row that is written over another one is a step of the account's life.
LEMMA LifeRow ==
  ASSUME NEW u \in Accounts, NEW r \in Row, row \in [Accounts -> Row \cup {None}],
         row' = [row EXCEPT ![u] = r],
         \/ row[u] = None /\ ~r.verified /\ ~r.gone /\ r.token \in Tokens
         \/ row[u] \in Row /\ ~row[u].gone /\ Passes(row[u], r)
  PROVE  Life!LifeNext \/ UNCHANGED <<phase, valid>>
<1> DEFINE p == IF r.gone THEN "deleted" ELSE IF r.verified THEN "verified" ELSE "unverified"
           q == IF row[u].verified THEN "verified" ELSE "unverified"
<1>1. r # None /\ r.token \in Tokens \cup {None}
  BY DEF Row
<1>2. phase' = [phase EXCEPT ![u] = p]
  BY <1>1 DEF phase
<1>3. valid' = [valid EXCEPT ![u] = r.token]
  BY <1>1 DEF valid
<1>4. /\ phase = [phase EXCEPT ![u] = phase[u]] /\ valid = [valid EXCEPT ![u] = valid[u]]
  BY DEF phase, valid
<1>5. CASE row[u] = None /\ ~r.verified /\ ~r.gone /\ r.token \in Tokens
  <2>1. phase[u] = "none" /\ p = "unverified"
    BY <1>5 DEF phase
  <2>2. Life!Register(u)
    BY <1>2, <1>3, <1>5, <2>1 DEF Life!Register, Life!Become
  <2>3. QED
    BY <2>2 DEF Life!LifeNext
<1>6. CASE row[u] \in Row /\ ~row[u].gone /\ Passes(row[u], r)
  <2>1. row[u] # None /\ phase[u] = q /\ valid[u] = row[u].token
    BY <1>6 DEF phase, valid
  <2>2. CASE ~row[u].verified /\ ~r.verified /\ ~r.gone
    <3>1. phase[u] = "unverified" /\ p = "unverified"
      BY <2>1, <2>2
    <3>2. Life!Rotate(u)
      BY <1>1, <1>2, <1>3, <1>4, <3>1 DEF Life!Rotate
    <3>3. QED
      BY <3>2 DEF Life!LifeNext
  <2>3. CASE ~row[u].verified /\ row[u].token # None /\ r.verified /\ r.token = None /\ ~r.gone
    <3>1. phase[u] = "unverified" /\ p = "verified" /\ valid[u] # None
      BY <2>1, <2>3
    <3>2. Life!Verify(u)
      BY <1>2, <1>3, <2>3, <3>1 DEF Life!Verify, Life!Become
    <3>3. QED
      BY <3>2 DEF Life!LifeNext
  <2>4. CASE row[u].verified /\ r.verified /\ row[u].token = None /\ r.token = None
    <3>1. phase[u] = "verified" /\ valid' = valid
      BY <1>3, <1>4, <2>1, <2>4
    <3>2. CASE r.gone
      <4>1. Life!Delete(u)
        BY <1>2, <3>1, <3>2 DEF Life!Delete, Life!Become
      <4>2. QED
        BY <4>1 DEF Life!LifeNext
    <3>3. CASE ~r.gone
      <4>1. p = phase[u]
        BY <2>4, <3>1, <3>3
      <4>2. QED
        BY <1>2, <1>4, <3>1, <4>1
    <3>4. QED
      BY <3>2, <3>3
  <2>5. QED
    BY <1>6, <2>2, <2>3, <2>4 DEF Passes
<1>7. QED
  BY <1>5, <1>6

\* A registration's INSERT begins the life of its account.
LEMMA InsertLife ==
  ASSUME NEW w \in Workers, Alone, LifeInv, IInv, RegisterInsert(w)
  PROVE  LifeInv' /\ (Life!LifeNext \/ UNCHANGED <<phase, valid>>)
<1> DEFINE c == call[w]
           new == [verified |-> FALSE, token |-> nextToken, name |-> None,
                   full |-> FALSE, done |-> FALSE, gone |-> FALSE]
           d == [c EXCEPT !.pc = "mail", !.entity = new]
<1>1. c \in Calls /\ c.user \in Accounts
  BY CallKnown DEF RegisterInsert
<1>2. CASE Return(w) /\ UNCHANGED <<row, nextToken>>
  <2>1. LifeInv'
    BY <1>2, IdleLife, NoCallKnows, LifeMoves DEF RegisterInsert, Return
  <2>2. QED
    BY <1>2, <2>1 DEF phase, valid
<1>3. CASE /\ row[c.user] = None /\ nextToken \in Tokens
           /\ row' = [row EXCEPT ![c.user] = new] /\ Become(w, d)
  <2>1. new \in Row /\ ~new.verified /\ ~new.gone /\ new.token \in Tokens
    BY <1>3 DEF Row
  <2> HIDE DEF new
  <2>2. d \in Calls /\ d.pc = "mail" /\ d.user = c.user /\ d.entity = new
    BY <1>1, <2>1 DEF Calls, Pcs
  <2>3. Become(w, d)
    BY <1>3
  <2> HIDE DEF d
  <2>4. row \in [Accounts -> Row \cup {None}] /\ row'[c.user] = new
    BY <1>1, <1>3 DEF IInv, TypeOK
  <2>5. LifeKnown(d, row')
    BY <2>1, <2>2, <2>4 DEF LifeKnown
  <2>6. Spent(new) /\ c.user \notin sessions
    BY <1>3, <2>1 DEF Spent, LifeInv
  <2>7. LifeInv'
    BY <1>1, <1>3, <2>1, <2>2, <2>3, <2>5, <2>6, LifeWrites DEF RegisterInsert
  <2>8. QED
    BY <1>1, <1>3, <2>1, <2>4, <2>7, LifeRow
<1>4. QED
  BY <1>2, <1>3 DEF RegisterInsert

\* The UPDATE of a save writes the entity, which passes for the row.
LEMMA UpdateLife ==
  ASSUME NEW w \in Workers, Alone, LifeInv, IInv, SaveUpdate(w)
  PROVE  LifeInv' /\ (Life!LifeNext \/ UNCHANGED <<phase, valid>>)
<1> DEFINE c == call[w]
           r == row[c.user]
           e == c.entity
<1>1. /\ c \in Calls /\ c.user \in Accounts /\ LifeKnown(c, row) /\ c.pc = "saveUpdate"
      /\ e \in Row /\ r \in Row /\ Spent(r) /\ row \in [Accounts -> Row \cup {None}]
  BY CallKnown DEF LifeInv, SaveUpdate, IInv, TypeOK
<1>2. /\ ~r.gone /\ Passes(r, e) /\ c.diff = Differs(e, r)
      /\ c.kind = "resend" => ~e.verified
  BY <1>1 DEF LifeKnown
<1>3. CASE Return(w) /\ UNCHANGED row
  <2>1. LifeInv'
    BY <1>3, IdleLife, NoCallKnows, LifeMoves DEF SaveUpdate, Return
  <2>2. QED
    BY <1>3, <2>1 DEF phase, valid
<1>4. CASE row' = [row EXCEPT ![c.user] = Merged(r, e, c.diff)] /\ Become(w, AfterSave(c))
  <2>1. row' = [row EXCEPT ![c.user] = e] /\ row'[c.user] = e
    BY <1>1, <1>2, <1>4, MergedWhole
  <2>2. Spent(e) /\ (r.verified => e.verified)
    BY <1>2 DEF Passes, Spent
  <2>3. c.user \in sessions => e.verified
    BY <2>2 DEF LifeInv
  <2>4. AfterSave(c) \in Calls
    BY <1>1, AfterSaveKnows DEF IInv, EntityKnows
  <2>5. LifeKnown(AfterSave(c), row')
    BY <1>1, <1>2, <2>1, <2>2, AfterSaveLife
  <2>6. LifeInv'
    BY <1>1, <1>4, <2>1, <2>2, <2>3, <2>4, <2>5, LifeWrites DEF SaveUpdate
  <2>7. QED
    BY <1>1, <1>2, <2>1, <2>6, LifeRow
<1>5. QED
  BY <1>3, <1>4 DEF SaveUpdate

\* Every step of a call that is alone keeps what is known of it, and moves its
\* account along its life or not at all.
LEMMA NextLife ==
  ASSUME Alone, LifeInv, IInv, [Next]_vars
  PROVE  LifeInv' /\ (Life!LifeNext \/ UNCHANGED <<phase, valid>>)
<1>1. ASSUME UNCHANGED row PROVE UNCHANGED <<phase, valid>>
  BY <1>1 DEF phase, valid
<1>2. CASE UNCHANGED vars
  BY <1>1, <1>2 DEF vars, LifeInv
<1>3. ASSUME NEW w \in Workers, Begin(w) PROVE LifeInv' /\ UNCHANGED row
  <2>1. UNCHANGED row
    BY <1>3, Zenon DEF Begin, RegisterBegin, ResendBegin, LoginBegin, DeleteBegin,
       VerifyBegin, ProfileBegin
  <2>2. QED
    BY <1>3, <2>1, BeginLife
<1>4. ASSUME NEW w \in Workers, Mail(w) \/ NameCheck(w) \/ DeletePassword(w) \/ SaveSelect(w)
      PROVE  LifeInv' /\ UNCHANGED row
  <2>1. UNCHANGED row
    BY <1>4, Zenon DEF Mail, NameCheck, DeletePassword, SaveSelect
  <2>2. QED
    BY <1>4, <2>1, QuietLife
<1>5. ASSUME NEW w \in Workers, CallFails(w) PROVE LifeInv' /\ UNCHANGED row
  BY <1>5, IdleLife, NoCallKnows, LifeMoves DEF CallFails, Return
<1>6. ASSUME NEW w \in Workers, LoginSign(w) PROVE LifeInv' /\ UNCHANGED row
  <2> DEFINE c == call[w]
  <2>1. c.user \in Accounts /\ row[c.user] # None /\ c.entity = row[c.user]
    BY <1>6, CallKnown DEF LoginSign, IInv, EntityKnows, LifeInv, LifeKnown
  <2>2. \A u \in sessions' : row[u] # None /\ row[u].verified
    BY <1>6, <2>1 DEF LoginSign, LifeInv
  <2>3. call'[w] = NoCall /\ \A v \in Workers : v = w
    BY <1>6 DEF LoginSign, Return, Become, IInv, TypeOK, Alone
  <2>4. \A v \in Workers : LifeKnown(call'[v], row)
    BY <2>3, IdleLife
  <2>5. QED
    BY <1>6, <2>2, <2>4 DEF LoginSign, LifeInv
<1>7. QED
  BY <1>1, <1>2, <1>3, <1>4, <1>5, <1>6, InsertLife, UpdateLife DEF Next

\* One call at a time, even when statements fail, every account is registered
\* once, verified once by the token that is then valid, and deleted for good.
THEOREM LifeIsFollowed ==
  ASSUME Alone PROVE Spec => FollowsLife
<1>1. Init => LifeInv
  BY IdleLife DEF Init, LifeInv
<1>2. Init => Life!LifeInit
  BY DEF Init, Life!LifeInit, phase, valid
<1>3. IInv /\ LifeInv /\ [Next]_vars => LifeInv' /\ [Life!LifeNext]_(Life!lifeVars)
  BY NextLife DEF Life!lifeVars
<1>4. QED
  BY <1>1, <1>2, <1>3, InductiveInvariant, PTL DEF Spec, FollowsLife, Life!LifeSpec
=============================================================================
