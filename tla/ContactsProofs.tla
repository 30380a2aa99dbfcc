--------------------------- MODULE ContactsProofs ---------------------------
(***************************************************************************)
(* Proofs about Contacts, for any users, any number of overlapping calls   *)
(* and any set of users who leave.                                         *)
(***************************************************************************)
EXTENDS Contacts, TLAPS

\* The type part of the invariant: variables and the arguments of handlers.
Typed == TypeOK /\ HasRequest

USE DEF At, Pairs, ChatKey

\* An idle worker holds nothing.
LEMMA NoCallTyped == NoCall \in Calls /\ NoCall.pc = "idle"
  BY DEF NoCall, Calls, Pcs

\* Moving a handler on keeps the types, whichever statement it awaits next.
LEMMA GotoTyped ==
  ASSUME NEW w \in Workers, NEW pc \in Pcs, Typed, ~At(w, "idle"), Goto(w, pc)
  PROVE  /\ call' \in [Workers -> Calls]
         /\ reply' \in [Workers -> Replies]
         /\ HasRequest'
  BY DEF Typed, TypeOK, HasRequest, Goto, Calls

\* So does answering the call.
LEMMA ReturnTyped ==
  ASSUME NEW w \in Workers, NEW code \in Replies, Typed, Return(w, code)
  PROVE  /\ call' \in [Workers -> Calls]
         /\ reply' \in [Workers -> Replies]
         /\ HasRequest'
  BY NoCallTyped DEF Typed, TypeOK, HasRequest, Return

\* And so does accepting a call that comes with its arguments.
LEMMA StartTyped ==
  ASSUME NEW w \in Workers, NEW c \in Calls, Typed, c.req \in Pairs, Start(w, c)
  PROVE  /\ call' \in [Workers -> Calls]
         /\ reply' \in [Workers -> Replies]
         /\ HasRequest'
  BY DEF Typed, TypeOK, HasRequest, Start, Replies

\* A status written by an UPDATE or INSERT is a status of the column.
LEMMA SetStatusTyped ==
  ASSUME NEW p \in Pairs, NEW s \in R!Statuses, Typed, R!SetStatus(p, s)
  PROVE  status' \in [Pairs -> R!Statuses]
  BY DEF Typed, TypeOK, R!SetStatus

\* The types hold before any call.
LEMMA InitTyped == Init => Typed
  BY NoCallTyped
  DEF Init, Typed, TypeOK, HasRequest, R!RelInit, R!Statuses, R!Pairs, Replies

\* Every step keeps the types.
LEMMA NextTyped == Typed /\ [Next]_vars => Typed'
<1> SUFFICES ASSUME Typed, [Next]_vars PROVE Typed'
  OBVIOUS
<1>1. CASE UNCHANGED vars
  BY <1>1 DEF Typed, TypeOK, HasRequest, vars
<1>2. CASE \E u \in Users : DeleteAccount(u)
  BY <1>2 DEF Typed, TypeOK, HasRequest, DeleteAccount
<1>3. ASSUME NEW w \in Workers, NEW p \in Pairs, SendBegin(w, p)
      PROVE  Typed'
  <2> DEFINE c == [NoCall EXCEPT !.pc = "sendReceiver", !.caller = p[1], !.req = p]
  <2>1. c \in Calls /\ c.req \in Pairs
    BY DEF NoCall, Calls, Pcs, R!Pairs
  <2>2. QED
    BY <1>3, <2>1, StartTyped DEF SendBegin, Typed, TypeOK
<1>4. ASSUME NEW w \in Workers, NEW u \in Users, NEW p \in Pairs, NEW a \in Answers,
             RespondBegin(w, u, p, a)
      PROVE  Typed'
  <2> DEFINE c == [NoCall EXCEPT !.pc = "respondRead", !.caller = u, !.req = p,
                                 !.answer = a]
  <2>1. c \in Calls /\ c.req \in Pairs
    BY DEF NoCall, Calls, Pcs
  <2>2. QED
    BY <1>4, <2>1, StartTyped DEF RespondBegin, Typed, TypeOK
<1>5. ASSUME NEW w \in Workers, CallFails(w)
      PROVE  Typed'
  BY <1>5, ReturnTyped DEF CallFails, Typed, TypeOK, Replies
<1>6. ASSUME NEW w \in Workers, Advance(w)
      PROVE  Typed'
  <2> USE DEF Pcs, InTx, Replies, R!Statuses
  <2>0. ~At(w, "idle") /\ call[w].req \in Pairs
    BY <1>6 DEF Typed, HasRequest, Advance, SendReceiver, SendLookup, SendInsert,
       SaveSelect, SaveUpdate, RespondRead, TxUpdate, TxDecline, TxFindChat,
       TxInsertChat, TxCommit, TxCommitAborted
  <2>1. CASE SendReceiver(w)
    BY <2>0, <2>1, GotoTyped, ReturnTyped DEF SendReceiver, Typed, TypeOK
  <2>2. CASE SendLookup(w)
    BY <2>0, <2>2, GotoTyped, ReturnTyped DEF SendLookup, Typed, TypeOK
  <2>3. CASE SendInsert(w)
    BY <2>0, <2>3, ReturnTyped, SetStatusTyped DEF SendInsert, Typed, TypeOK
  <2>4. CASE SaveSelect(w)
    BY <2>0, <2>4, GotoTyped, ReturnTyped DEF SaveSelect, Typed, TypeOK
  <2>5. CASE SaveUpdate(w)
    BY <2>0, <2>5, ReturnTyped, SetStatusTyped DEF SaveUpdate, Typed, TypeOK
  <2>6. CASE RespondRead(w)
    <3> DEFINE found == call' = [call EXCEPT ![w].pc = "txUpdate",
                                  ![w].senderGone = call[w].req[1] \notin live]
                        /\ UNCHANGED reply
    <3>1. CASE found
      <4>1. call[w] \in Calls /\ call \in [Workers -> Calls]
        BY DEF Typed, TypeOK
      <4>2. call' \in [Workers -> Calls]
        BY <3>1, <4>1 DEF Calls
      <4>3. HasRequest'
        BY <2>0, <3>1, <4>1 DEF Typed, HasRequest, Calls
      <4>4. QED
        BY <2>6, <3>1, <4>2, <4>3 DEF RespondRead, Typed, TypeOK
    <3>2. CASE ~found
      BY <2>0, <2>6, <3>2, ReturnTyped DEF RespondRead, Typed, TypeOK
    <3>3. QED
      BY <3>1, <3>2
  <2>7. CASE TxUpdate(w)
    BY <2>0, <2>7, GotoTyped DEF TxUpdate, Typed, TypeOK
  <2>8. CASE TxDecline(w)
    BY <2>0, <2>8, ReturnTyped, SetStatusTyped DEF TxDecline, Typed, TypeOK
  <2>9. CASE TxFindChat(w)
    BY <2>0, <2>9, GotoTyped, ReturnTyped DEF TxFindChat, Typed, TypeOK
  <2>10. CASE TxInsertChat(w)
    BY <2>0, <2>10, GotoTyped DEF TxInsertChat, Typed, TypeOK
  <2>11. CASE TxCommit(w)
    BY <2>0, <2>11, ReturnTyped, SetStatusTyped DEF TxCommit, Typed, TypeOK
  <2>12. CASE TxCommitAborted(w)
    BY <2>0, <2>12, ReturnTyped DEF TxCommitAborted, Typed, TypeOK
  <2>13. QED
    BY <1>6, <2>1, <2>2, <2>3, <2>4, <2>5, <2>6, <2>7, <2>8, <2>9, <2>10, <2>11,
       <2>12 DEF Advance
<1>7. QED
  BY <1>1, <1>2, <1>3, <1>4, <1>5, <1>6 DEF Next

\* Type correctness: tables, handlers and replies stay well formed whatever
\* calls overlap.
THEOREM TypeCorrect == Spec => []TypeOK
<1>1. Init => Typed
  BY InitTyped
<1>2. Typed /\ [Next]_vars => Typed'
  BY NextTyped
<1>3. Typed => TypeOK
  BY DEF Typed
<1>4. QED
  BY <1>1, <1>2, <1>3, PTL DEF Spec

-----------------------------------------------------------------------------
\* The handlers' knowledge of the tables.

\* What a handler knows once it is past its checks, handler by handler.
Knows(c, st, ch) ==
  /\ c.pc \in {"saveSelect", "saveUpdate", "txUpdate"} \cup InTx => st[c.req] # "none"
  /\ c.pc = "txReady" => ChatKey(c.req) \in ch
  /\ c.pc \in {"txInsert", "txReady", "txInserted", "txAborted"} => c.answer = "accepted"
  /\ c.pc \in {"txUpdate"} \cup InTx => c.caller = c.req[2]
  /\ c.pc \in {"respondRead", "txUpdate"} \cup InTx => c.answer \in Answers

AllKnow == \A w \in Workers : Knows(call[w], status, chats)

\* The invariant, regrouped: types, what each handler knows, and the property
\* itself.
LEMMA IInvEquiv == IInv <=> Typed /\ AllKnow /\ AcceptedHasChat
  BY DEF IInv, Typed, AllKnow, Knows, RowExists, ReadyHasChat, OnlyAcceptsOpenChats,
     AnswererIsReceiver, AnswerGiven

\* No step removes a request row or a chat.
RowsAndChatsStay ==
  /\ \A p \in Pairs : status[p] # "none" => status'[p] # "none"
  /\ chats \subseteq chats'

\* Knowledge is stable: it only mentions rows and chats being present.
LEMMA KnowsStable ==
  ASSUME NEW c \in Calls, c.pc # "idle" => c.req \in Pairs, RowsAndChatsStay,
         Knows(c, status, chats)
  PROVE  Knows(c, status', chats')
  BY DEF Knows, RowsAndChatsStay, Pcs, InTx

\* A status written to an existing row keeps every row present.
LEMMA SetStatusStays ==
  ASSUME NEW p \in Pairs, NEW s \in {"pending", "accepted", "declined"}, Typed,
         R!SetStatus(p, s)
  PROVE  \A q \in Pairs : status[q] # "none" => status'[q] # "none"
  BY DEF R!SetStatus, Typed, TypeOK

\* One handler moves, the others keep what they know.
LEMMA OneMoves ==
  ASSUME Typed, AllKnow, RowsAndChatsStay, NEW w \in Workers, NEW c,
         call' = [call EXCEPT ![w] = c], Knows(c, status', chats')
  PROVE  AllKnow'
<1> SUFFICES ASSUME NEW v \in Workers PROVE Knows(call'[v], status', chats')
  BY DEF AllKnow, Knows
<1>1. CASE v = w
  BY <1>1 DEF Typed, TypeOK
<1>2. CASE v # w
  <2>1. call'[v] = call[v] /\ call[v] \in Calls /\ Knows(call[v], status, chats)
    BY <1>2 DEF Typed, TypeOK, AllKnow
  <2>2. call[v].pc # "idle" => call[v].req \in Pairs
    BY DEF Typed, HasRequest
  <2>3. QED
    BY <2>1, <2>2, KnowsStable
<1>3. QED
  BY <1>1, <1>2

\* An idle worker relies on nothing.
LEMMA IdleKnows == \A st, ch : Knows(NoCall, st, ch)
  BY DEF NoCall, Knows, InTx

\* A handler that answers leaves the rest as they were.
LEMMA ReturnKnows ==
  ASSUME Typed, AllKnow, RowsAndChatsStay, NEW w \in Workers, NEW code, Return(w, code)
  PROVE  AllKnow'
  BY OneMoves, IdleKnows DEF Return

\* A handler that goes on must know what its next statement relies on.
LEMMA GotoKnows ==
  ASSUME Typed, AllKnow, UNCHANGED <<status, chats>>, NEW w \in Workers, NEW pc \in Pcs,
         Goto(w, pc), Knows([call[w] EXCEPT !.pc = pc], status, chats)
  PROVE  AllKnow'
<1>1. call' = [call EXCEPT ![w] = [call[w] EXCEPT !.pc = pc]]
  BY DEF Goto
<1>2. RowsAndChatsStay
  BY DEF RowsAndChatsStay
<1>3. QED
  BY <1>1, <1>2, OneMoves

\* The inductive step of the table part of the invariant.
LEMMA NextSafe ==
  Typed /\ AllKnow /\ AcceptedHasChat /\ [Next]_vars => (AllKnow /\ AcceptedHasChat)'
<1> SUFFICES ASSUME Typed, AllKnow, AcceptedHasChat, [Next]_vars
             PROVE  AllKnow' /\ AcceptedHasChat'
  OBVIOUS
<1>0. \A w \in Workers : call[w] \in Calls
  BY DEF Typed, TypeOK
<1>1. CASE UNCHANGED vars
  BY <1>1 DEF AllKnow, Knows, AcceptedHasChat, vars
<1>2. CASE \E u \in Users : DeleteAccount(u)
  BY <1>2 DEF AllKnow, Knows, AcceptedHasChat, DeleteAccount
<1>3. ASSUME NEW w \in Workers, NEW c,
             Start(w, c), c.pc \in {"sendReceiver", "respondRead"},
             c.pc = "respondRead" => c.answer \in Answers,
             UNCHANGED <<status, chats>>
      PROVE  AllKnow' /\ AcceptedHasChat'
  <2>1. Knows(c, status', chats')
    BY <1>3 DEF Knows, InTx
  <2>2. RowsAndChatsStay
    BY <1>3 DEF RowsAndChatsStay
  <2>3. QED
    BY <1>3, <2>1, <2>2, OneMoves DEF Start, AcceptedHasChat
<1>4. ASSUME NEW w \in Workers, CallFails(w)
      PROVE  AllKnow' /\ AcceptedHasChat'
  BY <1>4, ReturnKnows DEF CallFails, RowsAndChatsStay, AcceptedHasChat
<1>5. ASSUME NEW w \in Workers, Advance(w)
      PROVE  AllKnow' /\ AcceptedHasChat'
  <2> DEFINE p == call[w].req
  <2>0. ~At(w, "idle") /\ p \in Pairs
    BY <1>5 DEF Typed, HasRequest, Advance, SendReceiver, SendLookup, SendInsert,
       SaveSelect, SaveUpdate, RespondRead, TxUpdate, TxDecline, TxFindChat,
       TxInsertChat, TxCommit, TxCommitAborted, InTx
  <2>00. Knows(call[w], status, chats) /\ call[w] \in Calls
    BY <1>0 DEF AllKnow
  <2>000. UNCHANGED <<status, chats>> => RowsAndChatsStay /\ AcceptedHasChat'
    BY DEF RowsAndChatsStay, AcceptedHasChat
  <2>1. CASE SendReceiver(w)
    <3>1. Knows([call[w] EXCEPT !.pc = "sendLookup"], status, chats)
      BY <2>00 DEF Knows, InTx, Calls
    <3>2. QED
      BY <2>1, <2>000, <3>1, GotoKnows, ReturnKnows DEF SendReceiver, Pcs
  <2>2. CASE SendLookup(w)
    <3>1. Knows([call[w] EXCEPT !.pc = "sendInsert"], status, chats)
      BY <2>00 DEF Knows, InTx, Calls
    <3>2. status[p] = "declined" =>
            Knows([call[w] EXCEPT !.pc = "saveSelect"], status, chats)
      BY <2>00 DEF Knows, InTx, Calls
    <3>3. QED
      BY <2>2, <2>000, <3>1, <3>2, GotoKnows, ReturnKnows DEF SendLookup, Pcs
  <2>3. CASE SendInsert(w)
    <3>1. RowsAndChatsStay
      BY <2>0, <2>3, SetStatusStays DEF SendInsert, RowsAndChatsStay
    <3>2. AcceptedHasChat'
      BY <2>0, <2>3 DEF SendInsert, AcceptedHasChat, R!SetStatus, Typed, TypeOK
    <3>3. QED
      BY <2>3, <3>1, <3>2, ReturnKnows DEF SendInsert
  <2>4. CASE SaveSelect(w)
    <3>1. Knows([call[w] EXCEPT !.pc = "saveUpdate"], status, chats)
      BY <2>00, <2>4 DEF Knows, InTx, Calls, SaveSelect
    <3>2. QED
      BY <2>4, <2>000, <3>1, GotoKnows, ReturnKnows DEF SaveSelect, Pcs
  <2>5. CASE SaveUpdate(w)
    <3>1. RowsAndChatsStay
      BY <2>0, <2>5, SetStatusStays DEF SaveUpdate, RowsAndChatsStay
    <3>2. AcceptedHasChat'
      BY <2>0, <2>5 DEF SaveUpdate, AcceptedHasChat, R!SetStatus, Typed, TypeOK
    <3>3. QED
      BY <2>5, <3>1, <3>2, ReturnKnows DEF SaveUpdate
  <2>6. CASE RespondRead(w)
    <3> DEFINE c == [call[w] EXCEPT !.pc = "txUpdate", !.senderGone = p[1] \notin live]
    <3>1. CASE call' = [call EXCEPT ![w] = c] /\ UNCHANGED <<status, chats>>
               /\ status[p] = "pending" /\ call[w].caller = p[2]
      <4>1. /\ c.pc = "txUpdate" /\ c.req = p /\ c.caller = p[2]
            /\ c.answer \in Answers
        BY <2>00, <2>6, <3>1 DEF Calls, Knows, RespondRead
      <4>2. Knows(c, status', chats')
        BY <3>1, <4>1 DEF Knows, InTx
      <4>3. QED
        BY <2>000, <3>1, <4>2, OneMoves
    <3>2. CASE \E code \in Replies : Return(w, code) /\ UNCHANGED <<status, chats>>
      BY <2>000, <3>2, ReturnKnows
    <3>3. QED
      BY <2>6, <3>1, <3>2 DEF RespondRead, Replies
  <2>7. CASE TxUpdate(w)
    <3>1. Knows([call[w] EXCEPT !.pc = "txUpdated"], status, chats)
      BY <2>00, <2>7 DEF Knows, InTx, Calls, TxUpdate
    <3>2. QED
      BY <2>7, <2>000, <3>1, GotoKnows DEF TxUpdate, Pcs, InTx
  <2>8. CASE TxDecline(w)
    <3>1. RowsAndChatsStay
      BY <2>0, <2>8, SetStatusStays DEF TxDecline, RowsAndChatsStay
    <3>2. AcceptedHasChat'
      BY <2>0, <2>8 DEF TxDecline, AcceptedHasChat, R!SetStatus, Typed, TypeOK
    <3>3. QED
      BY <2>8, <3>1, <3>2, ReturnKnows DEF TxDecline
  <2>9. CASE TxFindChat(w)
    <3>1. ChatKey(p) \in chats => Knows([call[w] EXCEPT !.pc = "txReady"], status, chats)
      BY <2>00, <2>9 DEF Knows, InTx, Calls, TxFindChat
    <3>2. Knows([call[w] EXCEPT !.pc = "txInsert"], status, chats)
      BY <2>00, <2>9 DEF Knows, InTx, Calls, TxFindChat
    <3>3. QED
      BY <2>9, <2>000, <3>1, <3>2, GotoKnows, ReturnKnows DEF TxFindChat, Pcs, InTx
  <2>10. CASE TxInsertChat(w)
    <3>1. \A pc \in {"txAborted", "txInserted"} :
            Knows([call[w] EXCEPT !.pc = pc], status, chats)
      BY <2>00, <2>10 DEF Knows, InTx, Calls, TxInsertChat
    <3>2. QED
      BY <2>10, <2>000, <3>1, GotoKnows DEF TxInsertChat, Pcs, InTx
  <2>11. CASE TxCommit(w)
    <3>1. RowsAndChatsStay
      BY <2>0, <2>11, SetStatusStays DEF TxCommit, RowsAndChatsStay
    <3>2. ChatKey(p) \in chats'
      BY <2>00, <2>11 DEF TxCommit, Knows
    <3>3. AcceptedHasChat'
      BY <2>0, <2>11, <3>1, <3>2
      DEF TxCommit, AcceptedHasChat, R!SetStatus, Typed, TypeOK, RowsAndChatsStay
    <3>4. QED
      BY <2>11, <3>1, <3>3, ReturnKnows DEF TxCommit
  <2>12. CASE TxCommitAborted(w)
    BY <2>12, <2>000, ReturnKnows DEF TxCommitAborted
  <2>13. QED
    BY <1>5, <2>1, <2>2, <2>3, <2>4, <2>5, <2>6, <2>7, <2>8, <2>9, <2>10, <2>11,
       <2>12 DEF Advance
<1>6. ASSUME NEW w \in Workers, NEW p \in Pairs, SendBegin(w, p)
      PROVE  AllKnow' /\ AcceptedHasChat'
  BY <1>3, <1>6 DEF SendBegin, NoCall
<1>7. ASSUME NEW w \in Workers, NEW u \in Users, NEW p \in Pairs, NEW a \in Answers,
             RespondBegin(w, u, p, a)
      PROVE  AllKnow' /\ AcceptedHasChat'
  BY <1>3, <1>7 DEF RespondBegin, NoCall
<1>8. QED
  BY <1>1, <1>2, <1>4, <1>5, <1>6, <1>7 DEF Next

\* The inductive invariant holds of every state.
THEOREM InductiveInvariant == Spec => []IInv
<1>1. Init => Typed /\ AllKnow /\ AcceptedHasChat
  <2>1. Init => AllKnow
    BY IdleKnows DEF Init, AllKnow
  <2>2. Init => AcceptedHasChat
    BY DEF Init, AcceptedHasChat, R!RelInit, R!Pairs
  <2>3. QED
    BY <2>1, <2>2, InitTyped
<1>2. Typed /\ AllKnow /\ AcceptedHasChat /\ [Next]_vars
        => (Typed /\ AllKnow /\ AcceptedHasChat)'
  BY NextTyped, NextSafe
<1>3. Typed /\ AllKnow /\ AcceptedHasChat => IInv
  BY IInvEquiv
<1>4. QED
  BY <1>1, <1>2, <1>3, PTL DEF Spec

\* An accepted request always has a chat, however accepts race, abort or crash.
THEOREM ChatForEveryContact == Spec => []AcceptedHasChat
<1>1. IInv => AcceptedHasChat
  BY DEF IInv
<1>2. QED
  BY <1>1, InductiveInvariant, PTL

-----------------------------------------------------------------------------
\* The component implements what Relationship promises.

\* Only four statements write a table.
LEMMA TableWriters ==
  ASSUME [Next]_vars
  PROVE  \/ UNCHANGED <<status, chats>>
         \/ \E w \in Workers :
              SendInsert(w) \/ SaveUpdate(w) \/ TxDecline(w) \/ TxCommit(w)
  BY DEF Next, Advance, vars, SendBegin, SendReceiver, SendLookup, SaveSelect,
     RespondBegin, RespondRead, TxUpdate, TxFindChat, TxInsertChat, TxCommitAborted,
     CallFails, DeleteAccount

\* Each of them maps to a step of RelSpec, or to a stutter when it rewrites
\* what the row already holds.
LEMMA StepRefines ==
  ASSUME IInv, [Next]_vars
  PROVE  [R!RelNext]_(R!relVars)
<1> USE DEF R!RelNext, R!RelStep, R!relVars
<1>1. CASE UNCHANGED <<status, chats>>
  BY <1>1
<1>2. ASSUME NEW w \in Workers, SendInsert(w)
      PROVE  [R!RelNext]_(R!relVars)
  <2>1. call[w].req \in Pairs
    BY <1>2 DEF SendInsert, IInv, HasRequest
  <2>2. R!Request(call[w].req) \/ UNCHANGED <<status, chats>>
    BY <1>2 DEF SendInsert, R!Request
  <2>3. QED
    BY <2>1, <2>2
<1>3. ASSUME NEW w \in Workers, SaveUpdate(w)
      PROVE  [R!RelNext]_(R!relVars)
  <2> DEFINE p == call[w].req
  <2>1. p \in Pairs /\ status[p] \in {"pending", "accepted", "declined"}
    BY <1>3 DEF SaveUpdate, IInv, HasRequest, RowExists, TypeOK, R!Statuses
  <2>2. R!SetStatus(p, "pending") /\ UNCHANGED chats
    BY <1>3 DEF SaveUpdate
  <2>3. status[p] = "pending" => UNCHANGED <<status, chats>>
    BY <2>1, <2>2 DEF R!SetStatus, IInv, TypeOK
  <2>4. status[p] = "accepted" => R!Reopen(p)
    BY <2>2 DEF R!Reopen
  <2>5. status[p] = "declined" => R!Request(p)
    BY <2>2 DEF R!Request
  <2>6. QED
    BY <2>1, <2>3, <2>4, <2>5
<1>4. ASSUME NEW w \in Workers, TxDecline(w)
      PROVE  [R!RelNext]_(R!relVars)
  <2> DEFINE p == call[w].req
  <2>1. p \in Pairs /\ status[p] \in {"pending", "accepted", "declined"}
    BY <1>4 DEF TxDecline, IInv, HasRequest, RowExists, TypeOK, R!Statuses, InTx
  <2>2. R!SetStatus(p, "declined") /\ UNCHANGED chats
    BY <1>4 DEF TxDecline
  <2>3. status[p] = "declined" => UNCHANGED <<status, chats>>
    BY <2>1, <2>2 DEF R!SetStatus, IInv, TypeOK
  <2>4. status[p] = "accepted" => R!LateDecline(p)
    BY <2>2 DEF R!LateDecline
  <2>5. status[p] = "pending" => R!Decline(p)
    BY <2>2 DEF R!Decline
  <2>6. QED
    BY <2>1, <2>3, <2>4, <2>5
<1>5. ASSUME NEW w \in Workers, TxCommit(w)
      PROVE  [R!RelNext]_(R!relVars)
  <2> DEFINE p == call[w].req
  <2>1. p \in Pairs /\ status[p] \in {"pending", "accepted", "declined"}
    BY <1>5 DEF TxCommit, IInv, HasRequest, RowExists, TypeOK, R!Statuses, InTx
  <2>2. R!SetStatus(p, "accepted")
    BY <1>5 DEF TxCommit
  <2>3. chats' = chats \cup {ChatKey(p)}
    BY <1>5 DEF TxCommit, IInv, ReadyHasChat
  <2>4. status[p] = "accepted" => UNCHANGED <<status, chats>>
    BY <2>1, <2>2, <2>3 DEF R!SetStatus, IInv, TypeOK, AcceptedHasChat
  <2>5. status[p] = "pending" => R!Accept(p)
    BY <2>2, <2>3 DEF R!Accept
  <2>6. status[p] = "declined" => R!LateAccept(p)
    BY <2>2, <2>3 DEF R!LateAccept
  <2>7. QED
    BY <2>1, <2>4, <2>5, <2>6
<1>6. QED
  BY <1>1, <1>2, <1>3, <1>4, <1>5, TableWriters

\* Every behaviour of the service, with any overlap of calls, failures and
\* deletions, is one of RelSpec: rows appear pending and never vanish, and a
\* chat appears only in the step that accepts a request of its pair.
THEOREM ImplementsRelationship == Spec => RefinesRelationship
<1>1. Init => R!RelInit
  BY DEF Init
<1>2. IInv /\ [Next]_vars => [R!RelNext]_(R!relVars)
  BY StepRefines
<1>3. QED
  BY <1>1, <1>2, InductiveInvariant, PTL DEF Spec, RefinesRelationship, R!RelSpec

\* A request becomes accepted or declined only through its receiver's call.
THEOREM ReceiverAnswers == Spec => OnlyReceiverAnswers
<1> DEFINE A == \A p \in Pairs :
                  status'[p] # status[p] /\ status'[p] \in Answers =>
                    \E w \in Workers : /\ call[w].req = p
                                       /\ call[w].caller = p[2]
                                       /\ call[w].answer = status'[p]
<1>1. IInv /\ [Next]_vars => [A]_vars
  <2> SUFFICES ASSUME IInv, [Next]_vars, NEW q \in Pairs,
                      status'[q] # status[q], status'[q] \in Answers
               PROVE  \E w \in Workers : /\ call[w].req = q
                                         /\ call[w].caller = q[2]
                                         /\ call[w].answer = status'[q]
    OBVIOUS
  <2>1. PICK w \in Workers :
          SendInsert(w) \/ SaveUpdate(w) \/ TxDecline(w) \/ TxCommit(w)
    BY TableWriters
  <2>2. call[w].req \in Pairs
    BY <2>1 DEF SendInsert, SaveUpdate, TxDecline, TxCommit, IInv, HasRequest
  <2>3. ~SendInsert(w) /\ ~SaveUpdate(w)
    BY <2>2 DEF SendInsert, SaveUpdate, R!SetStatus, IInv, TypeOK, Answers
  <2>4. CASE TxDecline(w)
    <3>1. call[w].req = q /\ status'[q] = "declined"
      BY <2>2, <2>4 DEF TxDecline, R!SetStatus, IInv, TypeOK
    <3>2. call[w].caller = q[2] /\ call[w].answer = "declined"
      BY <2>4, <3>1 DEF TxDecline, IInv, AnswererIsReceiver, InTx
    <3>3. QED
      BY <3>1, <3>2
  <2>5. CASE TxCommit(w)
    <3>1. call[w].req = q /\ status'[q] = "accepted"
      BY <2>2, <2>5 DEF TxCommit, R!SetStatus, IInv, TypeOK
    <3>2. call[w].caller = q[2] /\ call[w].answer = "accepted"
      BY <2>5, <3>1 DEF TxCommit, IInv, AnswererIsReceiver, OnlyAcceptsOpenChats, InTx
    <3>3. QED
      BY <3>1, <3>2
  <2>6. QED
    BY <2>1, <2>3, <2>4, <2>5
<1>2. QED
  BY <1>1, InductiveInvariant, PTL DEF Spec, OnlyReceiverAnswers

-----------------------------------------------------------------------------
\* Waiting for locks.

\* The order of the locks: a request row first, a chat key last.  An answer that
\* owns its chat key waits for nobody, one that waits for a chat key waits for
\* such owners only, and one that waits for a request row owns nothing yet.
LEMMA LockOrder ==
  ASSUME NEW w \in Workers
  PROVE  /\ Awaits(w) # {} => call[w].pc \in {"saveUpdate", "txUpdate", "txInsert"}
         /\ At(w, "txInsert") => \A v \in Awaits(w) : At(v, "txInserted")
         /\ \A v \in Awaits(w) : call[v].pc \in InTx
<1>1. CASE call[w].pc \in {"saveUpdate", "txUpdate"}
  BY <1>1 DEF Awaits, RowHolders
<1>2. CASE At(w, "txInsert")
  BY <1>2 DEF Awaits, ChatKeyHolders, InTx
<1>3. CASE call[w].pc \notin {"saveUpdate", "txUpdate", "txInsert"}
  BY <1>3 DEF Awaits
<1>4. QED
  BY <1>1, <1>2, <1>3

\* Of any calls one waits for none of the others, by the order of the locks.
LEMMA WaitsEnd == NoWaitCycle
<1> SUFFICES ASSUME NEW S \in SUBSET {w \in Workers : ~At(w, "idle")}, S # {}
             PROVE  \E w \in S : Awaits(w) \cap S = {}
  BY DEF NoWaitCycle
<1>1. CASE \E w \in S : At(w, "txInserted")
  <2>1. PICK w \in S : At(w, "txInserted")
    BY <1>1
  <2>2. Awaits(w) = {}
    BY <2>1, LockOrder
  <2>3. QED
    BY <2>2
<1>2. CASE ~(\E w \in S : At(w, "txInserted")) /\ \E w \in S : At(w, "txInsert")
  <2>1. PICK w \in S : At(w, "txInsert")
    BY <1>2
  <2>2. \A v \in Awaits(w) : At(v, "txInserted")
    BY <2>1, LockOrder
  <2>3. QED
    BY <1>2, <2>2
<1>3. CASE ~(\E w \in S : At(w, "txInsert")) /\ \E w \in S : call[w].pc \in InTx
  <2>1. PICK w \in S : call[w].pc \in InTx /\ ~At(w, "txInsert")
    BY <1>3
  <2>2. Awaits(w) = {}
    BY <2>1, LockOrder DEF InTx
  <2>3. QED
    BY <2>2
<1>4. CASE ~(\E w \in S : call[w].pc \in InTx)
  BY <1>4, LockOrder
<1>5. QED
  BY <1>1, <1>2, <1>3, <1>4 DEF InTx

\* The calls of the contacts service never wait in a cycle, whatever overlaps.
THEOREM WaitsAreAcyclic == Spec => []NoWaitCycle
  BY WaitsEnd, PTL

\* What the next statement of a call in flight needs: the guards of Advance.
CanMove(w) ==
  \/ call[w].pc \in {"sendReceiver", "sendInsert", "saveSelect", "respondRead",
                     "txReady", "txInserted", "txAborted"}
  \/ At(w, "sendLookup") /\ (BothLive(call[w].req) => status[call[w].req] \in R!Statuses)
  \/ At(w, "txUpdated") /\ call[w].answer \in Answers
  \/ call[w].pc \in {"saveUpdate", "txUpdate", "txInsert"} /\ Awaits(w) = {}

\* A call that waits for no lock finds the guard of its next statement true.
LEMMA OnlyLocksStop ==
  ASSUME IInv, NEW w \in Workers, ~At(w, "idle"), Awaits(w) = {}
  PROVE  CanMove(w)
<1>1. call[w].pc \in Pcs /\ call[w].req \in Pairs
  BY DEF IInv, TypeOK, HasRequest, Calls
<1>2. status[call[w].req] \in R!Statuses
  BY <1>1 DEF IInv, TypeOK
<1>3. At(w, "txUpdated") => call[w].answer \in Answers
  BY DEF IInv, AnswerGiven, InTx
<1>4. QED
  BY <1>1, <1>2, <1>3 DEF CanMove, Pcs, InTx

\* Whenever calls are in flight one of them can move: neither a cycle of waits
\* nor a case the service forgot leaves all of them standing.
THEOREM SomeCallMoves ==
  Spec => [](\A S \in SUBSET {w \in Workers : ~At(w, "idle")} :
               S # {} => \E w \in S : CanMove(w) \/ \E v \in Workers \ S : v \in Awaits(w))
<1>1. IInv => \A S \in SUBSET {w \in Workers : ~At(w, "idle")} :
                S # {} => \E w \in S : CanMove(w) \/ \E v \in Workers \ S : v \in Awaits(w)
  <2> SUFFICES ASSUME IInv, NEW S \in SUBSET {w \in Workers : ~At(w, "idle")}, S # {}
               PROVE  \E w \in S : CanMove(w) \/ \E v \in Workers \ S : v \in Awaits(w)
    OBVIOUS
  <2>1. PICK w \in S : Awaits(w) \cap S = {}
    BY WaitsEnd DEF NoWaitCycle
  <2>2. Awaits(w) \subseteq Workers
    BY DEF Awaits, RowHolders, ChatKeyHolders
  <2>3. CASE Awaits(w) = {}
    BY <2>3, OnlyLocksStop
  <2>4. CASE Awaits(w) # {}
    BY <2>1, <2>2, <2>4
  <2>5. QED
    BY <2>3, <2>4
<1>2. QED
  BY <1>1, InductiveInvariant, PTL
=============================================================================
