-------------------------- MODULE MessagingProofs ---------------------------
(***************************************************************************)
(* Proofs about Messaging: for any users, uploads and number of overlapping *)
(* sends and mark-reads, with failing statements, deleted uploads and       *)
(* contact requests that move at any moment.                                *)
(***************************************************************************)
EXTENDS Messaging, TLAPS

USE MaxMessagesAssumption, OwnerAssumption, NoneAssumption DEF At

\* What the invariant does not read keeps its type.
AsideOK ==
  /\ status \in [R!Pairs -> R!Statuses]
  /\ chats \subseteq ChatKeys
  /\ live \subseteq Users
  /\ readBy \in [Ids -> Workers \cup {None}]
  /\ announced \subseteq Ids /\ receipts \subseteq Ids

\* The four tables the invariant reads are left alone.
Untouched == UNCHANGED <<messages, nextId, uploads, link>>

\* Only the handler of w moves, to c.
OnlyCall(w, c) ==
  /\ call' = [call EXCEPT ![w] = c]
  /\ Untouched

\* A step that leaves every table alone disturbs nothing.
LEMMA AllUnchanged ==
  ASSUME IInv, UNCHANGED <<relVars, live, rows, events>>
  PROVE  AsideOK' /\ Untouched
  BY DEF IInv, TypeOK, AsideOK, Untouched, relVars, rows, events

\* An idle worker holds nothing.
LEMMA NoCallTyped == NoCall \in Calls /\ NoCall.pc = "idle"
  BY DEF NoCall, Calls, Pcs

\* A handler may always answer or go on to a statement that needs nothing new.
LEMMA HandlerMoves ==
  ASSUME NEW w \in Workers, NEW c \in Calls, IInv, OnlyCall(w, c), AsideOK', SendKnows(c),
         c.pc \in Inserted => call[w].pc \in Inserted /\ c.msg = call[w].msg
  PROVE  IInv'
<1> USE DEF IInv, OnlyCall, Untouched
<1>1. TypeOK'
  BY DEF TypeOK, AsideOK
<1>2. StampsAreSpent' /\ AttachmentLinkIsWhole'
  BY DEF StampsAreSpent, AttachmentLinkIsWhole, Stored
<1>3. RowsAreOwn'
  BY DEF RowsAreOwn, TypeOK
<1>4. \A v \in Workers : SendKnows(call[v])'
  <2> TAKE v \in Workers
  <2>1. CASE v = w
    BY <2>1 DEF SendKnows, TypeOK
  <2>2. CASE v # w
    <3>1. call'[v] = call[v]
      BY <2>2 DEF TypeOK
    <3>2. QED
      BY <3>1 DEF SendKnows
  <2>3. QED
    BY <2>1, <2>2
<1>5. QED
  BY <1>1, <1>2, <1>3, <1>4

\* A handler goes on to a statement that needs no row of its own.
LEMMA GotoMoves ==
  ASSUME NEW w \in Workers, NEW pc \in Pcs \ (Inserted \cup {"sendReload"}), IInv,
         call[w].pc # "idle", AsideOK', Untouched, Goto(w, pc),
         pc = "sendInsert" /\ call[w].att # None => Owner[call[w].att] = call[w].user
  PROVE  IInv'
<1> DEFINE c == [call[w] EXCEPT !.pc = pc]
<1>1. c \in Calls /\ c.pc = pc /\ c.user = call[w].user /\ c.chat = call[w].chat
      /\ c.att = call[w].att
  <2>1. call[w] \in Calls /\ pc \in Pcs
    BY DEF IInv, TypeOK
  <2>2. QED
    BY <2>1, SMTT(30) DEF Calls
<1>2. SendKnows(c)
  BY <1>1 DEF IInv, SendKnows, Inserted
<1>3. OnlyCall(w, c)
  BY DEF OnlyCall, Goto
<1>4. QED
  BY <1>1, <1>2, <1>3, HandlerMoves

\* A call may end at any time, answered or failed.
LEMMA ReturnMoves ==
  ASSUME NEW w \in Workers, IInv, AsideOK', Untouched, Return(w)
  PROVE  IInv'
<1>1. SendKnows(NoCall) /\ NoCall.pc \notin Inserted
  BY DEF SendKnows, NoCall, Inserted
<1>2. OnlyCall(w, NoCall)
  BY DEF OnlyCall, Return
<1>3. QED
  BY <1>1, <1>2, NoCallTyped, HandlerMoves

\* IInv reads neither the announcements nor read_at, the accounts or the requests.
LEMMA AsideMoves ==
  ASSUME IInv, AsideOK', Untouched, UNCHANGED call
  PROVE  IInv'
<1>1. TypeOK'
  BY DEF IInv, TypeOK, AsideOK, Untouched
<1>2. QED
  BY <1>1 DEF IInv, StampsAreSpent, RowsAreOwn, SendKnows, AttachmentLinkIsWhole,
              Stored, Untouched

\* The invariant holds before any message is sent.
LEMMA InitIInv == Init => IInv
<1> SUFFICES ASSUME Init PROVE IInv
  OBVIOUS
<1>1. TypeOK
  BY NoCallTyped DEF Init, TypeOK, R!RelInit, R!Statuses, Ids
<1>2. Stored = {}
  BY DEF Init, Stored
<1>3. StampsAreSpent /\ RowsAreOwn /\ AttachmentLinkIsWhole
  BY <1>2 DEF Init, StampsAreSpent, RowsAreOwn, AttachmentLinkIsWhole, NoCall, Inserted
<1>4. \A w \in Workers : SendKnows(call[w])
  BY DEF Init, SendKnows, NoCall, Inserted
<1>5. QED
  BY <1>1, <1>3, <1>4 DEF IInv

-----------------------------------------------------------------------------
\* The three steps of a send's transaction and the deletion of an upload, the
\* only ones that disturb more than one conjunct.

\* The INSERT of a message takes a stamp no other transaction has.
LEMMA SendInsertStep ==
  ASSUME NEW w \in Workers, IInv, SendInsert(w)
  PROVE  IInv'
<1> DEFINE c == [call[w] EXCEPT !.msg = nextId,
                   !.pc = IF call[w].att = None THEN "commitPlain" ELSE "sendLink"]
<1> USE DEF SendInsert, rows, events, relVars
<1>1. call[w] \in Calls /\ call \in [Workers -> Calls] /\ nextId \in Ids /\ nextId \in Nat
  BY DEF IInv, TypeOK, Ids
<1>2. call' = [call EXCEPT ![w] = c]
  BY <1>1
<1>3. c \in Calls /\ c.msg = nextId /\ c.pc \in Inserted /\ c.att = call[w].att
      /\ c.user = call[w].user /\ c.chat = call[w].chat
      /\ (c.att = None => c.pc = "commitPlain") /\ (c.att # None => c.pc = "sendLink")
  BY <1>1 DEF Calls, Pcs, Inserted
<1>4. \A v \in Workers : v # w => call'[v] = call[v]
  BY <1>1, <1>2
<1>5. TypeOK'
  BY <1>1, <1>2, <1>3 DEF IInv, TypeOK, Ids
<1>6. StampsAreSpent' /\ AttachmentLinkIsWhole'
  BY <1>1 DEF IInv, StampsAreSpent, AttachmentLinkIsWhole, Stored, Ids
<1>7. \A v \in Workers : v # w /\ call[v].pc \in Inserted => call[v].msg # nextId
  BY <1>1 DEF IInv, SendKnows, Ids
<1>8. RowsAreOwn'
  BY <1>1, <1>2, <1>3, <1>4, <1>7 DEF IInv, RowsAreOwn
<1>9. messages[nextId] = None
  BY <1>1 DEF IInv, StampsAreSpent, Stored, Ids
<1>10. SendKnows(call[w])'
  <2>1. Owner[c.att] = c.user \/ c.att = None
    BY <1>3 DEF IInv, SendKnows
  <2>2. c.user \in Users /\ c.chat \in ChatKeys
    BY <1>3 DEF IInv, SendKnows
  <2>3. c.msg \in Ids /\ c.msg < nextId' /\ messages'[c.msg] = None
    BY <1>1, <1>3, <1>9
  <2>4. c.att # None => c.att \in Attachments
    BY <1>3 DEF Calls
  <2>5. None \notin uploads
    BY DEF IInv, TypeOK
  <2>6. call'[w] = c
    BY <1>1, <1>2
  <2>7. uploads' = uploads
    OBVIOUS
  <2>8. CASE c.att = None
    BY <1>3, <2>2, <2>3, <2>5, <2>6, <2>7, <2>8, ZenonT(60) DEF SendKnows
  <2>9. CASE c.att # None
    BY <1>3, <2>1, <2>2, <2>3, <2>4, <2>6, <2>7, <2>9 DEF SendKnows
  <2>10. QED
    BY <2>8, <2>9
<1>11. \A v \in Workers : v # w => SendKnows(call[v])'
  BY <1>1, <1>4 DEF IInv, SendKnows, Ids
<1>12. QED
  BY <1>5, <1>6, <1>8, <1>10, <1>11 DEF IInv

\* The UPDATE of the attachment, which waits for its row.
LEMMA SendLinkStep ==
  ASSUME NEW w \in Workers, IInv, SendLink(w)
  PROVE  IInv'
<1> DEFINE c == [call[w] EXCEPT !.pc = IF call[w].att \in uploads
                                       THEN "commitLinked" ELSE "commitPlain"]
<1>1. call[w] \in Calls
  BY DEF IInv, TypeOK
<1>2. c \in Calls /\ c.msg = call[w].msg /\ c.att = call[w].att /\ c.user = call[w].user
      /\ c.chat = call[w].chat
      /\ (c.att \in uploads => c.pc = "commitLinked")
      /\ (c.att \notin uploads => c.pc = "commitPlain")
  BY <1>1 DEF Calls, Pcs, Inserted
<1>3. SendKnows(c)
  BY <1>2 DEF SendLink, IInv, SendKnows, Inserted
<1>4. AsideOK' /\ Untouched
  BY AllUnchanged DEF SendLink
<1>5. OnlyCall(w, c)
  BY <1>4 DEF SendLink, OnlyCall, Goto
<1>6. call[w].pc \in Inserted
  BY DEF SendLink, Inserted
<1>7. QED
  BY <1>2, <1>3, <1>4, <1>5, <1>6, HandlerMoves

\* The COMMIT of a send makes its message and its link visible together.
LEMMA SendCommitStep ==
  ASSUME NEW w \in Workers, IInv, SendCommit(w)
  PROVE  IInv'
<1> DEFINE x == call[w]
<1> DEFINE row == [chat |-> x.chat, sender |-> x.user, att |-> x.att]
<1> USE DEF rows, events, relVars
<1>1. x \in Calls /\ call \in [Workers -> Calls] /\ x.pc \in {"commitPlain", "commitLinked"}
      /\ messages \in [Ids -> Message \cup {None}] /\ link \in [Attachments -> Ids \cup {None}]
  BY DEF IInv, TypeOK, SendCommit
<1>2. x.msg \in Ids /\ x.msg < nextId /\ messages[x.msg] = None /\ x.user \in Users
      /\ x.chat \in ChatKeys /\ x.att \in Attachments \cup {None}
      /\ (x.att # None => Owner[x.att] = x.user)
  BY <1>1 DEF IInv, SendKnows, Inserted, Calls
<1>3. row \in Message /\ row # None
  <2>1. row \in Message
    BY <1>2 DEF Message
  <2>2. QED
    BY <2>1, NoneAssumption DEF Message
<1>4. messages' = [messages EXCEPT ![x.msg] = row]
  BY DEF SendCommit
<1>5. link' = IF x.pc = "commitLinked" THEN [link EXCEPT ![x.att] = x.msg] ELSE link
  BY DEF SendCommit
<1>6. call' = [call EXCEPT ![w].pc = "sendReload"]
      /\ UNCHANGED <<status, chats, live, readBy, nextId, uploads, announced, receipts>>
  BY DEF SendCommit, Goto
<1>7. TypeOK'
  <2>1. messages' \in [Ids -> Message \cup {None}]
    BY <1>1, <1>2, <1>3, <1>4
  <2>2. link' \in [Attachments -> Ids \cup {None}]
    BY <1>1, <1>2, <1>5
  <2>3. call' \in [Workers -> Calls]
    BY <1>1, <1>6 DEF Calls, Pcs
  <2>4. QED
    BY <1>6, <2>1, <2>2, <2>3 DEF IInv, TypeOK
<1>8. Stored' = Stored \cup {x.msg} /\ x.msg \notin Stored
  BY <1>1, <1>2, <1>3, <1>4 DEF Stored
<1>9. StampsAreSpent'
  BY <1>2, <1>6, <1>8 DEF IInv, StampsAreSpent
<1>10. \A v \in Workers : v # w => call'[v] = call[v]
  BY <1>1, <1>6
<1>11. call'[w].pc = "sendReload" /\ call'[w].user = x.user /\ call'[w].chat = x.chat
       /\ call'[w].msg = x.msg
  BY <1>1, <1>6 DEF Calls
<1>12. RowsAreOwn'
  BY <1>10, <1>11 DEF IInv, RowsAreOwn, Inserted
<1>13. \A v \in Workers : SendKnows(call[v])'
  <2> TAKE v \in Workers
  <2>1. CASE v = w
    BY <1>2, <1>11, <2>1 DEF SendKnows, Inserted
  <2>2. CASE v # w
    <3>1. call[v].pc \in Inserted => call[v].msg # x.msg
      BY <1>1, <2>2 DEF IInv, RowsAreOwn, Inserted
    <3>2. call[v].pc \in Inserted => messages'[call[v].msg] = None
      BY <1>1, <1>4, <3>1 DEF IInv, SendKnows
    <3>3. QED
      BY <1>6, <1>10, <2>2, <3>2 DEF IInv, SendKnows
  <2>3. QED
    BY <2>1, <2>2
<1>14. AttachmentLinkIsWhole'
  <2>0. \A m \in Stored : m # x.msg /\ messages'[m] = messages[m]
    BY <1>1, <1>2, <1>4, <1>8 DEF Stored
  <2>00. messages'[x.msg] = row /\ row.att = x.att /\ row.sender = x.user
    BY <1>1, <1>2, <1>4
  <2>1. ASSUME NEW a \in Attachments, link'[a] # None
        PROVE  /\ a \in uploads'
               /\ link'[a] \in Stored'
               /\ messages'[link'[a]].att = a
               /\ messages'[link'[a]].sender = Owner[a]
    <3>1. CASE x.pc = "commitLinked" /\ a = x.att
      <4>1. link'[a] = x.msg /\ a \in uploads'
        BY <1>1, <1>5, <1>6, <3>1 DEF IInv, SendKnows
      <4>2. QED
        BY <1>2, <1>8, <2>00, <2>1, <3>1, <4>1
    <3>2. CASE ~(x.pc = "commitLinked" /\ a = x.att)
      <4>1. link'[a] = link[a]
        BY <1>1, <1>5, <3>2
      <4>2. link[a] \in Stored /\ messages[link[a]].att = a
            /\ messages[link[a]].sender = Owner[a] /\ a \in uploads
        BY <2>1, <4>1 DEF IInv, AttachmentLinkIsWhole
      <4>3. QED
        BY <1>6, <1>8, <2>0, <4>1, <4>2
    <3>3. QED
      BY <3>1, <3>2
  <2>2. ASSUME NEW m \in Stored', messages'[m].att \in uploads'
        PROVE  link'[messages'[m].att] # None
    <3>0. x.msg # None
      BY <1>2, NoneAssumption
    <3>1. CASE m = x.msg
      <4>1. x.att \in uploads
        BY <1>6, <2>00, <2>2, <3>1
      <4>2. x.pc = "commitLinked"
        BY <1>1, <4>1 DEF IInv, SendKnows
      <4>3. x.att \in Attachments
        BY <4>1 DEF IInv, TypeOK
      <4>4. link'[x.att] = x.msg
        BY <1>1, <1>5, <4>2, <4>3
      <4>5. QED
        BY <2>00, <3>0, <3>1, <4>4
    <3>2. CASE m # x.msg
      <4>1. m \in Stored /\ messages'[m] = messages[m] /\ messages[m].att \in uploads
        BY <1>6, <1>8, <2>0, <2>2, <3>2
      <4>2. link[messages[m].att] # None /\ messages[m].att \in Attachments
        BY <4>1 DEF IInv, AttachmentLinkIsWhole, TypeOK
      <4>3. QED
        BY <1>1, <1>5, <3>0, <4>1, <4>2
    <3>3. QED
      BY <3>1, <3>2
  <2>3. QED
    BY <2>1, <2>2 DEF AttachmentLinkIsWhole
<1>15. QED
  BY <1>7, <1>9, <1>12, <1>13, <1>14 DEF IInv

\* The deletion of an upload, which waits for its row.
LEMMA DropUploadStep ==
  ASSUME NEW f \in Attachments, IInv, DropUpload(f)
  PROVE  IInv'
<1> USE DEF DropUpload, events, relVars
<1>1. TypeOK'
  BY DEF IInv, TypeOK
<1>2. StampsAreSpent' /\ RowsAreOwn'
  BY DEF IInv, StampsAreSpent, RowsAreOwn, Stored
<1>3. \A v \in Workers : SendKnows(call[v])'
  BY DEF IInv, SendKnows, AttachmentFree, TypeOK
<1>4. \A a \in Attachments : a # f => link'[a] = link[a]
  BY DEF IInv, TypeOK
<1>5. link'[f] = None
  BY DEF IInv, TypeOK
<1>6. AttachmentLinkIsWhole'
  BY <1>4, <1>5 DEF IInv, AttachmentLinkIsWhole, TypeOK, Stored
<1>7. QED
  BY <1>1, <1>2, <1>3, <1>6 DEF IInv

-----------------------------------------------------------------------------
\* Every step keeps the invariant.

\* Every statement of a handler keeps the invariant.
LEMMA AdvanceStep ==
  ASSUME NEW w \in Workers, IInv, Advance(w)
  PROVE  IInv'
<1> USE DEF Pcs, Inserted
<1>0. call[w] \in Calls /\ AsideOK
  BY DEF IInv, TypeOK, AsideOK
<1>00. UNCHANGED <<relVars, live, rows, events>> => AsideOK' /\ Untouched
  BY AllUnchanged
<1>1. CASE SendChat(w)
  BY <1>00, <1>1, GotoMoves, ReturnMoves DEF SendChat, EnterChat
<1>2. CASE SendContacts(w)
  <2>1. CASE AreContacts(call[w].chat) /\ call[w].att = None
    BY <1>00, <1>2, <2>1, GotoMoves DEF SendContacts
  <2>2. CASE AreContacts(call[w].chat) /\ call[w].att # None
    BY <1>00, <1>2, <2>2, GotoMoves DEF SendContacts
  <2>3. CASE ~AreContacts(call[w].chat)
    BY <1>00, <1>2, <2>3, ReturnMoves DEF SendContacts
  <2>4. QED
    BY <2>1, <2>2, <2>3
<1>3. CASE SendAttachment(w)
  <2>1. CASE Goto(w, "sendInsert") /\ Owner[call[w].att] = call[w].user
    BY <1>00, <1>3, <2>1, GotoMoves DEF SendAttachment
  <2>2. CASE Return(w)
    BY <1>00, <1>3, <2>2, ReturnMoves DEF SendAttachment
  <2>3. QED
    BY <1>3, <2>1, <2>2 DEF SendAttachment
<1>4. CASE SendInsert(w)
  BY <1>4, SendInsertStep
<1>5. CASE SendLink(w)
  BY <1>5, SendLinkStep
<1>6. CASE SendCommit(w)
  BY <1>6, SendCommitStep
<1>7. CASE SendReload(w)
  <2>1. call[w].msg \in Ids
    BY <1>7 DEF SendReload, IInv, SendKnows
  <2>2. AsideOK' /\ Untouched /\ Return(w)
    BY <1>0, <1>7, <2>1 DEF SendReload, AsideOK, Untouched, relVars, rows, events
  <2>3. QED
    BY <2>2, ReturnMoves
<1>8. CASE ReadChat(w)
  BY <1>00, <1>8, GotoMoves, ReturnMoves DEF ReadChat, EnterChat
<1>9. CASE ReadSelect(w)
  <2> DEFINE ids == {m \in Unread(call[w].chat, call[w].user) : messages[m].sender \in live}
  <2>1. CASE ids = {}
    BY <1>00, <1>9, <2>1, ReturnMoves DEF ReadSelect
  <2>2. CASE ids # {}
    <3> DEFINE c == [call[w] EXCEPT !.pc = "readUpdate", !.ids = ids]
    <3>1. ids \subseteq Ids
      BY DEF Unread, Stored
    <3>2. c \in Calls /\ c.pc = "readUpdate" /\ c.user = call[w].user
          /\ c.chat = call[w].chat
      BY <1>0, <3>1 DEF Calls
    <3>3. SendKnows(c)
      BY <1>9, <3>2 DEF ReadSelect, IInv, SendKnows
    <3>4. OnlyCall(w, c)
      <4>1. call' = [call EXCEPT ![w].pc = "readUpdate", ![w].ids = ids]
        BY <1>9, <2>2 DEF ReadSelect
      <4>2. call' = [call EXCEPT ![w] = c]
        BY <4>1 DEF IInv, TypeOK, Calls
      <4>3. QED
        BY <1>00, <1>9, <4>2 DEF ReadSelect, OnlyCall
    <3>5. c.pc \notin Inserted
      BY <3>2
    <3>6. AsideOK'
      BY <1>00, <1>9 DEF ReadSelect
    <3> HIDE DEF c
    <3>7. QED
      BY <3>2, <3>3, <3>4, <3>5, <3>6, HandlerMoves
  <2>3. QED
    BY <2>1, <2>2
<1>10. CASE ReadUpdate(w)
  <2>1. AsideOK' /\ Untouched /\ Goto(w, "readBroadcast")
    BY <1>0, <1>10 DEF ReadUpdate, AsideOK, Untouched, relVars, events
  <2>2. QED
    BY <1>10, <2>1, GotoMoves DEF ReadUpdate
<1>11. CASE ReadBroadcast(w)
  <2>1. AsideOK' /\ Untouched /\ Return(w)
    BY <1>0, <1>11 DEF ReadBroadcast, AsideOK, Untouched, relVars, rows, Calls
  <2>2. QED
    BY <2>1, ReturnMoves
<1>12. QED
  BY <1>1, <1>2, <1>3, <1>4, <1>5, <1>6, <1>7, <1>8, <1>9, <1>10, <1>11 DEF Advance

\* A call starts.
LEMMA BeginStep ==
  ASSUME NEW w \in Workers, NEW c \in Calls, IInv, Begin(w, c), c.user \in Users,
         c.chat \in ChatKeys, c.pc \in {"sendChat", "readChat"}
  PROVE  IInv'
<1>1. SendKnows(c) /\ c.pc \notin Inserted
  BY DEF SendKnows, Inserted
<1>2. AsideOK' /\ Untouched
  BY AllUnchanged DEF Begin
<1>3. OnlyCall(w, c)
  BY <1>2 DEF OnlyCall, Begin
<1>4. QED
  BY <1>1, <1>2, <1>3, HandlerMoves

\* The contact requests that move meanwhile.
LEMMA ContactsStepKeeps ==
  ASSUME IInv, ContactsStep
  PROVE  IInv'
<1>1. PICK p \in R!Pairs : R!RelStep(p)
  BY RequestsAssumption DEF ContactsStep
<1>2. status \in [R!Pairs -> R!Statuses] /\ chats \subseteq ChatKeys
  BY DEF IInv, TypeOK
<1>3. R!ChatKey(p) \in ChatKeys
  BY DEF ChatKeys
<1>4. status' \in [R!Pairs -> R!Statuses]
  BY <1>1, <1>2 DEF R!RelStep, R!Request, R!Accept, R!Decline, R!Reopen,
     R!LateAccept, R!LateDecline, R!SetStatus, R!Statuses
<1>5. chats' \subseteq ChatKeys
  BY <1>1, <1>2, <1>3 DEF R!RelStep, R!Request, R!Accept, R!Decline,
     R!Reopen, R!LateAccept, R!LateDecline
<1>6. AsideOK' /\ Untouched /\ UNCHANGED call
  BY <1>4, <1>5 DEF ContactsStep, IInv, TypeOK, AsideOK, Untouched, rows, events
<1>7. QED
  BY <1>6, AsideMoves

\* Every step keeps the invariant.
LEMMA NextIInv == IInv /\ [Next]_vars => IInv'
<1> SUFFICES ASSUME IInv, [Next]_vars PROVE IInv'
  OBVIOUS
<1>1. CASE UNCHANGED vars
  BY <1>1, AllUnchanged, AsideMoves DEF vars
<1>2. ASSUME NEW w \in Senders, NEW u \in Users, NEW k \in ChatKeys,
             NEW a \in Attachments \cup {None}, SendBegin(w, u, k, a)
      PROVE  IInv'
  <2> DEFINE c == [NoCall EXCEPT !.pc = "sendChat", !.user = u, !.chat = k, !.att = a]
  <2>1. c \in Calls /\ c.pc = "sendChat" /\ c.user = u /\ c.chat = k
    BY DEF NoCall, Calls, Pcs
  <2>2. Begin(w, c) /\ w \in Workers
    BY <1>2 DEF SendBegin, Workers
  <2> HIDE DEF c
  <2>3. QED
    BY <2>1, <2>2, BeginStep
<1>3. ASSUME NEW w \in Readers, NEW u \in Users, NEW k \in ChatKeys, ReadBegin(w, u, k)
      PROVE  IInv'
  <2> DEFINE c == [NoCall EXCEPT !.pc = "readChat", !.user = u, !.chat = k]
  <2>1. c \in Calls /\ c.pc = "readChat" /\ c.user = u /\ c.chat = k
    BY DEF NoCall, Calls, Pcs
  <2>2. Begin(w, c) /\ w \in Workers
    BY <1>3 DEF ReadBegin, Workers
  <2> HIDE DEF c
  <2>3. QED
    BY <2>1, <2>2, BeginStep
<1>4. ASSUME NEW w \in Workers, CallFails(w)
      PROVE  IInv'
  BY <1>4, AllUnchanged, ReturnMoves DEF CallFails
<1>5. CASE \E u \in Users : DeleteAccount(u)
  <2>1. AsideOK' /\ Untouched /\ UNCHANGED call
    BY <1>5 DEF DeleteAccount, IInv, TypeOK, AsideOK, Untouched, relVars, rows, events
  <2>2. QED
    BY <2>1, AsideMoves
<1>6. CASE \E a \in Attachments : DropUpload(a)
  BY <1>6, DropUploadStep
<1>7. CASE ContactsStep
  BY <1>7, ContactsStepKeeps
<1>8. QED
  BY <1>1, <1>2, <1>3, <1>4, <1>5, <1>6, <1>7, AdvanceStep DEF Next

\* Sends that overlap, fail midway or race the deletion of the upload always
\* leave the inductive invariant true.
THEOREM InductiveInvariant == Spec => []IInv
<1>1. QED
  BY InitIInv, NextIInv, PTL DEF Spec

\* A failed or overtaken send never leaves a half-linked attachment: links and
\* stored messages agree in every reachable state, for any number of senders.
THEOREM LinksAreWhole == Spec => []AttachmentLinkIsWhole
<1>1. IInv => AttachmentLinkIsWhole
  BY DEF IInv
<1>2. QED
  BY <1>1, InductiveInvariant, PTL

-----------------------------------------------------------------------------
\* Events only follow rows: stored messages and read marks are never taken back.

Grows ==
  /\ \A m \in Stored : m \in Stored' /\ messages'[m] = messages[m]
  /\ \A m \in Ids : readBy[m] # None => readBy'[m] # None

\* A handler that stays where it is still knows what it reports.
LEMMA KnowsStays ==
  ASSUME NEW c \in Calls, ReportKnows(c), Grows, IInv
  PROVE  ReportKnows(c)'
<1>1. ASSUME c.pc = "readUpdate", NEW m \in c.ids
      PROVE  (readBy[m] # None \/ m \in Unread(c.chat, c.user))'
  <2>1. m \in Ids /\ (readBy[m] # None \/ m \in Unread(c.chat, c.user))
    BY <1>1 DEF ReportKnows, Calls
  <2>2. CASE readBy'[m] # None
    BY <2>2
  <2>3. CASE readBy'[m] = None
    <3>1. m \in Unread(c.chat, c.user)
      BY <2>1, <2>3 DEF Grows
    <3>2. m \in Stored' /\ messages'[m] = messages[m]
      BY <3>1 DEF Grows, Unread
    <3>3. QED
      BY <2>3, <3>1, <3>2 DEF Unread
  <2>4. QED
    BY <2>2, <2>3
<1>2. c.pc = "readBroadcast" => \A m \in c.ids : readBy'[m] # None
  BY DEF ReportKnows, Grows, Calls
<1>3. c.pc = "sendReload" => c.msg \in Stored'
  BY DEF ReportKnows, Grows
<1>4. c.pc \in {"readSelect", "readUpdate"} => c.user \in c.chat
  BY DEF ReportKnows
<1>5. QED
  BY <1>1, <1>2, <1>3, <1>4 DEF ReportKnows

\* Every step only adds messages and read marks, and read_at is written once.
LEMMA NextGrows ==
  ASSUME IInv, [Next]_vars
  PROVE  Grows /\ \A m \in Ids : readBy[m] # None => readBy'[m] = readBy[m]
<1>1. CASE \E w \in Workers : SendCommit(w)
  <2>1. PICK w \in Workers : SendCommit(w)
    BY <1>1
  <2>2. call[w].msg \in Ids /\ messages[call[w].msg] = None
    BY <2>1 DEF SendCommit, IInv, SendKnows, Inserted
  <2>3. readBy' = readBy
    BY <2>1 DEF SendCommit
  <2>4. \A m \in Stored : m # call[w].msg /\ messages'[m] = messages[m]
    BY <2>1, <2>2 DEF SendCommit, IInv, TypeOK, Stored
  <2>5. QED
    BY <2>3, <2>4 DEF Grows, Stored
<1>2. CASE \E w \in Workers : ReadUpdate(w)
  <2>1. PICK w \in Workers : ReadUpdate(w)
    BY <1>2
  <2>2. messages' = messages
    BY <2>1 DEF ReadUpdate
  <2>3. \A m \in Ids : readBy[m] # None => readBy'[m] = readBy[m]
    BY <2>1 DEF ReadUpdate, Unread
  <2>4. QED
    BY <2>2, <2>3 DEF Grows, Stored
<1>3. CASE ~(\E w \in Workers : SendCommit(w) \/ ReadUpdate(w))
  <2>1. UNCHANGED <<messages, readBy>>
    BY <1>3 DEF Next, Advance, vars, rows, SendBegin, ReadBegin, Begin, SendChat,
       EnterChat, SendContacts, SendAttachment, SendInsert, SendLink, SendReload,
       ReadChat, ReadSelect, ReadBroadcast, CallFails, DeleteAccount, DropUpload,
       ContactsStep, Workers
  <2>2. QED
    BY <2>1 DEF Grows, Stored
<1>4. QED
  BY <1>1, <1>2, <1>3

\* What handler w knows after its own step.
LEMMA AdvanceKnows ==
  ASSUME NEW w \in Workers, EventsInv, Advance(w)
  PROVE  ReportKnows(call[w])'
<1>0. call[w] \in Calls /\ call \in [Workers -> Calls]
  BY DEF EventsInv, IInv, TypeOK
<1>1. ASSUME NEW pc \in Pcs, Goto(w, pc)
      PROVE  /\ call'[w] = [call[w] EXCEPT !.pc = pc] /\ call'[w].pc = pc
             /\ call'[w].user = call[w].user /\ call'[w].chat = call[w].chat
             /\ call'[w].msg = call[w].msg /\ call'[w].ids = call[w].ids
  BY <1>0, <1>1 DEF Goto, Calls
<1>2. ASSUME Return(w) PROVE ReportKnows(call[w])'
  BY <1>0, <1>2 DEF Return, ReportKnows, NoCall
<1>3. ASSUME NEW pc \in Pcs \ {"sendReload", "readSelect", "readUpdate", "readBroadcast"},
             Goto(w, pc)
      PROVE  ReportKnows(call[w])'
  BY <1>1, <1>3 DEF ReportKnows
<1>4. CASE SendChat(w) \/ SendContacts(w) \/ SendAttachment(w) \/ SendLink(w)
  BY <1>2, <1>3, <1>4 DEF SendChat, EnterChat, SendContacts, SendAttachment, SendLink, Pcs
<1>5. CASE SendInsert(w)
  BY <1>0, <1>5 DEF SendInsert, Calls, ReportKnows
<1>6. CASE SendCommit(w)
  <2>1. call'[w].pc = "sendReload" /\ call'[w].msg = call[w].msg
    BY <1>1, <1>6 DEF SendCommit, Pcs
  <2>2. call[w].msg \in Ids /\ call[w].chat \in ChatKeys /\ call[w].user \in Users
        /\ call[w].att \in Attachments \cup {None}
    BY <1>0, <1>6 DEF SendCommit, EventsInv, IInv, SendKnows, Inserted, Calls
  <2> DEFINE row == [chat |-> call[w].chat, sender |-> call[w].user, att |-> call[w].att]
  <2>3. row \in Message
    BY <2>2 DEF Message
  <2>4. messages'[call[w].msg] = row
    BY <1>6, <2>2 DEF SendCommit, EventsInv, IInv, TypeOK
  <2>5. call[w].msg \in Stored'
    BY <2>2, <2>3, <2>4 DEF Stored
  <2>6. QED
    BY <2>1, <2>5 DEF ReportKnows
<1>7. CASE SendReload(w) \/ ReadBroadcast(w)
  BY <1>2, <1>7 DEF SendReload, ReadBroadcast
<1>8. CASE ReadChat(w)
  <2>1. CASE Goto(w, "readSelect") /\ call[w].user \in call[w].chat
    BY <1>1, <2>1 DEF ReportKnows, Pcs
  <2>2. QED
    BY <1>2, <1>8, <2>1 DEF ReadChat, EnterChat
<1>9. CASE ReadSelect(w)
  <2> DEFINE ids == {m \in Unread(call[w].chat, call[w].user) : messages[m].sender \in live}
  <2>1. CASE ids # {}
    <3>1. call' = [call EXCEPT ![w].pc = "readUpdate", ![w].ids = ids]
      BY <1>9, <2>1 DEF ReadSelect
    <3>2. call'[w].pc = "readUpdate" /\ call'[w].ids = ids
          /\ call'[w].user = call[w].user /\ call'[w].chat = call[w].chat
      BY <1>0, <3>1 DEF Calls
    <3>3. call[w].user \in call[w].chat
      BY <1>9 DEF ReadSelect, EventsInv, ReportKnows
    <3>4. UNCHANGED <<messages, readBy>>
      BY <1>9 DEF ReadSelect, rows
    <3>5. ids \subseteq Unread(call[w].chat, call[w].user)
      OBVIOUS
    <3>6. \A m \in ids : m \in Unread(call[w].chat, call[w].user)'
      BY <3>2, <3>4, <3>5 DEF Unread, Stored
    <3> HIDE DEF ids
    <3>7. QED
      BY <3>2, <3>3, <3>6 DEF ReportKnows
  <2>2. QED
    BY <1>2, <1>9, <2>1 DEF ReadSelect
<1>10. CASE ReadUpdate(w)
  <2>1. call'[w].pc = "readBroadcast" /\ call'[w].ids = call[w].ids
    BY <1>1, <1>10 DEF ReadUpdate, Pcs
  <2>2. \A m \in call[w].ids : m \in Ids
                               /\ (readBy[m] # None \/ m \in Unread(call[w].chat, call[w].user))
    BY <1>0, <1>10 DEF ReadUpdate, EventsInv, ReportKnows, Calls
  <2>3. w # None
    BY NoneAssumption
  <2>4. \A m \in call[w].ids : readBy'[m] # None
    BY <1>10, <2>2, <2>3 DEF ReadUpdate
  <2>5. QED
    BY <2>1, <2>4 DEF ReportKnows
<1>11. QED
  BY <1>4, <1>5, <1>6, <1>7, <1>8, <1>9, <1>10 DEF Advance

\* Every step keeps what the broadcasts rely on.
LEMMA NextEvents == EventsInv /\ [Next]_vars => EventsInv'
<1> SUFFICES ASSUME EventsInv, [Next]_vars PROVE EventsInv'
  OBVIOUS
<1>1. IInv /\ IInv' /\ Grows
  BY NextIInv, NextGrows DEF EventsInv
<1>2. ASSUME NEW v \in Workers, call'[v] = call[v]
      PROVE  ReportKnows(call[v])'
  BY <1>1, <1>2, KnowsStays DEF EventsInv, IInv, TypeOK
<1>3. ASSUME NEW w \in Workers, ReportKnows(call[w])',
             \A v \in Workers : v # w => call'[v] = call[v]
      PROVE  \A v \in Workers : ReportKnows(call[v])'
  BY <1>2, <1>3
<1>4. ASSUME NEW w \in Workers, Return(w)
      PROVE  \A v \in Workers : ReportKnows(call[v])'
  BY <1>1, <1>3, <1>4 DEF Return, NoCall, ReportKnows, IInv, TypeOK
<1>5. ASSUME NEW w \in Workers, NEW c \in Calls, Begin(w, c), c.pc \in {"sendChat", "readChat"}
      PROVE  \A v \in Workers : ReportKnows(call[v])'
  BY <1>1, <1>3, <1>5 DEF Begin, ReportKnows, IInv, TypeOK
<1>6. \A v \in Workers : ReportKnows(call[v])'
  <2>1. CASE UNCHANGED call
    BY <1>2, <2>1
  <2>2. ASSUME NEW w \in Workers, Advance(w)
        PROVE  \A v \in Workers : ReportKnows(call[v])'
    <3>1. \A v \in Workers : v # w => call'[v] = call[v]
      BY <1>1, <2>2 DEF Advance, SendChat, EnterChat, SendContacts, SendAttachment,
         SendInsert, SendLink, SendCommit, SendReload, ReadChat, ReadSelect, ReadUpdate,
         ReadBroadcast, Goto, Return, IInv, TypeOK
    <3>2. QED
      BY <1>3, <2>2, <3>1, AdvanceKnows
  <2>3. ASSUME NEW w \in Workers, CallFails(w)
        PROVE  \A v \in Workers : ReportKnows(call[v])'
    BY <1>4, <2>3 DEF CallFails
  <2>4. ASSUME NEW w \in Senders, NEW u \in Users, NEW k \in ChatKeys,
               NEW a \in Attachments \cup {None}, SendBegin(w, u, k, a)
        PROVE  \A v \in Workers : ReportKnows(call[v])'
    BY <1>5, <2>4 DEF SendBegin, NoCall, Calls, Pcs, Workers
  <2>5. ASSUME NEW w \in Readers, NEW u \in Users, NEW k \in ChatKeys, ReadBegin(w, u, k)
        PROVE  \A v \in Workers : ReportKnows(call[v])'
    BY <1>5, <2>5 DEF ReadBegin, NoCall, Calls, Pcs, Workers
  <2>6. CASE (\E u \in Users : DeleteAccount(u)) \/ (\E a \in Attachments : DropUpload(a))
             \/ ContactsStep
    BY <2>1, <2>6 DEF DeleteAccount, DropUpload, ContactsStep
  <2>7. QED
    BY <2>1, <2>2, <2>3, <2>4, <2>5, <2>6 DEF Next, vars
<1>7. ASSUME UNCHANGED events PROVE EventsFollowRows'
  BY <1>1, <1>7 DEF EventsInv, EventsFollowRows, Grows, events, IInv, TypeOK
<1>8. EventsFollowRows'
  <2>1. ASSUME NEW w \in Workers, SendReload(w) PROVE EventsFollowRows'
    <3>1. call[w].msg \in Stored
      BY <2>1 DEF SendReload, EventsInv, ReportKnows
    <3>2. announced' \subseteq announced \cup {call[w].msg} /\ receipts' = receipts
      BY <2>1 DEF SendReload
    <3>3. QED
      BY <1>1, <3>1, <3>2 DEF EventsInv, EventsFollowRows, Grows, IInv, TypeOK
  <2>2. ASSUME NEW w \in Workers, ReadBroadcast(w) PROVE EventsFollowRows'
    <3>1. \A m \in call[w].ids : m \in Ids /\ readBy[m] # None
      BY <1>1, <2>2 DEF ReadBroadcast, EventsInv, ReportKnows, IInv, TypeOK, Calls
    <3>2. receipts' = receipts \cup call[w].ids /\ announced' = announced
      BY <2>2 DEF ReadBroadcast
    <3>3. QED
      BY <1>1, <3>1, <3>2 DEF EventsInv, EventsFollowRows, Grows, IInv, TypeOK
  <2>3. CASE ~(\E w \in Workers : SendReload(w) \/ ReadBroadcast(w))
    <3>1. UNCHANGED events
      BY <2>3 DEF Next, Advance, vars, events, SendBegin, ReadBegin, Begin, SendChat,
         EnterChat, SendContacts, SendAttachment, SendInsert, SendLink, SendCommit,
         ReadChat, ReadSelect, ReadUpdate, CallFails, DeleteAccount, DropUpload,
         ContactsStep, Workers
    <3>2. QED
      BY <1>7, <3>1
  <2>4. QED
    BY <2>1, <2>2, <2>3
<1>9. QED
  BY <1>1, <1>6, <1>8 DEF EventsInv

\* Sockets never hear of a message that is not stored or of a receipt that is not
\* written, whichever handlers overlap or fail in between.
THEOREM EventsAreTrue == Spec => []EventsFollowRows
<1>1. Init => EventsInv
  BY InitIInv DEF Init, EventsInv, EventsFollowRows, ReportKnows, NoCall
<1>2. EventsInv => EventsFollowRows
  BY DEF EventsInv
<1>3. QED
  BY <1>1, <1>2, NextEvents, PTL DEF Spec

\* The instant at which a message was first read is never rewritten.
THEOREM ReadOnce == Spec => ReadStampIsFinal
<1>1. IInv /\ [Next]_vars => [\A m \in Ids : readBy[m] # None => readBy'[m] = readBy[m]]_vars
  BY NextGrows
<1>2. QED
  BY <1>1, InductiveInvariant, PTL DEF Spec, ReadStampIsFinal

\* Only the other participant of its chat marks a message read.
THEOREM RecipientReads == Spec => ReadByRecipient
<1>1. Init => EventsInv
  BY InitIInv DEF Init, EventsInv, EventsFollowRows, ReportKnows, NoCall
<1>2. EventsInv /\ [Next]_vars
        => [\A m \in Ids : readBy'[m] # readBy[m] =>
              \E w \in Workers : /\ call[w].user \in messages[m].chat
                                 /\ call[w].user # messages[m].sender]_vars
  <2> SUFFICES ASSUME EventsInv, [Next]_vars, NEW m \in Ids, readBy'[m] # readBy[m]
               PROVE  \E w \in Workers : /\ call[w].user \in messages[m].chat
                                         /\ call[w].user # messages[m].sender
    OBVIOUS
  <2>1. PICK w \in Workers : ReadUpdate(w)
    BY DEF Next, Advance, vars, rows, SendBegin, ReadBegin, Begin, SendChat,
       EnterChat, SendContacts, SendAttachment, SendInsert, SendLink, SendCommit,
       SendReload, ReadChat, ReadSelect, ReadBroadcast, CallFails, DeleteAccount,
       DropUpload, ContactsStep, Workers
  <2>2. m \in Unread(call[w].chat, call[w].user)
    BY <2>1 DEF ReadUpdate
  <2>3. call[w].user \in call[w].chat
    BY <2>1 DEF ReadUpdate, EventsInv, ReportKnows
  <2>4. QED
    BY <2>2, <2>3 DEF Unread
<1>3. QED
  BY <1>1, <1>2, NextEvents, PTL DEF Spec, ReadByRecipient

-----------------------------------------------------------------------------
\* What StoredIsAnnounced needs besides fairness.

\* No statement fails and nobody leaves.
Undisturbed == Faults = FALSE /\ Quitters = {}

\* A stored message that no broadcast has announced is in the hands of a handler
\* whose next statement announces it.
AnnouncementIsOwed ==
  \A m \in Stored \ announced :
    \E w \in Workers : At(w, "sendReload") /\ call[w].msg = m /\ call[w].user \in live

\* Only a commit adds a message, and only its own broadcast ends the last
\* statement of a send, when nothing fails.
LEMMA OnlySendsMatter ==
  ASSUME IInv, [Next]_vars, Undisturbed
  PROVE  \/ \E w \in Workers : SendCommit(w) \/ SendReload(w)
         \/ /\ UNCHANGED <<messages, announced>>
            /\ \A w \in Workers : At(w, "sendReload") => call'[w] = call[w]
<1> USE DEF IInv, TypeOK
<1>1. CASE UNCHANGED <<messages, announced, call>>
  BY <1>1
<1>2. ASSUME NEW w \in Workers, Advance(w)
      PROVE  \/ SendCommit(w) \/ SendReload(w)
             \/ /\ UNCHANGED <<messages, announced>>
                /\ \A v \in Workers : At(v, "sendReload") => call'[v] = call[v]
  <2> USE DEF rows, events, Goto, Return
  <2>1. CASE SendChat(w) \/ SendContacts(w) \/ SendAttachment(w)
    BY <2>1 DEF SendChat, EnterChat, SendContacts, SendAttachment
  <2>2. CASE SendInsert(w) \/ SendLink(w)
    BY <2>2 DEF SendInsert, SendLink
  <2>3. CASE ReadChat(w) \/ ReadSelect(w)
    BY <2>3 DEF ReadChat, EnterChat, ReadSelect
  <2>4. CASE ReadUpdate(w) \/ ReadBroadcast(w)
    BY <2>4 DEF ReadUpdate, ReadBroadcast
  <2>5. QED
    BY <1>2, <2>1, <2>2, <2>3, <2>4 DEF Advance
<1>3. ASSUME NEW w \in Workers, NEW c, Begin(w, c)
      PROVE  /\ UNCHANGED <<messages, announced>>
             /\ \A v \in Workers : At(v, "sendReload") => call'[v] = call[v]
  BY <1>3 DEF Begin, rows, events
<1>4. \A w \in Workers : ~CallFails(w)
  BY DEF Undisturbed, CallFails
<1>5. CASE (\E u \in Users : DeleteAccount(u)) \/ (\E a \in Attachments : DropUpload(a))
           \/ ContactsStep \/ UNCHANGED vars
  BY <1>1, <1>5 DEF DeleteAccount, DropUpload, ContactsStep, rows, events, vars
<1>6. QED
  BY <1>2, <1>3, <1>4, <1>5 DEF Next, SendBegin, ReadBegin, Workers

\* Undisturbed, nobody leaves.
LEMMA AllStayLive ==
  ASSUME Undisturbed, live = Users, [Next]_vars
  PROVE  live' = Users
<1>1. \A u \in Users : ~DeleteAccount(u)
  BY DEF Undisturbed, DeleteAccount
<1>2. live' = live
  BY <1>1 DEF Next, Advance, vars, SendBegin, ReadBegin, Begin, SendChat, EnterChat,
     SendContacts, SendAttachment, SendInsert, SendLink, SendCommit, SendReload, ReadChat,
     ReadSelect, ReadUpdate, ReadBroadcast, CallFails, DropUpload, ContactsStep
<1>3. QED
  BY <1>2

\* A commit hands its message to the handler's next statement, and no statement
\* but the broadcast lets go of it.
LEMMA NextOwed ==
  ASSUME IInv, IInv', AnnouncementIsOwed, Undisturbed, live = Users, [Next]_vars
  PROVE  AnnouncementIsOwed'
<1> SUFFICES ASSUME NEW m \in Ids, messages'[m] # None, m \notin announced'
             PROVE  \E w \in Workers : /\ call'[w].pc = "sendReload"
                                       /\ call'[w].msg = m /\ call'[w].user \in live'
  BY DEF AnnouncementIsOwed, Stored
<1>0. live' = Users
  BY AllStayLive
<1>1. ASSUME messages[m] # None, m \notin announced
      PROVE  \E w \in Workers : At(w, "sendReload") /\ call[w].msg = m /\ call[w].user \in Users
  BY <1>1 DEF AnnouncementIsOwed, Stored
<1>2. ASSUME NEW w \in Workers, SendCommit(w)
      PROVE  \E v \in Workers : /\ call'[v].pc = "sendReload"
                                /\ call'[v].msg = m /\ call'[v].user \in Users
  <2> USE <1>2 DEF SendCommit, events
  <2>1. \A v \in Workers : At(v, "sendReload") => call'[v] = call[v]
    BY DEF Goto, IInv, TypeOK
  <2>2. /\ call'[w].pc = "sendReload" /\ call'[w].msg = call[w].msg
        /\ call'[w].user = call[w].user
    BY DEF Goto, IInv, TypeOK, Calls
  <2>3. CASE m = call[w].msg
    <3>1. call[w].user \in Users
      BY DEF IInv, SendKnows
    <3>2. QED
      BY <2>2, <2>3, <3>1
  <2>4. CASE m # call[w].msg
    <3>1. messages[m] # None /\ m \notin announced
      BY <2>4 DEF IInv, TypeOK
    <3>2. QED
      BY <1>1, <2>1, <3>1
  <2>5. QED
    BY <2>3, <2>4
<1>3. ASSUME NEW w \in Workers, SendReload(w)
      PROVE  \E v \in Workers : /\ call'[v].pc = "sendReload"
                                /\ call'[v].msg = m /\ call'[v].user \in Users
  <2> USE <1>3
  <2>1. messages[m] # None /\ m \notin announced
    BY DEF SendReload, rows
  <2>2. PICK v \in Workers : At(v, "sendReload") /\ call[v].msg = m /\ call[v].user \in Users
    BY <1>1, <2>1
  <2>3. v # w
    BY <2>2 DEF SendReload
  <2>4. call'[v] = call[v]
    BY <2>3 DEF SendReload, Return, IInv, TypeOK
  <2>5. QED
    BY <2>2, <2>4
<1>4. CASE /\ UNCHANGED <<messages, announced>>
           /\ \A w \in Workers : At(w, "sendReload") => call'[w] = call[w]
  BY <1>0, <1>1, <1>4
<1>5. QED
  BY <1>0, <1>2, <1>3, <1>4, OnlySendsMatter

\* As long as no statement fails and nobody leaves, every stored message has been
\* announced or is in the hands of a handler that is about to: a send that
\* committed cannot end without its broadcast.
THEOREM StoredIsOwed == Undisturbed => (Spec => []AnnouncementIsOwed)
<1> SUFFICES ASSUME Undisturbed PROVE Spec => []AnnouncementIsOwed
  OBVIOUS
<1> DEFINE I == IInv /\ AnnouncementIsOwed /\ live = Users
<1>1. Init => I
  BY InitIInv DEF Init, AnnouncementIsOwed, Stored
<1>2. I /\ [Next]_vars => I'
  BY NextIInv, NextOwed, AllStayLive
<1>3. I => AnnouncementIsOwed
  OBVIOUS
<1>4. QED
  BY <1>1, <1>2, <1>3, PTL DEF Spec

\* A handler that is about to announce its message leaves that statement in no
\* other way than by announcing it, while no statement fails and nobody leaves.
THEOREM OwedIsKept ==
  Undisturbed =>
    (Spec => [][\A w \in Workers : At(w, "sendReload") /\ call'[w] # call[w]
                                    => call[w].msg \in announced']_vars)
<1> SUFFICES ASSUME Undisturbed
             PROVE  Spec => [][\A w \in Workers : At(w, "sendReload") /\ call'[w] # call[w]
                                 => call[w].msg \in announced']_vars
  OBVIOUS
<1> DEFINE I == IInv /\ live = Users
           A == \A w \in Workers : At(w, "sendReload") /\ call'[w] # call[w]
                                    => call[w].msg \in announced'
<1>1. Init => I
  BY InitIInv DEF Init
<1>2. I /\ [Next]_vars => I'
  BY NextIInv, AllStayLive
<1>3. I /\ [Next]_vars => [A]_vars
  <2> SUFFICES ASSUME IInv, live = Users, [Next]_vars, NEW w \in Workers,
                      At(w, "sendReload"), call'[w] # call[w]
               PROVE  call[w].msg \in announced'
    OBVIOUS
  <2>1. PICK v \in Workers : SendCommit(v) \/ SendReload(v)
    BY OnlySendsMatter
  <2>2. \A u \in Workers : u # v => call'[u] = call[u]
    BY <2>1 DEF SendCommit, SendReload, Goto, Return, IInv, TypeOK
  <2>3. v = w /\ SendReload(w)
    BY <2>1, <2>2 DEF SendCommit
  <2>4. call[w].user \in live
    BY DEF IInv, SendKnows
  <2>5. QED
    BY <2>3, <2>4 DEF SendReload
<1>4. QED
  BY <1>1, <1>2, <1>3, PTL DEF Spec
=============================================================================
