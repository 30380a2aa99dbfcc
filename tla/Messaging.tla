----------------------------- MODULE Messaging ------------------------------
(***************************************************************************)
(* The messages service (apps/backend/src/modules/messages) with the chat  *)
(* checks every one of its endpoints makes.                                *)
(*                                                                         *)
(* Composed with the contacts component through its abstract specification *)
(* Relationship: requests are sent, answered and overwritten at any moment *)
(* while messages are being sent, which is what Contacts is shown to do.   *)
(*                                                                         *)
(* One action per awaited statement.  A send's transaction keeps its       *)
(* uncommitted writes in the handler: from "sendLink" on it has inserted   *)
(* its message, and in "commitLinked" it holds the lock of the attachment  *)
(* row it has updated.                                                     *)
(***************************************************************************)
EXTENDS Naturals

CONSTANTS
  Users,         \* account ids
  Senders,       \* handlers of sendMessage in flight at once (bounds concurrency)
  Readers,       \* handlers of markRead in flight at once (bounds concurrency)
  Requests,      \* directed pairs whose contact request moves meanwhile
  Quitters,      \* users who may delete their account (bounds deletions)
  Attachments,   \* uploaded files
  Owner,         \* Owner[a]: the user who uploaded a
  Disposable,    \* uploads the users service may delete: they back an avatar
  MaxMessages,   \* bounds the messages table
  Faults,        \* whether a statement may fail
  None           \* the value of an unused field

Workers == Senders \cup Readers

ASSUME OwnerAssumption == Owner \in [Attachments -> Users]
ASSUME MaxMessagesAssumption == MaxMessages \in Nat \ {0}

VARIABLES
  status, chats, \* the tables of the contacts component
  live,          \* accounts that are active and not soft-deleted
  messages,      \* committed rows of messages, by creation stamp
  readBy,        \* the call that set read_at, None while it is NULL
  nextId,        \* the next creation stamp (CURRENT_TIMESTAMP of the INSERT)
  uploads,       \* rows of attachments
  link,          \* attachments.message_id
  announced,     \* messages broadcast with message:received
  receipts,      \* messages broadcast with message:read
  call           \* the handler of each worker, NoCall when idle

relVars == <<status, chats>>
rows == <<messages, readBy, nextId, uploads, link>>
events == <<announced, receipts>>
vars == <<relVars, live, rows, events, call>>

R == INSTANCE Relationship

ASSUME RequestsAssumption == Requests \subseteq R!Pairs

ChatKeys == {R!ChatKey(p) : p \in R!Pairs}
Ids == 1..MaxMessages
Message == [chat : ChatKeys, sender : Users, att : Attachments \cup {None}]

ASSUME NoneAssumption ==
  None \notin Users \cup Attachments \cup Workers \cup Ids \cup Message

Pcs == {"idle", "sendChat", "sendContacts", "sendAttachment", "sendInsert",
        "sendLink", "commitPlain", "commitLinked", "sendReload",
        "readChat", "readSelect", "readUpdate", "readBroadcast"}

NoCall == [pc |-> "idle", user |-> None, chat |-> None, att |-> None,
           msg |-> None, ids |-> {}]

Calls == [pc : Pcs, user : Users \cup {None}, chat : ChatKeys \cup {None},
          att : Attachments \cup {None}, msg : Ids \cup {None}, ids : SUBSET Ids]

Init ==
  /\ R!RelInit
  /\ live = Users
  /\ messages = [m \in Ids |-> None]
  /\ readBy = [m \in Ids |-> None]
  /\ nextId = 1
  /\ uploads = Attachments
  /\ link = [a \in Attachments |-> None]
  /\ announced = {} /\ receipts = {}
  /\ call = [w \in Workers |-> NoCall]

-----------------------------------------------------------------------------
At(w, pc) == call[w].pc = pc

Goto(w, pc) == call' = [call EXCEPT ![w].pc = pc]

\* The call answers, with a result, a refusal (4xx) or an error (500).
Return(w) == call' = [call EXCEPT ![w] = NoCall]

Begin(w, c) ==
  /\ At(w, "idle")
  /\ c.user \in live
  /\ call' = [call EXCEPT ![w] = c]
  /\ UNCHANGED <<relVars, live, rows, events>>

Stored == {m \in Ids : messages[m] # None}

\* Messages of chat k that user u has not read: those of the other participant.
Unread(k, u) ==
  {m \in Stored : /\ messages[m].chat = k
                  /\ messages[m].sender # u
                  /\ readBy[m] = None}

\* areContacts of the chat's participants; its joins skip deleted users.
AreContacts(k) ==
  /\ k \subseteq live
  /\ \E p \in R!Pairs : R!ChatKey(p) = k /\ status[p] = "accepted"

\* findById and the participant check shared by every endpoint of a chat.
EnterChat(w, next) ==
  LET k == call[w].chat
  IN /\ \/ k \notin chats /\ Return(w)
        \/ k \in chats /\ call[w].user \notin k /\ Return(w)
        \/ k \in chats /\ call[w].user \in k /\ Goto(w, next)
     /\ UNCHANGED <<relVars, live, rows, events>>

-----------------------------------------------------------------------------
\* POST /chats/:chatId/messages.  att is None for a text or external URL.

SendBegin(w, u, k, a) ==
  Begin(w, [NoCall EXCEPT !.pc = "sendChat", !.user = u, !.chat = k, !.att = a])

SendChat(w) == At(w, "sendChat") /\ EnterChat(w, "sendContacts")

SendContacts(w) ==
  /\ At(w, "sendContacts")
  /\ IF AreContacts(call[w].chat)
     THEN Goto(w, IF call[w].att = None THEN "sendInsert" ELSE "sendAttachment")
     ELSE Return(w)
  /\ UNCHANGED <<relVars, live, rows, events>>

\* The attachment must exist, belong to the sender and be unlinked as read here.
SendAttachment(w) ==
  LET att == call[w].att
  IN /\ At(w, "sendAttachment")
     /\ \/ att \notin uploads /\ Return(w)
        \/ att \in uploads /\ Owner[att] # call[w].user /\ Return(w)
        \/ /\ att \in uploads /\ Owner[att] = call[w].user
           /\ IF link[att] # None THEN Return(w) ELSE Goto(w, "sendInsert")
     /\ UNCHANGED <<relVars, live, rows, events>>

\* BEGIN and INSERT of the message; the row's stamp is the transaction's start.
SendInsert(w) ==
  /\ At(w, "sendInsert")
  /\ nextId \in Ids
  /\ call' = [call EXCEPT
       ![w].msg = nextId,
       ![w].pc = IF call[w].att = None THEN "commitPlain" ELSE "sendLink"]
  /\ nextId' = nextId + 1
  /\ UNCHANGED <<relVars, live, messages, readBy, uploads, link, events>>

\* No transaction in flight has updated the attachment row a.
AttachmentFree(a) ==
  \A v \in Workers : ~(At(v, "commitLinked") /\ call[v].att = a)

\* Mutant: the link is written by the repository, outside the transaction.
SendLink_OwnTransaction(w) ==
  /\ At(w, "sendLink")
  /\ link' = [link EXCEPT ![call[w].att] = call[w].msg]
  /\ Goto(w, "commitLinked")
  /\ UNCHANGED <<relVars, live, messages, readBy, nextId, uploads, events>>

\* UPDATE of the attachment by id alone; it matches no row once it is deleted.
SendLink(w) ==
  /\ At(w, "sendLink")
  /\ AttachmentFree(call[w].att)
  /\ Goto(w, IF call[w].att \in uploads THEN "commitLinked" ELSE "commitPlain")
  /\ UNCHANGED <<relVars, live, rows, events>>

SendCommit(w) ==
  /\ call[w].pc \in {"commitPlain", "commitLinked"}
  /\ messages' = [messages EXCEPT ![call[w].msg] =
                    [chat |-> call[w].chat, sender |-> call[w].user, att |-> call[w].att]]
  /\ link' = IF At(w, "commitLinked")
             THEN [link EXCEPT ![call[w].att] = call[w].msg] ELSE link
  /\ Goto(w, "sendReload")
  /\ UNCHANGED <<relVars, live, readBy, nextId, uploads, events>>

\* Mutant: the reload is skipped when another handler is in flight.
SendReload_OnlyWhenAlone(w) ==
  /\ At(w, "sendReload")
  /\ announced' = IF \A v \in Workers \ {w} : At(v, "idle")
                  THEN announced \cup {call[w].msg} ELSE announced
  /\ Return(w)
  /\ UNCHANGED <<relVars, live, rows, receipts>>

\* The row is read again with its sender, then broadcast in the same turn; a
\* sender deleted meanwhile loads as null and building the message throws.
SendReload(w) ==
  /\ At(w, "sendReload")
  /\ IF call[w].user \in live
     THEN announced' = announced \cup {call[w].msg}
     ELSE UNCHANGED announced
  /\ Return(w)
  /\ UNCHANGED <<relVars, live, rows, receipts>>

-----------------------------------------------------------------------------
\* POST /chats/:chatId/read.

ReadBegin(w, u, k) ==
  Begin(w, [NoCall EXCEPT !.pc = "readChat", !.user = u, !.chat = k])

ReadChat(w) == At(w, "readChat") /\ EnterChat(w, "readSelect")

\* The ids to report; the join on the sender finds none of a deleted user.
ReadSelect(w) ==
  LET ids == {m \in Unread(call[w].chat, call[w].user) : messages[m].sender \in live}
  IN /\ At(w, "readSelect")
     /\ IF ids = {} THEN Return(w)
        ELSE call' = [call EXCEPT ![w].pc = "readUpdate", ![w].ids = ids]
     /\ UNCHANGED <<relVars, live, rows, events>>

\* Mutant: the update also matches rows that already have read_at.
ReadUpdate_Rewrites(w) ==
  /\ At(w, "readUpdate")
  /\ readBy' = [m \in Ids |-> IF m \in Stored /\ messages[m].chat = call[w].chat
                                 /\ messages[m].sender # call[w].user
                              THEN w ELSE readBy[m]]
  /\ Goto(w, "readBroadcast")
  /\ UNCHANGED <<relVars, live, messages, nextId, uploads, link, events>>

\* Mutant: the receipt is broadcast before the update is awaited.
ReadUpdate_BroadcastsFirst(w) ==
  /\ At(w, "readUpdate")
  /\ receipts' = receipts \cup call[w].ids
  /\ Goto(w, "readBroadcast")
  /\ UNCHANGED <<relVars, live, rows, announced>>

\* UPDATE of every unread message of the chat from the other participant, as
\* of now: not only of the ids selected before.
ReadUpdate(w) ==
  /\ At(w, "readUpdate")
  /\ readBy' = [m \in Ids |-> IF m \in Unread(call[w].chat, call[w].user)
                              THEN w ELSE readBy[m]]
  /\ Goto(w, "readBroadcast")
  /\ UNCHANGED <<relVars, live, messages, nextId, uploads, link, events>>

ReadBroadcast(w) ==
  /\ At(w, "readBroadcast")
  /\ receipts' = receipts \cup call[w].ids
  /\ Return(w)
  /\ UNCHANGED <<relVars, live, rows, announced>>

-----------------------------------------------------------------------------
\* A statement fails or the process dies: an open transaction rolls back.
CallFails(w) ==
  /\ Faults
  /\ ~At(w, "idle")
  /\ Return(w)
  /\ UNCHANGED <<relVars, live, rows, events>>

DeleteAccount(u) ==
  /\ u \in live \cap Quitters
  /\ live' = live \ {u}
  /\ UNCHANGED <<relVars, rows, events, call>>

\* The users service deletes the upload behind a replaced avatar, by id alone.
DropUpload(a) ==
  /\ a \in uploads \cap Disposable
  /\ AttachmentFree(a)
  /\ uploads' = uploads \ {a}
  /\ link' = [link EXCEPT ![a] = None]
  /\ UNCHANGED <<relVars, live, messages, readBy, nextId, events, call>>

\* Contact requests are sent and answered meanwhile.
ContactsStep ==
  /\ \E p \in Requests : R!RelStep(p)
  /\ UNCHANGED <<live, rows, events, call>>

Advance(w) ==
  \/ SendChat(w) \/ SendContacts(w) \/ SendAttachment(w) \/ SendInsert(w)
  \/ SendLink(w) \/ SendCommit(w) \/ SendReload(w)
  \/ ReadChat(w) \/ ReadSelect(w) \/ ReadUpdate(w) \/ ReadBroadcast(w)

Next ==
  \/ \E w \in Senders, u \in Users, k \in ChatKeys, a \in Attachments \cup {None} :
       SendBegin(w, u, k, a)
  \/ \E w \in Readers, u \in Users, k \in ChatKeys : ReadBegin(w, u, k)
  \/ \E w \in Workers : Advance(w) \/ CallFails(w)
  \/ \E u \in Users : DeleteAccount(u)
  \/ \E a \in Attachments : DropUpload(a)
  \/ ContactsStep

Spec == Init /\ [][Next]_vars

\* A handler whose statement has completed is resumed by the event loop, and
\* PostgreSQL queues the waiters of a row lock.
FairSpec == Spec /\ \A w \in Workers : SF_vars(Advance(w))

-----------------------------------------------------------------------------
\* Every variable keeps its type.
TypeOK ==
  /\ status \in [R!Pairs -> R!Statuses]
  /\ chats \subseteq ChatKeys
  /\ live \subseteq Users
  /\ messages \in [Ids -> Message \cup {None}]
  /\ readBy \in [Ids -> Workers \cup {None}]
  /\ nextId \in 1..(MaxMessages + 1)
  /\ uploads \subseteq Attachments
  /\ link \in [Attachments -> Ids \cup {None}]
  /\ announced \subseteq Ids /\ receipts \subseteq Ids
  /\ call \in [Workers -> Calls]

\* "A failed send cannot leave a half-linked attachment": a linked attachment
\* points to a stored message of its owner that carries it, and the attachment
\* of a stored message is linked as long as the upload exists, although sends of
\* one attachment overlap, fail midway and race the deletion of the upload.
AttachmentLinkIsWhole ==
  /\ \A a \in Attachments :
       link[a] # None => /\ a \in uploads
                         /\ link[a] \in Stored
                         /\ messages[link[a]].att = a
                         /\ messages[link[a]].sender = Owner[a]
  /\ \A m \in Stored : messages[m].att \in uploads => link[messages[m].att] # None

\* The pcs of a send whose transaction has inserted its message.
Inserted == {"sendLink", "commitPlain", "commitLinked"}

\* What the handler c of a send relies on: the row it inserted is not yet
\* visible, the attachment is the sender's own, and the upload whose row it has
\* updated cannot be deleted before it commits.
SendKnows(c) ==
  /\ c.pc # "idle" => c.user \in Users /\ c.chat \in ChatKeys
  /\ c.pc \in {"sendInsert"} \cup Inserted /\ c.att # None => Owner[c.att] = c.user
  /\ c.pc \in Inserted \cup {"sendReload"} => c.msg \in Ids
  /\ c.pc \in Inserted => c.msg < nextId /\ messages[c.msg] = None
  /\ c.pc = "sendLink" => c.att \in Attachments
  /\ c.pc = "commitPlain" => c.att \notin uploads
  /\ c.pc = "commitLinked" => c.att \in uploads

\* No two open transactions have inserted the same row.
RowsAreOwn ==
  \A v, w \in Workers :
    v # w /\ call[v].pc \in Inserted /\ call[w].pc \in Inserted
      => call[v].msg # call[w].msg

StampsAreSpent == \A m \in Stored : m < nextId

\* The inductive invariant behind AttachmentLinkIsWhole.
IInv ==
  /\ TypeOK
  /\ StampsAreSpent
  /\ RowsAreOwn
  /\ \A w \in Workers : SendKnows(call[w])
  /\ AttachmentLinkIsWhole

\* Events only follow persistence: what message:received announced is stored, and
\* what message:read announced has read_at, whichever handlers fail in between.
EventsFollowRows ==
  /\ announced \subseteq Stored
  /\ \A m \in receipts : readBy[m] # None

\* What a handler that is about to broadcast relies on: its message is stored,
\* its caller takes part in the chat, and its ids are read or the update it is
\* about to run marks them.
ReportKnows(c) ==
  /\ c.pc \in {"readSelect", "readUpdate"} => c.user \in c.chat
  /\ c.pc = "sendReload" => c.msg \in Stored
  /\ c.pc = "readUpdate" =>
       \A m \in c.ids : readBy[m] # None \/ m \in Unread(c.chat, c.user)
  /\ c.pc = "readBroadcast" => \A m \in c.ids : readBy[m] # None

\* The inductive invariant behind EventsFollowRows.
EventsInv ==
  /\ IInv
  /\ \A w \in Workers : ReportKnows(call[w])
  /\ EventsFollowRows

\* read_at is written once: overlapping mark-reads never move the instant at
\* which a message was first read.
ReadStampIsFinal ==
  [][\A m \in Ids : readBy[m] # None => readBy'[m] = readBy[m]]_vars

\* A message is marked read only by the other participant of its chat.
ReadByRecipient ==
  [][\A m \in Ids : readBy'[m] # readBy[m] =>
       \E w \in Workers : /\ call[w].user \in messages[m].chat
                          /\ call[w].user # messages[m].sender]_vars

\* While no statement fails and nobody leaves, every stored message is broadcast.
StoredIsAnnounced ==
  \A m \in Ids : messages[m] # None ~> m \in announced

=============================================================================
