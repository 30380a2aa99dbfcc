------------------------------ MODULE Contacts ------------------------------
(***************************************************************************)
(* The contacts service of the backend (apps/backend/src/modules/contacts) *)
(* over the contact_requests and chats tables of PostgreSQL.               *)
(*                                                                         *)
(* Every HTTP call is an in-flight handler: one action per statement it    *)
(* awaits, because another handler may run at every await.  The tables     *)
(* hold committed rows only.  What respondToRequest writes inside its      *)
(* transaction is implied by the handler's pc: from "txUpdated" on it owns *)
(* the lock of its request row, and in "txInserted" it also owns an        *)
(* uncommitted chat row.                                                   *)
(*                                                                         *)
(* The database is external and modelled from how the service uses it, at  *)
(* READ COMMITTED: an UPDATE of a row another transaction has updated      *)
(* waits for that transaction, an INSERT of a key another transaction has  *)
(* inserted waits as well, a unique violation aborts the transaction, and  *)
(* COMMIT of an aborted transaction rolls it back without an error.        *)
(***************************************************************************)
CONSTANTS
  Users,        \* account ids
  Workers,      \* handlers that can be in flight at once (bounds concurrency)
  Quitters,     \* the users who may delete their account (bounds deletions)
  None          \* the value of an unused field

ASSUME NoneAssumption == None \notin Users /\ None \notin {"accepted", "declined"}
ASSUME QuittersAssumption == Quitters \subseteq Users

VARIABLES
  status,       \* [Pairs -> Statuses]: contact_requests
  chats,        \* set of chat keys: chats
  live,         \* accounts that are active and not soft-deleted
  call,         \* the handler each worker is running, NoCall when idle
  reply         \* what the worker's last call answered, "none" while it runs

vars == <<status, chats, live, call, reply>>

R == INSTANCE Relationship

Pairs == R!Pairs
ChatKey(p) == R!ChatKey(p)
Answers == {"accepted", "declined"}

\* The pcs of respondToRequest's transaction once it owns its request row.
InTx == {"txUpdated", "txInsert", "txReady", "txInserted", "txAborted"}

Pcs == {"idle", "sendReceiver", "sendLookup", "sendInsert", "saveSelect",
        "saveUpdate", "respondRead", "txUpdate"} \cup InTx

Replies == {"none", "ok", "conflict", "notFound", "forbidden", "error"}

NoCall == [pc |-> "idle", caller |-> None, req |-> None, answer |-> None,
           senderGone |-> FALSE]

Calls == [pc : Pcs, caller : Users \cup {None}, req : Pairs \cup {None},
          answer : Answers \cup {None}, senderGone : BOOLEAN]

Init ==
  /\ R!RelInit
  /\ live = Users
  /\ call = [w \in Workers |-> NoCall]
  /\ reply = [w \in Workers |-> "none"]

-----------------------------------------------------------------------------
\* Control flow of a handler.

At(w, pc) == call[w].pc = pc

Goto(w, pc) ==
  /\ call' = [call EXCEPT ![w].pc = pc]
  /\ UNCHANGED reply

Return(w, code) ==
  /\ call' = [call EXCEPT ![w] = NoCall]
  /\ reply' = [reply EXCEPT ![w] = code]

Start(w, c) ==
  /\ At(w, "idle")
  /\ call' = [call EXCEPT ![w] = c]
  /\ reply' = [reply EXCEPT ![w] = "none"]

\* Both users are live: the joins of a query that names sender and receiver
\* find them (soft-deleted users are filtered out of every join).
BothLive(p) == p[1] \in live /\ p[2] \in live

\* The transactions in flight that have updated the request row p.
RowHolders(p) == {v \in Workers : call[v].req = p /\ call[v].pc \in InTx}

\* The transactions in flight that have inserted the chat of the pair p.
ChatKeyHolders(p) ==
  {v \in Workers : At(v, "txInserted") /\ ChatKey(call[v].req) = ChatKey(p)}

\* Mutant: the chat is opened only once the opposite request is locked as well.
Awaits_LocksOpposite(w) ==
  LET p == call[w].req
  IN CASE call[w].pc \in {"saveUpdate", "txUpdate"} -> RowHolders(p)
       [] At(w, "txInsert") -> ChatKeyHolders(p) \cup RowHolders(<<p[2], p[1]>>)
       [] OTHER -> {}

\* The calls whose locks the statement of w waits for.
Awaits(w) ==
  LET p == call[w].req
  IN CASE call[w].pc \in {"saveUpdate", "txUpdate"} -> RowHolders(p)
       [] At(w, "txInsert") -> ChatKeyHolders(p)
       [] OTHER -> {}

-----------------------------------------------------------------------------
\* POST /contacts/requests.

\* The guard of the route loads the caller, which must be live.
SendBegin(w, p) ==
  /\ p[1] \in live
  /\ Start(w, [NoCall EXCEPT !.pc = "sendReceiver", !.caller = p[1], !.req = p])
  /\ UNCHANGED <<status, chats, live>>

\* The receiver must exist and be active.
SendReceiver(w) ==
  /\ At(w, "sendReceiver")
  /\ IF call[w].req[2] \in live THEN Goto(w, "sendLookup") ELSE Return(w, "notFound")
  /\ UNCHANGED <<status, chats, live>>

\* The existing row, if the joins find it, decides between insert, 409 and reuse.
SendLookup(w) ==
  LET p == call[w].req
      existing == IF BothLive(p) THEN status[p] ELSE "none"
  IN /\ At(w, "sendLookup")
     /\ \/ existing = "none" /\ Goto(w, "sendInsert")
        \/ existing \in {"pending", "accepted"} /\ Return(w, "conflict")
        \/ existing = "declined" /\ Goto(w, "saveSelect")
     /\ UNCHANGED <<status, chats, live>>

\* INSERT of the new request, its own transaction; the unique key answers 409.
SendInsert(w) ==
  LET p == call[w].req
  IN /\ At(w, "sendInsert")
     /\ \/ /\ status[p] = "none"
           /\ R!SetStatus(p, "pending")
           /\ Return(w, "ok")
        \/ /\ status[p] # "none"
           /\ Return(w, "conflict")
           /\ UNCHANGED status
     /\ UNCHANGED <<chats, live>>

\* save(existing): TypeORM reads the row again and updates what differs from it.
SaveSelect(w) ==
  /\ At(w, "saveSelect")
  /\ IF status[call[w].req] = "pending" THEN Return(w, "ok") ELSE Goto(w, "saveUpdate")
  /\ UNCHANGED <<status, chats, live>>

SaveUpdate(w) ==
  /\ At(w, "saveUpdate")
  /\ Awaits(w) = {}
  /\ R!SetStatus(call[w].req, "pending")
  /\ Return(w, "ok")
  /\ UNCHANGED <<chats, live>>

-----------------------------------------------------------------------------
\* PATCH /contacts/requests/:requestId.

RespondBegin(w, u, p, answer) ==
  /\ u \in live
  /\ Start(w, [NoCall EXCEPT !.pc = "respondRead", !.caller = u, !.req = p,
                             !.answer = answer])
  /\ UNCHANGED <<status, chats, live>>

\* Mutant: the ownership check is missing.
RespondRead_AnyCaller(w) ==
  LET p == call[w].req
  IN /\ At(w, "respondRead")
     /\ IF status[p] = "pending" THEN Goto(w, "txUpdate") ELSE Return(w, "conflict")
     /\ UNCHANGED <<status, chats, live>>

\* The three checks on the row as it is now; a soft-deleted receiver loads as
\* null, and reading its id throws.
RespondRead(w) ==
  LET p == call[w].req
  IN /\ At(w, "respondRead")
     /\ IF status[p] = "none" THEN Return(w, "notFound")
        ELSE IF p[2] \notin live THEN Return(w, "error")
        ELSE IF call[w].caller # p[2] THEN Return(w, "forbidden")
        ELSE IF status[p] # "pending" THEN Return(w, "conflict")
        ELSE /\ call' = [call EXCEPT ![w].pc = "txUpdate",
                                     ![w].senderGone = p[1] \notin live]
             /\ UNCHANGED reply
     /\ UNCHANGED <<status, chats, live>>

\* Mutant: the update runs on the repository, outside the transaction.
TxUpdate_OwnTransaction(w) ==
  /\ At(w, "txUpdate")
  /\ Awaits(w) = {}
  /\ R!SetStatus(call[w].req, call[w].answer)
  /\ Goto(w, "txUpdated")
  /\ UNCHANGED <<chats, live>>

\* BEGIN and UPDATE by id alone: whatever the row holds by now is overwritten.
TxUpdate(w) ==
  /\ At(w, "txUpdate")
  /\ Awaits(w) = {}
  /\ Goto(w, "txUpdated")
  /\ UNCHANGED <<status, chats, live>>

\* A declined request commits; building the answer throws if the sender is null.
TxDecline(w) ==
  /\ At(w, "txUpdated")
  /\ call[w].answer = "declined"
  /\ R!SetStatus(call[w].req, "declined")
  /\ Return(w, IF call[w].senderGone THEN "error" ELSE "ok")
  /\ UNCHANGED <<chats, live>>

\* createChatForPair looks for the chat; a null sender throws and rolls back.
TxFindChat(w) ==
  /\ At(w, "txUpdated")
  /\ call[w].answer = "accepted"
  /\ IF call[w].senderGone THEN Return(w, "error")
     ELSE Goto(w, IF ChatKey(call[w].req) \in chats THEN "txReady" ELSE "txInsert")
  /\ UNCHANGED <<status, chats, live>>

\* Mutant: the chat is saved on its own repository and commits by itself.
TxInsertChat_OwnTransaction(w) ==
  /\ At(w, "txInsert")
  /\ chats' = chats \cup {ChatKey(call[w].req)}
  /\ Goto(w, "txReady")
  /\ UNCHANGED <<status, live>>

\* INSERT of the chat; a unique violation is caught, the transaction is aborted.
TxInsertChat(w) ==
  /\ At(w, "txInsert")
  /\ Awaits(w) = {}
  /\ Goto(w, IF ChatKey(call[w].req) \in chats THEN "txAborted" ELSE "txInserted")
  /\ UNCHANGED <<status, chats, live>>

TxCommit(w) ==
  /\ call[w].pc \in {"txReady", "txInserted"}
  /\ R!SetStatus(call[w].req, "accepted")
  /\ chats' = IF At(w, "txInserted") THEN chats \cup {ChatKey(call[w].req)} ELSE chats
  /\ Return(w, "ok")
  /\ UNCHANGED live

\* COMMIT of the aborted transaction rolls it back; the caller is told it worked.
TxCommitAborted(w) ==
  /\ At(w, "txAborted")
  /\ Return(w, "ok")
  /\ UNCHANGED <<status, chats, live>>

-----------------------------------------------------------------------------
\* A statement fails or the process dies: nothing uncommitted survives.
CallFails(w) ==
  /\ ~At(w, "idle")
  /\ Return(w, "error")
  /\ UNCHANGED <<status, chats, live>>

\* DELETE of the account: the soft delete contacts sees of the users service.
DeleteAccount(u) ==
  /\ u \in live \cap Quitters
  /\ live' = live \ {u}
  /\ UNCHANGED <<status, chats, call, reply>>

Advance(w) ==
  \/ SendReceiver(w) \/ SendLookup(w) \/ SendInsert(w)
  \/ SaveSelect(w) \/ SaveUpdate(w)
  \/ RespondRead(w) \/ TxUpdate(w) \/ TxDecline(w)
  \/ TxFindChat(w) \/ TxInsertChat(w) \/ TxCommit(w) \/ TxCommitAborted(w)

Next ==
  \/ \E w \in Workers :
       \/ \E p \in Pairs : SendBegin(w, p)
       \/ \E u \in Users, p \in Pairs, a \in Answers : RespondBegin(w, u, p, a)
       \/ Advance(w)
       \/ CallFails(w)
  \/ \E u \in Users : DeleteAccount(u)

Spec == Init /\ [][Next]_vars

-----------------------------------------------------------------------------
\* Every variable keeps its type.
TypeOK ==
  /\ status \in [Pairs -> R!Statuses]
  /\ chats \subseteq {ChatKey(p) : p \in Pairs}
  /\ live \subseteq Users
  /\ call \in [Workers -> Calls]
  /\ reply \in [Workers -> Replies]

\* Whenever a request is accepted its pair has a chat: the two writes of
\* respondToRequest commit together, whichever accepts race, fail or abort, so
\* areContacts never admits a message to a pair without a conversation.
AcceptedHasChat ==
  \A p \in Pairs : status[p] = "accepted" => ChatKey(p) \in chats

\* A handler past its checks works on a request row that exists.
RowExists ==
  \A w \in Workers :
    call[w].pc \in {"saveSelect", "saveUpdate", "txUpdate"} \cup InTx
      => status[call[w].req] # "none"

\* A transaction that skips the INSERT does so because the chat is committed.
ReadyHasChat ==
  \A w \in Workers : At(w, "txReady") => ChatKey(call[w].req) \in chats

\* A handler in flight has its arguments.
HasRequest == \A w \in Workers : ~At(w, "idle") => call[w].req \in Pairs

\* A transaction that reaches the chat answers a request of the pair with accept.
OnlyAcceptsOpenChats ==
  \A w \in Workers :
    call[w].pc \in {"txInsert", "txReady", "txInserted", "txAborted"}
      => call[w].answer = "accepted"

\* A handler that answers a request is run by the request's receiver: the 403
\* of respondToRequest, checked long before the write.
AnswererIsReceiver ==
  \A w \in Workers :
    call[w].pc \in {"txUpdate"} \cup InTx => call[w].caller = call[w].req[2]

\* A handler that answers a request carries an answer.
AnswerGiven ==
  \A w \in Workers :
    call[w].pc \in {"respondRead", "txUpdate"} \cup InTx => call[w].answer \in Answers

\* The inductive invariant of the component.
IInv ==
  /\ TypeOK
  /\ HasRequest
  /\ RowExists
  /\ ReadyHasChat
  /\ OnlyAcceptsOpenChats
  /\ AnswererIsReceiver
  /\ AnswerGiven
  /\ AcceptedHasChat

\* A request becomes accepted or declined only by a call of its receiver: no
\* interleaving of sends, re-sends and answers lets another caller's handler
\* change the answer (respondToRequest's ownership check).
OnlyReceiverAnswers ==
  [][\A p \in Pairs :
       status'[p] # status[p] /\ status'[p] \in Answers =>
         \E w \in Workers : /\ call[w].req = p
                            /\ call[w].caller = p[2]
                            /\ call[w].answer = status'[p]]_vars

\* Under any interleaving of handlers, failures and deletions the tables move
\* only as Relationship allows: rows appear pending and never vanish, and a chat
\* appears in the step that accepts a request of its pair.
RefinesRelationship == R!RelSpec

\* Waiting never closes a cycle, although answers hold a request row while they
\* wait for a chat key: of any calls in flight, one waits for none of the others,
\* so whatever is held is released in the end.
NoWaitCycle ==
  \A S \in SUBSET {w \in Workers : ~At(w, "idle")} :
    S # {} => \E w \in S : Awaits(w) \cap S = {}

-----------------------------------------------------------------------------
\* What the documentation says and overlapping calls do not keep.

\* "A 23505 race is absorbed and the transaction continues so the status
\* update still commits": a call that answers ok to an accept has stored it.
AbsorbedRaceStillCommits ==
  [][\A w \in Workers :
       call[w].pc \in InTx /\ call[w].answer = "accepted" /\ reply'[w] = "ok"
         => status'[call[w].req] = "accepted"]_vars
=============================================================================
