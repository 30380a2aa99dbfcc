------------------------------- MODULE Banners -------------------------------
(* The banners for messages of other conversations: the notification store, *)
(* the part of SocketProvider's onMessageReceived that feeds it, and the    *)
(* timers of NotificationBanner. A message may be delivered any number of   *)
(* times.                                                                   *)
EXTENDS Sequences, SequencesExt

CONSTANTS Chats, Messages,
          Shown,        \* the number of banners kept
          NoChat

VARIABLES items,        \* NotificationState.items: the ids, oldest first
          seenIds,
          chatOf,         \* the chat of each message
          activeChatId,
          me            \* the auth store holds a user

vars == <<items, seenIds, chatOf, activeChatId, me>>

Own == "own"
Raised == ToSet(items)

Init ==
  /\ items = <<>> /\ seenIds = {}
  /\ chatOf \in [Messages -> Chats \cup {Own}]
  /\ activeChatId = NoChat
  /\ me = FALSE

Without(id) == SelectSeq(items, LAMBDA i: i # id)

\* Mutant: add asks whether the message is on the screen, not whether it was.
Add_Unseen(id) ==
  IF id \in Raised THEN UNCHANGED <<items, seenIds>>
  ELSE LET all == Append(Without(id), id)
       IN  /\ items' = SubSeq(all, IF Len(all) > Shown THEN Len(all) - Shown + 1 ELSE 1, Len(all))
           /\ seenIds' = seenIds \cup {id}

Add(id) ==
  IF id \in seenIds THEN UNCHANGED <<items, seenIds>>
  ELSE LET all == Append(Without(id), id)
       IN  /\ items' = SubSeq(all, IF Len(all) > Shown THEN Len(all) - Shown + 1 ELSE 1, Len(all))
           /\ seenIds' = seenIds \cup {id}

\* onMessageReceived, also for a message that was delivered before.
Receive(id) ==
  /\ IF me /\ chatOf[id] \notin {Own, activeChatId} THEN Add(id) ELSE UNCHANGED <<items, seenIds>>
  /\ UNCHANGED <<chatOf, activeChatId, me>>

\* The timer of the oldest banner. Whenever items change, the effect runs
\* again and gives every banner a new timer.
TimerFires ==
  /\ items # <<>>
  /\ items' = Without(Head(items))
  /\ UNCHANGED <<seenIds, chatOf, activeChatId, me>>

\* The banner's button, or its link, which also leads to the chat.
Dismiss(id) ==
  /\ id \in Raised
  /\ items' = Without(id)
  /\ activeChatId' \in {activeChatId, chatOf[id]}
  /\ UNCHANGED <<seenIds, chatOf, me>>

OpenChat(c) ==
  /\ activeChatId' = c
  /\ UNCHANGED <<items, seenIds, chatOf, me>>

\* The session is restored or given up; the store is not cleared.
UserChanges ==
  /\ me' = ~me
  /\ UNCHANGED <<items, seenIds, chatOf, activeChatId>>

Next ==
  \/ \E id \in Messages: Receive(id) \/ Dismiss(id)
  \/ \E c \in (Chats \cup {NoChat}) \ {activeChatId}: OpenChat(c)
  \/ TimerFires \/ UserChanges

\* The messages are finitely many and each is added once, so that items stop
\* changing and the timers run out.
Spec == Init /\ [][Next]_vars /\ WF_vars(TimerFires)

-----------------------------------------------------------------------------
\* However often messages are delivered and in whatever order chats are opened,
\* the banners go in the end: none keeps coming back.
BannersLeave == <>[](Raised = {})
=============================================================================
