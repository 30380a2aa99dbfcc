-------------------------- MODULE ConversationList --------------------------
(***************************************************************************)
(* The conversation list of one tab: the preview and the unread count of   *)
(* each chat, a TanStack query that is polled, refetched when something    *)
(* was sent or read, and patched by the messages that reach the tab.       *)
(*                                                                         *)
(* How a message reaches the tab is in ChatPage.  Here it is told or not,  *)
(* and what was told arrives in any order.  A message is named by its      *)
(* number in the order of created_at.                                      *)
(***************************************************************************)
EXTENDS Naturals, Sequences, FiniteSets

CONSTANTS
  Chats,        \* the user's conversations
  MaxMessages,  \* bound: messages stored
  MaxNudges     \* bound: refetches set off and not yet started

VARIABLES
  rows,    \* server: messages, in the order of created_at
  told,    \* messages on their way to the tab, by event or by answer
  nudges,  \* invalidations on their way: message:read events, answers
  visible, \* whether the tab is in the foreground
  list,    \* ['conversations'] of the query cache
  fetch    \* its fetch

vars == <<rows, told, nudges, visible, list, fetch>>

None == [c \in Chats |-> 0]
NoList == [known |-> FALSE, last |-> None, unread |-> None]
NoFetch == [stage |-> "idle", last |-> None, unread |-> None]
Asked == [NoFetch EXCEPT !.stage = "asked"]
Counts == [Chats -> 0..MaxMessages]

TypeOK ==
  /\ rows \in Seq([chat : Chats, mine : BOOLEAN, read : BOOLEAN]) /\ Len(rows) <= MaxMessages
  /\ told \subseteq DOMAIN rows /\ nudges \in 0..MaxNudges /\ visible \in BOOLEAN
  /\ list \in [known : BOOLEAN, last : Counts, unread : Counts]
  /\ fetch \in [stage : {"idle", "asked", "latest", "answered"}, last : Counts, unread : Counts]

Init ==
  /\ rows = <<>> /\ told = {} /\ nudges = 0 /\ visible = TRUE
  /\ list = NoList /\ fetch = Asked

----------------------------------------------------------------------------
(* The server. *)

In(c) == {m \in DOMAIN rows : rows[m].chat = c}
Newest(S) == IF S = {} THEN 0 ELSE CHOOSE m \in S : \A k \in S : k <= m
Unread(c) == {m \in In(c) : ~rows[m].mine /\ ~rows[m].read}

\* loadLatestMessages and loadUnreadCounts, a query each.
LatestMessages == [c \in Chats |-> Newest(In(c))]
UnreadCounts == [c \in Chats |-> Cardinality(Unread(c))]

\* A message is stored, by the user or by the peer.  The tab is told of it by
\* the room's event or by the answer of its POST, or not at all.
Store(c, mine) ==
  /\ Len(rows) < MaxMessages
  /\ rows' = Append(rows, [chat |-> c, mine |-> mine, read |-> FALSE])
  /\ told' \in {told, told \cup {Len(rows) + 1}}
  /\ UNCHANGED <<nudges, visible, list, fetch>>

\* markRead of the chat, from this tab or another, and the answer and event
\* that follow it.
MarkRead(c) ==
  /\ Unread(c) # {} /\ nudges < MaxNudges
  /\ rows' = [m \in DOMAIN rows |-> IF m \in Unread(c) THEN [rows[m] EXCEPT !.read = TRUE] ELSE rows[m]]
  /\ nudges' \in {nudges, nudges + 1}
  /\ UNCHANGED <<told, visible, list, fetch>>

\* findUserConversations, between the two queries of which anything can happen.
LoadLatest ==
  /\ fetch.stage = "asked"
  /\ fetch' = [fetch EXCEPT !.stage = "latest", !.last = LatestMessages]
  /\ UNCHANGED <<rows, told, nudges, visible, list>>

\* Mutant: the counts are loaded beside the latest messages, or before them.
LoadUnread_First ==
  \/ /\ fetch.stage = "asked"
     /\ fetch' = [fetch EXCEPT !.unread = UnreadCounts]
     /\ UNCHANGED <<rows, told, nudges, visible, list>>
  \/ /\ fetch.stage = "latest"
     /\ fetch' = [fetch EXCEPT !.stage = "answered"]
     /\ UNCHANGED <<rows, told, nudges, visible, list>>

LoadUnread ==
  /\ fetch.stage = "latest"
  /\ fetch' = [fetch EXCEPT !.stage = "answered", !.unread = UnreadCounts]
  /\ UNCHANGED <<rows, told, nudges, visible, list>>

----------------------------------------------------------------------------
(* The tab. *)

\* Mutant: what arrives last is the preview.
Patched_Unguarded(l, c, m) == IF l.known THEN [l EXCEPT !.last[c] = m] ELSE l

\* patchConversationWithMessage.  The unread count waits for a refetch.
Patched(l, c, m) == IF l.known /\ l.last[c] <= m THEN [l EXCEPT !.last[c] = m] ELSE l

\* invalidateQueries abandons a fetch in flight if there is a list already.
Invalidated == IF fetch.stage = "idle" \/ list.known THEN Asked ELSE fetch

\* onMessageReceived, and onSuccess of useSendMessage, which also refetches.
Receive(m) ==
  /\ m \in told
  /\ told' = told \ {m}
  /\ list' = Patched(list, rows[m].chat, m)
  /\ fetch' = IF rows[m].mine THEN Invalidated ELSE fetch
  /\ UNCHANGED <<rows, nudges, visible>>

\* onMessageRead, and onSuccess of useMarkRead.
Invalidate ==
  /\ nudges > 0
  /\ nudges' = nudges - 1 /\ fetch' = Invalidated
  /\ UNCHANGED <<rows, told, visible, list>>

\* Mutant: the list is polled until it is there; then events keep it.
Poll_Once ==
  /\ fetch.stage = "idle" /\ visible /\ ~list.known
  /\ fetch' = Asked
  /\ UNCHANGED <<rows, told, nudges, visible, list>>

\* refetchInterval, which rests while the tab is in the background.
Poll ==
  /\ fetch.stage = "idle" /\ visible
  /\ fetch' = Asked
  /\ UNCHANGED <<rows, told, nudges, visible, list>>

Deliver ==
  /\ fetch.stage = "answered"
  /\ list' = [known |-> TRUE, last |-> fetch.last, unread |-> fetch.unread]
  /\ fetch' = NoFetch
  /\ UNCHANGED <<rows, told, nudges, visible>>

\* The request fails or times out; the list stays as it is.
Fail ==
  /\ fetch.stage # "idle"
  /\ fetch' = NoFetch
  /\ UNCHANGED <<rows, told, nudges, visible, list>>

Hide ==
  /\ visible /\ visible' = FALSE
  /\ UNCHANGED <<rows, told, nudges, list, fetch>>

Reveal ==
  /\ ~visible /\ visible' = TRUE
  /\ UNCHANGED <<rows, told, nudges, list, fetch>>

----------------------------------------------------------------------------
Server == LoadLatest \/ LoadUnread \/ \E c \in Chats : MarkRead(c) \/ \E mine \in BOOLEAN : Store(c, mine)
Tab == \/ Invalidate \/ Poll \/ Deliver \/ Fail \/ Hide \/ Reveal
       \/ \E m \in DOMAIN rows : Receive(m)

Next == Server \/ Tab

\* The user comes back to the tab, the interval fires while they are there, and
\* a request that is made again and again is answered in the end.
Fairness ==
  /\ WF_vars(Reveal) /\ SF_vars(Poll)
  /\ SF_vars(LoadLatest) /\ SF_vars(LoadUnread) /\ SF_vars(Deliver)

Spec == Init /\ [][Next]_vars /\ Fairness

----------------------------------------------------------------------------
\* The preview of a chat goes back to an older message only by the answer of a
\* refetch, never by a message that arrives late (the ordering guard of
\* patchConversationWithMessage).
OnlyAnswersRegress ==
  \A c \in Chats : list'.last[c] < list.last[c] => fetch.stage = "answered" /\ fetch' = NoFetch
PreviewNeverRegresses == [][OnlyAnswersRegress]_vars

\* The server never answers a preview of an unread message with a count that
\* leaves it out: the counts are read after the previews
\* (findUserConversations).
BadgeCoversPreview ==
  fetch.stage = "answered" =>
    \A c \in Chats : fetch.last[c] \in Unread(c) => fetch.unread[c] > 0

\* Whatever events were lost, came late or crossed a refetch, the list ends up
\* as the server has it (the comment on CONVERSATIONS_POLL_INTERVAL_MS).
IsCurrent == list.known /\ list.last = LatestMessages /\ list.unread = UnreadCounts
ListSettles == <>[]IsCurrent

=============================================================================
