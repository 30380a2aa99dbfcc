------------------------------ MODULE ChatPage ------------------------------
(***************************************************************************)
(* One browser tab of the chat client and its pages of messages, an        *)
(* infinite query of TanStack Query per chat.  A message reaches the first *)
(* page by three roads: the answer of the tab's own POST, the              *)
(* message:received event of the room the socket has joined, and the       *)
(* refetches that opening, sending and reading set off.  The conversation  *)
(* list is in ConversationList.                                            *)
(*                                                                         *)
(* The server side (Messaging) is one step per request here.  A step of    *)
(* the tab is one task of its event loop.  A message is named by its       *)
(* number in the order of created_at.                                      *)
(***************************************************************************)
EXTENDS Integers, Sequences, SequencesExt

CONSTANTS
  Chats,      \* the user's conversations
  NoChat,     \* no conversation is open
  PageSize,   \* CHAT_HISTORY_PAGE_SIZE
  OldRows,    \* the chats of the messages stored long ago
  MaxNew,     \* bound: messages stored meanwhile, never more than a page
  MaxOpens,   \* bound: times a conversation is opened
  MaxMarks,   \* bound: mark-read requests of a chat in flight at once
  MaxFaults   \* bound: losses of the socket, requests that fail, answers that are lost

ASSUME BoundsAssumption ==
  /\ PageSize \in Nat \ {0} /\ MaxNew \in 0..PageSize
  /\ {MaxOpens, MaxMarks, MaxFaults} \subseteq Nat
ASSUME ChatsAssumption == NoChat \notin Chats /\ OldRows \in Seq(Chats)

VARIABLES
  rows,      \* server: the chats of the messages, in the order of created_at
  unsaid,    \* server: messages stored and not yet broadcast
  joining,   \* server: handlers of chat:join that are still checking, per chat
  room,      \* server: the rooms the tab's socket is in
  connected, \* whether the socket is
  events,    \* messages the gateway emitted and the tab has not handled
  open,      \* tab: the conversation on screen
  history,   \* tab: ['chatHistory', chat] of the query cache, and its fetch
  sending,   \* tab: the request of useSendMessage
  marks,     \* tab: the requests of useMarkRead in flight, per chat
  opens, faults, \* what is used of the bounds
  missed,    \* history: messages whose broadcast did not last on the page
  answered   \* history: own messages whose POST was answered while their chat was on screen

server == <<rows, unsaid>>
socket == <<joining, room, connected, events>>
budget == <<opens, faults>>
ghosts == <<missed, answered>>
vars == <<server, socket, budget, open, history, sending, marks, ghosts>>

MaxRows == Len(OldRows) + MaxNew
Page == [ids : Seq(1..MaxRows), more : BOOLEAN]

\* broken: the query's status is "error".  A fetch wants so many pages and asks
\* for them one after the other; one for an older page starts from the pages
\* that are cached ("older").
NoFetch == [stage |-> "idle", older |-> FALSE, want |-> 0, got |-> <<>>]
NoHistory == [pages |-> <<>>, broken |-> FALSE, fetch |-> NoFetch]
Idle == [stage |-> "idle", chat |-> NoChat, id |-> 0]

TypeOK ==
  /\ rows \in Seq(Chats) /\ Len(rows) <= MaxRows /\ unsaid \subseteq DOMAIN rows
  /\ joining \in [Chats -> Nat] /\ room \subseteq Chats /\ connected \in BOOLEAN
  /\ events \in Seq(DOMAIN rows)
  /\ open \in Chats \cup {NoChat}
  /\ history \in [Chats -> [pages : Seq(Page), broken : BOOLEAN,
                            fetch : [stage : {"idle", "asked", "answered"}, older : BOOLEAN,
                                     want : Nat, got : Seq(Page)]]]
  /\ sending \in [stage : {"idle", "asked", "stored", "answered"}, chat : Chats \cup {NoChat},
                  id : 0..MaxRows]
  /\ marks \in [Chats -> Nat]
  /\ missed \subseteq DOMAIN rows /\ answered \subseteq DOMAIN rows
  /\ opens \in 0..MaxOpens /\ faults \in 0..MaxFaults

Init ==
  /\ rows = OldRows /\ unsaid = {}
  /\ joining = [c \in Chats |-> 0] /\ room = {} /\ connected = FALSE /\ events = <<>>
  /\ open = NoChat /\ history = [c \in Chats |-> NoHistory]
  /\ sending = Idle /\ marks = [c \in Chats |-> 0]
  /\ missed = {} /\ answered = {}
  /\ opens = 0 /\ faults = 0

----------------------------------------------------------------------------
(* The query cache. *)

In(c) == {m \in DOMAIN rows : rows[m] = c}
Least(x, y) == IF x < y THEN x ELSE y
Newest(page) == SubSeq(page, 1, Least(PageSize, Len(page)))

\* How many messages of the chat are newer than m.
Newer(c, m) == Cardinality({x \in In(c) : x > m})

\* getHistory: page k of the chat, newest first, and whether there are more.
ServerPage(c, k) ==
  LET skip == (k - 1) * PageSize
      all  == Cardinality(In(c))
  IN  [ids  |-> [i \in 1..Least(PageSize, all - skip) |->
                   CHOOSE m \in In(c) : Newer(c, m) = skip + i - 1],
       more |-> k * PageSize < all]

Known(h) == h.pages # <<>>
Fetching(h) == h.fetch.stage # "idle"

\* A refetch asks for as many pages as are cached.
Asked(h) ==
  [h EXCEPT !.fetch = [stage |-> "asked", older |-> FALSE, got |-> <<>>,
                       want |-> IF Known(h) THEN Len(h.pages) ELSE 1],
            !.broken = Known(h) /\ @]

\* A query that is mounted refetches, unless a fetch is in flight.
Mounted(h) == IF Fetching(h) THEN h ELSE Asked(h)

\* Mutant: a fetch in flight, however old, is good enough.
Invalidated_Joins(h) == Mounted(h)

\* invalidateQueries abandons a fetch in flight if there are data to show
\* meanwhile, else it makes do with that one.
Invalidated(h) == IF Fetching(h) /\ ~Known(h) THEN h ELSE Asked(h)

\* It refetches at once what is on screen only.
InvalidatedOpen(hs) == IF open = NoChat THEN hs ELSE [hs EXCEPT ![open] = Invalidated(@)]

\* Mutant: a message that is already there is put in front again.
Prepended_Twice(page, m) == [page EXCEPT !.ids = Newest(<<m>> \o @)]

\* prependMessageToHistory
Prepended(page, m) ==
  IF m \in Range(page.ids) THEN page ELSE [page EXCEPT !.ids = Newest(<<m>> \o @)]

\* applyIncomingMessage on the pages of one chat.
WithMessage(h, m) ==
  IF Known(h) THEN [h EXCEPT !.pages[1] = Prepended(@, m), !.broken = FALSE] ELSE h

\* The effect of MessageList: POST /read whenever (chat, loading, error)
\* changes to a chat that is shown.
OnScreen(c, hs) == c # NoChat /\ Known(hs[c]) /\ ~hs[c].broken

MarkReadOnShow(c) ==
  LET appears == OnScreen(c, history') /\ ~(c = open /\ OnScreen(c, history))
  IN  /\ marks' = IF appears THEN [marks EXCEPT ![c] = @ + 1] ELSE marks
      /\ appears => marks[c] < MaxMarks

----------------------------------------------------------------------------
(* The user and the room. *)

\* useChatSocket: leave the room of the chat that goes, ask to join the next.
MoveRoom(c) ==
  /\ room' = IF connected THEN room \ {open} ELSE room
  /\ joining' = IF connected /\ c # NoChat THEN [joining EXCEPT ![c] = @ + 1] ELSE joining

Show(c) ==
  /\ c # open /\ opens < MaxOpens
  /\ open' = c /\ opens' = opens + 1
  /\ MoveRoom(c)
  /\ history' = [history EXCEPT ![c] = Mounted(@)]
  /\ MarkReadOnShow(c)
  /\ UNCHANGED <<server, connected, events, sending, faults, ghosts>>

Close ==
  /\ open # NoChat
  /\ open' = NoChat /\ MoveRoom(NoChat)
  /\ UNCHANGED <<server, connected, events, history, budget, sending, marks, ghosts>>

\* The cache drops the pages that nothing has shown for five minutes.
Forget(c) ==
  /\ c # open /\ ~Fetching(history[c]) /\ history[c] # NoHistory
  /\ history' = [history EXCEPT ![c] = NoHistory]
  /\ UNCHANGED <<server, socket, budget, open, sending, marks, ghosts>>

\* handleJoinChat after its two lookups.
Join(c) ==
  /\ joining[c] > 0
  /\ joining' = [joining EXCEPT ![c] = @ - 1] /\ room' = room \cup {c}
  /\ UNCHANGED <<server, connected, events, budget, open, history, sending, marks, ghosts>>

\* What the gateway had emitted to this socket is gone with it.
Disconnect ==
  /\ connected /\ faults < MaxFaults
  /\ connected' = FALSE /\ faults' = faults + 1
  /\ room' = {} /\ joining' = [c \in Chats |-> 0] /\ events' = <<>>
  /\ missed' = missed \cup Range(events)
  /\ UNCHANGED <<server, open, opens, history, sending, marks, answered>>

\* Mutant: joins the room of the chat on screen the first time only.
Connect_NoRejoin ==
  /\ ~connected
  /\ connected' = TRUE
  /\ joining' = IF open = NoChat \/ faults > 0 THEN joining ELSE [joining EXCEPT ![open] = @ + 1]
  /\ UNCHANGED <<server, room, events, budget, open, history, sending, marks, ghosts>>

Connect ==
  /\ ~connected
  /\ connected' = TRUE
  /\ joining' = IF open = NoChat THEN joining ELSE [joining EXCEPT ![open] = @ + 1]
  /\ UNCHANGED <<server, room, events, budget, open, history, sending, marks, ghosts>>

----------------------------------------------------------------------------
(* Messages. *)

\* sendMessage has committed the row.
Stored(c) ==
  /\ Len(rows) < MaxRows
  /\ rows' = Append(rows, c) /\ unsaid' = unsaid \cup {Len(rows) + 1}

PeerSends(c) ==
  /\ Stored(c)
  /\ UNCHANGED <<socket, budget, open, history, sending, marks, ghosts>>

\* handleSend: the composer is busy until its request is over.
Send ==
  /\ open # NoChat /\ sending.stage = "idle"
  /\ sending' = [stage |-> "asked", chat |-> open, id |-> 0]
  /\ UNCHANGED <<server, socket, budget, open, history, marks, ghosts>>

Store ==
  /\ sending.stage = "asked"
  /\ Stored(sending.chat)
  /\ sending' = [sending EXCEPT !.stage = "stored", !.id = Len(rows) + 1]
  /\ UNCHANGED <<socket, budget, open, history, marks, ghosts>>

\* broadcastToChat tells the sockets in the room at this moment; the sender's
\* request is answered after it.
Broadcast(m) ==
  /\ m \in unsaid
  /\ unsaid' = unsaid \ {m}
  /\ events' = IF rows[m] \in room THEN Append(events, m) ELSE events
  /\ missed' = IF rows[m] \in room THEN missed ELSE missed \cup {m}
  /\ sending' = IF sending.id = m THEN [sending EXCEPT !.stage = "answered"] ELSE sending
  /\ UNCHANGED <<rows, joining, room, connected, budget, open, history, marks, answered>>

\* onMessageReceived.  The message does not last on a page that is not there
\* yet, nor on one that a fetch is about to replace by an older one.
Receive ==
  LET m == Head(events)
      h == history[rows[m]]
      lasts == Known(h) /\ (h.fetch.got # <<>> => m \in Range(h.fetch.got[1].ids))
  IN  /\ events # <<>>
      /\ events' = Tail(events)
      /\ history' = [history EXCEPT ![rows[m]] = WithMessage(@, m)]
      /\ missed' = IF lasts THEN missed ELSE missed \cup {m}
      /\ MarkReadOnShow(open)
      /\ UNCHANGED <<server, joining, room, connected, budget, open, sending, answered>>

SendAnswered ==
  /\ sending.stage = "answered"
  /\ sending' = Idle
  /\ answered' = IF OnScreen(open, history) /\ open = sending.chat
                  THEN answered \cup {sending.id} ELSE answered
  /\ history' = InvalidatedOpen([history EXCEPT ![sending.chat] = WithMessage(@, sending.id)])
  /\ MarkReadOnShow(open)
  /\ UNCHANGED <<server, socket, budget, open, missed>>

\* The request fails, or its answer is lost: the draft stays in the composer.
LoseSend ==
  /\ sending.stage # "idle" /\ faults < MaxFaults
  /\ faults' = faults + 1 /\ sending' = Idle
  /\ UNCHANGED <<server, socket, opens, open, history, marks, ghosts>>

----------------------------------------------------------------------------
(* Fetches. *)

\* MessageList near the top of what it shows.
FetchOlder ==
  LET h == history[open]
  IN  /\ OnScreen(open, history) /\ Last(h.pages).more
      /\ ~(Fetching(h) /\ h.fetch.older)
      /\ history' = [history EXCEPT ![open].fetch =
                       [stage |-> "asked", older |-> TRUE, want |-> Len(h.pages) + 1, got |-> h.pages]]
      /\ UNCHANGED <<server, socket, budget, open, sending, marks, ghosts>>

LoadPage(c) ==
  LET f == history[c].fetch
  IN  /\ f.stage = "asked"
      /\ history' = [history EXCEPT ![c].fetch.stage = "answered",
                                    ![c].fetch.got = Append(@, ServerPage(c, Len(@) + 1))]
      /\ UNCHANGED <<server, socket, budget, open, sending, marks, ghosts>>

\* The tab asks for the next page, or has all it wanted.
GoesOn(fetch) == Len(fetch.got) < fetch.want /\ Last(fetch.got).more

DeliverPage(c) ==
  LET f == history[c].fetch
  IN  /\ f.stage = "answered"
      /\ history' = IF GoesOn(f)
                    THEN [history EXCEPT ![c].fetch.stage = "asked"]
                    ELSE [history EXCEPT ![c] = [NoHistory EXCEPT !.pages = f.got]]
      /\ MarkReadOnShow(open)
      /\ UNCHANGED <<server, socket, budget, open, sending, ghosts>>

FailPage(c) ==
  /\ Fetching(history[c]) /\ faults < MaxFaults
  /\ faults' = faults + 1
  /\ history' = [history EXCEPT ![c].fetch = NoFetch, ![c].broken = TRUE]
  /\ UNCHANGED <<server, socket, opens, open, sending, marks, ghosts>>

\* What markRead changes on the server shows in the conversation list only.
MarkAnswered(c) ==
  /\ marks[c] > 0
  /\ marks' = [marks EXCEPT ![c] = @ - 1]
  /\ history' = InvalidatedOpen(history)
  /\ UNCHANGED <<server, socket, budget, open, sending, ghosts>>

FailMark(c) ==
  /\ marks[c] > 0 /\ faults < MaxFaults
  /\ faults' = faults + 1 /\ marks' = [marks EXCEPT ![c] = @ - 1]
  /\ UNCHANGED <<server, socket, opens, open, history, sending, ghosts>>

----------------------------------------------------------------------------
User == Close \/ Send \/ FetchOlder \/ \E c \in Chats : Show(c) \/ Forget(c)
Socket == Disconnect \/ Connect \/ Receive \/ \E c \in Chats : Join(c)
Messages == \/ Store \/ SendAnswered \/ LoseSend
            \/ \E m \in DOMAIN rows : Broadcast(m)
            \/ \E c \in Chats : PeerSends(c)
Fetches == \E c \in Chats : \/ LoadPage(c) \/ DeliverPage(c) \/ FailPage(c)
                            \/ MarkAnswered(c) \/ FailMark(c)

Next == User \/ Socket \/ Messages \/ Fetches

Spec == Init /\ [][Next]_vars

----------------------------------------------------------------------------
\* No message is twice on the first page, although the sender of a message is
\* told of it by its answer, by its own broadcast and by the refetch (the
\* comment on prependMessageToHistory).
NoDuplicates == \A c \in Chats : Known(history[c]) => IsInjective(history[c].pages[1].ids)

\* Once every join has been handled, a connected tab is in the room of the chat
\* it shows: after a switch, after a reconnect, and with leaves in between
\* (useChatSocket).
RoomFollowsView == connected /\ open # NoChat /\ joining[open] = 0 => open \in room

Heard(c) == \A i \in DOMAIN events : rows[events[i]] # c

\* When no event of a chat is on its way to the tab, a message of its newest page
\* is missing from the cached one only if its broadcast missed the page, and
\* never if it is one the user sent and saw answered in the chat: the three roads
\* do not lose it between them, whatever is being fetched meanwhile
\* (applyIncomingMessage, the invalidations of use-chat-mutations).
NothingElseIsLost ==
  \A c \in Chats : Known(history[c]) /\ Heard(c) =>
    \A m \in Range(ServerPage(c, 1).ids) \ unsaid :
      m \in Range(history[c].pages[1].ids) \/ (m \in missed /\ m \notin answered)

=============================================================================
