------------------------------ MODULE Presence ------------------------------
(***************************************************************************)
(* The websocket gateway and its presence service                          *)
(* (apps/backend/src/modules/websocket): which sockets are known, which    *)
(* users are online, which sockets are in a chat's room, and what every    *)
(* client is told about its contacts.                                      *)
(*                                                                         *)
(* Each socket has up to three handlers in flight, of its connection, of   *)
(* its disconnection and of a chat:join, one action per awaited statement. *)
(* The maps are changed synchronously between two awaits.  socket.io is    *)
(* external: it delivers the events of an open socket in order and drops   *)
(* those of a closed one; a closed socket has left its rooms.              *)
(***************************************************************************)
EXTENDS Naturals

CONSTANTS
  Users,
  Sockets,      \* socket.io connections; each opens and closes once
  UserOf,       \* UserOf[s]: the user whose token the handshake of s carries
  Contacts,     \* Contacts[u]: the accepted contacts of u
  Chats,        \* chats whose room may be joined, as sets of participants
  Joining,      \* sockets whose client opens chats; one chat:join at a time
  Faults        \* whether a statement may fail

ASSUME UserOfAssumption == UserOf \in [Sockets -> Users]
ASSUME ContactsAssumption == Contacts \in [Users -> SUBSET Users]
\* getContacts reads the accepted requests of both directions.
ASSUME MutualAssumption == \A u \in Users : \A v \in Contacts[u] : u \in Contacts[v]
ASSUME JoiningAssumption == Joining \subseteq Sockets

VARIABLES
  sock,         \* the connection itself: "new", "open" or "closed"
  connected,    \* connectedUsers: the sockets the gateway has a user for
  online,       \* onlineSockets: the sockets registered for each user
  rooms,        \* the sockets in each chat's room
  lastSeen,     \* users.last_seen_at, by the clock that stamped it
  clock,        \* clock[u] grows with every instant taken for u
  view,         \* view[s][u]: the presence of u the client behind s shows
  conn, disc,   \* the connection and disconnection handlers
  join,         \* the chat:join handler
  troubled      \* history: users one of whose handlers failed or was overtaken

vars == <<sock, connected, online, rooms, lastSeen, clock, view, conn, disc, join, troubled>>
maps == <<connected, online, rooms>>
told == <<lastSeen, clock, view>>

Idle == [pc |-> "idle", at |-> 0]
HandlerPcs == {"idle", "lookup", "seen", "contacts", "replay", "done"}
Handlers == [pc : HandlerPcs, at : Nat]
JoinPcs == {"idle", "resolve", "chat"}
NoJoin == [pc |-> "idle", chat |-> {}]
Presences == {"blank", "online", "offline"}

Init ==
  /\ sock = [s \in Sockets |-> "new"]
  /\ connected = {}
  /\ online = [u \in Users |-> {}]
  /\ rooms = [k \in Chats |-> {}]
  /\ lastSeen = [u \in Users |-> 0]
  /\ clock = [u \in Users |-> 0]
  /\ view = [s \in Sockets |-> [u \in Users |-> "blank"]]
  /\ conn = [s \in Sockets |-> Idle]
  /\ disc = [s \in Sockets |-> Idle]
  /\ join = [s \in Sockets |-> NoJoin]
  /\ troubled = {}

-----------------------------------------------------------------------------
SocketsOf(u) == {s \in Sockets : UserOf[s] = u}

Running(h) == h.pc \notin {"idle", "done"}

\* A connection or disconnection handler of user u is in flight.
Busy(u) == \E s \in SocketsOf(u) : Running(conn[s]) \/ Running(disc[s])

\* The user's connections come and go while an earlier one is being recorded.
NoteOverlap(u) == troubled' = IF Busy(u) THEN troubled \cup {u} ELSE troubled

ConnGoto(s, pc) == conn' = [conn EXCEPT ![s].pc = pc]
DiscGoto(s, pc) == disc' = [disc EXCEPT ![s].pc = pc]

\* Sockets to which a change of u is emitted: those of its contacts.
Audience(u) == {s \in Sockets : UserOf[s] \in Contacts[u] /\ s \in online[UserOf[s]]}

\* Clients show the last event received; nothing reaches a closed socket.
Emit(targets, us, presence) ==
  view' = [s \in Sockets |->
             IF s \in targets /\ sock[s] = "open"
             THEN [u \in Users |-> IF u \in us THEN presence ELSE view[s][u]]
             ELSE view[s]]

-----------------------------------------------------------------------------
\* handleConnection.

\* The token is verified, then the user is looked up.
Connect(s) ==
  /\ sock[s] = "new"
  /\ sock' = [sock EXCEPT ![s] = "open"]
  /\ ConnGoto(s, "lookup")
  /\ NoteOverlap(UserOf[s])
  /\ UNCHANGED <<maps, told, disc, join>>

\* No active user, or the lookup fails: the socket is disconnected before it
\* is registered, which does nothing to one that has closed meanwhile.
ConnReject(s) ==
  /\ conn[s].pc = "lookup"
  /\ ConnGoto(s, "idle")
  /\ IF sock[s] = "open"
     THEN /\ sock' = [sock EXCEPT ![s] = "closed"]
          /\ rooms' = [k \in Chats |-> rooms[k] \ {s}]
          /\ connected' = connected \ {s}
     ELSE UNCHANGED <<sock, rooms, connected>>
  /\ UNCHANGED <<online, told, disc, join, troubled>>

\* The lookup answers, possibly after the socket has closed; the socket is
\* registered in the same turn, and the first one takes the instant to record.
ConnRegister(s) ==
  LET u == UserOf[s]
      became == online[u] = {}
  IN /\ conn[s].pc = "lookup"
     /\ connected' = connected \cup {s}
     /\ online' = [online EXCEPT ![u] = @ \cup {s}]
     /\ clock' = IF became THEN [clock EXCEPT ![u] = @ + 1] ELSE clock
     /\ conn' = [conn EXCEPT ![s] = [pc |-> IF became THEN "seen" ELSE "replay",
                                     at |-> IF became THEN clock[u] + 1 ELSE 0]]
     /\ UNCHANGED <<sock, rooms, lastSeen, view, disc, join, troubled>>

\* last_seen_at is written with the instant taken at the registration.
ConnSeen(s) ==
  /\ conn[s].pc = "seen"
  /\ lastSeen' = [lastSeen EXCEPT ![UserOf[s]] = conn[s].at]
  /\ ConnGoto(s, "contacts")
  /\ UNCHANGED <<sock, maps, clock, view, disc, join, troubled>>

ConnAnnounce(s) ==
  /\ conn[s].pc = "contacts"
  /\ Emit(Audience(UserOf[s]), {UserOf[s]}, "online")
  /\ ConnGoto(s, "replay")
  /\ UNCHANGED <<sock, maps, lastSeen, clock, disc, join, troubled>>

\* Mutant: nothing is replayed to a socket that connects.
ConnReplay_Nothing(s) ==
  /\ conn[s].pc = "replay"
  /\ ConnGoto(s, "done")
  /\ UNCHANGED <<sock, maps, told, disc, join, troubled>>

\* sendCurrentPresence: the contacts that are online right now.
ConnReplay(s) ==
  /\ conn[s].pc = "replay"
  /\ Emit({s}, {u \in Contacts[UserOf[s]] : online[u] # {}}, "online")
  /\ ConnGoto(s, "done")
  /\ UNCHANGED <<sock, maps, lastSeen, clock, disc, join, troubled>>

-----------------------------------------------------------------------------
\* handleDisconnect.

\* Mutant: a socket that closes is not taken out of its user's set.
Close_KeepsSocket(s) ==
  /\ sock[s] = "open"
  /\ sock' = [sock EXCEPT ![s] = "closed"]
  /\ rooms' = [k \in Chats |-> rooms[k] \ {s}]
  /\ connected' = connected \ {s}
  /\ NoteOverlap(UserOf[s])
  /\ UNCHANGED <<online, told, conn, disc, join>>

\* The gateway forgets the socket; if it knew its user, the socket is
\* unregistered, and the last one takes the instant to record.
Close(s) ==
  LET u == UserOf[s]
      rest == online[u] \ {s}
  IN /\ sock[s] = "open"
     /\ sock' = [sock EXCEPT ![s] = "closed"]
     /\ rooms' = [k \in Chats |-> rooms[k] \ {s}]
     /\ connected' = connected \ {s}
     /\ NoteOverlap(u)
     /\ IF s \in connected
        THEN online' = [online EXCEPT ![u] = rest]
        ELSE UNCHANGED online
     /\ IF s \in connected /\ online[u] # {} /\ rest = {}
        THEN /\ clock' = [clock EXCEPT ![u] = @ + 1]
             /\ disc' = [disc EXCEPT ![s] = [pc |-> "seen", at |-> clock[u] + 1]]
        ELSE UNCHANGED <<clock, disc>>
     /\ UNCHANGED <<lastSeen, view, conn, join>>

\* Mutant: last_seen_at is recorded on connecting only.
DiscSeen_NotRecorded(s) ==
  /\ disc[s].pc = "seen"
  /\ DiscGoto(s, "contacts")
  /\ UNCHANGED <<sock, maps, told, conn, join, troubled>>

DiscSeen(s) ==
  /\ disc[s].pc = "seen"
  /\ lastSeen' = [lastSeen EXCEPT ![UserOf[s]] = disc[s].at]
  /\ DiscGoto(s, "contacts")
  /\ UNCHANGED <<sock, maps, clock, view, conn, join, troubled>>

DiscAnnounce(s) ==
  /\ disc[s].pc = "contacts"
  /\ Emit(Audience(UserOf[s]), {UserOf[s]}, "offline")
  /\ DiscGoto(s, "done")
  /\ UNCHANGED <<sock, maps, lastSeen, clock, conn, join, troubled>>

\* The update or the contact list fails and the error is swallowed; a failed
\* registration still goes on to the replay.
HandlerFails(s) ==
  /\ Faults
  /\ \/ /\ conn[s].pc \in {"seen", "contacts"}
        /\ ConnGoto(s, "replay") /\ UNCHANGED disc
     \/ /\ conn[s].pc = "replay"
        /\ ConnGoto(s, "done") /\ UNCHANGED disc
     \/ /\ disc[s].pc \in {"seen", "contacts"}
        /\ DiscGoto(s, "done") /\ UNCHANGED conn
  /\ troubled' = troubled \cup {UserOf[s]}
  /\ UNCHANGED <<sock, maps, told, join>>

-----------------------------------------------------------------------------
\* chat:join and chat:leave.

\* A socket the gateway does not know yet has its user looked up again.
JoinBegin(s, k) ==
  /\ s \in Joining /\ sock[s] = "open"
  /\ join[s].pc = "idle"
  /\ join' = [join EXCEPT ![s] = [pc |-> IF s \in connected THEN "chat" ELSE "resolve",
                                  chat |-> k]]
  /\ UNCHANGED <<sock, maps, told, conn, disc, troubled>>

\* resolveUser remembers the user, or refuses the join.
JoinResolve(s) ==
  /\ join[s].pc = "resolve"
  /\ \/ /\ connected' = connected \cup {s}
        /\ join' = [join EXCEPT ![s].pc = "chat"]
     \/ /\ join' = [join EXCEPT ![s] = NoJoin]
        /\ UNCHANGED connected
  /\ UNCHANGED <<sock, online, rooms, told, conn, disc, troubled>>

\* The chat is loaded, and only its participants enter the room.
JoinChat(s) ==
  /\ join[s].pc = "chat"
  /\ \/ /\ UserOf[s] \in join[s].chat
        /\ rooms' = [rooms EXCEPT ![join[s].chat] = @ \cup {s}]
     \/ /\ UserOf[s] \notin join[s].chat \/ Faults
        /\ UNCHANGED rooms
  /\ join' = [join EXCEPT ![s] = NoJoin]
  /\ UNCHANGED <<sock, connected, online, told, conn, disc, troubled>>

Leave(s, k) ==
  /\ s \in Joining /\ sock[s] = "open"
  /\ rooms' = [rooms EXCEPT ![k] = @ \ {s}]
  /\ UNCHANGED <<sock, connected, online, told, conn, disc, join, troubled>>

Next ==
  \E s \in Sockets :
    \/ Connect(s) \/ ConnReject(s) \/ ConnRegister(s) \/ ConnSeen(s)
    \/ ConnAnnounce(s) \/ ConnReplay(s)
    \/ Close(s) \/ DiscSeen(s) \/ DiscAnnounce(s)
    \/ HandlerFails(s)
    \/ JoinResolve(s) \/ JoinChat(s)
    \/ \E k \in Chats : JoinBegin(s, k) \/ Leave(s, k)

Spec == Init /\ [][Next]_vars

-----------------------------------------------------------------------------
\* Every variable keeps its type.
TypeOK ==
  /\ sock \in [Sockets -> {"new", "open", "closed"}]
  /\ connected \in SUBSET Sockets
  /\ online \in [Users -> SUBSET Sockets]
  /\ rooms \in [Chats -> SUBSET Sockets]
  /\ lastSeen \in [Users -> Nat]
  /\ clock \in [Users -> Nat]
  /\ view \in [Sockets -> [Users -> Presences]]
  /\ conn \in [Sockets -> Handlers]
  /\ disc \in [Sockets -> Handlers]
  /\ join \in [Sockets -> [pc : JoinPcs, chat : Chats \cup {{}}]]
  /\ troubled \in SUBSET Users

\* An open socket past its lookup counts for its user however the user's other
\* sockets come and go: registerOnline and unregisterOnline share one set.
RegisteredIsOnline ==
  \A s \in Sockets :
    sock[s] = "open" /\ conn[s].pc \notin {"idle", "lookup"} => s \in online[UserOf[s]]

\* What the service counts, the gateway can take back: handleDisconnect
\* unregisters a socket only if connectedUsers has an entry for it.
OnlineIsKnown ==
  \A u \in Users : \A s \in online[u] : UserOf[s] = u /\ s \in connected

\* Only participants are in a chat's room, whatever becomes of the socket
\* between the two lookups of a chat:join.
RoomsAreParticipants ==
  \A k \in Chats : \A s \in rooms[k] : UserOf[s] \in k

\* What can never happen before the lookup has answered, and to no new socket.
HandlersFollow ==
  \A s \in Sockets :
    /\ sock[s] = "new" => conn[s].pc = "idle" /\ join[s].pc = "idle" /\ s \notin connected
    /\ conn[s].pc = "lookup" => s \notin online[UserOf[s]]
    /\ sock[s] # "closed" => disc[s].pc = "idle"
    /\ sock[s] = "open" => conn[s].pc # "idle"
    /\ join[s].pc # "idle" => join[s].chat \in Chats

\* A socket that closes while its user is looked up counts as an overlap.
LookupIsOpen ==
  \A s \in Sockets :
    conn[s].pc = "lookup" /\ UserOf[s] \notin troubled => sock[s] = "open"

\* A user who has met no overlap has one handler in flight at most.
OneHandler ==
  \A s, t \in Sockets :
    UserOf[s] = UserOf[t] /\ UserOf[s] \notin troubled =>
      /\ Running(conn[s]) /\ Running(conn[t]) => s = t
      /\ Running(disc[s]) /\ Running(disc[t]) => s = t
      /\ ~(Running(conn[s]) /\ Running(disc[t]))

\* Of the instants taken for such a user, only the last is still to be recorded.
Recorded(h, u) ==
  /\ h.at <= clock[u]
  /\ u \notin troubled =>
       IF h.pc = "seen" THEN h.at = clock[u] ELSE h.at <= lastSeen[u]

InstantsAreRecorded ==
  \A s \in Sockets : Recorded(conn[s], UserOf[s]) /\ Recorded(disc[s], UserOf[s])

\* The inductive invariant of the component: the maps of the gateway and of
\* the presence service agree with each other and with the handlers in flight.
IInv ==
  /\ TypeOK
  /\ RegisteredIsOnline
  /\ OnlineIsKnown
  /\ RoomsAreParticipants
  /\ HandlersFollow
  /\ LookupIsOpen
  /\ OneHandler
  /\ InstantsAreRecorded

\* While no handler of a user fails or is overtaken by another of its
\* connections, the user is online through open sockets only.
OnlineIsConnected ==
  \A u \in Users \ troubled : \A s \in online[u] : sock[s] = "open"

\* Once the handlers are through, every connected client shows each contact as
\* online exactly when it is: replay and broadcast leave no gap between them.
SettledView ==
  \A s \in Sockets, u \in Users :
    /\ sock[s] = "open" /\ conn[s].pc = "done" /\ UserOf[s] \notin troubled
    /\ u \in Contacts[UserOf[s]] \ troubled /\ ~Busy(u)
    => (view[s][u] = "online" <=> online[u] # {})

\* Once the handlers are through, last_seen_at is no older than any of the
\* user's comings and goings.
LastSeenIsLatest ==
  \A u \in Users \ troubled :
    ~Busy(u) => \A s \in SocketsOf(u) : conn[s].at <= lastSeen[u] /\ disc[s].at <= lastSeen[u]
=============================================================================
