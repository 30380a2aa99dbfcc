--------------------------- MODULE PresenceProofs ---------------------------
(***************************************************************************)
(* Proofs about Presence, for any users, sockets and chats.                *)
(***************************************************************************)
EXTENDS Presence, TLAPS

USE DEF Running, maps, told

\* Handler h of socket s alone goes on to pc, with the instant it has.
Moves(h, s, pc) ==
  /\ h' \in [Sockets -> Handlers]
  /\ h'[s].pc = pc /\ h'[s].at = h[s].at
  /\ \A t \in Sockets : t # s => h'[t] = h[t]

\* ConnGoto advances one connection handler and keeps its instant.
LEMMA ConnMoves ==
  ASSUME NEW s \in Sockets, NEW pc \in HandlerPcs, TypeOK, ConnGoto(s, pc)
  PROVE  Moves(conn, s, pc)
  BY ZenonT(60) DEF TypeOK, Handlers, ConnGoto, Moves

\* DiscGoto advances one disconnection handler and keeps its instant.
LEMMA DiscMoves ==
  ASSUME NEW s \in Sockets, NEW pc \in HandlerPcs, TypeOK, DiscGoto(s, pc)
  PROVE  Moves(disc, s, pc)
  BY DEF TypeOK, Handlers, DiscGoto, Moves

\* An event changes what clients show, and nothing else.
LEMMA EmitTyped ==
  ASSUME NEW targets, NEW us, NEW p \in Presences, TypeOK, Emit(targets, us, p)
  PROVE  view' \in [Sockets -> [Users -> Presences]]
  BY DEF TypeOK, Emit

\* A socket opens; its user may have another handler in flight.
LEMMA ConnectKeeps ==
  ASSUME NEW s \in Sockets, IInv, Connect(s)
  PROVE  IInv'
<1>a. Moves(conn, s, "lookup")
  BY ConnMoves DEF Connect, IInv, HandlerPcs
<1>b. /\ sock[s] = "new"
      /\ sock' \in [Sockets -> {"new", "open", "closed"}]
      /\ sock'[s] = "open" /\ \A t \in Sockets : t # s => sock'[t] = sock[t]
      /\ UNCHANGED <<connected, online, rooms, lastSeen, clock, view, disc, join>>
  BY DEF Connect, IInv, TypeOK
<1>c. /\ troubled' \in SUBSET Users /\ troubled \subseteq troubled'
      /\ UserOf[s] \in troubled' \/ \A t \in Sockets : UserOf[t] = UserOf[s] =>
                                      ~Running(conn[t]) /\ ~Running(disc[t])
  BY UserOfAssumption DEF Connect, NoteOverlap, Busy, SocketsOf, IInv, TypeOK
<1>1. TypeOK'
  BY <1>a, <1>b, <1>c DEF IInv, TypeOK, Moves
<1>2. RegisteredIsOnline'
  BY <1>a, <1>b DEF IInv, RegisteredIsOnline, Moves
<1>3. OnlineIsKnown'
  BY <1>b DEF IInv, OnlineIsKnown
<1>4. RoomsAreParticipants'
  BY <1>b DEF IInv, RoomsAreParticipants
<1>5. HandlersFollow'
  BY UserOfAssumption, <1>a, <1>b DEF IInv, HandlersFollow, OnlineIsKnown, Moves
<1>6. LookupIsOpen'
  BY <1>a, <1>b, <1>c DEF IInv, LookupIsOpen, Moves
<1>7. OneHandler'
  BY <1>a, <1>b, <1>c DEF IInv, OneHandler, Moves
<1>8. InstantsAreRecorded'
  BY <1>a, <1>b, <1>c DEF IInv, InstantsAreRecorded, Recorded, Moves
<1>9. QED
  BY <1>1, <1>2, <1>3, <1>4, <1>5, <1>6, <1>7, <1>8 DEF IInv

\* The lookup refuses the socket, which may have closed meanwhile.
LEMMA ConnRejectKeeps ==
  ASSUME NEW s \in Sockets, IInv, ConnReject(s)
  PROVE  IInv'
<1>a. Moves(conn, s, "idle")
  BY ConnMoves DEF ConnReject, IInv, HandlerPcs
<1>b. /\ conn[s].pc = "lookup"
      /\ sock' \in [Sockets -> {"new", "open", "closed"}]
      /\ sock'[s] # "open" /\ (sock'[s] = "closed" \/ sock' = sock)
      /\ \A t \in Sockets : t # s => sock'[t] = sock[t]
  BY DEF ConnReject, IInv, TypeOK
<1>c. /\ connected' \subseteq connected /\ connected \ {s} \subseteq connected'
      /\ rooms' \in [Chats -> SUBSET Sockets] /\ \A k \in Chats : rooms'[k] \subseteq rooms[k]
      /\ UNCHANGED <<online, lastSeen, clock, view, disc, join, troubled>>
  BY DEF ConnReject, IInv, TypeOK
<1>d. sock[s] # "new"
  BY DEF ConnReject, IInv, HandlersFollow
<1>1. TypeOK'
  BY <1>a, <1>b, <1>c DEF IInv, TypeOK, Moves
<1>2. RegisteredIsOnline'
  BY <1>a, <1>b, <1>c DEF IInv, RegisteredIsOnline, Moves
<1>3. OnlineIsKnown'
  BY <1>b, <1>c DEF IInv, OnlineIsKnown, HandlersFollow
<1>4. RoomsAreParticipants'
  BY <1>c DEF IInv, RoomsAreParticipants
<1>5. HandlersFollow'
  BY <1>a, <1>b, <1>c DEF IInv, HandlersFollow, Moves
<1>6. LookupIsOpen'
  BY <1>a, <1>b, <1>c DEF IInv, LookupIsOpen, Moves
<1>7. OneHandler'
  BY <1>a, <1>c DEF IInv, OneHandler, Moves
<1>8. InstantsAreRecorded'
  BY <1>a, <1>b, <1>c DEF IInv, InstantsAreRecorded, Recorded, Moves
<1>9. QED
  BY <1>1, <1>2, <1>3, <1>4, <1>5, <1>6, <1>7, <1>8 DEF IInv

\* The socket is registered; the first one takes an instant.
LEMMA ConnRegisterKeeps ==
  ASSUME NEW s \in Sockets, IInv, ConnRegister(s)
  PROVE  IInv'
<1>a. /\ conn[s].pc = "lookup" /\ connected' = connected \cup {s}
      /\ online' \in [Users -> SUBSET Sockets]
      /\ \A v \in Users : online'[v] = IF v = UserOf[s] THEN online[v] \cup {s} ELSE online[v]
      /\ UNCHANGED <<sock, rooms, lastSeen, view, disc, join, troubled>>
  BY DEF ConnRegister, IInv, TypeOK
<1>b. online[UserOf[s]] = {} =>
        /\ conn' = [conn EXCEPT ![s] = [pc |-> "seen", at |-> clock[UserOf[s]] + 1]]
        /\ clock' = [clock EXCEPT ![UserOf[s]] = @ + 1]
  BY DEF ConnRegister
<1>c. online[UserOf[s]] # {} =>
        /\ conn' = [conn EXCEPT ![s] = [pc |-> "replay", at |-> 0]]
        /\ clock' = clock
  BY DEF ConnRegister
<1>d. /\ conn' \in [Sockets -> Handlers]
      /\ \A t \in Sockets : t # s => conn'[t] = conn[t]
      /\ conn'[s].pc = "seen" \/ conn'[s].pc = "replay"
      /\ conn'[s].pc = "seen" => conn'[s].at = clock'[UserOf[s]]
      /\ conn'[s].pc = "replay" => conn'[s].at = 0
  <2>1. conn \in [Sockets -> Handlers] /\ clock \in [Users -> Nat] /\ UserOf[s] \in Users
    BY UserOfAssumption DEF IInv, TypeOK
  <2>2. CASE online[UserOf[s]] = {}
    <3>1. [pc |-> "seen", at |-> clock[UserOf[s]] + 1] \in Handlers
      BY <2>1 DEF Handlers, HandlerPcs
    <3>2. QED
      BY <1>b, <2>1, <2>2, <3>1
  <2>3. CASE online[UserOf[s]] # {}
    <3>1. [pc |-> "replay", at |-> 0] \in Handlers
      BY DEF Handlers, HandlerPcs
    <3>2. QED
      BY <1>c, <2>1, <2>3, <3>1
  <2>4. QED
    BY <2>2, <2>3
<1>e. /\ clock' \in [Users -> Nat]
      /\ \A v \in Users : v # UserOf[s] => clock'[v] = clock[v]
      /\ clock'[UserOf[s]] = clock[UserOf[s]] \/ clock'[UserOf[s]] = clock[UserOf[s]] + 1
  <2>1. clock \in [Users -> Nat] /\ UserOf[s] \in Users
    BY UserOfAssumption DEF IInv, TypeOK
  <2>2. CASE online[UserOf[s]] = {}
    BY <1>b, <2>1, <2>2
  <2>3. CASE online[UserOf[s]] # {}
    BY <1>c, <2>1, <2>3
  <2>4. QED
    BY <2>2, <2>3
<1>1. TypeOK'
  BY <1>a, <1>d, <1>e DEF IInv, TypeOK
<1>2. RegisteredIsOnline'
  BY UserOfAssumption, <1>a, <1>d DEF IInv, RegisteredIsOnline
<1>3. OnlineIsKnown'
  BY <1>a DEF IInv, OnlineIsKnown
<1>4. RoomsAreParticipants'
  BY <1>a DEF IInv, RoomsAreParticipants
<1>5. HandlersFollow'
  BY UserOfAssumption, <1>a, <1>d DEF IInv, HandlersFollow
<1>6. LookupIsOpen'
  BY <1>a, <1>d DEF IInv, LookupIsOpen
<1>7. OneHandler'
  BY <1>a, <1>d DEF IInv, OneHandler
<1>8. InstantsAreRecorded'
  <2> SUFFICES ASSUME NEW t \in Sockets
      PROVE  Recorded(conn[t], UserOf[t])' /\ Recorded(disc[t], UserOf[t])'
    BY DEF InstantsAreRecorded
  <2>1. /\ conn[t].at \in Nat /\ disc[t].at \in Nat /\ UserOf[t] \in Users
        /\ clock[UserOf[t]] \in Nat /\ lastSeen[UserOf[t]] \in Nat
    BY UserOfAssumption DEF IInv, TypeOK, Handlers
  <2>2. Recorded(conn[t], UserOf[t]) /\ Recorded(disc[t], UserOf[t])
    BY DEF IInv, InstantsAreRecorded
  <2>3. clock'[UserOf[t]] \in Nat /\ clock[UserOf[t]] <= clock'[UserOf[t]]
    BY <1>e, <2>1
  <2>4. CASE UserOf[t] \in troubled'
    BY <1>a, <1>d, <2>1, <2>2, <2>3, <2>4 DEF Recorded
  <2>5. CASE UserOf[t] \notin troubled'
    BY <1>a, <1>d, <1>e, <2>1, <2>2 DEF Recorded, IInv, OneHandler
  <2>6. QED
    BY <2>4, <2>5
<1>9. QED
  BY <1>1, <1>2, <1>3, <1>4, <1>5, <1>6, <1>7, <1>8 DEF IInv

\* last_seen_at is written by a registration.
LEMMA ConnSeenKeeps ==
  ASSUME NEW s \in Sockets, IInv, ConnSeen(s)
  PROVE  IInv'
<1>a. Moves(conn, s, "contacts")
  BY ConnMoves DEF ConnSeen, IInv, HandlerPcs
<1>b. /\ conn[s].pc = "seen"
      /\ UNCHANGED <<sock, connected, online, rooms, clock, view, disc, join, troubled>>
  BY DEF ConnSeen
<1>c. /\ lastSeen' \in [Users -> Nat] /\ lastSeen'[UserOf[s]] = conn[s].at
      /\ \A v \in Users : v # UserOf[s] => lastSeen'[v] = lastSeen[v]
  BY UserOfAssumption DEF ConnSeen, IInv, TypeOK, Handlers
<1>1. TypeOK'
  BY <1>a, <1>b, <1>c DEF IInv, TypeOK, Moves
<1>2. RegisteredIsOnline'
  BY <1>a, <1>b DEF IInv, RegisteredIsOnline, Moves
<1>3. OnlineIsKnown'
  BY <1>b DEF IInv, OnlineIsKnown
<1>4. RoomsAreParticipants'
  BY <1>b DEF IInv, RoomsAreParticipants
<1>5. HandlersFollow'
  BY <1>a, <1>b DEF IInv, HandlersFollow, Moves
<1>6. LookupIsOpen'
  BY <1>a, <1>b DEF IInv, LookupIsOpen, Moves
<1>7. OneHandler'
  BY <1>a, <1>b DEF IInv, OneHandler, Moves
<1>8. InstantsAreRecorded'
  BY UserOfAssumption, <1>a, <1>b, <1>c DEF IInv, InstantsAreRecorded, Recorded, Moves
<1>9. QED
  BY <1>1, <1>2, <1>3, <1>4, <1>5, <1>6, <1>7, <1>8 DEF IInv

\* The contacts are told that the user is online.
LEMMA ConnAnnounceKeeps ==
  ASSUME NEW s \in Sockets, IInv, ConnAnnounce(s)
  PROVE  IInv'
<1>a. Moves(conn, s, "replay")
  BY ConnMoves DEF ConnAnnounce, IInv, HandlerPcs
<1>b. /\ conn[s].pc = "contacts"
      /\ UNCHANGED <<sock, connected, online, rooms, lastSeen, clock, disc, join, troubled>>
  BY DEF ConnAnnounce
<1>c. view' \in [Sockets -> [Users -> Presences]]
  BY EmitTyped DEF ConnAnnounce, IInv, Presences
<1>1. TypeOK'
  BY <1>a, <1>b, <1>c DEF IInv, TypeOK, Moves
<1>2. RegisteredIsOnline'
  BY <1>a, <1>b DEF IInv, RegisteredIsOnline, Moves
<1>3. OnlineIsKnown'
  BY <1>b DEF IInv, OnlineIsKnown
<1>4. RoomsAreParticipants'
  BY <1>b DEF IInv, RoomsAreParticipants
<1>5. HandlersFollow'
  BY <1>a, <1>b DEF IInv, HandlersFollow, Moves
<1>6. LookupIsOpen'
  BY <1>a, <1>b DEF IInv, LookupIsOpen, Moves
<1>7. OneHandler'
  BY <1>a, <1>b DEF IInv, OneHandler, Moves
<1>8. InstantsAreRecorded'
  BY <1>a, <1>b DEF IInv, InstantsAreRecorded, Recorded, Moves
<1>9. QED
  BY <1>1, <1>2, <1>3, <1>4, <1>5, <1>6, <1>7, <1>8 DEF IInv

\* The client is told which contacts are online.
LEMMA ConnReplayKeeps ==
  ASSUME NEW s \in Sockets, IInv, ConnReplay(s)
  PROVE  IInv'
<1>a. Moves(conn, s, "done")
  BY ConnMoves DEF ConnReplay, IInv, HandlerPcs
<1>b. /\ conn[s].pc = "replay"
      /\ UNCHANGED <<sock, connected, online, rooms, lastSeen, clock, disc, join, troubled>>
  BY DEF ConnReplay
<1>c. view' \in [Sockets -> [Users -> Presences]]
  BY EmitTyped DEF ConnReplay, IInv, Presences
<1>1. TypeOK'
  BY <1>a, <1>b, <1>c DEF IInv, TypeOK, Moves
<1>2. RegisteredIsOnline'
  BY <1>a, <1>b DEF IInv, RegisteredIsOnline, Moves
<1>3. OnlineIsKnown'
  BY <1>b DEF IInv, OnlineIsKnown
<1>4. RoomsAreParticipants'
  BY <1>b DEF IInv, RoomsAreParticipants
<1>5. HandlersFollow'
  BY <1>a, <1>b DEF IInv, HandlersFollow, Moves
<1>6. LookupIsOpen'
  BY <1>a, <1>b DEF IInv, LookupIsOpen, Moves
<1>7. OneHandler'
  BY <1>a, <1>b DEF IInv, OneHandler, Moves
<1>8. InstantsAreRecorded'
  BY <1>a, <1>b DEF IInv, InstantsAreRecorded, Recorded, Moves
<1>9. QED
  BY <1>1, <1>2, <1>3, <1>4, <1>5, <1>6, <1>7, <1>8 DEF IInv

\* A socket closes; the last one takes an instant.
LEMMA CloseKeeps ==
  ASSUME NEW s \in Sockets, IInv, Close(s)
  PROVE  IInv'
<1>a. /\ sock[s] = "open" /\ sock'[s] = "closed"
      /\ sock' \in [Sockets -> {"new", "open", "closed"}]
      /\ \A t \in Sockets : t # s => sock'[t] = sock[t]
      /\ connected' = connected \ {s}
      /\ rooms' = [k \in Chats |-> rooms[k] \ {s}]
      /\ UNCHANGED <<lastSeen, view, conn, join>>
  BY DEF Close, IInv, TypeOK
<1>b. /\ online' \in [Users -> SUBSET Sockets]
      /\ \A v \in Users : online'[v] = IF v = UserOf[s] THEN online[v] \ {s} ELSE online[v]
  <2>1. s \notin connected => online[UserOf[s]] \ {s} = online[UserOf[s]]
    BY UserOfAssumption DEF IInv, OnlineIsKnown
  <2>2. online' = [online EXCEPT ![UserOf[s]] = @ \ {s}]
    BY <2>1 DEF Close, IInv, TypeOK
  <2>3. QED
    BY <2>2 DEF IInv, TypeOK
<1>c. \/ disc' = disc /\ clock' = clock
      \/ /\ disc' = [disc EXCEPT ![s] = [pc |-> "seen", at |-> clock[UserOf[s]] + 1]]
         /\ clock' = [clock EXCEPT ![UserOf[s]] = @ + 1]
  BY DEF Close
<1>d. /\ disc' \in [Sockets -> Handlers]
      /\ \A t \in Sockets : t # s => disc'[t] = disc[t]
      /\ \/ disc'[s] = disc[s] /\ clock' = clock
         \/ disc'[s].pc = "seen" /\ disc'[s].at = clock'[UserOf[s]]
  <2>1. disc \in [Sockets -> Handlers] /\ clock \in [Users -> Nat] /\ UserOf[s] \in Users
    BY UserOfAssumption DEF IInv, TypeOK
  <2>2. [pc |-> "seen", at |-> clock[UserOf[s]] + 1] \in Handlers
    BY <2>1 DEF Handlers, HandlerPcs
  <2>3. QED
    BY <1>c, <2>1, <2>2
<1>e. /\ clock' \in [Users -> Nat]
      /\ \A v \in Users : v # UserOf[s] => clock'[v] = clock[v]
      /\ clock'[UserOf[s]] = clock[UserOf[s]] \/ clock'[UserOf[s]] = clock[UserOf[s]] + 1
  <2>1. clock \in [Users -> Nat] /\ UserOf[s] \in Users
    BY UserOfAssumption DEF IInv, TypeOK
  <2>2. QED
    BY <1>c, <2>1
<1>f. /\ troubled' \in SUBSET Users /\ troubled \subseteq troubled'
      /\ UserOf[s] \in troubled' \/ \A t \in Sockets : UserOf[t] = UserOf[s] =>
                                      ~Running(conn[t]) /\ ~Running(disc[t])
  BY UserOfAssumption DEF Close, NoteOverlap, Busy, SocketsOf, IInv, TypeOK
<1>1. TypeOK'
  BY <1>a, <1>b, <1>d, <1>e, <1>f DEF IInv, TypeOK
<1>2. RegisteredIsOnline'
  BY UserOfAssumption, <1>a, <1>b DEF IInv, RegisteredIsOnline
<1>3. OnlineIsKnown'
  BY <1>a, <1>b DEF IInv, OnlineIsKnown
<1>4. RoomsAreParticipants'
  BY <1>a DEF IInv, RoomsAreParticipants
<1>5. HandlersFollow'
  BY UserOfAssumption, <1>a, <1>b, <1>d DEF IInv, HandlersFollow
<1>6. LookupIsOpen'
  BY <1>a, <1>f DEF IInv, LookupIsOpen
<1>7. OneHandler'
  BY <1>a, <1>d, <1>f DEF IInv, OneHandler
<1>8. InstantsAreRecorded'
  <2> SUFFICES ASSUME NEW t \in Sockets
      PROVE  Recorded(conn[t], UserOf[t])' /\ Recorded(disc[t], UserOf[t])'
    BY DEF InstantsAreRecorded
  <2>1. /\ conn[t].at \in Nat /\ disc[t].at \in Nat /\ UserOf[t] \in Users
        /\ clock[UserOf[t]] \in Nat /\ lastSeen[UserOf[t]] \in Nat
    BY UserOfAssumption DEF IInv, TypeOK, Handlers
  <2>2. Recorded(conn[t], UserOf[t]) /\ Recorded(disc[t], UserOf[t])
    BY DEF IInv, InstantsAreRecorded
  <2>3. clock'[UserOf[t]] \in Nat /\ clock[UserOf[t]] <= clock'[UserOf[t]]
    BY <1>e, <2>1
  <2>4. CASE UserOf[t] \in troubled'
    BY <1>a, <1>d, <2>1, <2>2, <2>3, <2>4 DEF Recorded
  <2>5. CASE UserOf[t] \notin troubled'
    BY <1>a, <1>d, <1>e, <1>f, <2>1, <2>2 DEF Recorded
  <2>6. QED
    BY <2>4, <2>5
<1>9. QED
  BY <1>1, <1>2, <1>3, <1>4, <1>5, <1>6, <1>7, <1>8 DEF IInv

\* last_seen_at is written by a disconnection.
LEMMA DiscSeenKeeps ==
  ASSUME NEW s \in Sockets, IInv, DiscSeen(s)
  PROVE  IInv'
<1>a. Moves(disc, s, "contacts")
  BY DiscMoves DEF DiscSeen, IInv, HandlerPcs
<1>b. /\ disc[s].pc = "seen"
      /\ UNCHANGED <<sock, connected, online, rooms, clock, view, conn, join, troubled>>
  BY DEF DiscSeen
<1>c. /\ lastSeen' \in [Users -> Nat] /\ lastSeen'[UserOf[s]] = disc[s].at
      /\ \A v \in Users : v # UserOf[s] => lastSeen'[v] = lastSeen[v]
  BY UserOfAssumption DEF DiscSeen, IInv, TypeOK, Handlers
<1>1. TypeOK'
  BY <1>a, <1>b, <1>c DEF IInv, TypeOK, Moves
<1>2. RegisteredIsOnline'
  BY <1>b DEF IInv, RegisteredIsOnline
<1>3. OnlineIsKnown'
  BY <1>b DEF IInv, OnlineIsKnown
<1>4. RoomsAreParticipants'
  BY <1>b DEF IInv, RoomsAreParticipants
<1>5. HandlersFollow'
  BY <1>a, <1>b DEF IInv, HandlersFollow, Moves
<1>6. LookupIsOpen'
  BY <1>b DEF IInv, LookupIsOpen
<1>7. OneHandler'
  BY <1>a, <1>b DEF IInv, OneHandler, Moves
<1>8. InstantsAreRecorded'
  BY UserOfAssumption, <1>a, <1>b, <1>c DEF IInv, InstantsAreRecorded, Recorded, Moves
<1>9. QED
  BY <1>1, <1>2, <1>3, <1>4, <1>5, <1>6, <1>7, <1>8 DEF IInv

\* The contacts are told that the user is offline.
LEMMA DiscAnnounceKeeps ==
  ASSUME NEW s \in Sockets, IInv, DiscAnnounce(s)
  PROVE  IInv'
<1>a. Moves(disc, s, "done")
  BY DiscMoves DEF DiscAnnounce, IInv, HandlerPcs
<1>b. /\ disc[s].pc = "contacts"
      /\ UNCHANGED <<sock, connected, online, rooms, lastSeen, clock, conn, join, troubled>>
  BY DEF DiscAnnounce
<1>c. view' \in [Sockets -> [Users -> Presences]]
  BY EmitTyped DEF DiscAnnounce, IInv, Presences
<1>1. TypeOK'
  BY <1>a, <1>b, <1>c DEF IInv, TypeOK, Moves
<1>2. RegisteredIsOnline'
  BY <1>b DEF IInv, RegisteredIsOnline
<1>3. OnlineIsKnown'
  BY <1>b DEF IInv, OnlineIsKnown
<1>4. RoomsAreParticipants'
  BY <1>b DEF IInv, RoomsAreParticipants
<1>5. HandlersFollow'
  BY <1>a, <1>b DEF IInv, HandlersFollow, Moves
<1>6. LookupIsOpen'
  BY <1>b DEF IInv, LookupIsOpen
<1>7. OneHandler'
  BY <1>a, <1>b DEF IInv, OneHandler, Moves
<1>8. InstantsAreRecorded'
  BY <1>a, <1>b DEF IInv, InstantsAreRecorded, Recorded, Moves
<1>9. QED
  BY <1>1, <1>2, <1>3, <1>4, <1>5, <1>6, <1>7, <1>8 DEF IInv

\* A statement of a handler fails, which the user remembers as trouble.
LEMMA HandlerFailsKeeps ==
  ASSUME NEW s \in Sockets, IInv, HandlerFails(s)
  PROVE  IInv'
<1>a. \/ /\ conn[s].pc \in {"seen", "contacts"} /\ Moves(conn, s, "replay") /\ disc' = disc
      \/ /\ conn[s].pc = "replay" /\ Moves(conn, s, "done") /\ disc' = disc
      \/ /\ disc[s].pc \in {"seen", "contacts"} /\ Moves(disc, s, "done") /\ conn' = conn
  BY ConnMoves, DiscMoves DEF HandlerFails, IInv, HandlerPcs
<1>b. /\ troubled' = troubled \cup {UserOf[s]}
      /\ UNCHANGED <<sock, connected, online, rooms, lastSeen, clock, view, join>>
  BY DEF HandlerFails
<1>1. TypeOK'
  BY UserOfAssumption, <1>a, <1>b DEF IInv, TypeOK, Moves
<1>2. RegisteredIsOnline'
  BY <1>a, <1>b DEF IInv, RegisteredIsOnline, Moves
<1>3. OnlineIsKnown'
  BY <1>b DEF IInv, OnlineIsKnown
<1>4. RoomsAreParticipants'
  BY <1>b DEF IInv, RoomsAreParticipants
<1>5. HandlersFollow'
  BY <1>a, <1>b DEF IInv, HandlersFollow, Moves
<1>6. LookupIsOpen'
  BY <1>a, <1>b DEF IInv, LookupIsOpen, Moves
<1>7. OneHandler'
  BY <1>a, <1>b DEF IInv, OneHandler, Moves
<1>8. InstantsAreRecorded'
  BY <1>a, <1>b DEF IInv, InstantsAreRecorded, Recorded, Moves
<1>9. QED
  BY <1>1, <1>2, <1>3, <1>4, <1>5, <1>6, <1>7, <1>8 DEF IInv

\* A chat:join looks the user up.
LEMMA JoinResolveKeeps ==
  ASSUME NEW s \in Sockets, IInv, JoinResolve(s)
  PROVE  IInv'
<1>a. \/ /\ connected' = connected \cup {s}
         /\ join' = [join EXCEPT ![s].pc = "chat"]
      \/ /\ connected' = connected
         /\ join' = [join EXCEPT ![s] = NoJoin]
  BY DEF JoinResolve
<1>b. /\ join' \in [Sockets -> [pc : JoinPcs, chat : Chats \cup {{}}]]
      /\ \A t \in Sockets : t # s => join'[t] = join[t]
      /\ join'[s].pc # "idle" => join'[s].chat = join[s].chat
  <2>1. join \in [Sockets -> [pc : JoinPcs, chat : Chats \cup {{}}]]
    BY DEF IInv, TypeOK
  <2>2. CASE join' = [join EXCEPT ![s].pc = "chat"]
    BY <2>1, <2>2 DEF JoinPcs
  <2>3. CASE join' = [join EXCEPT ![s] = NoJoin]
    BY <2>1, <2>3 DEF JoinPcs, NoJoin
  <2>4. QED
    BY <1>a, <2>2, <2>3
<1>c. /\ join[s].pc = "resolve"
      /\ connected' \subseteq connected \cup {s} /\ connected \subseteq connected'
      /\ UNCHANGED <<sock, online, rooms, lastSeen, clock, view, conn, disc, troubled>>
  BY <1>a DEF JoinResolve
<1>1. TypeOK'
  BY <1>b, <1>c DEF IInv, TypeOK
<1>2. RegisteredIsOnline'
  BY <1>c DEF IInv, RegisteredIsOnline
<1>3. OnlineIsKnown'
  BY <1>c DEF IInv, OnlineIsKnown
<1>4. RoomsAreParticipants'
  BY <1>c DEF IInv, RoomsAreParticipants
<1>5. HandlersFollow'
  BY <1>b, <1>c DEF IInv, HandlersFollow
<1>6. LookupIsOpen'
  BY <1>c DEF IInv, LookupIsOpen
<1>7. OneHandler'
  BY <1>c DEF IInv, OneHandler
<1>8. InstantsAreRecorded'
  BY <1>c DEF IInv, InstantsAreRecorded, Recorded
<1>9. QED
  BY <1>1, <1>2, <1>3, <1>4, <1>5, <1>6, <1>7, <1>8 DEF IInv

\* A chat:join loads the chat, which admits its participants.
LEMMA JoinChatKeeps ==
  ASSUME NEW s \in Sockets, IInv, JoinChat(s)
  PROVE  IInv'
<1>a. /\ join' \in [Sockets -> [pc : JoinPcs, chat : Chats \cup {{}}]]
      /\ \A t \in Sockets : t # s => join'[t] = join[t]
      /\ join'[s].pc = "idle"
      /\ UNCHANGED <<sock, connected, online, lastSeen, clock, view, conn, disc, troubled>>
  BY DEF JoinChat, IInv, TypeOK, JoinPcs, NoJoin
<1>b. /\ rooms' \in [Chats -> SUBSET Sockets]
      /\ \A k \in Chats : \A t \in rooms'[k] : t \in rooms[k] \/ (t = s /\ UserOf[s] \in k)
  <2>1. join[s].chat \in Chats
    BY DEF JoinChat, IInv, HandlersFollow
  <2>2. QED
    <3>1. rooms \in [Chats -> SUBSET Sockets]
      BY DEF IInv, TypeOK
    <3>2. CASE rooms' = rooms
      BY <3>1, <3>2
    <3>3. CASE /\ UserOf[s] \in join[s].chat
               /\ rooms' = [rooms EXCEPT ![join[s].chat] = @ \cup {s}]
      BY <3>1, <3>3
    <3>4. QED
      BY <3>2, <3>3 DEF JoinChat
<1>1. TypeOK'
  BY <1>a, <1>b DEF IInv, TypeOK
<1>2. RegisteredIsOnline'
  BY <1>a DEF IInv, RegisteredIsOnline
<1>3. OnlineIsKnown'
  BY <1>a DEF IInv, OnlineIsKnown
<1>4. RoomsAreParticipants'
  BY <1>b DEF IInv, RoomsAreParticipants
<1>5. HandlersFollow'
  BY <1>a DEF IInv, HandlersFollow
<1>6. LookupIsOpen'
  BY <1>a DEF IInv, LookupIsOpen
<1>7. OneHandler'
  BY <1>a DEF IInv, OneHandler
<1>8. InstantsAreRecorded'
  BY <1>a DEF IInv, InstantsAreRecorded, Recorded
<1>9. QED
  BY <1>1, <1>2, <1>3, <1>4, <1>5, <1>6, <1>7, <1>8 DEF IInv

\* A chat:join arrives.
LEMMA JoinBeginKeeps ==
  ASSUME NEW s \in Sockets, NEW k \in Chats, IInv, JoinBegin(s, k)
  PROVE  IInv'
<1>a. /\ join' = [join EXCEPT ![s] = [pc |-> IF s \in connected THEN "chat" ELSE "resolve",
                                      chat |-> k]]
      /\ sock[s] = "open"
      /\ UNCHANGED <<sock, connected, online, rooms, lastSeen, clock, view, conn, disc, troubled>>
  BY DEF JoinBegin
<1>b. /\ join' \in [Sockets -> [pc : JoinPcs, chat : Chats \cup {{}}]]
      /\ \A t \in Sockets : t # s => join'[t] = join[t]
      /\ join'[s].chat \in Chats
  BY <1>a DEF IInv, TypeOK, JoinPcs
<1>1. TypeOK'
  BY <1>a, <1>b DEF IInv, TypeOK
<1>2. RegisteredIsOnline'
  BY <1>a DEF IInv, RegisteredIsOnline
<1>3. OnlineIsKnown'
  BY <1>a DEF IInv, OnlineIsKnown
<1>4. RoomsAreParticipants'
  BY <1>a DEF IInv, RoomsAreParticipants
<1>5. HandlersFollow'
  BY <1>a DEF IInv, HandlersFollow
<1>6. LookupIsOpen'
  BY <1>a DEF IInv, LookupIsOpen
<1>7. OneHandler'
  BY <1>a DEF IInv, OneHandler
<1>8. InstantsAreRecorded'
  BY <1>a DEF IInv, InstantsAreRecorded, Recorded
<1>9. QED
  BY <1>1, <1>2, <1>3, <1>4, <1>5, <1>6, <1>7, <1>8 DEF IInv

\* A chat:leave takes the socket out of the room.
LEMMA LeaveKeeps ==
  ASSUME NEW s \in Sockets, NEW k \in Chats, IInv, Leave(s, k)
  PROVE  IInv'
<1>a. /\ rooms' \in [Chats -> SUBSET Sockets]
      /\ \A c \in Chats : rooms'[c] \subseteq rooms[c]
      /\ UNCHANGED <<sock, connected, online, lastSeen, clock, view, conn, disc, join, troubled>>
  BY DEF Leave, IInv, TypeOK
<1>1. TypeOK'
  BY <1>a DEF IInv, TypeOK
<1>2. RegisteredIsOnline'
  BY <1>a DEF IInv, RegisteredIsOnline
<1>3. OnlineIsKnown'
  BY <1>a DEF IInv, OnlineIsKnown
<1>4. RoomsAreParticipants'
  BY <1>a DEF IInv, RoomsAreParticipants
<1>5. HandlersFollow'
  BY <1>a DEF IInv, HandlersFollow
<1>6. LookupIsOpen'
  BY <1>a DEF IInv, LookupIsOpen
<1>7. OneHandler'
  BY <1>a DEF IInv, OneHandler
<1>8. InstantsAreRecorded'
  BY <1>a DEF IInv, InstantsAreRecorded, Recorded
<1>9. QED
  BY <1>1, <1>2, <1>3, <1>4, <1>5, <1>6, <1>7, <1>8 DEF IInv

\* The invariant holds before any socket connects.
LEMMA InitIInv == Init => IInv
  BY UserOfAssumption
  DEF Init, Idle, NoJoin, IInv, TypeOK, RegisteredIsOnline, OnlineIsKnown,
      RoomsAreParticipants, HandlersFollow, LookupIsOpen, OneHandler,
      InstantsAreRecorded, Recorded, Handlers, HandlerPcs, JoinPcs, Presences

\* Every step keeps the invariant.
LEMMA NextIInv == IInv /\ [Next]_vars => IInv'
<1> SUFFICES ASSUME IInv, [Next]_vars PROVE IInv'
  OBVIOUS
<1>1. CASE UNCHANGED vars
  BY <1>1 DEF vars, IInv, TypeOK, RegisteredIsOnline, OnlineIsKnown,
     RoomsAreParticipants, HandlersFollow, LookupIsOpen, OneHandler,
     InstantsAreRecorded, Recorded
<1>2. CASE Next
  BY <1>2, ConnectKeeps, ConnRejectKeeps, ConnRegisterKeeps, ConnSeenKeeps,
     ConnAnnounceKeeps, ConnReplayKeeps, CloseKeeps, DiscSeenKeeps,
     DiscAnnounceKeeps, HandlerFailsKeeps, JoinResolveKeeps, JoinChatKeeps,
     JoinBeginKeeps, LeaveKeeps
  DEF Next
<1>3. QED
  BY <1>1, <1>2

\* The maps of the gateway and of the presence service agree with each other
\* and with the handlers in flight, in every reachable state.
THEOREM InductiveInvariant == Spec => []IInv
  BY InitIInv, NextIInv, PTL DEF Spec

\* An open socket past its lookup counts for its user, whatever the user's
\* other sockets do.
THEOREM RegisteredStayOnline == Spec => []RegisteredIsOnline
<1>1. IInv => RegisteredIsOnline
  BY DEF IInv
<1>2. QED
  BY <1>1, InductiveInvariant, PTL

\* Only participants are ever in the room of a chat.
THEOREM RoomsArePrivate == Spec => []RoomsAreParticipants
<1>1. IInv => RoomsAreParticipants
  BY DEF IInv
<1>2. QED
  BY <1>1, InductiveInvariant, PTL

\* Every step keeps a user without trouble online through open sockets only.
LEMMA NextOnline ==
  IInv /\ OnlineIsConnected /\ [Next]_vars => OnlineIsConnected'
<1> SUFFICES ASSUME IInv, OnlineIsConnected, [Next]_vars PROVE OnlineIsConnected'
  OBVIOUS
<1> USE DEF OnlineIsConnected
<1>1. CASE UNCHANGED vars
  BY <1>1 DEF vars
<1>2. ASSUME NEW s \in Sockets, Connect(s) PROVE OnlineIsConnected'
  BY <1>2 DEF Connect, NoteOverlap
<1>3. ASSUME NEW s \in Sockets, ConnReject(s) PROVE OnlineIsConnected'
  BY <1>3 DEF ConnReject, IInv, TypeOK, HandlersFollow, OnlineIsKnown
<1>4. ASSUME NEW s \in Sockets, ConnRegister(s) PROVE OnlineIsConnected'
  BY <1>4 DEF ConnRegister, IInv, LookupIsOpen
<1>5. ASSUME NEW s \in Sockets, Close(s) PROVE OnlineIsConnected'
  BY <1>5 DEF Close, NoteOverlap, IInv, TypeOK, OnlineIsKnown
<1>6. ASSUME UNCHANGED <<sock, online>>, troubled \subseteq troubled'
      PROVE  OnlineIsConnected'
  BY <1>6
<1>7. QED
  BY <1>1, <1>2, <1>3, <1>4, <1>5, <1>6
  DEF Next, ConnSeen, ConnAnnounce, ConnReplay, DiscSeen, DiscAnnounce, HandlerFails,
      JoinResolve, JoinChat, JoinBegin, Leave

\* A user none of whose handlers failed or was overtaken is online through open
\* sockets only.
THEOREM OnlineWhileConnected == Spec => []OnlineIsConnected
<1>1. Init => OnlineIsConnected
  BY DEF Init, OnlineIsConnected
<1>2. QED
  BY <1>1, InductiveInvariant, NextOnline, PTL DEF Spec

\* The last instant taken for such a user is the one recorded, once the user's
\* handlers are through.
THEOREM LastSeenKept == Spec => []LastSeenIsLatest
<1>1. IInv => LastSeenIsLatest
  BY DEF IInv, InstantsAreRecorded, Recorded, LastSeenIsLatest, Busy, SocketsOf
<1>2. QED
  BY <1>1, InductiveInvariant, PTL

-----------------------------------------------------------------------------
(* What the clients show.  The announcements of a user are followed through   *)
(* the handlers in flight; IInv speaks of the maps only.                      *)

\* A change of the user's presence is still to be announced.
Announcing(h) == h.pc \in {"seen", "contacts"}
Pending(u) == \E t \in SocketsOf(u) : Announcing(conn[t]) \/ Announcing(disc[t])

\* A connection handler that nothing overtook has its socket open.
RunningIsOpen ==
  \A t \in Sockets : Running(conn[t]) /\ UserOf[t] \notin troubled => sock[t] = "open"

\* A disconnection is recorded while the user has no socket.
LeavingIsGone ==
  \A t \in Sockets : Running(disc[t]) /\ UserOf[t] \notin troubled => online[UserOf[t]] = {}

\* What a client shows of a contact that has nothing to announce: before the socket
\* is registered nothing, from then on nobody online who is not, and after the
\* replay everybody who is.
Follows(s, u) ==
  /\ conn[s].pc \in {"idle", "lookup"} => view[s][u] = "blank"
  /\ sock[s] = "open" /\ ~Pending(u) =>
       /\ view[s][u] = "online" => online[u] # {}
       /\ conn[s].pc = "done" /\ UserOf[s] \notin troubled /\ online[u] # {} => view[s][u] = "online"

ViewFollows == \A s \in Sockets : \A u \in Contacts[UserOf[s]] \ troubled : Follows(s, u)

ViewInv == RunningIsOpen /\ LeavingIsGone /\ ViewFollows

\* A contact of a socket's user is a user, and has that user as a contact.
LEMMA ContactsAreMutual ==
  ASSUME NEW s \in Sockets, NEW u \in Contacts[UserOf[s]]
  PROVE  u \in Users /\ UserOf[s] \in Users /\ UserOf[s] \in Contacts[u]
BY UserOfAssumption, ContactsAssumption, MutualAssumption

\* A user has no more and no less to announce after a step of other users' handlers.
LEMMA PendingSame ==
  ASSUME NEW u, NEW x \in Sockets,
         \A t \in Sockets \ {x} : conn'[t] = conn[t] /\ disc'[t] = disc[t],
         UserOf[x] # u \/ ((Announcing(conn[x]) \/ Announcing(disc[x])) <=> (Announcing(conn'[x]) \/ Announcing(disc'[x])))
  PROVE  Pending(u)' <=> Pending(u)
BY DEF Pending, Announcing, SocketsOf

\* A step that touches no handler, no map of presence and no view.
LEMMA ViewQuiet ==
  ASSUME ViewInv, UNCHANGED <<sock, online, view, conn, disc>>, troubled \subseteq troubled'
  PROVE  ViewInv'
<1>1. RunningIsOpen' /\ LeavingIsGone'
  BY DEF ViewInv, RunningIsOpen, LeavingIsGone
<1>2. ASSUME NEW s \in Sockets, NEW u \in Contacts[UserOf[s]] \ troubled' PROVE Follows(s, u)'
  <2>1. Follows(s, u)
    BY <1>2 DEF ViewInv, ViewFollows
  <2>2. Pending(u)' <=> Pending(u)
    BY DEF Pending, Announcing, SocketsOf
  <2>3. QED
    BY <2>1, <2>2 DEF Follows
<1>3. QED
  BY <1>1, <1>2 DEF ViewInv, ViewFollows

\* A step of the handlers of x, for the clients and the contacts it does not concern.
LEMMA ViewAside ==
  ASSUME NEW x \in Sockets, NEW s \in Sockets, NEW u \in Contacts[UserOf[s]] \ troubled',
         ViewInv, troubled \subseteq troubled',
         \A t \in Sockets \ {x} : conn'[t] = conn[t] /\ disc'[t] = disc[t] /\ sock'[t] = sock[t],
         UserOf[x] # u \/ ((Announcing(conn[x]) \/ Announcing(disc[x])) <=> (Announcing(conn'[x]) \/ Announcing(disc'[x]))),
         online'[u] = {} <=> online[u] = {}, view'[s][u] = view[s][u],
         s # x \/ UNCHANGED <<conn, sock>>
  PROVE  Follows(s, u)'
<1>1. Follows(s, u)
  BY DEF ViewInv, ViewFollows
<1>2. Pending(u)' <=> Pending(u)
  BY PendingSame
<1>3. conn'[s] = conn[s] /\ sock'[s] = sock[s]
  OBVIOUS
<1>4. QED
  BY <1>1, <1>2, <1>3 DEF Follows

\* What an event shows to a client.
LEMMA EmitShows ==
  ASSUME NEW targets, NEW us, NEW p, TypeOK, Emit(targets, us, p), NEW s \in Sockets, NEW u \in Users
  PROVE  view'[s][u] = IF s \in targets /\ sock[s] = "open" /\ u \in us THEN p ELSE view[s][u]
BY DEF Emit

\* An announcement reaches the registered clients of the contacts, and no other.
LEMMA AudienceHears ==
  ASSUME IInv, NEW s \in Sockets, NEW u \in Contacts[UserOf[s]], sock[s] = "open"
  PROVE  s \in Audience(u) <=> conn[s].pc # "lookup"
<1>1. UserOf[s] \in Contacts[u]
  BY ContactsAreMutual
<1>2. conn[s].pc # "idle" /\ (conn[s].pc = "lookup" => s \notin online[UserOf[s]])
  BY DEF IInv, HandlersFollow
<1>3. conn[s].pc # "lookup" => s \in online[UserOf[s]]
  BY <1>2 DEF IInv, RegisteredIsOnline
<1>4. QED
  BY <1>1, <1>2, <1>3 DEF Audience

\* A socket opens: nothing is shown to it yet.
LEMMA ConnectView ==
  ASSUME NEW x \in Sockets, IInv, ViewInv, Connect(x)
  PROVE  ViewInv'
<1>1. /\ Moves(conn, x, "lookup") /\ conn[x].pc = "idle"
      /\ sock' = [sock EXCEPT ![x] = "open"] /\ sock[x] = "new"
      /\ UNCHANGED <<online, view, disc>> /\ troubled \subseteq troubled'
  BY ConnMoves DEF Connect, IInv, HandlerPcs, HandlersFollow, NoteOverlap
<1>2. sock'[x] = "open" /\ \A t \in Sockets \ {x} : sock'[t] = sock[t]
  BY <1>1 DEF IInv, TypeOK
<1>3. RunningIsOpen' /\ LeavingIsGone'
  BY <1>1, <1>2 DEF ViewInv, RunningIsOpen, LeavingIsGone, Moves
<1>4. ASSUME NEW s \in Sockets, NEW u \in Contacts[UserOf[s]] \ troubled' PROVE Follows(s, u)'
  <2>1. CASE s = x
    <3>1. view'[s][u] = "blank" /\ conn'[s].pc = "lookup"
      BY <1>1, <1>4, <2>1 DEF ViewInv, ViewFollows, Follows, Moves
    <3>2. QED
      BY <3>1 DEF Follows
  <2>2. CASE s # x
    BY <1>1, <1>2, <1>4, <2>2, ViewAside DEF Moves, Announcing
  <2>3. QED
    BY <2>1, <2>2
<1>5. QED
  BY <1>3, <1>4 DEF ViewInv, ViewFollows

\* A refused socket has shown nothing.
LEMMA ConnRejectView ==
  ASSUME NEW x \in Sockets, IInv, ViewInv, ConnReject(x)
  PROVE  ViewInv'
<1>1. /\ Moves(conn, x, "idle") /\ conn[x].pc = "lookup"
      /\ UNCHANGED <<online, view, disc, troubled>>
  BY ConnMoves DEF ConnReject, IInv, HandlerPcs
<1>2. \A t \in Sockets \ {x} : sock'[t] = sock[t]
  BY DEF ConnReject, IInv, TypeOK
<1>3. RunningIsOpen' /\ LeavingIsGone'
  BY <1>1, <1>2 DEF ViewInv, RunningIsOpen, LeavingIsGone, Moves
<1>4. ASSUME NEW s \in Sockets, NEW u \in Contacts[UserOf[s]] \ troubled' PROVE Follows(s, u)'
  <2>1. CASE s = x
    <3>1. view'[s][u] = "blank" /\ conn'[s].pc = "idle"
      BY <1>1, <1>4, <2>1 DEF ViewInv, ViewFollows, Follows, Moves
    <3>2. QED
      BY <3>1 DEF Follows
  <2>2. CASE s # x
    BY <1>1, <1>2, <1>4, <2>2, ViewAside DEF Moves, Announcing
  <2>3. QED
    BY <2>1, <2>2
<1>5. QED
  BY <1>3, <1>4 DEF ViewInv, ViewFollows

\* A registered socket has shown nothing; if it is the user's first, the user has
\* something to announce.
LEMMA ConnRegisterView ==
  ASSUME NEW x \in Sockets, IInv, ViewInv, ConnRegister(x)
  PROVE  ViewInv'
<1> DEFINE w == UserOf[x]
           became == online[w] = {}
<1>1. /\ conn[x].pc = "lookup" /\ UNCHANGED <<sock, view, disc, troubled>>
      /\ online' = [online EXCEPT ![w] = @ \cup {x}]
      /\ conn' = [conn EXCEPT ![x] = [pc |-> IF became THEN "seen" ELSE "replay",
                                      at |-> IF became THEN clock[w] + 1 ELSE 0]]
  BY DEF ConnRegister
<1>2. /\ w \in Users /\ \A u \in Users \ {w} : online'[u] = online[u]
      /\ online'[w] # {}
  BY <1>1, UserOfAssumption DEF IInv, TypeOK
<1>3. conn'[x].pc = (IF became THEN "seen" ELSE "replay") /\ \A t \in Sockets \ {x} : conn'[t] = conn[t]
  BY <1>1 DEF IInv, TypeOK
<1> HIDE DEF w
<1>4. RunningIsOpen'
  BY <1>1, <1>3 DEF ViewInv, RunningIsOpen
<1>5. LeavingIsGone'
  <2>1. ASSUME NEW t \in Sockets, Running(disc[t]), UserOf[t] \notin troubled PROVE UserOf[t] # w
    BY <1>1, <2>1 DEF IInv, OneHandler, w
  <2>2. QED
    BY <1>1, <1>2, <2>1, UserOfAssumption DEF ViewInv, LeavingIsGone
<1>6. ASSUME NEW s \in Sockets, NEW u \in Contacts[UserOf[s]] \ troubled' PROVE Follows(s, u)'
  <2>1. u \in Users /\ Follows(s, u)
    BY <1>1, <1>6, ContactsAreMutual DEF ViewInv, ViewFollows
  <2>2. CASE s = x
    BY <1>1, <1>3, <2>1, <2>2 DEF Follows
  <2>3. CASE s # x /\ u # w
    BY <1>1, <1>2, <1>3, <1>6, <2>1, <2>3, ViewAside DEF w
  <2>4. CASE s # x /\ u = w /\ ~became
    <3>1. online[w] # {} /\ conn'[x].pc = "replay"
      BY <1>3, <2>4
    <3>2. QED
      BY <1>1, <1>2, <1>3, <1>6, <2>4, <3>1, ViewAside DEF w, Announcing
  <2>5. CASE s # x /\ u = w /\ became
    <3>1. Pending(u)'
      BY <1>3, <2>5 DEF Pending, Announcing, SocketsOf, w
    <3>2. QED
      BY <1>1, <1>3, <2>1, <2>5, <3>1 DEF Follows
  <2>6. QED
    BY <2>2, <2>3, <2>4, <2>5
<1>7. QED
  BY <1>4, <1>5, <1>6 DEF ViewInv, ViewFollows

\* last_seen_at is written: what was to be announced still is.
LEMMA SeenView ==
  ASSUME NEW x \in Sockets, IInv, ViewInv, ConnSeen(x) \/ DiscSeen(x)
  PROVE  ViewInv'
<1>1. /\ \/ Moves(conn, x, "contacts") /\ conn[x].pc = "seen" /\ disc' = disc
         \/ Moves(disc, x, "contacts") /\ disc[x].pc = "seen" /\ conn' = conn
      /\ UNCHANGED <<sock, online, view, troubled>>
  BY ConnMoves, DiscMoves DEF ConnSeen, DiscSeen, IInv, HandlerPcs
<1>2. RunningIsOpen' /\ LeavingIsGone'
  BY <1>1 DEF ViewInv, RunningIsOpen, LeavingIsGone, Moves
<1>3. ASSUME NEW s \in Sockets, NEW u \in Contacts[UserOf[s]] \ troubled' PROVE Follows(s, u)'
  <2>1. Follows(s, u)
    BY <1>1, <1>3 DEF ViewInv, ViewFollows
  <2>2. Pending(u)' <=> Pending(u)
    BY <1>1, PendingSame DEF Moves, Announcing
  <2>3. conn'[s].pc = conn[s].pc \/ (conn[s].pc = "seen" /\ conn'[s].pc = "contacts")
    BY <1>1 DEF Moves
  <2>4. QED
    BY <1>1, <2>1, <2>2, <2>3 DEF Follows
<1>4. QED
  BY <1>2, <1>3 DEF ViewInv, ViewFollows

\* The user who is announced as online is.
LEMMA ConnAnnounceView ==
  ASSUME NEW x \in Sockets, IInv, ViewInv, ConnAnnounce(x)
  PROVE  ViewInv'
<1> DEFINE w == UserOf[x]
<1>1. /\ Moves(conn, x, "replay") /\ conn[x].pc = "contacts"
      /\ UNCHANGED <<sock, online, disc, troubled>>
      /\ Emit(Audience(w), {w}, "online")
  BY ConnMoves DEF ConnAnnounce, IInv, HandlerPcs
<1>2. RunningIsOpen' /\ LeavingIsGone'
  BY <1>1 DEF ViewInv, RunningIsOpen, LeavingIsGone, Moves
<1>3. w \notin troubled => online[w] # {}
  <2>1. w \notin troubled => sock[x] = "open"
    BY <1>1 DEF ViewInv, RunningIsOpen
  <2>2. QED
    BY <1>1, <2>1 DEF IInv, RegisteredIsOnline
<1> HIDE DEF w
<1>4. ASSUME NEW s \in Sockets, NEW u \in Contacts[UserOf[s]] \ troubled' PROVE Follows(s, u)'
  <2>1. u \in Users /\ Follows(s, u)
    BY <1>1, <1>4, ContactsAreMutual DEF ViewInv, ViewFollows
  <2>2. view'[s][u] = IF s \in Audience(w) /\ sock[s] = "open" /\ u \in {w} THEN "online" ELSE view[s][u]
    BY <1>1, <2>1, EmitShows DEF IInv
  <2>3. conn'[s].pc = conn[s].pc \/ (conn[s].pc = "contacts" /\ conn'[s].pc = "replay")
    BY <1>1 DEF Moves
  <2>4. CASE u # w
    <3>1. Pending(u)' <=> Pending(u)
      BY <1>1, <2>4, PendingSame DEF Moves, w
    <3>2. view'[s][u] = view[s][u]
      BY <2>2, <2>4
    <3>3. QED
      BY <1>1, <2>1, <2>3, <3>1, <3>2 DEF Follows
  <2>5. CASE u = w
    <3>1. online[u] # {}
      BY <1>1, <1>3, <1>4, <2>5
    <3>2. CASE sock[s] = "open"
      <4>1. s \in Audience(w) <=> conn[s].pc # "lookup"
        BY <1>4, <2>5, <3>2, AudienceHears
      <4>2. CASE conn[s].pc # "lookup"
        <5>1. view'[s][u] = "online"
          BY <2>2, <2>5, <3>2, <4>1, <4>2
        <5>2. conn[s].pc # "idle"
          BY <3>2 DEF IInv, HandlersFollow
        <5>3. QED
          BY <1>1, <2>3, <3>1, <4>2, <5>1, <5>2 DEF Follows
      <4>3. CASE conn[s].pc = "lookup"
        <5>1. view'[s][u] = "blank" /\ conn'[s].pc = "lookup"
          BY <2>1, <2>2, <2>3, <4>1, <4>3 DEF Follows
        <5>2. QED
          BY <5>1 DEF Follows
      <4>4. QED
        BY <4>2, <4>3
    <3>3. CASE sock[s] # "open"
      <4>1. view'[s][u] = view[s][u]
        BY <2>2, <3>3
      <4>2. QED
        BY <1>1, <2>1, <2>3, <3>3, <4>1 DEF Follows
    <3>4. QED
      BY <3>2, <3>3
  <2>6. QED
    BY <2>4, <2>5
<1>5. QED
  BY <1>2, <1>4 DEF ViewInv, ViewFollows

\* The replay shows everybody online who is.
LEMMA ConnReplayView ==
  ASSUME NEW x \in Sockets, IInv, ViewInv, ConnReplay(x)
  PROVE  ViewInv'
<1> DEFINE us == {u \in Contacts[UserOf[x]] : online[u] # {}}
<1>1. /\ Moves(conn, x, "done") /\ conn[x].pc = "replay"
      /\ UNCHANGED <<sock, online, disc, troubled>>
      /\ Emit({x}, us, "online")
  BY ConnMoves DEF ConnReplay, IInv, HandlerPcs
<1>2. RunningIsOpen' /\ LeavingIsGone'
  BY <1>1 DEF ViewInv, RunningIsOpen, LeavingIsGone, Moves
<1>3. ASSUME NEW s \in Sockets, NEW u \in Contacts[UserOf[s]] \ troubled' PROVE Follows(s, u)'
  <2>1. u \in Users /\ Follows(s, u)
    BY <1>1, <1>3, ContactsAreMutual DEF ViewInv, ViewFollows
  <2> HIDE DEF us
  <2>2. view'[s][u] = IF s \in {x} /\ sock[s] = "open" /\ u \in us THEN "online" ELSE view[s][u]
    BY <1>1, <2>1, EmitShows DEF IInv
  <2>3. Pending(u)' <=> Pending(u)
    BY <1>1, PendingSame DEF Moves, Announcing
  <2>4. CASE s # x
    BY <1>1, <2>1, <2>2, <2>3, <2>4 DEF Follows, Moves
  <2>5. CASE s = x /\ sock[s] = "open"
    <3>1. view'[s][u] = IF online[u] # {} THEN "online" ELSE view[s][u]
      BY <1>3, <2>2, <2>5 DEF us
    <3>2. conn'[s].pc = "done"
      BY <1>1, <2>5 DEF Moves
    <3>3. QED
      BY <1>1, <2>1, <2>3, <3>1, <3>2 DEF Follows
  <2>6. CASE s = x /\ sock[s] # "open"
    <3>1. conn'[s].pc = "done"
      BY <1>1, <2>6 DEF Moves
    <3>2. QED
      BY <1>1, <2>6, <3>1 DEF Follows
  <2>7. QED
    BY <2>4, <2>5, <2>6
<1>4. QED
  BY <1>2, <1>3 DEF ViewInv, ViewFollows

\* A socket closes; if it was the user's last, the user has something to announce.
LEMMA CloseView ==
  ASSUME NEW x \in Sockets, IInv, ViewInv, Close(x)
  PROVE  ViewInv'
<1> DEFINE w == UserOf[x]
           rest == online[w] \ {x}
           last == x \in connected /\ online[w] # {} /\ rest = {}
<1>1. /\ sock' = [sock EXCEPT ![x] = "closed"] /\ UNCHANGED <<view, conn>>
      /\ troubled \subseteq troubled' /\ (Busy(w) => w \in troubled')
      /\ IF x \in connected THEN online' = [online EXCEPT ![w] = rest] ELSE online' = online
      /\ IF last THEN disc' = [disc EXCEPT ![x] = [pc |-> "seen", at |-> clock[w] + 1]] ELSE disc' = disc
  BY DEF Close, NoteOverlap
<1>2. sock'[x] = "closed" /\ \A t \in Sockets \ {x} : sock'[t] = sock[t]
  BY <1>1 DEF IInv, TypeOK
<1>3. /\ w \in Users /\ \A u \in Users \ {w} : online'[u] = online[u]
      /\ online'[w] = (IF x \in connected THEN rest ELSE online[w])
  BY <1>1, UserOfAssumption DEF IInv, TypeOK
<1>4. /\ \A t \in Sockets \ {x} : disc'[t] = disc[t]
      /\ last => disc'[x].pc = "seen"
      /\ ~last => disc' = disc
  BY <1>1 DEF IInv, TypeOK
<1> HIDE DEF w
<1>5. RunningIsOpen'
  <2>1. ASSUME NEW t \in Sockets, Running(conn[t]), UserOf[t] \notin troubled' PROVE sock'[t] = "open"
    <3>1. sock[t] = "open"
      BY <1>1, <2>1 DEF ViewInv, RunningIsOpen
    <3>2. t # x
      BY <1>1, <2>1 DEF Busy, SocketsOf, w
    <3>3. QED
      BY <1>2, <3>1, <3>2
  <2>2. QED
    BY <1>1, <2>1 DEF RunningIsOpen
<1>6. LeavingIsGone'
  <2>1. ASSUME NEW t \in Sockets, Running(disc'[t]), UserOf[t] \notin troubled' PROVE online'[UserOf[t]] = {}
    <3>1. CASE t = x /\ last
      BY <1>3, <3>1 DEF w
    <3>2. CASE ~(t = x /\ last)
      <4>1. disc'[t] = disc[t]
        BY <1>4, <3>2
      <4>2. online[UserOf[t]] = {}
        BY <1>1, <2>1, <4>1 DEF ViewInv, LeavingIsGone
      <4>3. QED
        BY <1>3, <4>2, UserOfAssumption
    <3>3. QED
      BY <3>1, <3>2
  <2>2. QED
    BY <2>1 DEF LeavingIsGone
<1>7. ASSUME NEW s \in Sockets, NEW u \in Contacts[UserOf[s]] \ troubled' PROVE Follows(s, u)'
  <2>1. u \in Users /\ Follows(s, u)
    BY <1>1, <1>7, ContactsAreMutual DEF ViewInv, ViewFollows
  <2>2. CASE s = x
    BY <1>1, <1>2, <2>1, <2>2 DEF Follows
  <2>3. CASE s # x /\ u # w
    <3>1. UserOf[x] # u /\ online'[u] = online[u] /\ view'[s][u] = view[s][u]
      BY <1>1, <1>3, <2>1, <2>3 DEF w
    <3>2. \A t \in Sockets \ {x} : conn'[t] = conn[t] /\ disc'[t] = disc[t] /\ sock'[t] = sock[t]
      BY <1>1, <1>2, <1>4
    <3>3. QED
      BY <1>1, <1>7, <2>3, <3>1, <3>2, ViewAside
  <2>4. CASE s # x /\ u = w /\ ~last
    <3>1. online'[u] = {} <=> online[u] = {}
      BY <1>3, <2>4
    <3>2. Pending(u)' <=> Pending(u)
      BY <1>1, <1>4, <2>4 DEF Pending, Announcing, SocketsOf
    <3>3. QED
      BY <1>1, <1>2, <2>1, <2>4, <3>1, <3>2 DEF Follows
  <2>5. CASE s # x /\ u = w /\ last
    <3>1. Pending(u)'
      BY <1>4, <2>5 DEF Pending, Announcing, SocketsOf, w
    <3>2. QED
      BY <1>1, <2>1, <3>1 DEF Follows
  <2>6. QED
    BY <2>2, <2>3, <2>4, <2>5
<1>8. QED
  BY <1>5, <1>6, <1>7 DEF ViewInv, ViewFollows

\* The user who is announced as offline has no socket.
LEMMA DiscAnnounceView ==
  ASSUME NEW x \in Sockets, IInv, ViewInv, DiscAnnounce(x)
  PROVE  ViewInv'
<1> DEFINE w == UserOf[x]
<1>1. /\ Moves(disc, x, "done") /\ disc[x].pc = "contacts"
      /\ UNCHANGED <<sock, online, conn, troubled>>
      /\ Emit(Audience(w), {w}, "offline")
  BY DiscMoves DEF DiscAnnounce, IInv, HandlerPcs
<1>2. RunningIsOpen' /\ LeavingIsGone'
  BY <1>1 DEF ViewInv, RunningIsOpen, LeavingIsGone, Moves
<1>3. w \notin troubled => online[w] = {}
  BY <1>1 DEF ViewInv, LeavingIsGone
<1> HIDE DEF w
<1>4. ASSUME NEW s \in Sockets, NEW u \in Contacts[UserOf[s]] \ troubled' PROVE Follows(s, u)'
  <2>1. u \in Users /\ Follows(s, u)
    BY <1>1, <1>4, ContactsAreMutual DEF ViewInv, ViewFollows
  <2>2. view'[s][u] = IF s \in Audience(w) /\ sock[s] = "open" /\ u \in {w} THEN "offline" ELSE view[s][u]
    BY <1>1, <2>1, EmitShows DEF IInv
  <2>3. CASE u # w
    <3>1. Pending(u)' <=> Pending(u)
      BY <1>1, <2>3, PendingSame DEF Moves, w
    <3>2. view'[s][u] = view[s][u]
      BY <2>2, <2>3
    <3>3. QED
      BY <1>1, <2>1, <3>1, <3>2 DEF Follows
  <2>4. CASE u = w
    <3>1. online[u] = {}
      BY <1>1, <1>3, <1>4, <2>4
    <3>2. CASE sock[s] = "open"
      <4>1. s \in Audience(w) <=> conn[s].pc # "lookup"
        BY <1>4, <2>4, <3>2, AudienceHears
      <4>2. CASE conn[s].pc # "lookup"
        <5>1. view'[s][u] = "offline"
          BY <2>2, <2>4, <3>2, <4>1, <4>2
        <5>2. conn[s].pc # "idle"
          BY <3>2 DEF IInv, HandlersFollow
        <5>3. QED
          BY <1>1, <3>1, <4>2, <5>1, <5>2 DEF Follows
      <4>3. CASE conn[s].pc = "lookup"
        <5>1. view'[s][u] = "blank"
          BY <2>1, <2>2, <4>1, <4>3 DEF Follows
        <5>2. QED
          BY <1>1, <4>3, <5>1 DEF Follows
      <4>4. QED
        BY <4>2, <4>3
    <3>3. CASE sock[s] # "open"
      <4>1. view'[s][u] = view[s][u]
        BY <2>2, <3>3
      <4>2. QED
        BY <1>1, <2>1, <3>3, <4>1 DEF Follows
    <3>4. QED
      BY <3>2, <3>3
  <2>5. QED
    BY <2>3, <2>4
<1>5. QED
  BY <1>2, <1>4 DEF ViewInv, ViewFollows

\* A failure is the trouble of the user whose handler it was, on both sides.
LEMMA HandlerFailsView ==
  ASSUME NEW x \in Sockets, IInv, ViewInv, HandlerFails(x)
  PROVE  ViewInv'
<1>1. /\ \/ /\ conn[x].pc \in {"seen", "contacts"} /\ Moves(conn, x, "replay") /\ disc' = disc
         \/ /\ conn[x].pc = "replay" /\ Moves(conn, x, "done") /\ disc' = disc
         \/ /\ disc[x].pc \in {"seen", "contacts"} /\ Moves(disc, x, "done") /\ conn' = conn
      /\ troubled' = troubled \cup {UserOf[x]} /\ UNCHANGED <<sock, online, view>>
  BY ConnMoves, DiscMoves DEF HandlerFails, IInv, HandlerPcs
<1>2. RunningIsOpen' /\ LeavingIsGone'
  BY <1>1 DEF ViewInv, RunningIsOpen, LeavingIsGone, Moves
<1>3. ASSUME NEW s \in Sockets, NEW u \in Contacts[UserOf[s]] \ troubled' PROVE Follows(s, u)'
  <2>1. Follows(s, u) /\ u # UserOf[x]
    BY <1>1, <1>3 DEF ViewInv, ViewFollows
  <2>2. Pending(u)' <=> Pending(u)
    BY <1>1, <2>1, PendingSame DEF Moves
  <2>3. conn'[s] = conn[s] \/ (s = x /\ conn'[s].pc \notin {"idle", "lookup"})
    BY <1>1 DEF Moves
  <2>4. QED
    BY <1>1, <2>1, <2>2, <2>3 DEF Follows
<1>4. QED
  BY <1>2, <1>3 DEF ViewInv, ViewFollows

\* Every step keeps what the clients show in line with the maps.
LEMMA NextView == IInv /\ ViewInv /\ [Next]_vars => ViewInv'
<1> SUFFICES ASSUME IInv, ViewInv, [Next]_vars PROVE ViewInv'
  OBVIOUS
<1>1. CASE UNCHANGED vars
  BY <1>1, ViewQuiet DEF vars
<1>2. ASSUME NEW s \in Sockets, JoinResolve(s) \/ JoinChat(s) PROVE ViewInv'
  BY <1>2, ViewQuiet DEF JoinResolve, JoinChat
<1>3. ASSUME NEW s \in Sockets, NEW k \in Chats, JoinBegin(s, k) \/ Leave(s, k) PROVE ViewInv'
  BY <1>3, ViewQuiet DEF JoinBegin, Leave
<1>4. QED
  BY <1>1, <1>2, <1>3, ConnectView, ConnRejectView, ConnRegisterView, SeenView, ConnAnnounceView,
     ConnReplayView, CloseView, DiscAnnounceView, HandlerFailsView
  DEF Next

\* Replay and broadcast leave no gap between them: a client whose contact has no
\* handler in flight shows it as online exactly when it is.
THEOREM ViewsSettle == Spec => []SettledView
<1>1. Init => ViewInv
  BY ContactsAssumption, UserOfAssumption
  DEF Init, Idle, ViewInv, RunningIsOpen, LeavingIsGone, ViewFollows, Follows
<1>2. ViewInv => SettledView
  BY ContactsAssumption, UserOfAssumption
  DEF ViewInv, ViewFollows, Follows, SettledView, Pending, Announcing, Busy
<1>3. QED
  BY <1>1, <1>2, InductiveInvariant, NextView, PTL DEF Spec
=============================================================================
