--------------------------- MODULE SessionSocket ---------------------------
(* The socket of a session: SocketProvider, which makes one per token and   *)
(* hands it down as a context, and useChatSocket, which joins the chat on   *)
(* the screen through the socket it was handed.  The context is made anew   *)
(* only when the connection flags change, not when the socket does.  How    *)
(* joins and leaves overtake each other on the server is in ChatPage.       *)
EXTENDS Naturals

CONSTANTS Chats, NoChat,
          MaxSockets,   \* bound on the sockets of one tab
          Attempts      \* RECONNECTION_ATTEMPTS

VARIABLES session,  \* socketRef.current, numbered; NoSocket when signed out
          made,     \* sockets made so far
          link,     \* what the current socket does
          tries,    \* attempts that failed in a row
          flags,    \* the provider's isConnected and hasError
          context,  \* the socket that was handed down
          screen,   \* the chat whose window is mounted
          active,   \* activeChatId of the chat store
          room      \* server: the rooms of the current socket

vars == <<session, made, link, tries, flags, context, screen, active, room>>

NoSocket == 0

Init ==
  /\ session = NoSocket /\ made = 0 /\ link = "none" /\ tries = 0
  /\ flags = [isConnected |-> FALSE, hasError |-> FALSE]
  /\ context = NoSocket
  /\ screen = NoChat /\ active = NoChat /\ room = {}

\* useMemo, after the flags have become f and the current socket s.
Context(f, s) == IF f # flags THEN s ELSE context

\* The effect of useChatSocket when it is handed socket s under chat c: it
\* cleans up after the earlier two, if there were, and joins. Of the rooms, the
\* current socket has r by then.
ChatSocket(s, c, r) ==
  LET mounted == context # NoSocket /\ screen # NoChat
      mounts  == s # NoSocket /\ c # NoChat
      leaves  == mounted /\ context = session' /\ link' = "open"
      joins   == mounts /\ s = session' /\ link' = "open"
  IN  /\ context' = s /\ screen' = c
      /\ IF s = context /\ c = screen
         THEN active' = active /\ room' = r
         ELSE /\ active' = IF mounts THEN c ELSE IF mounted THEN NoChat ELSE active
              /\ room' = (IF leaves THEN r \ {screen} ELSE r) \cup (IF joins THEN {c} ELSE {})

\* Mutant: the cleanup leaves isConnected as it was.
Cleaned_Kept(f) == f

\* The flags after the cleanup of the provider's effect: the error stays.
Cleaned(f) == [f EXCEPT !.isConnected = FALSE]

\* The token is set, or replaced by another: the old socket is disconnected.
SignIn ==
  /\ made < MaxSockets
  /\ made' = made + 1 /\ session' = made + 1
  /\ link' = "connecting" /\ tries' = 0
  /\ flags' = Cleaned(flags)
  /\ ChatSocket(Context(flags', session'), screen, {})

SignOut ==
  /\ session # NoSocket
  /\ session' = NoSocket /\ link' = "none" /\ tries' = 0
  /\ flags' = Cleaned(flags)
  /\ ChatSocket(Context(flags', NoSocket), screen, {})
  /\ UNCHANGED made

\* onConnect, and onConnectRetry if the chat waits on this very socket.
Connect ==
  /\ link = "connecting"
  /\ link' = "open" /\ tries' = 0
  /\ flags' = [isConnected |-> TRUE, hasError |-> FALSE]
  /\ UNCHANGED <<session, made>>
  /\ ChatSocket(Context(flags', session), screen,
                IF context = session /\ screen # NoChat THEN {screen} ELSE {})

\* onConnectError. After the last attempt the manager gives up.
ConnectError ==
  /\ link = "connecting"
  /\ tries' = tries + 1
  /\ link' = IF tries < Attempts THEN "connecting" ELSE "ended"
  /\ flags' = [isConnected |-> FALSE, hasError |-> TRUE]
  /\ UNCHANGED <<session, made>>
  /\ ChatSocket(Context(flags', session), screen, {})

\* onDisconnect. A lost connection is tried again, but not one that the server
\* has ended: handleConnection turns away a token, or fails to look it up.
Disconnect ==
  /\ link = "open"
  /\ link' \in {"connecting", "ended"} /\ tries' = 0
  /\ flags' = [flags EXCEPT !.isConnected = FALSE]
  /\ UNCHANGED <<session, made>>
  /\ ChatSocket(Context(flags', session), screen, {})

\* A chat window is mounted, changed or unmounted.
Show(c) ==
  /\ c # screen /\ (c # NoChat => session # NoSocket)
  /\ UNCHANGED <<session, made, link, tries, flags>>
  /\ ChatSocket(context, c, room)

Next ==
  \/ SignIn \/ SignOut
  \/ Connect \/ ConnectError \/ Disconnect
  \/ \E c \in Chats \cup {NoChat} : Show(c)

Spec == Init /\ [][Next]_vars

-----------------------------------------------------------------------------
\* Whichever of sign-in, connection, reconnection and navigation came first, and
\* whatever socket was handed down before, a connected tab has joined the chat on
\* its screen and no other, and knows it as the active one (useChatSocket).
ChatIsJoined ==
  link = "open" =>
    room = (IF screen = NoChat THEN {} ELSE {screen}) /\ active = screen
=============================================================================
