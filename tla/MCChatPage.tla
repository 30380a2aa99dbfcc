----------------------------- MODULE MCChatPage -----------------------------
EXTENDS ChatPage

CONSTANTS home, work

TwoChats == {home, work}

\* Three messages of long ago: more than a page, so that older ones can be asked
\* for.
ThreeAtHome == <<home, home, home>>
=============================================================================
