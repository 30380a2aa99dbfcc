CONSTANTS
  home = home
  work = work
  Chats <- TwoChats
  OldRows <- ThreeAtHome
  NoChat = NoChat
  PageSize = 2
  MaxNew = 1
  MaxOpens = 2
  MaxMarks = 1
  MaxFaults = 1
SPECIFICATION Spec
INVARIANTS NoDuplicates  NothingElseIsLost
CHECK_DEADLOCK FALSE
