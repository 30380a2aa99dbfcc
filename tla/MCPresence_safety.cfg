\* Two devices of one user and a contact, any statement may fail; every socket opens and closes once, so the system stops.
CONSTANTS
  ua = ua
  ub = ub
  uc = uc
  sa1 = sa1
  sa2 = sa2
  sb = sb
  Users = {ua, ub, uc}
  Sockets = {sa1, sa2, sb}
  UserOf <- OwnerOf
  Contacts <- Friends
  Chats <- ChatsOfA
  Joining = {sb}
  Faults = TRUE
SYMMETRY DeviceSymmetry
SPECIFICATION Spec
INVARIANT OnlineIsConnected
 
 
CHECK_DEADLOCK FALSE
