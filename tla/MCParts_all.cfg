CONSTANTS
  Tabs = {t1, t2}
  Pictures = {p1, p2, p3}
  NoPicture = NoPicture
  Users = {u1, u2}
  Limit <- OnePerWindow
  Nobody = Nobody
  NoCode = NoCode
  Texts = {x, y}
  Files = {f, g}
  Blank = Blank
  NoFile = NoFile
  Latest = 1
  First = 3
  Avatar = Avatar
  Closed = Closed
  Chats = {c1, c2}
  Messages = {m1, m2, m3, m4}
  Shown = 3
  NoChat = NoChat
  Queries <- SearchTexts
  Nowhere = Nowhere
  Directory <- People
  MaxEdits = 3
  Self = u1
  MaxEvents = 2
  MaxMessages = 2
  MaxNudges = 1
  Media <- PlainMedia
  Damage = {0, 1, 15, 127}
  ImageMin = 100
  ImageMax = 5000
  MaxSeconds = 3
  MaxSockets = 3
  Attempts = 1
SPECIFICATION Spec
CHECK_DEADLOCK FALSE
INVARIANTS
  AvatarIsServed
  EnvelopeNamesCause
  DraftIsOwed
  ShownIsCurrent
  
  BadgeCoversPreview
  AnsweredIsSettled
  ChatIsJoined
PROPERTIES
  
  PreviewNeverRegresses
  
  SettlesOnText
  ListSettles
