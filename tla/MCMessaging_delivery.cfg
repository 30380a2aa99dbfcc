\* Two overlapping sends of one upload, which may be deleted; no statement fails.
CONSTANTS
  a = a
  b = b
  s1 = s1
  s2 = s2
  f = f
  None = None
  Users = {a, b}
  Senders = {s1, s2}
  Readers = {}
  Requests <- OneRequest
  Quitters = {}
  Attachments = {f}
  Disposable = {f}
  Owner <- OwnedByA
  Faults = FALSE
  MaxMessages = 2
SPECIFICATION FairSpec
PROPERTY StoredIsAnnounced
