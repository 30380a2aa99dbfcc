\* A send and two overlapping mark-reads; statements fail, the counterpart leaves.
CONSTANTS
  a = a
  b = b
  s1 = s1
  r1 = r1
  r2 = r2
  f = f
  None = None
  Users = {a, b}
  Senders = {s1}
  Readers = {r1, r2}
  Requests <- OneRequest
  Quitters = {b}
  Attachments = {f}
  Disposable = {}
  Owner <- OwnedByA
  Faults = TRUE
  MaxMessages = 2
SPECIFICATION Spec
SYMMETRY WorkerSymmetry
 
INVARIANT EventsFollowRows
PROPERTY ReadStampIsFinal
