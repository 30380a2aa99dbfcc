\* Two users, one of whom may leave, and three overlapping calls.
CONSTANTS
  a = a
  b = b
  w1 = w1
  w2 = w2
  w3 = w3
  None = None
  Users = {a, b}
  Quitters = {b}
  Workers = {w1, w2, w3}
SPECIFICATION Spec
SYMMETRY WorkerSymmetry
INVARIANT NoWaitCycle
INVARIANT AcceptedHasChat
PROPERTY OnlyReceiverAnswers
PROPERTY RefinesRelationship
