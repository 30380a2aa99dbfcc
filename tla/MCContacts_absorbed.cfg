\* Two overlapping calls: crossing accepts of both directions.
CONSTANTS
  a = a
  b = b
  w1 = w1
  w2 = w2
  None = None
  Users = {a, b}
  Quitters = {b}
  Workers = {w1, w2}
SPECIFICATION Spec
PROPERTY AbsorbedRaceStillCommits
