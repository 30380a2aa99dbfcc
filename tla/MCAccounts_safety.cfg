\* Two overlapping calls over two accounts that compete for one username.
CONSTANTS
  a = a
  b = b
  w1 = w1
  w2 = w2
  n = n
  None = None
  Accounts = {a, b}
  Workers = {w1, w2}
  Names = {n}
  MaxTokens = 2
  Faults = TRUE
  Updates <- ClaimOrFill
SPECIFICATION Spec
SYMMETRY WorkerSymmetry
INVARIANT NamesAreUnique
INVARIANT VerifiedByMail
