\* One call at a time: two accounts that compete for one username.
CONSTANTS
  a = a
  b = b
  w1 = w1
  n = n
  None = None
  Accounts = {a, b}
  Workers = {w1}
  Names = {n}
  MaxTokens = 3
  Faults = FALSE
  Updates <- ClaimFillOrClear
SPECIFICATION Spec
PROPERTY FollowsLife
INVARIANT TokenIsMailed
