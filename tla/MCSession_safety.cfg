\* Two accounts and two tokens on one tab.
CONSTANTS
  a = a
  b = b
  t1 = t1
  t2 = t2
  None = None
  MaxSent = 1
  Users = {a, b}
  Tokens = {t1, t2}
  Owner <- Signers
SPECIFICATION FairSpec
INVARIANT NoFlash
INVARIANT CacheIsTheirs
 
PROPERTY GuardNeverHangs
