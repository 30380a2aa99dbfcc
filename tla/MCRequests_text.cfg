CONSTANTS
  Users = {u1, u2}
  Limit <- OnePerWindow
  Nobody = Nobody
  NoCode = NoCode
SPECIFICATION Spec
INVARIANT TextNamesCause
