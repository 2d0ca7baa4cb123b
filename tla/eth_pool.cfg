SPECIFICATION Spec
CONSTANTS
  u1 = u1
  u2 = u2
  u3 = u3
  c1 = c1
  c2 = c2
  NoUser = NoUser
  Users = {u1, u2, u3}
  Callers = {c1, c2}
  Addrs = {1, 2, 3}
  InitPool = 1
  MaxPool = 2
  MaxTrouble = 1
SYMMETRY Symmetry
INVARIANTS
  TypeOK
  AttributionKept
  KeyOnDisk
  SameAddress
PROPERTIES
  BookSpec
