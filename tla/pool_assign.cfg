SPECIFICATION Spec
CONSTANTS
  u1 = u1
  u2 = u2
  c1 = c1
  c2 = c2
  NoUser = NoUser
  Users = {u1, u2}
  Callers = {c1, c2}
  InitPool = 2
  MaxPool = 2
  MaxClock = 1
  MaxTrouble = 1
SYMMETRY Symmetry
INVARIANTS
  TypeOK
  AttributionKept
  KeyOnDisk
  Consolidated
PROPERTIES
  BookSpec
