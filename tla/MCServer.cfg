CONSTANTS
  Paths = {p1, p2}
  Sources = {s1, s2}
  Clients = {c1, c2}
  MaxFaults = 3
SPECIFICATION Spec
SYMMETRY Symmetry
CHECK_DEADLOCK FALSE
INVARIANT
  NoDanglingFile
PROPERTIES
  MakeSeesEveryFile
  KoChangesNothing
  AckedStays
  OkIsRegistered
