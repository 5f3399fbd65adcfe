SPECIFICATION Spec
CONSTANTS
  Clients = {c1, c2}
  c1 = c1
  c2 = c2
  Loads <- MCLoads
  NONE = NONE
SYMMETRY Symmetry
INVARIANTS UpdatesAccumulate LineageIsTheClosure AncestryIsWhole
CHECK_DEADLOCK FALSE
