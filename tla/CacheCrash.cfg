SPECIFICATION Spec
CONSTANTS
  Pools = {p1, p2}
  Items = {i1, i2, i3}
  TargetSize = 2
  MaxFaults = 1
  MaxCrashes = 1
SYMMETRY Symmetry
INVARIANTS
  
  HandedOutOnce
  GoneBeforeUse
  
CHECK_DEADLOCK FALSE
