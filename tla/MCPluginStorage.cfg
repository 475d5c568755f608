SPECIFICATION Spec
CONSTANTS
  Worker = {w1, w2}
  Key = {k1, k2}
  Value = {v1, v2}
  Falsy = {}
  NoValue = NoValue
  Cluster = Cluster
  Ha = Ha
  Operation <- MCOperation
  k1 = k1
  k2 = k2
  v1 = v1
  v2 = v2
  MaxCalls = 2
  MaxFaults = 1
SYMMETRY MCSymmetry
INVARIANTS
  TypeOK
  SetAllNeverMixes
PROPERTIES
  ImplementsService
CHECK_DEADLOCK FALSE
