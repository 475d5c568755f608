SPECIFICATION Spec
CONSTANTS
  Requests = {r1, r2}
  ItemNames <- MCItemNames
  Bodies <- MCBodies
  Stores <- MCStores
  Policies = {"none", "override", "binary"}
  Scalars = {v1, Absent, Falsy}
  Absent = Absent
  Falsy = Falsy
  Empty = Empty
  Mixed = Mixed
  NoData = NoData
  NotFound = NotFound
  v1 = v1
  p1 = p1
  MaxFailures = 1
SYMMETRY MCSymmetry
INVARIANTS
  TypeOK
  FileWhole
  ReadsRight
  NoLostUpdate
  AnsweredOnce
CHECK_DEADLOCK FALSE
