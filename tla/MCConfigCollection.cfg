SPECIFICATION Spec
CONSTANTS
  Requests = {r1}
  ItemNames <- MCItemNames
  Bodies <- MCBodies
  Stores <- MCStores
  Policies = {"override"}
  Scalars = {v1, Absent, Falsy}
  Absent = Absent
  Falsy = Falsy
  Empty = Empty
  Mixed = Mixed
  NoData = NoData
  NotFound = NotFound
  v1 = v1
  p1 = p1
  MaxFailures = 0
INVARIANT
  CollectionAggregated
CHECK_DEADLOCK FALSE
