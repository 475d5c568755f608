\* Resizing: five load votes are what growing, shrinking and growing again
\* takes from one worker; one reload kills the workers at any point.
CONSTANTS
  MinWorkers = 1
  MaxWorkers = 2
  WorkerChangeDecisionDelay = 1
  Plugin = {}
  MaxReports = 5
  MaxFailures = 0
  MaxReloads = 1
  MaxSubmissions = 0
SPECIFICATION Spec
CHECK_DEADLOCK FALSE
INVARIANTS
  TypeOK
  PoolWithinLimits
  ClosedSlotHasNoWorker
  OneWorkerPerSlot
PROPERTIES
  ResizeNeedsUnanimousWindow
  NoRestartWhileStopping
