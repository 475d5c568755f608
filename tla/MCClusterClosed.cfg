\* The same as MCClusterPool without failures: a worker closed by lessWorker.
CONSTANTS
  MinWorkers = 1
  MaxWorkers = 2
  WorkerChangeDecisionDelay = 1
  Plugin = {}
  MaxReports = 5
  MaxFailures = 0
  MaxReloads = 0
  MaxSubmissions = 0
SPECIFICATION FairSpec
CHECK_DEADLOCK FALSE
PROPERTIES
  LegallyClosedNotRestarted
