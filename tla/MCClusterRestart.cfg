\* Two failures and a dynamic plugin in a pool of two.
CONSTANTS
  x1 = x1
  MinWorkers = 2
  MaxWorkers = 2
  WorkerChangeDecisionDelay = 1
  Plugin = {x1}
  MaxReports = 0
  MaxFailures = 2
  MaxReloads = 0
  MaxSubmissions = 1
SPECIFICATION FairSpec
CHECK_DEADLOCK FALSE
INVARIANTS
  RememberedPluginsReachWorkers
PROPERTIES
  FailedWorkerReplaced
  PluginsInstalledEverywhere
