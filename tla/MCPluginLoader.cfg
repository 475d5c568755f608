SPECIFICATION Spec
CONSTANTS
  Plugins <- MCPlugins
  Cases <- MCCases
INVARIANTS
  TypeOK
  InstalledOnce
  RegisteredIsListed
  RefreshAnswered
PROPERTIES
  ResolvedRight
  ProvidersFirst
CHECK_DEADLOCK FALSE
