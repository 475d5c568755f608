SPECIFICATION Spec
CONSTANTS
  Requests = {r1, r2, r3, r4}
  MaxTime = 3
  MaxOverlaps = 1
  Lives <- MCLives
  Timeouts <- MCTimeouts
  Deployments <- MCDeployments
SYMMETRY MCSymmetry
INVARIANTS
  TypeOK
  SessionKept
  SuccessIsAuthenticated
  ExpiredForGood
CHECK_DEADLOCK FALSE
