CONSTANTS
  s1 = s1
  s2 = s2
  s3 = s3
  w1 = w1
  w2 = w2
  r1 = r1
  r2 = r2
  Sid = {s1, s2, s3}
  Worker = {w1, w2}
  Request = {r1, r2}
  StoredSessionsLimit = 1
  DefaultMaxAge2 = 0
  MaxTime = 0
  MaxTimeouts = 1
  MaxCrashes = 1
SPECIFICATION FairSpec
CHECK_DEADLOCK FALSE
PROPERTY
  EveryRequestEnds
