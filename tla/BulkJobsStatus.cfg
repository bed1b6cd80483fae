SPECIFICATION Spec
CONSTANTS
  r1 = r1
  r2 = r2
  w1 = w1
  w2 = w2
  Requests = {r1}
  Workers = {w1}
  MaxJobs = 2
  MaxTries = 2
  Total = 2
  JobTimeout = 2
  LockTtl = 3
  StaleAfter = 2
  MaxStops = 0
  Outages = FALSE
INVARIANTS
  FailedJobsTold
