CONSTANTS
  j1 = j1
  j2 = j2
  j3 = j3
  u1 = u1
  u2 = u2
  f1 = f1
  f2 = f2
  w1 = w1
  w2 = w2
  Files = {f1}
  Jobs = {j1, j2}
  Users = {u1, u2}
  Workers = {w1, w2}
  Requests <- TwoUserRequests
  CapChoices = {1}
  CleanupChoices = {TRUE}
  LlmChoices = {TRUE}
  MaxJobs = 1
  MaxCrashes = 0
  NoJob = NoJob
  NoRequest = NoRequest
SPECIFICATION Spec
PROPERTIES
  IndexingNotJobCritical
CHECK_DEADLOCK FALSE
