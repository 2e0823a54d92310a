CONSTANTS
  j1 = j1
  j2 = j2
  j3 = j3
  u1 = u1
  u2 = u2
  f1 = f1
  f2 = f2
  w1 = w1
  w2 = w2
  Files = {f1, f2}
  Jobs = {j1, j2}
  Users = {u1, u2}
  Workers = {w1, w2}
  Requests <- CappedRequests
  CapChoices = {1}
  CleanupChoices = {TRUE}
  LlmChoices = {TRUE}
  MaxJobs = 1
  MaxCrashes = 1
  NoJob = NoJob
  NoRequest = NoRequest
SPECIFICATION FairSpec
PROPERTIES
  AcceptedJobFinishes
CHECK_DEADLOCK FALSE
