CONSTANTS
  j1 = j1
  j2 = j2
  j3 = j3
  u1 = u1
  u2 = u2
  f1 = f1
  f2 = f2
  w1 = w1
  w2 = w2
  Files = {f1, f2}
  Jobs = {j1, j2}
  Users = {u1, u2}
  Workers = {w1, w2}
  Requests <- OneUserRequests
  CapChoices = {1, 2}
  CleanupChoices = {TRUE}
  LlmChoices = {TRUE, FALSE}
  MaxJobs = 1
  MaxCrashes = 1
  NoJob = NoJob
  NoRequest = NoRequest
  s1 = s1
  s2 = s2
  b1 = b1
  old = old
  Threads <- MCSessions
  Bodies = {b1}
  MaxVersion = 2
  Legacy = {old}
  NoKey = NoKey
  NoRow = NoRow
  NoBody = NoBody
  Unlocked = Unlocked
  NoCreds = NoCreds
SPECIFICATION MCSpec
SYMMETRY BackendSymmetry
INVARIANTS
  QueueSound
  NoPendingJobLost
  RunningHasOneWorker
  ReservationsExact
  InputNotEvicted
  CipherReadable
  CacheCoherent
  OneFirstUser
PROPERTIES
  OneWayLife
  CredentialsKept
CHECK_DEADLOCK FALSE
