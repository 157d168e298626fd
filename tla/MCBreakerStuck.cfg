SPECIFICATION FairSpec
CONSTANTS
  Workers = {w1}
  Records = {1, 2}
  Hashes = {"h1", "h2"}
  Devices = {"d1"}
  Hash <- PairHash
  Device <- PairDevice
  Malformed = {}
  Poison = {}
  EnqueueBatch = 2
  WorkerBatch = 3
  BackpressureLimit = 1
  MaxAttempts = 3
  Throttled = FALSE
  Pausable = FALSE
  ExclusiveLock = TRUE
  JobIds = {j1, j2, j3}
  MaxFaults = 1
  FailureThreshold = 50
  MinRequests = 1
  MaxCalls = 1
PROPERTIES BreakerRecovers
