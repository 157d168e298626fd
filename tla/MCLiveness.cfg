SPECIFICATION FairSpec
CONSTANTS
  Workers = {w1}
  Records = {1, 2, 3}
  Hashes = {"h1", "h2", "h3"}
  Devices = {"d1", "d2"}
  Hash <- ThreeHash
  Device <- ThreeDevice
  Malformed = {1}
  Poison = {}
  EnqueueBatch = 2
  WorkerBatch = 1
  BackpressureLimit = 1
  MaxAttempts = 3
  Throttled = FALSE
  Pausable = FALSE
  ExclusiveLock = TRUE
  JobIds = {j1, j2}
  MaxFaults = 1
  FailureThreshold = 100
  MinRequests = 2
  MaxCalls = 2
PROPERTIES EventuallySynced EventuallyPromoted LockComesBack
