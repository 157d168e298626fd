SPECIFICATION Spec
CONSTANTS
  Workers = {w1, w2}
  Records = {1, 2, 3}
  Hashes = {"h1", "h3"}
  Devices = {"d1", "d2"}
  Hash <- TwinHash
  Device <- ThreeDevice
  Malformed = {}
  Poison = {3}
  EnqueueBatch = 2
  WorkerBatch = 2
  BackpressureLimit = 1
  MaxAttempts = 2
  Throttled = TRUE
  Pausable = TRUE
  ExclusiveLock = TRUE
  JobIds = {j1, j2}
  MaxFaults = 1
  FailureThreshold = 50
  MinRequests = 1
  MaxCalls = 1
SYMMETRY WorkerSymmetry
INVARIANTS TypeOK AttemptsBounded NoLostPunch DoneMeansSynced DeliveryInv OneHandPerJob
PROPERTIES DeliversPunches DoneIsFinal
