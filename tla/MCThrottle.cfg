SPECIFICATION FairSpec
CONSTANTS
  Punches = {1, 2, 3, 4}
  Employees = {"e1", "e2"}
  Employee <- TwoEmployees
  Malformed = {1}
  EnqueueBatch = 3
  WindowTicks = 3
  DeviceMax = 7
  FloodMax = 5
  Outages = TRUE
INVARIANTS TypeOK AdmissionsBounded
PROPERTIES EventuallyDelivered
