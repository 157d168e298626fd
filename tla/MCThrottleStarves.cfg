SPECIFICATION FairSpec
CONSTANTS
  Punches = {1, 2, 3, 4}
  Employees = {"e1"}
  Employee <- OneEmployee
  Malformed = {}
  EnqueueBatch = 4
  WindowTicks = 3
  DeviceMax = 2
  FloodMax = 4
  Outages = FALSE
PROPERTIES ThrottledNotStarved
