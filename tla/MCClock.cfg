SPECIFICATION FairSpec
CONSTANTS
  Punches = {1, 2, 3}
  Keys = {"n1", "n2"}
  Key <- ResetKey
  Ticks = {1, 2}
  MaxTime = 3
  MaxFaults = 1
INVARIANTS TypeOK OnlyGapsSkip
PROPERTIES EventuallyCollected
