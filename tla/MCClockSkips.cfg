SPECIFICATION FairSpec
CONSTANTS
  Punches = {1, 2}
  Keys = {"n1", "n2"}
  Key <- OwnKey
  Ticks = {1}
  MaxTime = 4
  MaxFaults = 0
INVARIANTS NoPunchSkipped
