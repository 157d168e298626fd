SPECIFICATION Spec
CONSTANTS
  i1 = i1
  i2 = i2
  i3 = i3
  Instances = {i1, i2, i3}
  Hosts = {"a", "b"}
  Host <- TwoHosts
  Nobody = Nobody
  TTL = 3
  JobTicks = 2
  Outages = {"acquire", "release"}
INVARIANTS MutualExclusion
