CONSTANTS
  CPUs = {p1, p2}
  NoCPU = NoCPU
  EaxValues = {"other"}
SPECIFICATION TrySpec
INVARIANT MutualExclusion
