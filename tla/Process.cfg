CONSTANTS
  CPUs = {p1, p2, p3}
  NoCPU = NoCPU
  EaxValues = {}
  Objects = {o1, o2, o3}
  Arrays = {a1, a2}
  NoArray = NoArray
  Pages = {g1}
  UidLimit = 3
  MaxIssued = 2
  MaxThreads = 2
SPECIFICATION ProcFairSpec
INVARIANT ProcTypeOK
INVARIANT UidsUnique
INVARIANT ArraysOwned
PROPERTY ImplementsMutex
PROPERTY SomeWaiterEnters
CHECK_DEADLOCK FALSE
