SPECIFICATION FairSpec
CONSTANTS
  r1 = r1
  r2 = r2
  r3 = r3
  q1 = q1
  q2 = q2
  q3 = q3
  Requests <- MCRequests2
  Runners <- MCRunners2
  Backends = {"llamacpp"}
  Models = {"m1"}
  Drafts = {}
  NoDraft = "nodraft"
  Targets <- MCTargetsConfig
  NSlots = 1
  Configs <- MCConfigsEager
  NoConfig = NoConfig
  AnyBackend = "any"
  DefaultTimeout = 1
  MaxAge = 2
  RefMod = 3
  NoKey = NoKey
  NoRunner = NoRunner
  NoProc = NoProc
  AfterReturn = "done"
PROPERTIES
  EveryRequestReturns
  DrainEnds
  IdleEvicted
  PoolSpec
