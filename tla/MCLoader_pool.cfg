SPECIFICATION Spec
CONSTANTS
  r1 = r1
  r2 = r2
  r3 = r3
  q1 = q1
  q2 = q2
  q3 = q3
  Requests <- MCRequests3
  Runners <- MCRunners2
  Backends = {"llamacpp"}
  Models = {"m1"}
  Drafts = {}
  NoDraft = "nodraft"
  Targets <- MCTargetsPool
  NSlots = 2
  Configs <- MCNoConfigs
  NoConfig = NoConfig
  AnyBackend = "any"
  DefaultTimeout = 0
  MaxAge = 1
  RefMod = 4
  NoKey = NoKey
  NoRunner = NoRunner
  NoProc = NoProc
  AfterReturn = "idle"
SYMMETRY Symmetry3
INVARIANTS
  RefCount
  LeaseKept
  RightModelAnswers
  NoLostWakeup
