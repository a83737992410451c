SPECIFICATION Spec
CONSTANTS
  r1 = r1
  r2 = r2
  r3 = r3
  q1 = q1
  q2 = q2
  q3 = q3
  Requests <- MCRequests2
  Runners <- MCRunners2
  Backends = {"llamacpp"}
  Models = {"m1"}
  Drafts = {}
  NoDraft = "nodraft"
  Targets <- MCTargetsConfig
  NSlots = 2
  Configs <- MCConfigsNever
  NoConfig = NoConfig
  AnyBackend = "any"
  DefaultTimeout = 0
  MaxAge = 1
  RefMod = 3
  NoKey = NoKey
  NoRunner = NoRunner
  NoProc = NoProc
  AfterReturn = "idle"
SYMMETRY Symmetry2
INVARIANTS
  IdleWatched
