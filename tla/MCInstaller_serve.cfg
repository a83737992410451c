SPECIFICATION FairSpec
CONSTANTS
  Backends <- MCBackends
  Deferred <- OnDemand
  Lenient <- LlamaCpp
  Callers = {c1, c2}
  InstallOf <- Vllm
  UninstallOf <- Vllm
  MayShutDown = TRUE
  RunLoop = run
  NoBackend = nobackend
  NoOne = noone
  llamacpp = llamacpp
  mlx = mlx
  vllm = vllm
INVARIANTS
  NoDoubleClose
  OneOutcome
  InstalledOnDisk
PROPERTIES
  EveryWaitReturnsOrShutDown
