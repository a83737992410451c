SPECIFICATION FairSpec
CONSTANTS
  Backends <- MCBackends
  Deferred <- OnDemand
  Lenient <- LlamaCpp
  Callers = {c1, c2}
  InstallOf <- OnDemand
  UninstallOf <- MCBackends
  MayShutDown = FALSE
  RunLoop = run
  NoBackend = nobackend
  NoOne = noone
  llamacpp = llamacpp
  mlx = mlx
  vllm = vllm
PROPERTY EveryWaitReturns
