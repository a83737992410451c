SPECIFICATION Spec
CONSTANTS
  Answers <- MCAnswers
  RespIDs = {1, 2, 3}
  StreamedOnes = {2}
  TTL = 1
  MaxNow = 2
  NoResp = NoResp
  Calls = {1, 2}
  CallRefs = {"n1"}
  RunnerIDs = {"i1", "i2"}
  Modes = {"m1", "m2"}
  BodyOf <- MCBodyOf
  Filters = {Every}
  Subscribers = {"s1"}
  MaxRecords = 1
  Buffer = 1
  MaxMoves = 1
  NoBody = NoBody
  Every = Every
  Users = {1, 2}
  Kinds <- MCKinds
  Names = {"n"}
  FormatOf <- MCFormatOf
  Platform = {"llamacpp", "mlx"}
  DeferredOnes = {"mlx"}
  Scripts <- MCScripts
  MaxRetags = 1
  Requests = {1, 2}
  APIModels = {"m1", "m2"}
  APITags <- MCTags
  ShortNames = {"x"}
  NameOf <- MCNameOf
  LatestOf <- MCLatestOf
  KeptTags <- MCKept
  MaxPulls = 1
  Files <- MCFiles
  MaxFiles = 3
  Shards <- MCShards
  ProjectorFiles <- MCProjectors
  Templates <- MCTemplates
  DirRank <- MCDirRank
  MaxCalls = 3
  MaxFaults = 1
  NoFile = NoFile
  Repositories <- MCRepositories
  Quants <- MCQuants
  ObjectLists <- MCObjectLists
  MaxConcurrent = 2
  ServerTags = {"v1", "v2"}
  Pushes = {"d1", "d2"}
  MaxInstallKills = 2
  MaxFetches = 3
  Lines = {"a", "b"}
  KeptLines = 1
  Runs = 2
  ServiceTimes <- MCServiceTimes
  EngineTimes <- MCEngineTimes
  MaxCrashes = 1
  MaxGen = 2
  FaultStore <- MCFaultStore
  SharedStore <- MCSharedStore
  NoModel = "nomodel"
  NoTag = "notag"
INVARIANTS
  AnswersAgree
  RecordsTrue
  RequestsHonoured
  FailureTold
  BundlesWhole
  TransfersWhole
  BackendsSound
  LogUnbroken
  DaemonKept
  StoreSound
PROPERTIES
  EffectsExact
CHECK_DEADLOCK FALSE
