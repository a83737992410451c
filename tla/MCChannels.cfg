SPECIFICATION ChannelsSpec
CONSTANTS
  Layers = {l1, l2}
  Config = cfg
  MaxConcurrent = 1
  MaxPushes = 2
  Pullers = {p}
  Inodes = {i1}
  NoInode = none
  Size = 3
  MaxTokens = 1
  Faults = {"network", "ignored", "short", "crash"}
  MaxFaults = 2
  Pulled = l1
  Entrants = {load, release, unload, setconfig}
  Setters = {setconfig}
  Cancellable = {load, unload, setconfig}
INVARIANTS
  PushSound
  PullSound
  BlobWhole
  TokensCounted
PROPERTIES
  PushEnds
  PublishedArrives
  EveryCallEnds
