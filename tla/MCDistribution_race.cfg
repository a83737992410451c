SPECIFICATION Spec
CONSTANTS
  Layers = {l1}
  Config = cfg
  MaxConcurrent = 1
  MaxPushes = 1
  Pullers = {p, q}
  Inodes = {i1, i2, i3, i4}
  NoInode = none
  Size = 3
  MaxTokens = 2
  Faults = {"network"}
  MaxFaults = 1
  Pulled = l1
INVARIANTS
  BlobWhole
