SPECIFICATION Spec
CONSTANTS
  Commands = {p1, p2, p3}
  ContextNames = {a}
  Hosts <- MCHosts
  Settings <- MCSettings
  NoContext = NoContext
  NoProcess = NoProcess
  Operations <- MCOperations
  MaxTries = 1
  MaxContainers = 4
  Runes <- MCRunes
  LineWidth = 2
  MaxTyped = 3
  MaxGaps = 2
  Saved <- MCSaved
  Limit = 2
  MaxCalls = 2
  LineKinds <- MCLineKinds
  Replies <- MCReplies
  KnownTools = {"websearch"}
  MaxRounds = 3
  MaxTurns = 2
  Streams <- MCStreams
  Attempts = 3
  Layers <- MCLayers
  Window = 2
INVARIANTS
  ContextsKept
  WorkTogether
  EditorAgrees
  ChatTrue
  ArchiveWhole
  ArchiveMoves
CHECK_DEADLOCK FALSE
