\* A detector, a decoder or a writer that is done stops, so deadlock is not
\* checked.
CONSTANTS
  Folders <- MCFolders
  MaxParts = 4
  Layouts = {"disk", "concat", "bad"}
  Kinds = {"disk", "concat", "7z"}
  Count = 3
  Starts <- MCStarts
  MaxWant = 3
  Headers <- MCHeaders
  MaxCoders = 3
  MaxStreams = 4
  Bcj2Ins = 2
  Graphs <- ChainGraphs
  InCap = 2
  FilterCap = 3
  LookAhead = 1
  Block = 2
  MainCap = 3
  MainKeep = 1
  OutChunk = 2
  SideBudget = 6
  SolidArchives <- MCSolids
  SolidChunk = 2
  ScanInputs <- MCInputs
  Hash <- MCHash
  InitCap = 4
  MaxEntries = 3
  MaxTotal = 4
  MaxFile = 8
  MaxRatio = 3
  RatioMin = 2
  MaxDepth = 3
  PollEvery = 2
  ZipArchives <- MCZips
  IoBuffer = 2
  ZipMaxTotal = 20
  ZipMaxFile = 3
  Paths <- MCPaths
  Trees <- MCTrees
  Requests <- MCRequests
  Late = "late"
SPECIFICATION PartsSpec
INVARIANTS
  MembersAgree
  OpensAsWritten
  BuiltIsTree
  NodesAccounted
  BytesInOrder
  OkIsWholeFolder
  FilterPcIsPosition
  SolidSlices
  AcceptedIsTree
  RarPassesAgree
  FinalNamesAreWhole
  NothingLost
  DoneIsWhole
PROPERTIES
  VolumesAreFlat
  ReadReturns
  PullReturns
CHECK_DEADLOCK FALSE
