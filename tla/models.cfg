\* The Python models: FPGA prototype, KV cache, phase 9 monitor and queue, golden arithmetic, event simulator.
SPECIFICATION ModelsSpec
CONSTANTS
  VirtualPages = {1, 2, 3}
  Payloads <- MCPayloads
  Sizes = {32}
  LocalPages = 2
  LocalReadCycles = 12
  HostReadCycles = 80
  MigrationSetupCycles = 24
  BytesPerCycle = 16
  MaxAllocations = 2
  Graphs <- MCGraphs
  Contents <- MCContents
  Query <- MCQuery
  Rows <- MCRows
  TraceTokens <- MCTrace
  MaxRequests = 2
  PageTokens = 2
  KvHeads = 2
  HeadDim = 1
  HeadValues <- MCHeadValues
  QueryLists <- MCQueryLists
  MaxTokens = 4
  RequestIds = {"r1", "r2"}
  Tenants = {"a", "b"}
  PhysicalPages = {7, 8}
  NO_PAGE = 0
  Dependencies = {"kv", "weights"}
  VirtualPage = 0
  DmaWindows <- MCDmaWindows
  NodePartitions <- MCNodePartitions
  NO_PARTITION = "none"
  JudgedCalls <- MCJudgedCalls
  RequiredBins = {"bin"}
  Operations <- MCOperations
  MaxTrace = 2
  MaxCalls = 4
  QueueDepth = 4
  Queries <- MCQueries
  StreamTokens <- MCStreamTokens
  MaxStream = 4
  Projections <- MCProjections
  Modes <- MCModes
  Normalised <- MCNormalised
  Products <- MCProducts
  Hardwares <- MCHardwares
  KvBytes = 2
  WeightBytes = 12
  Requests <- MCRequests
  MaxSimulated = 3
  SCALE = 12
CHECK_DEADLOCK FALSE
INVARIANTS
  ResidencySound
  FaultsAccountedFor
  AnswersMeanGraph
  TraceColdOnce
  CacheReadsAppended
  MonitorExact
  ArithmeticSound
  TotalsAddUp
PROPERTIES
  MigrationIsExchange
  GraphsEnd
  BackpressureLetsThrough
