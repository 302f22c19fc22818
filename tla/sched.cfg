\* Graphs of every shape, two slots, backpressure and resets, an admission age that wraps, full replay trace, counters of width zero.
SPECIFICATION Spec
CONSTANTS
  MAX_DESCRIPTORS = 3
  MAX_NODES = 3
  REQUEST_SLOTS = 2
  CPL_DEPTH = 1
  TRACE_DEPTH = 24
  MAX_GRAPH_CYCLES = 0
  COUNTER_MAX = 0
  AGE_MOD = 3
  DATA_W = 4
  PAYLOAD_W = 3
  LANES = 1
  EngineCycles = 1
  EngineResults <- MixedWord
  Requests <- GraphRequests
  GraphWrites <- Nothing
  Graphs <- MCGraphs
  CplReady <- Either
  TraceClear <- Never
  WeightWrite <- Never
  MaxRequests = 4
  NoRequest = NoRequest
INVARIANTS
  DependenciesRespected
  CompletionExplained
  NoRequestLost
  NoRequestTwice
  OrderKept
PROPERTIES
  DeadlockReportSound
