\* The host rewrites descriptors and clears the trace while a graph runs; fair clock and host.
SPECIFICATION FairSpec
CONSTANTS
  MAX_DESCRIPTORS = 3
  MAX_NODES = 3
  REQUEST_SLOTS = 1
  CPL_DEPTH = 1
  TRACE_DEPTH = 4
  MAX_GRAPH_CYCLES = 0
  COUNTER_MAX = 0
  AGE_MOD = 16
  DATA_W = 3
  PAYLOAD_W = 3
  LANES = 0
  EngineCycles = 1
  EngineResults <- OneWord
  Requests <- RewriteRequests
  GraphWrites <- Rewrites
  Graphs <- RewriteGraphs
  CplReady <- Either
  TraceClear <- Either
  WeightWrite <- Either
  MaxRequests = 2
  NoRequest = NoRequest
INVARIANTS
  NodeRunsOnce
PROPERTIES
  EveryRequestAnswered
