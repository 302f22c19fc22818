\* Graphs within and beyond their service allocation; the host is always ready.
SPECIFICATION QosSpec
CONSTANTS
  MAX_DESCRIPTORS = 3
  MAX_NODES = 3
  REQUEST_SLOTS = 2
  CPL_DEPTH = 1
  TRACE_DEPTH = 0
  MAX_GRAPH_CYCLES = 8
  COUNTER_MAX = 63
  AGE_MOD = 16
  DATA_W = 3
  PAYLOAD_W = 3
  LANES = 0
  EngineCycles = 1
  EngineResults <- OneWord
  Requests <- QosRequests
  GraphWrites <- Nothing
  Graphs <- QosGraphs
  CplReady <- Always
  TraceClear <- Never
  WeightWrite <- Never
  MaxRequests = 3
  NoRequest = NoRequest
INVARIANTS
  ServiceOverrunFlagged
  NoFalseViolation
