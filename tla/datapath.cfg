\* The units of the data path: circular buffer, KV MMU, attention engine, tensor array, ring.
SPECIFICATION DatapathSpec
CONSTANTS
  DEPTH = 3
  Payload <- MCPayloads
  Nothing = Nothing
  VirtPages <- MCPages
  Frames <- MCFrames
  ZeroPage = 0
  OpcodePage = 1
  ZeroFrame = "f0"
  ENTRIES = 3
  TLB_ENTRIES = 2
  MAX_PAGES = 2
  PAGE_TOKENS = 2
  MAX_Q_HEADS = 4
  MAX_KV_HEADS = 2
  ZeroVector <- MCZeroVector
  KvMemories <- MCKvMemories
  QueryWrites <- MCQueryWrites
  PageWrites <- MCPageWrites
  KvWrites <- MCKvWrites
  AttnRequests <- MCAttnRequests
  LANES = 2
  OUT_W = 12
  WeightRows <- MCWeightRows
  ArrayJobs <- MCArrayJobs
  NUM_NODES = 4
  CREDIT_DEPTH = 2
  Commands <- SharedIds
  NoCommand = NoCommand
  NoResult = NoResult
INVARIANTS
  TlbCoherent
  AttentionExact
  TensorExact
  NoProtocolError
PROPERTIES
  QueueSpec
  PageMapSpec
  AllReduceSafety
  AllReduceLive
  EveryUnitAnswers
