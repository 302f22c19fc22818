\* The attention engine with the sizes of its own parameters.
SPECIFICATION DatapathSpec
CONSTANTS
  DEPTH = 3
  Payload <- MCPayloads
  Nothing = Nothing
  VirtPages <- MCPages
  Frames <- MCFrames
  ZeroPage = 0
  OpcodePage = 1
  ZeroFrame = "f0"
  ENTRIES = 3
  TLB_ENTRIES = 2
  MAX_PAGES = 8
  PAGE_TOKENS = 4
  MAX_Q_HEADS = 8
  MAX_KV_HEADS = 4
  ZeroVector <- MCZeroVector
  KvMemories <- MCKvMemories
  QueryWrites <- NoWrites
  PageWrites <- NoWrites
  KvWrites <- NoWrites
  AttnRequests <- GqaRequests
  LANES = 2
  OUT_W = 12
  WeightRows <- MCWeightRows
  ArrayJobs <- MCArrayJobs
  NUM_NODES = 4
  CREDIT_DEPTH = 2
  Commands <- SharedIds
  NoCommand = NoCommand
  NoResult = NoResult
INVARIANT GqaMapped
