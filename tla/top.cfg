SPECIFICATION Spec
CONSTANTS
  PAGE_COUNT = 2
  Command <- Commands
  Workloads <- Hosts
  CMD_QUEUE_DEPTH = 2
  KV_MMU_ENTRIES = 1
  FAULT_DEPTH = 2
  VirtPages <- Pages
  Frames <- TwoFrames
  MaxCommands = 4
PROPERTIES SerialService EveryCommandRetires
