SPECIFICATION FairSpec
CONSTANTS
  NUM_NODES = 3
  Partitions = {0, 1}
  Commands <- SomeCommands
  NoCommand = NoCommand
  Programs <- Tables
  Repairs <- LinkRepairs
  FaultEdges <- SomeEdges
  NoFault = NoFault
  MaxArms = 2
INVARIANTS CommitsWholeOrNothing VerdictsJustified
PROPERTY EveryCommandAnswered
