SPECIFICATION FairSpec
CONSTANTS
  p1 = p1
  p2 = p2
  Requests <- MixedRequests
  Pages = {p1, p2}
  Images <- AllImages
  QueueEntries = {3, 4}
  LockDebug = {TRUE}
  ServiceBudget = 3
  MaxRequests = 5
  MaxBoots = 2
INVARIANTS AnswersRight EachRequestInOnePlace FaultsAreParked OnlyVerifiedFirmwareRuns
PROPERTY RequestsAnswered
