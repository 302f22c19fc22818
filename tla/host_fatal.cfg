SPECIFICATION Spec
CONSTANTS
  p1 = p1
  p2 = p2
  Requests <- FatalRequests
  Pages = {p1, p2}
  Images <- OneImage
  QueueEntries = {4}
  LockDebug = {TRUE}
  ServiceBudget = 3
  MaxRequests = 6
  MaxBoots = 1
PROPERTY QueuesServedOnlyRunning
