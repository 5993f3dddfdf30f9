SPECIFICATION Spec
CONSTANTS
  i1 = i1  i2 = i2  i3 = i3  i4 = i4
  c1 = c1  c2 = c2
  Items <- TwoDocs
  KeyOf <- DocKey
  ChatOf <- DocChat
  SizeOf <- DocSize
  Refusable = {}
  UniqueIndex = FALSE
  BatchSize = 2
  RateLimit = 2
  MaxRetry = 2
  MaxPerRequest = 4
  ClockSteps = {0, 1}
  Writers = 1
  MaxInFlight = 2
  MaxFaults = 0
INVARIANTS SuccessMeansAnswered NoNeedlessDuplicate PendingHasRetriesLeft FirstAttemptsInOrder
PROPERTIES HonoursContract
CHECK_DEADLOCK FALSE
