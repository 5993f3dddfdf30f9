SPECIFICATION Spec
CONSTANTS
  i1 = i1  i2 = i2  i3 = i3  i4 = i4
  c1 = c1  c2 = c2
  Items <- ThreeDocs
  KeyOf <- DocKey
  ChatOf <- DocChat
  SizeOf <- DocSize
  Refusable = {}
  UniqueIndex = FALSE
  BatchSize = 3
  RateLimit = 2
  MaxRetry = 2
  MaxPerRequest = 3
  ClockSteps = {1}
  Writers = 1
  MaxInFlight = 1
  MaxFaults = 0
INVARIANT SuccessMeansForwarded
CHECK_DEADLOCK FALSE
