SPECIFICATION FairSpec
CONSTANTS
  i1 = i1  i2 = i2  i3 = i3  i4 = i4
  c1 = c1  c2 = c2
  Items <- TwoDocs
  KeyOf <- DocKey
  ChatOf <- DocChat
  SizeOf <- DocSize
  Refusable = {i1}
  UniqueIndex = FALSE
  BatchSize = 2
  RateLimit = 2
  MaxRetry = 2
  MaxPerRequest = 4
  ClockSteps = {1}
  Writers = 2
  MaxInFlight = 1
  MaxFaults = 1
INVARIANTS TypeOK FirstAttemptsInOrder
PROPERTIES EveryItemSettles HonoursContract
CHECK_DEADLOCK FALSE
