SPECIFICATION FairSpec
CONSTANTS
  a = a  None = None
  Messages <- Ids
  Channels = {a}
  ChatOf <- Chats
  Albums <- Parts
  PartsOf <- Group
  Tagged <- WithTag
  Pushed = {1, 3}
  PageSize = 2
  MaxTotal = 3
  MaxRetries = 1
  MaxFaults = 1
  MaxCrashes = 1
INVARIANTS TypeOK MatchedMeansQueued StartupReplayNeverForwards FetchHasNoGaps
  ProcessedIsAccountedFor PendingMeansAborted
PROPERTIES StartUpEnds
CHECK_DEADLOCK FALSE
