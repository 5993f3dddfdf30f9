SPECIFICATION Spec
CONSTANTS
  t1 = t1  t2 = t2  album = album  None = None
  Threads = {t1, t2}
  Messages <- Pair
  Groups = {album}
  GroupOf <- Album
  MaxDeliveries = 4
  MaxFaults = 1
  MaxCrashes = 0
PROPERTIES RetryKeepsAlbum
CHECK_DEADLOCK FALSE
