SPECIFICATION Spec
CONSTANTS
  t1 = t1  t2 = t2  album = album  None = None
  Threads = {t1, t2}
  Messages <- Pair
  Groups = {album}
  GroupOf <- Album
  MaxDeliveries = 4
  MaxFaults = 0
  MaxCrashes = 0
INVARIANTS AlbumHoldsMessageOnce
CHECK_DEADLOCK FALSE
