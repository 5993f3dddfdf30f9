SPECIFICATION Spec
CONSTANTS
  t1 = t1  t2 = t2  album = album  None = None
  Threads = {t1, t2}
  Messages <- Ids
  Groups = {album}
  GroupOf <- Album
  MaxDeliveries = 3
  MaxFaults = 0
  MaxCrashes = 0
INVARIANTS SingleDispatchedOnce
CHECK_DEADLOCK FALSE
