SPECIFICATION FairSpec
CONSTANTS
  t1 = t1  t2 = t2  album = album  None = None
  Threads = {t1, t2}
  Messages <- Ids
  Groups = {album}
  GroupOf <- Album
  MaxDeliveries = 3
  MaxFaults = 1
  MaxCrashes = 1
INVARIANTS TypeOK MapsAgree AlbumDispatchedOnce OnlyRacesRepeatSingles StoredBeforePlugins
PROPERTIES BufferedIsDispatched
CHECK_DEADLOCK FALSE
