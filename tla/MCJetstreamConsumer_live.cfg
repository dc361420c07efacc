SPECIFICATION FairSpec
CONSTANTS
  Uris = {u1}
  Rec = Rec
  Cids = {Rec}
  NoCid = NoCid
  Capacity = 1
  BatchSizes = {1, 2}
  NoCursor = NoCursor
  Configured = NoCursor
  StoreFaults = TRUE
  MaxLog = 2
  MaxDrops = 1
  MaxStops = 1
PROPERTIES StopEnds EventuallySettled
CHECK_DEADLOCK FALSE
