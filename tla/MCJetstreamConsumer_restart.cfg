SPECIFICATION Spec
CONSTANTS
  Uris = {u1}
  Rec = Rec
  Cids = {Rec}
  NoCid = NoCid
  Capacity = 1
  BatchSizes = {1, 2}
  NoCursor = NoCursor
  Configured = NoCursor
  StoreFaults = FALSE
  MaxLog = 3
  MaxDrops = 1
  MaxStops = 1
INVARIANT SeamlessResume
CHECK_DEADLOCK FALSE
