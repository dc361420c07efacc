SPECIFICATION Spec
CONSTANTS
  Uris = {u1, u2}
  Rec = Rec
  Cids = {Rec}
  NoCid = NoCid
  Capacity = 1
  BatchSizes = {1, 2}
  NoCursor = NoCursor
  Configured = NoCursor
  StoreFaults = TRUE
  MaxLog = 3
  MaxDrops = 1
  MaxStops = 1
SYMMETRY Symmetry
INVARIANTS TypeOK CheckpointCovered WatermarkCovered ReplaysConverge OrderKept StopFlushes
CHECK_DEADLOCK FALSE
