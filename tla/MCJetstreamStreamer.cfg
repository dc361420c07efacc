\* A history of three entries, two failed connections, one crash or stop.
SPECIFICATION FairSpec
CONSTANTS
  Floor = 50
  Percent = 20
  Drawn <- Extremes
  Sent <- SomeSent
  Base = 6
  Rewind = 1
  Retention = 2
  FarFuture = 100
  Initial = 50
  Cap = 90
  Capacity = 1
  NoCursor = NoCursor
  Setups <- SomeSetups
  MaxLog = 3
  MaxDrops = 2
  MaxStops = 1
INVARIANTS TypeOK ReplayBounded DelayFits
PROPERTIES StopEnds ImplementsFeed
CHECK_DEADLOCK FALSE
