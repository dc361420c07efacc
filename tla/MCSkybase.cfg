\* One part at a time; see MCSkybase.tla for the tables, queries and lists.
SPECIFICATION SkybaseSpec
CONSTANTS
  Cids = {c1}
  NoCid = NoCid
  Uris = {1, 2}
  Writers = {w1}
  Nobody = Nobody
  Times = {1, 2}
  MaxI64 = 2
  Cursors = {}
  MaxBatch = 1
  Ring = 1
  Tables <- SomeTables
  Asked <- SomeQueries
  Requests = {r1, r2}
  Origins = {o1, o2}
  MaxNonce = 2
  Lists <- SomeLists
  PageLimits = {0, 2, 3}
  MaxPageLimit = 2
  MaxPages = 3
  Conns = {k1, k2}
  Slots = 2
  MaxFrames = 3
  MaxText = 5
  LastDay = 47600
  Endpoints <- SomeEndpoints
  Names = {0, 1, 2}
  MaxParts = 3
INVARIANTS SkybaseTypeOK CaughtUpAgrees PagesMissForCause AnswersAsAsked CarriedOnce
INVARIANTS NonceStaysHome FailsForCause ReadEndsForCause LinksFit DatesCount UrlCarries
PROPERTY ActivitiesEnd
CHECK_DEADLOCK FALSE
