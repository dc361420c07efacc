\* Two requests that may expire, refresh, log in, get lost and be cancelled.
SPECIFICATION FairSpec
CONSTANTS
  Requests = {r1, r2}
  NoOne = NoOne
INVARIANTS TypeOK SingleFlight CarriedOnce FailsForCause
PROPERTIES TokensAdvance RetryIsNewer RequestsEnd
CHECK_DEADLOCK FALSE
