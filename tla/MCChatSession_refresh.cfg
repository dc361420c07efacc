\* One request, a refresh token and no credentials.
SPECIFICATION FairSpec
CONSTANTS
  Requests = {r1}
  NoOne = NoOne
PROPERTIES RefreshTokenSuffices
CHECK_DEADLOCK FALSE
