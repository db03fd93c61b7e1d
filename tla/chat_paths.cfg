SPECIFICATION Spec
CONSTANTS
  AuthEnabled = FALSE
  LegacyTokens <- MCLegacyTokens
  AuthKeys <- MCAuthKeys
  NoKey = NoKey
  StableID <- MCStableID
  Anonymous = "anonymous"
  MaxInt64 = 7
  Endpoints <- MCEndpoints
  Strategy = "round_robin"
  NoModel = "none"
  RRMod = 4
  s1 = s1  s2 = s2  s3 = s3
  metered = metered  free = free  wrong = wrong
  Slots = {s1, s2}
  Routes <- MCRoutes
  ModelMap <- MCModelMap
  Calls <- PathCalls
  Tokens <- MCTokens
  MaxTokens = 2
  NoPath = ""
  NoCall = NoCall  NoClient = NoClient  NoHeader = NoHeader  NoEp = NoEp
INVARIANTS TypeOK InflightConserved ForwardedWithinRoute
