SPECIFICATION FairSpec
CONSTANTS
  AuthEnabled = TRUE
  LegacyTokens <- MCLegacyTokens
  AuthKeys <- MCAuthKeys
  NoKey = NoKey
  StableID <- MCStableID
  Anonymous = "anonymous"
  MaxInt64 = 7
  Endpoints <- MCEndpoints
  Strategy = "least_inflight"
  NoModel = "none"
  RRMod = 2
  s1 = s1  s2 = s2
  metered = metered
  Slots = {s1, s2}
  Routes <- MCRoutes
  ModelMap <- MCModelMap
  Calls <- MCCalls
  Tokens = {0, 2}
  MaxTokens = 2
  MaxRestarts = 1
  NoPath = ""
  NoCall = NoCall  NoClient = NoClient  NoHeader = NoHeader  NoEp = NoEp
INVARIANT ChargedPerProcess
PROPERTIES EveryRequestEnds ExhaustedClientDrains SignalEndsProcess
CHECK_DEADLOCK FALSE
