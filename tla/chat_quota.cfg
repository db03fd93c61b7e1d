SPECIFICATION Spec
CONSTANTS
  AuthEnabled = TRUE
  LegacyTokens <- MCLegacyTokens
  AuthKeys <- MCAuthKeys
  NoKey = NoKey
  StableID <- MCStableID
  Anonymous = "anonymous"
  MaxInt64 = 8
  Endpoints <- MCEndpoints
  Strategy = "random"
  NoModel = "none"
  RRMod = 2
  s1 = s1  s2 = s2  s3 = s3
  metered = metered  free = free  wrong = wrong
  Slots = {s1, s2, s3}
  Routes <- MCRoutes
  ModelMap <- MCModelMap
  Calls <- MeteredCalls
  Tokens <- FewTokens
  MaxTokens = 2
  NoPath = ""
  NoCall = NoCall  NoClient = NoClient  NoHeader = NoHeader  NoEp = NoEp
SYMMETRY SlotSymmetry
INVARIANTS QuotaOvershootBounded ShownInOrder
PROPERTIES ImplementsLedger ExhaustionIsFinal HeaderCountsOwnCharge
