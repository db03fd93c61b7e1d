SPECIFICATION Spec
CONSTANTS
  RawConfigs <- MCRawConfigs
  Unset = Unset
  LowerCase <- MCLowerCase
  DefaultBaseURL <- MCDefaultBaseURL
  DefaultTimeout = 30
  Requests <- MCRequests
  SystemMessages = {"s1", "s2"}
  ReorderSystemMessages = TRUE
  Float64 <- MCFloat64
  MaxServed = 2
  InnerPlain <- PlainTree
  InnerParsed <- ParsedTree
INVARIANTS RoutesReachable NamedEndpointsFound PatchesAsConfigured ConfiguredModelSent PathAndModelGoAlike PathAndModelAgree UnchangedIsUntouched SystemFirst PathFitsOperation
CHECK_DEADLOCK FALSE
