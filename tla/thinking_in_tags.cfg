SPECIFICATION Spec
CONSTANTS
  InjectThinkTag = TRUE
  ParseThinkFromContent = TRUE
  StripReasoningFields = TRUE
  ReasoningFields <- MCFields
  Absent = Absent
  Null = Null
  Other = Other
  Contents <- MCContents
  Reasonings <- MCReasonings
  Indices = {0, 1}
  Upstreams <- MCUpstreams
  Names = {"ping", "error"}
  Payloads <- MCPayloads
  MaxLines = 5
  Headers = {"accept-encoding", "connection"}
INVARIANT ThinkingInTags
CHECK_DEADLOCK FALSE
