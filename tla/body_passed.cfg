SPECIFICATION Spec
CONSTANTS
  Logging = TRUE
  MaxBodySize = 2
  MarkLen = 2
  MaxLen = 6
  MaxSpare = 3
INVARIANT PassedUnchanged
CHECK_DEADLOCK FALSE
