SPECIFICATION Spec
CONSTANTS
  Logging = TRUE
  MaxBodySize = 2
  MarkLen = 2
  MaxLen = 6
  MaxSpare = 3
INVARIANTS LogShowsPrefix DamageConfined UsageReadIntact
CHECK_DEADLOCK FALSE
