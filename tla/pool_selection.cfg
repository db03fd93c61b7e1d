SPECIFICATION Spec
CONSTANTS
  Endpoints <- MCEndpoints
  NoModel = "none"
  RRMod = 32
  Asked <- MCAsked
  MaxInflight = 2
  MaxMoves = 3
INVARIANTS RunsAreFair OnePick StaleChoiceBounded UndisturbedChoice
