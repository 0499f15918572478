SPECIFICATION Spec
CHECK_DEADLOCK FALSE
CONSTANTS
  Word = 8
  TICK_CYCLES = 3
  StartTimes = {0, 3, 7}
  MaxTime = 34
  Untorn = FALSE
INVARIANT NextTickIsNear
