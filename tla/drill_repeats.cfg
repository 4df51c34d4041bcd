SPECIFICATION CoachingSpec
CONSTANTS
  Options = {fix, trap}
  Wrong = {trap}
  Stages = 2
  Signals = 2
  Extras = 1
  MaxAttempts = 1
INVARIANTS MisstepsAreExplained
CHECK_DEADLOCK FALSE
