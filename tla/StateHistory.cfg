SPECIFICATION Spec
CONSTANTS
  user = user
  paho = paho
  None = None
  Thread = {user, paho}
  State <- MCState
  Pattern <- MCPattern
  PatternOf <- MCPatternOf
  Asserts <- MCAsserts
  MaxAsserts = 4
  MaxTime = 2
INVARIANTS TypeOK IntervalsAreTrue NothingForgotten NoGap
PROPERTIES BoardSpec
\* After MaxAsserts calls nothing happens any more.
CHECK_DEADLOCK FALSE
