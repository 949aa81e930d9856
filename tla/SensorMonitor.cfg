SPECIFICATION FairSpec
CONSTANTS
  Scene <- MCScene
  Follows <- MCFollows
  Round <- MCRound
  MaxDrops = 1
INVARIANTS TypeOK PositionWasTrue
PROPERTIES NoChangeMissed SubscribersCatchUp
\* A refused connection stops the thread.
CHECK_DEADLOCK FALSE
