SPECIFICATION FairSpec
CONSTANTS
  kbd = kbd
  mqtt = mqtt
  Commander = {kbd, mqtt}
  Main = kbd
  Repertoire <- RaceStationRepertoire
  ManualImage <- SomeManual
  Overlap = TRUE
  Idle = Idle
  Free = Free
INVARIANTS TypeOK Interlock NoPhantomMotion CopiesSafe
PROPERTIES CommandsComplete
\* ESC ends the process.
CHECK_DEADLOCK FALSE
