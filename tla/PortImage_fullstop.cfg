SPECIFICATION Spec
CONSTANTS
  kbd = kbd
  mqtt = mqtt
  Commander = {kbd, mqtt}
  Main = kbd
  Repertoire <- RaceRepertoire
  ManualImage <- NoManual
  Overlap = TRUE
  Idle = Idle
  Free = Free
INVARIANTS StopHolds
\* ESC ends the process.
CHECK_DEADLOCK FALSE
