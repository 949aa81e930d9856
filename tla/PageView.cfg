SPECIFICATION FairViewSpec
CONSTANTS
  kbd = kbd
  Commander = {kbd}
  Main = kbd
  Repertoire <- ViewRepertoire
  ManualImage <- ViewManual
  Overlap = TRUE
  Idle = Idle
  Free = Free
INVARIANTS ViewTypeOK
PROPERTIES PageCatchesUp
\* ESC ends the process.
CHECK_DEADLOCK FALSE
