SPECIFICATION FairSpec
CONSTANTS
  kbd = kbd
  mqtt = mqtt
  Commander = {kbd, mqtt}
  Main = kbd
  Repertoire <- SerialRepertoire
  ManualImage <- SomeManual
  Overlap = FALSE
  Idle = Idle
  Free = Free
INVARIANTS Faithful
PROPERTIES PanelSpec
\* ESC ends the process.
CHECK_DEADLOCK FALSE
