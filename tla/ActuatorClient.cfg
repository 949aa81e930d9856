SPECIFICATION FairSpec
CONSTANTS
  Message <- MCMessage
  MaxMessages = 4
  MaxStarts = 3
INVARIANTS TypeOK NoNullCall FreshCommands
PROPERTIES Serves
\* A process that has ended for good is not started again.
CHECK_DEADLOCK FALSE
