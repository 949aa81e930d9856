SPECIFICATION FairSpec
CONSTANTS
  user = user
  paho = paho
  go = go
  stop = stop
  Thread <- BothThreads
  Callback = paho
  Asserter = {user, paho}
  Payload = {go, stop}
  MaxCommands = 4
  Nobody = Nobody
INVARIANTS TypeOK NoOvertaking RetiredWasSaid HeadIsInFlight
PROPERTIES EveryCommandRetired NoStaleCommand
\* When everything has been dispatched, nothing happens any more.
CHECK_DEADLOCK FALSE
