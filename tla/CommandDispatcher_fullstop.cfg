SPECIFICATION Spec
CONSTANTS
  user = user
  paho = paho
  go = go
  stop = stop
  Thread <- BothThreads
  Callback = paho
  Asserter = {paho}
  Payload = {go, stop}
  MaxCommands = 3
  Nobody = Nobody
INVARIANTS FullStopHolds
\* When everything has been dispatched, nothing happens any more.
CHECK_DEADLOCK FALSE
