------------------------- MODULE MCCommandDispatcher --------------------------
(* Instances of CommandDispatcher: commands for one motor, asserted at the     *)
(* Prolog toplevel, by rules that run in Paho's callbacks, or by both.         *)
EXTENDS CommandDispatcher

CONSTANTS user, paho,   \* the toplevel's thread, Paho's callback thread
          go, stop      \* two values for one motor

BothThreads == {user, paho}

\* README.md, "Full stop and resume capabilities": when the last command of the
\* supervisor is a stop, and all has been dispatched without a failure, the
\* actuators have been told to stop.
FullStopHolds ==
  ~failed /\ asserted # <<>> /\ asserted[Len(asserted)] = stop => LastCommandHolds
===============================================================================
