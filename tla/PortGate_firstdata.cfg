SPECIFICATION Spec
CONSTANTS
  Warmup <- MCWarmup
  IntMax <- MCIntMax
INVARIANTS WaitForFirstData
\* Without a listener main waits at the gate for ever.
CHECK_DEADLOCK FALSE
