SPECIFICATION FairSpec
CONSTANTS
  Warmup <- MCWarmup
  IntMax <- MCIntMax
INVARIANTS TypeOK
PROPERTIES NoBlindReadOnceInformed BootCompletes GateReopens
\* Without a listener main waits at the gate for ever.
CHECK_DEADLOCK FALSE
