------------------------------- MODULE PortGate -------------------------------
(* The start of serverApp: main types the ports while the web server thread    *)
(* already answers the page, and every read and write of a port waits at a     *)
(* gate until PORTS_VALUES_AVAILABLE has counted ten POSTs.                    *)
(* The semaphore is mutex_sem; ports_type and the counter are read outside it. *)
EXTENDS Integers

CONSTANTS Warmup,   \* the POSTs the gate waits for: 10 in the code
          IntMax    \* the largest int

ASSUME GateAssumption ==
  Warmup \in Nat \ {0} /\ IntMax \in Nat /\ Warmup <= IntMax

InPort  == 0..3
OutPort == {4, 5}
Port    == InPort \cup OutPort
\* The calls of initializeHardwarePorts: a port is created for each of 0..5,
\* then ports 4 and 5 are written.
FirstWrite == 6
BootDone   == 8

VARIABLES step,     \* the next call of initializeHardwarePorts, or BootDone
          typed,    \* the ports with a ports_type
          avail,    \* PORTS_VALUES_AVAILABLE
          server,   \* the server thread: "starting", "failed", "poll", "store"
          next,     \* the loop variable of the POST being stored
          stored,   \* the input ports that hold what the page sent
          timely,   \* history: the POST being stored began with the inputs typed
          informed, \* history: such a POST has been counted
          blind     \* history: input ports read before the page sent them

mainVars == <<step, typed>>
postVars == <<avail, server, next, stored>>
history  == <<timely, informed, blind>>
vars     == <<mainVars, postVars, history>>

\* main has called configure_simulator_server and start_mg_server.
Init ==
  /\ step = 0
  /\ typed = {}
  /\ avail = 0
  /\ server = "starting"
  /\ next = 0
  /\ stored = {}
  /\ timely = FALSE
  /\ informed = FALSE
  /\ blind = {}

SemIsFree  == server # "store"
GateIsOpen == avail >= Warmup
-------------------------------------------------------------------------------
\* createDigitalInput or createDigitalOutput: ports_type is set without the
\* semaphore; the server is already configured and started.
CreatePort ==
  /\ step < FirstWrite
  /\ typed' = typed \cup {step}
  /\ step' = step + 1
  /\ UNCHANGED <<postVars, history>>

\* writeDigitalU8(4, 0), then writeDigitalU8(5, 0).
ClearPort ==
  /\ step \in FirstWrite..(BootDone - 1)
  /\ GateIsOpen /\ SemIsFree
  /\ step' = step + 1
  /\ UNCHANGED <<typed, postVars, history>>

\* readDigitalU8 of a sensor port, by the monitoring thread or for the menu:
\* both start after initializeHardwarePorts.
ReadInput(p) ==
  /\ step = BootDone
  /\ GateIsOpen /\ SemIsFree
  /\ blind' = IF p \in stored THEN blind ELSE blind \cup {p}
  /\ UNCHANGED <<mainVars, postVars, timely, informed>>
-------------------------------------------------------------------------------
\* start_the_work: when the port cannot be listened on, the thread ends, and
\* nobody is told.
Listen ==
  /\ server = "starting"
  /\ server' \in {"poll", "failed"}
  /\ UNCHANGED <<mainVars, avail, next, stored, history>>

\* A fault for the mutants: the loop over the ports starts at 1.
BeginPostLate ==
  /\ server = "poll"
  /\ server' = "store"
  /\ next' = 1
  /\ timely' = (InPort \subseteq typed)
  /\ UNCHANGED <<mainVars, avail, stored, informed, blind>>

\* POST /ajax_port_values: the semaphore is taken, ...
BeginPost ==
  /\ server = "poll"
  /\ server' = "store"
  /\ next' = 0
  /\ timely' = (InPort \subseteq typed)
  /\ UNCHANGED <<mainVars, avail, stored, informed, blind>>

\* ... each port that is typed as an input by now gets what the page sent, ...
StorePort ==
  /\ server = "store" /\ next \in Port
  /\ stored' = stored \cup ({next} \cap typed \cap InPort)
  /\ next' = next + 1
  /\ UNCHANGED <<mainVars, avail, server, history>>

\* Faults for the mutants: the counter has no width; it stops one short
\* of the gate; it stays negative once it has overflowed.
IncrementUnbounded(n) == n + 1
IncrementShort(n) == IF n + 1 = Warmup THEN n ELSE n + 1
IncrementSticks(n) == IF n = IntMax \/ n < 0 THEN -1 ELSE n + 1

\* ... and the POST is counted, in an int, whatever it has stored.
Increment(n) == IF n = IntMax THEN -IntMax - 1 ELSE n + 1

EndPost ==
  /\ server = "store" /\ next \notin Port
  /\ avail' = Increment(avail)
  /\ server' = "poll"
  /\ next' = 0
  /\ informed' = (informed \/ timely)
  /\ UNCHANGED <<mainVars, stored, timely, blind>>
-------------------------------------------------------------------------------
Next == \/ CreatePort \/ ClearPort
        \/ \E p \in InPort : ReadInput(p)
        \/ Listen \/ BeginPost \/ StorePort \/ EndPost

Spec == Init /\ [][Next]_vars

\* main and the server thread run, main gets the semaphore among the POSTs, and
\* a page is open and posts.
FairSpec == /\ Spec
            /\ WF_vars(CreatePort) /\ SF_vars(ClearPort)
            /\ WF_vars(Listen) /\ WF_vars(BeginPost)
            /\ WF_vars(StorePort) /\ WF_vars(EndPost)
-------------------------------------------------------------------------------
TypeOK ==
  /\ step \in 0..BootDone
  /\ typed \subseteq Port
  /\ avail \in (-IntMax - 1)..IntMax
  /\ server \in {"starting", "failed", "poll", "store"}
  /\ next \in 0..6
  /\ stored \subseteq InPort
  /\ timely \in BOOLEAN /\ informed \in BOOLEAN
  /\ blind \subseteq InPort

\* One POST that began after the input ports were created is enough: from then
\* on no sensor is read that the page has not reported, however main and the
\* server interleaved while the ports were being created.
NoBlindReadOnceInformed == [][informed => blind' = blind]_vars

\* initializeHardwarePorts gets past the gate, unless the server could not
\* listen: then main waits for ever.
BootCompletes == <>(step = BootDone \/ server = "failed")

\* The gate opens again and again, even when the counter overflows.
GateReopens == []<>(GateIsOpen \/ server = "failed")

\* niDAQWebInterface.cpp:101, "wait for first data": a sensor is not read before
\* the page has reported it.
WaitForFirstData == blind = {}
===============================================================================
