------------------------------ MODULE PortImage -------------------------------
(* The shared image of the output ports once serverApp has started.           *)
(*                                                                             *)
(* Two threads execute commands: main, from the keyboard, and Paho's callback  *)
(* thread, from the topics "actuator" and "menu_keyboard".  A command reads    *)
(* whole ports, changes its two bits in a local copy and writes whole ports    *)
(* back.  mutex_sem is held for one read or one write, never for a command.    *)
(* The web server thread stores the page's ports when the page is in manual    *)
(* mode; what it answers to the page is in PageView.                           *)
(*                                                                             *)
(* The start-up gate (PORTS_VALUES_AVAILABLE) is open for good when the first  *)
(* command is accepted: initializeHardwarePorts has passed it; see PortGate.   *)
EXTENDS Wiring, Sequences

CONSTANTS Commander,    \* the threads that execute commands
          Main,         \* the one of them that ESC can end the process from
          Repertoire,   \* the commands each of them is given
          ManualImage,  \* what the page posts while it is in manual mode
          Overlap,      \* may commands that use the same port overlap in time?
          Idle, Free    \* no command under way; mutex_sem not held

ASSUME CommanderAssumption == Main \in Commander /\ Free \notin Commander
ASSUME RepertoireAssumption == Repertoire \in [Commander -> SUBSET Command]
ASSUME OverlapAssumption == Overlap \in BOOLEAN
ASSUME IdleAssumption == Idle \notin Command
\* The page is not part of the repository: that it never asks for both
\* directions of a one-port motor is an assumption, the server does not check.
ASSUME ManualAssumption ==
  ManualImage \subseteq {im \in Image : \A m \in OnePortMotor : Interlocked(im, m)}

VARIABLES running,  \* the process has not exited
          port,     \* mg_ports[4], mg_ports[5]
          sem,      \* the command thread that holds mutex_sem, or Free
          cmd,      \* the command a thread is executing, or Idle
          pc,       \* and how far it is: "read", "write" or "copy"
          todo,     \* the ports it has still to read, or to write
          copy,     \* its local uInt8 variables
          wanted,   \* history: the last completed command of each motor
          asked     \* history: the wires anybody ever asked to switch on

threadVars == <<sem, cmd, pc, todo, copy>>
history    == <<wanted, asked>>
vars == <<running, port, threadVars, history>>

Init ==
  /\ running = TRUE
  /\ port = AllOff
  /\ sem = Free
  /\ cmd = [t \in Commander |-> Idle]
  /\ pc = [t \in Commander |-> "read"]
  /\ todo = [t \in Commander |-> <<>>]
  /\ copy = [t \in Commander |-> AllOff]
  /\ wanted = [m \in Motor |-> 0]
  /\ asked = {}
-------------------------------------------------------------------------------
\* Nothing in the code keeps two commands from overlapping.  With Overlap = FALSE
\* it is the users who see to it, so that we learn what depends on them.
Undisturbed(ports) ==
  ~Overlap => \A t \in {u \in Commander : cmd[u] # Idle} :
                PortsOf(cmd[t].motor) \cap ports = {}

\* executeLocalControl or onMqttActuatorsMessageArrived calls the move or stop
\* function for c.
Begin(t, c) ==
  /\ running
  /\ cmd[t] = Idle
  /\ Undisturbed(PortsOf(c.motor))
  /\ cmd' = [cmd EXCEPT ![t] = c]
  /\ pc' = [pc EXCEPT ![t] = "read"]
  /\ todo' = [todo EXCEPT ![t] = ReadOrder(c.motor)]
  /\ UNCHANGED <<running, port, sem, copy, history>>

\* readDigitalU8.  Nobody changes a port without mutex_sem, so taking it,
\* reading and releasing it is one step.
ReadPort(t, p) ==
  /\ running
  /\ cmd[t] # Idle /\ pc[t] = "read"
  /\ sem = Free
  /\ todo[t] # <<>> /\ p = Head(todo[t])
  /\ UNCHANGED <<running, port, sem, cmd, history>>

ReadMore(t) == \E p \in OutPort :
  /\ ReadPort(t, p)
  /\ Tail(todo[t]) # <<>>
  /\ todo' = [todo EXCEPT ![t] = Tail(@)]
  /\ copy' = [copy EXCEPT ![t][p] = port[p]]
  /\ UNCHANGED pc

\* The last read is followed by the setBitValue calls on the local copies.
ReadLast(t) == \E p \in OutPort :
  /\ ReadPort(t, p)
  /\ Tail(todo[t]) = <<>>
  /\ todo' = [todo EXCEPT ![t] = WriteOrder(cmd[t].motor)]
  /\ copy' = [copy EXCEPT ![t] = Drive([@ EXCEPT ![p] = port[p]], cmd[t])]
  /\ pc' = [pc EXCEPT ![t] = "write"]

\* writeDigitalU8 has taken mutex_sem and sprintf_s is rewriting the port.
BeginWrite(t) ==
  /\ running
  /\ cmd[t] # Idle /\ pc[t] = "write"
  /\ sem = Free
  /\ sem' = t
  /\ pc' = [pc EXCEPT ![t] = "copy"]
  /\ UNCHANGED <<running, port, cmd, todo, copy, history>>

\* Faults for the mutants: mutex_sem is not released; both ports are written, the
\* one that was not read too.
WriteKeepingSem(t, p) ==
  /\ running
  /\ cmd[t] # Idle /\ pc[t] = "copy"
  /\ todo[t] # <<>> /\ p = Head(todo[t])
  /\ port' = [port EXCEPT ![p] = copy[t][p]]
  /\ asked' = asked \cup WireFor(cmd[t])
  /\ UNCHANGED <<running, sem>>

WriteBothPorts(t, p) ==
  /\ running
  /\ cmd[t] # Idle /\ pc[t] = "copy"
  /\ todo[t] # <<>> /\ p = Head(todo[t])
  /\ port' = copy[t]
  /\ sem' = Free
  /\ asked' = asked \cup WireFor(cmd[t])
  /\ UNCHANGED running

\* The port has its new value and mutex_sem is released.
WritePort(t, p) ==
  /\ running
  /\ cmd[t] # Idle /\ pc[t] = "copy"
  /\ todo[t] # <<>> /\ p = Head(todo[t])
  /\ port' = [port EXCEPT ![p] = copy[t][p]]
  /\ sem' = Free
  /\ asked' = asked \cup WireFor(cmd[t])
  /\ UNCHANGED running

WriteMore(t) == \E p \in OutPort :
  /\ WritePort(t, p)
  /\ Tail(todo[t]) # <<>>
  /\ todo' = [todo EXCEPT ![t] = Tail(@)]
  /\ pc' = [pc EXCEPT ![t] = "write"]
  /\ UNCHANGED <<cmd, copy, wanted>>

WriteLast(t) == \E p \in OutPort :
  /\ WritePort(t, p)
  /\ Tail(todo[t]) = <<>>
  /\ todo' = [todo EXCEPT ![t] = <<>>]
  /\ pc' = [pc EXCEPT ![t] = "read"]
  /\ cmd' = [cmd EXCEPT ![t] = Idle]
  /\ copy' = [copy EXCEPT ![t] = AllOff]
  /\ wanted' = [wanted EXCEPT ![cmd[t].motor] = cmd[t].dir]
-------------------------------------------------------------------------------
\* POST /ajax_port_values with is_on_manual: the output ports are stored, both
\* under one possession of mutex_sem.  Without it no output port changes.
PostManual == \E im \in ManualImage :
  /\ running
  /\ sem = Free
  /\ Undisturbed(OutPort)
  /\ port' = im
  /\ asked' = asked \cup OnWires(im)
  /\ wanted' = [m \in Motor |-> IF Powered(im, m) = {} THEN 0
                                ELSE CHOOSE d \in Powered(im, m) : TRUE]
  /\ UNCHANGED <<running, threadVars>>

\* The process ends: threads die where they are, a command may be cut off between
\* two accesses, and the ports keep their last values.
Ends ==
  /\ running
  /\ running' = FALSE
  /\ UNCHANGED <<port, threadVars, history>>

\* ESC is read by main between two commands of its own.
Escape == cmd[Main] = Idle /\ Ends

\* std::stoi throws in the callback of another thread, before the message has
\* become a command, and nobody catches it: main may be inside a command.
Throw == (\E t \in Commander \ {Main} : cmd[t] = Idle) /\ Ends

Exit == Escape \/ Throw
-------------------------------------------------------------------------------
Step(t) == \/ ReadMore(t) \/ ReadLast(t)
           \/ BeginWrite(t)
           \/ WriteMore(t) \/ WriteLast(t)

Next == \/ \E t \in Commander : Step(t)
        \/ \E t \in Commander : \E c \in Repertoire[t] : Begin(t, c)
        \/ PostManual
        \/ Exit

Spec == Init /\ [][Next]_vars

\* The scheduler runs every thread, and a thread that waits for mutex_sem gets
\* it although others take it again and again: Windows queues the waiters of a
\* semaphore.  Nobody has to give a command, to press ESC or to post.
ThreadFairness == \A t \in Commander : SF_vars(Step(t))
FairSpec == Spec /\ ThreadFairness
-------------------------------------------------------------------------------
PortList == {<<>>, <<4>>, <<5>>, <<4, 5>>, <<5, 4>>}

TypeOK ==
  /\ running \in BOOLEAN
  /\ port \in Image
  /\ sem \in Commander \cup {Free}
  /\ cmd \in [Commander -> Command \cup {Idle}]
  /\ pc \in [Commander -> {"read", "write", "copy"}]
  /\ todo \in [Commander -> PortList]
  /\ copy \in [Commander -> Image]
  /\ wanted \in [Motor -> Direction]
  /\ asked \subseteq OutPort \X Bit

\* Whatever commands the threads interleave, with each other and with the page,
\* a motor with both wires on one port is never powered both ways: a lost
\* update brings back an old byte, and every byte ever written is interlocked.
Interlock == \A m \in OnePortMotor : Interlocked(port, m)

\* No wire is on that nobody asked for, however stale the bytes are that the
\* threads write back.
NoPhantomMotion == OnWires(port) \subseteq asked

\* Why both hold: every byte a thread may still write back is interlocked and
\* switches on only what was asked for or what its own command asks for, and no
\* command finds anything left of the one before it.
CopiesSafe ==
  \A t \in Commander :
    /\ \A m \in OnePortMotor : Interlocked(copy[t], m)
    /\ \A w \in OnWires(copy[t]) :
         w \in asked \/ (cmd[t] # Idle /\ w \in WireFor(cmd[t]))
    /\ cmd[t] = Idle => copy[t] = AllOff

Quiet(m) == \A t \in Commander : cmd[t] = Idle \/ cmd[t].motor # m

\* What a motor has been told to do: by the last completed command, and by a
\* command that is under way or was cut off when the process ended.
Told(m) == {wanted[m]} \cup
             {cmd[t].dir : t \in {u \in Commander : cmd[u] # Idle /\ cmd[u].motor = m}}

\* A motor is powered only in directions it has been told, and is powered in the
\* one it has been told if there is no other: commands for other motors do not
\* disturb it.  With no command for it under way it does what the last one said.
\* While one is, or when ESC or an exception cuts one off, nothing is left but
\* what the old and the new command say; for the left station, whose outward
\* wire is switched on before the inward one is switched off, that can be both.
Faithful == \A m \in Motor :
  /\ Powered(port, m) \subseteq Told(m)
  /\ \A d \in {-1, 1} : Told(m) = {d} => d \in Powered(port, m)

\* README.md, "Full stop": a motor whose last completed command is a stop, and
\* for which no other command is under way, stands still.
StopHolds == \A m \in Motor : Quiet(m) /\ wanted[m] = 0 => Powered(port, m) = {}

\* A command that was begun is completed, whoever else uses mutex_sem, unless
\* the process exits.
CommandsComplete == \A t \in Commander : cmd[t] # Idle ~> (cmd[t] = Idle \/ ~running)
-------------------------------------------------------------------------------
\* The abstract panel.  A two-port command takes effect at its first write: from
\* there on, the port it has still to write counts as written.
Committed(t) == /\ cmd[t] # Idle /\ pc[t] \in {"write", "copy"}
                /\ todo[t] # WriteOrder(cmd[t].motor)
Effective == [p \in OutPort |->
  IF \E t \in Commander : Committed(t) /\ p = Head(todo[t])
  THEN copy[CHOOSE t \in Commander : Committed(t) /\ p = Head(todo[t])][p]
  ELSE port[p]]

Panel == INSTANCE ActuatorPanel WITH
           powered <- [m \in Motor |-> Powered(Effective, m)],
           call <- cmd,
           effective <- {t \in Commander : Committed(t)}
PanelSpec == Panel!Spec
===============================================================================
