--------------------------- MODULE PortImage_proof ----------------------------
(* What is proved of PortImage for every set of threads, every repertoire and  *)
(* every page: type correctness, Interlock, NoPhantomMotion and CopiesSafe     *)
(* however the commands overlap; Faithful and the refinement of ActuatorPanel  *)
(* when no two that use the same port do.                                      *)
EXTENDS PortImage, TLAPS

USE DEF OutPort
-------------------------------------------------------------------------------
(* The wiring.                                                                 *)

\* Every motor has two different wires, no wire belongs to two motors.
LEMMA WiresDiffer ==
  /\ \A m \in Motor : /\ Forward[m] \in OutPort \X Bit
                      /\ Backward[m] \in OutPort \X Bit
                      /\ Forward[m] # Backward[m]
  /\ \A m, n \in Motor : m # n => Wires(m) \cap Wires(n) = {}
BY DEF Motor, Forward, Backward, Wires, Bit

\* Both wires of a one-port motor are on the same port.
LEMMA OnePort == \A m \in OnePortMotor : /\ m \in Motor
                                         /\ Forward[m][1] = Backward[m][1]
BY DEF OnePortMotor, Motor, Forward, Backward

LEMMA InterlockedMeans ==
  ASSUME NEW image, NEW m
  PROVE  Interlocked(image, m) <=>
           ~(IsOn(image, Forward[m]) /\ IsOn(image, Backward[m]))
<1>1. Powered(image, m) = {-1, 1} <=> -1 \in Powered(image, m) /\ 1 \in Powered(image, m)
  BY DEF Powered
<1>2. 1 \in Powered(image, m) <=> IsOn(image, Forward[m])
  BY DEF Powered
<1>3. -1 \in Powered(image, m) <=> IsOn(image, Backward[m])
  BY DEF Powered
<1> QED BY <1>1, <1>2, <1>3 DEF Interlocked

\* The move and stop functions write bytes, ...
LEMMA DriveType ==
  ASSUME NEW image \in Image, NEW c \in Command
  PROVE  Drive(image, c) \in Image
BY DEF Drive, Image, Byte

\* ... in which the wires of their motor are set as commanded and all the others
\* are as they were read.
LEMMA DriveWire ==
  ASSUME NEW image \in Image, NEW c \in Command, NEW w \in OutPort \X Bit
  PROVE  IsOn(Drive(image, c), w) <=>
           w \in WireFor(c) \/ (IsOn(image, w) /\ w \notin Wires(c.motor))
<1>1. PICK p \in OutPort, b \in Bit : w = <<p, b>>
  OBVIOUS
<1> QED BY <1>1 DEF IsOn, Drive

LEMMA CommandFields ==
  ASSUME NEW c \in Command
  PROVE  /\ c.motor \in Motor /\ c.dir \in Direction
         /\ WireFor(c) \subseteq Wires(c.motor)
         /\ WireFor(c) \subseteq OutPort \X Bit
         /\ ~(Forward[c.motor] \in WireFor(c) /\ Backward[c.motor] \in WireFor(c))
<1>1. c.motor \in Motor /\ c.dir \in Direction
  BY DEF Command
<1>2. WireFor(c) = {} \/ WireFor(c) = {Forward[c.motor]} \/ WireFor(c) = {Backward[c.motor]}
  BY <1>1 DEF WireFor, Direction
<1> QED BY <1>1, <1>2, WiresDiffer DEF Wires

\* They keep every motor interlocked that is interlocked in what they read.
LEMMA DriveInterlock ==
  ASSUME NEW image \in Image, NEW c \in Command, NEW m \in Motor,
         Interlocked(image, m)
  PROVE  Interlocked(Drive(image, c), m)
<1> USE WiresDiffer, CommandFields
<1>1. CASE m = c.motor
  <2>1. Forward[m] \in Wires(c.motor) /\ Backward[m] \in Wires(c.motor)
    BY <1>1 DEF Wires
  <2> QED BY <1>1, <2>1, DriveWire, InterlockedMeans
<1>2. CASE m # c.motor
  <2>1. Forward[m] \notin Wires(c.motor) /\ Backward[m] \notin Wires(c.motor)
    BY <1>2 DEF Wires
  <2>2. Forward[m] \notin WireFor(c) /\ Backward[m] \notin WireFor(c)
    BY <2>1
  <2> QED BY <2>1, <2>2, DriveWire, InterlockedMeans
<1> QED BY <1>1, <1>2

\* A byte taken from another interlocked image leaves an image interlocked.
LEMMA MixInterlock ==
  ASSUME NEW image \in Image, NEW other \in Image, NEW p \in OutPort,
         NEW m \in OnePortMotor, Interlocked(image, m), Interlocked(other, m)
  PROVE  Interlocked([image EXCEPT ![p] = other[p]], m)
<1> DEFINE mix == [image EXCEPT ![p] = other[p]]
<1>1. Forward[m][1] = Backward[m][1] /\ Forward[m][1] \in OutPort
  BY OnePort, WiresDiffer
<1>2. CASE Forward[m][1] = p
  <2>1. mix[Forward[m][1]] = other[Forward[m][1]]
    BY <1>1, <1>2 DEF Image
  <2> QED BY <2>1, <1>1, InterlockedMeans DEF IsOn
<1>3. CASE Forward[m][1] # p
  <2>1. mix[Forward[m][1]] = image[Forward[m][1]]
    BY <1>1, <1>3 DEF Image
  <2> QED BY <2>1, <1>1, InterlockedMeans DEF IsOn
<1> QED BY <1>2, <1>3
-------------------------------------------------------------------------------
(* Type correctness.                                                           *)

LEMMA Orders ==
  ASSUME NEW m
  PROVE  /\ ReadOrder(m) = <<4, 5>> /\ WriteOrder(m) = <<5, 4>>
         \/ /\ ReadOrder(m) = <<Forward[m][1]>> /\ WriteOrder(m) = <<Forward[m][1]>>
BY DEF ReadOrder, WriteOrder

LEMMA PortsLeft ==
  ASSUME NEW s \in PortList,
         s # <<>>, Tail(s) # <<>>
  PROVE  Tail(s) \in {<<4>>, <<5>>}
<1>1. Tail(<<4>>) = <<>> /\ Tail(<<5>>) = <<>>
  OBVIOUS
<1>2. Tail(<<4, 5>>) = <<5>> /\ Tail(<<5, 4>>) = <<4>>
  OBVIOUS
<1> QED BY <1>1, <1>2 DEF PortList

\* What the variables contain, whatever the threads do and wherever they are
\* interrupted.
THEOREM TypeCorrect == Spec => []TypeOK
<1> USE CommanderAssumption, RepertoireAssumption, ManualAssumption
<1>1. Init => TypeOK
  BY DEF Init, TypeOK, PortList, AllOff, Image, Byte, Direction
<1>2. TypeOK /\ [Next]_vars => TypeOK'
  <2> SUFFICES ASSUME TypeOK, [Next]_vars PROVE TypeOK'
    OBVIOUS
  <2> USE DEF TypeOK, PortList
  <2>1. ASSUME NEW t \in Commander, ReadMore(t) PROVE TypeOK'
    <3>1. PICK p \in OutPort :
            /\ ReadPort(t, p) /\ Tail(todo[t]) # <<>>
            /\ todo' = [todo EXCEPT ![t] = Tail(@)]
            /\ copy' = [copy EXCEPT ![t][p] = port[p]]
            /\ UNCHANGED pc
      BY <2>1 DEF ReadMore
    <3>2. Tail(todo[t]) \in {<<4>>, <<5>>}
      BY <3>1, PortsLeft DEF ReadPort
    <3>3. copy' \in [Commander -> Image]
      BY <3>1 DEF Image
    <3> QED BY <3>1, <3>2, <3>3 DEF ReadPort, history
  <2>2. ASSUME NEW t \in Commander, ReadLast(t) PROVE TypeOK'
    <3>1. PICK p \in OutPort :
            /\ ReadPort(t, p)
            /\ todo' = [todo EXCEPT ![t] = WriteOrder(cmd[t].motor)]
            /\ copy' = [copy EXCEPT ![t] = Drive([@ EXCEPT ![p] = port[p]], cmd[t])]
            /\ pc' = [pc EXCEPT ![t] = "write"]
      BY <2>2 DEF ReadLast
    <3>2. cmd[t] \in Command /\ cmd[t].motor \in Motor
      BY <3>1, CommandFields DEF ReadPort
    <3>3. copy' \in [Commander -> Image]
      <4>1. [copy[t] EXCEPT ![p] = port[p]] \in Image
        BY DEF Image
      <4> QED BY <3>1, <3>2, <4>1, DriveType
    <3>4. Forward[cmd[t].motor][1] \in {4, 5}
      BY <3>2, WiresDiffer
    <3>5. WriteOrder(cmd[t].motor) \in {<<4>>, <<5>>, <<5, 4>>}
      BY <3>4, Orders
    <3> QED BY <3>1, <3>3, <3>5 DEF ReadPort, history
  <2>3. ASSUME NEW t \in Commander, BeginWrite(t) PROVE TypeOK'
    BY <2>3 DEF BeginWrite, history
  <2>4. ASSUME NEW t \in Commander, WriteMore(t) PROVE TypeOK'
    <3>1. PICK p \in OutPort :
            /\ WritePort(t, p) /\ Tail(todo[t]) # <<>>
            /\ todo' = [todo EXCEPT ![t] = Tail(@)]
            /\ pc' = [pc EXCEPT ![t] = "write"]
            /\ UNCHANGED <<cmd, copy, wanted>>
      BY <2>4 DEF WriteMore
    <3>2. asked' \subseteq OutPort \X Bit
      BY <3>1, CommandFields DEF WritePort
    <3>3. Tail(todo[t]) \in {<<4>>, <<5>>}
      BY <3>1, PortsLeft DEF WritePort
    <3> QED BY <3>1, <3>2, <3>3 DEF WritePort, Image
  <2>5. ASSUME NEW t \in Commander, WriteLast(t) PROVE TypeOK'
    <3>1. PICK p \in OutPort :
            /\ WritePort(t, p)
            /\ todo' = [todo EXCEPT ![t] = <<>>]
            /\ pc' = [pc EXCEPT ![t] = "read"]
            /\ cmd' = [cmd EXCEPT ![t] = Idle]
            /\ copy' = [copy EXCEPT ![t] = AllOff]
            /\ wanted' = [wanted EXCEPT ![cmd[t].motor] = cmd[t].dir]
      BY <2>5 DEF WriteLast
    <3>2. cmd[t] \in Command
      BY <3>1 DEF WritePort
    <3>3. asked' \subseteq OutPort \X Bit /\ wanted' \in [Motor -> Direction]
      BY <3>1, <3>2, CommandFields DEF WritePort
    <3> QED BY <3>1, <3>3 DEF WritePort, Image, AllOff, Byte
  <2>6. ASSUME NEW t \in Commander, NEW c \in Repertoire[t], Begin(t, c)
        PROVE  TypeOK'
    <3>1. c \in Command
      OBVIOUS
    <3>2. Forward[c.motor][1] \in {4, 5}
      BY <3>1, CommandFields, WiresDiffer
    <3>3. ReadOrder(c.motor) \in {<<4>>, <<5>>, <<4, 5>>}
      BY <3>2, Orders
    <3> QED BY <2>6, <3>1, <3>3 DEF Begin, history
  <2>7. ASSUME PostManual PROVE TypeOK'
    <3>1. PICK im \in ManualImage :
            /\ port' = im
            /\ asked' = asked \cup OnWires(im)
            /\ wanted' = [m \in Motor |-> IF Powered(im, m) = {} THEN 0
                                         ELSE CHOOSE d \in Powered(im, m) : TRUE]
            /\ UNCHANGED <<running, threadVars>>
      BY <2>7 DEF PostManual
    <3>2. \A m \in Motor : Powered(im, m) # {} =>
            (CHOOSE d \in Powered(im, m) : TRUE) \in {-1, 1}
      BY DEF Powered
    <3>3. wanted' \in [Motor -> Direction]
      BY <3>1, <3>2 DEF Direction
    <3> QED BY <3>1, <3>3 DEF OnWires, threadVars
  <2>8. ASSUME Exit PROVE TypeOK'
    BY <2>8 DEF Exit, Escape, Throw, Ends, threadVars, history
  <2>9. ASSUME UNCHANGED vars PROVE TypeOK'
    BY <2>9 DEF vars, threadVars, history
  <2> QED BY <2>1, <2>2, <2>3, <2>4, <2>5, <2>6, <2>7, <2>8, <2>9 DEF Next, Step
<1> QED BY <1>1, <1>2, PTL DEF Spec
-------------------------------------------------------------------------------
(* Interlock and NoPhantomMotion.  Neither is inductive: what matters is what  *)
(* the threads have in their local copies, which CopiesSafe says.              *)

SafeInv == TypeOK /\ Interlock /\ NoPhantomMotion /\ CopiesSafe

LEMMA OnWiresMeans ==
  ASSUME NEW image \in Image, NEW w
  PROVE  w \in OnWires(image) <=> w \in OutPort \X Bit /\ IsOn(image, w)
BY DEF OnWires

LEMMA AllOffSafe ==
  /\ AllOff \in Image
  /\ OnWires(AllOff) = {}
  /\ \A m \in OnePortMotor : Interlocked(AllOff, m)
<1>1. AllOff \in Image
  BY DEF AllOff, Image, Byte
<1>2. \A w \in OutPort \X Bit : ~IsOn(AllOff, w)
  BY DEF AllOff, IsOn
<1>3. \A m \in OnePortMotor : ~IsOn(AllOff, Forward[m])
  BY <1>2, OnePort, WiresDiffer
<1> QED BY <1>1, <1>2, <1>3, InterlockedMeans DEF OnWires

\* A byte taken from another image brings only wires of one of the two.
LEMMA MixWires ==
  ASSUME NEW image \in Image, NEW other \in Image, NEW p \in OutPort
  PROVE  /\ [image EXCEPT ![p] = other[p]] \in Image
         /\ OnWires([image EXCEPT ![p] = other[p]])
              \subseteq OnWires(image) \cup OnWires(other)
<1> DEFINE mix == [image EXCEPT ![p] = other[p]]
<1>1. mix \in Image
  BY DEF Image
<1>2. ASSUME NEW w \in OnWires(mix) PROVE w \in OnWires(image) \cup OnWires(other)
  <2>1. w \in OutPort \X Bit /\ w[2] \in mix[w[1]]
    BY <1>2 DEF OnWires, IsOn
  <2>2. mix[w[1]] = other[w[1]] \/ mix[w[1]] = image[w[1]]
    BY <2>1 DEF Image
  <2> QED BY <2>1, <2>2 DEF OnWires, IsOn
<1> QED BY <1>1, <1>2

LEMMA DriveWires ==
  ASSUME NEW image \in Image, NEW c \in Command
  PROVE  OnWires(Drive(image, c)) \subseteq OnWires(image) \cup WireFor(c)
BY DriveWire, DriveType, OnWiresMeans

LEMMA SafeStep == SafeInv /\ TypeOK' /\ [Next]_vars => SafeInv'
<1> SUFFICES ASSUME SafeInv, TypeOK', [Next]_vars
             PROVE  (Interlock /\ NoPhantomMotion /\ CopiesSafe)'
  BY DEF SafeInv
<1> USE DEF SafeInv
<1> USE RepertoireAssumption, IdleAssumption, ManualAssumption
<1>a. /\ port \in Image /\ copy \in [Commander -> Image]
      /\ cmd \in [Commander -> Command \cup {Idle}]
  BY DEF TypeOK
<1>1. ASSUME NEW t \in Commander, ReadMore(t)
      PROVE  (Interlock /\ NoPhantomMotion /\ CopiesSafe)'
  <2>1. PICK p \in OutPort :
          ReadPort(t, p) /\ copy' = [copy EXCEPT ![t][p] = port[p]]
    BY <1>1 DEF ReadMore
  <2>2. UNCHANGED <<port, cmd, asked>> /\ cmd[t] # Idle
    BY <2>1 DEF ReadPort, history
  <2>3. (Interlock /\ NoPhantomMotion)'
    BY <2>2 DEF Interlock, NoPhantomMotion
  <2>4. /\ copy'[t] = [copy[t] EXCEPT ![p] = port[p]]
        /\ \A u \in Commander \ {t} : copy'[u] = copy[u]
    BY <1>a, <2>1
  <2>5. \A m \in OnePortMotor : Interlocked([copy[t] EXCEPT ![p] = port[p]], m)
    BY <1>a, MixInterlock DEF Interlock, CopiesSafe
  <2>6. OnWires(copy'[t]) \subseteq OnWires(copy[t]) \cup OnWires(port)
    BY <1>a, <2>4, MixWires
  <2>7. CopiesSafe'
    BY <2>2, <2>4, <2>5, <2>6 DEF CopiesSafe, NoPhantomMotion
  <2> QED BY <2>3, <2>7
<1>2. ASSUME NEW t \in Commander, ReadLast(t)
      PROVE  (Interlock /\ NoPhantomMotion /\ CopiesSafe)'
  <2>1. PICK p \in OutPort :
          /\ ReadPort(t, p)
          /\ copy' = [copy EXCEPT ![t] = Drive([@ EXCEPT ![p] = port[p]], cmd[t])]
    BY <1>2 DEF ReadLast
  <2>2. UNCHANGED <<port, cmd, asked>> /\ cmd[t] # Idle /\ cmd[t] \in Command
    BY <1>a, <2>1 DEF ReadPort, history
  <2>3. (Interlock /\ NoPhantomMotion)'
    BY <2>2 DEF Interlock, NoPhantomMotion
  <2> DEFINE mix == [copy[t] EXCEPT ![p] = port[p]]
  <2>4. /\ copy'[t] = Drive(mix, cmd[t])
        /\ \A u \in Commander \ {t} : copy'[u] = copy[u]
    BY <1>a, <2>1
  <2>5. mix \in Image /\ OnWires(mix) \subseteq OnWires(copy[t]) \cup OnWires(port)
    BY <1>a, MixWires
  <2>6. \A m \in OnePortMotor : Interlocked(mix, m)
    BY <1>a, MixInterlock DEF Interlock, CopiesSafe
  <2> HIDE DEF mix
  <2>7. \A m \in OnePortMotor : Interlocked(copy'[t], m)
    BY <2>2, <2>4, <2>5, <2>6, DriveInterlock, OnePort
  <2>8. OnWires(copy'[t]) \subseteq OnWires(mix) \cup WireFor(cmd[t])
    BY <2>2, <2>4, <2>5, DriveWires
  <2>9. CopiesSafe'
    BY <2>2, <2>4, <2>5, <2>7, <2>8 DEF CopiesSafe, NoPhantomMotion
  <2> QED BY <2>3, <2>9
<1>3. ASSUME NEW t \in Commander, BeginWrite(t)
      PROVE  (Interlock /\ NoPhantomMotion /\ CopiesSafe)'
  BY <1>3 DEF BeginWrite, history, Interlock, NoPhantomMotion, CopiesSafe
<1>4. ASSUME NEW t \in Commander, NEW p \in OutPort, WritePort(t, p)
      PROVE  (Interlock /\ NoPhantomMotion)' /\ asked \subseteq asked'
  <2>1. /\ cmd[t] # Idle
        /\ port' = [port EXCEPT ![p] = copy[t][p]]
        /\ asked' = asked \cup WireFor(cmd[t])
    BY <1>4 DEF WritePort
  <2>2. \A m \in OnePortMotor : Interlocked(port', m)
    BY <1>a, <2>1, MixInterlock DEF Interlock, CopiesSafe
  <2>3. OnWires(port') \subseteq OnWires(port) \cup OnWires(copy[t])
    BY <1>a, <2>1, MixWires
  <2>4. OnWires(port') \subseteq asked'
    BY <2>1, <2>3 DEF NoPhantomMotion, CopiesSafe
  <2> QED BY <2>1, <2>2, <2>4 DEF Interlock, NoPhantomMotion
<1>5. ASSUME NEW t \in Commander, WriteMore(t)
      PROVE  (Interlock /\ NoPhantomMotion /\ CopiesSafe)'
  <2>1. PICK p \in OutPort : WritePort(t, p) /\ UNCHANGED <<cmd, copy, wanted>>
    BY <1>5 DEF WriteMore
  <2>2. (Interlock /\ NoPhantomMotion)' /\ asked \subseteq asked'
    BY <1>4, <2>1
  <2> QED BY <2>1, <2>2 DEF CopiesSafe
<1>6. ASSUME NEW t \in Commander, WriteLast(t)
      PROVE  (Interlock /\ NoPhantomMotion /\ CopiesSafe)'
  <2>1. PICK p \in OutPort : /\ WritePort(t, p)
                             /\ cmd' = [cmd EXCEPT ![t] = Idle]
                             /\ copy' = [copy EXCEPT ![t] = AllOff]
    BY <1>6 DEF WriteLast
  <2>2. (Interlock /\ NoPhantomMotion)' /\ asked \subseteq asked'
    BY <1>4, <2>1
  <2>3. copy'[t] = AllOff /\ cmd'[t] = Idle
    BY <1>a, <2>1
  <2>4. \A u \in Commander \ {t} : copy'[u] = copy[u] /\ cmd'[u] = cmd[u]
    BY <1>a, <2>1
  <2> QED BY <2>2, <2>3, <2>4, AllOffSafe DEF CopiesSafe
<1>7. ASSUME NEW t \in Commander, NEW c \in Repertoire[t], Begin(t, c)
      PROVE  (Interlock /\ NoPhantomMotion /\ CopiesSafe)'
  <2>1. UNCHANGED <<port, copy, asked>> /\ cmd[t] = Idle
    BY <1>7 DEF Begin, history
  <2>2. cmd'[t] = c /\ \A u \in Commander \ {t} : cmd'[u] = cmd[u]
    BY <1>a, <1>7 DEF Begin
  <2>3. c # Idle /\ copy[t] = AllOff
    BY <2>1 DEF CopiesSafe
  <2>4. CopiesSafe'
    BY <2>1, <2>2, <2>3, AllOffSafe DEF CopiesSafe
  <2> QED BY <2>1, <2>4 DEF Interlock, NoPhantomMotion
<1>8. ASSUME PostManual PROVE (Interlock /\ NoPhantomMotion /\ CopiesSafe)'
  <2>1. PICK im \in ManualImage :
          /\ port' = im /\ asked' = asked \cup OnWires(im)
          /\ UNCHANGED <<running, threadVars>>
    BY <1>8 DEF PostManual
  <2>2. im \in Image /\ \A m \in OnePortMotor : Interlocked(im, m)
    OBVIOUS
  <2>3. CopiesSafe'
    BY <2>1 DEF CopiesSafe, threadVars
  <2> QED BY <2>1, <2>2, <2>3 DEF Interlock, NoPhantomMotion
<1>9. ASSUME Exit PROVE (Interlock /\ NoPhantomMotion /\ CopiesSafe)'
  BY <1>9 DEF Exit, Escape, Throw, Ends, threadVars, history,
              Interlock, NoPhantomMotion, CopiesSafe
<1>10. ASSUME UNCHANGED vars PROVE (Interlock /\ NoPhantomMotion /\ CopiesSafe)'
  BY <1>10 DEF vars, threadVars, history, Interlock, NoPhantomMotion, CopiesSafe
<1> QED BY <1>1, <1>2, <1>3, <1>5, <1>6, <1>7, <1>8, <1>9, <1>10 DEF Next, Step

LEMMA Safe == Spec => []SafeInv
<1>1. Init => Interlock /\ NoPhantomMotion /\ CopiesSafe
  BY AllOffSafe DEF Init, Interlock, NoPhantomMotion, CopiesSafe
<1>2. Init /\ TypeOK => SafeInv
  BY <1>1 DEF SafeInv
<1> QED BY <1>2, TypeCorrect, SafeStep, PTL DEF Spec

\* No interleaving of commands and manual posts powers a one-port motor both
\* ways at once, even though none of them is atomic.
THEOREM InterlockHolds == Spec => []Interlock
<1>1. SafeInv => Interlock
  BY DEF SafeInv
<1> QED BY <1>1, Safe, PTL

\* And none switches on a wire nobody ever asked for.
THEOREM NoPhantomMotionHolds == Spec => []NoPhantomMotion
<1>1. SafeInv => NoPhantomMotion
  BY DEF SafeInv
<1> QED BY <1>1, Safe, PTL

\* Nothing is left of a command for the next one of its thread, and the copies
\* switch on nothing that nobody asked for.
THEOREM CopiesSafeHolds == Spec => []CopiesSafe
<1>1. SafeInv => CopiesSafe
  BY DEF SafeInv
<1> QED BY <1>1, Safe, PTL
-------------------------------------------------------------------------------
(* Faithful and the refinement of ActuatorPanel hold when no two commands that *)
(* use the same port overlap.  What makes them inductive is how far each       *)
(* command has come, and that what it has read is still what the port holds.   *)

Apart == \A t, u \in Commander :
           t # u /\ cmd[t] # Idle /\ cmd[u] # Idle =>
             PortsOf(cmd[t].motor) \cap PortsOf(cmd[u].motor) = {}

\* Only the left station's commands have two reads and two writes.
Reading(t) ==
  /\ pc[t] = "read"
  /\ \/ todo[t] = ReadOrder(cmd[t].motor)
     \/ cmd[t].motor = "ls" /\ todo[t] = <<5>> /\ copy[t][4] = port[4]
Writing(t) ==
  /\ pc[t] \in {"write", "copy"}
  /\ todo[t] = WriteOrder(cmd[t].motor)
  /\ \A p \in PortsOf(cmd[t].motor) : copy[t][p] = Drive(port, cmd[t])[p]
HalfWritten(t) ==
  /\ pc[t] \in {"write", "copy"}
  /\ cmd[t].motor = "ls" /\ todo[t] = <<4>>
  /\ port[5] = Drive(port, cmd[t])[5]
  /\ copy[t][4] = Drive(port, cmd[t])[4]

Phase(t) == Reading(t) \/ Writing(t) \/ HalfWritten(t)

SerialInv ==
  /\ TypeOK
  /\ Apart
  /\ \A t \in Commander : cmd[t] # Idle => Phase(t)

LEMMA MotorPorts ==
  ASSUME NEW m \in Motor
  PROVE  /\ PortsOf(m) \subseteq OutPort /\ PortsOf(m) # {}
         /\ \A w \in Wires(m) : w[1] \in PortsOf(m)
         /\ m = "ls" => PortsOf(m) = {4, 5}
         /\ m # "ls" => PortsOf(m) = {Forward[m][1]}
BY DEF Motor, PortsOf, Wires, Forward, Backward

\* The move and stop functions change a port by its own bits only, change no port
\* without a wire of their motor, and change nothing when repeated.
LEMMA DrivePort ==
  ASSUME NEW image \in Image, NEW c \in Command, NEW p \in OutPort
  PROVE  /\ p \notin PortsOf(c.motor) => Drive(image, c)[p] = image[p]
         /\ \A other \in Image : other[p] = image[p] =>
              Drive(other, c)[p] = Drive(image, c)[p]
         /\ \A other \in Image : other[p] = Drive(image, c)[p] =>
              Drive(other, c)[p] = other[p]
<1>1. c.motor \in Motor /\ WireFor(c) \subseteq Wires(c.motor)
  BY CommandFields
<1>2. image[p] \subseteq Bit
  BY DEF Image, Byte
<1>3. ASSUME p \notin PortsOf(c.motor) PROVE Drive(image, c)[p] = image[p]
  <2>1. \A b \in Bit : <<p, b>> \notin Wires(c.motor)
    BY <1>1, <1>3, MotorPorts
  <2> QED BY <1>1, <1>2, <2>1 DEF Drive
<1>4. ASSUME NEW other \in Image, other[p] = image[p]
      PROVE  Drive(other, c)[p] = Drive(image, c)[p]
  BY <1>4 DEF Drive
<1>5. ASSUME NEW other \in Image, other[p] = Drive(image, c)[p]
      PROVE  Drive(other, c)[p] = other[p]
  <2> DEFINE Set(b)  == <<p, b>> \in WireFor(c)
             Keep(b) == <<p, b>> \notin Wires(c.motor)
  <2>1. \A b \in Bit : b \in Drive(image, c)[p] <=> Set(b) \/ (b \in image[p] /\ Keep(b))
    BY DEF Drive
  <2>2. \A b \in Bit : b \in Drive(other, c)[p] <=> Set(b) \/ (b \in other[p] /\ Keep(b))
    BY DEF Drive
  <2>3. Drive(other, c)[p] \subseteq Bit /\ other[p] \subseteq Bit
    BY DriveType DEF Image, Byte
  <2> HIDE DEF Set, Keep
  <2>4. \A b \in Bit : b \in other[p] <=> Set(b) \/ (b \in image[p] /\ Keep(b))
    BY <1>5, <2>1
  <2>5. \A b \in Bit : b \in Drive(other, c)[p] <=> b \in other[p]
    BY <2>2, <2>4
  <2> QED BY <2>3, <2>5
<1> QED BY <1>3, <1>4, <1>5

\* In terms of motors: their own one does what they say, no other one notices.
LEMMA DrivePowered ==
  ASSUME NEW image \in Image, NEW c \in Command, NEW m \in Motor
  PROVE  Powered(Drive(image, c), m) =
           IF m = c.motor THEN Only(c.dir) ELSE Powered(image, m)
<1> DEFINE after == Drive(image, c)
<1>1. c.motor \in Motor /\ c.dir \in Direction
  BY CommandFields
<1>2. Forward[m] \in OutPort \X Bit /\ Backward[m] \in OutPort \X Bit
  BY WiresDiffer
<1>3. CASE m = c.motor
  <2>1. Forward[m] \in Wires(c.motor) /\ Backward[m] \in Wires(c.motor)
    BY <1>3 DEF Wires
  <2>2. /\ IsOn(after, Forward[m]) <=> Forward[m] \in WireFor(c)
        /\ IsOn(after, Backward[m]) <=> Backward[m] \in WireFor(c)
    BY <1>2, <2>1, DriveWire
  <2>3. /\ Forward[m] \in WireFor(c) <=> c.dir = 1
        /\ Backward[m] \in WireFor(c) <=> c.dir = -1
    BY <1>1, <1>3, WiresDiffer DEF WireFor, Direction
  <2> HIDE DEF after
  <2>4. Powered(after, m) = {d \in {-1, 1} : d = c.dir}
    BY <2>2, <2>3 DEF Powered
  <2>5. Only(c.dir) = {d \in {-1, 1} : d = c.dir}
    BY <1>1 DEF Only, Direction
  <2> QED BY <1>3, <2>4, <2>5 DEF after
<1>4. CASE m # c.motor
  <2>1. /\ Forward[m] \notin Wires(c.motor) /\ Backward[m] \notin Wires(c.motor)
        /\ Forward[m] \notin WireFor(c) /\ Backward[m] \notin WireFor(c)
    BY <1>1, <1>4, WiresDiffer, CommandFields DEF Wires
  <2>2. /\ IsOn(after, Forward[m]) <=> IsOn(image, Forward[m])
        /\ IsOn(after, Backward[m]) <=> IsOn(image, Backward[m])
    BY <1>2, <2>1, DriveWire
  <2> HIDE DEF after
  <2>3. Powered(after, m) = Powered(image, m)
    BY <2>2 DEF Powered
  <2> QED BY <1>4, <2>3 DEF after
<1> QED BY <1>3, <1>4

\* A command is not affected by a step that leaves its ports and its own
\* variables alone.
LEMMA PhaseStable ==
  ASSUME NEW u \in Commander, TypeOK, TypeOK', cmd[u] # Idle, Phase(u),
         cmd'[u] = cmd[u], pc'[u] = pc[u], todo'[u] = todo[u], copy'[u] = copy[u],
         \A q \in PortsOf(cmd[u].motor) : port'[q] = port[q]
  PROVE  Phase(u)'
<1>1. cmd[u] \in Command /\ cmd[u].motor \in Motor
  BY CommandFields DEF TypeOK
<1>2. port \in Image /\ port' \in Image /\ PortsOf(cmd[u].motor) \subseteq OutPort
  BY <1>1, MotorPorts DEF TypeOK
<1>3. \A q \in PortsOf(cmd[u].motor) :
        Drive(port', cmd[u])[q] = Drive(port, cmd[u])[q]
  BY <1>1, <1>2, DrivePort
<1>4. cmd[u].motor = "ls" => PortsOf(cmd[u].motor) = {4, 5}
  BY <1>1, MotorPorts
<1> QED BY <1>3, <1>4 DEF Phase, Reading, Writing, HalfWritten

\* The port a command reads or writes next, and what is left to do then.
LEMMA NextPort ==
  ASSUME NEW t \in Commander, TypeOK, cmd[t] # Idle, Phase(t),
         NEW p, p = Head(todo[t])
  PROVE  LET m == cmd[t].motor IN
         /\ todo[t] # <<>> /\ p \in PortsOf(m)
         /\ Tail(todo[t]) # <<>> =>
              /\ m = "ls"
              /\ Reading(t) => todo[t] = <<4, 5>> /\ p = 4 /\ Tail(todo[t]) = <<5>>
              /\ ~Reading(t) => /\ Writing(t) /\ p = 5 /\ Tail(todo[t]) = <<4>>
         /\ Tail(todo[t]) = <<>> =>
              \/ m # "ls" /\ PortsOf(m) = {p}
              \/ m = "ls" /\ Reading(t) /\ p = 5 /\ copy[t][4] = port[4]
              \/ HalfWritten(t) /\ p = 4
<1> DEFINE m == cmd[t].motor
<1>1. m \in Motor
  BY CommandFields DEF TypeOK
<1>2. /\ Tail(<<4, 5>>) = <<5>> /\ Tail(<<5, 4>>) = <<4>>
      /\ \A q : Tail(<<q>>) = <<>> /\ Head(<<q>>) = q
      /\ Head(<<4, 5>>) = 4 /\ Head(<<5, 4>>) = 5
  OBVIOUS
<1>3. CASE m # "ls"
  <2>1. PortsOf(m) = {Forward[m][1]}
    BY <1>1, <1>3, MotorPorts
  <2>2. todo[t] = <<Forward[m][1]>>
    BY <1>3 DEF Phase, Reading, Writing, HalfWritten, ReadOrder, WriteOrder
  <2> QED BY <1>2, <1>3, <2>1, <2>2
<1>4. CASE m = "ls"
  <2>1. PortsOf(m) = {4, 5} /\ ReadOrder(m) = <<4, 5>> /\ WriteOrder(m) = <<5, 4>>
    BY <1>1, <1>4, MotorPorts DEF ReadOrder, WriteOrder
  <2>2. CASE Reading(t)
    <3>1. \/ todo[t] = <<4, 5>>
          \/ todo[t] = <<5>> /\ copy[t][4] = port[4]
      BY <2>1, <2>2 DEF Reading
    <3>2. CASE todo[t] = <<4, 5>>
      BY <1>2, <1>4, <2>1, <2>2, <3>2
    <3>3. CASE todo[t] = <<5>> /\ copy[t][4] = port[4]
      BY <1>2, <1>4, <2>1, <2>2, <3>3
    <3> QED BY <3>1, <3>2, <3>3
  <2>3. CASE Writing(t)
    <3>1. ~Reading(t) /\ todo[t] = <<5, 4>>
      BY <2>1, <2>3 DEF Reading, Writing
    <3> QED BY <1>2, <1>4, <2>1, <2>3, <3>1
  <2>4. CASE HalfWritten(t)
    BY <1>2, <1>4, <2>1, <2>4 DEF Reading, HalfWritten
  <2> QED BY <2>2, <2>3, <2>4 DEF Phase
<1> QED BY <1>3, <1>4

\* A step of t that changes no port but one of its own command's leaves every
\* other command as it was.
LEMMA OthersStay ==
  ASSUME SerialInv, TypeOK', NEW t \in Commander, cmd[t] # Idle,
         NEW p \in PortsOf(cmd[t].motor),
         \A q \in OutPort : q # p => port'[q] = port[q],
         cmd'[t] = cmd[t] \/ cmd'[t] = Idle,
         \A u \in Commander \ {t} : /\ cmd'[u] = cmd[u] /\ pc'[u] = pc[u]
                                   /\ todo'[u] = todo[u] /\ copy'[u] = copy[u],
         cmd'[t] # Idle => Phase(t)'
  PROVE  SerialInv'
<1>1. Apart'
  BY DEF SerialInv, Apart
<1>2. ASSUME NEW u \in Commander, u # t, cmd'[u] # Idle PROVE Phase(u)'
  <2>1. /\ cmd[u] # Idle /\ cmd'[u] = cmd[u] /\ pc'[u] = pc[u]
        /\ todo'[u] = todo[u] /\ copy'[u] = copy[u]
    BY <1>2
  <2>2. p \notin PortsOf(cmd[u].motor)
    BY <1>2, <2>1 DEF SerialInv, Apart
  <2>3. PortsOf(cmd[u].motor) \subseteq OutPort
    BY <2>1, CommandFields, MotorPorts DEF SerialInv, TypeOK
  <2>4. \A q \in PortsOf(cmd[u].motor) : port'[q] = port[q]
    BY <2>2, <2>3
  <2>5. TypeOK /\ Phase(u)
    BY <1>2, <2>1 DEF SerialInv
  <2> QED BY <2>1, <2>4, <2>5, PhaseStable
<1> QED BY <1>1, <1>2 DEF SerialInv

LEMMA SerialStep ==
  ASSUME ~Overlap, SerialInv, TypeOK', [Next]_vars
  PROVE  SerialInv'
<1> USE RepertoireAssumption, IdleAssumption, ManualAssumption
<1>a. /\ TypeOK
      /\ port \in Image /\ copy \in [Commander -> Image]
      /\ cmd \in [Commander -> Command \cup {Idle}]
      /\ pc \in [Commander -> {"read", "write", "copy"}]
      /\ todo \in [Commander -> PortList]
  BY DEF SerialInv, TypeOK
<1>b. ASSUME NEW t \in Commander, cmd[t] # Idle
      PROVE  cmd[t] \in Command /\ cmd[t].motor \in Motor /\ Phase(t)
  BY <1>a, <1>b, CommandFields DEF SerialInv
<1>1. ASSUME NEW t \in Commander, ReadMore(t) PROVE SerialInv'
  <2>1. PICK p \in OutPort :
          /\ ReadPort(t, p) /\ Tail(todo[t]) # <<>>
          /\ todo' = [todo EXCEPT ![t] = Tail(@)]
          /\ copy' = [copy EXCEPT ![t][p] = port[p]]
          /\ UNCHANGED pc
    BY <1>1 DEF ReadMore
  <2>2. /\ UNCHANGED <<port, cmd>> /\ cmd[t] # Idle /\ pc[t] = "read"
        /\ p = Head(todo[t])
    BY <2>1 DEF ReadPort
  <2>3. Reading(t)
    BY <1>b, <2>2 DEF Phase, Writing, HalfWritten
  <2>4. p \in PortsOf(cmd[t].motor)
    BY <1>a, <1>b, <2>2, NextPort
  <2>5. /\ cmd[t].motor = "ls"
        /\ p = 4 /\ Tail(todo[t]) = <<5>>
    BY <1>a, <1>b, <2>1, <2>2, <2>3, NextPort
  <2>6. copy'[t][4] = port'[4] /\ todo'[t] = <<5>>
    BY <1>a, <2>1, <2>2, <2>5 DEF Image
  <2>7. Reading(t)'
    BY <2>1, <2>2, <2>5, <2>6 DEF Reading
  <2>8. \A u \in Commander \ {t} : todo'[u] = todo[u] /\ copy'[u] = copy[u]
    BY <1>a, <2>1
  <2> QED BY <2>1, <2>2, <2>4, <2>7, <2>8, OthersStay DEF Phase
<1>2. ASSUME NEW t \in Commander, ReadLast(t) PROVE SerialInv'
  <2> DEFINE c == cmd[t]
             m == cmd[t].motor
  <2>1. PICK p \in OutPort :
          /\ ReadPort(t, p) /\ Tail(todo[t]) = <<>>
          /\ todo' = [todo EXCEPT ![t] = WriteOrder(m)]
          /\ copy' = [copy EXCEPT ![t] = Drive([@ EXCEPT ![p] = port[p]], c)]
          /\ pc' = [pc EXCEPT ![t] = "write"]
    BY <1>2 DEF ReadLast
  <2>2. /\ UNCHANGED <<port, cmd>> /\ cmd[t] # Idle /\ pc[t] = "read"
        /\ p = Head(todo[t])
    BY <2>1 DEF ReadPort
  <2>3. p \in PortsOf(m)
    BY <1>a, <1>b, <2>2, NextPort
  <2>4. \/ PortsOf(m) = {p}
        \/ m = "ls" /\ p = 5 /\ copy[t][4] = port[4]
    BY <1>a, <1>b, <2>1, <2>2, NextPort DEF HalfWritten
  <2> DEFINE mix == [copy[t] EXCEPT ![p] = port[p]]
  <2>5. mix \in Image /\ \A q \in PortsOf(m) : q \in OutPort /\ mix[q] = port[q]
    <3>1. mix \in Image /\ copy[t] \in Image
      BY <1>a DEF Image
    <3>2. mix[p] = port[p] /\ \A q \in OutPort \ {p} : mix[q] = copy[t][q]
      BY <3>1 DEF Image
    <3>3. m = "ls" => PortsOf(m) = {4, 5}
      BY <1>b, <2>2, MotorPorts
    <3> QED BY <2>4, <3>1, <3>2, <3>3
  <2>6. copy'[t] = Drive(mix, c) /\ todo'[t] = WriteOrder(m) /\ pc'[t] = "write"
    BY <1>a, <2>1
  <2>7. \A u \in Commander \ {t} : /\ todo'[u] = todo[u] /\ copy'[u] = copy[u]
                                  /\ pc'[u] = pc[u]
    BY <1>a, <2>1
  <2> HIDE DEF mix
  <2>8. \A q \in PortsOf(m) : copy'[t][q] = Drive(port, c)[q]
    BY <1>a, <1>b, <2>2, <2>5, <2>6, DrivePort
  <2>9. Writing(t)'
    BY <2>2, <2>6, <2>8 DEF Writing
  <2> QED BY <2>2, <2>3, <2>7, <2>9, OthersStay DEF Phase
<1>3. ASSUME NEW t \in Commander, BeginWrite(t) PROVE SerialInv'
  <2>1. /\ UNCHANGED <<port, cmd, todo, copy>> /\ cmd[t] # Idle /\ pc[t] = "write"
        /\ pc'[t] = "copy" /\ \A u \in Commander \ {t} : pc'[u] = pc[u]
    BY <1>3, <1>a DEF BeginWrite
  <2>2. Writing(t)' \/ HalfWritten(t)'
    <3>1. ~Reading(t)
      BY <2>1 DEF Reading
    <3>2. CASE Writing(t)
      BY <2>1, <3>2 DEF Writing
    <3>3. CASE HalfWritten(t)
      BY <2>1, <3>3 DEF HalfWritten
    <3> QED BY <1>b, <2>1, <3>1, <3>2, <3>3 DEF Phase
  <2>3. PICK p : p \in PortsOf(cmd[t].motor)
    BY <1>b, <2>1, MotorPorts
  <2> QED BY <2>1, <2>2, <2>3, OthersStay DEF Phase
<1>4. ASSUME NEW t \in Commander, WriteMore(t) PROVE SerialInv'
  <2>1. PICK p \in OutPort :
          /\ WritePort(t, p) /\ Tail(todo[t]) # <<>>
          /\ todo' = [todo EXCEPT ![t] = Tail(@)]
          /\ pc' = [pc EXCEPT ![t] = "write"]
          /\ UNCHANGED <<cmd, copy, wanted>>
    BY <1>4 DEF WriteMore
  <2>2. /\ cmd[t] # Idle /\ pc[t] = "copy" /\ p = Head(todo[t])
        /\ port' = [port EXCEPT ![p] = copy[t][p]]
    BY <2>1 DEF WritePort
  <2>3. ~Reading(t)
    BY <2>2 DEF Reading
  <2>4. p \in PortsOf(cmd[t].motor)
    BY <1>a, <1>b, <2>2, NextPort
  <2>5. /\ cmd[t].motor = "ls" /\ Writing(t)
        /\ p = 5 /\ Tail(todo[t]) = <<4>>
    BY <1>a, <1>b, <2>1, <2>2, <2>3, NextPort
  <2>6. PortsOf(cmd[t].motor) = {4, 5}
    BY <1>b, <2>2, <2>5, MotorPorts
  <2>7. copy[t][4] = Drive(port, cmd[t])[4] /\ copy[t][5] = Drive(port, cmd[t])[5]
    BY <2>5, <2>6 DEF Writing
  <2>8. port' \in Image /\ port'[5] = copy[t][5] /\ port'[4] = port[4]
    BY <1>a, <2>2, <2>5 DEF Image, TypeOK
  <2>9. /\ Drive(port', cmd[t])[5] = port'[5]
        /\ Drive(port', cmd[t])[4] = Drive(port, cmd[t])[4]
    <3>1. port \in Image /\ cmd[t] \in Command /\ 4 \in OutPort /\ 5 \in OutPort
      BY <1>a, <1>b, <2>2
    <3>2. port'[5] = Drive(port, cmd[t])[5] /\ port'[4] = port[4] /\ port' \in Image
      BY <2>7, <2>8
    <3> HIDE DEF OutPort
    <3> QED BY <3>1, <3>2, DrivePort
  <2>10. todo'[t] = <<4>> /\ pc'[t] = "write"
    BY <1>a, <2>1, <2>5
  <2>11. HalfWritten(t)'
    BY <2>1, <2>5, <2>7, <2>8, <2>9, <2>10 DEF HalfWritten
  <2>12. \A u \in Commander \ {t} : todo'[u] = todo[u] /\ pc'[u] = pc[u]
    BY <1>a, <2>1
  <2>13. \A q \in OutPort : q # p => port'[q] = port[q]
    BY <2>5, <2>8
  <2> QED BY <2>1, <2>2, <2>4, <2>11, <2>12, <2>13, OthersStay DEF Phase
<1>5. ASSUME NEW t \in Commander, WriteLast(t) PROVE SerialInv'
  <2>1. PICK p \in OutPort :
          /\ WritePort(t, p) /\ Tail(todo[t]) = <<>>
          /\ todo' = [todo EXCEPT ![t] = <<>>]
          /\ pc' = [pc EXCEPT ![t] = "read"]
          /\ cmd' = [cmd EXCEPT ![t] = Idle]
          /\ copy' = [copy EXCEPT ![t] = AllOff]
    BY <1>5 DEF WriteLast
  <2>2. /\ cmd[t] # Idle /\ p = Head(todo[t])
        /\ port' = [port EXCEPT ![p] = copy[t][p]]
    BY <2>1 DEF WritePort
  <2>3. p \in PortsOf(cmd[t].motor)
    BY <1>a, <1>b, <2>2, NextPort
  <2>4. \A q \in OutPort : q # p => port'[q] = port[q]
    BY <1>a, <2>2 DEF Image
  <2>5. cmd'[t] = Idle
    BY <1>a, <2>1
  <2>6. \A u \in Commander \ {t} : /\ cmd'[u] = cmd[u] /\ pc'[u] = pc[u]
                                  /\ todo'[u] = todo[u] /\ copy'[u] = copy[u]
    BY <1>a, <2>1
  <2> QED BY <2>2, <2>3, <2>4, <2>5, <2>6, OthersStay
<1>6. ASSUME NEW t \in Commander, NEW c \in Repertoire[t], Begin(t, c)
      PROVE  SerialInv'
  <2>1. /\ UNCHANGED <<port, copy>> /\ cmd[t] = Idle
        /\ cmd'[t] = c /\ pc'[t] = "read" /\ todo'[t] = ReadOrder(c.motor)
        /\ \A u \in Commander \ {t} :
             cmd'[u] = cmd[u] /\ pc'[u] = pc[u] /\ todo'[u] = todo[u]
    BY <1>6, <1>a DEF Begin
  <2>2. \A u \in Commander \ {t} :
          cmd[u] # Idle => PortsOf(cmd[u].motor) \cap PortsOf(c.motor) = {}
    BY <1>6 DEF Begin, Undisturbed
  <2>3. Apart'
    BY <2>1, <2>2 DEF SerialInv, Apart
  <2>4. Phase(t)'
    BY <2>1 DEF Phase, Reading
  <2>5. ASSUME NEW u \in Commander \ {t}, cmd'[u] # Idle PROVE Phase(u)'
    BY <1>a, <1>b, <2>1, <2>5, PhaseStable
  <2> QED BY <2>3, <2>4, <2>5 DEF SerialInv
<1>7. ASSUME PostManual PROVE SerialInv'
  <2>1. UNCHANGED threadVars /\ Undisturbed(OutPort)
    BY <1>7 DEF PostManual
  <2>2. ASSUME NEW t \in Commander, cmd[t] # Idle PROVE FALSE
    <3>1. PortsOf(cmd[t].motor) \cap OutPort = {}
      BY <2>1, <2>2 DEF Undisturbed
    <3> QED BY <1>b, <2>2, <3>1, MotorPorts
  <2> QED BY <2>1, <2>2 DEF threadVars, SerialInv, Apart
<1>8. ASSUME UNCHANGED <<port, threadVars>> PROVE SerialInv'
  BY <1>8 DEF threadVars, SerialInv, Apart, Phase, Reading, Writing, HalfWritten
<1>9. CASE Exit
  BY <1>8, <1>9 DEF Exit, Escape, Throw, Ends
<1>10. CASE UNCHANGED vars
  BY <1>8, <1>10 DEF vars
<1> QED BY <1>1, <1>2, <1>3, <1>4, <1>5, <1>6, <1>7, <1>9, <1>10 DEF Next, Step

LEMMA Serial == ASSUME ~Overlap PROVE Spec => []SerialInv
<1>1. Init => Apart /\ \A t \in Commander : cmd[t] = Idle
  BY DEF Init, Apart
<1>2. Init /\ TypeOK => SerialInv
  BY <1>1 DEF SerialInv
<1>3. SerialInv /\ TypeOK' /\ [Next]_vars => SerialInv'
  BY SerialStep
<1> QED BY <1>2, <1>3, TypeCorrect, PTL DEF Spec

\* With its last write a command has done all it was to do, ...
LEMMA LastWrite ==
  ASSUME SerialInv, NEW t \in Commander, NEW p \in OutPort,
         WritePort(t, p), Tail(todo[t]) = <<>>
  PROVE  port' = Drive(port, cmd[t])
<1>1. /\ port \in Image /\ cmd[t] \in Command /\ cmd[t].motor \in Motor
      /\ TypeOK /\ Phase(t) /\ cmd[t] # Idle /\ pc[t] = "copy" /\ p = Head(todo[t])
      /\ port' = [port EXCEPT ![p] = copy[t][p]]
  BY CommandFields DEF SerialInv, TypeOK, WritePort
<1>2. ~Reading(t)
  BY <1>1 DEF Reading
<1>3. \/ cmd[t].motor # "ls" /\ PortsOf(cmd[t].motor) = {p}
      \/ HalfWritten(t) /\ p = 4
  BY <1>1, <1>2, NextPort
<1>4. Drive(port, cmd[t]) \in Image
  BY <1>1, DriveType
<1>5. \A q \in OutPort : port'[q] = Drive(port, cmd[t])[q]
  <2>1. CASE cmd[t].motor # "ls" /\ PortsOf(cmd[t].motor) = {p}
    <3>1. Writing(t)
      BY <1>1, <1>2, <2>1 DEF Phase, HalfWritten
    <3>2. copy[t][p] = Drive(port, cmd[t])[p]
      BY <2>1, <3>1 DEF Writing
    <3>3. \A q \in OutPort \ {p} : port[q] = Drive(port, cmd[t])[q]
      BY <1>1, <2>1, DrivePort
    <3> QED BY <1>1, <3>2, <3>3 DEF Image
  <2>2. CASE HalfWritten(t) /\ p = 4
    BY <1>1, <2>2 DEF HalfWritten, Image
  <2> QED BY <1>3, <2>1, <2>2
<1> QED BY <1>1, <1>4, <1>5 DEF Image

\* ... and with its first of two it has touched no other motor.
LEMMA FirstWrite ==
  ASSUME SerialInv, NEW t \in Commander, NEW p \in OutPort,
         WritePort(t, p), Tail(todo[t]) # <<>>
  PROVE  /\ cmd[t].motor = "ls" /\ Writing(t) /\ p = 5 /\ Tail(todo[t]) = <<4>>
         /\ port' = [port EXCEPT ![5] = Drive(port, cmd[t])[5]]
         /\ \A m \in Motor \ {"ls"} : Powered(port', m) = Powered(port, m)
<1>1. /\ port \in Image /\ cmd[t] \in Command /\ cmd[t].motor \in Motor
      /\ TypeOK /\ Phase(t) /\ cmd[t] # Idle /\ pc[t] = "copy" /\ p = Head(todo[t])
      /\ port' = [port EXCEPT ![p] = copy[t][p]]
  BY CommandFields DEF SerialInv, TypeOK, WritePort
<1>2. ~Reading(t)
  BY <1>1 DEF Reading
<1>3. cmd[t].motor = "ls" /\ Writing(t) /\ p = 5 /\ Tail(todo[t]) = <<4>>
  BY <1>1, <1>2, NextPort
<1>4. 5 \in PortsOf(cmd[t].motor)
  BY <1>1, <1>3, NextPort
<1>5. port' = [port EXCEPT ![5] = Drive(port, cmd[t])[5]]
  BY <1>1, <1>3, <1>4 DEF Writing
<1>6. ASSUME NEW m \in Motor \ {"ls"} PROVE Powered(port', m) = Powered(port, m)
  <2>1. \A w \in Wires(m) : w \in OutPort \X Bit /\ w \notin Wires(cmd[t].motor)
                           /\ w \notin WireFor(cmd[t])
    <3>1. Wires(m) \subseteq OutPort \X Bit
      BY WiresDiffer DEF Wires
    <3>2. Wires(m) \cap Wires(cmd[t].motor) = {}
      BY <1>1, <1>3, WiresDiffer
    <3>3. WireFor(cmd[t]) \subseteq Wires(cmd[t].motor)
      BY <1>1, CommandFields
    <3> QED BY <3>1, <3>2, <3>3
  <2>2. \A w \in Wires(m) : IsOn(Drive(port, cmd[t]), w) <=> IsOn(port, w)
    BY <1>1, <2>1, DriveWire
  <2>3. \A w \in Wires(m) : port'[w[1]] = port[w[1]] \/ port'[w[1]] = Drive(port, cmd[t])[w[1]]
    BY <1>1, <1>5, <2>1 DEF Image
  <2>4. \A w \in Wires(m) : IsOn(port', w) <=> IsOn(port, w)
    BY <2>2, <2>3 DEF IsOn
  <2> QED BY <2>4 DEF Powered, Wires
<1> QED BY <1>3, <1>5, <1>6

\* The page is not part of the repository; ManualAssumption lets it power the left
\* station both ways, which no single command can be said to have done.
PageInterlocked == \A im \in ManualImage, m \in Motor : Interlocked(im, m)

\* Between its two writes a command for the left station has set its outward wire
\* and not yet its inward one.
LEMMA HalfDriven ==
  ASSUME SerialInv, NEW t \in Commander, NEW p \in OutPort,
         WritePort(t, p), Tail(todo[t]) # <<>>
  PROVE  /\ 1 \in Powered(port', "ls") <=> 1 \in Powered(port, "ls")
         /\ -1 \in Powered(port', "ls") <=> cmd[t].dir = -1
<1>1. /\ port \in Image /\ cmd[t] \in Command /\ cmd[t].motor = "ls"
      /\ port' = [port EXCEPT ![5] = Drive(port, cmd[t])[5]]
  BY FirstWrite DEF SerialInv, TypeOK, WritePort
<1>2. port'[4] = port[4] /\ port'[5] = Drive(port, cmd[t])[5]
  BY <1>1 DEF Image
<1>3. /\ Forward["ls"] = <<4, 7>> /\ Backward["ls"] = <<5, 0>>
      /\ Forward["ls"][1] = 4 /\ Backward["ls"][1] = 5
  BY DEF Forward, Backward
<1>4. 1 \in Powered(port', "ls") <=> 1 \in Powered(port, "ls")
  BY <1>2, <1>3 DEF Powered, IsOn
<1>5. -1 \in Powered(port', "ls") <=> -1 \in Powered(Drive(port, cmd[t]), "ls")
  BY <1>2, <1>3 DEF Powered, IsOn
<1>6. Powered(Drive(port, cmd[t]), "ls") = Only(cmd[t].dir)
  BY <1>1, DrivePowered DEF Motor
<1>7. -1 \in Only(cmd[t].dir) <=> cmd[t].dir = -1
  BY <1>1, CommandFields DEF Only, Direction
<1> QED BY <1>4, <1>5, <1>6, <1>7

\* What one motor is entitled to.
Obeyed(m) == /\ Powered(port, m) \subseteq Told(m)
             /\ \A d \in {-1, 1} : Told(m) = {d} => d \in Powered(port, m)

LEMMA ToldMeans ==
  ASSUME NEW m
  PROVE  /\ wanted[m] \in Told(m)
         /\ \A t \in Commander : cmd[t] # Idle /\ cmd[t].motor = m => cmd[t].dir \in Told(m)
BY DEF Told

LEMMA ToldNext == \A m : wanted'[m] \in Told(m)'
BY DEF Told

\* A motor that is powered as its last completed command said is as it should be.
LEMMA DoesAsTold ==
  ASSUME NEW m \in Motor, Powered(port', m) = Only(wanted'[m])
  PROVE  Obeyed(m)'
<1>1. wanted'[m] \in Told(m)'
  BY ToldNext
<1>2. Powered(port', m) \subseteq Told(m)'
  BY <1>1 DEF Only
<1>3. ASSUME NEW d \in {-1, 1}, Told(m)' = {d} PROVE d \in Powered(port', m)
  <2>1. wanted'[m] = d
    BY <1>1, <1>3
  <2> QED BY <2>1 DEF Only
<1> QED BY <1>2, <1>3 DEF Obeyed

\* What a motor has been told may grow, and does not change with what other
\* motors are told.
LEMMA StillObeyed ==
  ASSUME NEW m \in Motor, Obeyed(m), Powered(port', m) = Powered(port, m),
         Told(m) \subseteq Told(m)'
  PROVE  Obeyed(m)'
<1>1. Told(m) # {}
  BY ToldMeans
<1>2. ASSUME NEW d \in {-1, 1}, Told(m)' = {d} PROVE Told(m) = {d}
  BY <1>1, <1>2
<1> QED BY <1>2 DEF Obeyed

LEMMA FaithfulStep ==
  ASSUME PageInterlocked, SerialInv, Faithful, [Next]_vars
  PROVE  Faithful'
<1> USE RepertoireAssumption, IdleAssumption, ManualAssumption
<1>a. /\ TypeOK /\ port \in Image /\ wanted \in [Motor -> Direction]
      /\ cmd \in [Commander -> Command \cup {Idle}]
  BY DEF SerialInv, TypeOK
<1>b. \A m \in Motor : Obeyed(m)
  BY DEF Faithful, Obeyed
<1>c. ASSUME \A m \in Motor : Obeyed(m)' PROVE Faithful'
  BY <1>c DEF Faithful, Obeyed
<1>1. ASSUME UNCHANGED <<port, wanted>>,
             \A t \in Commander : cmd[t] # Idle => cmd'[t] = cmd[t]
      PROVE  Faithful'
  <2>1. \A m \in Motor : Told(m) \subseteq Told(m)'
    BY <1>1 DEF Told
  <2> QED BY <1>1, <1>b, <1>c, <2>1, StillObeyed
<1>2. ASSUME NEW t \in Commander, ReadMore(t) \/ ReadLast(t) \/ BeginWrite(t)
      PROVE  Faithful'
  BY <1>1, <1>2 DEF ReadMore, ReadLast, ReadPort, BeginWrite, history
<1>3. ASSUME NEW t \in Commander, WriteMore(t) PROVE Faithful'
  <2>1. PICK p \in OutPort : /\ WritePort(t, p) /\ Tail(todo[t]) # <<>>
                             /\ UNCHANGED <<cmd, wanted>>
    BY <1>3 DEF WriteMore
  <2>2. cmd[t].motor = "ls" /\ cmd[t] # Idle /\ cmd[t].dir \in Direction
    BY <1>a, <2>1, FirstWrite, CommandFields DEF WritePort
  <2>3. \A m : Told(m)' = Told(m)
    BY <2>1 DEF Told
  <2>4. ASSUME NEW m \in Motor, m # "ls" PROVE Obeyed(m)'
    <3>1. Powered(port', m) = Powered(port, m)
      BY <2>1, <2>4, FirstWrite
    <3> QED BY <1>b, <2>3, <3>1, StillObeyed
  <2>5. Obeyed("ls")'
    <3> DEFINE dir == cmd[t].dir
    <3>1. dir \in Told("ls")
      BY <2>2, ToldMeans
    <3>2. /\ 1 \in Powered(port', "ls") <=> 1 \in Powered(port, "ls")
          /\ -1 \in Powered(port', "ls") <=> dir = -1
      BY <2>1, HalfDriven
    <3>3. Powered(port', "ls") \subseteq {-1, 1} /\ Obeyed("ls") /\ "ls" \in Motor
      BY <1>b DEF Powered, Motor
    <3>4. Powered(port', "ls") \subseteq Told("ls")
      BY <3>1, <3>2, <3>3 DEF Obeyed
    <3>5. ASSUME NEW d \in {-1, 1}, Told("ls") = {d} PROVE d \in Powered(port', "ls")
      BY <3>1, <3>2, <3>3, <3>5 DEF Obeyed
    <3> QED BY <2>3, <3>4, <3>5 DEF Obeyed
  <2> QED BY <1>c, <2>4, <2>5
<1>4. ASSUME NEW t \in Commander, WriteLast(t) PROVE Faithful'
  <2>1. PICK p \in OutPort : /\ WritePort(t, p) /\ Tail(todo[t]) = <<>>
                             /\ cmd' = [cmd EXCEPT ![t] = Idle]
                             /\ wanted' = [wanted EXCEPT ![cmd[t].motor] = cmd[t].dir]
    BY <1>4 DEF WriteLast
  <2>2. port' = Drive(port, cmd[t]) /\ cmd[t] # Idle
    BY <2>1, LastWrite DEF WritePort
  <2>3. cmd[t] \in Command /\ cmd[t].motor \in Motor
    BY <1>a, <2>2, CommandFields
  <2>4. ASSUME NEW m \in Motor PROVE Obeyed(m)'
    <3>1. Powered(port', m) = IF m = cmd[t].motor THEN Only(cmd[t].dir)
                                                  ELSE Powered(port, m)
      BY <1>a, <2>2, <2>3, DrivePowered
    <3>2. CASE m = cmd[t].motor
      BY <1>a, <2>1, <3>1, <3>2, DoesAsTold
    <3>3. CASE m # cmd[t].motor
      <4>1. wanted'[m] = wanted[m]
        BY <1>a, <2>1, <3>3
      <4>2. \A u \in Commander : cmd[u] # Idle /\ cmd[u].motor = m => cmd'[u] = cmd[u]
        BY <1>a, <2>1, <3>3
      <4>3. Told(m) \subseteq Told(m)'
        BY <4>1, <4>2 DEF Told
      <4> QED BY <1>b, <3>1, <3>3, <4>3, StillObeyed
    <3> QED BY <3>2, <3>3
  <2> QED BY <1>c, <2>4
<1>5. ASSUME NEW t \in Commander, NEW c \in Repertoire[t], Begin(t, c)
      PROVE  Faithful'
  BY <1>1, <1>5, <1>a DEF Begin, history
<1>6. ASSUME PostManual PROVE Faithful'
  <2>1. PICK im \in ManualImage :
          /\ port' = im
          /\ wanted' = [m \in Motor |-> IF Powered(im, m) = {} THEN 0
                                       ELSE CHOOSE d \in Powered(im, m) : TRUE]
    BY <1>6 DEF PostManual
  <2>2. ASSUME NEW m \in Motor PROVE Powered(im, m) = Only(wanted'[m])
    <3>1. Powered(im, m) \in {{}, {-1}, {1}}
      BY DEF PageInterlocked, Interlocked, Powered
    <3>2. CASE Powered(im, m) = {}
      BY <2>1, <3>2 DEF Only
    <3>3. ASSUME NEW d \in {-1, 1}, Powered(im, m) = {d}
          PROVE  Powered(im, m) = Only(wanted'[m])
      <4>1. (CHOOSE e \in {d} : TRUE) = d
        OBVIOUS
      <4> QED BY <2>1, <3>3, <4>1 DEF Only
    <3> QED BY <3>1, <3>2, <3>3
  <2> QED BY <1>c, <2>1, <2>2, DoesAsTold
<1>7. CASE Exit
  BY <1>1, <1>7 DEF Exit, Escape, Throw, Ends, threadVars, history
<1>8. CASE UNCHANGED vars
  BY <1>1, <1>8 DEF vars, threadVars, history
<1> QED BY <1>2, <1>3, <1>4, <1>5, <1>6, <1>7, <1>8 DEF Next, Step

\* As long as commands that use the same port do not overlap, a motor is powered
\* only in directions it has been told, by the last completed command or by one
\* that is under way or was cut off when the process ended, and in the one it has
\* been told if there is no other, whatever the commands for other motors and
\* the page do.
THEOREM FaithfulHolds ==
  ASSUME ~Overlap, PageInterlocked
  PROVE  Spec => []Faithful
<1>1. Init => Faithful
  <2> SUFFICES ASSUME Init, NEW m \in Motor PROVE Obeyed(m)
    BY DEF Faithful, Obeyed
  <2>1. Powered(port, m) = {}
    BY WiresDiffer DEF Init, Powered, AllOff, IsOn
  <2>2. Told(m) = {0}
    BY DEF Init, Told
  <2> QED BY <2>1, <2>2 DEF Obeyed
<1>2. SerialInv /\ Faithful /\ [Next]_vars => Faithful'
  BY FaithfulStep
<1>3. Spec => []SerialInv
  BY Serial
<1> QED BY <1>1, <1>2, <1>3, PTL DEF Spec

\* README.md's full stop, which overlapping commands can undo, holds then.
THEOREM StopHoldsSerially ==
  ASSUME ~Overlap, PageInterlocked
  PROVE  Spec => []StopHolds
<1>1. Faithful => StopHolds
  <2> SUFFICES ASSUME Faithful, NEW m \in Motor, Quiet(m), wanted[m] = 0
               PROVE  Powered(port, m) = {}
    BY DEF StopHolds
  <2>1. Told(m) = {0}
    BY DEF Told, Quiet
  <2> QED BY <2>1 DEF Faithful, Powered
<1>2. Spec => []Faithful
  BY FaithfulHolds
<1> QED BY <1>1, <1>2, PTL
-------------------------------------------------------------------------------
(* The refinement: under the mapping of PortImage, every step of the threads   *)
(* and of the page is a step of ActuatorPanel or changes nothing of it.        *)

\* The panel's wiring is the same.
LEMMA PanelWiring ==
  /\ Panel!Motor = Motor
  /\ \A d : Panel!Only(d) = Only(d)
  /\ \A image, m : Panel!Powered(image, m) = Powered(image, m)
BY DEF Panel!Motor, Motor, Panel!Only, Only, Panel!Powered, Powered, Panel!IsOn, IsOn,
       Panel!Forward, Forward, Panel!Backward, Backward

\* A committed command has written port 5 and not port 4, and is alone.
LEMMA CommittedMeans ==
  SerialInv =>
    /\ \A t \in Commander : Committed(t) <=> cmd[t] # Idle /\ HalfWritten(t)
    /\ \A t, u \in Commander : Committed(t) /\ cmd[u] # Idle => u = t
<1> SUFFICES ASSUME SerialInv
             PROVE  /\ \A t \in Commander : Committed(t) <=> cmd[t] # Idle /\ HalfWritten(t)
                    /\ \A t, u \in Commander : Committed(t) /\ cmd[u] # Idle => u = t
  OBVIOUS
<1>1. ASSUME NEW t \in Commander PROVE Committed(t) <=> cmd[t] # Idle /\ HalfWritten(t)
  <2>1. ASSUME Committed(t) PROVE cmd[t] # Idle /\ HalfWritten(t)
    <3>1. ~Reading(t) /\ ~Writing(t) /\ cmd[t] # Idle
      BY <2>1 DEF Committed, Reading, Writing
    <3> QED BY <3>1 DEF SerialInv, Phase
  <2>2. ASSUME cmd[t] # Idle, HalfWritten(t) PROVE Committed(t)
    <3>1. <<4>> # <<5, 4>>
      <4>1. Len(<<4>>) = 1 /\ Len(<<5, 4>>) = 2
        OBVIOUS
      <4> QED BY <4>1
    <3> QED BY <2>2, <3>1 DEF HalfWritten, Committed, WriteOrder
  <2> QED BY <2>1, <2>2
<1>2. ASSUME NEW t \in Commander, NEW u \in Commander, Committed(t), cmd[u] # Idle
      PROVE  u = t
  <2>1. cmd[t] # Idle /\ cmd[t].motor = "ls"
    BY <1>1, <1>2 DEF HalfWritten
  <2>2. cmd[t].motor \in Motor /\ cmd[u].motor \in Motor
    BY <1>2, <2>1, CommandFields DEF SerialInv, TypeOK
  <2>3. PortsOf(cmd[t].motor) \cap PortsOf(cmd[u].motor) # {}
    BY <2>1, <2>2, MotorPorts
  <2> QED BY <1>2, <2>1, <2>3 DEF SerialInv, Apart
<1> QED BY <1>1, <1>2

\* What the mapping makes of the ports: they are as they are, but the one that a
\* committed command has still to write counts as written.
LEMMA EffectiveMeans ==
  SerialInv =>
    /\ (\A t \in Commander : ~Committed(t)) => Effective = port
    /\ \A t \in Commander : Committed(t) =>
         /\ Effective \in Image
         /\ Effective[4] = copy[t][4] /\ Effective[5] = port[5]
<1> SUFFICES ASSUME SerialInv
             PROVE  /\ (\A t \in Commander : ~Committed(t)) => Effective = port
                    /\ \A t \in Commander : Committed(t) =>
                         /\ Effective \in Image
                         /\ Effective[4] = copy[t][4] /\ Effective[5] = port[5]
  OBVIOUS
<1>a. port \in Image /\ copy \in [Commander -> Image]
  BY DEF SerialInv, TypeOK
<1>1. ASSUME \A t \in Commander : ~Committed(t) PROVE Effective = port
  <2>1. Effective = [p \in OutPort |-> port[p]]
    BY <1>1 DEF Effective
  <2> QED BY <1>a, <2>1 DEF Image
<1>2. ASSUME NEW t \in Commander, Committed(t)
      PROVE  /\ Effective \in Image
             /\ Effective[4] = copy[t][4] /\ Effective[5] = port[5]
  <2> DEFINE At(p) == \E u \in Commander : Committed(u) /\ p = Head(todo[u])
             Who(p) == CHOOSE u \in Commander : Committed(u) /\ p = Head(todo[u])
  <2>1. \A u \in Commander : Committed(u) => u = t
    BY <1>2, CommittedMeans DEF Committed
  <2>2. Head(todo[t]) = 4
    BY <1>2, CommittedMeans DEF HalfWritten
  <2>3. At(4) /\ ~At(5)
    BY <1>2, <2>1, <2>2
  <2>4. Who(4) = t
    <3>1. Who(4) \in Commander /\ Committed(Who(4))
      BY <2>3
    <3> QED BY <2>1, <3>1
  <2>5. Effective = [p \in OutPort |-> IF At(p) THEN copy[Who(p)][p] ELSE port[p]]
    BY DEF Effective
  <2> HIDE DEF At, Who
  <2>6. Effective[4] = copy[t][4] /\ Effective[5] = port[5]
    BY <2>3, <2>4, <2>5
  <2>7. Effective = [p \in OutPort |-> Effective[p]]
    BY <2>5
  <2> QED BY <1>a, <2>6, <2>7 DEF Image
<1> QED BY <1>1, <1>2

\* The two together, before and after a step.
MappingFact ==
  /\ \A t \in Commander : Committed(t) <=> cmd[t] # Idle /\ HalfWritten(t)
  /\ \A t, u \in Commander : Committed(t) /\ cmd[u] # Idle => u = t
  /\ (\A t \in Commander : ~Committed(t)) => Effective = port
  /\ \A t \in Commander : Committed(t) =>
       /\ Effective \in Image
       /\ Effective[4] = copy[t][4] /\ Effective[5] = port[5]

LEMMA Mapping == SerialInv => MappingFact
BY CommittedMeans, EffectiveMeans DEF MappingFact

LEMMA MappingNext == SerialInv' => MappingFact'
BY Mapping, PTL

\* A step that touches no port and no committed command leaves the panel alone.
LEMMA EffectiveStays ==
  ASSUME SerialInv, SerialInv', UNCHANGED port,
         \A t \in Commander : (Committed(t))' <=> Committed(t),
         \A t \in Commander : Committed(t) => copy'[t] = copy[t]
  PROVE  /\ Effective' = Effective
         /\ {t \in Commander : Committed(t)}' = {t \in Commander : Committed(t)}
<1>1. MappingFact /\ MappingFact'
  BY Mapping, MappingNext
<1>2. CASE \A t \in Commander : ~Committed(t)
  BY <1>1, <1>2 DEF MappingFact
<1>3. ASSUME NEW t \in Commander, Committed(t) PROVE Effective' = Effective
  <2>1. /\ Effective \in Image /\ Effective' \in Image
        /\ Effective[4] = Effective'[4] /\ Effective[5] = Effective'[5]
    BY <1>1, <1>3 DEF MappingFact
  <2> QED BY <2>1 DEF Image
<1>4. {t \in Commander : Committed(t)}' = {t \in Commander : Committed(t)}
  OBVIOUS
<1> QED BY <1>2, <1>3, <1>4

LEMMA PanelStep ==
  ASSUME ~Overlap, SerialInv, SerialInv', [Next]_vars
  PROVE  [Panel!Next]_(Panel!vars)
<1> USE RepertoireAssumption, IdleAssumption, ManualAssumption
<1> DEFINE powered   == [m \in Motor |-> Powered(Effective, m)]
           effective == {t \in Commander : Committed(t)}
<1>a. /\ TypeOK /\ port \in Image /\ cmd \in [Commander -> Command \cup {Idle}]
      /\ pc \in [Commander -> {"read", "write", "copy"}]
      /\ MappingFact /\ MappingFact'
  BY Mapping, MappingNext DEF SerialInv, TypeOK
<1>b. \A t, u \in Commander : Committed(t) /\ cmd[u] # Idle => u = t
  BY <1>a DEF MappingFact
<1>1. ASSUME UNCHANGED <<port, cmd>>,
             \A t \in Commander : (Committed(t))' <=> Committed(t),
             \A t \in Commander : Committed(t) => copy'[t] = copy[t]
      PROVE  UNCHANGED Panel!vars
  <2>1. Effective' = Effective /\ effective' = effective
    BY <1>1, EffectiveStays
  <2>2. powered' = powered
    BY <2>1
  <2> QED BY <1>1, <2>1, <2>2 DEF Panel!vars
<1>2. ASSUME NEW t \in Commander, ReadMore(t) \/ ReadLast(t) \/ BeginWrite(t)
      PROVE  UNCHANGED Panel!vars
  <2>1. /\ UNCHANGED <<port, cmd>> /\ cmd[t] # Idle
        /\ \A u \in Commander \ {t} :
             pc'[u] = pc[u] /\ todo'[u] = todo[u] /\ copy'[u] = copy[u]
    BY <1>2, <1>a DEF TypeOK, ReadMore, ReadLast, ReadPort, BeginWrite
  <2>2. \/ BeginWrite(t) /\ UNCHANGED <<todo, copy>>
        \/ ~Committed(t) /\ ~(Committed(t))'
    <3>1. CASE ReadMore(t)
      BY <3>1 DEF ReadMore, ReadPort, Committed
    <3>2. CASE ReadLast(t)
      BY <3>2, <1>a DEF ReadLast, ReadPort, Committed, TypeOK
    <3>3. CASE BeginWrite(t)
      BY <3>3 DEF BeginWrite
    <3> QED BY <1>2, <3>1, <3>2, <3>3
  <2>3. \A u \in Commander : (Committed(u))' <=> Committed(u)
    <3>1. ASSUME NEW u \in Commander, u # t PROVE (Committed(u))' <=> Committed(u)
      BY <2>1, <3>1 DEF Committed
    <3>2. (Committed(t))' <=> Committed(t)
      BY <1>a, <2>1, <2>2 DEF BeginWrite, Committed
    <3> QED BY <3>1, <3>2
  <2>4. \A u \in Commander : Committed(u) => copy'[u] = copy[u]
    BY <2>1, <2>2
  <2> QED BY <1>1, <2>1, <2>3, <2>4
<1>3. ASSUME NEW t \in Commander, WriteMore(t) PROVE Panel!Effect(t)
  <2>1. PICK p \in OutPort :
          /\ WritePort(t, p) /\ Tail(todo[t]) # <<>>
          /\ todo' = [todo EXCEPT ![t] = Tail(@)]
          /\ pc' = [pc EXCEPT ![t] = "write"]
          /\ UNCHANGED <<cmd, copy, wanted>>
    BY <1>3 DEF WriteMore
  <2>2. /\ cmd[t].motor = "ls" /\ Writing(t) /\ Tail(todo[t]) = <<4>>
        /\ port' = [port EXCEPT ![5] = Drive(port, cmd[t])[5]]
        /\ cmd[t] # Idle
    BY <2>1, FirstWrite DEF WritePort
  <2>3. cmd[t] \in Command /\ PortsOf(cmd[t].motor) = {4, 5}
    BY <1>a, <2>2, CommandFields, MotorPorts
  <2>4. ~Committed(t)
    BY <2>2 DEF Committed, Writing
  <2>5. \A u \in Commander : ~Committed(u)
    BY <1>b, <2>2, <2>4
  <2>6. (Committed(t))'
    <3>1. todo'[t] = <<4>> /\ pc'[t] = "write"
      BY <1>a, <2>1, <2>2 DEF TypeOK
    <3>2. <<4>> # <<5, 4>>
      <4>1. Len(<<4>>) = 1 /\ Len(<<5, 4>>) = 2
        OBVIOUS
      <4> QED BY <4>1
    <3> QED BY <2>1, <2>2, <3>1, <3>2 DEF Committed, WriteOrder
  <2>7. \A u \in Commander \ {t} : ~(Committed(u))'
    BY <1>a, <2>1, <2>2, <2>6 DEF MappingFact, Committed
  <2>8. effective' = effective \cup {t}
    BY <2>5, <2>6, <2>7
  <2>9. Effective = port
    BY <1>a, <2>5 DEF MappingFact
  <2>10. Effective' \in Image /\ Effective'[4] = copy[t][4] /\ Effective'[5] = port'[5]
    BY <1>a, <2>1, <2>6 DEF MappingFact
  <2>11. /\ copy[t][4] = Drive(port, cmd[t])[4]
         /\ port'[5] = Drive(port, cmd[t])[5]
    BY <1>a, <2>2, <2>3 DEF Writing, Image
  <2>12. Effective' = Drive(port, cmd[t])
    BY <1>a, <2>3, <2>10, <2>11, DriveType DEF Image
  <2>13. powered' = [powered EXCEPT ![cmd[t].motor] = Only(cmd[t].dir)]
    <3>1. powered' = [m \in Motor |-> Powered(Drive(port, cmd[t]), m)]
      BY <2>12
    <3>2. \A m \in Motor : Powered(Drive(port, cmd[t]), m) =
            IF m = cmd[t].motor THEN Only(cmd[t].dir) ELSE powered[m]
      BY <1>a, <2>3, <2>9, DrivePowered
    <3> HIDE DEF powered
    <3>3. powered = [m \in Motor |-> powered[m]]
      BY DEF powered
    <3> QED BY <3>1, <3>2, <3>3
  <2> QED BY <2>1, <2>2, <2>4, <2>8, <2>13, PanelWiring DEF Panel!Effect
<1>4. ASSUME NEW t \in Commander, WriteLast(t)
      PROVE  Panel!EffectAndReturn(t) \/ Panel!Return(t)
  <2>1. PICK p \in OutPort :
          /\ WritePort(t, p) /\ Tail(todo[t]) = <<>>
          /\ pc' = [pc EXCEPT ![t] = "read"]
          /\ cmd' = [cmd EXCEPT ![t] = Idle]
    BY <1>4 DEF WriteLast
  <2>2. port' = Drive(port, cmd[t]) /\ cmd[t] # Idle /\ cmd[t] \in Command
    BY <1>a, <2>1, LastWrite DEF WritePort
  <2>3. \A u \in Commander : ~(Committed(u))'
    <3>1. ~(Committed(t))'
      BY <1>a, <2>1 DEF Committed
    <3>2. ASSUME NEW u \in Commander \ {t} PROVE ~(Committed(u))'
      <4>1. ASSUME (Committed(u))' PROVE Committed(u)
        <5>1. cmd'[u] = cmd[u] /\ pc'[u] = pc[u] /\ todo'[u] = todo[u]
          BY <1>a, <1>4, <2>1 DEF WriteLast, TypeOK
        <5> QED BY <4>1, <5>1 DEF Committed
      <4> QED BY <1>b, <2>2, <3>2, <4>1
    <3> QED BY <3>1, <3>2
  <2>4. Effective' = Drive(port, cmd[t]) /\ effective' = {}
    BY <1>a, <2>2, <2>3 DEF MappingFact
  <2>5. CASE Committed(t)
    <3>1. effective = {t}
      BY <1>b, <2>2, <2>5 DEF Committed
    <3>2. HalfWritten(t) /\ Effective \in Image
          /\ Effective[4] = copy[t][4] /\ Effective[5] = port[5]
      BY <1>a, <2>5 DEF MappingFact
    <3>3. Effective = Drive(port, cmd[t])
      BY <1>a, <2>2, <3>2, DriveType DEF HalfWritten, Image
    <3>4. powered' = powered
      BY <2>4, <3>3
    <3>5. Panel!Return(t)
      BY <2>1, <2>4, <3>1, <3>4 DEF Panel!Return
    <3> QED BY <3>5
  <2>6. CASE ~Committed(t)
    <3>1. effective = {} /\ Effective = port
      BY <1>a, <1>b, <2>2, <2>6 DEF MappingFact
    <3>2. powered' = [powered EXCEPT ![cmd[t].motor] = Only(cmd[t].dir)]
      <4>1. powered' = [m \in Motor |-> Powered(Drive(port, cmd[t]), m)]
        BY <2>4
      <4>2. \A m \in Motor : Powered(Drive(port, cmd[t]), m) =
              IF m = cmd[t].motor THEN Only(cmd[t].dir) ELSE powered[m]
        BY <1>a, <2>2, <3>1, DrivePowered
      <4> HIDE DEF powered
      <4>3. powered = [m \in Motor |-> powered[m]]
        BY DEF powered
      <4> QED BY <4>1, <4>2, <4>3
    <3>3. Panel!EffectAndReturn(t)
      BY <2>1, <2>2, <2>4, <3>1, <3>2, PanelWiring DEF Panel!EffectAndReturn
    <3> QED BY <3>3
  <2> QED BY <2>5, <2>6
<1>5. ASSUME NEW t \in Commander, NEW c \in Repertoire[t], Begin(t, c)
      PROVE  Panel!Call(t, c)
  <2>1. /\ UNCHANGED <<port, copy>> /\ cmd[t] = Idle
        /\ cmd' = [cmd EXCEPT ![t] = c] /\ pc'[t] = "read"
        /\ \A u \in Commander \ {t} : pc'[u] = pc[u] /\ todo'[u] = todo[u]
    BY <1>5, <1>a DEF Begin, TypeOK
  <2>2. \A u \in Commander : (Committed(u))' <=> Committed(u)
    BY <1>a, <2>1 DEF Committed
  <2>3. Effective' = Effective /\ effective' = effective
    BY <2>1, <2>2, EffectiveStays
  <2>4. powered' = powered
    BY <2>3
  <2> QED BY <2>1, <2>3, <2>4 DEF Panel!Call
<1>6. ASSUME PostManual PROVE \E im \in ManualImage : Panel!Override(im)
  <2>1. PICK im \in ManualImage :
          port' = im /\ Undisturbed(OutPort) /\ UNCHANGED threadVars
    BY <1>6 DEF PostManual
  <2>2. ASSUME NEW t \in Commander PROVE cmd[t] = Idle
    <3>1. SUFFICES ASSUME cmd[t] # Idle PROVE FALSE
      OBVIOUS
    <3>2. PortsOf(cmd[t].motor) \cap OutPort = {}
      BY <2>1, <3>1 DEF Undisturbed
    <3> QED BY <1>a, <3>1, <3>2, CommandFields, MotorPorts
  <2>3. \A t \in Commander : ~Committed(t) /\ ~(Committed(t))'
    BY <2>1, <2>2 DEF Committed, threadVars
  <2>4. Effective' = im /\ UNCHANGED effective
    BY <1>a, <2>1, <2>3 DEF MappingFact
  <2>5. powered' = [m \in Motor |-> Powered(im, m)]
    BY <2>4
  <2> QED BY <2>1, <2>4, <2>5, PanelWiring DEF Panel!Override, threadVars
<1>7. ASSUME UNCHANGED <<port, threadVars>> PROVE UNCHANGED Panel!vars
  BY <1>1, <1>7 DEF threadVars, Committed
<1>8. CASE Exit
  BY <1>7, <1>8 DEF Exit, Escape, Throw, Ends
<1>9. CASE UNCHANGED vars
  BY <1>7, <1>9 DEF vars
<1> QED BY <1>2, <1>3, <1>4, <1>5, <1>6, <1>8, <1>9 DEF Next, Step, Panel!Next

\* As long as commands that use the same port do not overlap, two reads and two
\* writes of whole ports, interleaved with the commands of other ports, are what a
\* user takes them for: one change of one motor, between the call and the return.
THEOREM PanelSpecHolds == ASSUME ~Overlap PROVE Spec => PanelSpec
<1>1. Init => Panel!Init
  <2> SUFFICES ASSUME Init PROVE Panel!Init
    OBVIOUS
  <2>1. (\A t \in Commander : ~Committed(t)) /\ cmd = [t \in Commander |-> Idle]
    BY DEF Init, Committed
  <2>2. Effective = AllOff
    BY <2>1 DEF Init, Effective, AllOff
  <2>3. \A m \in Motor : Powered(AllOff, m) = {}
    BY WiresDiffer DEF Powered, AllOff, IsOn
  <2> QED BY <2>1, <2>2, <2>3, PanelWiring DEF Panel!Init
<1>2. SerialInv /\ SerialInv' /\ [Next]_vars => [Panel!Next]_(Panel!vars)
  BY PanelStep
<1>3. Spec => []SerialInv
  BY Serial
<1> QED BY <1>1, <1>2, <1>3, PTL DEF Spec, PanelSpec, Panel!Spec
===============================================================================
