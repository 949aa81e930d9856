-------------------------------- MODULE Wiring --------------------------------
(* The digital wiring of the warehouse kit, as serverApp/localControl.cpp uses *)
(* it: ports 4 and 5 drive five motors, two wires each, and ports 0 to 3 carry *)
(* the sensors.  A port byte is the set of its bits that are 1.  Nothing here  *)
(* has state; the modules that do are built from these operators.              *)
EXTENDS Integers

Bit     == 0..7
OutPort == {4, 5}
Byte    == SUBSET Bit
Image   == [OutPort -> Byte]
AllOff  == [p \in OutPort |-> {}]

Motor     == {"x", "y", "z", "ls", "rs"}
Direction == {-1, 0, 1}
Command   == [motor : Motor, dir : Direction]

\* A wire is a <<port, bit>> pair.  Forward is what the command value 1 switches
\* on: x right, y outside, z up, a station inside.
Forward  == [x |-> <<4, 0>>, y |-> <<4, 3>>, z |-> <<4, 5>>,
             ls |-> <<4, 7>>, rs |-> <<5, 1>>]
Backward == [x |-> <<4, 1>>, y |-> <<4, 4>>, z |-> <<4, 6>>,
             ls |-> <<5, 0>>, rs |-> <<5, 2>>]

Wires(m)        == {Forward[m], Backward[m]}
PortsOf(m)      == {w[1] : w \in Wires(m)}
IsOn(image, w)  == w[2] \in image[w[1]]
OnWires(image)  == {w \in OutPort \X Bit : IsOn(image, w)}

\* The wire a command leaves switched on; none for a stop.
WireFor(c) == CASE c.dir = 1  -> {Forward[c.motor]}
                [] c.dir = -1 -> {Backward[c.motor]}
                [] c.dir = 0  -> {}

\* Faults for the mutants: the opposite wire is not cleared; the mask of the
\* motor is set instead of one bit.
DriveWithoutClear(image, c) ==
  [p \in OutPort |-> {b \in Bit : <<p, b>> \in WireFor(c) \/ b \in image[p]}]
DriveBoth(image, c) ==
  [p \in OutPort |-> {b \in Bit : <<p, b>> \in Wires(c.motor) \/ b \in image[p]}]

\* What the setBitValue calls of a move or stop function do to the bytes it has
\* read: both wires of the motor are cleared but the one the command asks for.
Drive(image, c) ==
  [p \in OutPort |->
     {b \in Bit : \/ <<p, b>> \in WireFor(c)
                  \/ b \in image[p] /\ <<p, b>> \notin Wires(c.motor)}]

\* A fault for the mutants: every port is written twice.
WriteTwice(m) == <<Forward[m][1], Forward[m][1]>>

\* Only the left station has a wire on each port; its functions read port 4
\* first and write port 5 first.
ReadOrder(m)  == IF m = "ls" THEN <<4, 5>> ELSE <<Forward[m][1]>>
WriteOrder(m) == IF m = "ls" THEN <<5, 4>> ELSE <<Forward[m][1]>>

\* The directions in which a motor is powered: one at most, if all is well.
Powered(image, m) ==
  {d \in {-1, 1} : IsOn(image, IF d = 1 THEN Forward[m] ELSE Backward[m])}
Only(d) == IF d = 0 THEN {} ELSE {d}
Interlocked(image, m) == Powered(image, m) # {-1, 1}

\* The motors with both wires on one port.
OnePortMotor == Motor \ {"ls"}
-------------------------------------------------------------------------------
\* What the get...Direction functions return.  getZDirection tests the bits of
\* the y motor, and the station functions test the outward wire first.
GetXDirection(image) == IF 0 \in image[4] THEN 1 ELSE IF 1 \in image[4] THEN -1 ELSE 0
GetYDirection(image) == IF 3 \in image[4] THEN 1 ELSE IF 4 \in image[4] THEN -1 ELSE 0
GetZDirection(image) == GetYDirection(image)
GetLeftStationDirection(image) ==
  IF 0 \in image[5] THEN -1 ELSE IF 7 \in image[4] THEN 1 ELSE 0
GetRightStationDirection(image) ==
  IF 2 \in image[5] THEN -1 ELSE IF 1 \in image[5] THEN 1 ELSE 0
===============================================================================
