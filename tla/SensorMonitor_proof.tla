------------------------- MODULE SensorMonitor_proof --------------------------
(* What is proved of SensorMonitor for any scenes, any round of monitors and   *)
(* any number of messages dropped.                                             *)
EXTENDS SensorMonitor, TLAPS

\* A sensor list has a first triggered sensor, if any.
LEMMA FirstOfSome ==
  ASSUME NEW T \in SUBSET (1..10), T # {}
  PROVE  \E i \in T : \A j \in T : i <= j
<1> SUFFICES ASSUME \A i \in T : \E j \in T : j < i PROVE FALSE
  OBVIOUS
<1>1. 1 \notin T /\ 2 \notin T /\ 3 \notin T
  OBVIOUS
<1>2. 4 \notin T /\ 5 \notin T /\ 6 \notin T
  BY <1>1
<1>3. 7 \notin T /\ 8 \notin T
  BY <1>1, <1>2
<1>4. 9 \notin T /\ 10 \notin T
  BY <1>1, <1>2, <1>3
<1>5. PICK i \in T : i \in 1..10
  OBVIOUS
<1>6. i = 1 \/ i = 2 \/ i = 3 \/ i = 4 \/ i = 5 \/ i = 6 \/ i = 7 \/ i = 8 \/ i = 9 \/ i = 10
  BY <1>5
<1> QED BY <1>1, <1>2, <1>3, <1>4, <1>5, <1>6

\* What SensorFound returns is triggered in the image it looks at.
LEMMA FoundTriggered ==
  ASSUME NEW sensors, DOMAIN sensors \subseteq 1..10, NEW im
  PROVE  /\ SensorFound(sensors, im) \in {-1} \cup Triggered(sensors, im)
         /\ SensorFound(sensors, im) \in -1..10
<1>1. Triggered(sensors, im) \in SUBSET (1..10)
  BY DEF Triggered
<1>2. CASE Triggered(sensors, im) = {}
  BY <1>2 DEF SensorFound
<1>3. CASE Triggered(sensors, im) # {}
  <2>1. \E i \in Triggered(sensors, im) : \A j \in Triggered(sensors, im) : i <= j
    BY <1>1, <1>3, FirstOfSome
  <2> QED BY <1>1, <1>3, <2>1 DEF SensorFound
<1> QED BY <1>2, <1>3

LEMMA ElementsOfSeq ==
  ASSUME NEW S, NEW s \in Seq(S)
  PROVE  Len(s) \in Nat /\ DOMAIN s = 1..Len(s) /\ \A k \in 1..Len(s) : s[k] \in S
OBVIOUS

LEMMA SensorDomains ==
  /\ DOMAIN XSensors \subseteq 1..10
  /\ DOMAIN YSensors \subseteq 1..10
  /\ DOMAIN ZSensors \subseteq 1..10
BY DEF XSensors, YSensors, ZSensors

\* Where the sensors of a monitor are, it reads.
LEMMA SensorPorts ==
  /\ \A i \in DOMAIN XSensors : XSensors[i][1] \in {0, 1}
  /\ \A i \in DOMAIN YSensors : YSensors[i][1] = 1
  /\ \A i \in DOMAIN ZSensors : ZSensors[i][1] \in {1, 2}
BY DEF XSensors, YSensors, ZSensors
-------------------------------------------------------------------------------
(* Type correctness.                                                           *)

\* What a monitor publishes has a name and a value of the right kind.
LEMMA MessagesType ==
  ASSUME NEW m \in Monitor, NEW im
  PROVE  /\ Messages(m, im) \in Seq([name : Name, value : Reported])
         /\ Messages(m, im) # <<>>
         /\ Values(m, im) \in Seq(Reported)
<1>1. /\ {GetXDirection(im), GetYDirection(im), GetZDirection(im),
          GetLeftStationDirection(im), GetRightStationDirection(im)} \subseteq Reported
      /\ \A p, b : IsSet(im, p, b) \in Reported
  BY DEF GetXDirection, GetYDirection, GetZDirection, GetLeftStationDirection,
         GetRightStationDirection, IsSet, Reported
<1>2. XPosition(im) \in Reported /\ YPosition(im) \in Reported
  BY FoundTriggered, SensorDomains DEF XPosition, YPosition, Reported
<1>3. ZPosition(im) \in Reported
  <2> DEFINE z == SensorFound(ZSensors, im)
  <2>1. z \in -1..10
    BY FoundTriggered, SensorDomains
  <2> HIDE DEF z
  <2>2. WholePosition(z) \in -1..10
    BY <2>1 DEF WholePosition
  <2> QED BY <2>2 DEF ZPosition, Reported, z
<1>4. {"x_is_at", "y_is_at", "z_is_at", "left_station_direction",
       "left_station_has_part", "right_station_direction",
       "right_station_has_part", "cage_has_part", "x_direction"} \subseteq Name
  BY DEF Name
<1> DEFINE M == [name : Name, value : Reported]
<1>5. \A n \in Name, v \in Reported : Message(n, v) \in M /\ Message(n, v).value = v
  BY DEF Message
<1>6. \A n1, n2 \in Name, v1, v2 \in Reported :
        /\ <<Message(n1, v1), Message(n2, v2)>> \in Seq(M)
        /\ <<Message(n1, v1)>> \in Seq(M)
  BY <1>5
<1>7. Messages(m, im) \in Seq(M) /\ Messages(m, im) # <<>>
  <2>1. CASE m = "x"
    BY <2>1, <1>1, <1>2, <1>4, <1>6 DEF Messages
  <2>2. CASE m = "y"
    BY <2>2, <1>1, <1>2, <1>4, <1>6 DEF Messages
  <2>3. CASE m = "z"
    BY <2>3, <1>1, <1>3, <1>4, <1>6 DEF Messages
  <2>4. CASE m = "ls"
    BY <2>4, <1>1, <1>4, <1>6 DEF Messages
  <2>5. CASE m = "rs"
    BY <2>5, <1>1, <1>4, <1>6 DEF Messages
  <2>6. CASE m = "cage"
    BY <2>6, <1>1, <1>4, <1>6 DEF Messages
  <2> QED BY <2>1, <2>2, <2>3, <2>4, <2>5, <2>6 DEF Monitor
<1>8. Values(m, im) \in Seq(Reported)
  <2>1. \A s \in Seq(M) : [k \in DOMAIN s |-> s[k].value] \in Seq(Reported)
    <3> TAKE s \in Seq(M)
    <3>1. Len(s) \in Nat /\ DOMAIN s = 1..Len(s) /\ \A k \in 1..Len(s) : s[k] \in M
      <4> HIDE DEF M
      <4> QED BY ElementsOfSeq
    <3> DEFINE v == [k \in 1..Len(s) |-> s[k].value]
    <3>2. v \in [1..Len(s) -> Reported]
      BY <3>1
    <3> HIDE DEF v
    <3>3. v \in Seq(Reported)
      BY <3>1, <3>2
    <3> QED BY <3>1, <3>3 DEF v
  <2> QED BY <1>7, <2>1 DEF Values
<1> QED BY <1>7, <1>8

\* Every monitor reads something.
LEMMA PortsReadType ==
  ASSUME NEW m \in Monitor
  PROVE  PortsRead(m) \in Seq(Port) /\ PortsRead(m) # <<>>
<1>1. {0, 1, 2, 3, 4, 5} \subseteq Port
  BY DEF Port, InPort, OutPort
<1>2. CASE m = "x"
  BY <1>1, <1>2 DEF PortsRead
<1>3. CASE m = "y"
  BY <1>1, <1>3 DEF PortsRead
<1>4. CASE m = "z"
  BY <1>1, <1>4 DEF PortsRead
<1>5. CASE m = "ls"
  BY <1>1, <1>5 DEF PortsRead
<1>6. CASE m = "rs"
  BY <1>1, <1>6 DEF PortsRead
<1>7. CASE m = "cage"
  BY <1>1, <1>7 DEF PortsRead
<1> QED BY <1>2, <1>3, <1>4, <1>5, <1>6, <1>7 DEF Monitor

\* The round has a next place, with a monitor that reads something.
LEMMA NextPlace ==
  ASSUME TypeOK
  PROVE  /\ Round[turn] \in Monitor
         /\ (turn % Len(Round)) + 1 \in DOMAIN Round
         /\ Round[(turn % Len(Round)) + 1] \in Monitor
<1>1. Len(Round) \in Nat /\ Len(Round) # 0 /\ DOMAIN Round = 1..Len(Round)
  BY RoundAssumption
<1>2. turn \in 1..Len(Round)
  BY <1>1 DEF TypeOK
<1> DEFINE n == Len(Round)
<1>3. n \in Nat /\ n > 0 /\ turn \in Nat
  BY <1>1, <1>2
<1> HIDE DEF n
<1>4. (turn % n) \in 0..(n - 1)
  BY <1>3
<1>5. (turn % n) + 1 \in 1..n
  BY <1>3, <1>4
<1>6. \A k \in DOMAIN Round : Round[k] \in Monitor
  BY RoundAssumption, ElementsOfSeq
<1> QED BY <1>1, <1>2, <1>5, <1>6 DEF n

LEMMA NextTurnType ==
  ASSUME TypeOK, NextTurn
  PROVE  /\ turn' \in DOMAIN Round /\ todo' \in Seq(Port) /\ todo' # <<>>
         /\ regs' \in [Port -> Byte] /\ seen' \subseteq Scene
<1>1. /\ turn' = (turn % Len(Round)) + 1
      /\ todo' = PortsRead(Round[(turn % Len(Round)) + 1])
      /\ regs' = Blank /\ seen' = {image}
  BY DEF NextTurn
<1>2. todo' \in Seq(Port) /\ todo' # <<>>
  BY <1>1, NextPlace, PortsReadType
<1> QED BY <1>1, <1>2, NextPlace DEF TypeOK, Blank, Byte

LEMMA TailOfSeq ==
  ASSUME NEW S, NEW s \in Seq(S), s # <<>>
  PROVE  /\ Head(s) \in S /\ Tail(s) \in Seq(S)
         /\ Head(s) = s[1] /\ 1 \in DOMAIN s
OBVIOUS

\* What the variables contain.
THEOREM TypeCorrect == Spec => []TypeOK
<1>1. Init => TypeOK
  <2> SUFFICES ASSUME Init PROVE TypeOK
    OBVIOUS
  <2>1. 1 \in DOMAIN Round /\ Round[1] \in Monitor
    BY RoundAssumption, TailOfSeq
  <2>2. todo \in Seq(Port)
    BY <2>1, PortsReadType DEF Init
  <2>3. cache \in [Monitor -> Seq(Reported)]
    <3>1. {-1, 0, Never} \subseteq Reported
      BY DEF Reported
    <3> SUFFICES ASSUME NEW m \in Monitor PROVE FirstCache[m] \in Seq(Reported)
      BY DEF Init, FirstCache
    <3>2. CASE m \in {"x", "y", "z"}
      BY <3>1, <3>2 DEF FirstCache
    <3>3. CASE m \in {"ls", "rs"}
      BY <3>1, <3>3 DEF FirstCache
    <3>4. CASE m = "cage"
      BY <3>1, <3>4 DEF FirstCache
    <3> QED BY <3>2, <3>3, <3>4 DEF Monitor
  <2>4. regs \in [Port -> Byte]
    BY DEF Init, Blank, Byte
  <2>5. told \in [Name -> Reported] /\ drops \in 0..MaxDrops
    BY DropsAssumption DEF Init, Reported
  <2> QED BY <2>1, <2>2, <2>3, <2>4, <2>5 DEF Init, TypeOK
<1>2. TypeOK /\ [Next]_vars => TypeOK'
  <2> SUFFICES ASSUME TypeOK, [Next]_vars PROVE TypeOK'
    OBVIOUS
  <2>1. CASE Change
    <3>1. image' \in Scene
      BY <2>1 DEF Change
    <3>2. seen' \subseteq Scene
      BY <2>1, <3>1 DEF Change, TypeOK
    <3> QED BY <2>1, <3>1, <3>2 DEF Change, TypeOK
  <2>2. CASE Connect \/ Lose
    BY <2>2 DEF Connect, Lose, monitorVars, TypeOK
  <2>3. CASE Read
    <3>1. Head(todo) \in Port /\ todo' \in Seq(Port)
      BY <2>3, TailOfSeq DEF Read, TypeOK
    <3>2. image \in [Port -> Byte]
      BY SceneAssumption DEF TypeOK
    <3>3. regs' \in [Port -> Byte]
      BY <2>3, <3>1, <3>2 DEF Read, TypeOK
    <3> QED BY <2>3, <3>1, <3>3 DEF Read, TypeOK
  <2>4. CASE Skip
    <3>1. NextTurn
      BY <2>4 DEF Skip
    <3> QED BY <2>4, <3>1, NextTurnType DEF Skip, TypeOK
  <2>5. ASSUME NEW m \in Monitor, Announce(m) PROVE TypeOK'
    <3>1. outbox' = Messages(m, regs) /\ cache' = [cache EXCEPT ![m] = Values(m, regs)]
      BY <2>5 DEF Announce
    <3>2. outbox' \in Seq([name : Name, value : Reported])
      BY <3>1, MessagesType
    <3>3. cache' \in [Monitor -> Seq(Reported)]
      BY <3>1, MessagesType DEF TypeOK
    <3>4. regs' \in [Port -> Byte] /\ seen' \subseteq Scene
      BY <2>5 DEF Announce, Blank, Byte
    <3> QED BY <2>5, <3>2, <3>3, <3>4 DEF Announce, TypeOK
  <2>6. ASSUME Published, told' \in [Name -> Reported],
               drops' \in 0..MaxDrops
        PROVE  TypeOK'
    <3>1. outbox' \in Seq([name : Name, value : Reported])
      BY <2>6, TailOfSeq DEF Published, TypeOK
    <3>2. CASE NextTurn
      BY <2>6, <3>1, <3>2, NextTurnType DEF Published, TypeOK
    <3>3. CASE UNCHANGED monitorVars
      BY <2>6, <3>1, <3>3 DEF Published, TypeOK, monitorVars
    <3> QED BY <2>6, <3>2, <3>3 DEF Published
  <2>7. CASE Accepted
    <3>1. Head(outbox) \in [name : Name, value : Reported]
      BY <2>7, TailOfSeq DEF Accepted, Published, TypeOK
    <3>2. told' \in [Name -> Reported]
      BY <2>7, <3>1 DEF Accepted, TypeOK
    <3> QED BY <2>6, <2>7, <3>2 DEF Accepted, Published, TypeOK
  <2>8. CASE Dropped
    <3>1. told' \in [Name -> Reported]
      BY <2>8 DEF Dropped, TypeOK
    <3>2. drops' \in 0..MaxDrops
      BY <2>8, DropsAssumption DEF Dropped, TypeOK
    <3> QED BY <2>6, <2>8, <3>1, <3>2 DEF Dropped, Published
  <2>9. CASE UNCHANGED vars
    BY <2>9 DEF vars, monitorVars, TypeOK
  <2> QED BY <2>1, <2>2, <2>3, <2>4, <2>5, <2>7, <2>8, <2>9
          DEF Next, Loop, AnnounceChange, Refresh
<1> QED BY <1>1, <1>2, PTL DEF Spec
-------------------------------------------------------------------------------
(* What has been read, was.                                                    *)

Occurs(p, s) == \E k \in DOMAIN s : s[k] = p

\* While a monitor reads, a port it has read has the value it had in one of the
\* images since the monitor was called: not necessarily the same for two ports.
ReadInv ==
  outbox = <<>> =>
    /\ image \in seen
    /\ \A p \in Port :
         Occurs(p, PortsRead(Current)) =>
           Occurs(p, todo) \/ \E im \in seen : regs[p] = im[p]

LEMMA OccursInTail ==
  ASSUME NEW S, NEW s \in Seq(S), s # <<>>, NEW p, Occurs(p, s), p # Head(s)
  PROVE  Occurs(p, Tail(s))
<1>1. PICK k \in DOMAIN s : s[k] = p
  BY DEF Occurs
<1>2. k # 1 /\ Len(s) \in Nat /\ DOMAIN s = 1..Len(s)
  BY <1>1, TailOfSeq, ElementsOfSeq
<1>3. k - 1 \in DOMAIN Tail(s) /\ Tail(s)[k - 1] = s[k]
  BY <1>2
<1> QED BY <1>1, <1>3 DEF Occurs

LEMMA ReadInvByNextTurn ==
  ASSUME NextTurn, image' = image
  PROVE  ReadInv'
<1>1. seen' = {image'} /\ todo' = PortsRead(Current')
  BY DEF NextTurn, Current
<1> QED BY <1>1 DEF ReadInv

LEMMA ReadInvHolds == Spec => []ReadInv
<1>1. Init => ReadInv
  <2> SUFFICES ASSUME Init PROVE ReadInv
    OBVIOUS
  <2>1. image \in seen /\ todo = PortsRead(Current)
    BY DEF Init, Current
  <2> QED BY <2>1 DEF ReadInv
<1>2. TypeOK /\ ReadInv /\ [Next]_vars => ReadInv'
  <2> SUFFICES ASSUME TypeOK, ReadInv, [Next]_vars PROVE ReadInv'
    OBVIOUS
  <2>1. CASE Change
    <3> SUFFICES ASSUME outbox = <<>> PROVE ReadInv'
      BY <2>1 DEF Change, ReadInv
    <3>1. seen' = seen \cup {image'}
      BY <2>1 DEF Change
    <3>2. todo' = todo /\ regs' = regs /\ Current' = Current
      BY <2>1 DEF Change, Current
    <3> QED BY <3>1, <3>2 DEF ReadInv
  <2>2. CASE Connect \/ Lose
    BY <2>2 DEF Connect, Lose, monitorVars, ReadInv, Current
  <2>3. CASE Read
    <3> SUFFICES ASSUME outbox = <<>> PROVE ReadInv'
      BY <2>3 DEF Read, ReadInv
    <3>1. /\ todo # <<>> /\ todo' = Tail(todo) /\ Current' = Current
          /\ seen' = seen /\ image' = image
          /\ regs' = [regs EXCEPT ![Head(todo)] = image[Head(todo)]]
      BY <2>3 DEF Read, Current
    <3> SUFFICES ASSUME NEW p \in Port, Occurs(p, PortsRead(Current))
                 PROVE  Occurs(p, todo') \/ \E im \in seen : regs'[p] = im[p]
      BY <3>1 DEF ReadInv
    <3>2. CASE p = Head(todo)
      <4>1. regs'[p] = image[p]
        BY <3>1, <3>2 DEF TypeOK
      <4> QED BY <4>1 DEF ReadInv
    <3>3. CASE p # Head(todo)
      <4>1. regs'[p] = regs[p]
        BY <3>1, <3>3 DEF TypeOK
      <4>2. Occurs(p, todo) => Occurs(p, todo')
        BY <3>1, <3>3, OccursInTail DEF TypeOK
      <4> QED BY <4>1, <4>2 DEF ReadInv
    <3> QED BY <3>2, <3>3
  <2>4. CASE Skip
    BY <2>4, ReadInvByNextTurn DEF Skip
  <2>5. ASSUME NEW m \in Monitor, Announce(m) PROVE ReadInv'
    <3>1. outbox' # <<>>
      BY <2>5, MessagesType DEF Announce
    <3> QED BY <3>1 DEF ReadInv
  <2>6. CASE Published
    <3>1. CASE Tail(outbox) = <<>>
      BY <2>6, <3>1, ReadInvByNextTurn DEF Published
    <3>2. CASE Tail(outbox) # <<>>
      BY <2>6, <3>2 DEF Published, ReadInv
    <3> QED BY <3>1, <3>2
  <2>7. CASE UNCHANGED vars
    BY <2>7 DEF vars, monitorVars, ReadInv, Current
  <2> QED BY <2>1, <2>2, <2>3, <2>4, <2>5, <2>6, <2>7
          DEF Next, Loop, AnnounceChange, Refresh, Accepted, Dropped
<1> QED BY <1>1, <1>2, TypeCorrect, PTL DEF Spec

LEMMA FoundTrulyFromPorts ==
  ASSUME NEW sensors, DOMAIN sensors \subseteq 1..10,
         \A i \in DOMAIN sensors : \E im \in seen :
            regs[sensors[i][1]] = im[sensors[i][1]]
  PROVE  FoundTruly(sensors)
<1>1. ASSUME NEW i \in Triggered(sensors, regs)
      PROVE  i \in UNION {Triggered(sensors, im) : im \in seen}
  BY <1>1 DEF Triggered
<1> QED BY <1>1, FoundTriggered DEF FoundTruly

LEMMA PortsOfAxes ==
  /\ \A p \in {0, 1} : Occurs(p, PortsRead("x"))
  /\ Occurs(1, PortsRead("y"))
  /\ \A p \in {1, 2} : Occurs(p, PortsRead("z"))
<1>1. /\ PortsRead("x")[1] = 0 /\ PortsRead("x")[2] = 1 /\ {1, 2} \subseteq DOMAIN PortsRead("x")
      /\ PortsRead("y")[1] = 1 /\ 1 \in DOMAIN PortsRead("y")
      /\ PortsRead("z")[1] = 2 /\ PortsRead("z")[2] = 1 /\ {1, 2} \subseteq DOMAIN PortsRead("z")
  BY DEF PortsRead
<1> QED BY <1>1 DEF Occurs

\* A position a monitor finds is one whose sensor was triggered while it was
\* reading the two ports of the axis, under two locks.
THEOREM PositionWasTrueHolds == Spec => []PositionWasTrue
<1>1. ReadInv => PositionWasTrue
  <2> SUFFICES ASSUME ReadInv, HasRead
               PROVE  /\ Current = "x" => FoundTruly(XSensors)
                      /\ Current = "y" => FoundTruly(YSensors)
                      /\ Current = "z" => FoundTruly(ZSensors)
    BY DEF PositionWasTrue
  <2>1. \A p : ~Occurs(p, todo)
    BY DEF HasRead, Occurs
  <2>2. {0, 1, 2} \subseteq Port
    BY DEF Port, InPort
  <2>3. \A p \in {0, 1, 2} :
          Occurs(p, PortsRead(Current)) => \E im \in seen : regs[p] = im[p]
    BY <2>1, <2>2 DEF ReadInv, HasRead
  <2>4. ASSUME Current = "x" PROVE FoundTruly(XSensors)
    BY <2>3, <2>4, SensorPorts, PortsOfAxes, SensorDomains, FoundTrulyFromPorts
  <2>5. ASSUME Current = "y" PROVE FoundTruly(YSensors)
    BY <2>3, <2>5, SensorPorts, PortsOfAxes, SensorDomains, FoundTrulyFromPorts
  <2>6. ASSUME Current = "z" PROVE FoundTruly(ZSensors)
    BY <2>3, <2>6, SensorPorts, PortsOfAxes, SensorDomains, FoundTrulyFromPorts
  <2> QED BY <2>4, <2>5, <2>6
<1> QED BY <1>1, ReadInvHolds, PTL
-------------------------------------------------------------------------------
(* What has changed is noticed.                                                *)

\* A monitor's values depend on the ports it reads, and on no other.
LEMMA ValuesOfPorts ==
  ASSUME NEW m \in Monitor, NEW a, NEW b,
         \A p \in Port : Occurs(p, PortsRead(m)) => a[p] = b[p]
  PROVE  Values(m, a) = Values(m, b)
<1>1. \A p, k : (k \in DOMAIN PortsRead(m) /\ PortsRead(m)[k] = p /\ p \in Port) => a[p] = b[p]
  BY DEF Occurs
<1>2. {0, 1, 2, 3, 4, 5} \subseteq Port
  BY DEF Port, InPort, OutPort
<1>3. ASSUME NEW sensors, \A i \in DOMAIN sensors : a[sensors[i][1]] = b[sensors[i][1]]
      PROVE  SensorFound(sensors, a) = SensorFound(sensors, b)
  <2>1. Triggered(sensors, a) = Triggered(sensors, b)
    BY <1>3 DEF Triggered
  <2> QED BY <2>1 DEF SensorFound
<1>4. CASE m = "x"
  <2>1. PortsRead("x") = <<0, 1, 4>>
    BY DEF PortsRead
  <2>2. a[0] = b[0] /\ a[1] = b[1] /\ a[4] = b[4]
    BY <1>1, <1>2, <1>4, <2>1
  <2>3. XPosition(a) = XPosition(b)
    BY <1>3, <2>2, SensorPorts DEF XPosition
  <2>4. GetXDirection(a) = GetXDirection(b)
    BY <2>2 DEF GetXDirection
  <2>5. Messages(m, a) = Messages(m, b)
    BY <1>4, <2>3, <2>4 DEF Messages
  <2> QED BY <2>5 DEF Values
<1>5. CASE m = "y"
  <2>1. PortsRead("y") = <<1, 4>>
    BY DEF PortsRead
  <2>2. a[1] = b[1] /\ a[4] = b[4]
    BY <1>1, <1>2, <1>5, <2>1
  <2>3. YPosition(a) = YPosition(b)
    BY <1>3, <2>2, SensorPorts DEF YPosition
  <2>4. GetYDirection(a) = GetYDirection(b)
    BY <2>2 DEF GetYDirection
  <2>5. Messages(m, a) = Messages(m, b)
    BY <1>5, <2>3, <2>4 DEF Messages
  <2> QED BY <2>5 DEF Values
<1>6. CASE m = "z"
  <2>1. PortsRead("z") = <<2, 1, 4>>
    BY DEF PortsRead
  <2>2. a[1] = b[1] /\ a[2] = b[2] /\ a[4] = b[4]
    BY <1>1, <1>2, <1>6, <2>1
  <2>3. ZPosition(a) = ZPosition(b)
    BY <1>3, <2>2, SensorPorts DEF ZPosition
  <2>4. GetZDirection(a) = GetZDirection(b)
    BY <2>2 DEF GetZDirection, GetYDirection
  <2>5. Messages(m, a) = Messages(m, b)
    BY <1>6, <2>3, <2>4 DEF Messages
  <2> QED BY <2>5 DEF Values
<1>7. CASE m = "ls"
  <2>1. PortsRead("ls") = <<5, 4, 3>>
    BY DEF PortsRead
  <2>2. a[3] = b[3] /\ a[4] = b[4] /\ a[5] = b[5]
    BY <1>1, <1>2, <1>7, <2>1
  <2>3. GetLeftStationDirection(a) = GetLeftStationDirection(b)
    BY <2>2 DEF GetLeftStationDirection
  <2>4. IsSet(a, 3, 0) = IsSet(b, 3, 0)
    BY <2>2 DEF IsSet
  <2>5. Messages(m, a) = Messages(m, b)
    BY <1>7, <2>3, <2>4 DEF Messages
  <2> QED BY <2>5 DEF Values
<1>8. CASE m = "rs"
  <2>1. PortsRead("rs") = <<5, 3>>
    BY DEF PortsRead
  <2>2. a[3] = b[3] /\ a[5] = b[5]
    BY <1>1, <1>2, <1>8, <2>1
  <2>3. GetRightStationDirection(a) = GetRightStationDirection(b)
    BY <2>2 DEF GetRightStationDirection
  <2>4. IsSet(a, 3, 1) = IsSet(b, 3, 1)
    BY <2>2 DEF IsSet
  <2>5. Messages(m, a) = Messages(m, b)
    BY <1>8, <2>3, <2>4 DEF Messages
  <2> QED BY <2>5 DEF Values
<1>9. CASE m = "cage"
  <2>1. PortsRead("cage") = <<2>>
    BY DEF PortsRead
  <2>2. a[2] = b[2]
    BY <1>1, <1>2, <1>9, <2>1
  <2>3. IsSet(a, 2, 7) = IsSet(b, 2, 7)
    BY <2>2 DEF IsSet
  <2>4. Messages(m, a) = Messages(m, b)
    BY <1>9, <2>3 DEF Messages
  <2> QED BY <2>4 DEF Values
<1> QED BY <1>4, <1>5, <1>6, <1>7, <1>8, <1>9 DEF Monitor

\* When nothing has changed since it was called, a monitor leaves the comparison
\* with its previous_... variables equal to what its getters answer at these
\* ports, which is not all there is to see there.
THEOREM NoChangeMissedHolds == Spec => NoChangeMissed
<1> DEFINE Step == HasRead /\ ~HasRead' /\ seen = {image} =>
                     cache'[Current] = Values(Current, image)
<1>1. TypeOK /\ ReadInv /\ [Next]_vars => Step
  <2> SUFFICES ASSUME TypeOK, ReadInv, [Next]_vars, HasRead, ~HasRead', seen = {image}
               PROVE  cache'[Current] = Values(Current, image)
    OBVIOUS
  <2>1. Current \in Monitor
    BY NextPlace DEF Current
  <2>2. Values(Current, regs) = Values(Current, image)
    <3>1. \A p : ~Occurs(p, todo)
      BY DEF HasRead, Occurs
    <3>2. \A p \in Port : Occurs(p, PortsRead(Current)) => regs[p] = image[p]
      BY <3>1 DEF ReadInv, HasRead
    <3> QED BY <2>1, <3>2, ValuesOfPorts
  <2>3. CASE Skip
    BY <2>2, <2>3 DEF Skip, Changed
  <2>4. ASSUME NEW m \in Monitor, Announce(m)
        PROVE  cache'[Current] = Values(Current, image)
    <3>1. m = Current /\ cache' = [cache EXCEPT ![m] = Values(m, regs)]
      BY <2>4 DEF Announce
    <3>2. DOMAIN cache = Monitor
      BY DEF TypeOK
    <3> QED BY <2>1, <2>2, <3>1, <3>2
  <2>5. CASE Change \/ Connect \/ Lose
    BY <2>5 DEF Change, Connect, Lose, monitorVars, HasRead, Started
  <2>6. CASE Read \/ Published
    BY <2>6 DEF Read, Published, HasRead
  <2>7. CASE UNCHANGED vars
    BY <2>7 DEF vars, monitorVars, HasRead, Started
  <2> QED BY <2>3, <2>4, <2>5, <2>6, <2>7
          DEF Next, Loop, AnnounceChange, Refresh, Accepted, Dropped
<1> QED BY <1>1, ReadInvHolds, TypeCorrect, PTL DEF Spec, NoChangeMissed
===============================================================================
