---------------------------- MODULE SensorMonitor -----------------------------
(* The sensor thread of serverApp: startMQTTSensorsOperation and the functions *)
(* mqttMonitor*, which it calls in turn for ever.  Each of them reads its      *)
(* sensors port by port, every read under a lock of its own, compares them     *)
(* with what it has published last, and publishes when something has changed   *)
(* or ten seconds have passed.                                                 *)
(*                                                                             *)
(* The ports change under it: the page stores new sensor values, commands      *)
(* switch motors.  Here the whole image goes from one scene to another.        *)
(* The MQTT broker and its subscribers are external: what Paho accepts is told *)
(* to every subscriber, in order; nothing here depends on how long that takes. *)
EXTENDS Wiring, Sequences

CONSTANTS Scene,   \* the images of the ports that occur
          Follows, \* <<s, t>>: the image can change from s to t
          Round,   \* the monitors in the order in which the loop calls them
          MaxDrops \* how many messages Paho drops while it is connected

InPort == 0..3
Port   == InPort \cup OutPort

\* Where the sensors of an axis are, from position 1 on.  They are active-low.
\* getYPosition looks at two of the three that y has.
XSensors == [i \in 1..10 |-> IF i <= 8 THEN <<0, i - 1>> ELSE <<1, i - 9>>]
YSensors == [i \in 1..2 |-> <<1, 5 - i>>]
ZSensors == [i \in 1..10 |-> IF i <= 7 THEN <<2, 7 - i>> ELSE <<1, 15 - i>>]

Triggered(sensors, image) ==
  {i \in DOMAIN sensors : sensors[i][2] \notin image[sensors[i][1]]}

\* Each axis has one carriage, which is in front of one sensor at most.
ASSUME SceneAssumption ==
  /\ Scene \subseteq [Port -> Byte]
  /\ Follows \subseteq Scene \X Scene
  /\ \A image \in Scene, sensors \in {XSensors, YSensors, ZSensors} :
       \A i, j \in Triggered(sensors, image) : i = j

\* The loop of the get...Position functions: the first sensor in the list that
\* is triggered, or -1.
SensorFound(sensors, image) ==
  IF Triggered(sensors, image) = {} THEN -1
  ELSE CHOOSE i \in Triggered(sensors, image) :
         \A j \in Triggered(sensors, image) : i <= j

\* The sensors of z are half a position apart, and the monitor stores the float
\* of getZPosition in an int.
WholePosition(i) == IF i = -1 THEN -1 ELSE (i + 1) \div 2

\* A fault for the mutants: the masked byte instead of 0 or 1.
IsSetMasked(image, p, b) == IF b \in image[p] THEN 2^b ELSE 0

\* What getBitValue makes of a bit.
IsSet(image, p, b) == IF b \in image[p] THEN 1 ELSE 0

XPosition(image) == SensorFound(XSensors, image)
YPosition(image) == SensorFound(YSensors, image)
ZPosition(image) == WholePosition(SensorFound(ZSensors, image))
-------------------------------------------------------------------------------
\* The loop body calls all of them; instances may leave some out, since they
\* share nothing but the ports and the connection.
WholeRound == <<"x", "y", "z", "ls", "rs", "cage">>
Monitor == {"x", "y", "z", "ls", "rs", "cage"}

ASSUME RoundAssumption == Round \in Seq(Monitor) /\ Round # <<>>
ASSUME DropsAssumption == MaxDrops \in Nat

Running == {Round[k] : k \in DOMAIN Round}

\* A fault for the mutants: x forgets its second port.
PortsReadShort(m) ==
  CASE m = "x"  -> <<0, 4>>       [] m = "y"  -> <<1, 4>>
    [] m = "z"  -> <<2, 1, 4>>    [] m = "ls" -> <<5, 4, 3>>
    [] m = "rs" -> <<5, 3>>       [] m = "cage" -> <<2>>

\* The ports a monitor reads, in the order in which its getters read them.
PortsRead(m) ==
  CASE m = "x"  -> <<0, 1, 4>>    [] m = "y"  -> <<1, 4>>
    [] m = "z"  -> <<2, 1, 4>>    [] m = "ls" -> <<5, 4, 3>>
    [] m = "rs" -> <<5, 3>>       [] m = "cage" -> <<2>>

\* The messages of a monitor on the topic "sensor", in order: names and values.
\* Three directions have the name x_direction.
Message(name, value) == [name |-> name, value |-> value]
Messages(m, image) ==
  CASE m = "x" -> <<Message("x_is_at", XPosition(image)),
                    Message("x_direction", GetXDirection(image))>>
    [] m = "y" -> <<Message("y_is_at", YPosition(image)),
                    Message("x_direction", GetYDirection(image))>>
    [] m = "z" -> <<Message("z_is_at", ZPosition(image)),
                    Message("x_direction", GetZDirection(image))>>
    [] m = "ls" -> <<Message("left_station_direction", GetLeftStationDirection(image)),
                     Message("left_station_has_part", IsSet(image, 3, 0))>>
    [] m = "rs" -> <<Message("right_station_direction", GetRightStationDirection(image)),
                     Message("right_station_has_part", IsSet(image, 3, 1))>>
    [] m = "cage" -> <<Message("cage_has_part", IsSet(image, 2, 7))>>

Name == {"x_is_at", "y_is_at", "z_is_at", "x_direction",
         "left_station_direction", "left_station_has_part",
         "right_station_direction", "right_station_has_part", "cage_has_part"}

\* The static variables: what no reading equals, except for the cage, which is
\* taken to be empty.
Never == -9999
FirstCache ==
  [m \in Monitor |->
     CASE m \in {"x", "y", "z"} -> <<-1, Never>>
       [] m \in {"ls", "rs"}    -> <<Never, Never>>
       [] m = "cage"            -> <<0>>]

VARIABLES image,   \* the ports
          link,    \* "connecting", "refused", "up" or "lost"
          turn,    \* the monitor that is running: a place in Round
          todo,    \* the ports it has still to read
          regs,    \* what it has read
          outbox,  \* the messages it has still to publish
          cache,   \* the static previous_... variables of each monitor
          told,    \* the subscribers: the last value of each name
          drops,   \* the messages Paho has dropped while connected
          seen     \* history: the images while the monitor was reading

monitorVars == <<turn, todo, regs, seen>>
vars == <<image, link, monitorVars, outbox, cache, told, drops>>

Blank == [p \in Port |-> {}]

Init ==
  /\ image \in Scene
  /\ link = "connecting"
  /\ turn = 1
  /\ todo = PortsRead(Round[1])
  /\ regs = Blank
  /\ outbox = <<>>
  /\ cache = FirstCache
  /\ told = [n \in Name |-> Never]
  /\ drops = 0
  /\ seen = {image}
-------------------------------------------------------------------------------
\* The page stores sensor values, or a command has written a port.
Change ==
  /\ \E s \in Scene : <<image, s>> \in Follows /\ s # image /\ image' = s
  /\ seen' = IF outbox = <<>> THEN seen \cup {image'} ELSE {}
  /\ UNCHANGED <<link, turn, todo, regs, outbox, cache, told, drops>>

\* connect is called once, and the thread polls until it finds the connection up;
\* "refused" is also one that is lost again between two polls.  Nobody handles
\* either failure.
Connect == /\ link = "connecting" /\ link' \in {"up", "refused"}
           /\ UNCHANGED <<image, monitorVars, outbox, cache, told, drops>>
Lose    == /\ link = "up" /\ link' = "lost"
           /\ UNCHANGED <<image, monitorVars, outbox, cache, told, drops>>

\* The thread polls isConnected before its first round, and never again.
Started == link \in {"up", "lost"}

\* readDigitalU8 by one of the getters.
Read ==
  /\ Started
  /\ todo # <<>>
  /\ regs' = [regs EXCEPT ![Head(todo)] = image[Head(todo)]]
  /\ todo' = Tail(todo)
  /\ UNCHANGED <<image, link, turn, seen, outbox, cache, told, drops>>

Current == Round[turn]
HasRead == Started /\ todo = <<>> /\ outbox = <<>>
Values(m, im) == [k \in DOMAIN Messages(m, im) |-> Messages(m, im)[k].value]

\* A fault for the mutants: a change of the second value is not noticed.
ChangedFirstOnly(m) == Values(m, regs)[1] # cache[m][1]

\* One of the previous_... variables differs.
Changed(m) == Values(m, regs) # cache[m]

\* The function returns and the next one is called.
NextTurn ==
  LET next == (turn % Len(Round)) + 1 IN
  /\ turn' = next
  /\ todo' = PortsRead(Round[next])
  /\ regs' = Blank
  /\ seen' = {image}

Skip ==
  /\ HasRead
  /\ ~Changed(Current)
  /\ NextTurn
  /\ UNCHANGED <<image, link, outbox, cache, told, drops>>

\* The previous_... variables are set whatever becomes of the messages.  What
\* has been read is needed for nothing but the messages.
Announce(m) ==
  /\ HasRead
  /\ m = Current
  /\ outbox' = Messages(m, regs)
  /\ cache' = [cache EXCEPT ![m] = Values(m, regs)]
  /\ regs' = Blank
  /\ seen' = {}
  /\ UNCHANGED <<image, link, turn, todo, told, drops>>

AnnounceChange == \E m \in Monitor : Changed(m) /\ Announce(m)

\* A fault for the mutants: lastTime is reset by every call.
RefreshNever(m) == Changed(m) /\ Announce(m)

\* duration > 10000.  Time is not in the model: it may have passed, or not.
Refresh(m) == Announce(m)

\* publish; when it was the last message, the function returns.
Published ==
  /\ outbox # <<>>
  /\ outbox' = Tail(outbox)
  /\ IF Tail(outbox) = <<>> THEN NextTurn ELSE UNCHANGED monitorVars
  /\ UNCHANGED <<image, link, cache>>

Accepted ==
  /\ Published
  /\ link = "up"
  /\ told' = [told EXCEPT ![Head(outbox).name] = Head(outbox).value]
  /\ UNCHANGED drops

\* sendMessage returns an error, or the message fails later: the monitor ignores
\* the one and has no handler for the other.
Dropped ==
  /\ Published
  /\ link = "up" => drops < MaxDrops
  /\ drops' = IF link = "up" THEN drops + 1 ELSE drops
  /\ UNCHANGED told
-------------------------------------------------------------------------------
Loop == \/ Read \/ Skip \/ AnnounceChange \/ Accepted \/ Dropped
        \/ \E m \in Monitor : Refresh(m)

Next == Change \/ Connect \/ Lose \/ Loop

Spec == Init /\ [][Next]_vars

\* The thread runs, and for each monitor ten seconds have passed again and again.
FairSpec == /\ Spec
            /\ WF_vars(Loop)
            /\ \A m \in Running : SF_vars(Refresh(m))
-------------------------------------------------------------------------------
Reported == -1..10 \cup {Never}

TypeOK ==
  /\ image \in Scene
  /\ link \in {"connecting", "refused", "up", "lost"}
  /\ turn \in DOMAIN Round
  /\ todo \in Seq(Port)
  /\ regs \in [Port -> Byte]
  /\ outbox \in Seq([name : Name, value : Reported])
  /\ cache \in [Monitor -> Seq(Reported)]
  /\ told \in [Name -> Reported]
  /\ seen \subseteq Scene
  /\ drops \in 0..MaxDrops

\* A position a monitor finds is one whose sensor was triggered while it was
\* reading, although it reads two ports at two moments: no mixture of two images
\* makes a position up.  (That the carriage is nowhere can be made up.)
FoundTruly(sensors) ==
  SensorFound(sensors, regs) \in {-1} \cup UNION {Triggered(sensors, im) : im \in seen}
PositionWasTrue ==
  HasRead => /\ Current = "x" => FoundTruly(XSensors)
             /\ Current = "y" => FoundTruly(YSensors)
             /\ Current = "z" => FoundTruly(ZSensors)

\* When nothing has changed while a monitor was reading, all its previous_...
\* variables equal, after it has compared them, what its getters answer at these
\* ports: a change of an answer is not passed over.  What the getters cannot tell
\* apart (the motor of z, y outside, half positions of z) is no such change.
NoChangeMissed ==
  [][HasRead /\ ~HasRead' /\ seen = {image} =>
       cache'[Current] = Values(Current, image)]_vars

\* What the running monitors publish under a name: one value, but for the name
\* x_direction, under which three motors are reported.
Answers(n) == UNION {{Messages(m, image)[k].value :
                        k \in {j \in DOMAIN Messages(m, image) :
                                Messages(m, image)[j].name = n}} : m \in Running}

\* When the ports stay as they are and the connection holds, the last value every
\* subscriber has of a name is in the end always what the getters answer at these
\* ports, whatever Paho has dropped on the way: the refresh makes up for the
\* caches, which do not know.  Under x_direction it is the answer for one of the
\* motors, and not always the same one.
Steady == <>[][image' = image]_image /\ <>[](link = "up")
SubscribersCatchUp ==
  Steady => <>[](\A n \in Name : Answers(n) # {} => told[n] \in Answers(n))
===============================================================================
