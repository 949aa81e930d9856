----------------------------- MODULE MCPortImage ------------------------------
(* Instances of PortImage: who commands which motors, and what the page posts. *)
EXTENDS PortImage, TLC

CONSTANTS kbd, mqtt    \* main's keyboard loop, Paho's callback thread

CommandsFor(motors) == [motor : motors, dir : Direction]

\* Every kind of command: a motor of port 4, the station that uses both ports,
\* the station of port 5; the same motor from both threads and different ones.
SerialRepertoire ==
  kbd :> [motor : {"x", "ls"}, dir : {0, 1}] @@
  mqtt :> [motor : {"rs"}, dir : {0, 1}] \cup [motor : {"x", "ls"}, dir : {-1}]

\* The threads command motors of one port, a different one each.
RaceRepertoire == kbd :> CommandsFor({"x"}) @@ mqtt :> CommandsFor({"z"})

\* Both command one motor of port 4, against each other, and the two-port
\* station.
RaceStationRepertoire ==
  kbd :> [motor : {"x"}, dir : {0, 1}] \cup [motor : {"ls"}, dir : {1}]
  @@ mqtt :> [motor : {"x"}, dir : {-1}] \cup [motor : {"ls"}, dir : {-1}]

NoManual == {}
\* The page switches one motor on by hand, or everything off.
SomeManual == {AllOff, [AllOff EXCEPT ![4] = {1}]}
===============================================================================
