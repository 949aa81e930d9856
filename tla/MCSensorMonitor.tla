--------------------------- MODULE MCSensorMonitor ----------------------------
(* Instances of SensorMonitor: x goes to and fro between positions 8 and 10,   *)
(* whose sensors are on different ports; at 10 its motor goes right and a part *)
(* is in the cage.                                                             *)
EXTENDS SensorMonitor

\* x and y between sensors, z at position 1, no part anywhere, no motor on.
Between == [p \in Port |-> CASE p = 2 -> Bit \ {6, 7} [] p \in {0, 1} -> Bit
                             [] OTHER -> {}]
At(i) == [Between EXCEPT ![XSensors[i][1]] = @ \ {XSensors[i][2]}]
Busy(im) == [im EXCEPT ![4] = {0}, ![2] = @ \cup {7}]

\* Between two posts of the page x can pass from one of these sensors to the
\* other.
MCScene == {At(8), Busy(At(10))}
MCFollows == MCScene \X MCScene

\* One reads a position from two ports, one overwrites its x_direction, one has a
\* cache from the start.
MCRound == <<"x", "y", "cage">>
===============================================================================
