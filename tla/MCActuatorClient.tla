--------------------------- MODULE MCActuatorClient ---------------------------
(* Instances of ActuatorClient: a key, a command, and a command with a value   *)
(* that is no number.                                                          *)
EXTENDS ActuatorClient

key(d)  == [topic |-> "menu_keyboard", does |-> d]
json(d) == [topic |-> "actuator", does |-> d]

MCMessage == {key("returns"), json("returns"), json("throws")}
===============================================================================
