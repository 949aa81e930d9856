---------------------------- MODULE MCStateHistory ----------------------------
(* Instances of StateHistory: the toplevel and a callback of Paho assert the   *)
(* position of x, which belongs to the toplevel, and the cage, which both set. *)
EXTENDS StateHistory, TLC

CONSTANTS user, paho

x(i) == <<"x_is_at", i>>
cage(b) == <<"cage_has_part", b>>

MCState == {x(1), x(2), cage(0), cage(1)}
MCPattern == {"x_is_at", "cage_has_part"}
MCPatternOf == [s \in MCState |-> s[1]]
MCAsserts == (user :> {x(1), x(2), cage(0)}) @@ (paho :> {cage(0), cage(1)})
===============================================================================
