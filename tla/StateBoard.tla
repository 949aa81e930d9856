------------------------------ MODULE StateBoard ------------------------------
(* What the rules and plans of kbase may expect of state/2 and before/3, as    *)
(* long as each property of the warehouse has one writer: a board with the     *)
(* current state of every property and the interval of the state before it.    *)
(* A new state replaces the current one and its interval in one step; the      *)
(* older interval has been wiped by then.  StateHistory implements this.       *)
EXTENDS Integers

CONSTANTS Property, ValueOf, Absent

VARIABLES now,  \* the current state of each property and its stamp, or Absent
          past  \* the state before it and its interval, or Absent

vars == <<now, past>>

Init == /\ now = [p \in Property |-> Absent]
        /\ past = [p \in Property |-> Absent]

First(p, s, stamp) ==
  /\ now[p] = Absent
  /\ now' = [now EXCEPT ![p] = [value |-> s, since |-> stamp]]
  /\ UNCHANGED past

Wipe(p) == /\ now[p] # Absent
           /\ past' = [past EXCEPT ![p] = Absent]
           /\ UNCHANGED now

Replace(p, s, stamp, end) ==
  /\ now[p] # Absent /\ past[p] = Absent
  /\ stamp \in now[p].since..end
  /\ past' = [past EXCEPT ![p] = [value |-> now[p].value, from |-> now[p].since, to |-> end]]
  /\ now' = [now EXCEPT ![p] = [value |-> s, since |-> stamp]]

\* The stamps are not bounded: they are found in the next state.
Next == \E p \in Property :
          \/ Wipe(p)
          \/ /\ now'[p] # Absent
             /\ now'[p].value \in ValueOf[p]
             /\ \/ First(p, now'[p].value, now'[p].since)
                \/ /\ past'[p] # Absent
                   /\ Replace(p, now'[p].value, now'[p].since, past'[p].to)

Spec == Init /\ [][Next]_vars
===============================================================================
