---------------------------- MODULE ActuatorPanel -----------------------------
(* What the users of serverApp expect of the actuator functions: each motor    *)
(* has one state, and a command changes the state of its motor, at one moment  *)
(* between its call and its return, and nothing else; in manual mode the page  *)
(* sets all of them at once.  PortImage implements this as long as no two      *)
(* commands that use the same port overlap, and not otherwise.                 *)
EXTENDS Wiring

CONSTANTS Commander, Repertoire, ManualImage, Idle

VARIABLES powered,  \* the directions in which each motor is powered
          call,     \* the command each thread is executing, or Idle
          effective \* the threads whose command has had its effect

vars == <<powered, call, effective>>

Init == /\ powered = [m \in Motor |-> {}]
        /\ call = [t \in Commander |-> Idle]
        /\ effective = {}

Call(t, c) == /\ call[t] = Idle
              /\ call' = [call EXCEPT ![t] = c]
              /\ UNCHANGED <<powered, effective>>

Effect(t) == /\ call[t] # Idle /\ t \notin effective
             /\ powered' = [powered EXCEPT ![call[t].motor] = Only(call[t].dir)]
             /\ effective' = effective \cup {t}
             /\ UNCHANGED call

Return(t) == /\ t \in effective
             /\ call' = [call EXCEPT ![t] = Idle]
             /\ effective' = effective \ {t}
             /\ UNCHANGED powered

\* The last write of a one-port command is its effect and its return in one.
EffectAndReturn(t) ==
  /\ call[t] # Idle /\ t \notin effective
  /\ powered' = [powered EXCEPT ![call[t].motor] = Only(call[t].dir)]
  /\ call' = [call EXCEPT ![t] = Idle]
  /\ UNCHANGED effective

Override(image) ==
  /\ powered' = [m \in Motor |-> Powered(image, m)]
  /\ UNCHANGED <<call, effective>>

Next == \/ \E t \in Commander :
             \/ \E c \in Repertoire[t] : Call(t, c)
             \/ Effect(t) \/ Return(t) \/ EffectAndReturn(t)
        \/ \E image \in ManualImage : Override(image)

Spec == Init /\ [][Next]_vars
===============================================================================
