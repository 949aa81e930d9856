---------------------------- MODULE PortGate_proof -----------------------------
(* Proofs about PortGate, for every length of the warm-up and every width of   *)
(* the counter: type correctness, although the counter overflows, and          *)
(* NoBlindReadOnceInformed.                                                    *)
EXTENDS PortGate, TLAPS

USE GateAssumption DEF GateAssumption

LEMMA PortsAre == Port = 0..5
BY DEF Port, InPort, OutPort

\* The counter of the POSTs stays an int: it wraps around.
LEMMA IncrementStays ==
  ASSUME NEW n \in (-IntMax - 1)..IntMax
  PROVE  Increment(n) \in (-IntMax - 1)..IntMax
BY DEF Increment

\* What the variables contain.
THEOREM TypeCorrect == Spec => []TypeOK
<1>1. Init => TypeOK
  <2>1. Init => timely \in BOOLEAN /\ informed \in BOOLEAN
    BY DEF Init
  <2> QED BY <2>1, PortsAre DEF Init, TypeOK, BootDone
<1>2. TypeOK /\ [Next]_vars => TypeOK'
  <2> SUFFICES ASSUME TypeOK, [Next]_vars PROVE TypeOK'
    OBVIOUS
  <2>1. CASE CreatePort
    BY <2>1, PortsAre DEF CreatePort, TypeOK, BootDone, FirstWrite, postVars, history
  <2>2. CASE ClearPort
    BY <2>2 DEF ClearPort, TypeOK, BootDone, FirstWrite, postVars, history
  <2>3. ASSUME NEW p \in InPort, ReadInput(p) PROVE TypeOK'
    BY <2>3 DEF ReadInput, TypeOK, mainVars, postVars
  <2>4. CASE Listen
    BY <2>4 DEF Listen, TypeOK, mainVars, history
  <2>5. CASE BeginPost
    BY <2>5 DEF BeginPost, TypeOK, mainVars
  <2>6. CASE StorePort
    BY <2>6, PortsAre DEF StorePort, TypeOK, mainVars, history
  <2>7. CASE EndPost
    BY <2>7, IncrementStays DEF EndPost, TypeOK, mainVars
  <2>8. CASE UNCHANGED vars
    BY <2>8 DEF vars, mainVars, postVars, history, TypeOK
  <2> QED BY <2>1, <2>2, <2>3, <2>4, <2>5, <2>6, <2>7, <2>8 DEF Next
<1> QED BY <1>1, <1>2, PTL DEF Spec
-------------------------------------------------------------------------------
(* A POST that began when the inputs were typed finds them typed at every port *)
(* it comes to, for a type is never taken back; and what has been stored stays *)
(* stored, whatever later POSTs do.                                            *)

TimelyStores ==
  timely /\ server = "store" =>
    /\ InPort \subseteq typed
    /\ \A p \in InPort : p < next => p \in stored
InformedIsStored == informed => InPort \subseteq stored
GateInv == TypeOK /\ TimelyStores /\ InformedIsStored

LEMMA GateStep == GateInv /\ TypeOK' /\ [Next]_vars => GateInv'
<1> SUFFICES ASSUME GateInv, [Next]_vars PROVE TimelyStores' /\ InformedIsStored'
  BY DEF GateInv
<1> USE DEF GateInv, TypeOK, TimelyStores, InformedIsStored
<1>1. CASE CreatePort
  BY <1>1 DEF CreatePort, postVars, history
<1>2. CASE ClearPort
  BY <1>2 DEF ClearPort, postVars, history
<1>3. ASSUME NEW p \in InPort, ReadInput(p) PROVE TimelyStores' /\ InformedIsStored'
  BY <1>3 DEF ReadInput, mainVars, postVars
<1>4. CASE Listen
  BY <1>4 DEF Listen, mainVars, history
<1>5. CASE BeginPost
  <2>1. timely' => InPort \subseteq typed
    BY <1>5, Zenon DEF BeginPost
  <2>2. UNCHANGED <<typed, stored, informed>> /\ next' = 0
    BY <1>5 DEF BeginPost, mainVars
  <2>3. \A p \in InPort : ~(p < next')
    BY <2>2 DEF InPort
  <2> QED BY <2>1, <2>2, <2>3
<1>6. CASE StorePort
  <2>1. /\ UNCHANGED <<typed, server, timely, informed>> /\ server = "store"
        /\ stored' = stored \cup ({next} \cap typed \cap InPort) /\ next' = next + 1
    BY <1>6 DEF StorePort, mainVars, history
  <2>2. \A p \in InPort : p < next' => p < next \/ p = next
    BY <2>1 DEF InPort
  <2>3. ASSUME timely, NEW p \in InPort, p < next' PROVE p \in stored'
    BY <2>1, <2>2, <2>3
  <2>4. TimelyStores'
    BY <2>1, <2>3
  <2> QED BY <2>1, <2>4
<1>7. CASE EndPost
  <2>1. next = 6 /\ \A p \in InPort : p < next
    BY <1>7, PortsAre DEF EndPost, InPort
  <2> QED BY <1>7, <2>1 DEF EndPost, mainVars
<1>8. CASE UNCHANGED vars
  BY <1>8 DEF vars, mainVars, postVars, history
<1> QED BY <1>1, <1>2, <1>3, <1>4, <1>5, <1>6, <1>7, <1>8 DEF Next

LEMMA GateAlways == Spec => []GateInv
<1>1. Init /\ TypeOK => GateInv
  BY DEF Init, GateInv, TimelyStores, InformedIsStored
<1> QED BY <1>1, TypeCorrect, GateStep, PTL DEF Spec

\* One counted POST that began after the inputs had been created is enough: from
\* then on no sensor is read that the page has not reported, whenever the server
\* started to listen and however often the counter overflows.
THEOREM NoBlindReadOnceInformedHolds == Spec => NoBlindReadOnceInformed
<1> DEFINE Seen == informed => blind' = blind
<1>1. GateInv /\ [Next]_vars => Seen
  BY DEF GateInv, InformedIsStored, Next, CreatePort, ClearPort, ReadInput, Listen,
         BeginPost, StorePort, EndPost, vars, history
<1> HIDE DEF Seen
<1>2. Spec => [][Seen]_vars
  BY <1>1, GateAlways, PTL DEF Spec
<1> QED BY <1>2 DEF NoBlindReadOnceInformed, Seen
===============================================================================
