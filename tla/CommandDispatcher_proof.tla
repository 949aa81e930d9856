----------------------- MODULE CommandDispatcher_proof ------------------------
(* What is proved of CommandDispatcher for any number of threads, commands and *)
(* payloads, and however unreliable the connection is: type correctness,       *)
(* NoOvertaking, RetiredWasSaid, NoStaleCommand and HeadIsInFlight.            *)
EXTENDS CommandDispatcher, TLAPS

USE NobodyAssumption

LEMMA TailOfSeq ==
  ASSUME NEW S, NEW s \in Seq(S), s # <<>>
  PROVE  /\ Head(s) \in S /\ Tail(s) \in Seq(S)
         /\ 1 \in DOMAIN s /\ Head(s) = s[1]
         /\ \A k \in DOMAIN Tail(s) : k + 1 \in DOMAIN s /\ Tail(s)[k] = s[k + 1]
OBVIOUS

LEMMA AppendToSeq ==
  ASSUME NEW S, NEW s \in Seq(S), NEW e \in S
  PROVE  /\ Append(s, e) \in Seq(S)
         /\ Len(Append(s, e)) = Len(s) + 1
         /\ Append(s, e)[Len(s) + 1] = e
         /\ \A k \in 1..Len(s) : Append(s, e)[k] = s[k]
         /\ DOMAIN Append(s, e) = 1..(Len(s) + 1)
OBVIOUS

LEMMA LenIsNat ==
  ASSUME NEW S, NEW s \in Seq(S)
  PROVE  Len(s) \in Nat /\ DOMAIN s = 1..Len(s)
OBVIOUS
-------------------------------------------------------------------------------
(* Type correctness.                                                           *)

\* What the variables contain.
THEOREM TypeCorrect == Spec => []TypeOK
<1>1. Init => TypeOK
  <2>1. Init => failed \in BOOLEAN
    BY DEF Init
  <2> QED BY <2>1 DEF Init, TypeOK, Id
<1>2. TypeOK /\ [Next]_vars => TypeOK'
  <2> SUFFICES ASSUME TypeOK, [Next]_vars PROVE TypeOK'
    OBVIOUS
  <2>0. Len(asserted) \in Nat
    BY LenIsNat DEF TypeOK
  <2>1. ASSUME NEW t \in Asserter, NEW c \in Payload, AssertCommand(t, c)
        PROVE  TypeOK'
    <3>1. asserted' \in Seq(Payload) /\ Len(asserted') = Len(asserted) + 1
      BY <2>1, AppendToSeq DEF TypeOK, AssertCommand
    <3>2. Id \subseteq Id' /\ Len(asserted) + 1 \in Id'
      BY <2>0, <3>1 DEF Id
    <3>3. inflight \in Seq(Id')
      <4>1. \A k \in 1..Len(inflight) : inflight[k] \in Id'
        BY <3>2 DEF TypeOK
      <4> QED BY <4>1 DEF TypeOK
    <3>4. UNCHANGED <<picked, inflight, published, latest, failed>>
      BY <2>1 DEF AssertCommand, mqttVars
    <3>5. /\ client' \in {"none", "connecting", "connected", "refused"}
          /\ pending' = pending \cup {Len(asserted) + 1}
          /\ pc' = [pc EXCEPT ![t] = "send"]
      BY <2>1 DEF AssertCommand, TypeOK
    <3> QED BY <3>1, <3>2, <3>3, <3>4, <3>5 DEF TypeOK
  <2>2. ASSUME NEW t \in Thread, Pick(t) PROVE TypeOK'
    <3>1. PICK i \in pending : picked' = [picked EXCEPT ![t] = i]
      BY <2>2 DEF Pick
    <3>2. UNCHANGED <<asserted, pending, client, inflight, published, latest, failed>>
      BY <2>2 DEF Pick, mqttVars
    <3>3. pc' = [pc EXCEPT ![t] = "picked"]
      BY <2>2 DEF Pick
    <3>4. i \in Id /\ i # Nobody
      BY DEF TypeOK, Id
    <3>5. /\ picked' \in [Thread -> Id \cup {Nobody}]
          /\ \A u \in Thread : pc'[u] = "picked" => picked'[u] # Nobody
      BY <3>1, <3>3, <3>4 DEF TypeOK
    <3> QED BY <3>2, <3>3, <3>5 DEF TypeOK, Id
  <2>3. ASSUME NEW t \in Thread, PickNone(t) PROVE TypeOK'
    BY <2>3 DEF PickNone, mqttVars, TypeOK, Id
  <2>4. ASSUME NEW t \in Thread, Publish(t) PROVE TypeOK'
    <3>1. picked[t] \in Id
      BY <2>4 DEF Publish, TypeOK
    <3>2. /\ inflight' \in Seq(Id) /\ published' \subseteq Id
          /\ latest' \in published' \cup {Nobody}
          /\ failed' \in BOOLEAN
      <4>1. CASE client = "connected"
        <5>1. /\ inflight' = Append(inflight, picked[t])
              /\ published' = published \cup {picked[t]}
              /\ latest' = picked[t]
              /\ UNCHANGED failed
          BY <2>4, <4>1 DEF Publish
        <5>2. inflight' \in Seq(Id)
          BY <3>1, <5>1, AppendToSeq DEF TypeOK
        <5> QED BY <3>1, <5>1, <5>2 DEF TypeOK
      <4>2. CASE client # "connected"
        BY <2>4, <4>2 DEF Publish, mqttVars, TypeOK
      <4> QED BY <4>1, <4>2
    <3>3. /\ UNCHANGED <<asserted, pending, client>>
          /\ pc' = [pc EXCEPT ![t] = "idle"]
          /\ picked' = [picked EXCEPT ![t] = Nobody]
      BY <2>4 DEF Publish
    <3> QED BY <3>2, <3>3 DEF TypeOK, Id
  <2>5. ASSUME ConnectSuccess PROVE TypeOK'
    BY <2>5, ThreadAssumption DEF ConnectSuccess, mqttVars, TypeOK, Id
  <2>6. ASSUME ConnectFailure PROVE TypeOK'
    BY <2>6 DEF ConnectFailure, threadVars, mqttVars, TypeOK, Id
  <2>7. ASSUME Retire PROVE TypeOK'
    <3>1. inflight' \in Seq(Id)
      BY <2>7, TailOfSeq DEF Retire, Acknowledge, TypeOK
    <3>2. pending' \subseteq Id
      BY <2>7 DEF Retire, TypeOK
    <3>3. /\ UNCHANGED <<asserted, client, picked, published, latest, failed>>
          /\ pc' = [pc EXCEPT ![Callback] = "send"]
      BY <2>7 DEF Retire, Acknowledge
    <3> QED BY <3>1, <3>2, <3>3, ThreadAssumption DEF TypeOK, Id
  <2>8. ASSUME RetireNone PROVE TypeOK'
    <3>1. inflight' \in Seq(Id)
      BY <2>8, TailOfSeq DEF RetireNone, Acknowledge, TypeOK
    <3> QED BY <2>8, <3>1 DEF RetireNone, Acknowledge, TypeOK, Id
  <2>9. ASSUME PublishFailure PROVE TypeOK'
    <3>1. inflight' \in Seq(Id)
      BY <2>9, TailOfSeq DEF PublishFailure, TypeOK
    <3> QED BY <2>9, <3>1 DEF PublishFailure, threadVars, TypeOK, Id
  <2>10. ASSUME UNCHANGED vars PROVE TypeOK'
    BY <2>10 DEF vars, threadVars, mqttVars, TypeOK, Id
  <2> QED BY <2>1, <2>2, <2>3, <2>4, <2>5, <2>6, <2>7, <2>8, <2>9, <2>10
          DEF Next, Send
<1> QED BY <1>1, <1>2, PTL DEF Spec
-------------------------------------------------------------------------------
(* The order of publication.  A thread publishes what it picked some time ago; *)
(* what makes the order hold is that everything before it is gone for good.    *)

PickedFirst ==
  \A t \in Thread : picked[t] # Nobody => \A j \in pending : picked[t] <= j
InflightPublished == \A k \in DOMAIN inflight : inflight[k] \in published

OrderInv == /\ TypeOK /\ PickedFirst /\ InflightPublished
            /\ NoOvertaking /\ RetiredWasSaid

LEMMA OrderStep == OrderInv /\ TypeOK' /\ [Next]_vars => OrderInv'
<1> SUFFICES ASSUME OrderInv, TypeOK', [Next]_vars
             PROVE  /\ PickedFirst' /\ InflightPublished'
                    /\ NoOvertaking' /\ RetiredWasSaid'
  BY DEF OrderInv
<1> DEFINE Goal == /\ PickedFirst /\ InflightPublished
                   /\ NoOvertaking /\ RetiredWasSaid
<1> USE DEF OrderInv
<1>0. /\ Len(asserted) \in Nat
      /\ \A i \in Id : i \in Nat /\ i <= Len(asserted)
      /\ pending \subseteq Id /\ published \subseteq Id
      /\ inflight \in Seq(Id)
      /\ picked \in [Thread -> Id \cup {Nobody}]
  BY LenIsNat DEF TypeOK, Id
<1>1. ASSUME NEW t \in Asserter, NEW c \in Payload, AssertCommand(t, c)
      PROVE  Goal'
  <2>1. /\ UNCHANGED <<picked, inflight, published, latest, failed>>
        /\ pending' = pending \cup {Len(asserted) + 1}
        /\ asserted' = Append(asserted, c)
    BY <1>1 DEF AssertCommand, mqttVars
  <2>2. \A i \in Id : asserted'[i] = asserted[i]
    BY <2>1, AppendToSeq DEF TypeOK, Id
  <2>3. Len(asserted') = Len(asserted) + 1
    BY <2>1, AppendToSeq DEF TypeOK
  <2>4. Id' \ pending' \subseteq Id \ pending
    BY <1>0, <2>1, <2>3 DEF Id
  <2>5. PickedFirst'
    BY <1>0, <2>1 DEF PickedFirst
  <2>6. NoOvertaking'
    BY <1>0, <2>1 DEF NoOvertaking
  <2>7. RetiredWasSaid'
    <3> SUFFICES ASSUME NEW i \in Id' \ pending'
                 PROVE  \E j \in published' : j <= i /\ asserted'[j] = asserted'[i]
      BY DEF RetiredWasSaid
    <3>1. PICK j \in published : j <= i /\ asserted[j] = asserted[i]
      BY <2>4 DEF RetiredWasSaid
    <3> QED BY <1>0, <2>1, <2>2, <2>4, <3>1
  <2> QED BY <2>1, <2>5, <2>6, <2>7 DEF InflightPublished
<1>2. ASSUME NEW t \in Thread, Pick(t) PROVE Goal'
  <2>1. PICK i \in pending : /\ IsFirst(i, pending)
                             /\ picked' = [picked EXCEPT ![t] = i]
    BY <1>2 DEF Pick
  <2>2. UNCHANGED <<asserted, pending, inflight, published>>
    BY <1>2 DEF Pick, mqttVars
  <2>3. PickedFirst'
    BY <1>0, <2>1, <2>2 DEF PickedFirst, IsFirst
  <2> QED BY <2>2, <2>3 DEF InflightPublished, NoOvertaking, RetiredWasSaid, Id
<1>3. ASSUME NEW t \in Thread, PickNone(t) PROVE Goal'
  BY <1>3 DEF PickNone, mqttVars, PickedFirst, InflightPublished, NoOvertaking,
              RetiredWasSaid, Id
<1>4. ASSUME NEW t \in Thread, Publish(t) PROVE Goal'
  <2>1. /\ UNCHANGED <<asserted, pending>>
        /\ picked' = [picked EXCEPT ![t] = Nobody]
        /\ picked[t] \in Id /\ picked[t] # Nobody
    BY <1>4 DEF Publish, TypeOK
  <2>2. PickedFirst'
    BY <1>0, <2>1 DEF PickedFirst
  <2>3. CASE client = "connected"
    <3>1. /\ inflight' = Append(inflight, picked[t])
          /\ published' = published \cup {picked[t]}
      BY <1>4, <2>3 DEF Publish
    <3>2. InflightPublished'
      <4>1. /\ DOMAIN inflight = 1..Len(inflight) /\ Len(inflight) \in Nat
            /\ DOMAIN inflight' = 1..(Len(inflight) + 1)
            /\ inflight'[Len(inflight) + 1] = picked[t]
            /\ \A k \in 1..Len(inflight) : inflight'[k] = inflight[k]
        BY <1>0, <2>1, <3>1, AppendToSeq, LenIsNat
      <4> QED BY <3>1, <4>1 DEF InflightPublished
    <3>3. NoOvertaking'
      BY <2>1, <3>1 DEF NoOvertaking, PickedFirst
    <3>4. RetiredWasSaid'
      BY <2>1, <3>1 DEF RetiredWasSaid, Id
    <3> QED BY <2>2, <3>2, <3>3, <3>4
  <2>4. CASE client # "connected"
    <3>1. UNCHANGED <<inflight, published>>
      BY <1>4, <2>4 DEF Publish, mqttVars
    <3> QED BY <2>1, <2>2, <3>1 DEF InflightPublished, NoOvertaking, RetiredWasSaid, Id
  <2> QED BY <2>3, <2>4
<1>5. ASSUME ConnectSuccess \/ ConnectFailure \/ UNCHANGED vars PROVE Goal'
  BY <1>5 DEF ConnectSuccess, ConnectFailure, vars, threadVars, mqttVars,
              PickedFirst, InflightPublished, NoOvertaking, RetiredWasSaid, Id
<1>6. ASSUME inflight # <<>>, inflight' = Tail(inflight), UNCHANGED published
      PROVE  InflightPublished'
  BY <1>0, <1>6, TailOfSeq DEF InflightPublished
<1>7. ASSUME Retire PROVE Goal'
  <2> DEFINE h == Head(inflight)
  <2>1. /\ inflight # <<>> /\ inflight' = Tail(inflight)
        /\ UNCHANGED <<asserted, picked, published>>
    BY <1>7 DEF Retire, Acknowledge
  <2>2. PICK j \in pending : asserted[j] = asserted[h] /\ pending' = pending \ {j}
    BY <1>7 DEF Retire, SamePayload
  <2>3. h \in published
    BY <1>0, <2>1, TailOfSeq DEF InflightPublished
  <2>4. h <= j
    BY <2>3 DEF NoOvertaking
  <2>5. RetiredWasSaid'
    BY <2>1, <2>2, <2>3, <2>4 DEF RetiredWasSaid, Id
  <2> QED BY <1>6, <2>1, <2>2, <2>5 DEF PickedFirst, NoOvertaking
<1>8. ASSUME RetireNone \/ PublishFailure PROVE Goal'
  <2>1. /\ inflight # <<>> /\ inflight' = Tail(inflight)
        /\ UNCHANGED <<asserted, pending, picked, published>>
    BY <1>8 DEF RetireNone, Acknowledge, PublishFailure, threadVars
  <2> QED BY <1>6, <2>1 DEF PickedFirst, NoOvertaking, RetiredWasSaid, Id
<1> QED BY <1>1, <1>2, <1>3, <1>4, <1>5, <1>7, <1>8 DEF Next, Send

LEMMA Ordered == Spec => []OrderInv
<1>1. Init => PickedFirst /\ InflightPublished /\ NoOvertaking /\ RetiredWasSaid
  BY DEF Init, PickedFirst, InflightPublished, NoOvertaking, RetiredWasSaid, Id
<1>2. Init /\ TypeOK => OrderInv
  BY <1>1 DEF OrderInv
<1> QED BY <1>2, TypeCorrect, OrderStep, PTL DEF Spec

\* A published command has nothing pending before it, whatever is published
\* twice, fails, or is picked while the callback retires it.
THEOREM NoOvertakingHolds == Spec => []NoOvertaking
<1>1. OrderInv => NoOvertaking
  BY DEF OrderInv
<1> QED BY <1>1, Ordered, PTL

\* No command leaves the queue unsaid, except for one that repeats a command
\* already published before it.
THEOREM RetiredWasSaidHolds == Spec => []RetiredWasSaid
<1>1. OrderInv => RetiredWasSaid
  BY DEF OrderInv
<1> QED BY <1>1, Ordered, PTL

(* Only the callback thread retires facts, so what it has picked is still      *)
(* pending when it publishes it.                                               *)
CallbackPickPending ==
  pc[Callback] = "picked" => picked[Callback] \in pending

LEMMA CallbackPickStep ==
  TypeOK /\ CallbackPickPending /\ [Next]_vars => CallbackPickPending'
<1> SUFFICES ASSUME TypeOK, CallbackPickPending, [Next]_vars
             PROVE  CallbackPickPending'
  OBVIOUS
<1>0. Callback \in Thread /\ pc \in [Thread -> {"idle", "send", "picked"}]
  BY ThreadAssumption DEF TypeOK
<1>1. ASSUME NEW t \in Asserter, NEW c \in Payload, AssertCommand(t, c)
      PROVE  CallbackPickPending'
  BY <1>0, <1>1, ThreadAssumption DEF AssertCommand, CallbackPickPending
<1>2. ASSUME NEW t \in Thread, Pick(t) PROVE CallbackPickPending'
  <2>1. PICK i \in pending : picked' = [picked EXCEPT ![t] = i]
    BY <1>2 DEF Pick
  <2>2. pending' = pending /\ pc' = [pc EXCEPT ![t] = "picked"]
    BY <1>2 DEF Pick
  <2> QED BY <1>0, <2>1, <2>2 DEF CallbackPickPending, TypeOK
<1>3. ASSUME NEW t \in Thread, PickNone(t) PROVE CallbackPickPending'
  BY <1>0, <1>3 DEF PickNone, CallbackPickPending
<1>4. ASSUME NEW t \in Thread, Publish(t) PROVE CallbackPickPending'
  BY <1>0, <1>4 DEF Publish, CallbackPickPending, TypeOK
<1>5. ASSUME ConnectSuccess \/ ConnectFailure \/ UNCHANGED vars
      PROVE  CallbackPickPending'
  BY <1>0, <1>5 DEF ConnectSuccess, ConnectFailure, vars, threadVars,
                    CallbackPickPending
<1>6. ASSUME Retire \/ RetireNone \/ PublishFailure PROVE CallbackPickPending'
  BY <1>0, <1>6 DEF Retire, RetireNone, PublishFailure, Acknowledge, threadVars,
                    CallbackPickPending
<1> QED BY <1>1, <1>2, <1>3, <1>4, <1>5, <1>6 DEF Next, Send

\* What the callback thread publishes is the newest command ever published: it
\* was still pending, so by NoOvertaking nothing after it has gone out.
THEOREM NoStaleCommandHolds == Spec => NoStaleCommand
<1> DEFINE Fresh == Publish(Callback) /\ client = "connected" =>
                      \A i \in published : i <= latest'
<1>1. Init => CallbackPickPending
  BY ThreadAssumption DEF Init, CallbackPickPending
<1>2. OrderInv /\ CallbackPickPending => Fresh
  <2> SUFFICES ASSUME OrderInv, CallbackPickPending,
                      Publish(Callback), client = "connected",
                      NEW i \in published
               PROVE  i <= latest'
    OBVIOUS
  <2>1. latest' = picked[Callback] /\ picked[Callback] \in pending
    BY DEF Publish, CallbackPickPending
  <2> QED BY <2>1 DEF OrderInv, NoOvertaking
<1>3. OrderInv => TypeOK
  BY DEF OrderInv
<1> HIDE DEF Fresh
<1>4. Spec => [][Fresh]_vars
  BY <1>1, <1>2, <1>3, CallbackPickStep, Ordered, PTL DEF Spec
<1> QED BY <1>4 DEF NoStaleCommand, Fresh
-------------------------------------------------------------------------------
(* The trigger of the next publication is never lost: the head of the queue is *)
(* in flight, or about to be published, or some thread has still to pick it.   *)

InFlight(i) == \E k \in DOMAIN inflight : inflight[k] = i
Cared(i) == \/ InFlight(i)
            \/ \E t \in Thread : pc[t] = "send" \/ (pc[t] = "picked" /\ picked[t] = i)
HeadCared ==
  client = "connected" /\ ~failed =>
    \A i \in pending : IsFirst(i, pending) => Cared(i)

LEMMA HeadStep == OrderInv /\ HeadCared /\ [Next]_vars => HeadCared'
<1> SUFFICES ASSUME OrderInv, HeadCared, [Next]_vars,
                    client' = "connected", ~failed',
                    NEW i \in pending', IsFirst(i, pending')
             PROVE  Cared(i)'
  BY DEF HeadCared, OrderInv, TypeOK
<1>0. /\ pc \in [Thread -> {"idle", "send", "picked"}] /\ Callback \in Thread
      /\ picked \in [Thread -> Id \cup {Nobody}] /\ inflight \in Seq(Id)
      /\ pending \subseteq Id /\ Id \subseteq Nat
  BY ThreadAssumption, LenIsNat DEF OrderInv, TypeOK, Id
<1>1. ASSUME NEW t \in Thread, pc'[t] = "send" PROVE Cared(i)'
  BY <1>1 DEF Cared
<1>2. ASSUME NEW t \in Asserter, NEW c \in Payload, AssertCommand(t, c)
      PROVE  Cared(i)'
  <2>1. t \in Thread /\ pc'[t] = "send"
    BY <1>0, <1>2, ThreadAssumption DEF AssertCommand
  <2> QED BY <1>1, <2>1
<1>4. ASSUME NEW t \in Thread, Pick(t) PROVE Cared(i)'
  <2>1. PICK j \in pending : /\ IsFirst(j, pending)
                             /\ picked' = [picked EXCEPT ![t] = j]
    BY <1>4 DEF Pick
  <2>2. pending' = pending /\ pc' = [pc EXCEPT ![t] = "picked"]
    BY <1>4 DEF Pick
  <2>3. j = i
    BY <1>0, <2>1, <2>2 DEF IsFirst
  <2> QED BY <1>0, <2>1, <2>2, <2>3 DEF Cared
<1>5. ASSUME NEW t \in Thread, PickNone(t) PROVE Cared(i)'
  BY <1>5 DEF PickNone
<1>6. ASSUME NEW t \in Thread, Publish(t) PROVE Cared(i)'
  <2>1. /\ client = "connected" /\ UNCHANGED <<asserted, pending, client, failed>>
        /\ pc[t] = "picked" /\ pc' = [pc EXCEPT ![t] = "idle"]
        /\ picked' = [picked EXCEPT ![t] = Nobody]
        /\ inflight' = Append(inflight, picked[t]) /\ picked[t] \in Id
    BY <1>6 DEF Publish, OrderInv, TypeOK
  <2>2. /\ DOMAIN inflight = 1..Len(inflight) /\ Len(inflight) \in Nat
        /\ DOMAIN inflight' = 1..(Len(inflight) + 1)
        /\ inflight'[Len(inflight) + 1] = picked[t]
        /\ \A k \in 1..Len(inflight) : inflight'[k] = inflight[k]
    BY <1>0, <2>1, AppendToSeq, LenIsNat
  <2>3. CASE InFlight(i) \/ picked[t] = i
    <3>1. \E k \in DOMAIN inflight' : inflight'[k] = i
      BY <2>2, <2>3 DEF InFlight
    <3> QED BY <3>1 DEF Cared, InFlight
  <2>4. ASSUME NEW u \in Thread \ {t}, pc[u] = "send" \/ (pc[u] = "picked" /\ picked[u] = i)
        PROVE  Cared(i)'
    <3>1. pc'[u] = pc[u] /\ picked'[u] = picked[u]
      BY <1>0, <2>1
    <3> QED BY <2>4, <3>1 DEF Cared
  <2> QED BY <2>1, <2>3, <2>4 DEF HeadCared, Cared
<1>7. ASSUME ConnectSuccess PROVE Cared(i)'
  BY <1>0, <1>1, <1>7 DEF ConnectSuccess
<1>8. ASSUME ConnectFailure \/ PublishFailure PROVE Cared(i)'
  BY <1>8 DEF ConnectFailure, PublishFailure
<1>9. ASSUME Retire PROVE Cared(i)'
  BY <1>0, <1>1, <1>9 DEF Retire
<1>10. ASSUME RetireNone PROVE Cared(i)'
  <2>1. /\ inflight # <<>> /\ inflight' = Tail(inflight)
        /\ UNCHANGED <<asserted, pending, client, pc, picked, failed>>
        /\ \A j \in pending : asserted[j] # asserted[Head(inflight)]
    BY <1>10 DEF RetireNone, Acknowledge, SamePayload
  <2>2. Head(inflight) # i
    BY <2>1
  <2>3. CASE InFlight(i)
    <3>1. PICK k \in DOMAIN inflight : inflight[k] = i
      BY <2>3 DEF InFlight
    <3>2. k \in Nat \ {0, 1} /\ k - 1 \in DOMAIN Tail(inflight) /\ Tail(inflight)[k - 1] = i
      BY <1>0, <2>1, <2>2, <3>1
    <3> QED BY <2>1, <3>2 DEF Cared, InFlight
  <2> QED BY <2>1, <2>3 DEF HeadCared, Cared
<1>11. CASE UNCHANGED vars
  BY <1>11 DEF vars, threadVars, mqttVars, HeadCared, Cared, InFlight
<1> QED BY <1>2, <1>4, <1>5, <1>6, <1>7, <1>8, <1>9, <1>10, <1>11 DEF Next, Send

\* However the threads interleave, the dispatcher does not come to rest with a
\* command that nobody sends: an acknowledgement that finds no fact to retire
\* answers for none that is the head of the queue.
THEOREM HeadIsInFlightHolds == Spec => []HeadIsInFlight
<1>1. Init => HeadCared
  BY DEF Init, HeadCared
<1>2. HeadCared => HeadIsInFlight
  BY DEF HeadCared, HeadIsInFlight, Cared, InFlight, AtRest
<1> QED BY <1>1, <1>2, HeadStep, Ordered, PTL DEF Spec
===============================================================================
