------------------------- MODULE ActuatorClient_proof -------------------------
(* Proofs about ActuatorClient, for all messages and any number of messages    *)
(* and restarts: type correctness, NoNullCall and FreshCommands.  Both rest on *)
(* what a clean session does to the broker before subscribe has been called.   *)
EXTENDS ActuatorClient, SequenceTheorems, TLAPS

USE DEF Topic, clientVars, brokerVars

\* What remains of a queue, and what arrives at its end.
LEMMA QueueFacts ==
  ASSUME NEW S, NEW q \in Seq(S)
  PROVE  /\ Len(q) \in Nat /\ DOMAIN q = 1..Len(q)
         /\ \A k \in 1..Len(q) : q[k] \in S
         /\ \A m \in S : Append(q, m) \in Seq(S)
         /\ q # <<>> => /\ Len(q) > 0 /\ Head(q) \in S /\ Tail(q) \in Seq(S)
                        /\ DOMAIN Tail(q) = 1..Len(q) - 1
                        /\ \A k \in 1..Len(q) - 1 : Tail(q)[k] = q[k + 1]
OBVIOUS

LEMMA QueueEnd ==
  ASSUME NEW S, NEW q \in Seq(S), NEW m \in S
  PROVE  /\ DOMAIN Append(q, m) = 1..Len(q) + 1
         /\ Append(q, m)[Len(q) + 1] = m
         /\ \A k \in 1..Len(q) : Append(q, m)[k] = q[k]
OBVIOUS

\* The beginning of a queue, and the rest.
LEMMA QueueParts ==
  ASSUME NEW S, NEW q \in Seq(S), NEW k \in 0..Len(q)
  PROVE  /\ SubSeq(q, 1, k) \in Seq(S) /\ SubSeq(q, k + 1, Len(q)) \in Seq(S)
         /\ DOMAIN SubSeq(q, 1, k) = 1..k
         /\ \A j \in 1..k : SubSeq(q, 1, k)[j] = q[j]
OBVIOUS

LEMMA EmptyQueue == \A S : <<>> \in Seq(S) /\ DOMAIN <<>> = {}
OBVIOUS

\* What Publish adds to a queue, whichever it is.
LEMMA Marked ==
  ASSUME TypeOK, NEW m \in Message
  PROVE  [topic |-> m.topic, does |-> m.does, life |-> starts] \in Delivery
BY MessageAssumption, BoundAssumption
   DEF MessageAssumption, BoundAssumption, TypeOK, Delivery

LEMMA PublishCases ==
  ASSUME NEW m, Publish(m)
  PROVE  LET message == [topic |-> m.topic, does |-> m.does, life |-> starts] IN
         \/ /\ m.topic \in session /\ link \in {"accepted", "connected"}
            /\ queue' = Append(queue, message) /\ kept' = kept
         \/ queue' = queue /\ (kept' = kept \/ kept' = Append(kept, message))
BY DEF Publish
-------------------------------------------------------------------------------
LEMMA TypeStep == TypeOK /\ [Next]_vars => TypeOK'
<1> SUFFICES ASSUME TypeOK, [Next]_vars PROVE TypeOK'
  OBVIOUS
<1>a. queue \in Seq(Delivery) /\ kept \in Seq(Delivery)
  BY DEF TypeOK
<1>b. kept \o queue \in Seq(Delivery)
  BY <1>a, ConcatProperties
<1>1. CASE Connect \/ ConnectFailure
  BY <1>1 DEF TypeOK, Connect, ConnectFailure
<1>2. CASE Accept
  BY <1>2, EmptyQueue DEF TypeOK, Accept, CleanSession
<1>3. CASE ConnectActuators
  BY <1>3 DEF TypeOK, ConnectActuators, Subscribe, Topics
<1>4. CASE Answer
  BY <1>4 DEF TypeOK, Answer, Grant, Deny
<1>5. CASE Lose
  <2>1. PICK k \in 0..Len(queue) :
          /\ queue' = SubSeq(queue, 1, k)
          /\ kept' = kept \o SubSeq(queue, k + 1, Len(queue))
    BY <1>5 DEF Lose
  <2>2. SubSeq(queue, 1, k) \in Seq(Delivery)
        /\ SubSeq(queue, k + 1, Len(queue)) \in Seq(Delivery)
    BY <1>a, QueueParts, Zenon
  <2>3. queue' \in Seq(Delivery) /\ kept' \in Seq(Delivery)
    BY <1>a, <2>1, <2>2, ConcatProperties, Zenon
  <2> QED BY <1>5, <2>3 DEF TypeOK, Lose
<1>6. CASE Forget
  BY <1>6, EmptyQueue DEF TypeOK, Forget
<1>7. ASSUME NEW m \in Message, Publish(m) PROVE TypeOK'
  <2>1. queue' \in Seq(Delivery) /\ kept' \in Seq(Delivery)
    <3> DEFINE message == [topic |-> m.topic, does |-> m.does, life |-> starts]
    <3>1. message \in Delivery
      BY Marked
    <3>2. Append(queue, message) \in Seq(Delivery) /\ Append(kept, message) \in Seq(Delivery)
      BY <1>a, <3>1, QueueFacts, Zenon
    <3> QED BY <1>a, <1>7, <3>2, PublishCases
  <2>2. sent' \in 0..MaxMessages
    BY <1>7, BoundAssumption DEF BoundAssumption, TypeOK, Publish
  <2> QED BY <1>7, <2>1, <2>2 DEF TypeOK, Publish
<1>8. CASE Handle
  <2>1. queue # <<>> /\ queue' = Tail(queue)
    BY <1>8 DEF Handle
  <2>2. queue' \in Seq(Delivery)
    BY <1>a, <2>1, QueueFacts, Zenon
  <2> QED BY <1>8, <2>2 DEF TypeOK, Handle
<1>9. CASE Throw \/ Escape
  <2>1. Ended
    BY <1>9 DEF Throw, Escape
  <2> QED BY <1>b, <2>1, EmptyQueue DEF TypeOK, Ended
<1>10. CASE Start
  BY <1>10, BoundAssumption DEF BoundAssumption, TypeOK, Start
<1>11. CASE UNCHANGED vars
  BY <1>11 DEF TypeOK, vars
<1> QED
  BY <1>1, <1>2, <1>3, <1>4, <1>5, <1>6, <1>7, <1>8, <1>9, <1>10, <1>11 DEF Next

\* The client and the broker keep what their variables are declared for, over any
\* number of connections lost and processes started again.
THEOREM TypeCorrect == Spec => []TypeOK
<1>1. Init => TypeOK
  <2> SUFFICES ASSUME Init PROVE TypeOK
    OBVIOUS
  <2>1. sent \in 0..MaxMessages /\ starts \in 1..MaxStarts
    BY BoundAssumption DEF BoundAssumption, Init
  <2> QED BY <2>1, EmptyQueue DEF Init, TypeOK
<1> QED BY <1>1, TypeStep, PTL DEF Spec
-------------------------------------------------------------------------------
(* A message reaches the queue only under a subscription, and from the moment  *)
(* the broker accepts the client to the callback that subscribes there is none *)
(* left: the session is clean.  So the queue is empty until the handler is set *)
(* and at every start.                                                         *)

ClientInv ==
  /\ link \in {"connected", "lost"} => handler
  /\ link \notin {"connected", "lost"} => queue = <<>>
  /\ link = "accepted" => session = {}
  /\ process = "ended" => link = "none"
  /\ FreshCommands

\* Handling, losing and publishing leave no old command.
LEMMA FreshStep ==
  ASSUME TypeOK, FreshCommands, starts' = starts,
         \/ queue' = queue
         \/ queue' = <<>>
         \/ queue # <<>> /\ queue' = Tail(queue)
         \/ \E k \in 0..Len(queue) : queue' = SubSeq(queue, 1, k)
         \/ \E m \in Delivery : m.life = starts /\ queue' = Append(queue, m)
  PROVE  FreshCommands'
<1>a. /\ queue \in Seq(Delivery) /\ DOMAIN queue = 1..Len(queue) /\ Len(queue) \in Nat
      /\ \A k \in 1..Len(queue) : queue[k].life = starts
  BY QueueFacts DEF TypeOK, FreshCommands
<1>1. CASE queue' = queue
  BY <1>1 DEF FreshCommands
<1>2. CASE queue' = <<>>
  BY <1>2, EmptyQueue DEF FreshCommands
<1>b. ASSUME \A k \in DOMAIN queue' : queue'[k].life = starts PROVE FreshCommands'
  BY <1>b DEF FreshCommands
<1>3. CASE queue # <<>> /\ queue' = Tail(queue)
  <2>1. DOMAIN Tail(queue) = 1..Len(queue) - 1
        /\ \A k \in 1..Len(queue) - 1 : Tail(queue)[k] = queue[k + 1]
    BY <1>a, <1>3, QueueFacts, Zenon
  <2> DEFINE rest == Tail(queue)
  <2>2. queue' = rest
    BY <1>3
  <2> HIDE DEF rest
  <2>3. DOMAIN rest = 1..Len(queue) - 1 /\ \A k \in 1..Len(queue) - 1 : rest[k] = queue[k + 1]
    BY <2>1 DEF rest
  <2>4. \A k \in DOMAIN rest : rest[k].life = starts
    BY <1>a, <2>3
  <2> QED BY <1>b, <2>2, <2>4
<1>4. ASSUME NEW k \in 0..Len(queue), queue' = SubSeq(queue, 1, k) PROVE FreshCommands'
  <2>1. DOMAIN SubSeq(queue, 1, k) = 1..k /\ \A j \in 1..k : SubSeq(queue, 1, k)[j] = queue[j]
    BY <1>a, QueueParts, Zenon
  <2> DEFINE front == SubSeq(queue, 1, k)
  <2>2. queue' = front
    BY <1>4
  <2> HIDE DEF front
  <2>3. DOMAIN front = 1..k /\ \A j \in 1..k : front[j] = queue[j]
    BY <2>1 DEF front
  <2>4. ASSUME NEW j \in 1..k PROVE j \in 1..Len(queue)
    BY <1>a
  <2>5. ASSUME NEW j \in 1..k PROVE front[j].life = starts
    BY <1>a, <2>3, <2>4, Zenon
  <2> QED BY <1>b, <2>2, <2>3, <2>5
<1>5. ASSUME NEW m \in Delivery, m.life = starts, queue' = Append(queue, m)
      PROVE  FreshCommands'
  <2>1. /\ DOMAIN Append(queue, m) = 1..Len(queue) + 1
        /\ Append(queue, m)[Len(queue) + 1] = m
        /\ \A k \in 1..Len(queue) : Append(queue, m)[k] = queue[k]
    <3>1. queue \in Seq(Delivery)
      BY <1>a
    <3>2. m \in Delivery
      OBVIOUS
    <3> QED BY <3>1, <3>2, QueueEnd, SMT
  <2> DEFINE longer == Append(queue, m)
  <2>2. queue' = longer
    BY <1>5
  <2> HIDE DEF longer
  <2>3. /\ DOMAIN longer = 1..Len(queue) + 1
        /\ longer[Len(queue) + 1] = m
        /\ \A k \in 1..Len(queue) : longer[k] = queue[k]
    BY <2>1 DEF longer
  <2>4. ASSUME NEW k \in 1..Len(queue) + 1
        PROVE  k \in 1..Len(queue) \/ k = Len(queue) + 1
    BY <1>a
  <2>5. ASSUME NEW k \in 1..Len(queue) + 1 PROVE longer[k].life = starts
    BY <1>a, <1>5, <2>3, <2>4, Zenon
  <2> QED BY <1>b, <2>2, <2>3, <2>5
<1> QED BY <1>1, <1>2, <1>3, <1>4, <1>5

LEMMA ClientStep == TypeOK /\ ClientInv /\ [Next]_vars => ClientInv'
<1> SUFFICES ASSUME TypeOK, ClientInv, [Next]_vars PROVE ClientInv'
  OBVIOUS
<1> USE DEF ClientInv
<1>1. CASE Connect \/ ConnectFailure
  <2>1. FreshCommands'
    BY <1>1, FreshStep DEF Connect, ConnectFailure
  <2> QED BY <1>1, <2>1 DEF Connect, ConnectFailure
<1>2. CASE Accept
  <2>1. FreshCommands'
    BY <1>2, FreshStep DEF Accept, CleanSession
  <2> QED BY <1>2, <2>1 DEF Accept, CleanSession
<1>3. CASE ConnectActuators
  <2>1. FreshCommands'
    BY <1>3, FreshStep DEF ConnectActuators
  <2> QED BY <1>3, <2>1 DEF ConnectActuators, Subscribe
<1>4. CASE Answer
  <2>1. FreshCommands'
    BY <1>4, FreshStep DEF Answer, Grant, Deny
  <2> QED BY <1>4, <2>1 DEF Answer, Grant, Deny
<1>5. CASE Lose
  <2>1. FreshCommands'
    BY <1>5, FreshStep DEF Lose
  <2> QED BY <1>5, <2>1 DEF Lose
<1>6. CASE Forget
  <2>1. FreshCommands'
    BY <1>6, FreshStep DEF Forget
  <2> QED BY <1>6, <2>1 DEF Forget
<1>7. ASSUME NEW m \in Message, Publish(m) PROVE ClientInv'
  <2> DEFINE message == [topic |-> m.topic, does |-> m.does, life |-> starts]
  <2>1. \/ /\ m.topic \in session /\ link \in {"accepted", "connected"}
           /\ queue' = Append(queue, message)
        \/ queue' = queue
    BY <1>7, PublishCases
  <2>2. /\ UNCHANGED <<process, link, handler, session, starts>>
    BY <1>7 DEF Publish
  <2>3. message \in Delivery /\ message.life = starts
    BY Marked
  <2>4. FreshCommands'
    BY <2>1, <2>2, <2>3, FreshStep
  <2> QED BY <2>1, <2>2, <2>4
<1>8. CASE Handle
  <2>1. FreshCommands'
    BY <1>8, FreshStep DEF Handle
  <2> QED BY <1>8, <2>1 DEF Handle
<1>9. CASE Throw \/ Escape
  <2>1. Ended
    BY <1>9 DEF Throw, Escape
  <2>2. FreshCommands'
    BY <2>1, FreshStep DEF Ended
  <2> QED BY <2>1, <2>2 DEF Ended
<1>10. CASE Start
  <2>1. queue' = <<>> /\ UNCHANGED clientVars /\ link = "none"
    BY <1>10 DEF Start
  <2>2. FreshCommands'
    BY <2>1, EmptyQueue DEF FreshCommands
  <2> QED BY <1>10, <2>1, <2>2 DEF Start
<1>11. CASE UNCHANGED vars
  <2>1. FreshCommands'
    BY <1>11, FreshStep DEF vars
  <2> QED BY <1>11, <2>1 DEF vars
<1> QED
  BY <1>1, <1>2, <1>3, <1>4, <1>5, <1>6, <1>7, <1>8, <1>9, <1>10, <1>11 DEF Next

LEMMA ClientAlways == Spec => []ClientInv
<1>1. Init => ClientInv
  BY EmptyQueue DEF Init, ClientInv, FreshCommands
<1> QED BY <1>1, ClientStep, TypeCorrect, PTL DEF Spec

\* Whenever a message is there to be handled, subscribe has set the handler that
\* onMessageArrived calls without a look at it, however often connections are
\* lost and the process is started again.
THEOREM NoNullCallHolds == Spec => []NoNullCall
<1>1. ClientInv => NoNullCall
  BY DEF ClientInv, NoNullCall
<1> QED BY <1>1, ClientAlways, PTL

\* No command that was published before the process was started, whether an
\* earlier process had subscribed for it or not, is ever carried out by it.
THEOREM FreshCommandsHolds == Spec => []FreshCommands
<1>1. ClientInv => FreshCommands
  BY DEF ClientInv
<1> QED BY <1>1, ClientAlways, PTL
===============================================================================
