-------------------------- MODULE CommandDispatcher ---------------------------
(* kbase/warehouse_dispatcher.pl: the commands of the supervisor are facts     *)
(* command((Name, Value), TimeStamp), published in the order they were         *)
(* asserted, each one after the one before it has been acknowledged.           *)
(*                                                                             *)
(* The Prolog toplevel (and its rules) and Paho's callback thread run Prolog   *)
(* at the same time, and send_pending_commands first picks a fact and then     *)
(* publishes it.  A fact is identified here by its place in the order of       *)
(* assertion; two facts with the same (Name, Value) have the same payload, and *)
(* the callback on_publish_success knows the payload only.                     *)
EXTENDS Integers, Sequences

CONSTANTS Thread, Callback,  \* the threads that run Prolog; the one of Paho
          Asserter,          \* the threads that assert commands
          Payload,           \* the (Name, Value) pairs
          MaxCommands,       \* how many commands are asserted
          Nobody             \* no fact picked

ASSUME ThreadAssumption == Callback \in Thread /\ Asserter \subseteq Thread
ASSUME NobodyAssumption == Nobody \notin Nat
ASSUME BoundAssumption == MaxCommands \in Nat

VARIABLES asserted,  \* history: the payloads of the facts, in order of assertion
          pending,   \* the facts command/2 still in the database
          client,    \* "none", "connecting", "connected" or "refused"
          pc,        \* a thread is "idle", has to "send", or has "picked"
          picked,    \* the fact it has picked
          inflight,  \* the facts whose publication Paho has not reported on yet
          published, \* history: the facts that have been published
          latest,    \* history: the fact published last, or Nobody
          failed     \* history: a connection was refused, a publication failed

threadVars == <<pc, picked>>
mqttVars   == <<inflight, published, latest, failed>>
vars == <<asserted, pending, client, threadVars, mqttVars>>

Init ==
  /\ asserted = <<>>
  /\ pending = {}
  /\ client = "none"
  /\ pc = [t \in Thread |-> "idle"]
  /\ picked = [t \in Thread |-> Nobody]
  /\ inflight = <<>>
  /\ published = {}
  /\ latest = Nobody
  /\ failed = FALSE

IsFirst(i, S) == i \in S /\ \A j \in S : i <= j
-------------------------------------------------------------------------------
\* A fault for the mutants: the fact is not the one that was asserted.
AssertCommandNext(t, c) ==
  /\ Len(asserted) < MaxCommands
  /\ pc[t] = "idle"
  /\ client' = IF client = "none" THEN "connecting" ELSE client
  /\ asserted' = Append(asserted, c)
  /\ pending' = pending \cup {Len(asserted) + 2}
  /\ pc' = [pc EXCEPT ![t] = "send"]
  /\ UNCHANGED <<picked, mqttVars>>

\* assert_command: the client is created at the first command, the fact goes
\* behind the others, and then send_pending_commands is called.
AssertCommand(t, c) ==
  /\ Len(asserted) < MaxCommands
  /\ pc[t] = "idle"
  /\ client' = IF client = "none" THEN "connecting" ELSE client
  /\ asserted' = Append(asserted, c)
  /\ pending' = pending \cup {Len(asserted) + 1}
  /\ pc' = [pc EXCEPT ![t] = "send"]
  /\ UNCHANGED <<picked, mqttVars>>

\* A fault for the mutants: any fact is taken.
PickAny(t) ==
  /\ pc[t] = "send"
  /\ \E i \in pending : picked' = [picked EXCEPT ![t] = i]
  /\ pc' = [pc EXCEPT ![t] = "picked"]
  /\ UNCHANGED <<asserted, pending, client, mqttVars>>

\* send_pending_commands takes the first fact, whether or not it has been
\* published already, or succeeds when there is none.
Pick(t) ==
  /\ pc[t] = "send"
  /\ \E i \in pending :
       /\ IsFirst(i, pending)
       /\ picked' = [picked EXCEPT ![t] = i]
  /\ pc' = [pc EXCEPT ![t] = "picked"]
  /\ UNCHANGED <<asserted, pending, client, mqttVars>>

PickNone(t) ==
  /\ pc[t] = "send"
  /\ pending = {}
  /\ pc' = [pc EXCEPT ![t] = "idle"]
  /\ UNCHANGED <<asserted, pending, client, picked, mqttVars>>

\* mqtt_publish, with what was picked, of the fact that may be gone by now.
\* Nothing leaves a client that is not connected; the result is ignored.
Publish(t) ==
  /\ pc[t] = "picked"
  /\ pc' = [pc EXCEPT ![t] = "idle"]
  /\ picked' = [picked EXCEPT ![t] = Nobody]
  /\ IF client = "connected"
     THEN /\ inflight' = Append(inflight, picked[t])
          /\ published' = published \cup {picked[t]}
          /\ latest' = picked[t]
          /\ UNCHANGED failed
     ELSE UNCHANGED mqttVars
  /\ UNCHANGED <<asserted, pending, client>>
-------------------------------------------------------------------------------
\* client_dispatcher_on_connect_success.
ConnectSuccess ==
  /\ client = "connecting" /\ pc[Callback] = "idle"
  /\ client' = "connected"
  /\ pc' = [pc EXCEPT ![Callback] = "send"]
  /\ UNCHANGED <<asserted, pending, picked, mqttVars>>

\* Nobody handles a refused connection, and nobody tries again.
ConnectFailure ==
  /\ client = "connecting"
  /\ client' = "refused"
  /\ failed' = TRUE
  /\ UNCHANGED <<asserted, pending, threadVars, inflight, published, latest>>

\* Faults for the mutants: the payload is not compared; nothing is sent next.
AnyPayload(i) == pending

\* client_dispatcher_on_publish_success retracts the first fact with the payload
\* that has been acknowledged, and sends the next one.  Without such a fact it
\* fails, and sends nothing.
SamePayload(i) == {j \in pending : asserted[j] = asserted[i]}

Acknowledge ==
  /\ inflight # <<>> /\ pc[Callback] = "idle"
  /\ inflight' = Tail(inflight)
  /\ UNCHANGED <<asserted, client, picked, published, latest, failed>>

RetireOnly ==
  /\ Acknowledge
  /\ \E j \in SamePayload(Head(inflight)) :
       /\ IsFirst(j, SamePayload(Head(inflight)))
       /\ pending' = pending \ {j}
  /\ UNCHANGED pc

Retire ==
  /\ Acknowledge
  /\ \E j \in SamePayload(Head(inflight)) :
       /\ IsFirst(j, SamePayload(Head(inflight)))
       /\ pending' = pending \ {j}
  /\ pc' = [pc EXCEPT ![Callback] = "send"]

RetireNone ==
  /\ Acknowledge
  /\ SamePayload(Head(inflight)) = {}
  /\ UNCHANGED <<pending, pc>>

\* A publication fails; kbase defines no handler for it.
PublishFailure ==
  /\ inflight # <<>> /\ pc[Callback] = "idle"
  /\ inflight' = Tail(inflight)
  /\ failed' = TRUE
  /\ UNCHANGED <<asserted, pending, client, threadVars, published, latest>>
-------------------------------------------------------------------------------
Send(t) == Pick(t) \/ PickNone(t) \/ Publish(t)

Next == \/ \E t \in Asserter, c \in Payload : AssertCommand(t, c)
        \/ \E t \in Thread : Send(t)
        \/ ConnectSuccess \/ ConnectFailure
        \/ Retire \/ RetireNone \/ PublishFailure

Spec == Init /\ [][Next]_vars

\* The threads run, and Paho reports on every publication in the end, although
\* other callbacks come in between.  Nobody has to assert a command.
Fairness == /\ \A t \in Thread : WF_vars(Send(t))
            /\ SF_vars(Retire \/ RetireNone)
            /\ SF_vars(ConnectSuccess)
FairSpec == Spec /\ Fairness
-------------------------------------------------------------------------------
Id == 1..Len(asserted)

TypeOK ==
  /\ asserted \in Seq(Payload)
  /\ pending \subseteq Id
  /\ client \in {"none", "connecting", "connected", "refused"}
  /\ pc \in [Thread -> {"idle", "send", "picked"}]
  /\ picked \in [Thread -> Id \cup {Nobody}]
  /\ \A t \in Thread : pc[t] = "picked" => picked[t] # Nobody
  /\ inflight \in Seq(Id)
  /\ published \subseteq Id
  /\ latest \in published \cup {Nobody}
  /\ failed \in BOOLEAN

\* No command overtakes an earlier one: once it has been published, all those
\* before it have left the database, whatever was published twice.
NoOvertaking == \A i \in published : \A j \in pending : i <= j

\* A command leaves the database only when it has been published, or when one
\* before it with the same payload has: the acknowledgement of a duplicate of that
\* one may retire it unpublished, even when others lie between them.
RetiredWasSaid ==
  \A i \in Id \ pending :
    \E j \in published : j <= i /\ asserted[j] = asserted[i]

\* After the dispatcher has come to rest, connected, the head of the queue is on
\* its way: the trigger that sends the next command cannot get lost, as long as
\* no publication fails.
AtRest == \A t \in Thread : pc[t] = "idle"
HeadIsInFlight ==
  client = "connected" /\ AtRest /\ ~failed =>
    \A i \in pending : IsFirst(i, pending) => \E k \in DOMAIN inflight : inflight[k] = i

\* What the callback thread publishes is not older than anything published
\* before, although it picked it a while ago: nobody else retires facts.  (The
\* toplevel may publish a command again after a later one.)
NoStaleCommand ==
  [][Publish(Callback) /\ client = "connected" =>
       \A i \in published : i <= latest']_vars

\* Every command leaves the queue in the end, unless a connection is refused or
\* a publication fails.
EveryCommandRetired ==
  \A i \in 1..MaxCommands : i \in pending ~> (i \notin pending \/ failed)

\* When all has been dispatched, what the actuators were told last is what the
\* supervisor commanded last.
LastCommandHolds ==
  pending = {} /\ inflight = <<>> /\ AtRest /\ asserted # <<>> =>
    latest # Nobody /\ asserted[latest] = asserted[Len(asserted)]
===============================================================================
