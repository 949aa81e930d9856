---------------------------- MODULE ActuatorClient ----------------------------
(* serverApp's MQTT client that obeys the topics menu_keyboard and actuator:   *)
(* the MqttClientManager mqttActuators, from connect over subscribe to the     *)
(* callback that carries a message out.  What a command does to the ports is   *)
(* in PortImage, the client of the sensor thread in SensorMonitor.             *)
(*                                                                             *)
(* The broker is external and modelled by what the client asks of it: a clean  *)
(* session, and two subscriptions with QoS 1.  keepAliveInterval is 0, so that *)
(* the broker may take a long time to notice that a client has gone, or never  *)
(* does, and goes on keeping messages for its session.  A process that has     *)
(* ended may be started again by hand.                                         *)
EXTENDS Integers, Sequences

CONSTANTS Message,      \* what is published: a topic, and what the callback does
          MaxMessages,  \* bound: how many messages are published
          MaxStarts     \* bound: how often the process is started

Topic == {"menu_keyboard", "actuator"}

\* Only the value of an actuator message is given to std::stoi.
ASSUME MessageAssumption ==
  /\ Message \subseteq [topic : Topic, does : {"returns", "throws"}]
  /\ \A m \in Message : m.does = "throws" => m.topic = "actuator"
ASSUME BoundAssumption == MaxMessages \in Nat /\ MaxStarts \in Nat \ {0}

VARIABLES process,  \* "running" or "ended"
          link,     \* "none", "connecting", "accepted", "connected", "lost", "refused"
          handler,  \* messageArrivedHandler is set
          asking,   \* the subscriptions the broker has not answered yet
          denied,   \* those that could not start or that it has refused
          session,  \* the broker: the subscriptions of the client's session
          kept,     \* the broker: messages for the session of a client that is away
          queue,    \* the messages on their way to the callback
          sent, starts  \* history: how many messages, how many starts

clientVars == <<link, handler, asking, denied>>
brokerVars == <<session, kept, queue>>
vars == <<process, clientVars, brokerVars, sent, starts>>

Init ==
  /\ process = "running"
  /\ link = "none" /\ handler = FALSE
  /\ asking = {} /\ denied = {}
  /\ session = {} /\ kept = <<>> /\ queue = <<>>
  /\ sent = 0 /\ starts = 1
-------------------------------------------------------------------------------
\* create and connect succeed; the broker answers later.
Connect ==
  /\ process = "running" /\ link = "none"
  /\ link' = "connecting"
  /\ UNCHANGED <<process, handler, asking, denied, brokerVars, sent, starts>>

\* One of them fails, or the broker refuses: this is printed, and that is all.
ConnectFailure ==
  /\ process = "running" /\ link \in {"none", "connecting"}
  /\ link' = "refused"
  /\ UNCHANGED <<process, handler, asking, denied, brokerVars, sent, starts>>

\* A fault for the mutants: the session is taken up again, with its messages.
OldSession == UNCHANGED session /\ queue' = kept

\* cleansession = 1: what the broker knew of the client is forgotten.
CleanSession == session' = {} /\ queue' = <<>>

Accept ==
  /\ process = "running" /\ link = "connecting"
  /\ link' = "accepted"
  /\ CleanSession
  /\ kept' = <<>>
  /\ UNCHANGED <<process, handler, asking, denied, sent, starts>>

\* MqttClientManager::subscribe, topic by topic.  The handler is set first; a
\* subscription that cannot start is printed, and its error is ignored.
Subscribe(topics) ==
  /\ handler' = TRUE
  /\ \E failing \in SUBSET topics :
       /\ asking' = topics \ failing
       /\ denied' = failing

\* Faults for the mutants: one topic is forgotten; one is too many.
OneTopic == {"menu_keyboard"}
SensorsToo == {"menu_keyboard", "actuator", "sensor"}

Topics == {"menu_keyboard", "actuator"}

\* onMqttActuatorsConnectSuccess.
ConnectActuators ==
  /\ process = "running" /\ link = "accepted"
  /\ link' = "connected"
  /\ Subscribe(Topics)
  /\ UNCHANGED <<process, brokerVars, sent, starts>>

\* The broker grants a subscription, or refuses it: onSubscribeFailure prints
\* that, and nobody asks again.
Grant(t) ==
  /\ process = "running" /\ link = "connected" /\ t \in asking
  /\ asking' = asking \ {t}
  /\ session' = session \cup {t}
  /\ UNCHANGED <<process, link, handler, denied, kept, queue, sent, starts>>

Deny(t) ==
  /\ process = "running" /\ link = "connected" /\ t \in asking
  /\ asking' = asking \ {t}
  /\ denied' = denied \cup {t}
  /\ UNCHANGED <<process, link, handler, brokerVars, sent, starts>>

\* onConnectionLost does nothing, and Paho is not asked to connect again.  Of the
\* messages under way some have arrived.
Lose ==
  /\ process = "running" /\ link = "connected"
  /\ link' = "lost"
  /\ asking' = {}
  /\ \E k \in 0..Len(queue) :
       /\ queue' = SubSeq(queue, 1, k)
       /\ kept' = kept \o SubSeq(queue, k + 1, Len(queue))
  /\ UNCHANGED <<process, handler, denied, session, sent, starts>>

\* The broker notices that the client has gone: the session was clean.
Forget ==
  /\ link \notin {"accepted", "connected"} /\ session # {}
  /\ session' = {} /\ kept' = <<>>
  /\ UNCHANGED <<process, clientVars, queue, sent, starts>>
-------------------------------------------------------------------------------
\* Somebody publishes.  The broker sends it to the client if it has subscribed,
\* or keeps it for a client it believes to be there.  A message is marked with
\* the start of the process that it was published after.
Publish(m) ==
  /\ sent < MaxMessages
  /\ sent' = sent + 1
  /\ LET message == [topic |-> m.topic, does |-> m.does, life |-> starts] IN
       CASE m.topic \in session /\ link \in {"accepted", "connected"} ->
              queue' = Append(queue, message) /\ UNCHANGED kept
         [] m.topic \in session /\ link \notin {"accepted", "connected"} ->
              kept' = Append(kept, message) /\ UNCHANGED queue
         [] m.topic \notin session -> UNCHANGED <<queue, kept>>
  /\ UNCHANGED <<process, clientVars, session, starts>>

\* onMessageArrived has called messageArrivedHandler, and it has returned.
Handle ==
  /\ process = "running" /\ queue # <<>>
  /\ Head(queue).does = "returns"
  /\ queue' = Tail(queue)
  /\ UNCHANGED <<process, clientVars, session, kept, sent, starts>>

\* The process is gone, the broker need not know.
Ended ==
  /\ process' = "ended"
  /\ link' = "none" /\ handler' = FALSE
  /\ asking' = {} /\ denied' = {}
  /\ queue' = <<>> /\ kept' = kept \o queue
  /\ UNCHANGED <<session, sent, starts>>

\* std::stoi throws at a value that is no number, and only json::exception is
\* caught.
Throw ==
  /\ process = "running" /\ queue # <<>>
  /\ Head(queue).does = "throws"
  /\ Ended

\* The user presses ESC.
Escape == process = "running" /\ Ended

\* main runs again, with the same client identifier.
Start ==
  /\ process = "ended" /\ starts < MaxStarts
  /\ process' = "running"
  /\ starts' = starts + 1
  /\ UNCHANGED <<clientVars, brokerVars, sent>>
-------------------------------------------------------------------------------
Answer == \E t \in Topic : Grant(t) \/ Deny(t)

Next ==
  \/ Connect \/ ConnectFailure \/ Accept \/ ConnectActuators
  \/ Answer \/ Lose \/ Forget
  \/ \E m \in Message : Publish(m)
  \/ Handle \/ Throw \/ Escape \/ Start

Spec == Init /\ [][Next]_vars

\* The broker answers, and Paho runs the callbacks; nobody has to publish, to end
\* the process or to start it.
FairSpec == Spec /\ WF_vars(Accept) /\ WF_vars(ConnectActuators) /\ WF_vars(Answer)
-------------------------------------------------------------------------------
Delivery == [topic : Topic, does : {"returns", "throws"}, life : 1..MaxStarts]

TypeOK ==
  /\ process \in {"running", "ended"}
  /\ link \in {"none", "connecting", "accepted", "connected", "lost", "refused"}
  /\ handler \in BOOLEAN
  /\ asking \subseteq Topic /\ denied \subseteq Topic /\ session \subseteq Topic
  /\ kept \in Seq(Delivery) /\ queue \in Seq(Delivery)
  /\ sent \in 0..MaxMessages
  /\ starts \in 1..MaxStarts

\* onMessageArrived calls messageArrivedHandler without a look at it: whenever
\* there is a message to handle, subscribe has set it, over lost connections and
\* restarts.
NoNullCall == queue # <<>> => handler

\* What is waiting to be carried out has been published since the process was
\* started: no command meant for an earlier process, or sent while none was
\* running, moves a motor after a restart, whatever the broker has kept.
FreshCommands == \A k \in DOMAIN queue : queue[k].life = starts

\* A client that is connecting comes to listen to both topics, but for those whose
\* subscription fails, unless it is refused, loses the connection or the process
\* ends.
Serves == link = "connecting" ~>
            (session \cup denied = Topic \/ link \in {"none", "lost", "refused"})
===============================================================================
