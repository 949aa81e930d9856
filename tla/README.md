# Verification of the Smart Warehouse Supervisor

TLA+ models of the warehouse supervisor, checked with TLC, and theorems about
them, proved with TLAPS. Paths are relative to the repository (`src/...`).

## 1. The system

A small automated warehouse (three axes x, y, z, a left and a right station, a
fork with a part sensor) is simulated by a web page. Two programs work on it:

* **serverApp** (C++) holds an image of the six 8-bit ports of the kit, serves it
  to the page, executes move and stop commands from the keyboard and from MQTT,
  and publishes the sensors over MQTT.
* **kbase** (SWI-Prolog) is the supervisor: it receives sensor values as facts,
  reasons about them with a small rule engine and a STRIPS planner, and sends
  commands over MQTT.

### Threads

| thread | runs | shares |
|---|---|---|
| main of serverApp | `initializeHardwarePorts`, keyboard loop, ESC | ports, gate |
| web server thread | `ev_handler` for `POST /ajax_port_values` | ports, gate |
| Paho callback thread | `onMqttActuatorsMessageArrived` | ports |
| sensor thread | `mqttMonitor*`, in a loop without a pause | ports, caches |
| Prolog toplevel | user, rules, `assert_command` | command facts, states |
| Paho callback thread of kbase | acknowledgements, sensor messages | the same |

### Components

For each: its state, its operations, what is hard about it, and what makes it
correct.

| component | state | operations | hard | correct when | module |
|---|---|---|---|---|---|
| Actuator functions, `localControl.cpp` | the bits of ports 4 and 5 | 15 move and stop functions, direction, position and has-part getters | read-modify-write without a lock around it; the left station spans two ports | a motor does what its last command said, and the four motors with both wires on one port are never powered both ways (the left station is, between its two writes); no position is made up | `Wiring`, `PortImage`, `ActuatorPanel`, `SensorMonitor` |
| Port access, `niDAQWebInterface.cpp` | `mg_ports`, `ports_type`, `mutex_sem` | `readDigitalU8`, `writeDigitalU8`, `createDigitalInput/Output` | a gate on a counter that another thread increments | nobody reads a sensor that was never reported; everyone gets through | `PortImage`, `PortGate` |
| Web server, `warehouseWebServer.cpp` | `PORTS_VALUES_AVAILABLE`, manual mode (per post) | storing the page's ports, answering with them | the answer reads the ports without the lock | what the page sees may be half a number, but once the ports rest it has them as they are | `PageView`, `PortGate`, `PortImage` |
| Process life cycle, `serverApp.cpp` | running or not | start, keyboard loop, ESC | exit under a command of another thread; an exception in a callback; a restart | a command that is cut off leaves nothing but what it and the one before it say (as long as commands do not overlap) | `PortImage`, `PortGate` |
| Actuator subscriber, `MQTT_client.cpp` | a client | `onMqttActuatorsMessageArrived` | payloads that throw; a callback thread; a broker that keeps messages | it listens to both topics, and carries out no command from before a restart | `PortImage` (a commander), `ActuatorClient` |
| Sensor publisher, `MQTT_client.cpp` | one cache and a time stamp per sensor | `mqttMonitor*` | caches a value before it is known to be published; topic names | no change that the getters can tell is passed over; subscribers converge to what the getters answer | `SensorMonitor` |
| MQTT client manager, `MqttClientManager.cpp` | clients, handlers | connect, subscribe, publish | a handler that is set late; subscriptions that fail; no reconnect | no call of an unset handler; a connected client listens or has been denied | `ActuatorClient`, `SensorMonitor` |
| Command dispatcher, `warehouse_dispatcher.pl` | facts `command/2`, a client | `assert_command`, `send_pending_commands`, callbacks | two threads, acknowledgement by payload | in order, all retired, none without its payload having been published | `CommandDispatcher` |
| State store, `warehouse_config.pl` | facts `state/2`, `before/3` | `assert_state` | three updates, not atomic | nothing forgotten, nothing made up; with one writer, a history without gaps | `StateHistory`, `StateBoard` |
| Fact utilities, `RTXutil.pl` | the database | `assert_once`, `assert_single`, `replace_rtx`, ... | binding before retract | `rtx/1` lists the facts there are | `RuleEngine` |
| Rule engine, `RTXengine.pl` | facts, rules | forward and backward chaining | termination, partial failure of conclusions, predicates nobody has defined | forward infers what follows; a proof can be replayed | `RuleEngine`, `Reasoning` |
| Planner, `RTXstrips_planner.pl` | plan under construction | `strips_plan` | goals undo each other | a plan can be carried out and reaches the goals | `StripsPlanner`, `Reasoning` |

Not in the repository, although `src/README.md` names them: the supervision UI,
failure detection and recovery, analytics. The page of the simulator and
`mqtt_prolog.dll` are binaries or external; they are modelled by what `src/`
relies on.

## 2. The modules

`Wiring` has no variables: which bit of which port is which wire of which motor,
what each move and stop function does to a local copy (`Drive`), in which order
it reads and writes ports, and the direction getters, bit for bit. A port is the
set of its bits that are on.

`PortImage` is the core. The command threads (`Commander`) execute commands from
their `Repertoire`: `Begin` is the dispatch, `ReadMore`/`ReadLast` are calls of
`readDigitalU8`, `BeginWrite` and `WriteMore`/`WriteLast` are the two halves of
`writeDigitalU8` (it takes `mutex_sem`, rewrites the text with `sprintf_s`, and
releases it). A read is one step, because nobody changes a port without
`mutex_sem`. `PostManual` is the page in manual mode. `Exit` ends the process: by ESC, when
main is between two commands of its own (`Escape`), or by an exception in the callback
of another thread, when main may be inside one (`Throw`). `wanted` and
`asked` are history variables. `Overlap` is a parameter of the environment: the
code lets commands overlap; with `FALSE` the users see to it that two commands,
or a command and a manual post, that use the same port do not overlap in time.

`ActuatorPanel` is the abstract specification of what the actuator functions
promise: a command takes effect in one step, on its motor alone. `PortImage`
implements it (`PanelSpec`) when `Overlap` is `FALSE`; a two-port command takes
effect at its first write. It does not when commands overlap.

`PageView` composes `PortImage` with the answer of `ev_handler`, which reads the
two output ports one after the other without the lock. `mg_ports` holds decimal texts:
the answer may find one in the middle of `sprintf_s`, with the first digits of the new
number and the rest of the old one, or of what lies behind it (`HalfWay`). From 8 to 136
it may be 1 or 13, which are bytes with other wires. `Glimpse` is the set of what it can
find there. The text is modelled digit by digit, because that is what goes wrong.

`PortGate` is the start: main creates and clears ports, starts the server thread
and waits in its first port access for `PORTS_VALUES_AVAILABLE` to reach 10,
which the page's posts increment. The counter is an `int` and wraps.

`CommandDispatcher` is the queue of `command/2` facts. `Pick` and `Publish` are
separate, because nothing locks between the choice of a fact and its publication.
The acknowledgement knows the payload only (`SamePayload`). Connections may be
refused and publications may fail.

`SensorMonitor` is the sensor thread of serverApp. `Read` is one call of
`readDigitalU8` by a getter, so a monitor sees its ports at different moments
while `Change` moves the whole image on; `Skip`, `AnnounceChange` and `Refresh`
are the three outcomes of a monitor's comparison (nothing new, something new, ten
seconds have passed); `Accepted` and `Dropped` are what becomes of a message that
`publish` hands to Paho. `cache` holds the static `previous_...` variables, which
are set whatever becomes of the messages, `told` the last value a subscriber has
of each name. `seen` is a history variable: the images since the monitor was
called. Positions are numbered as the getters number them, through the same
tables; z is cut to a whole number, as the monitor's `int` does.

`ActuatorClient` is the client that obeys commands, and what the broker knows of it. Its
session is clean (`CleanSession`), but `keepAliveInterval` is 0: a broker that has not
noticed that the client has gone goes on keeping messages for the session (`kept`), until
it does (`Forget`) or the next connection wipes them. `ConnectActuators` is the callback
that sets the handler and subscribes, topic by topic; a subscription may not start, or be
refused (`Deny`), and nobody asks again. `Handle` is `onMessageArrived`; `Throw` is a
value that `std::stoi` cannot read, which ends the process, `Escape` is ESC, and `Start`
the next call of `main`. What a command does to the ports is in `PortImage`. A message
carries the number of the start it was published after, which is a history variable.

`StateHistory` is `assert_state`. Every database predicate and `get_time` are atomic,
nothing else is: a thread that has found a state (`Find`) looks it up again
(`Look`), retracts it, wipes the older interval, takes the time and asserts the
interval, and then the new state. Facts are numbered in the order of assertion,
which is the order in which Prolog finds them. `said` is a history variable.

`StateBoard` is the abstract specification of what rules may expect of `state/2`
and `before/3`: a board on which a state and the interval of the one before change in
one step. `StateHistory` implements it for the properties with one writer
(`BoardSpec`); the mapping bridges the moments in which the old state has been
retracted and the new one is not there yet.

`RuleEngine` is `RTXengine.pl` with the predicates of `RTXutil.pl` that rules use:
`Ask` and `Clear` are the beginning of every `ask` (with `retractall_rtx` fact by
fact), `Fire` is one `forward_step`, `Conclude` one conclusion. Backward chaining
is Prolog's depth-first search made explicit: `agenda` holds the alternatives, each
with what is left to prove; `Expand` replaces a goal by the ways to reach it, in
the order in which Prolog tries the clauses, and `TestItem` is what is only tested
on the facts. A condition with a part that is called before anybody has defined its
predicate fails as a whole, by way of an exception (`Raises`, `Holds`); `defined` has the
predicates there are, `Declared` those that what is loaded declares dynamic. Rules and
facts are ground, conclusions are calls of the fact
predicates. Prolog's stack is a bound on the rules in a proof (`MaxDepth`).

`StripsPlanner` is `RTXstrips_planner.pl` in the same form: an alternative is a stack
of tasks (solve these goals, apply this action, test these goals), the world reached
and the plan so far. Actions are ground, without bodies and of one domain. An operator
that is used is forbidden below itself, an empty one (`Empty`) is not (`May`).

`Reasoning` composes the two as the Prolog toplevel does, which answers one query
at a time, and states their properties. The repository contains neither rules nor
actions, so some properties have a premise on what is loaded.

`MC*` modules hold the instances, `*_proof` modules the proofs.

## 3. The runs

| run | shows |
|---|---|
| `serial` | With `Overlap = FALSE`, two command threads and the page together implement the abstract panel (`PanelSpec`). A motor is powered only in directions it has been told: when no command for it is under way it does what the last one said; while one is, or when ESC or an exception in the callback thread has cut one off, nothing is left but what the old and the new one say (`Faithful`). For `ls` that can be both directions at once. |
| `race` | With `Overlap = TRUE`, on one motor and the two-port station from both threads and manual posts: no one-port motor is ever powered both ways (`Interlock`), no wire is on that nobody asked for (`NoPhantomMotion`), the local copies explain why (`CopiesSafe`), and every command ends (`CommandsComplete`). |
| `fullstop` | **violation.** With `Overlap = TRUE` a stop is undone: a thread writes back a byte it read before the stop. |
| `pageview` | The unlocked answer may show half-written numbers, and so wires nobody asked for; once the commands cease and the ports rest the page shows them as they are (`PageCatchesUp`). |
| `gate` | After one complete post no read is blind (`NoBlindReadOnceInformed`), main gets through (`BootCompletes`), and the gate reopens after the counter has wrapped (`GateReopens`). |
| `firstdata` | **violation.** "wait for first data" (`niDAQWebInterface.cpp:101`): posts count before the ports they carry can be stored. |
| `dispatch` | Two asserting threads, refused connections, failed publications: no command overtakes an earlier one (`NoOvertaking`), none leaves the queue without its payload having been published, for it or for an earlier one (`RetiredWasSaid`), the callback thread never publishes an old one (`NoStaleCommand`), the trigger for the next is never lost (`HeadIsInFlight`) and all commands leave the queue (`EveryCommandRetired`) unless something fails. |
| `lastcommand` | **violation.** stop, go, stop: the acknowledgement of the duplicate of the first stop retracts the second, which is never published. |
| `monitor` | A position the monitor finds is one whose sensor was triggered while it was reading, although it reads two ports under two locks (`PositionWasTrue`); it passes over no change that its getters can tell (`NoChangeMissed`); and whatever Paho drops, once ports and connection stay as they are the last value a subscriber has of each published name is what the getters answer, of `x_direction` what one of them does (`SubscribersCatchUp`). |
| `client` | Refused and lost connections, subscriptions that fail, messages that end the process, ESC and restarts, a broker that has not noticed: `onMessageArrived` never calls an unset handler (`NoNullCall`), what waits to be carried out was published since the process was started (`FreshCommands`), and a client that connects comes to listen to both topics but for those denied (`Serves`). |
| `history` | Two threads, one property of one writer and one that both write: no interval is made up (`IntervalsAreTrue`), no property is without its last state when nobody is asserting it (`NothingForgotten`); with one writer there is no gap between an interval and the state after it (`NoGap`), and the store is a board (`BoardSpec`). |
| `reasoning` | Six rule bases with six action libraries: rules that use the `..._rtx` predicates only keep `rtx/1` faithful, so that no `ask` fails (`RtxIsFaithful`); monotone rules infer nothing but their closure, and all of it when the predicates in disjunctions are declared (`ForwardIsClosure`); explanations of backward can be replayed, and "no" is true when no condition has more than two parts (`BackwardProves`); plans can be carried out, step by step, to their goals (`PlanExecutes`); every query ends, unless rules are cyclic or actions can be chosen below themselves: under a sequence, when they are partial, or with an empty operator (`QueriesEnd`). |

### Bounds

* `Repertoire`: two threads, commands for the kinds of motor there are (port 4,
  port 5, both), for one motor from both threads and for different ones. More
  motors of the same kind add interleavings of the same kind; more threads do not
  exist. A thread gives commands without limit; nothing is bounded in `PortImage`.
* `ManualImage`: everything off, and x to the left. No image of the page powers a
  one-port motor both ways: that is `ManualAssumption`, about a page that is not
  in the repository. The server does not check it.
* `Warmup = 2` for the 10 posts of the code and `IntMax = 3` for 2^31-1: what the
  properties tell apart is "below the threshold", "at it", and "wrapped".
* `MaxCommands = 4` commands of two payloads, in `AssertCommand`'s guard: with
  three, a duplicate can be in flight when an equal command follows a different
  one (three are enough for `lastcommand`); the fourth lets a command follow that.
* `Round`: three monitors of the six: `x`, which reads a position from two ports, `y`,
  which publishes under a name of x, and `cage`, whose cache starts with a real value.
  The monitors share the ports, the connection and that name and nothing else, and run
  one after the other, so another adds length and nothing new. The theorems hold for any
  round.
* `Scene`: x at its sensor 8, and x moving at 10, which is on the other port, with a part
  in the cage; the readings differ between them. `SceneAssumption`: an axis has one
  carriage, which triggers one sensor at most.
* `PageView` has main as the only command thread, with the left station, so that texts of
  one and of three digits follow each other on port 4, and a page that posts by hand.
* `MaxDrops = 1`: one message dropped while connected, at any place. Any number
  is dropped after the connection is lost.
* `MaxMessages = 4`: some that the broker keeps, some that are on their way, one that
  throws; `MaxStarts = 3`: messages of two earlier processes at a third.
* `MaxAsserts = 4` and `MaxTime = 2` in `StateHistory`: two writers can each replace what
  the other asserted, and an interval can begin before, with and after another.
* `Loaded`: a chain of three rules with priorities, a cycle, conditions of three
  parts and disjunctions, branches with `retract_rtx` and `replace_rtx`, rules with the
  other predicates; actions that undo each other, partial ones, sequences as goals
  and as preconditions, preconditions that need each other, an empty operator. `q`, which conditions mention, is
  declared by nobody, so that some of them raise. `MaxAsked = 2`: what a
  question leaves behind for the next. `MaxDepth = 6` and `MaxSize = 20`
  stand for the stack of Prolog: `QueriesEnd` shows that searches that end stay below.
* The ten seconds are not counted: at any comparison they may have passed, or not.

### Fairness

* `ThreadFairness` (`PortImage`): strong fairness of each thread's steps. The
  scheduler runs every thread, and Windows queues the waiters of a semaphore, so
  a thread that finds it taken again and again still gets it. Nobody has to give
  a command, press ESC or post.
* `PageView` adds that the server thread answers, and that the page posts again
  after each answer: a post is what makes the server answer, and a page that
  stops posting shows nothing new.
* `PortGate`: main and the server thread run, and the page posts.
* `CommandDispatcher`: the threads run (weak), and Paho reports a connection and
  the result of every publication although other callbacks come in between
  (strong). Nobody has to assert a command.
* `SensorMonitor`: the thread runs (weak fairness of `Loop`), and every monitor
  finds again and again that ten seconds have passed (strong fairness of its
  `Refresh`, which the others' calls disable). Nothing has to change, and the
  broker need not answer: `SubscribersCatchUp` has as its premise that ports and
  connection come to rest.
* `ActuatorClient`: the broker answers a connection and each subscription, and Paho runs
  the callback of the connection (weak). The broker may refuse, the connection may be lost,
  and nobody has to publish, to press ESC or to start the process.
* `Reasoning`: Prolog goes on with a query until it has an answer (weak fairness of `Goes`,
  the steps of the machine that has the query). Nobody has to ask.

`CHECK_DEADLOCK FALSE` where the system really stops: after ESC, when every
command is dispatched, when the sensor thread's connection was refused, when the
bounded messages, assertions or queries are used up.

## 4. The findings

Shown by a run that ends in a violation:

1. A stop can be undone by a command for another motor on the same port (`fullstop`).
2. The gate can open with nothing stored behind it (`firstdata`).
3. The dispatcher can drop the last command (`lastcommand`): stop and go are published, a
   second stop is not, and the actuators are left at go.

Met while modelling, and modelled as the code has it; a run for each would only
restate one line:

4. `getZDirection` tests the bits of the y motor (`localControl.cpp:203`), and
   `getYDirection` has the opposite sign of the comment in `localControl.h`.
5. The directions of y and z are published under the name of that of x
   (`MQTT_client.cpp:188`): with x and y moving differently, subscribers of
   `x_direction` go to and fro. `SubscribersCatchUp` says of that name only that its value
   is the answer for one of the motors.
6. Two threads that assert states of one property can leave two current states, and
   the intervals of both (`warehouse_config.pl:14`). `NoGap` and `BoardSpec` fail without their
   premise of one writer.
7. When the fact of an `rtx/1` entry has been retracted by another predicate, every
   later `ask` fails, for ever (`RTXutil.pl:138`).
8. The third part of a condition is not chained but tested on the facts
   (`RTXengine.pl:287`): a goal that follows may not be proved. Cyclic rules exhaust the
   stack (`RTXengine.pl:239`).
9. A search below a sequence forgets what is forbidden (`RTXstrips_planner.pl:96`), and a
   partial action solves its own goals again (line 164), and an empty operator is never
   forbidden (line 137): all of them may go down for ever.
10. Between the two writes of `moveLeftStationOutside` (`localControl.cpp:226`) the left
   station is powered both ways, and stays so when the process ends there. `Interlock`
   is not about that motor, `Faithful` allows it, and the mapping of `PanelSpec` lets a
   command count from its first write.
11. A half-written decimal text can show the page wires that nobody asked for
   (`niDAQWebInterface.cpp:157`, `warehouseWebServer.cpp:137`).
12. A subscription that fails is not asked for again: the client stays connected and is deaf
   on that topic (`MqttClientManager.cpp:360`). A lost connection stays lost (line 22), and
   a refused one refused.
13. A publication that fails stops the queue of the dispatcher until the next
   `assert_command` (`warehouse_dispatcher.pl:35`), and main waits for ever when the server
   could not listen (`niDAQWebInterface.cpp:142`). `EveryCommandRetired` and `BootCompletes`
   have the opposite as their premises.
14. A part of a condition whose predicate nobody has defined makes an `or` fail whose other
   part holds (`RTXutil.pl:14`): forward misses what follows. `assert_once` leaves the other
   facts of its pattern (`RTXutil.pl:170`).

## 5. What is proved

For every set of threads, repertoire, page and unbounded executions
(`PortImage_proof`):

* `TypeCorrect`: `TypeOK`.
* `InterlockHolds`, `NoPhantomMotionHolds`, `CopiesSafeHolds`. The first two are not inductive: a port may be
  overwritten by what a thread read long ago. The inductive invariant is
  `SafeInv` = `TypeOK` /\ `Interlock` /\ `NoPhantomMotion` /\ `CopiesSafe`, where
  `CopiesSafe` says of every local copy what the two say of the ports. It holds
  because `Drive` keeps a copy interlocked (`DriveInterlock`, by cases on the
  motors) and turns on only the wire of its command.
* `FaithfulHolds` and, from it, `StopHoldsSerially`, for `~Overlap` (what `fullstop`
  refutes in general). The inductive invariant is `SerialInv`: commands that use the
  same port do not overlap (`Apart`), and every command is in one of its phases
  (`Reading`, `Writing`, `HalfWritten`), in which what it has read is still what the
  port holds, whatever the others do. What a motor has been told (`Told`) grows when a command
  for it begins, shrinks to it when it ends, and no other command changes it (`StillObeyed`).
* `PanelSpecHolds`, for `~Overlap`: `PortImage` implements `ActuatorPanel`. Each step is
  matched with a step of the panel or none: a command of one port takes effect at its
  write, one of two ports at the first of its writes.

Assumed: `CommanderAssumption`, `RepertoireAssumption`, `IdleAssumption`,
`OverlapAssumption` (only types) and `ManualAssumption` (above). `Faithful` also needs
`PageInterlocked`, that the page does not power the left station both ways either: no
command could be said to have asked for that. Runs with `Faithful` have such a page.

For the same systems with the answer to the page (`PageView_proof`):

* `ViewTypeCorrect`. `PageView` is `PortImage` with more variables, so the type invariant of
  that module carries over, and whatever is found in the middle of `sprintf_s` consists of
  digits and filler (`TextType`, `GlimpseType`).

For every length of the warm-up and every width of the counter (`PortGate_proof`):

* `TypeCorrect`, through the overflow of the counter.
* `NoBlindReadOnceInformedHolds`, an action property, from `GateInv`: a post that began when
  the inputs were typed stores each of them (`TimelyStores`), and what has been stored
  stays so (`InformedIsStored`). The counter, which may wrap and close the gate again, has no
  part in it.

Assumed: `GateAssumption` (the warm-up is positive and below the largest counter).

For every set of threads and payloads, any number of commands and any failures
(`CommandDispatcher_proof`):

* `TypeCorrect`, `NoOvertakingHolds`, `RetiredWasSaidHolds`: the inductive
  invariant is `OrderInv` = `TypeOK` /\ `PickedFirst` /\ `InflightPublished` /\
  `NoOvertaking` /\ `RetiredWasSaid`. `PickedFirst` (nothing pending comes before
  what a thread has picked) is what carries the order over the gap between `Pick`
  and `Publish`: pending facts only ever get larger numbers.
* `NoStaleCommandHolds`: only the callback thread retires facts, so what it has
  picked is still pending when it publishes it (`CallbackPickPending`), and by
  `NoOvertaking` nothing later has been published.
* `HeadIsInFlightHolds`, from `HeadCared`: the head of the queue is in flight, or a thread has
  picked it, or a thread has still to look for it. What a thread picks next is the new
  head, so `OrderInv` is needed here too.

Assumed: `ThreadAssumption`, `NobodyAssumption`, `BoundAssumption` (only types).

For every set of scenes, every round of monitors and any number of dropped
messages (`SensorMonitor_proof`):

* `TypeCorrect`: `TypeOK`, from what each getter can return (`MessagesType`).
* `PositionWasTrueHolds`, from the inductive `ReadInv`: a port the monitor has
  read has the value it had in one of the images in `seen`. The two ports may come
  from different images; the sensor found lies on one of them.
* `NoChangeMissedHolds`: by `ReadInv`, if there was only one image the values read
  are those it has; they depend on no port the monitor does not read
  (`ValuesOfPorts`, monitor by monitor). It is about what the getters answer, as above.

Assumed: `RoundAssumption`, `DropsAssumption` (only types), and of
`SceneAssumption` only that a scene is an image.

For every set of threads, states and patterns and any number of calls
(`StateHistory_proof`):

* `TypeCorrect`: the inductive invariant is `TypeInv` = `TypeOK` /\ `Numbered` /\ `Found`.
  `Found` (a thread has found a state of the pattern it asserts) makes the interval it
  will assert one of a state.
* `IntervalsAreTrueHolds`, from `TrueSoFar`: what a thread has read was once asserted
  together, although others may have retracted it since, and no stamp is of the future.
* `NothingForgottenHolds`: by `Found`, whoever retracts the states of a pattern has still to
  assert one of it, and a new fact has the largest number (`NextNumber`).
* `NoGapHolds`, for properties with one writer, from `OwnedInv`: there is at most one state and
  one interval (`Single`), and for each step of `assert_state` which facts there are and how
  their stamps compare with what the writer remembers (`Stage`).
* `BoardSpecHolds`: `StateHistory` implements `StateBoard`. The mapping shows what the writer has
  retracted until the next state is there; `MappingFact` says what it shows in each stage.

Assumed: `PatternAssumption`, `AssertsAssumption`, `NoneAssumption` (only types, and that
"nothing" is not a state or an entry of the board).

For all messages and any number of messages and restarts (`ActuatorClient_proof`):

* `TypeCorrect`: `TypeOK`.
* `NoNullCallHolds` and `FreshCommandsHolds`, from the inductive `ClientInv`: from the moment the
  broker accepts the client to the callback that subscribes the session is empty, because it
  is clean, so that no message is on its way before the handler is set or after a start.
  What has been put into the queue since, is of this start (`FreshStep`).

Assumed: `MessageAssumption`, `BoundAssumption` (only types, and that the process is started).

For any finite set of facts, any rules, actions, declarations and questions, and any
bounds (`Reasoning_proof`):

* `TypeCorrect`: `TypeOK`, from `RuleInv` (the engine) and `PlanType` (the planner).
* `RtxIsFaithfulHolds`: `RtxStep` compares the two lists conclusion by conclusion; `retract_rtx`
  takes the same entry from both because they are the same list.
* `ForwardIsClosureHolds`. `ClosureMeans`: applied as often as there are facts,
  `Consequences` reaches the least set that contains the given facts and is closed under
  the rules, for each round that is not the last one adds a fact. A condition that passes is
  true of the facts (`HoldsSatisfied`); one that is true passes when its facts are there and
  the predicates of a disjunction are declared (`SatisfiedHolds`), since a fact that is there
  has a predicate (`DefinedInv`). `ForwardInv`: the facts
  and what is still to be concluded lie in that set, and the conclusions of every rule
  that has fired are facts or still to come. When no rule can fire, and
  no disjunction hides what is true, the facts are closed.
* `BackwardProvesHolds`, from `BackwardInv`, which says what the agenda means. Of an alternative:
  its explanation can be replayed up to the items that are left, and if they can be
  proved the goal is reached (`Sound`). Of all: when conditions have at most two parts and the
  goal follows, one of the alternatives leads to it (`Leads`), because the ways of a goal
  that follows include a rule whose condition follows (`WaysToMeans`, `PickOrderMeans`: the
  order of the rules is a permutation of them).
* `PlanExecutesHolds`, from `PlanInv`. Of each alternative: its plan can be carried out and leads
  to its world (`Runs`), and it is `OnTheWay`: the first n goals have been reached one after
  the other, and the tests of the others are among its tasks, in their order, the last one
  at the end. A step replaces the first task by others (`Replace`), does an action (`Extend`) or
  passes a test (`Tested`). A sequence that is tried as one goal, after it could not be visited,
  ends in a test that no world passes (`Hopeless`).

Assumed: `FactAssumption` (the facts are finitely many), `PatternAssumption`, `BoundAssumption`,
`RuleAssumption`, `QueryAssumption`, `LibraryAssumption`, `ProblemAssumption` (only types, and that
a sequence of goals has one at least).

Induction is over sets of naturals, from their well-ordering (`SetInduction`), because the
induction rules of the library take operators, which no prover here instantiates. That is
enough for the folds and recursive functions of `Reasoning`: their values are characterised
step by step (`FlattenMeans`, `ClosureMeans`, `WorldsMeans`). `RuleEngine` and `StripsPlanner` avoid
RECURSIVE operators and `SortSeq`, which cannot be reasoned about.

Only model-checked: liveness (`CommandsComplete`, `PageCatchesUp`, `BootCompletes`, `GateReopens`,
`EveryCommandRetired`, `SubscribersCatchUp`, `Serves`, `QueriesEnd`), which is out of the prover's
reach. Every safety property that a passing run checks is a theorem.

## 6. What is left

* Lemmas towards liveness: that a search whose rules are not cyclic stays below a bound, which
  is what `QueriesEnd` needs, and that the caches of `SensorMonitor` tell what was last published.
* The premises of `BackwardProves` are as weak as the code allows for "no"; for a proof it
  could do without `Monotone` if `elseif` and `else` branches were given a meaning.

### Not modelled, and why

* `mongoose.c`, nlohmann json, the Paho headers and the NI-DAQmx headers: third party.
  They are more than nine tenths of the lines of the repository; all that this project
  could say of them is how `src/` uses them.
* The `_USE_REAL_KIT_` build: it calls a driver and is not compiled in this configuration.
* A supervisor that reacts to sensors: `client_monitoring_on_message_arrived` only prints.
  Nothing in the repository connects a message to `assert_state`, a state to a rule, or a
  plan to `assert_command`, and there is no rule and no action. A composition of
  `CommandDispatcher`, `StateHistory` and `Reasoning` would be made up.
* The heap contexts that `publish` hands to Paho (`MqttClientManager.cpp:306`): the callbacks
  delete them, and a publication that cannot start leaks its own (line 320).
* Rules and actions with variables, bodies of actions and domains: no rule base of the
  repository uses them, and what they do depends on Prolog's unification.
* `RTXmodule.pl` and `new_id`, `declare_facts`, `sublist`, `choose` of `RTXutil.pl`: called by
  nobody. Logging, printing, menus, static files and `/save` keep no state.
