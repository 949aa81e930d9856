----------------------------- MODULE StateHistory -----------------------------
(* kbase/warehouse_config.pl: assert_state keeps the current state of every    *)
(* property of the warehouse in facts state(State, TimeStamp) and the one      *)
(* before it in before(State, From, To).                                       *)
(*                                                                             *)
(* SWI-Prolog runs the toplevel and the callbacks of Paho in threads of their  *)
(* own; each database predicate is atomic, and so is get_time, but no two of   *)
(* them together.  A state is a ground term such as x_is_at(2), its pattern    *)
(* the term with its arguments left open, x_is_at(_).                          *)
EXTENDS Integers, FiniteSets

CONSTANTS Thread,
          State,
          Pattern,     \* the patterns: one for each property of the warehouse
          PatternOf,   \* the pattern of each state
          Asserts,     \* the states each thread asserts
          MaxAsserts,  \* bound: how often assert_state is called
          MaxTime,     \* bound: the last value of the clock
          None

ASSUME PatternAssumption == PatternOf \in [State -> Pattern]
ASSUME AssertsAssumption == Asserts \in [Thread -> SUBSET State]
ASSUME NoneAssumption == /\ None \notin State
                         /\ None \notin [value : State, since : Nat]
                         /\ None \notin [value : State, from : Nat, to : Nat]
ASSUME BoundAssumption == MaxAsserts \in Nat /\ MaxTime \in Nat

VARIABLES clock,   \* what get_time answers
          facts,   \* the facts state/2, numbered in the order of assertion
          before,  \* the facts before/3
          pc,      \* how far each thread is with assert_state
          new,     \* its NewState and TimeStamp
          old,     \* what it has found: State, TimeStamp_ini and TimeStamp_end
          calls,   \* history: how often assert_state has been called
          said      \* history: the facts state/2 ever asserted, in order

db == <<facts, before, said>>
vars == <<clock, facts, before, pc, new, old, calls, said>>

Unset == [state |-> None, stamp |-> 0]
Nothing == [state |-> None, from |-> 0, to |-> 0]

Init == /\ clock = 0
        /\ facts = {} /\ before = {}
        /\ pc = [t \in Thread |-> "idle"]
        /\ new = [t \in Thread |-> Unset]
        /\ old = [t \in Thread |-> Nothing]
        /\ calls = 0
        /\ said = {}

\* The facts a goal state(S, _) runs through, for S any state of a set; the goal
\* is left with the first one.
With(S) == {f \in facts : f.state \in S}
First(f, F) == f \in F /\ \A g \in F : f.id <= g.id

\* A fault for the mutants: a state is its own pattern.
JustThat(s) == {s}

\* make_most_generic_term: the states that differ in their arguments only.
Generic(s) == {r \in State : PatternOf[r] = PatternOf[s]}
OrTrue(t) == pc' = [pc EXCEPT ![t] = "assert"]
-------------------------------------------------------------------------------
\* A fault for the mutants: the caller's term is lost.
AssertStateUnbound(t, s) ==
  /\ pc[t] = "idle" /\ calls < MaxAsserts
  /\ pc' = [pc EXCEPT ![t] = "find"]
  /\ calls' = calls + 1
  /\ new' = [new EXCEPT ![t] = [state |-> None, stamp |-> clock]]
  /\ UNCHANGED <<clock, db, old>>

\* assert_state(NewState): its stamp is taken before anything is looked up.
AssertState(t, s) ==
  /\ pc[t] = "idle" /\ calls < MaxAsserts
  /\ pc' = [pc EXCEPT ![t] = "find"]
  /\ calls' = calls + 1
  /\ new' = [new EXCEPT ![t] = [state |-> s, stamp |-> clock]]
  /\ UNCHANGED <<clock, db, old>>

\* assert_before_state: the first state of the pattern, or none.
Find(t) ==
  /\ pc[t] = "find"
  /\ \E f \in facts : /\ First(f, With(Generic(new[t].state)))
                      /\ old' = [old EXCEPT ![t].state = f.state]
  /\ pc' = [pc EXCEPT ![t] = "look"]
  /\ UNCHANGED <<clock, db, new, calls>>

FindNone(t) ==
  /\ pc[t] = "find" /\ With(Generic(new[t].state)) = {}
  /\ OrTrue(t)
  /\ UNCHANGED <<clock, db, new, old, calls>>

\* retract_state: the state found is looked up again, for its stamp.
Look(t) ==
  /\ pc[t] = "look"
  /\ \E f \in facts : /\ First(f, With({old[t].state}))
                      /\ old' = [old EXCEPT ![t].from = f.stamp]
  /\ pc' = [pc EXCEPT ![t] = "retract"]
  /\ UNCHANGED <<clock, db, new, calls>>

\* Another thread has retracted it in the meantime.
LookNone(t) ==
  /\ pc[t] = "look" /\ With({old[t].state}) = {}
  /\ OrTrue(t)
  /\ UNCHANGED <<clock, db, new, old, calls>>

RetractStates(t) ==
  /\ pc[t] = "retract"
  /\ facts' = facts \ With(Generic(old[t].state))
  /\ pc' = [pc EXCEPT ![t] = "forget"]
  /\ UNCHANGED <<clock, before, new, old, calls, said>>

\* The intervals of the pattern go as well: there is no older history.
RetractBefore(t) ==
  /\ pc[t] = "forget"
  /\ before' = {b \in before : b.state \notin Generic(old[t].state)}
  /\ pc' = [pc EXCEPT ![t] = "end"]
  /\ UNCHANGED <<clock, facts, new, old, calls, said>>

GetEnd(t) ==
  /\ pc[t] = "end"
  /\ old' = [old EXCEPT ![t].to = clock]
  /\ pc' = [pc EXCEPT ![t] = "close"]
  /\ UNCHANGED <<clock, db, new, calls>>

\* A fault for the mutants: the stamps are swapped.
Swapped(t) == [state |-> old[t].state, from |-> old[t].to, to |-> old[t].from]
Closed(t) == old[t]

\* A fault for the mutants: the call ends here.
AssertBeforeAndEnd(t) ==
  /\ pc[t] = "close"
  /\ before' = before \cup {Closed(t)}
  /\ pc' = [pc EXCEPT ![t] = "idle"]
  /\ UNCHANGED <<clock, facts, new, old, calls, said>>

AssertBefore(t) ==
  /\ pc[t] = "close"
  /\ before' = before \cup {Closed(t)}
  /\ OrTrue(t)
  /\ UNCHANGED <<clock, facts, new, old, calls, said>>

\* A fault for the mutants: the stamp is taken when the fact is asserted.
StampedNow(t) == [id |-> Cardinality(said) + 1, state |-> new[t].state, stamp |-> clock]
Opened(t) == [id |-> Cardinality(said) + 1, state |-> new[t].state, stamp |-> new[t].stamp]

AssertNew(t) ==
  /\ pc[t] = "assert"
  /\ facts' = facts \cup {Opened(t)}
  /\ said' = said \cup {Opened(t)}
  /\ pc' = [pc EXCEPT ![t] = "idle"]
  /\ new' = [new EXCEPT ![t] = Unset]
  /\ old' = [old EXCEPT ![t] = Nothing]
  /\ UNCHANGED <<clock, before, calls>>

Tick == /\ clock < MaxTime
        /\ clock' = clock + 1
        /\ UNCHANGED <<db, pc, new, old, calls>>
-------------------------------------------------------------------------------
Step(t) == \/ Find(t) \/ FindNone(t) \/ Look(t) \/ LookNone(t)
           \/ RetractStates(t) \/ RetractBefore(t)
           \/ GetEnd(t) \/ AssertBefore(t) \/ AssertNew(t)

Next == \/ \E t \in Thread : Step(t) \/ \E s \in Asserts[t] : AssertState(t, s)
        \/ Tick

Spec == Init /\ [][Next]_vars
-------------------------------------------------------------------------------
Fact == [id : Nat, state : State, stamp : Nat]
Interval == [state : State, from : Nat, to : Nat]

TypeOK ==
  /\ clock \in Nat
  /\ facts \subseteq said
  /\ said \subseteq Fact
  /\ before \subseteq Interval
  /\ pc \in [Thread -> {"idle", "find", "look", "retract", "forget", "end", "close", "assert"}]
  /\ new \in [Thread -> [state : State \cup {None}, stamp : Nat]]
  /\ old \in [Thread -> [state : State \cup {None}, from : Nat, to : Nat]]
  /\ \A t \in Thread : pc[t] # "idle" => new[t].state \in State
  /\ calls \in Nat

\* before/3 holds no interval that was made up from two writers' facts: its
\* state was asserted with its first stamp, and it does not end before it began.
IntervalsAreTrue ==
  \A b \in before : /\ \E f \in said : f.state = b.state /\ f.stamp = b.from
                    /\ b.from <= b.to /\ b.to <= clock

\* However the writers interleave, no property is forgotten: when nobody is about
\* to assert one of its states, the last state asserted of it is current.
AssertedLast(f) == \A g \in said : PatternOf[g.state] = PatternOf[f.state] => g.id <= f.id
NothingForgotten ==
  \A f \in said :
    AssertedLast(f) /\ (\A t \in Thread : pc[t] # "idle" => PatternOf[new[t].state] # PatternOf[f.state])
      => f \in facts

\* The properties with one writer.
Writers(p) == {t \in Thread : \E s \in Asserts[t] : PatternOf[s] = p}
Owned == {p \in Pattern : \E t \in Thread : Writers(p) = {t}}

\* With one writer, the history of a property has no gap: the state before was
\* still current when the present one was stamped (and a little longer).
NoGap ==
  \A b \in before, f \in facts :
    PatternOf[b.state] = PatternOf[f.state] /\ PatternOf[f.state] \in Owned
      => f.stamp \in b.from..b.to

\* And it is a board: what the rules see of it changes in one step, apart from
\* the moments in which the writer has retracted a state and not yet asserted
\* the next one.  The mapping gives them the state that has been retracted.
FactsOf(p) == {f \in facts : PatternOf[f.state] = p}
Replacing(p) == {t \in Thread : /\ pc[t] \in {"forget", "end", "close", "assert"}
                                /\ old[t].state \in State
                                /\ PatternOf[old[t].state] = p}
Now(p) == IF FactsOf(p) # {}
          THEN LET f == CHOOSE f \in FactsOf(p) : TRUE IN [value |-> f.state, since |-> f.stamp]
          ELSE IF Replacing(p) # {}
          THEN LET t == CHOOSE t \in Replacing(p) : TRUE
               IN [value |-> old[t].state, since |-> old[t].from]
          ELSE None
Past(p) == IF \E b \in before : PatternOf[b.state] = p
              /\ ~\E t \in Replacing(p) : pc[t] = "assert"
           THEN LET b == CHOOSE b \in before : PatternOf[b.state] = p
                IN [value |-> b.state, from |-> b.from, to |-> b.to]
           ELSE None

OnBoard    == [p \in Owned |-> Now(p)]
BoardsPast == [p \in Owned |-> Past(p)]

Board == INSTANCE StateBoard
           WITH Property <- Owned, Absent <- None,
                ValueOf <- [p \in Owned |-> {s \in State : PatternOf[s] = p}],
                now <- OnBoard, past <- BoardsPast

\* With one writer, a property behaves as the board of StateBoard.
BoardSpec == Board!Spec
===============================================================================
