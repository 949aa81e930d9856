-------------------------- MODULE StateHistory_proof --------------------------
(* Proofs about StateHistory: type correctness, IntervalsAreTrue and           *)
(* NothingForgotten, for every set of threads, states and patterns, whoever    *)
(* asserts what, and however often; for the properties with one writer also    *)
(* NoGap and the refinement of StateBoard.                                     *)
EXTENDS StateHistory, FiniteSetTheorems, TLAPS

\* Facts are numbered from 1 on, without an end to the numbers.
Numbered == /\ IsFiniteSet(said)
            /\ \A f \in said : f.id <= Cardinality(said)

\* A thread that has found a state has found one of the pattern it asserts.
Found == \A t \in Thread : pc[t] \in {"look", "retract", "forget", "end", "close"} =>
           /\ old[t].state \in State
           /\ PatternOf[old[t].state] = PatternOf[new[t].state]

TypeInv == TypeOK /\ Numbered /\ Found

\* The number of the next fact is larger than all the others.
LEMMA NextNumber ==
  ASSUME TypeInv, NEW t \in Thread, pc[t] = "assert", said' = said \cup {Opened(t)}
  PROVE  /\ Cardinality(said) \in Nat
         /\ Opened(t) \in Fact
         /\ Opened(t) \notin said
         /\ Opened(t).id = Cardinality(said) + 1
         /\ Cardinality(said') = Cardinality(said) + 1
         /\ Numbered'
<1>1. Cardinality(said) \in Nat
  BY FS_CardinalityType DEF TypeInv, Numbered
<1>2. /\ new[t].state \in State /\ new[t].stamp \in Nat
      /\ Opened(t).id = Cardinality(said) + 1
  BY DEF TypeInv, TypeOK, Opened
<1>3. Opened(t) \in Fact
  BY <1>1, <1>2 DEF Opened, Fact
<1>4. Opened(t) \notin said
  BY <1>1, <1>2 DEF TypeInv, Numbered
<1>5. IsFiniteSet(said') /\ Cardinality(said') = Cardinality(said) + 1
  BY <1>4, FS_AddElement DEF TypeInv, Numbered
<1>6. \A f \in said' : f.id <= Cardinality(said')
  BY <1>1, <1>2, <1>5 DEF TypeInv, Numbered, TypeOK, Fact
<1>7. QED
  BY <1>1, <1>2, <1>3, <1>4, <1>5, <1>6 DEF Numbered
-------------------------------------------------------------------------------
\* Every step keeps the types and the numbers.
LEMMA TypeStep == TypeInv /\ [Next]_vars => TypeInv'
<1> SUFFICES ASSUME TypeInv, [Next]_vars PROVE TypeInv'
  OBVIOUS
<1> USE PatternAssumption, AssertsAssumption, NoneAssumption
<1>1. ASSUME NEW t \in Thread, NEW s \in Asserts[t], AssertState(t, s) PROVE TypeInv'
  <2>1. s \in State
    OBVIOUS
  <2>2. TypeOK' /\ Numbered'
    BY <1>1, <2>1 DEF TypeInv, Numbered, TypeOK, AssertState, db
  <2>3. Found'
    BY <1>1, <2>1 DEF TypeInv, TypeOK, Found, AssertState, db
  <2>4. QED
    BY <2>2, <2>3 DEF TypeInv
<1>2. ASSUME NEW t \in Thread, Find(t) PROVE TypeInv'
  <2>1. PICK f \in facts : /\ First(f, With(Generic(new[t].state)))
                           /\ old' = [old EXCEPT ![t].state = f.state]
    BY <1>2 DEF Find
  <2>2. f.state \in State /\ PatternOf[f.state] = PatternOf[new[t].state]
    BY <2>1 DEF First, With, Generic
  <2>3. TypeOK' /\ Numbered'
    BY <1>2, <2>1, <2>2 DEF TypeInv, Numbered, TypeOK, Find, db
  <2>4. Found'
    BY <1>2, <2>1, <2>2 DEF TypeInv, TypeOK, Found, Find, db
  <2>5. QED
    BY <2>3, <2>4 DEF TypeInv
<1>3. ASSUME NEW t \in Thread, FindNone(t) \/ LookNone(t) PROVE TypeInv'
  BY <1>3 DEF TypeInv, Numbered, Found, TypeOK, FindNone, LookNone, OrTrue, db
<1>4. ASSUME NEW t \in Thread, Look(t) PROVE TypeInv'
  <2>1. TypeOK' /\ Numbered'
    BY <1>4 DEF TypeInv, Numbered, TypeOK, Look, First, With, db, Fact
  <2>2. Found'
    BY <1>4 DEF TypeInv, TypeOK, Found, Look, db
  <2>3. QED
    BY <2>1, <2>2 DEF TypeInv
<1>5. ASSUME NEW t \in Thread, RetractStates(t) PROVE TypeInv'
  BY <1>5 DEF TypeInv, Numbered, Found, TypeOK, RetractStates
<1>6. ASSUME NEW t \in Thread, RetractBefore(t) PROVE TypeInv'
  BY <1>6 DEF TypeInv, Numbered, Found, TypeOK, RetractBefore
<1>7. ASSUME NEW t \in Thread, GetEnd(t) PROVE TypeInv'
  <2>1. TypeOK' /\ Numbered'
    BY <1>7 DEF TypeInv, Numbered, TypeOK, GetEnd, db
  <2>2. Found'
    BY <1>7 DEF TypeInv, TypeOK, Found, GetEnd, db
  <2>3. QED
    BY <2>1, <2>2 DEF TypeInv
<1>8. ASSUME NEW t \in Thread, AssertBefore(t) PROVE TypeInv'
  <2>1. Closed(t) \in Interval
    BY <1>8 DEF TypeInv, TypeOK, Found, AssertBefore, Closed, Interval
  <2>2. QED
    BY <1>8, <2>1 DEF TypeInv, Numbered, Found, TypeOK, AssertBefore, OrTrue
<1>9. ASSUME NEW t \in Thread, AssertNew(t) PROVE TypeInv'
  <2>1. Opened(t) \in Fact /\ Numbered'
    BY <1>9, NextNumber DEF AssertNew
  <2>2. TypeOK'
    BY <1>9, <2>1 DEF TypeInv, TypeOK, AssertNew, Unset, Nothing
  <2>3. Found'
    BY <1>9 DEF TypeInv, TypeOK, Found, AssertNew
  <2>4. QED
    BY <2>1, <2>2, <2>3 DEF TypeInv
<1>10. CASE Tick
  BY <1>10 DEF TypeInv, Numbered, Found, TypeOK, Tick, db
<1>11. CASE UNCHANGED vars
  BY <1>11 DEF TypeInv, Numbered, Found, TypeOK, vars, db
<1>12. QED
  BY <1>1, <1>2, <1>3, <1>4, <1>5, <1>6, <1>7, <1>8, <1>9, <1>10, <1>11 DEF Next, Step

LEMMA TypeStart == Init => TypeInv
<1> SUFFICES ASSUME Init PROVE TypeInv
  OBVIOUS
<1>1. IsFiniteSet(said)
  BY FS_EmptySet DEF Init
<1>2. QED
  BY <1>1 DEF Init, TypeInv, TypeOK, Numbered, Found, Unset, Nothing

LEMMA TypeAlways == Spec => []TypeInv
<1>1. QED
  BY TypeStart, TypeStep, PTL DEF Spec

\* assert_state leaves well-formed facts and intervals, and what a thread keeps
\* between its steps are states and stamps.
THEOREM TypeCorrect == Spec => []TypeOK
<1>1. TypeInv => TypeOK
  BY DEF TypeInv
<1>2. QED
  BY <1>1, TypeAlways, PTL
-------------------------------------------------------------------------------
(* What before/3 says was true.                                                *)

\* Stamps are not of the future; what a thread has found was asserted with the
\* stamp it has read, however long ago.
TrueSoFar ==
  /\ \A f \in said : f.stamp <= clock
  /\ \A t \in Thread : pc[t] # "idle" => new[t].stamp <= clock
  /\ \A t \in Thread : pc[t] \in {"retract", "forget", "end", "close"} =>
       \E f \in said : f.state = old[t].state /\ f.stamp = old[t].from
  /\ \A t \in Thread : pc[t] = "close" => old[t].from <= old[t].to /\ old[t].to <= clock

TrueInv == TrueSoFar /\ IntervalsAreTrue

LEMMA TrueStep == TypeInv /\ TrueInv /\ [Next]_vars => TrueInv'
<1> SUFFICES ASSUME TypeInv, TrueInv, [Next]_vars PROVE TrueInv'
  OBVIOUS
<1> USE DEF TypeInv, TypeOK, TrueInv, TrueSoFar, IntervalsAreTrue
<1>1. ASSUME NEW t \in Thread, NEW s \in Asserts[t], AssertState(t, s) PROVE TrueInv'
  BY <1>1 DEF AssertState, db
<1>2. ASSUME NEW t \in Thread, Find(t) PROVE TrueInv'
  BY <1>2 DEF Find, db
<1>3. ASSUME NEW t \in Thread, FindNone(t) \/ LookNone(t) PROVE TrueInv'
  BY <1>3 DEF FindNone, LookNone, OrTrue, db
<1>4. ASSUME NEW t \in Thread, Look(t) PROVE TrueInv'
  <2>1. PICK f \in facts : f.state = old[t].state /\ old' = [old EXCEPT ![t].from = f.stamp]
    BY <1>4 DEF Look, First, With
  <2>2. f \in said
    OBVIOUS
  <2>3. QED
    BY <1>4, <2>1, <2>2 DEF Look, db
<1>5. ASSUME NEW t \in Thread, RetractStates(t) PROVE TrueInv'
  BY <1>5 DEF RetractStates
<1>6. ASSUME NEW t \in Thread, RetractBefore(t) PROVE TrueInv'
  BY <1>6 DEF RetractBefore
<1>7. ASSUME NEW t \in Thread, GetEnd(t) PROVE TrueInv'
  <2>1. PICK f \in said : f.state = old[t].state /\ f.stamp = old[t].from
    BY <1>7 DEF GetEnd
  <2>2. old[t].from <= clock
    BY <2>1
  <2>3. QED
    BY <1>7, <2>2 DEF GetEnd, db
<1>8. ASSUME NEW t \in Thread, AssertBefore(t) PROVE TrueInv'
  BY <1>8 DEF AssertBefore, OrTrue, Closed
<1>9. ASSUME NEW t \in Thread, AssertNew(t) PROVE TrueInv'
  <2>1. Opened(t).stamp <= clock
    BY <1>9 DEF AssertNew, Opened
  <2>2. QED
    BY <1>9, <2>1 DEF AssertNew
<1>10. CASE Tick
  BY <1>10 DEF Tick, db, Fact, Interval
<1>11. CASE UNCHANGED vars
  BY <1>11 DEF vars, db
<1>12. QED
  BY <1>1, <1>2, <1>3, <1>4, <1>5, <1>6, <1>7, <1>8, <1>9, <1>10, <1>11 DEF Next, Step

\* No interval of before/3 is made up from the steps of two threads: its state
\* was asserted with its first stamp, and it runs forwards and not into the
\* future.
THEOREM IntervalsAreTrueHolds == Spec => []IntervalsAreTrue
<1>1. Init => TrueInv
  BY DEF Init, TrueInv, TrueSoFar, IntervalsAreTrue
<1>2. TrueInv => IntervalsAreTrue
  BY DEF TrueInv
<1>3. QED
  BY <1>1, <1>2, TypeAlways, TrueStep, PTL DEF Spec
-------------------------------------------------------------------------------
(* Nothing is forgotten.                                                       *)

\* Whoever retracts the states of a pattern is about to assert one.
LEMMA RetractsItsOwn ==
  ASSUME TypeInv, NEW t \in Thread, pc[t] = "retract", NEW f \in With(Generic(old[t].state))
  PROVE  PatternOf[new[t].state] = PatternOf[f.state]
BY DEF TypeInv, Found, With, Generic

LEMMA ForgetStep == TypeInv /\ NothingForgotten /\ [Next]_vars => NothingForgotten'
<1> SUFFICES ASSUME TypeInv, NothingForgotten, [Next]_vars PROVE NothingForgotten'
  OBVIOUS
<1> USE DEF NothingForgotten, AssertedLast
<1>1. ASSUME NEW t \in Thread, pc[t] # "idle", UNCHANGED <<facts, said, new>>,
             NEW p, p # "idle", pc' = [pc EXCEPT ![t] = p]
      PROVE  NothingForgotten'
  BY <1>1 DEF TypeInv, TypeOK
<1>2. ASSUME NEW t \in Thread, NEW s \in Asserts[t], AssertState(t, s) PROVE NothingForgotten'
  BY <1>2 DEF TypeInv, TypeOK, AssertState, db
<1>3. ASSUME NEW t \in Thread, RetractStates(t) PROVE NothingForgotten'
  <2> SUFFICES ASSUME NEW f \in said, AssertedLast(f),
                      \A u \in Thread : pc'[u] # "idle" => PatternOf[new[u].state] # PatternOf[f.state]
               PROVE  f \in facts'
    BY <1>3 DEF RetractStates
  <2>1. \A u \in Thread : pc[u] # "idle" => pc'[u] # "idle"
    BY <1>3 DEF RetractStates, TypeInv, TypeOK
  <2>2. f \in facts
    BY <2>1
  <2>3. PatternOf[new[t].state] # PatternOf[f.state]
    BY <1>3, <2>1 DEF RetractStates
  <2>4. f \notin With(Generic(old[t].state))
    BY <1>3, <2>3, RetractsItsOwn DEF RetractStates
  <2>5. QED
    BY <1>3, <2>2, <2>4 DEF RetractStates
<1>4. ASSUME NEW t \in Thread, AssertNew(t) PROVE NothingForgotten'
  <2> SUFFICES ASSUME NEW f \in said', AssertedLast(f)',
                      \A u \in Thread : pc'[u] # "idle" => PatternOf[new'[u].state] # PatternOf[f.state]
               PROVE  f \in facts'
    OBVIOUS
  <2>1. CASE f = Opened(t)
    BY <1>4, <2>1 DEF AssertNew
  <2>2. CASE f # Opened(t)
    <3>1. f \in said /\ f.id \in Nat /\ f.id <= Cardinality(said)
      BY <1>4, <2>2 DEF AssertNew, TypeInv, TypeOK, Numbered, Fact
    <3>2. Opened(t) \in said' /\ Opened(t).id = Cardinality(said) + 1 /\ Cardinality(said) \in Nat
      BY <1>4, NextNumber DEF AssertNew
    <3>3. PatternOf[new[t].state] # PatternOf[f.state]
      BY <3>1, <3>2 DEF Opened
    <3>4. \A u \in Thread : pc[u] # "idle" => PatternOf[new[u].state] # PatternOf[f.state]
      BY <1>4, <3>3 DEF AssertNew, TypeInv, TypeOK
    <3>5. f \in facts
      BY <1>4, <3>1, <3>4 DEF AssertNew
    <3>6. QED
      BY <1>4, <3>5 DEF AssertNew
  <2>3. QED
    BY <2>1, <2>2
<1>5. ASSUME NEW t \in Thread,
             Find(t) \/ FindNone(t) \/ Look(t) \/ LookNone(t)
               \/ RetractBefore(t) \/ GetEnd(t) \/ AssertBefore(t)
      PROVE  NothingForgotten'
  <2>1. pc[t] # "idle" /\ UNCHANGED <<facts, said, new>>
    BY <1>5 DEF Find, FindNone, Look, LookNone, RetractBefore, GetEnd, AssertBefore, db
  <2>2. \E p \in {"look", "retract", "end", "close", "assert"} : pc' = [pc EXCEPT ![t] = p]
    BY <1>5 DEF Find, FindNone, Look, LookNone, RetractBefore, GetEnd, AssertBefore, OrTrue
  <2>3. PICK p \in {"look", "retract", "end", "close", "assert"} : pc' = [pc EXCEPT ![t] = p]
    BY <2>2
  <2>4. p # "idle"
    OBVIOUS
  <2>5. QED
    BY <1>1, <2>1, <2>3, <2>4
<1>6. CASE Tick
  BY <1>6 DEF Tick, db
<1>7. CASE UNCHANGED vars
  BY <1>7 DEF vars, db
<1>8. QED
  BY <1>2, <1>3, <1>4, <1>5, <1>6, <1>7 DEF Next, Step

\* However the calls of assert_state interleave, when none is under way for a
\* property the state that was asserted of it last is there.
THEOREM NothingForgottenHolds == Spec => []NothingForgotten
<1>1. Init => NothingForgotten
  BY DEF Init, NothingForgotten
<1>2. QED
  BY <1>1, TypeAlways, ForgetStep, PTL DEF Spec
-------------------------------------------------------------------------------
(* With one writer: NoGap and the refinement of StateBoard.  The writer finds  *)
(* what it has left; the invariant says, for each of its steps, which facts    *)
(* and which intervals of the property there are and how their stamps compare. *)

Busy(t, p)  == pc[t] # "idle" /\ PatternOf[new[t].state] = p
BeforeOf(p) == {b \in before : PatternOf[b.state] = p}
Replaces(t) == \/ pc[t] \in {"forget", "end", "close"}
               \/ pc[t] = "assert" /\ old[t].state \in State

\* Of every thread: it asserts what it is given to assert, starts with nothing
\* found, and what it has found is of the pattern it asserts.
ThreadInv ==
  \A t \in Thread :
    /\ pc[t] # "idle" => new[t].state \in Asserts[t]
    /\ pc[t] \in {"idle", "find"} => old[t].state = None
    /\ pc[t] = "assert" /\ old[t].state \in State =>
         PatternOf[old[t].state] = PatternOf[new[t].state]

\* What is there of an owned property: one fact, one interval, without a gap.
Single(p) ==
  /\ \A f, g \in FactsOf(p) : f = g
  /\ \A b, c \in BeforeOf(p) : b = c
  /\ \A b \in BeforeOf(p), f \in FactsOf(p) : b.from <= f.stamp /\ f.stamp <= b.to
  /\ FactsOf(p) = {} /\ (\A t \in Thread : ~Busy(t, p)) => BeforeOf(p) = {}

\* How far its writer has come.
Stage(t, p) ==
  /\ \A f \in FactsOf(p) : f.stamp <= new[t].stamp
  /\ pc[t] = "find" /\ FactsOf(p) = {} => BeforeOf(p) = {}
  /\ pc[t] = "look" => \E f \in FactsOf(p) : f.state = old[t].state
  /\ pc[t] = "retract" =>
       \E f \in FactsOf(p) : f.state = old[t].state /\ f.stamp = old[t].from
  /\ pc[t] \in {"forget", "end", "close", "assert"} => FactsOf(p) = {}
  /\ pc[t] \in {"end", "close"} => BeforeOf(p) = {}
  /\ pc[t] = "assert" => BeforeOf(p) = IF old[t].state \in State THEN {old[t]} ELSE {}
  /\ Replaces(t) => old[t].from <= new[t].stamp
  /\ Replaces(t) /\ pc[t] \in {"close", "assert"} => new[t].stamp <= old[t].to

OwnedInv == \A p \in Owned : Single(p) /\ \A t \in Thread : Busy(t, p) => Stage(t, p)

LEMMA ThreadStep == TypeInv /\ ThreadInv /\ [Next]_vars => ThreadInv'
<1> SUFFICES ASSUME TypeInv, ThreadInv, [Next]_vars PROVE ThreadInv'
  OBVIOUS
<1> USE AssertsAssumption, NoneAssumption DEF TypeInv, TypeOK, ThreadInv
<1>1. ASSUME NEW t \in Thread, NEW s \in Asserts[t], AssertState(t, s) PROVE ThreadInv'
  BY <1>1 DEF AssertState, db
<1>2. ASSUME NEW t \in Thread, Find(t) PROVE ThreadInv'
  BY <1>2 DEF Find, db
<1>3. ASSUME NEW t \in Thread, FindNone(t) PROVE ThreadInv'
  BY <1>3 DEF FindNone, OrTrue, db
<1>4. ASSUME NEW t \in Thread, LookNone(t) PROVE ThreadInv'
  BY <1>4 DEF LookNone, OrTrue, db, Found
<1>5. ASSUME NEW t \in Thread, Look(t) \/ RetractStates(t) \/ RetractBefore(t) \/ GetEnd(t)
      PROVE  ThreadInv'
  BY <1>5 DEF Look, RetractStates, RetractBefore, GetEnd, db
<1>6. ASSUME NEW t \in Thread, AssertBefore(t) PROVE ThreadInv'
  BY <1>6 DEF AssertBefore, OrTrue, db, Found
<1>7. ASSUME NEW t \in Thread, AssertNew(t) PROVE ThreadInv'
  BY <1>7 DEF AssertNew, db, Nothing, Unset
<1>8. CASE Tick \/ UNCHANGED vars
  BY <1>8 DEF Tick, vars, db
<1> QED BY <1>1, <1>2, <1>3, <1>4, <1>5, <1>6, <1>7, <1>8 DEF Next, Step

LEMMA OwnedMeans ==
  ASSUME NEW p \in Owned
  PROVE  p \in Pattern /\ \A t, u \in Writers(p) : t = u
BY DEF Owned

\* Only its writer is ever busy with an owned property.
LEMMA OneWriter ==
  ASSUME ThreadInv, NEW p \in Owned, NEW t \in Thread, NEW u \in Thread,
         Busy(t, p), Busy(u, p)
  PROVE  t = u
<1>1. t \in Writers(p) /\ u \in Writers(p)
  BY DEF ThreadInv, Busy, Writers
<1> QED BY <1>1, OwnedMeans

\* A thread changes what there is of the pattern it asserts, and nothing else.
LEMMA StepFrame ==
  ASSUME TypeInv, ThreadInv, NEW t \in Thread, Step(t)
  PROVE  /\ pc[t] # "idle" /\ (pc'[t] # "idle" => new'[t] = new[t])
         /\ \A u \in Thread \ {t} : pc'[u] = pc[u] /\ new'[u] = new[u] /\ old'[u] = old[u]
         /\ \A p : p # PatternOf[new[t].state] =>
              FactsOf(p)' = FactsOf(p) /\ BeforeOf(p)' = BeforeOf(p)
<1> USE DEF TypeInv, TypeOK, FactsOf, BeforeOf
<1>1. CASE Find(t) \/ FindNone(t) \/ Look(t) \/ LookNone(t) \/ GetEnd(t)
  BY <1>1 DEF Find, FindNone, Look, LookNone, GetEnd, OrTrue, db
<1>2. CASE RetractStates(t)
  <2>1. facts' = facts \ With(Generic(old[t].state))
    BY <1>2 DEF RetractStates
  <2>2. \A f \in With(Generic(old[t].state)) : PatternOf[f.state] = PatternOf[new[t].state]
    BY <1>2, RetractsItsOwn DEF RetractStates
  <2>3. \A p : p # PatternOf[new[t].state] => FactsOf(p)' = FactsOf(p)
    BY <2>1, <2>2
  <2> QED BY <1>2, <2>3 DEF RetractStates
<1>3. CASE RetractBefore(t)
  <2>1. before' = {b \in before : b.state \notin Generic(old[t].state)}
    BY <1>3 DEF RetractBefore
  <2>2. \A b \in before : b.state \in Generic(old[t].state) =>
          PatternOf[b.state] = PatternOf[new[t].state]
    BY <1>3 DEF RetractBefore, Found, Generic
  <2>3. \A p : p # PatternOf[new[t].state] => BeforeOf(p)' = BeforeOf(p)
    BY <2>1, <2>2
  <2> QED BY <1>3, <2>3 DEF RetractBefore
<1>4. CASE AssertBefore(t)
  <2>1. before' = before \cup {old[t]} /\ PatternOf[old[t].state] = PatternOf[new[t].state]
    BY <1>4 DEF AssertBefore, Closed, Found
  <2>2. \A p : p # PatternOf[new[t].state] => BeforeOf(p)' = BeforeOf(p)
    BY <2>1
  <2> QED BY <1>4, <2>2 DEF AssertBefore, OrTrue
<1>5. CASE AssertNew(t)
  <2>1. facts' = facts \cup {Opened(t)} /\ Opened(t).state = new[t].state
    BY <1>5 DEF AssertNew, Opened
  <2>2. \A p : p # PatternOf[new[t].state] => FactsOf(p)' = FactsOf(p)
    BY <2>1
  <2> QED BY <1>5, <2>2 DEF AssertNew
<1> QED BY <1>1, <1>2, <1>3, <1>4, <1>5 DEF Step

\* What an owned property is does not depend on the work on the other ones.
LEMMA Untouched ==
  ASSUME NEW p, Single(p), \A t \in Thread : Busy(t, p) => Stage(t, p),
         FactsOf(p)' = FactsOf(p), BeforeOf(p)' = BeforeOf(p),
         \A t \in Thread : Busy(t, p)' <=> Busy(t, p),
         \A t \in Thread : Busy(t, p) =>
           pc'[t] = pc[t] /\ new'[t] = new[t] /\ old'[t] = old[t]
  PROVE  Single(p)' /\ \A t \in Thread : Busy(t, p)' => Stage(t, p)'
<1>1. Single(p)'
  BY DEF Single
<1>2. ASSUME NEW t \in Thread, Busy(t, p) PROVE Stage(t, p)'
  BY <1>2 DEF Stage, Replaces
<1> QED BY <1>1, <1>2

\* The writer's own steps.
LEMMA OwnStep ==
  ASSUME TypeInv, TrueInv, ThreadInv, NEW p \in Owned, Single(p),
         NEW t \in Thread, Busy(t, p), Stage(t, p), Step(t)
  PROVE  Single(p)' /\ (Busy(t, p)' => Stage(t, p)')
<1> USE NoneAssumption, PatternAssumption
<1>a. /\ pc \in [Thread -> {"idle", "find", "look", "retract", "forget", "end", "close", "assert"}]
      /\ old \in [Thread -> [state : State \cup {None}, from : Nat, to : Nat]]
      /\ new[t] \in [state : State, stamp : Nat] /\ PatternOf[new[t].state] = p
      /\ facts \subseteq Fact /\ before \subseteq Interval /\ clock \in Nat
      /\ pc[t] # "idle"
  BY DEF TypeInv, TypeOK, Busy
<1>b. FactsOf(p) \subseteq Fact /\ BeforeOf(p) \subseteq Interval
  BY <1>a DEF FactsOf, BeforeOf
<1>c. new[t].stamp <= clock
  BY <1>a DEF TrueInv, TrueSoFar
<1>d. pc[t] \in {"look", "retract", "forget", "end", "close"} =>
        old[t].state \in State /\ PatternOf[old[t].state] = p
  BY <1>a DEF TypeInv, Found
\* Steps that change neither facts nor intervals.
<1>e. ASSUME UNCHANGED <<facts, before>>, pc'[t] # "idle", new'[t] = new[t]
      PROVE  FactsOf(p)' = FactsOf(p) /\ BeforeOf(p)' = BeforeOf(p) /\ Single(p)'
  <2>1. FactsOf(p)' = FactsOf(p) /\ BeforeOf(p)' = BeforeOf(p)
    BY <1>e DEF FactsOf, BeforeOf
  <2>2. Busy(t, p)'
    BY <1>a, <1>e DEF Busy
  <2> QED BY <2>1, <2>2 DEF Single
<1>1. CASE Find(t)
  <2>1. PICK f \in facts : /\ f.state \in Generic(new[t].state)
                           /\ old' = [old EXCEPT ![t].state = f.state]
    BY <1>1 DEF Find, First, With
  <2>2. f \in FactsOf(p) /\ old'[t].state = f.state
    BY <1>a, <2>1 DEF FactsOf, Generic
  <2>3. pc'[t] = "look" /\ UNCHANGED <<facts, before, new>>
    BY <1>1, <1>a DEF Find, db
  <2>4. Stage(t, p)'
    BY <1>e, <2>2, <2>3 DEF Stage, Replaces
  <2> QED BY <1>e, <2>3, <2>4
<1>2. CASE FindNone(t)
  <2>1. FactsOf(p) = {}
    BY <1>2, <1>a DEF FindNone, With, Generic, FactsOf, Fact
  <2>2. pc'[t] = "assert" /\ UNCHANGED <<facts, before, new, old>>
    BY <1>2, <1>a DEF FindNone, OrTrue, db
  <2>3. old[t].state \notin State /\ pc[t] = "find"
    BY <1>2 DEF FindNone, ThreadInv
  <2>4. BeforeOf(p) = {}
    BY <2>1, <2>3 DEF Stage
  <2>5. Stage(t, p)'
    BY <1>e, <2>1, <2>2, <2>3, <2>4 DEF Stage, Replaces
  <2> QED BY <1>e, <2>2, <2>5
<1>3. CASE Look(t)
  <2>1. PICK g \in facts : g.state = old[t].state /\ old' = [old EXCEPT ![t].from = g.stamp]
    BY <1>3 DEF Look, First, With
  <2>2. g \in FactsOf(p) /\ pc[t] = "look"
    BY <1>3, <1>d, <2>1 DEF FactsOf, Look
  <2>3. old'[t].state = g.state /\ old'[t].from = g.stamp
    BY <1>a, <2>1
  <2>4. pc'[t] = "retract" /\ UNCHANGED <<facts, before, new>>
    BY <1>3, <1>a DEF Look, db
  <2>5. Stage(t, p)'
    BY <1>e, <2>2, <2>3, <2>4 DEF Stage, Replaces
  <2> QED BY <1>e, <2>4, <2>5
<1>4. CASE LookNone(t)
  BY <1>4 DEF LookNone, With, Stage, FactsOf
<1>5. CASE RetractStates(t)
  <2>1. FactsOf(p)' = {}
    <3>1. \A f \in FactsOf(p) : f \in With(Generic(old[t].state))
      BY <1>5, <1>b, <1>d DEF RetractStates, FactsOf, With, Generic, Fact
    <3> QED BY <1>5, <3>1 DEF RetractStates, FactsOf
  <2>2. /\ pc[t] = "retract" /\ pc'[t] = "forget" /\ UNCHANGED <<before, new, old>>
        /\ BeforeOf(p)' = BeforeOf(p)
    BY <1>5, <1>a DEF RetractStates, BeforeOf
  <2>3. old[t].from <= new[t].stamp
    BY <2>2 DEF Stage
  <2>4. Busy(t, p)'
    BY <1>a, <2>2 DEF Busy
  <2>5. Single(p)'
    BY <2>1, <2>2, <2>4 DEF Single
  <2>6. Stage(t, p)'
    BY <2>1, <2>2, <2>3 DEF Stage, Replaces
  <2> QED BY <2>5, <2>6
<1>6. CASE RetractBefore(t)
  <2>1. BeforeOf(p)' = {}
    <3>1. \A b \in BeforeOf(p) : b.state \in Generic(old[t].state)
      BY <1>6, <1>b, <1>d DEF RetractBefore, BeforeOf, Generic, Interval
    <3> QED BY <1>6, <3>1 DEF RetractBefore, BeforeOf
  <2>2. /\ pc[t] = "forget" /\ pc'[t] = "end" /\ UNCHANGED <<facts, new, old>>
        /\ FactsOf(p)' = FactsOf(p)
    BY <1>6, <1>a DEF RetractBefore, FactsOf
  <2>3. old[t].from <= new[t].stamp /\ FactsOf(p) = {}
    BY <2>2 DEF Stage, Replaces
  <2>4. Single(p)'
    BY <2>1, <2>2 DEF Single
  <2>5. Stage(t, p)'
    BY <2>1, <2>2, <2>3 DEF Stage, Replaces
  <2> QED BY <2>4, <2>5
<1>7. CASE GetEnd(t)
  <2>1. /\ pc[t] = "end" /\ pc'[t] = "close" /\ UNCHANGED <<facts, before, new>>
        /\ old'[t].from = old[t].from /\ old'[t].to = clock
    BY <1>7, <1>a DEF GetEnd, db
  <2>2. FactsOf(p) = {} /\ BeforeOf(p) = {} /\ old[t].from <= new[t].stamp
    BY <2>1 DEF Stage, Replaces
  <2>3. Stage(t, p)'
    BY <1>c, <1>e, <2>1, <2>2 DEF Stage, Replaces
  <2> QED BY <1>e, <2>1, <2>3
<1>8. CASE AssertBefore(t)
  <2>1. /\ pc[t] = "close" /\ pc'[t] = "assert" /\ UNCHANGED <<facts, new, old>>
        /\ before' = before \cup {old[t]} /\ FactsOf(p)' = FactsOf(p)
    BY <1>8, <1>a DEF AssertBefore, OrTrue, Closed, FactsOf
  <2>2. /\ FactsOf(p) = {} /\ BeforeOf(p) = {}
        /\ old[t].from <= new[t].stamp /\ new[t].stamp <= old[t].to
    BY <2>1 DEF Stage, Replaces
  <2>3. BeforeOf(p)' = {old[t]} /\ old[t].state \in State
    BY <1>d, <2>1, <2>2 DEF BeforeOf
  <2>4. Busy(t, p)'
    BY <1>a, <2>1 DEF Busy
  <2>5. Single(p)'
    BY <2>1, <2>2, <2>3, <2>4 DEF Single
  <2>6. Stage(t, p)'
    BY <2>1, <2>2, <2>3 DEF Stage, Replaces
  <2> QED BY <2>5, <2>6
<1>9. CASE AssertNew(t)
  <2>1. /\ pc[t] = "assert" /\ pc'[t] = "idle" /\ before' = before
        /\ facts' = facts \cup {Opened(t)} /\ BeforeOf(p)' = BeforeOf(p)
    BY <1>9, <1>a DEF AssertNew, BeforeOf
  <2>2. Opened(t).state = new[t].state /\ Opened(t).stamp = new[t].stamp
    BY DEF Opened
  <2>3. FactsOf(p) = {} /\ BeforeOf(p) = IF old[t].state \in State THEN {old[t]} ELSE {}
    BY <2>1 DEF Stage
  <2>4. FactsOf(p)' = {Opened(t)}
    BY <1>a, <2>1, <2>2, <2>3 DEF FactsOf
  <2>5. old[t].state \in State => old[t].from <= new[t].stamp /\ new[t].stamp <= old[t].to
    BY <2>1 DEF Stage, Replaces
  <2>6. Single(p)'
    BY <2>1, <2>2, <2>3, <2>4, <2>5 DEF Single
  <2> QED BY <2>1, <2>6 DEF Busy
<1> QED BY <1>1, <1>2, <1>3, <1>4, <1>5, <1>6, <1>7, <1>8, <1>9 DEF Step

BoardInv == TypeInv /\ TrueInv /\ ThreadInv /\ OwnedInv

LEMMA OwnedStep == BoardInv /\ [Next]_vars => OwnedInv'
<1> SUFFICES ASSUME BoardInv, [Next]_vars, NEW p \in Owned
             PROVE  Single(p)' /\ \A t \in Thread : Busy(t, p)' => Stage(t, p)'
  BY DEF OwnedInv
<1> USE DEF BoardInv
<1>a. Single(p) /\ \A t \in Thread : Busy(t, p) => Stage(t, p)
  BY DEF OwnedInv
<1>1. ASSUME NEW t \in Thread, Step(t)
      PROVE  Single(p)' /\ \A u \in Thread : Busy(u, p)' => Stage(u, p)'
  <2>1. /\ pc[t] # "idle" /\ (pc'[t] # "idle" => new'[t] = new[t])
        /\ \A u \in Thread \ {t} : pc'[u] = pc[u] /\ new'[u] = new[u] /\ old'[u] = old[u]
        /\ p # PatternOf[new[t].state] =>
             FactsOf(p)' = FactsOf(p) /\ BeforeOf(p)' = BeforeOf(p)
    BY <1>1, StepFrame
  <2>2. CASE Busy(t, p)
    <3>1. Single(p)' /\ (Busy(t, p)' => Stage(t, p)')
      BY <1>a, <1>1, <2>2, OwnStep
    <3>2. \A u \in Thread \ {t} : ~Busy(u, p)
      BY <2>2, OneWriter
    <3>3. \A u \in Thread \ {t} : ~Busy(u, p)'
      BY <2>1, <3>2 DEF Busy
    <3> QED BY <3>1, <3>3
  <2>3. CASE ~Busy(t, p)
    <3>1. p # PatternOf[new[t].state]
      BY <2>1, <2>3 DEF Busy
    <3>2. \A u \in Thread : Busy(u, p)' <=> Busy(u, p)
      BY <2>1, <3>1 DEF Busy
    <3>3. \A u \in Thread : Busy(u, p) =>
            pc'[u] = pc[u] /\ new'[u] = new[u] /\ old'[u] = old[u]
      BY <2>1, <2>3
    <3> QED BY <1>a, <2>1, <3>1, <3>2, <3>3, Untouched
  <2> QED BY <2>2, <2>3
<1>2. ASSUME NEW t \in Thread, NEW s \in Asserts[t], AssertState(t, s)
      PROVE  Single(p)' /\ \A u \in Thread : Busy(u, p)' => Stage(u, p)'
  <2>1. /\ pc[t] = "idle" /\ pc'[t] = "find" /\ UNCHANGED <<facts, before, old>>
        /\ new'[t].state = s /\ new'[t].stamp = clock
        /\ \A u \in Thread \ {t} : pc'[u] = pc[u] /\ new'[u] = new[u]
    BY <1>2 DEF AssertState, db, TypeInv, TypeOK
  <2>2. FactsOf(p)' = FactsOf(p) /\ BeforeOf(p)' = BeforeOf(p)
    BY <2>1 DEF FactsOf, BeforeOf
  <2>3. CASE PatternOf[s] # p
    <3>1. \A u \in Thread : Busy(u, p)' <=> Busy(u, p)
      BY <2>1, <2>3 DEF Busy
    <3>2. \A u \in Thread : Busy(u, p) =>
            pc'[u] = pc[u] /\ new'[u] = new[u] /\ old'[u] = old[u]
      BY <2>1 DEF Busy
    <3> QED BY <1>a, <2>2, <3>1, <3>2, Untouched
  <2>4. CASE PatternOf[s] = p
    <3>1. \A u \in Thread : ~Busy(u, p)
      <4>1. t \in Writers(p)
        BY <1>2, <2>4 DEF Writers
      <4>2. \A u \in Thread : Busy(u, p) => u \in Writers(p)
        BY DEF Busy, ThreadInv, Writers
      <4> QED BY <2>1, <4>1, <4>2, OwnedMeans DEF Busy
    <3>2. /\ Busy(t, p)' /\ \A u \in Thread \ {t} : ~Busy(u, p)'
      BY <2>1, <2>4, <3>1 DEF Busy
    <3>3. Single(p)'
      BY <1>a, <2>2, <3>2 DEF Single
    <3>4. FactsOf(p) = {} => BeforeOf(p) = {}
      BY <1>a, <3>1 DEF Single
    <3>5. \A f \in FactsOf(p) : f.stamp <= clock
      BY DEF FactsOf, TrueInv, TrueSoFar, TypeInv, TypeOK
    <3>6. Stage(t, p)'
      BY <2>1, <2>2, <3>4, <3>5 DEF Stage, Replaces
    <3> QED BY <3>2, <3>3, <3>6
  <2> QED BY <2>3, <2>4
<1>3. CASE Tick \/ UNCHANGED vars
  <2>1. UNCHANGED <<facts, before, pc, new, old>>
    BY <1>3 DEF Tick, vars, db
  <2> QED BY <1>a, <2>1, Untouched DEF FactsOf, BeforeOf, Busy
<1> QED BY <1>1, <1>2, <1>3 DEF Next

LEMMA BoardAlways == Spec => []BoardInv
<1>1. Init => BoardInv
  <2> SUFFICES ASSUME Init PROVE BoardInv
    OBVIOUS
  <2>1. TrueInv /\ ThreadInv
    BY DEF Init, TrueInv, TrueSoFar, IntervalsAreTrue, ThreadInv, Unset, Nothing
  <2>2. OwnedInv
    BY DEF Init, OwnedInv, Single, Busy, FactsOf, BeforeOf
  <2> QED BY <2>1, <2>2, TypeStart DEF BoardInv
<1>2. BoardInv /\ [Next]_vars => BoardInv'
  BY TypeStep, TrueStep, ThreadStep, OwnedStep DEF BoardInv
<1> QED BY <1>1, <1>2, PTL DEF Spec

\* The history of a property with one writer has no gap: the present state was
\* stamped within the interval that before/3 gives the one before it.
THEOREM NoGapHolds == Spec => []NoGap
<1>1. BoardInv => NoGap
  <2> SUFFICES ASSUME BoardInv, NEW b \in before, NEW f \in facts,
                      PatternOf[b.state] = PatternOf[f.state],
                      PatternOf[f.state] \in Owned
               PROVE  f.stamp \in b.from..b.to
    BY DEF NoGap
  <2>1. b \in BeforeOf(PatternOf[f.state]) /\ f \in FactsOf(PatternOf[f.state])
    BY DEF BeforeOf, FactsOf
  <2>2. b.from <= f.stamp /\ f.stamp <= b.to
    BY <2>1 DEF BoardInv, OwnedInv, Single
  <2>3. b.from \in Nat /\ b.to \in Nat /\ f.stamp \in Nat
    BY DEF BoardInv, TypeInv, TypeOK, Fact, Interval
  <2> QED BY <2>2, <2>3
<1> QED BY <1>1, BoardAlways, PTL
-------------------------------------------------------------------------------
(* The refinement: the mapping shows a property's facts and intervals, and     *)
(* what its writer has retracted while it has not yet put the next state there.*)

NowAs(s, n)     == [value |-> s, since |-> n]
PastAs(s, n, e) == [value |-> s, from |-> n, to |-> e]

MappingFact ==
  \A p \in Owned :
    /\ \A t \in Replacing(p) : Busy(t, p)
    /\ \A f \in FactsOf(p) : Now(p) = NowAs(f.state, f.stamp)
    /\ FactsOf(p) = {} =>
         /\ \A t \in Replacing(p) : Now(p) = NowAs(old[t].state, old[t].from)
         /\ Replacing(p) = {} => Now(p) = None
    /\ BeforeOf(p) = {} => Past(p) = None
    /\ \A t \in Replacing(p) : pc[t] = "assert" => Past(p) = None
    /\ \A b \in BeforeOf(p) : (\A t \in Replacing(p) : pc[t] # "assert") =>
         Past(p) = PastAs(b.state, b.from, b.to)

LEMMA Mapping == BoardInv => MappingFact
<1> SUFFICES ASSUME BoardInv, NEW p \in Owned
    PROVE /\ \A t \in Replacing(p) : Busy(t, p)
          /\ \A f \in FactsOf(p) : Now(p) = NowAs(f.state, f.stamp)
          /\ FactsOf(p) = {} =>
               /\ \A t \in Replacing(p) : Now(p) = NowAs(old[t].state, old[t].from)
               /\ Replacing(p) = {} => Now(p) = None
          /\ BeforeOf(p) = {} => Past(p) = None
          /\ \A t \in Replacing(p) : pc[t] = "assert" => Past(p) = None
          /\ \A b \in BeforeOf(p) : (\A t \in Replacing(p) : pc[t] # "assert") =>
               Past(p) = PastAs(b.state, b.from, b.to)
  BY DEF MappingFact
<1>1. ASSUME NEW t \in Replacing(p) PROVE t \in Thread /\ Busy(t, p)
  BY <1>1 DEF BoardInv, TypeInv, Found, ThreadInv, Replacing, Busy
<1>2. \A t, u \in Replacing(p) : t = u
  BY <1>1, OneWriter DEF BoardInv
<1>3. ASSUME NEW f \in FactsOf(p) PROVE Now(p) = NowAs(f.state, f.stamp)
  <2>1. (CHOOSE g \in FactsOf(p) : TRUE) = f
    BY DEF BoardInv, OwnedInv, Single
  <2> QED BY <2>1 DEF Now, NowAs
<1>4. ASSUME FactsOf(p) = {}, NEW t \in Replacing(p)
      PROVE  Now(p) = NowAs(old[t].state, old[t].from)
  <2>1. (CHOOSE u \in Replacing(p) : TRUE) = t
    BY <1>2
  <2> QED BY <1>4, <2>1 DEF Now, NowAs
<1>5. ASSUME FactsOf(p) = {}, Replacing(p) = {} PROVE Now(p) = None
  BY <1>5 DEF Now
<1>6. (\E b \in before : PatternOf[b.state] = p) <=> BeforeOf(p) # {}
  BY DEF BeforeOf
<1>7. BeforeOf(p) = {} => Past(p) = None
  BY <1>6 DEF Past
<1>8. ASSUME NEW t \in Replacing(p), pc[t] = "assert" PROVE Past(p) = None
  BY <1>8 DEF Past
<1>9. ASSUME NEW b \in BeforeOf(p), \A t \in Replacing(p) : pc[t] # "assert"
      PROVE  Past(p) = PastAs(b.state, b.from, b.to)
  <2>1. (CHOOSE c \in before : PatternOf[c.state] = p) = b
    <3>1. \A c \in before : PatternOf[c.state] = p => c = b
      BY DEF BoardInv, OwnedInv, Single, BeforeOf
    <3>2. b \in before /\ PatternOf[b.state] = p
      BY DEF BeforeOf
    <3> QED BY <3>1, <3>2
  <2> QED BY <1>6, <1>9, <2>1 DEF Past, PastAs
<1> QED BY <1>1, <1>3, <1>4, <1>5, <1>7, <1>8, <1>9

LEMMA MappingNext == BoardInv' => MappingFact'
BY Mapping, PTL

\* Work on other properties changes nothing of this one's place on the board.
LEMMA BoardStays ==
  ASSUME MappingFact, MappingFact', NEW p \in Owned,
         FactsOf(p)' = FactsOf(p), BeforeOf(p)' = BeforeOf(p),
         \A t \in Thread : t \in Replacing(p)' <=> t \in Replacing(p),
         \A t \in Replacing(p) : /\ pc'[t] = "assert" <=> pc[t] = "assert"
                                 /\ old'[t].state = old[t].state
                                 /\ old'[t].from = old[t].from
  PROVE  Now(p)' = Now(p) /\ Past(p)' = Past(p)
<1>1. Replacing(p)' = Replacing(p)
  BY DEF Replacing
<1>2. Now(p)' = Now(p)
  <2>1. ASSUME NEW f \in FactsOf(p) PROVE Now(p)' = Now(p)
    BY DEF MappingFact
  <2>2. ASSUME FactsOf(p) = {}, NEW t \in Replacing(p) PROVE Now(p)' = Now(p)
    <3>1. Now(p) = NowAs(old[t].state, old[t].from)
      BY <2>2 DEF MappingFact
    <3>2. Now(p)' = NowAs(old'[t].state, old'[t].from)
      BY <1>1, <2>2 DEF MappingFact
    <3> QED BY <3>1, <3>2
  <2>3. ASSUME FactsOf(p) = {}, Replacing(p) = {} PROVE Now(p)' = Now(p)
    BY <1>1, <2>3 DEF MappingFact
  <2> QED BY <2>1, <2>2, <2>3
<1>3. Past(p)' = Past(p)
  <2>1. CASE BeforeOf(p) = {}
    BY <2>1 DEF MappingFact
  <2>2. ASSUME NEW t \in Replacing(p), pc[t] = "assert" PROVE Past(p)' = Past(p)
    BY <1>1, <2>2 DEF MappingFact
  <2>3. ASSUME NEW b \in BeforeOf(p), \A t \in Replacing(p) : pc[t] # "assert"
        PROVE  Past(p)' = Past(p)
    BY <1>1, <2>3 DEF MappingFact
  <2> QED BY <2>1, <2>2, <2>3
<1> QED BY <1>2, <1>3

\* The writer's own steps, on the board: nothing; the older interval is wiped; a
\* first state; a new state that replaces the present one.
LEMMA OwnBoardStep ==
  ASSUME BoardInv, BoardInv', NEW p \in Owned, NEW t \in Thread, Busy(t, p), Step(t)
  PROVE  \/ Now(p)' = Now(p) /\ Past(p)' = Past(p)
         \/ Now(p)' = Now(p) /\ Past(p)' = None /\ \E s \in State, n \in Nat : Now(p) = NowAs(s, n)
         \/ \E s \in State, n \in Nat :
              /\ PatternOf[s] = p /\ Now(p)' = NowAs(s, n)
              /\ \/ Now(p) = None /\ Past(p)' = Past(p)
                 \/ \E r \in State, i, e \in Nat :
                      /\ Now(p) = NowAs(r, i) /\ Past(p) = None
                      /\ Past(p)' = PastAs(r, i, e) /\ n \in i..e
<1> USE NoneAssumption
<1>a. /\ pc \in [Thread -> {"idle", "find", "look", "retract", "forget", "end", "close", "assert"}]
      /\ old \in [Thread -> [state : State \cup {None}, from : Nat, to : Nat]]
      /\ new[t] \in [state : State, stamp : Nat] /\ PatternOf[new[t].state] = p
      /\ pc[t] # "idle"
      /\ ThreadInv /\ TypeInv /\ Stage(t, p)
      /\ MappingFact /\ MappingFact'
  BY Mapping, MappingNext DEF BoardInv, OwnedInv, TypeInv, TypeOK, Busy
<1>b. /\ \A u \in Thread \ {t} : pc'[u] = pc[u] /\ new'[u] = new[u] /\ old'[u] = old[u]
      /\ pc'[t] # "idle" => new'[t] = new[t]
  BY <1>a, StepFrame
<1>c. \A u \in Thread \ {t} : u \notin Replacing(p) /\ u \notin Replacing(p)'
  <2>1. \A u \in Thread \ {t} : ~Busy(u, p)
    BY <1>a, OneWriter
  <2>2. \A u \in Thread \ {t} : ~Busy(u, p)'
    BY <1>b, <2>1 DEF Busy
  <2> QED BY <1>a, <2>1, <2>2 DEF MappingFact
<1>d. Replacing(p) \subseteq {t} /\ Replacing(p)' \subseteq {t}
  BY <1>c DEF Replacing
<1>e. pc[t] \in {"forget", "end", "close"} => t \in Replacing(p)
  BY <1>a DEF Replacing, TypeInv, Found
<1>1. ASSUME UNCHANGED <<facts, before>>, t \in Replacing(p)' <=> t \in Replacing(p),
             t \in Replacing(p) => /\ pc[t] # "assert" /\ pc'[t] # "assert"
                                  /\ old'[t].state = old[t].state
                                  /\ old'[t].from = old[t].from
      PROVE  Now(p)' = Now(p) /\ Past(p)' = Past(p)
  <2>1. FactsOf(p)' = FactsOf(p) /\ BeforeOf(p)' = BeforeOf(p)
    BY <1>1 DEF FactsOf, BeforeOf
  <2>2. \A u \in Thread : u \in Replacing(p)' <=> u \in Replacing(p)
    BY <1>1, <1>c
  <2>3. \A u \in Replacing(p) : /\ pc'[u] = "assert" <=> pc[u] = "assert"
                                /\ old'[u].state = old[u].state
                                /\ old'[u].from = old[u].from
    BY <1>1, <1>d
  <2> QED BY <1>a, <2>1, <2>2, <2>3, BoardStays
<1>2. CASE Find(t) \/ FindNone(t) \/ Look(t)
  <2>1. UNCHANGED <<facts, before>> /\ t \notin Replacing(p)
    BY <1>2 DEF Find, FindNone, Look, db, Replacing
  <2>2. t \notin Replacing(p)'
    <3>1. CASE Find(t) \/ Look(t)
      BY <1>a, <3>1 DEF Find, Look, Replacing
    <3>2. CASE FindNone(t)
      BY <1>a, <3>2 DEF FindNone, OrTrue, Replacing, ThreadInv
    <3> QED BY <1>2, <3>1, <3>2
  <2> QED BY <1>1, <2>1, <2>2
<1>3. CASE LookNone(t)
  BY <1>a, <1>3 DEF LookNone, With, Stage, FactsOf
<1>4. CASE GetEnd(t)
  <2>1. /\ UNCHANGED <<facts, before>> /\ pc[t] = "end" /\ pc'[t] = "close"
        /\ old'[t].state = old[t].state /\ old'[t].from = old[t].from
    BY <1>4, <1>a DEF GetEnd, db
  <2>2. t \in Replacing(p) /\ t \in Replacing(p)'
    BY <1>a, <1>e, <2>1 DEF Replacing
  <2> QED BY <1>1, <2>1, <2>2
<1>5. CASE RetractStates(t)
  <2>1. /\ pc[t] = "retract" /\ pc'[t] = "forget" /\ UNCHANGED <<before, new, old>>
    BY <1>5, <1>a DEF RetractStates
  <2>2. PICK f \in FactsOf(p) : f.state = old[t].state /\ f.stamp = old[t].from
    BY <1>a, <2>1 DEF Stage
  <2>3. t \in Replacing(p)'
    BY <1>a, <2>1 DEF Replacing, TypeInv, Found
  <2>4. FactsOf(p)' = {}
    <3>1. Busy(t, p)'
      BY <1>a, <2>1 DEF Busy
    <3>2. Stage(t, p)'
      BY <3>1 DEF BoardInv, OwnedInv
    <3> QED BY <2>1, <3>2 DEF Stage
  <2>5. Now(p) = NowAs(old[t].state, old[t].from)
    BY <1>a, <2>2 DEF MappingFact
  <2>6. Now(p)' = NowAs(old[t].state, old[t].from)
    BY <1>a, <2>1, <2>3, <2>4 DEF MappingFact
  <2>7. Past(p)' = Past(p)
    <3>1. BeforeOf(p)' = BeforeOf(p)
      BY <2>1 DEF BeforeOf
    <3>2. /\ \A u \in Replacing(p) : pc[u] # "assert"
          /\ \A u \in Replacing(p)' : pc'[u] # "assert"
      BY <1>d, <2>1
    <3>3. CASE BeforeOf(p) = {}
      BY <1>a, <3>1, <3>3 DEF MappingFact
    <3>4. ASSUME NEW b \in BeforeOf(p) PROVE Past(p)' = Past(p)
      <4>1. Past(p) = PastAs(b.state, b.from, b.to)
        BY <1>a, <3>2 DEF MappingFact
      <4>2. Past(p)' = PastAs(b.state, b.from, b.to)
        BY <1>a, <3>1, <3>2 DEF MappingFact
      <4> QED BY <4>1, <4>2
    <3> QED BY <3>3, <3>4
  <2> QED BY <2>5, <2>6, <2>7
<1>6. CASE RetractBefore(t)
  <2>1. /\ pc[t] = "forget" /\ pc'[t] = "end" /\ UNCHANGED <<facts, new, old>>
    BY <1>6, <1>a DEF RetractBefore
  <2>2. t \in Replacing(p) /\ t \in Replacing(p)' /\ Busy(t, p)'
    BY <1>a, <1>e, <2>1 DEF Replacing, Busy
  <2>3. Stage(t, p)'
    BY <2>2 DEF BoardInv, OwnedInv
  <2>4. FactsOf(p) = {} /\ FactsOf(p)' = {} /\ BeforeOf(p)' = {}
    BY <1>a, <2>1, <2>3 DEF Stage
  <2>5. /\ Now(p) = NowAs(old[t].state, old[t].from)
        /\ Now(p)' = NowAs(old[t].state, old[t].from) /\ Past(p)' = None
    BY <1>a, <2>1, <2>2, <2>4 DEF MappingFact
  <2>6. old[t].state \in State /\ old[t].from \in Nat
    BY <1>a, <2>1 DEF TypeInv, Found
  <2> QED BY <2>5, <2>6
<1>7. CASE AssertBefore(t)
  <2>1. /\ pc[t] = "close" /\ pc'[t] = "assert" /\ UNCHANGED <<facts, new, old>>
    BY <1>7, <1>a DEF AssertBefore, OrTrue
  <2>2. t \in Replacing(p) /\ t \in Replacing(p)' /\ Busy(t, p)'
    BY <1>a, <1>e, <2>1 DEF Replacing, Busy
  <2>3. Stage(t, p)'
    BY <2>2 DEF BoardInv, OwnedInv
  <2>4. FactsOf(p) = {} /\ FactsOf(p)' = {} /\ BeforeOf(p) = {}
    BY <1>a, <2>1, <2>3 DEF Stage
  <2>5. /\ Now(p) = NowAs(old[t].state, old[t].from) /\ Past(p) = None
        /\ Now(p)' = NowAs(old[t].state, old[t].from) /\ Past(p)' = None
    BY <1>a, <2>1, <2>2, <2>4 DEF MappingFact
  <2> QED BY <2>5
<1>8. CASE AssertNew(t)
  <2>1. /\ pc[t] = "assert" /\ pc'[t] = "idle" /\ before' = before
        /\ Opened(t) \in facts' /\ BeforeOf(p)' = BeforeOf(p)
    BY <1>8, <1>a DEF AssertNew, BeforeOf
  <2> DEFINE s == new[t].state
             n == new[t].stamp
  <2>2. s \in State /\ n \in Nat /\ PatternOf[s] = p
    BY <1>a
  <2>3. Opened(t) \in FactsOf(p)' /\ Opened(t).state = s /\ Opened(t).stamp = n
    BY <2>1, <2>2 DEF Opened, FactsOf
  <2>4. Now(p)' = NowAs(s, n)
    BY <1>a, <2>3 DEF MappingFact
  <2>5. FactsOf(p) = {} /\ BeforeOf(p) = IF old[t].state \in State THEN {old[t]} ELSE {}
    BY <1>a, <2>1 DEF Stage
  <2>6. Replacing(p)' = {}
    BY <1>d, <2>1 DEF Replacing
  <2>7. CASE old[t].state \in State
    <3>1. t \in Replacing(p)
      BY <1>a, <2>1, <2>7 DEF Replacing, ThreadInv
    <3>2. Now(p) = NowAs(old[t].state, old[t].from) /\ Past(p) = None
      BY <1>a, <2>1, <2>5, <3>1 DEF MappingFact
    <3>3. old[t] \in BeforeOf(p)'
      BY <2>1, <2>5, <2>7
    <3>4. Past(p)' = PastAs(old[t].state, old[t].from, old[t].to)
      BY <1>a, <2>6, <3>3 DEF MappingFact
    <3>5. old[t].from <= n /\ n <= old[t].to
      BY <1>a, <2>1, <2>7 DEF Stage, Replaces
    <3>6. old[t].from \in Nat /\ old[t].to \in Nat /\ n \in old[t].from..old[t].to
      BY <1>a, <2>2, <3>5
    <3> QED BY <2>2, <2>4, <2>7, <3>2, <3>4, <3>6
  <2>8. CASE old[t].state \notin State
    <3>1. Replacing(p) = {}
      BY <1>d, <2>8 DEF Replacing
    <3>2. Now(p) = None /\ Past(p) = None
      BY <1>a, <2>5, <2>8, <3>1 DEF MappingFact
    <3>3. Past(p)' = None
      BY <1>a, <2>1, <2>5, <2>8 DEF MappingFact
    <3> QED BY <2>2, <2>4, <3>2, <3>3
  <2> QED BY <2>7, <2>8
<1> QED BY <1>2, <1>3, <1>4, <1>5, <1>6, <1>7, <1>8 DEF Step

LEMMA BoardStep ==
  ASSUME BoardInv, BoardInv', [Next]_vars
  PROVE  [Board!Next]_(Board!vars)
<1>a. MappingFact /\ MappingFact' /\ ThreadInv /\ TypeInv
  BY Mapping, MappingNext DEF BoardInv
<1>b. /\ \A s \in State, n \in Nat : NowAs(s, n) # None
      /\ \A s \in State, i, e \in Nat : PastAs(s, i, e) # None
  BY NoneAssumption DEF NowAs, PastAs
<1>1. ASSUME \A p \in Owned : Now(p)' = Now(p) /\ Past(p)' = Past(p)
      PROVE  UNCHANGED Board!vars
  <2>1. OnBoard' = OnBoard /\ BoardsPast' = BoardsPast
    BY <1>1 DEF OnBoard, BoardsPast
  <2> QED BY <2>1 DEF Board!vars
<1>2. ASSUME NEW t \in Thread, Step(t) PROVE [Board!Next]_(Board!vars)
  <2>1. /\ pc[t] # "idle" /\ (pc'[t] # "idle" => new'[t] = new[t])
        /\ \A u \in Thread \ {t} : pc'[u] = pc[u] /\ new'[u] = new[u] /\ old'[u] = old[u]
        /\ \A q : q # PatternOf[new[t].state] =>
             FactsOf(q)' = FactsOf(q) /\ BeforeOf(q)' = BeforeOf(q)
    BY <1>a, <1>2, StepFrame
  <2>2. ASSUME NEW q \in Owned, q # PatternOf[new[t].state]
        PROVE  Now(q)' = Now(q) /\ Past(q)' = Past(q)
    <3>1. t \notin Replacing(q) /\ t \notin Replacing(q)'
      <4>1. ~Busy(t, q) /\ ~Busy(t, q)'
        BY <2>1, <2>2 DEF Busy
      <4> QED BY <1>a, <4>1 DEF MappingFact
    <3>2. \A u \in Thread : u \in Replacing(q)' <=> u \in Replacing(q)
      BY <2>1, <3>1 DEF Replacing
    <3>3. \A u \in Replacing(q) : pc'[u] = pc[u] /\ old'[u] = old[u]
      BY <2>1, <3>1 DEF Replacing
    <3> QED BY <1>a, <2>1, <2>2, <3>2, <3>3, BoardStays
  <2>p. PICK p : p = PatternOf[new[t].state]
    OBVIOUS
  <2>3. CASE p \notin Owned
    BY <1>1, <2>p, <2>2, <2>3
  <2>4. CASE p \in Owned
    <3>0. Busy(t, p)
      BY <2>1, <2>p DEF Busy
    <3>a. \A q \in Owned \ {p} : Now(q)' = Now(q) /\ Past(q)' = Past(q)
      BY <2>2, <2>p
    <3>b. /\ \A q \in Owned : OnBoard[q] = Now(q) /\ BoardsPast[q] = Past(q)
          /\ OnBoard = [q \in Owned |-> OnBoard[q]]
          /\ BoardsPast = [q \in Owned |-> BoardsPast[q]]
      BY DEF OnBoard, BoardsPast
    <3>c. /\ \A q \in Owned : OnBoard'[q] = Now(q)' /\ BoardsPast'[q] = Past(q)'
          /\ OnBoard' = [q \in Owned |-> OnBoard'[q]]
          /\ BoardsPast' = [q \in Owned |-> BoardsPast'[q]]
      BY DEF OnBoard, BoardsPast
    <3>d. \A q \in Owned \ {p} : OnBoard'[q] = OnBoard[q] /\ BoardsPast'[q] = BoardsPast[q]
      BY <3>a, <3>b, <3>c
    <3>e. /\ OnBoard' = [OnBoard EXCEPT ![p] = OnBoard'[p]]
          /\ BoardsPast' = [BoardsPast EXCEPT ![p] = BoardsPast'[p]]
      BY <2>4, <3>b, <3>c, <3>d
    <3>1. CASE Now(p)' = Now(p) /\ Past(p)' = Past(p)
      BY <1>1, <3>a, <3>1
    <3>2. ASSUME Now(p)' = Now(p), Past(p)' = None,
                 NEW s \in State, NEW n \in Nat, Now(p) = NowAs(s, n)
          PROVE  Board!Wipe(p)
      <4>1. OnBoard[p] # None /\ OnBoard'[p] = OnBoard[p] /\ BoardsPast'[p] = None
        BY <1>b, <2>4, <3>b, <3>c, <3>2
      <4>2. OnBoard' = OnBoard
        BY <3>b, <3>c, <3>d, <4>1
      <4> QED BY <3>e, <4>1, <4>2 DEF Board!Wipe
    <3>3. ASSUME NEW s \in State, NEW n \in Nat, PatternOf[s] = p, Now(p)' = NowAs(s, n)
          PROVE  /\ OnBoard' = [OnBoard EXCEPT ![p] = NowAs(s, n)]
                 /\ OnBoard'[p] # None
                 /\ OnBoard'[p] = [value |-> s, since |-> n]
                 /\ OnBoard'[p].value = s /\ OnBoard'[p].since = n
                 /\ s \in [q \in Owned |-> {r \in State : PatternOf[r] = q}][p]
      <4>1. OnBoard'[p] = NowAs(s, n)
        BY <2>4, <3>c, <3>3
      <4> QED BY <1>b, <2>4, <3>3, <3>e, <4>1 DEF NowAs
    <3>4. ASSUME NEW s \in State, NEW n \in Nat, PatternOf[s] = p, Now(p)' = NowAs(s, n),
                 Now(p) = None, Past(p)' = Past(p)
          PROVE  Board!Next
      <4>1. BoardsPast'[p] = BoardsPast[p] /\ OnBoard[p] = None
        BY <2>4, <3>b, <3>c, <3>4
      <4>2. BoardsPast' = BoardsPast
        BY <3>b, <3>c, <3>d, <4>1
      <4>3. Board!First(p, OnBoard'[p].value, OnBoard'[p].since)
        BY <3>3, <3>4, <4>1, <4>2 DEF Board!First, NowAs
      <4> QED BY <2>4, <3>3, <3>4, <4>3 DEF Board!Next
    <3>5. ASSUME NEW s \in State, NEW n \in Nat, PatternOf[s] = p, Now(p)' = NowAs(s, n),
                 NEW r \in State, NEW i \in Nat, NEW e \in Nat,
                 Now(p) = NowAs(r, i), Past(p) = None, Past(p)' = PastAs(r, i, e), n \in i..e
          PROVE  Board!Next
      <4>1. /\ OnBoard[p] = NowAs(r, i) /\ BoardsPast[p] = None
            /\ BoardsPast'[p] = PastAs(r, i, e)
        BY <2>4, <3>b, <3>c, <3>5
      <4>2. /\ OnBoard[p] # None /\ OnBoard[p].value = r /\ OnBoard[p].since = i
            /\ BoardsPast'[p] # None /\ BoardsPast'[p].to = e
            /\ BoardsPast'[p] = [value |-> r, from |-> i, to |-> e]
        BY <1>b, <4>1 DEF NowAs, PastAs
      <4>3. /\ OnBoard' = [OnBoard EXCEPT ![p] = [value |-> s, since |-> n]]
            /\ OnBoard'[p] # None /\ OnBoard'[p].value = s /\ OnBoard'[p].since = n
            /\ s \in [q \in Owned |-> {u \in State : PatternOf[u] = q}][p]
        BY <3>3, <3>5 DEF NowAs
      <4>4. BoardsPast' = [BoardsPast EXCEPT ![p] = [value |-> r, from |-> i, to |-> e]]
        BY <3>e, <4>2
      <4>5. Board!Replace(p, OnBoard'[p].value, OnBoard'[p].since, BoardsPast'[p].to)
        BY <3>5, <4>1, <4>2, <4>3, <4>4 DEF Board!Replace
      <4> QED BY <2>4, <4>2, <4>3, <4>5 DEF Board!Next
    <3> QED
      <4>1. CASE /\ Now(p)' = Now(p) /\ Past(p)' = None
                 /\ \E s \in State, n \in Nat : Now(p) = NowAs(s, n)
        BY <2>4, <3>2, <4>1 DEF Board!Next
      <4>2. CASE \E s \in State, n \in Nat :
              /\ PatternOf[s] = p /\ Now(p)' = NowAs(s, n)
              /\ \/ Now(p) = None /\ Past(p)' = Past(p)
                 \/ \E r \in State, i, e \in Nat :
                      /\ Now(p) = NowAs(r, i) /\ Past(p) = None
                      /\ Past(p)' = PastAs(r, i, e) /\ n \in i..e
        BY <3>4, <3>5, <4>2
      <4> QED BY <1>2, <2>4, <3>0, <3>1, <4>1, <4>2, OwnBoardStep
  <2> QED BY <2>3, <2>4
<1>3. ASSUME NEW t \in Thread, NEW s \in Asserts[t], AssertState(t, s)
      PROVE  UNCHANGED Board!vars
  <2>1. /\ UNCHANGED <<facts, before, old>> /\ pc[t] = "idle" /\ pc'[t] = "find"
        /\ \A u \in Thread \ {t} : pc'[u] = pc[u]
    BY <1>3, <1>a DEF AssertState, db, TypeInv, TypeOK
  <2>2. ASSUME NEW q \in Owned PROVE Now(q)' = Now(q) /\ Past(q)' = Past(q)
    <3>1. FactsOf(q)' = FactsOf(q) /\ BeforeOf(q)' = BeforeOf(q)
      BY <2>1 DEF FactsOf, BeforeOf
    <3>2. /\ \A u \in Thread : u \in Replacing(q)' <=> u \in Replacing(q)
          /\ \A u \in Replacing(q) : pc'[u] = pc[u]
      BY <2>1 DEF Replacing
    <3> QED BY <1>a, <2>1, <3>1, <3>2, BoardStays
  <2> QED BY <1>1, <2>2
<1>4. CASE Tick \/ UNCHANGED vars
  <2>1. UNCHANGED <<facts, before, pc, old>>
    BY <1>4 DEF Tick, vars, db
  <2>2. ASSUME NEW q \in Owned PROVE Now(q)' = Now(q) /\ Past(q)' = Past(q)
    <3>1. /\ FactsOf(q)' = FactsOf(q) /\ BeforeOf(q)' = BeforeOf(q)
          /\ Replacing(q)' = Replacing(q)
      BY <2>1 DEF FactsOf, BeforeOf, Replacing
    <3> QED BY <1>a, <2>1, <3>1, BoardStays
  <2> QED BY <1>1, <2>2
<1> QED BY <1>2, <1>3, <1>4 DEF Next

\* A property that one thread asserts behaves as the board of StateBoard, although
\* assert_state retracts its fact and asserts the next one in steps of their own:
\* its interval is wiped, and a state and its interval are replaced in one step.
THEOREM BoardSpecHolds == Spec => BoardSpec
<1>1. Init => Board!Init
  <2> SUFFICES ASSUME Init PROVE Board!Init
    OBVIOUS
  <2>1. \A p \in Owned : FactsOf(p) = {} /\ Replacing(p) = {} /\ BeforeOf(p) = {}
    BY DEF Init, FactsOf, Replacing, BeforeOf
  <2>2. \A p \in Owned : Now(p) = None /\ Past(p) = None
    BY <2>1 DEF Now, Past, BeforeOf
  <2> QED BY <2>2 DEF Board!Init, OnBoard, BoardsPast
<1>2. BoardInv /\ BoardInv' /\ [Next]_vars => [Board!Next]_(Board!vars)
  BY BoardStep
<1> QED BY <1>1, <1>2, BoardAlways, PTL DEF Spec, BoardSpec, Board!Spec
===============================================================================
