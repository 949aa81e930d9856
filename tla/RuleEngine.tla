------------------------------ MODULE RuleEngine ------------------------------
(* kbase/RTXengine: rules that infer facts, forward from what is given and     *)
(* backward from a goal, on the facts that RTXutil.pl asserts and retracts.    *)
(*                                                                             *)
(* Rules and facts are ground.  A fact that has been asserted twice is in the  *)
(* database twice; rtx/1 is a second list, of the facts that the predicates    *)
(* called ..._rtx have asserted.  A condition is a conjunction or disjunction  *)
(* of literals, whose evaluation ends with an exception at a predicate nobody  *)
(* has defined yet.  Prolog searches depth first: the agenda holds what is     *)
(* left to prove, in front, and the alternatives to come back to, behind it.   *)
EXTENDS Integers, SequencesExt

CONSTANTS Fact, PatternOf,  \* the facts, and the functor and arity of each
          Declared,         \* the patterns that what is loaded declares dynamic
          Bases,            \* the rule bases, sequences of rules
          Queries,          \* what is asked: [kind, given, goal]
          MaxAsked,         \* bound: how many questions are asked
          MaxDepth,         \* bound: the rules in a proof before the stack is full
          NoQuery

VARIABLES base,    \* the rules that have been loaded
          facts,   \* the facts in the database, in the order of assertion
          rtx,     \* the facts rtx(Fact)
          defined, \* the patterns that are predicates, with or without facts
          mode,    \* what the engine is doing
          query,   \* the question
          todo,    \* the facts to retract or the conclusions to perform
          fired,   \* forward: the branches fired in this run
          agenda,  \* backward: the alternatives
          answer,  \* the last answer
          asked    \* how many questions have been asked

store == <<facts, rtx, defined>>
vars == <<base, store, mode, query, todo, fired, agenda, answer, asked>>

Literal    == [fact : Fact, sign : BOOLEAN]
Condition  == [op : {"and", "or"}, lits : Seq(Literal)]
Predicate  == {"assert_rtx", "retract_rtx", "replace_rtx",
               "assert_once", "assert_all", "assert_single", "retract_safe"}
Conclusion == [do : Predicate, fact : Fact]
Rule       == [priority : Int, if : Condition, do : Seq(Conclusion),
               elseif : Condition, elseifDo : Seq(Conclusion), elseDo : Seq(Conclusion)]

True(lit, F) == (lit.fact \in F) <=> lit.sign

\* test_with_catch sees an existence_error in any part of a condition, and-ed,
\* or-ed or negated, as the failure of all of it (of its negation: the success).
\* The parts before it may have decided the condition already.
Raises(lit, D) == PatternOf[lit.fact] \notin D
Holds(cond, F, D) ==
  IF cond.op = "and"
  THEN \A k \in DOMAIN cond.lits : True(cond.lits[k], F) /\ ~Raises(cond.lits[k], D)
  ELSE \E k \in DOMAIN cond.lits : /\ True(cond.lits[k], F)
                                   /\ \A j \in 1..k : ~Raises(cond.lits[j], D)
Never == [op |-> "or", lits |-> <<>>]

\* pick_a_rule finds the rules by their shape: first those with an elseif and an
\* else, then those with one of them, then the others.
Shape(r) == CASE r.elseif # Never /\ r.elseDo # <<>> -> 1
              [] r.elseif # Never -> 2
              [] r.elseDo # <<>> -> 3
              [] OTHER -> 4
PickedBefore(i, j) == \/ Shape(base[i]) < Shape(base[j])
                      \/ Shape(base[i]) = Shape(base[j]) /\ i < j

Rest == mode = "idle"
Init == /\ base \in Bases
        /\ facts = <<>> /\ rtx = <<>> /\ defined = Declared
        /\ mode = "idle" /\ todo = <<>> /\ fired = <<>> /\ agenda = <<>>
        /\ query = NoQuery /\ answer = [is |-> "none"]
        /\ asked = 0

\* ask(forward, Facts, _) and test_backward(Goal, Facts) call retractall_rtx.
Ask(q) ==
  /\ Rest /\ asked < MaxAsked
  /\ query' = q
  /\ asked' = asked + 1
  /\ mode' = "clear"
  /\ todo' = rtx
  /\ answer' = [is |-> "none"]
  /\ UNCHANGED <<base, store, fired, agenda>>

Answer(a) == mode' = "idle" /\ answer' = a /\ todo' = <<>> /\ fired' = <<>> /\ agenda' = <<>>

\* retractall_rtx: a fact of each rtx(Fact) is retracted, in order ...
Clear ==
  /\ mode = "clear" /\ todo # <<>>
  /\ Head(todo) \in ToSet(facts)
  /\ facts' = RemoveFirst(facts, Head(todo))
  /\ todo' = Tail(todo)
  /\ UNCHANGED <<base, rtx, defined, mode, query, fired, agenda, answer, asked>>

\* ... and at the first one that is not there, forall fails, and the question
\* with it; the list rtx/1 remains.
ClearFails ==
  /\ mode = "clear" /\ todo # <<>>
  /\ Head(todo) \notin ToSet(facts)
  /\ Answer([is |-> "failed"])
  /\ UNCHANGED <<base, store, query, asked>>

Prove(lit) == [how |-> "prove", cond |-> [op |-> "and", lits |-> <<lit>>]]
Test(cond) == [how |-> "test", cond |-> cond]
Refute(cond) == [how |-> "refute", cond |-> cond]
Alternative(items, why) == [items |-> items, why |-> why]

\* Then the given facts are asserted with assert_rtx, and the search begins.
Give ==
  /\ mode = "clear" /\ todo = <<>>
  /\ facts' = facts \o query.given
  /\ rtx' = query.given
  /\ defined' = defined \cup {PatternOf[f] : f \in ToSet(query.given)}
  /\ mode' = query.kind
  /\ agenda' = IF query.kind = "backward"
               THEN <<Alternative(<<Prove([fact |-> query.goal, sign |-> TRUE])>>, <<>>)>>
               ELSE <<>>
  /\ UNCHANGED <<base, query, todo, fired, answer, asked>>
-------------------------------------------------------------------------------
\* A fault for the mutants: a branch may fire again and again.
BranchAgain(i) == IF Holds(base[i].if, ToSet(facts), defined) THEN {"if"} ELSE {}

\* Forward chaining.  The branches of rule i whose conditions hold: the first
\* one that has not fired yet in this run.
Branch(i) ==
  LET r == base[i]
      Succeeds(cond) == Holds(cond, ToSet(facts), defined)
      Unfired(b) == [rule |-> i, branch |-> b] \notin ToSet(fired)
  IN CASE Succeeds(r.if) -> IF Unfired("if") THEN {"if"} ELSE {}
       [] ~Succeeds(r.if) /\ r.elseifDo # <<>> /\ Succeeds(r.elseif) ->
            IF Unfired("elseif") THEN {"elseif"} ELSE {}
       [] ~Succeeds(r.if) /\ r.elseDo # <<>> /\ ~Succeeds(r.elseif) ->
            IF Unfired("else") THEN {"else"} ELSE {}
       [] OTHER -> {}

\* A fault for the mutants: all but the first conclusion are forgotten.
DoFirst(i, b) == SubSeq(base[i].do, 1, 1)

Do(i, b) == CASE b = "if" -> base[i].do [] b = "elseif" -> base[i].elseifDo [] b = "else" -> base[i].elseDo

\* Rules of a higher priority come first; the sort keeps the order of the others.
FiredBefore(i, j) == \/ base[i].priority > base[j].priority
                     \/ base[i].priority = base[j].priority /\ PickedBefore(i, j)

\* forward_step: the first rule that has a branch to fire, whose conclusions are
\* then performed before the next rule is looked for.
Fire(i, b) ==
  /\ mode = "forward" /\ todo = <<>>
  /\ b \in Branch(i)
  /\ \A j \in DOMAIN base : Branch(j) # {} => ~FiredBefore(j, i)
  /\ fired' = Append(fired, [rule |-> i, branch |-> b])
  /\ todo' = Do(i, b)
  /\ UNCHANGED <<base, store, mode, query, agenda, answer, asked>>

Pattern(f) == {g \in Fact : PatternOf[g] = PatternOf[f]}
Kept(s, S) == FlattenSeq([k \in DOMAIN s |-> IF s[k] \in S THEN <<s[k]>> ELSE <<>>])
Without(s, S) == Kept(s, ToSet(s) \ S)

AssertRtx(f) == facts' = Append(facts, f) /\ rtx' = Append(rtx, f)

\* A fault for the mutants: the second list is forgotten.
RetractOnly(f) ==
  IF f \in ToSet(facts)
  THEN facts' = RemoveFirst(facts, f) /\ UNCHANGED rtx
  ELSE UNCHANGED <<facts, rtx>>

\* retract_rtx retracts a fact and an entry for it; when there is none, Prolog
\* goes back and retracts the other copies of the fact, before it fails.
RetractRtx(f) ==
  IF f \in ToSet(facts)
  THEN /\ facts' = IF f \in ToSet(rtx) THEN RemoveFirst(facts, f) ELSE Without(facts, {f})
       /\ rtx' = RemoveFirst(rtx, f)
  ELSE UNCHANGED <<facts, rtx>>

ReplaceRtx(f) == /\ facts' = Append(Without(facts, Pattern(f)), f)
                 /\ rtx' = Append(Without(rtx, Pattern(f)), f)

\* assert_once: the pattern is bound to the first fact before it is retracted, so
\* the others of the pattern stay.
AssertOnce(f) ==
  LET old == Kept(facts, Pattern(f))
  IN /\ facts' = Append(IF old = <<>> THEN facts ELSE Without(facts, {Head(old)}), f)
     /\ UNCHANGED rtx

Perform(c) ==
  CASE c.do = "assert_rtx" -> AssertRtx(c.fact)
    [] c.do = "retract_rtx" -> RetractRtx(c.fact)
    [] c.do = "replace_rtx" -> ReplaceRtx(c.fact)
    [] c.do = "assert_once" -> AssertOnce(c.fact)
    [] c.do = "assert_all" -> facts' = Append(Without(facts, Pattern(c.fact)), c.fact) /\ UNCHANGED rtx
    [] c.do = "assert_single" -> facts' = Append(Without(facts, {c.fact}), c.fact) /\ UNCHANGED rtx
    [] c.do = "retract_safe" -> facts' = RemoveFirst(facts, c.fact) /\ UNCHANGED rtx

\* perform_conclusions: one after the other; one that fails is logged and
\* skipped.  Every predicate but retract_rtx leaves its fact's functor defined.
Defines(c) == IF c.do = "retract_rtx" THEN {} ELSE {PatternOf[c.fact]}
Conclude ==
  /\ mode = "forward" /\ todo # <<>>
  /\ Perform(Head(todo))
  /\ defined' = defined \cup Defines(Head(todo))
  /\ todo' = Tail(todo)
  /\ UNCHANGED <<base, mode, query, fired, agenda, answer, asked>>

\* No rule is left: the facts rtx/1 that were not given are the answer.
ForwardEnds ==
  /\ mode = "forward" /\ todo = <<>>
  /\ \A i \in DOMAIN base : Branch(i) = {}
  /\ Answer([is |-> "new", facts |-> ToSet(rtx) \ ToSet(query.given)])
  /\ UNCHANGED <<base, store, query, asked>>
-------------------------------------------------------------------------------
\* Backward chaining.  has_goal looks for these among the conclusions.
Concludes(conclusions, f) ==
  \E k \in DOMAIN conclusions :
    conclusions[k].do \in {"assert_rtx", "assert_once"} /\ conclusions[k].fact = f

\* A fault for the mutants: no second part is proved.
TestSecond(cond) == Test([cond EXCEPT !.lits = Tail(@)])

\* backward_condition: both parts of a conjunction are proved, one part of a
\* disjunction; but a second part that is itself composed is only tested.
Second(cond) == IF Len(cond.lits) = 2 THEN Prove(cond.lits[2])
                ELSE Test([cond EXCEPT !.lits = Tail(@)])
Ways(cond) ==
  CASE cond.lits = <<>> -> << <<Test(cond)>> >>
    [] Len(cond.lits) = 1 -> << <<Prove(cond.lits[1])>> >>
    [] Len(cond.lits) > 1 /\ cond.op = "and" -> << <<Prove(cond.lits[1]), Second(cond)>> >>
    [] Len(cond.lits) > 1 /\ cond.op = "or" -> << <<Prove(cond.lits[1])>>, <<Second(cond)>> >>

\* The ways to conclude f with rule i, by the first of its branches that does.
\* That the conditions of the branches before it fail is asked for an else only.
WaysOfRule(i, f) ==
  LET r == base[i]
      By(ways, b) == [k \in DOMAIN ways |-> Alternative(ways[k], <<[rule |-> i, branch |-> b, goal |-> f]>>)]
  IN CASE Concludes(r.do, f) -> By(Ways(r.if), "if")
       [] ~Concludes(r.do, f) /\ Concludes(r.elseifDo, f) -> By(Ways(r.elseif), "elseif")
       [] ~Concludes(r.do, f) /\ ~Concludes(r.elseifDo, f) /\ Concludes(r.elseDo, f) ->
            By(<< <<Refute(r.if), Refute(r.elseif)>> >>, "else")
       [] OTHER -> <<>>

\* The rules come first, in the order of pick_a_rule, and the fact itself last.
PickOrder == [k \in DOMAIN base |->
                CHOOSE i \in DOMAIN base : Cardinality({j \in DOMAIN base : PickedBefore(j, i)}) = k - 1]
WaysTo(f) == FlattenSeq([k \in DOMAIN base |-> WaysOfRule(PickOrder[k], f)])
             \o <<Alternative(<<Test([op |-> "and", lits |-> <<[fact |-> f, sign |-> TRUE]>>])>>, <<>>)>>

Current == Head(agenda)
Item == Head(Current.items)
Searching == mode = "backward" /\ agenda # <<>>
IsTest == Item.how = "prove" => ~Item.cond.lits[1].sign
Passes ==
  CASE Item.how = "prove" -> True(Item.cond.lits[1], ToSet(facts))
    [] Item.how = "test" -> Holds(Item.cond, ToSet(facts), defined)
    [] Item.how = "refute" -> ~Holds(Item.cond, ToSet(facts), defined)

\* A goal that is a fact is replaced by the ways to reach it.
Expand ==
  /\ Searching /\ Current.items # <<>> /\ ~IsTest
  /\ Len(Current.why) < MaxDepth
  /\ \E ways \in {WaysTo(Item.cond.lits[1].fact)} :
        agenda' = [k \in DOMAIN ways |->
                     Alternative(ways[k].items \o Tail(Current.items), ways[k].why \o Current.why)]
                  \o Tail(agenda)
  /\ UNCHANGED <<base, store, mode, query, todo, fired, answer, asked>>

\* not(Goal), and what is not chained, is tested on the facts: with the default
\* true if it is a negation, also of a predicate nobody has defined.
TestItem ==
  /\ Searching /\ Current.items # <<>> /\ IsTest
  /\ agenda' = IF Passes THEN <<Alternative(Tail(Current.items), Current.why)>> \o Tail(agenda)
               ELSE Tail(agenda)
  /\ UNCHANGED <<base, store, mode, query, todo, fired, answer, asked>>

Proved ==
  /\ Searching /\ Current.items = <<>>
  /\ Answer([is |-> "proof", fired |-> Current.why])
  /\ UNCHANGED <<base, store, query, asked>>

NotProved ==
  /\ mode = "backward" /\ agenda = <<>>
  /\ Answer([is |-> "no"])
  /\ UNCHANGED <<base, store, query, asked>>

\* There is no check for a goal that is being proved already: the stack grows
\* until Prolog gives up.
Overflow ==
  /\ Searching /\ Current.items # <<>> /\ ~IsTest
  /\ Len(Current.why) = MaxDepth
  /\ Answer([is |-> "overflow"])
  /\ UNCHANGED <<base, store, query, asked>>
-------------------------------------------------------------------------------
Step == \/ Clear \/ ClearFails \/ Give
        \/ \E i \in DOMAIN base, b \in {"if", "elseif", "else"} : Fire(i, b)
        \/ Conclude \/ ForwardEnds
        \/ Expand \/ TestItem \/ Proved \/ NotProved \/ Overflow

Next == Step \/ \E q \in Queries : Ask(q)
Spec == Init /\ [][Next]_vars
===============================================================================
