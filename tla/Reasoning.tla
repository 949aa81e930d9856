------------------------------- MODULE Reasoning ------------------------------
(* The Prolog toplevel of kbase, which answers one query at a time with the    *)
(* rule engine or the planner.  The repository has the machines but neither    *)
(* rules nor actions of its own; what may be expected of them depends on what  *)
(* is loaded.                                                                  *)
EXTENDS Integers, FiniteSets, SequencesExt

CONSTANTS Fact, Queries, MaxAsked, MaxDepth, NoQuery,
          State, Problems, MaxSolved, MaxSize, NoProblem,
          Loaded,    \* what may be loaded: pairs of a rule base and a library
          Declared,  \* the patterns of facts that what is loaded declares dynamic
          Empty,     \* the operator of an action that leaves no trace in a plan
          PatternOf  \* the functor and arity of each fact and state

ASSUME PatternAssumption == DOMAIN PatternOf = Fact \cup State
ASSUME BoundAssumption == {MaxAsked, MaxDepth, MaxSolved, MaxSize} \subseteq Nat

VARIABLES base, facts, rtx, defined, mode, query, todo, fired, agenda, answer, asked,
          library, problem, alternatives, outcome, posed

Rules == INSTANCE RuleEngine WITH Bases <- {l[1] : l \in Loaded}
Plans == INSTANCE StripsPlanner WITH Libraries <- {l[2] : l \in Loaded}, agenda <- alternatives

ASSUME FactAssumption == IsFiniteSet(Fact)
ASSUME DeclaredAssumption == Declared \subseteq {PatternOf[f] : f \in Fact}
ASSUME RuleAssumption == \A l \in Loaded : l[1] \in Seq(Rules!Rule)
ASSUME QueryAssumption ==
  \A q \in Queries : /\ q.kind \in {"forward", "backward"}
                     /\ q.given \in Seq(Fact) /\ q.goal \in Fact
ASSUME LibraryAssumption ==
  \A l \in Loaded : l[2] \in Seq(Plans!Action({l[2][k].op : k \in DOMAIN l[2]}))
ASSUME ProblemAssumption ==
  \A p \in Problems : p.goals \in Plans!Goals /\ p.world \subseteq State

ruleVars == <<base, facts, rtx, defined, mode, query, todo, fired, agenda, answer, asked>>
planVars == <<library, problem, alternatives, outcome, posed>>
vars == <<ruleVars, planVars>>

Init == Rules!Init /\ Plans!Init /\ <<base, library>> \in Loaded

Next == \/ outcome.is # "searching" /\ Rules!Next /\ UNCHANGED planVars
        \/ mode = "idle" /\ Plans!Next /\ UNCHANGED ruleVars

\* Prolog goes on until it has an answer.  Nobody has to ask.
Goes == \/ Plans!Step /\ UNCHANGED ruleVars
        \/ Rules!Step /\ UNCHANGED planVars
Fairness == WF_vars(Goes)
FairSpec == Init /\ [][Next]_vars /\ Fairness
-------------------------------------------------------------------------------
TypeOK ==
  /\ facts \in Seq(Fact) /\ rtx \in Seq(Fact)
  /\ Declared \subseteq defined /\ defined \subseteq {PatternOf[f] : f \in Fact}
  /\ mode \in {"idle", "clear", "forward", "backward"}
  /\ mode # "idle" => query \in Queries
  /\ mode = "clear" => todo \in Seq(Fact)
  /\ mode # "backward" => agenda = <<>>
  /\ \A k \in DOMAIN fired : fired[k].rule \in DOMAIN base
  /\ \A j, k \in DOMAIN fired : fired[j] = fired[k] => j = k
  /\ answer.is \in {"none", "failed", "new", "proof", "no", "overflow"}
  /\ outcome.is \in {"none", "searching", "plan", "no", "overflow"}
  /\ \A k \in DOMAIN alternatives : alternatives[k].world \subseteq State

Conclusions(r) == ToSet(r.do) \cup ToSet(r.elseifDo) \cup ToSet(r.elseDo)
OnlyRtx == \A i \in DOMAIN base : \A c \in Conclusions(base[i]) :
             c.do \in {"assert_rtx", "retract_rtx", "replace_rtx"}

\* As long as the rules use the predicates ..._rtx only, rtx/1 lists exactly the
\* facts of the database, so that retractall_rtx, and with it every ask, starts
\* from an empty one and succeeds.  (With others an entry may outlive its fact,
\* and from then on every ask fails.)
RtxIsFaithful ==
  OnlyRtx => /\ facts = IF mode = "clear" THEN todo ELSE rtx
             /\ answer.is # "failed"

\* Rules that only add facts, to facts that hold.
Monotone ==
  \A i \in DOMAIN base :
    /\ base[i].elseif = Rules!Never /\ base[i].elseDo = <<>>
    /\ \A k \in DOMAIN base[i].if.lits : base[i].if.lits[k].sign
    /\ \A c \in Conclusions(base[i]) : c.do = "assert_rtx"

\* The reference: what a condition means, and what follows from a set of facts.
Satisfied(cond, F) ==
  IF cond.op = "and" THEN \A k \in DOMAIN cond.lits : Rules!True(cond.lits[k], F)
                     ELSE \E k \in DOMAIN cond.lits : Rules!True(cond.lits[k], F)
Consequences(F) ==
  F \cup UNION {{c.fact : c \in ToSet(base[i].do)} : i \in {i \in DOMAIN base : Satisfied(base[i].if, F)}}
Closure(F) ==
  LET after[n \in 0..Cardinality(Fact)] == IF n = 0 THEN F ELSE Consequences(after[n - 1])
  IN after[Cardinality(Fact)]

\* With such rules forward infers nothing but what follows, and all of it,
\* whatever the priorities, although each rule fires once.  All of it only if the
\* facts of every disjunction are declared: at one that is not, the exception
\* hides the parts behind it.
Disjuncts == UNION {{base[i].if.lits[k].fact : k \in DOMAIN base[i].if.lits} :
                      i \in {i \in DOMAIN base : base[i].if.op = "or"}}
ForwardIsClosure ==
  Monotone /\ answer.is = "new" =>
    LET follows == Closure(ToSet(query.given)) \ ToSet(query.given)
    IN /\ answer.facts \subseteq follows
       /\ {PatternOf[f] : f \in Disjuncts} \subseteq Declared => answer.facts = follows

\* The explanation of backward can be replayed: from its first rule on, each rule
\* can fire on the facts and on what those before it conclude, up to the goal.
\* And when no condition has more than two parts, it says no only to a goal that
\* does not follow.
Replays(explanation) ==
  LET Known(k) == ToSet(query.given) \cup {explanation[j].goal : j \in 1..k}
  IN /\ \A k \in DOMAIN explanation :
          Satisfied(base[explanation[k].rule].if, Known(k - 1))
     /\ query.goal \in Known(Len(explanation))
AtMostTwo == \A i \in DOMAIN base : Len(base[i].if.lits) <= 2
BackwardProves ==
  Monotone => /\ answer.is = "proof" => Replays(answer.fired)
              /\ answer.is = "no" /\ AtMostTwo => query.goal \notin Closure(ToSet(query.given))

\* A plan, its actions without an operator included, can be carried out from the
\* world of the problem, step by step, leads to the world it is returned with,
\* and reaches the goals there; a sequence is visited in its order on the way.
WorldsOf(plan) ==
  LET w[k \in 0..Len(plan)] ==
        IF k = 0 THEN problem.world ELSE Plans!Effect(plan[k], w[k - 1])
  IN w
Possible(action, world) ==
  \A k \in DOMAIN action.pre.list :
    \/ action.pre.list[k] \in world
    \/ action.pre.kind = "seq" /\ \E j \in DOMAIN action.pre.list :
         j > k /\ PatternOf[action.pre.list[j]] = PatternOf[action.pre.list[k]]
PlanExecutes ==
  outcome.is = "plan" =>
    LET w == WorldsOf(outcome.plan)
        n == Len(outcome.plan)
        goals == problem.goals
    IN /\ \A k \in 1..n : Possible(outcome.plan[k], w[k - 1])
       /\ outcome.world = w[n]
       /\ goals.kind = "all" => Plans!Subgoals(goals) \subseteq w[n]
       /\ goals.kind = "seq" =>
            \E at \in [DOMAIN goals.list -> 0..n] :
              \A k \in DOMAIN goals.list : /\ goals.list[k] \in w[at[k]]
                                           /\ k > 1 => at[k - 1] <= at[k]

\* The facts that the proof of a fact may ask for.
Below(F) == F \cup UNION {{base[i].if.lits[k].fact : k \in DOMAIN base[i].if.lits} :
                            i \in {i \in DOMAIN base : \E c \in Conclusions(base[i]) : c.fact \in F}}
Cyclic ==
  LET below[n \in 0..Cardinality(Fact), f \in Fact] ==
        IF n = 0 THEN Below({f}) \ {f} ELSE Below(below[n - 1, f])
  IN \E f \in Fact : f \in below[Cardinality(Fact), f]

\* Actions with a partial effect, a sequence as a precondition or an empty operator
\* may be chosen below themselves.
Bounded == \A k \in DOMAIN library : /\ ~Plans!IsPartial(library[k])
                                    /\ library[k].pre.kind = "all"
                                    /\ library[k].op # Empty

\* Every query is answered.  A proof needs rules that are not cyclic, a plan
\* actions that cannot be chosen below themselves; if not, the stack may
\* overflow.
Asked == mode # "idle" \/ outcome.is = "searching"
QueriesEnd ==
  Asked ~> /\ ~Asked
           /\ answer.is = "overflow" => Cyclic
           /\ outcome.is = "overflow" => ~Bounded
===============================================================================
