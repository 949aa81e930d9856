----------------------------- MODULE StripsPlanner ----------------------------
(* kbase/RTXengine/RTXstrips_planner.pl: regression from goals to actions, on  *)
(* worlds that are lists of states.                                            *)
(*                                                                             *)
(* Actions are ground, without a body and of one domain.  Goals are a list in  *)
(* any order, or one term seq(G1, G2, ...) to be visited in this order.  An    *)
(* operator is a list; an action with the empty one has its effect and leaves  *)
(* no trace in the plan that is printed.                                       *)
(* Prolog searches depth first: the agenda holds the alternatives, each one    *)
(* with what is left to do, the world it has reached and the plan so far.      *)
EXTENDS Integers, SequencesExt

CONSTANTS State, PatternOf,  \* the states, and the functor and arity of each
          Libraries,         \* the action libraries, sequences of actions
          Problems,          \* what is asked: [goals, world]
          Empty,             \* the operator []
          MaxSolved,         \* bound: how many problems are posed
          MaxSize,           \* bound: tasks and actions before the stack is full
          NoProblem

VARIABLES library,  \* the actions that have been loaded
          problem,  \* the problem being solved, or the last one
          agenda,   \* the alternatives
          outcome,  \* "searching", "no", "overflow", or "plan" and what it is
          posed     \* how many problems have been posed

vars == <<library, problem, agenda, outcome, posed>>

\* A sequence has at least one goal.
Goals == {g \in [kind : {"all", "seq"}, list : Seq(State)] : g.kind = "seq" => g.list # <<>>}
Action(ops) == [op : ops, pre : Goals,
                add : SUBSET State, del : SUBSET State, partial : SUBSET State]

All(list) == [kind |-> "all", list |-> list]
Subgoals(goals) == ToSet(goals.list)

\* The tasks: to solve goals without some operators, to apply an action, and to
\* test goals at the end.
Solve(goals, forbidden) == [do |-> "solve", goals |-> goals, forbidden |-> forbidden]
Apply(action) == [do |-> "apply", action |-> action]
Final(goals) == [do |-> "final", goals |-> goals]

\* solve_sequential: one goal after the other, each with a search of its own, in
\* which nothing is forbidden.
Sequential(goals) ==
  FlattenSeq([k \in DOMAIN goals.list |->
                LET goal == All(<<goals.list[k]>>) IN <<Solve(goal, {}), Final(goal)>>])

Size(alternative) == Len(alternative.tasks) + Len(alternative.plan)
Alternative(tasks, world, plan) == [tasks |-> tasks, world |-> world, plan |-> plan]

Init == /\ library \in Libraries
        /\ problem = NoProblem /\ agenda = <<>> /\ outcome = [is |-> "none"] /\ posed = 0

\* solve(Goals, W0, W1, Plan).  When a sequence cannot be visited, it is tried
\* once more as a goal.
Pose(p) ==
  /\ outcome.is # "searching" /\ posed < MaxSolved
  /\ posed' = posed + 1
  /\ problem' = p
  /\ outcome' = [is |-> "searching"]
  /\ agenda' = (IF p.goals.kind = "seq"
                THEN <<Alternative(Sequential(p.goals), p.world, <<>>)>> ELSE <<>>)
               \o <<Alternative(<<Solve(p.goals, {}), Final(p.goals)>>, p.world, <<>>)>>
  /\ UNCHANGED library

Current == Head(agenda)
Task == Head(Current.tasks)
Searching(what) == /\ outcome.is = "searching" /\ agenda # <<>>
                   /\ Current.tasks # <<>> /\ Task.do = what

\* holds: a list of states is in the world; a sequence never is.
HoldIn(goals, world) == goals.kind = "all" /\ Subgoals(goals) \subseteq world

Continue(world, plan) ==
  agenda' = <<Alternative(Tail(Current.tasks), world, plan)>> \o Tail(agenda)
Backtrack == agenda' = Tail(agenda)
-------------------------------------------------------------------------------
\* solve: goals that hold need no plan.
SolveNothing ==
  /\ Searching("solve")
  /\ HoldIn(Task.goals, Current.world)
  /\ Continue(Current.world, Current.plan)
  /\ UNCHANGED <<library, problem, outcome, posed>>

\* get_next_goal: any goal of a list, with the others left over; the first one
\* of a sequence.
Kept(s, S) == FlattenSeq([k \in DOMAIN s |-> IF s[k] \in S THEN <<s[k]>> ELSE <<>>])
NextGoals(goals) == IF goals.kind = "all" THEN goals.list ELSE <<goals.list[1]>>
Remaining(goals, g) ==
  IF goals.kind = "all" THEN All(Kept(goals.list, State \ {g}))
  ELSE IF Len(goals.list) = 1 THEN All(<<>>)
  ELSE [goals EXCEPT !.list = Tail(@)]

\* A fault for the mutants: an operator is not forbidden below itself.
ForbidNothing(forbidden, action) == forbidden
Forbid(forbidden, action) == forbidden \cup {action.op}

\* An action with a partial effect does not reach the goal: the same goals are
\* solved again from where it leads.
IsPartial(action) == action.partial # {}

\* The tasks after the choice of a goal and of an action that adds it.
Attempt(goals, forbidden, g, action) ==
  <<Solve(action.pre, Forbid(forbidden, action)),
    Apply(action),
    Solve(IF IsPartial(action) THEN goals ELSE Remaining(goals, g), forbidden)>>

\* An empty operator may be used below itself.
May(action, forbidden) == action.op \notin forbidden \/ action.op = Empty

\* solve_sequential first, for the sequence of a precondition; then every goal
\* that does not hold, with every action that adds it and may be used.
Attempts(goals, forbidden, world) ==
  LET Useful(g) == Kept(library, {a \in ToSet(library) : g \in a.add /\ May(a, forbidden)})
      Open == Kept(NextGoals(goals), State \ world)
      For(g) == [k \in DOMAIN Useful(g) |-> Attempt(goals, forbidden, g, Useful(g)[k])]
  IN (IF goals.kind = "seq" THEN <<Sequential(goals)>> ELSE <<>>)
     \o FlattenSeq([k \in DOMAIN Open |-> For(Open[k])])

SolveGoals ==
  /\ Searching("solve")
  /\ ~HoldIn(Task.goals, Current.world)
  /\ Size(Current) <= MaxSize
  /\ \E attempts \in {Attempts(Task.goals, Task.forbidden, Current.world)} :
        agenda' = [k \in DOMAIN attempts |->
                     Alternative(attempts[k] \o Tail(Current.tasks), Current.world, Current.plan)]
                  \o Tail(agenda)
  /\ UNCHANGED <<library, problem, outcome, posed>>

\* A search below a search, or a plan, without an end.
Overflow ==
  /\ Searching("solve")
  /\ ~HoldIn(Task.goals, Current.world)
  /\ Size(Current) > MaxSize
  /\ outcome' = [is |-> "overflow"] /\ agenda' = <<>>
  /\ UNCHANGED <<library, problem, posed>>

\* filter_contradictory_states: of a sequence, the last state of each pattern.
LastOnes(list) ==
  {list[k] : k \in {k \in DOMAIN list : \A j \in k + 1..Len(list) : PatternOf[list[j]] # PatternOf[list[k]]}}

\* A fault for the mutants: the preconditions are not tested again.
CanDoAnyway(action, world) == TRUE

\* A precondition may have been undone while the others were reached.
CanDo(action, world) ==
  (IF action.pre.kind = "all" THEN Subgoals(action.pre) ELSE LastOnes(action.pre.list)) \subseteq world

\* do: what is deleted goes, what is added, or the partial effect, comes.
Effect(action, world) ==
  (world \ action.del) \cup (IF IsPartial(action) THEN action.partial ELSE action.add)

DoAction ==
  /\ Searching("apply")
  /\ CanDo(Task.action, Current.world)
  /\ Continue(Effect(Task.action, Current.world), Append(Current.plan, Task.action))
  /\ UNCHANGED <<library, problem, outcome, posed>>

CannotDo ==
  /\ Searching("apply")
  /\ ~CanDo(Task.action, Current.world)
  /\ Backtrack
  /\ UNCHANGED <<library, problem, outcome, posed>>

\* holds(Goals, W1) at the end: a goal that a later one has undone is noticed
\* here, and other orders and actions are tried.
FinalHolds ==
  /\ Searching("final")
  /\ HoldIn(Task.goals, Current.world)
  /\ Continue(Current.world, Current.plan)
  /\ UNCHANGED <<library, problem, outcome, posed>>

FinalFails ==
  /\ Searching("final")
  /\ ~HoldIn(Task.goals, Current.world)
  /\ Backtrack
  /\ UNCHANGED <<library, problem, outcome, posed>>

Solved ==
  /\ outcome.is = "searching" /\ agenda # <<>> /\ Current.tasks = <<>>
  /\ outcome' = [is |-> "plan", plan |-> Current.plan, world |-> Current.world]
  /\ agenda' = <<>>
  /\ UNCHANGED <<library, problem, posed>>

NotSolved ==
  /\ outcome.is = "searching" /\ agenda = <<>>
  /\ outcome' = [is |-> "no"]
  /\ UNCHANGED <<library, problem, agenda, posed>>
-------------------------------------------------------------------------------
Step == \/ SolveNothing \/ SolveGoals \/ Overflow \/ DoAction \/ CannotDo
        \/ FinalHolds \/ FinalFails \/ Solved \/ NotSolved

Next == Step \/ \E p \in Problems : Pose(p)
Spec == Init /\ [][Next]_vars
===============================================================================
