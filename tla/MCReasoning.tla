------------------------------ MODULE MCReasoning -----------------------------
(* Instances of Reasoning: rule bases and action libraries of the kinds that   *)
(* differ: monotone, cyclic, with branches, with other predicates than the     *)
(* ..._rtx ones, with parts that nobody has defined; actions that undo each    *)
(* other, partial ones, sequences, empty operators.  q is not declared.        *)
EXTENDS Reasoning

MCPatternOf == [f \in {"p1", "p2"} |-> "p"] @@ [f \in {"q", "r", "s"} |-> f]
               @@ [f \in {"x1", "x2", "x3"} |-> "x"] @@ [f \in {"up", "down"} |-> "z"]
               @@ [f \in {"stored"} |-> f]
MCFact == {"p1", "p2", "q", "r", "s"}
MCDeclared == {"p", "r", "s"}
MCState == {"x1", "x2", "x3", "up", "down", "stored"}

Is(f) == [fact |-> f, sign |-> TRUE]
No(f) == [fact |-> f, sign |-> FALSE]
And(lits) == [op |-> "and", lits |-> lits]
Or(lits) == [op |-> "or", lits |-> lits]
Then(do, f) == [do |-> do, fact |-> f]
Rule(p, c, d) == [priority |-> p, if |-> c, do |-> d, elseif |-> Or(<<>>),
                  elseifDo |-> <<>>, elseDo |-> <<>>]
Infer(p, c, f) == Rule(p, c, <<Then("assert_rtx", f)>>)

Chain == <<Infer(0, And(<<Is("q"), Is("r")>>), "s"),
           Infer(5, And(<<Is("p2")>>), "q"),
           Rule(1, And(<<Is("p1")>>), <<Then("assert_rtx", "r"), Then("assert_rtx", "q")>>)>>
Loop == <<Infer(0, And(<<Is("q")>>), "r"), Infer(0, And(<<Is("r")>>), "q"),
          Infer(1, And(<<Is("p1")>>), "q"), Infer(0, And(<<Is("p2"), Is("r")>>), "s")>>
Long == <<Infer(0, And(<<Is("p1"), Is("q"), Is("r")>>), "s"), Infer(0, And(<<Is("p2")>>), "r"),
          Infer(0, Or(<<Is("p1"), Is("r"), Is("s")>>), "q")>>
Branches ==
  <<[Rule(0, And(<<Is("p1")>>), <<Then("replace_rtx", "p2")>>) EXCEPT !.elseDo = <<Then("assert_rtx", "q")>>],
    [Rule(2, And(<<Is("r"), No("s")>>), <<Then("retract_rtx", "r"), Then("retract_rtx", "r")>>)
       EXCEPT !.elseif = And(<<Is("q")>>), !.elseifDo = <<Then("assert_rtx", "r")>>],
    [Rule(1, And(<<Is("s")>>), <<Then("retract_rtx", "s")>>)
       EXCEPT !.elseif = And(<<Is("p2")>>), !.elseifDo = <<Then("assert_rtx", "s")>>,
              !.elseDo = <<Then("assert_rtx", "p1")>>]>>
Mixed == <<Rule(0, And(<<Is("q")>>), <<Then("assert_once", "p2"), Then("retract_safe", "q")>>),
           Rule(1, And(<<Is("p2")>>), <<Then("assert_all", "r"), Then("assert_single", "s")>>),
           Infer(3, And(<<Is("p1"), No("q")>>), "s")>>
Hidden == <<Infer(0, Or(<<Is("q"), Is("r")>>), "s"), Infer(1, And(<<Is("p1")>>), "r")>>

Goals(list) == [kind |-> "all", list |-> list]
Asks(kind, given, goal) == [kind |-> kind, given |-> given, goal |-> goal]
MCQueries == {Asks("forward", <<"p1">>, "q"), Asks("forward", <<"p2", "q">>, "q"),
              Asks("backward", <<"p1">>, "s"), Asks("backward", <<"p2", "q">>, "s"),
              Asks("backward", <<"p1", "p2">>, "s"),
              Asks("backward", <<"q", "p2", "r">>, "r")}

Act(op, pre, add, del) == [op |-> op, pre |-> Goals(pre), add |-> add, del |-> del, partial |-> {}]
Right == Act("right", <<"x1">>, {"x2"}, {"x1"})
Left == Act("left", <<"x2">>, {"x1"}, {"x2"})
Crane == <<Right, Left,
           Act("raise", <<"down", "x2">>, {"up"}, {"down"}),
           Act("lower", <<"up", "x1">>, {"down"}, {"up"}),
           Act("store", <<"x1", "up">>, {"stored"}, {})>>
Far == <<[Act("far", <<"x1">>, {"x3"}, {"x1"}) EXCEPT !.partial = {"x2"}],
         Act("near", <<"x2">>, {"x3"}, {"x2"})>>
BackAndForth == Append(Far, Left)
Visit(list) == [kind |-> "seq", list |-> list]
Tour == <<Right, Left, Act("raise", <<>>, {"up"}, {"down"}), Act(Empty, <<"stored">>, {"x3"}, {"x1"}),
          [Act("store", <<>>, {"stored"}, {}) EXCEPT !.pre = Visit(<<"x2", "up", "x1">>)]>>
Circle == <<[Act("right", <<>>, {"x2"}, {"x1"}) EXCEPT !.pre = Visit(<<"up">>)],
            [Act("raise", <<>>, {"up"}, {"down"}) EXCEPT !.pre = Visit(<<"x2">>)]>>
Derive == <<Act(Empty, <<"up">>, {"stored"}, {}), Act(Empty, <<"stored">>, {"up"}, {"down"})>>
MCLoaded == {<<Hidden, Derive>>, <<Chain, Crane>>, <<Loop, Far>>, <<Long, BackAndForth>>,
             <<Branches, Tour>>, <<Mixed, Circle>>}

For(goals, world) == [goals |-> goals, world |-> world]
MCProblems == {For(Goals(<<"stored">>), {"x1", "down"}), For(Goals(<<"stored">>), {"x2", "down"}),
               For(Goals(<<"stored">>), {"x3", "down"}),
               For(Goals(<<"x1", "up">>), {"x2", "down"}), For(Goals(<<"x3">>), {"x1", "down"}),
               For(Visit(<<"x2", "x1">>), {"x1", "down"}), For(Visit(<<"stored", "x3">>), {"x2", "up"})}
===============================================================================
