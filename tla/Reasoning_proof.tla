---------------------------- MODULE Reasoning_proof ----------------------------
(* Proofs about Reasoning, for any finite set of facts, any rules, actions and *)
(* questions, and any bounds.                                                  *)
(*                                                                             *)
(*   - the rule engine: its types, RtxIsFaithful, ForwardIsClosure (a fixpoint *)
(*     is reached after as many rounds as there are facts) and BackwardProves  *)
(*     (what the agenda of a search means);                                    *)
(*   - the planner: its types and PlanExecutes (every alternative can be       *)
(*     carried out so far, and has still to pass the tests of its goals).      *)
(*                                                                             *)
(* What the folds and functions of the models compute is known by induction    *)
(* over sets of naturals (SetInduction).                                       *)
EXTENDS Reasoning, WellFoundedInduction, FiniteSetTheorems, TLAPS

(* Induction, and the sequences it is needed for.                              *)

\* Induction over the naturals for a set, from the fact that they are well
\* ordered.
LEMMA SetInduction ==
  ASSUME NEW S, 0 \in S, \A n \in Nat : n \in S => n + 1 \in S
  PROVE  Nat \subseteq S
<1> DEFINE T == Nat \ S
<1> SUFFICES ASSUME T # {} PROVE FALSE
  OBVIOUS
<1>1. PICK m \in T : \A k \in T : ~(<<k, m>> \in OpToRel(<, Nat))
  BY NatLessThanWellFounded, WFMin
<1>2. \A k \in T : ~(k < m)
  BY <1>1 DEF OpToRel
<1>3. m # 0 /\ m - 1 \in Nat
  OBVIOUS
<1>4. m - 1 \in S
  BY <1>2, <1>3
<1> QED BY <1>3, <1>4

LEMMA Smallest ==
  ASSUME NEW S, S \subseteq Nat, S # {}
  PROVE  \E m \in S : \A k \in S : m <= k
<1>1. PICK m \in S : \A k \in S : ~(<<k, m>> \in OpToRel(<, Nat))
  BY NatLessThanWellFounded, WFMin
<1>2. \A k \in S : k \in Nat
  OBVIOUS
<1>3. \A k \in S : ~(k < m)
  BY <1>1, <1>2 DEF OpToRel
<1> QED BY <1>2, <1>3

LEMMA MinMeans ==
  ASSUME NEW S, S \subseteq Nat, S # {}
  PROVE  Rules!Min(S) \in S /\ \A k \in S : Rules!Min(S) <= k
<1>1. \E m \in S : \A k \in S : m <= k
  BY Smallest
<1> QED BY <1>1 DEF Rules!Min

LEMMA ConcatMeans ==
  ASSUME NEW A, NEW s \in Seq(A), NEW t \in Seq(A)
  PROVE  s \o t \in Seq(A) /\ ToSet(s \o t) = ToSet(s) \cup ToSet(t)
<1>1. /\ s \o t \in Seq(A)
      /\ DOMAIN s = 1..Len(s) /\ DOMAIN t = 1..Len(t) /\ Len(s) \in Nat /\ Len(t) \in Nat
      /\ DOMAIN (s \o t) = 1..(Len(s) + Len(t))
      /\ \A i \in 1..Len(s) : (s \o t)[i] = s[i]
      /\ \A i \in 1..Len(t) : (s \o t)[Len(s) + i] = t[i]
  OBVIOUS
<1>2. ASSUME NEW x \in ToSet(s \o t) PROVE x \in ToSet(s) \cup ToSet(t)
  <2>1. PICK i \in 1..(Len(s) + Len(t)) : x = (s \o t)[i]
    BY <1>1 DEF ToSet
  <2>2. CASE i <= Len(s)
    BY <1>1, <2>1, <2>2 DEF ToSet
  <2>3. CASE i > Len(s)
    <3>1. i - Len(s) \in 1..Len(t) /\ x = t[i - Len(s)]
      BY <1>1, <2>1, <2>3
    <3> QED BY <1>1, <3>1 DEF ToSet
  <2> QED BY <1>1, <2>2, <2>3
<1>3. ASSUME NEW x \in ToSet(s) PROVE x \in ToSet(s \o t)
  <2>1. PICK i \in 1..Len(s) : x = s[i]
    BY <1>1 DEF ToSet
  <2>2. i \in DOMAIN (s \o t) /\ x = (s \o t)[i]
    BY <1>1, <2>1
  <2> QED BY <2>2 DEF ToSet
<1>4. ASSUME NEW x \in ToSet(t) PROVE x \in ToSet(s \o t)
  <2>1. PICK i \in 1..Len(t) : x = t[i]
    BY <1>1 DEF ToSet
  <2>2. Len(s) + i \in DOMAIN (s \o t) /\ x = (s \o t)[Len(s) + i]
    BY <1>1, <2>1
  <2> QED BY <2>2 DEF ToSet
<1> QED BY <1>1, <1>2, <1>3, <1>4

\* What FlattenSeq is computed by exists.
Flattens(g, seqs, n) ==
  g = [i \in 1..n |-> IF i = 1 THEN seqs[i] ELSE g[i - 1] \o seqs[i]]

LEMMA FlattenExists ==
  ASSUME NEW seqs, NEW n \in Nat
  PROVE  \E g : Flattens(g, seqs, n)
<1> DEFINE S == {m \in Nat : \E g : Flattens(g, seqs, m)}
<1>1. 0 \in S
  <2>1. Flattens([i \in 1..0 |-> {}], seqs, 0)
    BY DEF Flattens
  <2> QED BY <2>1
<1>2. ASSUME NEW m \in Nat, m \in S PROVE m + 1 \in S
  <2>1. PICK g : Flattens(g, seqs, m)
    BY <1>2
  <2> DEFINE h == [i \in 1..m + 1 |->
                     IF i = m + 1 THEN IF i = 1 THEN seqs[i] ELSE g[i - 1] \o seqs[i]
                     ELSE g[i]]
  <2>2. \A i \in 1..m : h[i] = g[i]
    OBVIOUS
  <2>3. \A i \in 1..m : g[i] = IF i = 1 THEN seqs[i] ELSE g[i - 1] \o seqs[i]
    BY <2>1 DEF Flattens
  <2>4. \A i \in 1..m + 1 : h[i] = IF i = 1 THEN seqs[i] ELSE h[i - 1] \o seqs[i]
    <3> SUFFICES ASSUME NEW i \in 1..m + 1
                 PROVE  h[i] = IF i = 1 THEN seqs[i] ELSE h[i - 1] \o seqs[i]
      OBVIOUS
    <3>1. i # 1 => i - 1 \in 1..m /\ h[i - 1] = g[i - 1]
      BY <2>2
    <3>2. CASE i = m + 1
      BY <3>1, <3>2
    <3>3. CASE i # m + 1
      BY <2>2, <2>3, <3>1, <3>3
    <3> QED BY <3>2, <3>3
  <2>5. Flattens(h, seqs, m + 1)
    <3> HIDE DEF h
    <3>1. h = [i \in 1..m + 1 |-> h[i]]
      BY DEF h
    <3> QED BY <2>4, <3>1 DEF Flattens
  <2> QED BY <2>5
<1> QED BY <1>1, <1>2, SetInduction

LEMMA FlattenMeans ==
  ASSUME NEW A, NEW seqs \in Seq(Seq(A))
  PROVE  /\ FlattenSeq(seqs) \in Seq(A)
         /\ ToSet(FlattenSeq(seqs)) = UNION {ToSet(seqs[k]) : k \in DOMAIN seqs}
<1>0. Len(seqs) \in Nat /\ DOMAIN seqs = 1..Len(seqs) /\ \A k \in 1..Len(seqs) : seqs[k] \in Seq(A)
  OBVIOUS
<1>1. CASE Len(seqs) = 0
  <2>1. seqs = <<>> /\ FlattenSeq(seqs) = <<>>
    BY <1>1 DEF FlattenSeq
  <2>2. ToSet(<<>>) = {} /\ DOMAIN seqs = {}
    BY <2>1 DEF ToSet
  <2>3. <<>> \in Seq(A)
    OBVIOUS
  <2> QED BY <2>1, <2>2, <2>3
<1>2. CASE Len(seqs) # 0
  <2> DEFINE flat == CHOOSE g : Flattens(g, seqs, Len(seqs))
  <2>1. FlattenSeq(seqs) = flat[Len(seqs)]
    BY <1>2 DEF FlattenSeq, Flattens
  <2>2. Flattens(flat, seqs, Len(seqs))
    BY <1>0, FlattenExists
  <2> HIDE DEF flat
  <2>3. \A i \in 1..Len(seqs) : flat[i] = IF i = 1 THEN seqs[i] ELSE flat[i - 1] \o seqs[i]
    BY <2>2 DEF Flattens
  <2> DEFINE Good(m) == /\ flat[m] \in Seq(A)
                        /\ ToSet(flat[m]) = UNION {ToSet(seqs[k]) : k \in 1..m}
             S == {m \in Nat : m \in 1..Len(seqs) => Good(m)}
  <2>4. 0 \in S
    OBVIOUS
  <2>5. ASSUME NEW m \in Nat, m \in S PROVE m + 1 \in S
    <3> SUFFICES ASSUME m + 1 \in 1..Len(seqs) PROVE Good(m + 1)
      OBVIOUS
    <3>1. CASE m = 0
      <4>1. flat[1] = seqs[1] /\ 1..1 = {1} /\ 1 \in 1..Len(seqs)
        BY <2>3, <3>1
      <4>2. Good(1)
        BY <1>0, <4>1
      <4> QED BY <3>1, <4>2
    <3>2. CASE m # 0
      <4>1. m \in 1..Len(seqs) /\ Good(m)
        BY <1>0, <2>5, <3>2
      <4>2. flat[m + 1] = flat[m] \o seqs[m + 1]
        <5>1. m + 1 # 1 /\ (m + 1) - 1 = m
          BY <3>2
        <5> QED BY <2>3, <5>1
      <4>3. seqs[m + 1] \in Seq(A)
        BY <1>0
      <4>4. /\ flat[m + 1] \in Seq(A)
            /\ ToSet(flat[m + 1]) = ToSet(flat[m]) \cup ToSet(seqs[m + 1])
        BY <4>1, <4>2, <4>3, ConcatMeans
      <4>5. 1..m + 1 = (1..m) \cup {m + 1}
        OBVIOUS
      <4> QED BY <4>1, <4>4, <4>5
    <3> QED BY <3>1, <3>2
  <2>6. Nat \subseteq S
    <3> HIDE DEF S
    <3> QED BY <2>4, <2>5, SetInduction
  <2>7. Good(Len(seqs))
    <3>1. \A m \in S : m \in 1..Len(seqs) => Good(m)
      OBVIOUS
    <3>2. Len(seqs) \in 1..Len(seqs)
      BY <1>0, <1>2
    <3> HIDE DEF S, Good
    <3> QED BY <1>0, <2>6, <3>1, <3>2
  <2> QED BY <1>0, <2>1, <2>7
<1> QED BY <1>1, <1>2

\* The operators on sequences of RuleEngine are those of SequencesExt.
LEMMA SameFlatten == ASSUME NEW s PROVE Rules!FlattenSeq(s) = FlattenSeq(s)
BY DEF Rules!FlattenSeq, FlattenSeq

LEMMA SameToSet == ASSUME NEW s PROVE Rules!ToSet(s) = ToSet(s)
BY DEF Rules!ToSet, ToSet

LEMMA SameCardinality == ASSUME NEW S PROVE Rules!Cardinality(S) = Cardinality(S)
BY DEF Rules!Cardinality, Cardinality

LEMMA KeptMeans ==
  ASSUME NEW A, NEW s \in Seq(A), NEW S
  PROVE  Rules!Kept(s, S) \in Seq(A) /\ ToSet(Rules!Kept(s, S)) = ToSet(s) \cap S
<1> DEFINE parts == [k \in DOMAIN s |-> IF s[k] \in S THEN <<s[k]>> ELSE <<>>]
<1>0. Len(s) \in Nat /\ DOMAIN s = 1..Len(s) /\ \A k \in 1..Len(s) : s[k] \in A
  OBVIOUS
<1>1. parts \in Seq(Seq(A)) /\ DOMAIN parts = DOMAIN s
  <2>1. \A k \in 1..Len(s) : (IF s[k] \in S THEN <<s[k]>> ELSE <<>>) \in Seq(A)
    BY <1>0
  <2>2. parts \in [1..Len(s) -> Seq(A)]
    BY <1>0, <2>1
  <2> QED BY <1>0, <2>2
<1>2. \A k \in DOMAIN s : ToSet(parts[k]) = IF s[k] \in S THEN {s[k]} ELSE {}
  BY DEF ToSet
<1>3. Rules!Kept(s, S) = FlattenSeq(parts)
  BY SameFlatten DEF Rules!Kept
<1> HIDE DEF parts
<1>4. /\ FlattenSeq(parts) \in Seq(A)
      /\ ToSet(FlattenSeq(parts)) = UNION {ToSet(parts[k]) : k \in DOMAIN parts}
  BY <1>1, FlattenMeans
<1>5. UNION {ToSet(parts[k]) : k \in DOMAIN parts} = ToSet(s) \cap S
  <2>1. ToSet(s) = {s[k] : k \in DOMAIN s}
    BY DEF ToSet
  <2> QED BY <1>1, <1>2, <2>1
<1> QED BY <1>3, <1>4, <1>5

LEMMA WithoutMeans ==
  ASSUME NEW A, NEW s \in Seq(A), NEW S
  PROVE  /\ Rules!Without(s, S) \in Seq(A)
         /\ ToSet(Rules!Without(s, S)) = ToSet(s) \ S
BY KeptMeans, SameToSet DEF Rules!Without

LEMMA RemoveFirstMeans ==
  ASSUME NEW A, NEW s \in Seq(A), NEW e
  PROVE  /\ Rules!RemoveFirst(s, e) \in Seq(A)
         /\ s # <<>> /\ e = Head(s) => Rules!RemoveFirst(s, e) = Tail(s)
<1>0. Len(s) \in Nat /\ DOMAIN s = 1..Len(s) /\ \A k \in 1..Len(s) : s[k] \in A
  OBVIOUS
<1> DEFINE I == {i \in 1..Len(s) : s[i] = e}
           At(i) == SubSeq(s, 1, i - 1) \o SubSeq(s, i + 1, Len(s))
<1>1. Rules!RemoveFirst(s, e) = IF \E i \in 1..Len(s) : s[i] = e
                                THEN At(IF I # {} THEN Rules!Min(I) ELSE 0) ELSE s
  BY DEF Rules!RemoveFirst, Rules!RemoveAt, Rules!SelectInSeq
<1>2. Rules!RemoveFirst(s, e) = IF I # {} THEN At(Rules!Min(I)) ELSE s
  BY <1>1
<1>3. I # {} => Rules!Min(I) \in I /\ \A i \in I : Rules!Min(I) <= i
  <2>1. I \subseteq Nat
    OBVIOUS
  <2> HIDE DEF I
  <2> QED BY <2>1, MinMeans
<1>4. \A i \in 1..Len(s) : At(i) \in Seq(A)
  OBVIOUS
<1>5. Rules!RemoveFirst(s, e) \in Seq(A)
  BY <1>2, <1>3, <1>4
<1>6. ASSUME s # <<>>, e = Head(s) PROVE Rules!RemoveFirst(s, e) = Tail(s)
  <2>1. 1 \in I /\ At(1) = Tail(s)
    BY <1>0, <1>6
  <2>2. Rules!Min(I) = 1
    BY <1>3, <2>1
  <2> QED BY <1>2, <2>1, <2>2
<1> QED BY <1>5, <1>6
-------------------------------------------------------------------------------
(* The rule engine: what its variables contain.                                *)

BranchName == {"if", "elseif", "else"}

RuleType ==
  /\ base \in Seq(Rules!Rule)
  /\ facts \in Seq(Fact) /\ rtx \in Seq(Fact)
  /\ mode \in {"idle", "clear", "forward", "backward"}
  /\ mode # "idle" => query \in Queries
  /\ mode = "clear" => todo \in Seq(Fact)
  /\ mode = "forward" => todo \in Seq(Rules!Conclusion)
  /\ mode # "backward" => agenda = <<>>
  /\ fired \in Seq([rule : DOMAIN base, branch : BranchName])
  /\ \A j, k \in DOMAIN fired : fired[j] = fired[k] => j = k
  /\ answer.is \in {"none", "failed", "new", "proof", "no", "overflow"}

\* What is still to be concluded is what the rules conclude.
TodoFromRules ==
  mode = "forward" =>
    \A k \in DOMAIN todo : \E i \in DOMAIN base : todo[k] \in Conclusions(base[i])

LEMMA RuleFields ==
  ASSUME base \in Seq(Rules!Rule), NEW i \in DOMAIN base
  PROVE  /\ base[i].if \in Rules!Condition /\ base[i].elseif \in Rules!Condition
         /\ base[i].do \in Seq(Rules!Conclusion)
         /\ base[i].elseifDo \in Seq(Rules!Conclusion)
         /\ base[i].elseDo \in Seq(Rules!Conclusion)
<1>1. base[i] \in Rules!Rule
  OBVIOUS
<1> QED BY <1>1 DEF Rules!Rule

LEMMA DoMeans ==
  ASSUME base \in Seq(Rules!Rule), NEW i \in DOMAIN base, NEW b \in BranchName
  PROVE  /\ Rules!Do(i, b) \in Seq(Rules!Conclusion)
         /\ \A k \in DOMAIN Rules!Do(i, b) : Rules!Do(i, b)[k] \in Conclusions(base[i])
<1>1. Rules!Do(i, b) \in {base[i].do, base[i].elseifDo, base[i].elseDo}
  BY DEF Rules!Do, BranchName
<1>2. ToSet(Rules!Do(i, b)) \subseteq Conclusions(base[i])
  BY <1>1 DEF Conclusions
<1> QED BY <1>1, <1>2, RuleFields DEF ToSet

LEMMA BranchMeans ==
  ASSUME NEW i, NEW b, b \in Rules!Branch(i)
  PROVE  b \in BranchName /\ [rule |-> i, branch |-> b] \notin ToSet(fired)
<1> DEFINE r == base[i]
           F == Rules!ToSet(facts)
           U(x) == [rule |-> i, branch |-> x] \notin Rules!ToSet(fired)
<1>1. CASE Rules!Holds(r.if, F, defined)
  <2>1. Rules!Branch(i) = IF U("if") THEN {"if"} ELSE {}
    BY <1>1 DEF Rules!Branch
  <2> QED BY <2>1, SameToSet DEF BranchName
<1>2. CASE ~Rules!Holds(r.if, F, defined) /\ r.elseifDo # <<>> /\ Rules!Holds(r.elseif, F, defined)
  <2>1. Rules!Branch(i) = IF U("elseif") THEN {"elseif"} ELSE {}
    BY <1>2 DEF Rules!Branch
  <2> QED BY <2>1, SameToSet DEF BranchName
<1>3. CASE ~Rules!Holds(r.if, F, defined) /\ r.elseDo # <<>> /\ ~Rules!Holds(r.elseif, F, defined)
  <2>1. Rules!Branch(i) = IF U("else") THEN {"else"} ELSE {}
    BY <1>3 DEF Rules!Branch
  <2> QED BY <2>1, SameToSet DEF BranchName
<1>4. CASE /\ ~Rules!Holds(r.if, F, defined)
           /\ ~(r.elseifDo # <<>> /\ Rules!Holds(r.elseif, F, defined))
           /\ ~(r.elseDo # <<>> /\ ~Rules!Holds(r.elseif, F, defined))
  <2>1. Rules!Branch(i) = {}
    BY <1>4 DEF Rules!Branch
  <2> QED BY <2>1
<1> QED BY <1>1, <1>2, <1>3, <1>4

LEMMA PerformType ==
  ASSUME facts \in Seq(Fact), rtx \in Seq(Fact),
         NEW c \in Rules!Conclusion, Rules!Perform(c)
  PROVE  facts' \in Seq(Fact) /\ rtx' \in Seq(Fact)
<1> DEFINE f == c.fact
<1>0. f \in Fact /\ c.do \in Rules!Predicate
  BY DEF Rules!Conclusion
<1> HIDE DEF f
<1>a. \A s \in Seq(Fact) : \A S : Rules!Without(s, S) \in Seq(Fact) /\ Append(Rules!Without(s, S), f) \in Seq(Fact)
  BY <1>0, WithoutMeans
<1>b. \A s \in Seq(Fact) : \A e : Rules!RemoveFirst(s, e) \in Seq(Fact)
  BY RemoveFirstMeans
<1>c. \A s \in Seq(Fact) : Append(s, f) \in Seq(Fact)
  BY <1>0
<1>1. CASE c.do = "assert_rtx"
  BY <1>c, <1>1 DEF Rules!Perform, Rules!AssertRtx, f
<1>2. CASE c.do = "retract_rtx"
  <2>1. Rules!RetractRtx(f)
    BY <1>2 DEF Rules!Perform, f
  <2> QED BY <1>a, <1>b, <2>1 DEF Rules!RetractRtx, Rules!store
<1>3. CASE c.do = "replace_rtx"
  <2>1. Rules!ReplaceRtx(f)
    BY <1>3 DEF Rules!Perform, f
  <2> QED BY <1>a, <2>1 DEF Rules!ReplaceRtx
<1>4. CASE c.do = "assert_once"
  <2>1. Rules!AssertOnce(f)
    BY <1>4 DEF Rules!Perform, f
  <2> QED BY <1>a, <1>c, <2>1 DEF Rules!AssertOnce
<1>5. CASE c.do = "assert_all"
  <2>1. facts' = Append(Rules!Without(facts, Rules!Pattern(f)), f) /\ rtx' = rtx
    BY <1>5 DEF Rules!Perform, f
  <2> QED BY <1>a, <2>1
<1>6. CASE c.do = "assert_single"
  <2>1. facts' = Append(Rules!Without(facts, {f}), f) /\ rtx' = rtx
    BY <1>6 DEF Rules!Perform, f
  <2> QED BY <1>a, <2>1
<1>7. CASE c.do = "retract_safe"
  <2>1. facts' = Rules!RemoveFirst(facts, f) /\ rtx' = rtx
    BY <1>7 DEF Rules!Perform, f
  <2> QED BY <1>b, <2>1
<1> QED BY <1>0, <1>1, <1>2, <1>3, <1>4, <1>5, <1>6, <1>7 DEF Rules!Predicate

RuleInv == RuleType /\ TodoFromRules

\* One step of the engine, or of the planner, which changes nothing of the engine.
LEMMA RuleCases ==
  ASSUME [Next]_vars
  PROVE  \/ UNCHANGED ruleVars
         \/ \E q \in Queries : Rules!Ask(q)
         \/ Rules!Clear \/ Rules!ClearFails \/ Rules!Give
         \/ \E i \in DOMAIN base, b \in BranchName : Rules!Fire(i, b)
         \/ Rules!Conclude \/ Rules!ForwardEnds
         \/ Rules!Expand \/ Rules!TestItem \/ Rules!Proved \/ Rules!NotProved \/ Rules!Overflow
BY DEF Next, vars, Rules!Next, Rules!Step, BranchName

LEMMA RuleInit == Init => RuleInv
<1> SUFFICES ASSUME Init PROVE RuleInv
  OBVIOUS
<1>1. base \in Seq(Rules!Rule)
  BY RuleAssumption DEF Init, RuleAssumption
<1>2. /\ facts = <<>> /\ rtx = <<>> /\ mode = "idle" /\ fired = <<>> /\ agenda = <<>>
      /\ answer = [is |-> "none"]
  BY DEF Init, Rules!Init
<1>3. DOMAIN fired = {} /\ fired \in Seq([rule : DOMAIN base, branch : BranchName])
  BY <1>2
<1> QED BY <1>1, <1>2, <1>3 DEF RuleInv, RuleType, TodoFromRules

LEMMA RuleStep ==
  ASSUME RuleInv, [Next]_vars
  PROVE  RuleInv' /\ base' = base
<1> USE DEF RuleInv
<1>0. CASE UNCHANGED ruleVars
  BY <1>0 DEF ruleVars, RuleType, TodoFromRules, Conclusions, ToSet
<1>1. ASSUME NEW q \in Queries, Rules!Ask(q) PROVE RuleInv' /\ base' = base
  <2>1. /\ base' = base /\ facts' = facts /\ rtx' = rtx /\ mode = "idle" /\ mode' = "clear"
        /\ query' = q /\ todo' = rtx /\ answer' = [is |-> "none"]
        /\ fired' = fired /\ agenda' = agenda
    BY <1>1 DEF Rules!Ask, Rules!Rest, Rules!store
  <2> QED BY <2>1 DEF RuleType, TodoFromRules
<1>2. CASE Rules!Clear
  <2>1. /\ base' = base /\ rtx' = rtx /\ mode = "clear" /\ mode' = mode /\ todo # <<>>
        /\ query' = query /\ todo' = Tail(todo) /\ answer' = answer
        /\ fired' = fired /\ agenda' = agenda
        /\ facts' = Rules!RemoveFirst(facts, Head(todo))
    BY <1>2 DEF Rules!Clear
  <2>2. facts' \in Seq(Fact)
    BY <2>1, RemoveFirstMeans DEF RuleType
  <2> QED BY <2>1, <2>2 DEF RuleType, TodoFromRules
<1>3. CASE Rules!ClearFails
  BY <1>3 DEF Rules!ClearFails, Rules!Answer, Rules!store, RuleType, TodoFromRules
<1>4. CASE Rules!Give
  <2>1. /\ base' = base /\ mode = "clear" /\ todo = <<>> /\ mode' = query.kind
        /\ facts' = facts \o query.given /\ rtx' = query.given
        /\ query' = query /\ todo' = todo /\ answer' = answer /\ fired' = fired
        /\ query.kind # "backward" => agenda' = <<>>
    BY <1>4 DEF Rules!Give
  <2>2. query \in Queries /\ query.kind \in {"forward", "backward"} /\ query.given \in Seq(Fact)
    BY <2>1, QueryAssumption DEF RuleType, QueryAssumption
  <2> QED BY <2>1, <2>2 DEF RuleType, TodoFromRules
<1>5. ASSUME NEW i \in DOMAIN base, NEW b \in BranchName, Rules!Fire(i, b)
      PROVE  RuleInv' /\ base' = base
  <2> DEFINE e == [rule |-> i, branch |-> b]
             E == [rule : DOMAIN base, branch : BranchName]
  <2>1. /\ base' = base /\ facts' = facts /\ rtx' = rtx /\ mode = "forward" /\ mode' = mode
        /\ query' = query /\ todo' = Rules!Do(i, b) /\ answer' = answer /\ agenda' = agenda
        /\ fired' = Append(fired, e) /\ b \in Rules!Branch(i)
    BY <1>5 DEF Rules!Fire, Rules!store
  <2>2. e \in E /\ e \notin ToSet(fired)
    BY <2>1, BranchMeans
  <2>3. /\ fired' \in Seq(E)
        /\ \A j, k \in DOMAIN fired' : fired'[j] = fired'[k] => j = k
    <3>1. fired \in Seq(E) /\ \A j \in DOMAIN fired : fired[j] # e
      BY <2>2 DEF RuleType, ToSet
    <3> HIDE DEF e, E
    <3>2. /\ fired' \in Seq(E) /\ DOMAIN fired' = 1..(Len(fired) + 1) /\ DOMAIN fired = 1..Len(fired)
          /\ \A j \in DOMAIN fired : fired'[j] = fired[j]
          /\ fired'[Len(fired) + 1] = e /\ Len(fired) \in Nat
      BY <2>1, <2>2, <3>1
    <3>3. \A j, k \in DOMAIN fired : fired[j] = fired[k] => j = k
      BY DEF RuleType
    <3>4. ASSUME NEW j \in DOMAIN fired', NEW k \in DOMAIN fired', fired'[j] = fired'[k] PROVE j = k
      <4>1. \A m \in DOMAIN fired' : m \in DOMAIN fired \/ m = Len(fired) + 1
        BY <3>2
      <4> QED BY <3>1, <3>2, <3>3, <3>4, <4>1
    <3> QED BY <3>2, <3>4
  <2>4. /\ todo' \in Seq(Rules!Conclusion)
        /\ \A k \in DOMAIN todo' : todo'[k] \in Conclusions(base[i])
    BY <2>1, DoMeans DEF RuleType
  <2> HIDE DEF e, E
  <2>5. Conclusions(base'[i]) = Conclusions(base[i])
    BY <2>1
  <2>6. TodoFromRules'
    BY <2>1, <2>4 DEF TodoFromRules
  <2> QED BY <2>1, <2>3, <2>4, <2>6 DEF RuleType, E
<1>6. CASE Rules!Conclude
  <2>1. /\ base' = base /\ mode = "forward" /\ mode' = mode /\ todo # <<>> /\ todo' = Tail(todo)
        /\ query' = query /\ answer' = answer /\ agenda' = agenda /\ fired' = fired
        /\ Rules!Perform(Head(todo))
    BY <1>6 DEF Rules!Conclude
  <2>2. /\ todo \in Seq(Rules!Conclusion) /\ Head(todo) \in Rules!Conclusion
        /\ todo' \in Seq(Rules!Conclusion)
        /\ \A k \in DOMAIN todo' : k + 1 \in DOMAIN todo /\ todo'[k] = todo[k + 1]
    BY <2>1 DEF RuleType
  <2>3. facts' \in Seq(Fact) /\ rtx' \in Seq(Fact)
    BY <2>1, <2>2, PerformType DEF RuleType
  <2>4. TodoFromRules'
    BY <2>1, <2>2 DEF TodoFromRules
  <2> QED BY <2>1, <2>2, <2>3, <2>4 DEF RuleType
<1>7. CASE Rules!ForwardEnds
  BY <1>7, SMTT(60) DEF Rules!ForwardEnds, Rules!Answer, Rules!store, RuleType, TodoFromRules
<1>8. CASE Rules!Expand \/ Rules!TestItem
  BY <1>8, Zenon DEF Rules!Expand, Rules!TestItem, Rules!Searching, Rules!store, RuleType, TodoFromRules
<1>9. CASE Rules!Proved \/ Rules!NotProved \/ Rules!Overflow
  <2>1. /\ base' = base /\ facts' = facts /\ rtx' = rtx /\ mode' = "idle" /\ fired' = <<>>
        /\ agenda' = <<>> /\ answer'.is \in {"proof", "no", "overflow"}
    BY <1>9 DEF Rules!Proved, Rules!NotProved, Rules!Overflow, Rules!Answer, Rules!store
  <2> QED BY <2>1 DEF RuleType, TodoFromRules
<1> QED BY <1>0, <1>1, <1>2, <1>3, <1>4, <1>5, <1>6, <1>7, <1>8, <1>9, RuleCases

LEMMA RuleInvHolds == FairSpec => []RuleInv
<1>1. RuleInv /\ [Next]_vars => RuleInv'
  BY RuleStep
<1> QED BY RuleInit, <1>1, PTL DEF FairSpec
-------------------------------------------------------------------------------
(* What is declared, given or concluded is defined.                            *)

DefinedInv ==
  /\ Declared \subseteq defined /\ defined \subseteq {PatternOf[f] : f \in Fact}
  /\ \A f \in ToSet(facts) : PatternOf[f] \in defined

LEMMA RemoveFirstFrom ==
  ASSUME NEW A, NEW s \in Seq(A), NEW e
  PROVE  ToSet(Rules!RemoveFirst(s, e)) \subseteq ToSet(s)
<1>0. Len(s) \in Nat /\ DOMAIN s = 1..Len(s)
  OBVIOUS
<1> DEFINE At(i) == SubSeq(s, 1, i - 1) \o SubSeq(s, i + 1, Len(s))
           I == {i \in 1..Len(s) : s[i] = e}
<1>1. Rules!RemoveFirst(s, e) = IF \E i \in 1..Len(s) : s[i] = e
                                THEN At(IF I # {} THEN Rules!Min(I) ELSE 0) ELSE s
  BY DEF Rules!RemoveFirst, Rules!RemoveAt, Rules!SelectInSeq
<1>2. I # {} => Rules!Min(I) \in I
  <2>1. I \subseteq Nat
    OBVIOUS
  <2> HIDE DEF I
  <2> QED BY <2>1, MinMeans
<1>3. ASSUME NEW i \in 1..Len(s) PROVE ToSet(At(i)) \subseteq ToSet(s)
  <2> DEFINE front == SubSeq(s, 1, i - 1)
             back == SubSeq(s, i + 1, Len(s))
  <2>1. front \in Seq(A) /\ DOMAIN front = 1..(i - 1) /\ \A k \in 1..(i - 1) : front[k] = s[k]
    BY <1>0
  <2>2. back \in Seq(A) /\ DOMAIN back = 1..(Len(s) - i) /\ \A k \in 1..(Len(s) - i) : back[k] = s[k + i]
    BY <1>0
  <2> HIDE DEF front, back
  <2>3. \A k \in 1..(i - 1) : k \in DOMAIN s
    BY <1>0
  <2>4. \A k \in 1..(Len(s) - i) : k + i \in DOMAIN s
    BY <1>0
  <2>5. ToSet(front) \subseteq ToSet(s)
    BY <2>1, <2>3, Zenon DEF ToSet
  <2>6. ToSet(back) \subseteq ToSet(s)
    BY <2>2, <2>4, Zenon DEF ToSet
  <2>7. ToSet(front \o back) = ToSet(front) \cup ToSet(back)
    BY <2>1, <2>2, ConcatMeans
  <2> QED BY <2>5, <2>6, <2>7 DEF front, back
<1> QED BY <1>1, <1>2, <1>3

LEMMA AppendMeans ==
  ASSUME NEW A, NEW s \in Seq(A), NEW e
  PROVE  /\ ToSet(Append(s, e)) = ToSet(s) \cup {e}
         /\ DOMAIN s = 1..Len(s) /\ Len(s) \in Nat
         /\ DOMAIN Append(s, e) = 1..(Len(s) + 1)
         /\ \A k \in 1..Len(s) : Append(s, e)[k] = s[k]
         /\ Append(s, e)[Len(s) + 1] = e
<1>1. /\ DOMAIN s = 1..Len(s) /\ Len(s) \in Nat
      /\ DOMAIN Append(s, e) = 1..(Len(s) + 1)
      /\ \A k \in 1..Len(s) : Append(s, e)[k] = s[k]
      /\ Append(s, e)[Len(s) + 1] = e
  OBVIOUS
<1>2. ASSUME NEW x \in ToSet(Append(s, e)) PROVE x \in ToSet(s) \cup {e}
  BY <1>1 DEF ToSet
<1>3. ASSUME NEW x \in ToSet(s) \cup {e} PROVE x \in ToSet(Append(s, e))
  <2>1. CASE x = e
    <3>1. Len(s) + 1 \in DOMAIN Append(s, e)
      BY <1>1
    <3> QED BY <1>1, <2>1, <3>1 DEF ToSet
  <2>2. CASE x \in ToSet(s)
    <3>1. PICK k \in 1..Len(s) : x = s[k]
      BY <1>1, <2>2 DEF ToSet
    <3>2. k \in DOMAIN Append(s, e) /\ x = Append(s, e)[k]
      BY <1>1, <3>1
    <3> QED BY <3>2 DEF ToSet
  <2> QED BY <2>1, <2>2
<1> QED BY <1>1, <1>2, <1>3

\* What a conclusion adds to the database.
LEMMA PerformAdds ==
  ASSUME facts \in Seq(Fact), NEW c \in Rules!Conclusion, Rules!Perform(c)
  PROVE  ToSet(facts') \subseteq ToSet(facts) \cup (IF c.do = "retract_rtx" THEN {} ELSE {c.fact})
<1> DEFINE f == c.fact
<1>0. f \in Fact /\ c.do \in Rules!Predicate
  BY DEF Rules!Conclusion
<1> HIDE DEF f
<1>a. \A S : /\ ToSet(Rules!Without(facts, S)) \subseteq ToSet(facts)
             /\ ToSet(Append(Rules!Without(facts, S), f)) \subseteq ToSet(facts) \cup {f}
  <2> TAKE S
  <2>1. Rules!Without(facts, S) \in Seq(Fact) /\ ToSet(Rules!Without(facts, S)) \subseteq ToSet(facts)
    BY WithoutMeans
  <2> DEFINE left == Rules!Without(facts, S)
  <2> HIDE DEF left
  <2>2. left \in Seq(Fact) /\ ToSet(left) \subseteq ToSet(facts)
    BY <2>1 DEF left
  <2>3. ToSet(Append(left, f)) = ToSet(left) \cup {f}
    BY <2>2, AppendMeans
  <2> QED BY <2>2, <2>3 DEF left
<1>b. ToSet(Rules!RemoveFirst(facts, f)) \subseteq ToSet(facts)
  BY RemoveFirstFrom
<1>c. ToSet(Append(facts, f)) = ToSet(facts) \cup {f}
  BY AppendMeans
<1>1. CASE c.do = "assert_rtx"
  BY <1>c, <1>1 DEF Rules!Perform, Rules!AssertRtx, f
<1>2. CASE c.do = "retract_rtx"
  <2>1. Rules!RetractRtx(f)
    BY <1>2 DEF Rules!Perform, f
  <2> QED BY <1>2, <1>a, <1>b, <2>1 DEF Rules!RetractRtx
<1>3. CASE c.do = "replace_rtx"
  <2>1. Rules!ReplaceRtx(f)
    BY <1>3 DEF Rules!Perform, f
  <2> QED BY <1>3, <1>a, <2>1 DEF Rules!ReplaceRtx, f
<1>4. CASE c.do = "assert_once"
  <2>1. Rules!AssertOnce(f)
    BY <1>4 DEF Rules!Perform, f
  <2> QED BY <1>4, <1>a, <1>c, <2>1 DEF Rules!AssertOnce, f
<1>5. CASE c.do = "assert_all"
  BY <1>a, <1>5 DEF Rules!Perform, f
<1>6. CASE c.do = "assert_single"
  BY <1>a, <1>6 DEF Rules!Perform, f
<1>7. CASE c.do = "retract_safe"
  BY <1>b, <1>7 DEF Rules!Perform, f
<1> QED BY <1>0, <1>1, <1>2, <1>3, <1>4, <1>5, <1>6, <1>7 DEF Rules!Predicate

LEMMA DefinedStep ==
  ASSUME RuleInv, DefinedInv, [Next]_vars
  PROVE  DefinedInv'
<1>0. RuleType /\ facts \in Seq(Fact)
  BY DEF RuleInv, RuleType
<1>1. CASE UNCHANGED <<facts, defined>>
  BY <1>1 DEF DefinedInv
<1>2. CASE Rules!Clear
  <2>1. facts' = Rules!RemoveFirst(facts, Head(todo)) /\ defined' = defined
    BY <1>2 DEF Rules!Clear
  <2>2. ToSet(facts') \subseteq ToSet(facts)
    BY <1>0, <2>1, RemoveFirstFrom
  <2> QED BY <2>1, <2>2 DEF DefinedInv
<1>3. CASE Rules!Give
  <2>1. /\ mode = "clear" /\ facts' = facts \o query.given
        /\ defined' = defined \cup {PatternOf[f] : f \in ToSet(query.given)}
    BY <1>3, SameToSet DEF Rules!Give
  <2>2. query.given \in Seq(Fact)
    BY <1>0, <2>1, QueryAssumption DEF RuleType, QueryAssumption
  <2>3. ToSet(facts') = ToSet(facts) \cup ToSet(query.given)
    BY <1>0, <2>1, <2>2, ConcatMeans
  <2>4. ToSet(query.given) \subseteq Fact
    BY <2>2 DEF ToSet
  <2> QED BY <2>1, <2>3, <2>4 DEF DefinedInv
<1>4. CASE Rules!Conclude
  <2> DEFINE c == Head(todo)
  <2>1. /\ mode = "forward" /\ todo # <<>> /\ Rules!Perform(c)
        /\ defined' = defined \cup Rules!Defines(c)
    BY <1>4 DEF Rules!Conclude
  <2>2. c \in Rules!Conclusion
    BY <1>0, <2>1 DEF RuleType
  <2> HIDE DEF c
  <2>3. ToSet(facts') \subseteq ToSet(facts) \cup (IF c.do = "retract_rtx" THEN {} ELSE {c.fact})
    BY <1>0, <2>1, <2>2, PerformAdds
  <2>4. c.fact \in Fact
    BY <2>2 DEF Rules!Conclusion
  <2> QED BY <2>1, <2>3, <2>4 DEF DefinedInv, Rules!Defines
<1>5. ASSUME NEW q \in Queries, Rules!Ask(q) PROVE UNCHANGED <<facts, defined>>
  BY <1>5 DEF Rules!Ask, Rules!store
<1>6. ASSUME NEW i \in DOMAIN base, NEW b \in BranchName, Rules!Fire(i, b)
      PROVE  UNCHANGED <<facts, defined>>
  BY <1>6 DEF Rules!Fire, Rules!store
<1>7. CASE \/ Rules!ClearFails \/ Rules!ForwardEnds \/ Rules!Expand \/ Rules!TestItem
           \/ Rules!Proved \/ Rules!NotProved \/ Rules!Overflow
  <2>1. UNCHANGED Rules!store
    BY <1>7, Zenon DEF Rules!ClearFails, Rules!ForwardEnds, Rules!Expand, Rules!TestItem,
                       Rules!Proved, Rules!NotProved, Rules!Overflow
  <2> QED BY <1>1, <2>1 DEF Rules!store
<1>8. CASE UNCHANGED ruleVars
  BY <1>1, <1>8 DEF ruleVars
<1> QED BY <1>1, <1>2, <1>3, <1>4, <1>5, <1>6, <1>7, <1>8, RuleCases

LEMMA DefinedInvHolds == FairSpec => []DefinedInv
<1>1. Init => DefinedInv
  BY DeclaredAssumption DEF DeclaredAssumption, Init, Rules!Init, DefinedInv, ToSet
<1>2. RuleInv /\ DefinedInv /\ [Next]_vars => DefinedInv'
  BY DefinedStep
<1> QED BY <1>1, <1>2, RuleInvHolds, PTL DEF FairSpec
-------------------------------------------------------------------------------
(* rtx/1 lists the facts of the database.                                      *)

LEMMA PerformRtx ==
  ASSUME NEW c, c.do \in {"assert_rtx", "retract_rtx", "replace_rtx"},
         Rules!Perform(c), facts = rtx
  PROVE  facts' = rtx'
<1>1. CASE c.do = "assert_rtx"
  BY <1>1 DEF Rules!Perform, Rules!AssertRtx
<1>2. CASE c.do = "retract_rtx"
  <2>1. Rules!RetractRtx(c.fact)
    BY <1>2 DEF Rules!Perform
  <2> QED BY <2>1 DEF Rules!RetractRtx, Rules!store
<1>3. CASE c.do = "replace_rtx"
  <2>1. Rules!ReplaceRtx(c.fact)
    BY <1>3 DEF Rules!Perform
  <2> QED BY <2>1 DEF Rules!ReplaceRtx
<1> QED BY <1>1, <1>2, <1>3

LEMMA RtxStep ==
  ASSUME RuleInv, RtxIsFaithful, [Next]_vars
  PROVE  RtxIsFaithful'
<1>1. base' = base /\ (OnlyRtx' <=> OnlyRtx)
  BY RuleStep DEF OnlyRtx
<1> SUFFICES ASSUME OnlyRtx
             PROVE  /\ facts' = IF mode' = "clear" THEN todo' ELSE rtx'
                    /\ answer'.is # "failed"
  BY <1>1 DEF RtxIsFaithful
<1>2. facts = (IF mode = "clear" THEN todo ELSE rtx) /\ answer.is # "failed"
  BY DEF RtxIsFaithful
<1>3. CASE UNCHANGED ruleVars
  BY <1>2, <1>3 DEF ruleVars
<1>4. ASSUME NEW q \in Queries, Rules!Ask(q)
      PROVE  facts' = (IF mode' = "clear" THEN todo' ELSE rtx') /\ answer'.is # "failed"
  BY <1>2, <1>4 DEF Rules!Ask, Rules!Rest, Rules!store
<1>5. CASE Rules!Clear
  <2>1. todo # <<>> /\ todo \in Seq(Fact) /\ facts = todo
    BY <1>2, <1>5 DEF Rules!Clear, RuleInv, RuleType
  <2>2. Rules!RemoveFirst(todo, Head(todo)) = Tail(todo)
    BY <2>1, RemoveFirstMeans
  <2> QED BY <1>2, <1>5, <2>1, <2>2 DEF Rules!Clear
<1>6. CASE Rules!ClearFails
  <2>1. todo # <<>> /\ todo \in Seq(Fact) /\ facts = todo /\ Head(todo) \notin ToSet(facts)
    BY <1>2, <1>6, SameToSet DEF Rules!ClearFails, RuleInv, RuleType
  <2>2. Head(todo) \in ToSet(todo)
    BY <2>1 DEF ToSet
  <2> QED BY <2>1, <2>2
<1>7. CASE Rules!Give
  <2>1. /\ facts = <<>> /\ facts' = facts \o query.given /\ rtx' = query.given
        /\ mode' = query.kind /\ answer' = answer /\ mode = "clear"
    BY <1>2, <1>7 DEF Rules!Give
  <2>2. query.kind # "clear" /\ query.given \in Seq(Fact)
    BY <2>1, QueryAssumption DEF RuleInv, RuleType, QueryAssumption
  <2> QED BY <1>2, <2>1, <2>2
<1>8. CASE Rules!Conclude
  <2>1. /\ mode = "forward" /\ mode' = mode /\ todo # <<>> /\ answer' = answer
        /\ Rules!Perform(Head(todo))
    BY <1>8 DEF Rules!Conclude
  <2>2. 1 \in DOMAIN todo /\ Head(todo) = todo[1]
    BY <2>1 DEF RuleInv, RuleType
  <2>3. Head(todo).do \in {"assert_rtx", "retract_rtx", "replace_rtx"}
    BY <2>1, <2>2 DEF RuleInv, TodoFromRules, OnlyRtx
  <2> QED BY <1>2, <2>1, <2>3, PerformRtx
<1>9. CASE \/ \E i \in DOMAIN base, b \in BranchName : Rules!Fire(i, b)
           \/ Rules!Expand \/ Rules!TestItem
  <2>1. facts' = facts /\ rtx' = rtx /\ mode # "clear" /\ mode' = mode /\ answer' = answer
    BY <1>9, Zenon DEF Rules!Fire, Rules!Expand, Rules!TestItem, Rules!Searching, Rules!store
  <2> QED BY <1>2, <2>1, SMTT(60)
<1>10. CASE Rules!ForwardEnds \/ Rules!Proved \/ Rules!NotProved \/ Rules!Overflow
  <2>1. /\ facts' = facts /\ rtx' = rtx /\ mode # "clear" /\ mode' = "idle"
        /\ answer'.is # "failed"
    BY <1>10 DEF Rules!ForwardEnds, Rules!Proved, Rules!NotProved, Rules!Overflow,
                 Rules!Searching, Rules!Answer, Rules!store
  <2> QED BY <1>2, <2>1
<1> QED BY <1>3, <1>4, <1>5, <1>6, <1>7, <1>8, <1>9, <1>10, RuleCases

\* As long as the rules use the predicates ..._rtx only, the facts of the database
\* and the list rtx/1 are the same sequence, whatever the rules and the queries,
\* and so no question fails when the facts of the last one are cleared.
THEOREM RtxIsFaithfulHolds == FairSpec => []RtxIsFaithful
<1>1. Init => RtxIsFaithful
  BY DEF Init, Rules!Init, RtxIsFaithful
<1>2. RuleInv /\ RtxIsFaithful /\ [Next]_vars => RtxIsFaithful'
  BY RtxStep
<1> QED BY <1>1, <1>2, RuleInvHolds, PTL DEF FairSpec
-------------------------------------------------------------------------------
(* What follows from a set of facts.                                           *)

Positive(cond) == \A k \in DOMAIN cond.lits : cond.lits[k].sign

LEMMA HoldsMonotone ==
  ASSUME NEW cond, Positive(cond), NEW F, NEW G, F \subseteq G, Satisfied(cond, F)
  PROVE  Satisfied(cond, G)
<1>1. \A k \in DOMAIN cond.lits : Rules!True(cond.lits[k], F) => Rules!True(cond.lits[k], G)
  BY Zenon DEF Positive, Rules!True
<1> QED BY <1>1, Zenon DEF Satisfied

\* A condition that holds for the engine is satisfied; and conversely if no part
\* of it raises an exception before it is decided.
LEMMA HoldsSatisfied ==
  ASSUME NEW cond, NEW F, NEW D, Rules!Holds(cond, F, D)
  PROVE  Satisfied(cond, F)
BY DEF Rules!Holds, Satisfied

LEMMA SatisfiedHolds ==
  ASSUME NEW cond \in Rules!Condition, Positive(cond), NEW F, NEW D, Satisfied(cond, F),
         \A f \in F : PatternOf[f] \in D,
         \/ cond.op = "and"
         \/ Len(cond.lits) <= 1
         \/ \A k \in DOMAIN cond.lits : PatternOf[cond.lits[k].fact] \in D
  PROVE  Rules!Holds(cond, F, D)
<1> DEFINE lits == cond.lits
<1>1. /\ cond.op \in {"and", "or"} /\ DOMAIN lits = 1..Len(lits) /\ Len(lits) \in Nat
      /\ \A k \in DOMAIN lits : lits[k].sign
  BY DEF Rules!Condition, Positive
<1>2. \A k \in DOMAIN lits : Rules!True(lits[k], F) => ~Rules!Raises(lits[k], D)
  BY <1>1, Zenon DEF Rules!True, Rules!Raises
<1> HIDE DEF lits
<1>3. CASE cond.op = "and"
  <2>1. \A k \in DOMAIN lits : Rules!True(lits[k], F)
    BY <1>3 DEF Satisfied, lits
  <2> QED BY <1>2, <1>3, <2>1 DEF Rules!Holds, lits
<1>4. CASE cond.op = "or"
  <2>1. PICK k \in DOMAIN lits : Rules!True(lits[k], F)
    BY <1>4 DEF Satisfied, lits
  <2>2. ASSUME NEW j \in 1..k PROVE ~Rules!Raises(lits[j], D)
    <3>1. j \in DOMAIN lits
      BY <1>1
    <3>2. CASE Len(lits) <= 1
      <4>1. j = k
        BY <1>1, <3>2
      <4> QED BY <1>2, <2>1, <4>1
    <3>3. CASE \A m \in DOMAIN lits : PatternOf[lits[m].fact] \in D
      BY <3>1, <3>3 DEF Rules!Raises
    <3> QED BY <1>4, <3>2, <3>3 DEF lits
  <2> QED BY <1>4, <2>1, <2>2 DEF Rules!Holds, lits
<1> QED BY <1>1, <1>3, <1>4

LEMMA ConsequencesMonotone ==
  ASSUME Monotone, NEW F, NEW G, F \subseteq G
  PROVE  Consequences(F) \subseteq Consequences(G)
<1>1. \A i \in DOMAIN base : Satisfied(base[i].if, F) => Satisfied(base[i].if, G)
  BY HoldsMonotone DEF Monotone, Positive
<1> QED BY <1>1 DEF Consequences

LEMMA ConsequencesType ==
  ASSUME base \in Seq(Rules!Rule), NEW F \in SUBSET Fact
  PROVE  F \subseteq Consequences(F) /\ Consequences(F) \subseteq Fact
<1>1. ASSUME NEW i \in DOMAIN base, NEW c \in ToSet(base[i].do) PROVE c.fact \in Fact
  <2>1. c \in Rules!Conclusion
    BY RuleFields DEF ToSet
  <2> QED BY <2>1 DEF Rules!Conclusion
<1> QED BY <1>1 DEF Consequences

\* What Closure is computed by exists.
Iterates(g, F, n) == g = [m \in 0..n |-> IF m = 0 THEN F ELSE Consequences(g[m - 1])]

LEMMA IteratesExists ==
  ASSUME NEW F, NEW n \in Nat
  PROVE  \E g : Iterates(g, F, n)
<1> DEFINE S == {m \in Nat : \E g : Iterates(g, F, m)}
<1>1. 0 \in S
  <2> DEFINE g == [m \in 0..0 |-> F]
  <2>1. g = [m \in 0..0 |-> IF m = 0 THEN F ELSE Consequences(g[m - 1])]
    OBVIOUS
  <2> QED BY <2>1 DEF Iterates
<1>2. ASSUME NEW m \in Nat, m \in S PROVE m + 1 \in S
  <2>1. PICK g : Iterates(g, F, m)
    BY <1>2
  <2> DEFINE h == [i \in 0..m + 1 |-> IF i = m + 1 THEN Consequences(g[i - 1]) ELSE g[i]]
  <2>2. \A i \in 0..m : h[i] = g[i]
    OBVIOUS
  <2>3. \A i \in 0..m : g[i] = IF i = 0 THEN F ELSE Consequences(g[i - 1])
    BY <2>1 DEF Iterates
  <2>4. \A i \in 0..m + 1 : h[i] = IF i = 0 THEN F ELSE Consequences(h[i - 1])
    <3> SUFFICES ASSUME NEW i \in 0..m + 1
                 PROVE  h[i] = IF i = 0 THEN F ELSE Consequences(h[i - 1])
      OBVIOUS
    <3>1. i # 0 => i - 1 \in 0..m /\ h[i - 1] = g[i - 1]
      BY <2>2
    <3>2. CASE i = m + 1
      BY <3>1, <3>2
    <3>3. CASE i # m + 1
      BY <2>2, <2>3, <3>1, <3>3
    <3> QED BY <3>2, <3>3
  <2>5. Iterates(h, F, m + 1)
    <3> HIDE DEF h
    <3>1. h = [i \in 0..m + 1 |-> h[i]]
      BY DEF h
    <3> QED BY <2>4, <3>1 DEF Iterates
  <2> QED BY <2>5
<1> QED BY <1>1, <1>2, SetInduction

\* The closure of a set of facts contains it and what follows from its elements,
\* and is contained in every set that does.
LEMMA ClosureMeans ==
  ASSUME base \in Seq(Rules!Rule), Monotone, NEW F \in SUBSET Fact
  PROVE  /\ F \subseteq Closure(F) /\ Closure(F) \subseteq Fact
         /\ Consequences(Closure(F)) = Closure(F)
         /\ \A G : F \subseteq G /\ Consequences(G) \subseteq G => Closure(F) \subseteq G
<1> DEFINE N == Cardinality(Fact)
           after == CHOOSE g : Iterates(g, F, N)
<1>0. N \in Nat
  BY FactAssumption, FS_CardinalityType DEF FactAssumption
<1>1. Closure(F) = after[N]
  BY DEF Closure, Iterates
<1>2. Iterates(after, F, N)
  <2> HIDE DEF N
  <2> QED BY <1>0, IteratesExists
<1> HIDE DEF after, N
<1>3. \A m \in 0..N : after[m] = IF m = 0 THEN F ELSE Consequences(after[m - 1])
  BY <1>2 DEF Iterates
<1>4. /\ after[0] = F
      /\ \A m \in Nat : m + 1 \in 0..N => m \in 0..N /\ after[m + 1] = Consequences(after[m])
  <2>1. \A m \in Nat : m + 1 \in 0..N => m \in 0..N /\ m + 1 # 0 /\ (m + 1) - 1 = m
    BY <1>0
  <2> QED BY <1>0, <1>3, <2>1
<1> DEFINE A == {m \in Nat : m \in 0..N => F \subseteq after[m] /\ after[m] \subseteq Fact}
<1>5. Nat \subseteq A
  <2>1. 0 \in A
    BY <1>4
  <2>2. ASSUME NEW m \in Nat, m \in A PROVE m + 1 \in A
    <3> SUFFICES ASSUME m + 1 \in 0..N
                 PROVE  F \subseteq after[m + 1] /\ after[m + 1] \subseteq Fact
      OBVIOUS
    <3>1. /\ after[m + 1] = Consequences(after[m])
          /\ F \subseteq after[m] /\ after[m] \in SUBSET Fact
      BY <1>4, <2>2
    <3> QED BY <3>1, ConsequencesType
  <2> HIDE DEF A
  <2> QED BY <2>1, <2>2, SetInduction
<1>6. ASSUME NEW G, F \subseteq G, Consequences(G) \subseteq G PROVE after[N] \subseteq G
  <2> DEFINE B == {m \in Nat : m \in 0..N => after[m] \subseteq G}
  <2>1. 0 \in B
    BY <1>4, <1>6
  <2>2. ASSUME NEW m \in Nat, m \in B PROVE m + 1 \in B
    <3> SUFFICES ASSUME m + 1 \in 0..N PROVE after[m + 1] \subseteq G
      OBVIOUS
    <3>1. after[m + 1] = Consequences(after[m]) /\ after[m] \subseteq G
      BY <1>4, <2>2
    <3>2. Consequences(after[m]) \subseteq Consequences(G)
      BY <3>1, ConsequencesMonotone
    <3> QED BY <1>6, <3>1, <3>2
  <2>3. Nat \subseteq B
    <3> HIDE DEF B
    <3> QED BY <2>1, <2>2, SetInduction
  <2> QED BY <1>0, <2>3
<1> DEFINE Closed(m) == Consequences(after[m]) = after[m]
           D == {m \in Nat : m \in 0..N => Closed(m) \/ Cardinality(after[m]) >= m}
<1>7. \A m \in 0..N : /\ IsFiniteSet(after[m]) /\ Cardinality(after[m]) \in Nat
                      /\ after[m] \subseteq Fact
  BY <1>0, <1>5, FactAssumption, FS_Subset, FS_CardinalityType DEF FactAssumption
<1>8. Nat \subseteq D
  <2>1. 0 \in D
    BY <1>0, <1>7
  <2>2. ASSUME NEW m \in Nat, m \in D PROVE m + 1 \in D
    <3> SUFFICES ASSUME m + 1 \in 0..N, ~Closed(m + 1) PROVE Cardinality(after[m + 1]) >= m + 1
      OBVIOUS
    <3>1. m \in 0..N /\ after[m + 1] = Consequences(after[m])
      BY <1>4
    <3>2. ~Closed(m)
      BY <3>1
    <3>3. Cardinality(after[m]) >= m
      BY <2>2, <3>1, <3>2
    <3>4. after[m] \subseteq after[m + 1] /\ after[m] # after[m + 1]
      BY <1>7, <3>1, <3>2, ConsequencesType
    <3>5. Cardinality(after[m]) < Cardinality(after[m + 1])
      BY <1>7, <3>1, <3>4, FS_Subset
    <3> QED BY <1>7, <3>1, <3>3, <3>5
  <2> HIDE DEF D
  <2> QED BY <2>1, <2>2, SetInduction
<1>9. Consequences(after[N]) = after[N]
  <2>1. N \in 0..N
    BY <1>0
  <2>2. CASE Cardinality(after[N]) >= N
    <3>1. after[N] = Fact
      BY <1>7, <2>1, <2>2, FactAssumption, FS_Subset, FS_CardinalityType DEF FactAssumption, N
    <3>2. Fact \in SUBSET Fact
      OBVIOUS
    <3>3. Consequences(Fact) = Fact
      BY <3>2, ConsequencesType
    <3> QED BY <3>1, <3>3
  <2> QED BY <1>0, <1>8, <2>1, <2>2
<1> QED BY <1>0, <1>1, <1>5, <1>6, <1>9
-------------------------------------------------------------------------------
(* Forward chaining.                                                           *)

Given == ToSet(query.given)
Pending == {c.fact : c \in ToSet(todo)}

\* When rules only add: what has been inferred follows from what is given, and
\* the branches that have fired are those of rules whose conclusions are known.
Inferred ==
  /\ Given \subseteq ToSet(facts)
  /\ ToSet(facts) \cup Pending \subseteq Closure(Given)
  /\ \A k \in DOMAIN fired :
       /\ fired[k].branch = "if"
       /\ {c.fact : c \in ToSet(base[fired[k].rule].do)} \subseteq ToSet(facts) \cup Pending

ForwardInv ==
  /\ mode # "forward" => fired = <<>>
  /\ mode # "idle" => answer.is = "none"
  /\ Monotone /\ mode = "forward" => Inferred
  /\ Monotone /\ mode = "backward" => ToSet(facts) = Given

LEMMA MonotoneIsRtx == Monotone => OnlyRtx
BY DEF Monotone, OnlyRtx

LEMMA RulesStay ==
  ASSUME base' = base
  PROVE  /\ Monotone' <=> Monotone
         /\ \A F : Closure(F)' = Closure(F)
<1>1. Monotone' <=> Monotone
  BY DEF Monotone
<1>2. ASSUME NEW F PROVE Closure(F)' = Closure(F)
  BY DEF Closure, Consequences
<1> QED BY <1>1, <1>2

\* A monotone rule has one branch to fire, if any: its first.
LEMMA MonotoneBranch ==
  ASSUME Monotone, NEW i \in DOMAIN base
  PROVE  Rules!Branch(i) =
           IF Rules!Holds(base[i].if, ToSet(facts), defined) /\ [rule |-> i, branch |-> "if"] \notin ToSet(fired)
           THEN {"if"} ELSE {}
<1>1. base[i].elseif = Rules!Never /\ base[i].elseDo = <<>>
  BY DEF Monotone
<1>2. ~Rules!Holds(base[i].elseif, ToSet(facts), defined)
  BY <1>1 DEF Rules!Holds, Rules!Never
<1>3. CASE Rules!Holds(base[i].if, ToSet(facts), defined)
  <2>1. Rules!Branch(i) = IF [rule |-> i, branch |-> "if"] \notin ToSet(fired) THEN {"if"} ELSE {}
    BY <1>3, SameToSet DEF Rules!Branch
  <2> QED BY <1>3, <2>1
<1>4. CASE ~Rules!Holds(base[i].if, ToSet(facts), defined)
  <2>1. Rules!Branch(i) = {}
    BY <1>1, <1>2, <1>4, SameToSet DEF Rules!Branch
  <2> QED BY <1>4, <2>1
<1> QED BY <1>3, <1>4

LEMMA HeadTailMeans ==
  ASSUME NEW A, NEW s \in Seq(A), s # <<>>
  PROVE  /\ Head(s) \in A /\ Tail(s) \in Seq(A)
         /\ ToSet(s) = {Head(s)} \cup ToSet(Tail(s))
<1>1. /\ DOMAIN s = 1..Len(s) /\ Len(s) \in Nat /\ 1 \in DOMAIN s /\ Head(s) = s[1]
      /\ Tail(s) \in Seq(A) /\ DOMAIN Tail(s) = 1..(Len(s) - 1)
      /\ \A k \in 1..(Len(s) - 1) : Tail(s)[k] = s[k + 1]
      /\ Head(s) \in A
  OBVIOUS
<1>2. ASSUME NEW x \in ToSet(s) PROVE x \in {Head(s)} \cup ToSet(Tail(s))
  <2>1. PICK k \in 1..Len(s) : x = s[k]
    BY <1>1 DEF ToSet
  <2>2. k # 1 => k - 1 \in DOMAIN Tail(s) /\ x = Tail(s)[k - 1]
    BY <1>1, <2>1
  <2> QED BY <1>1, <2>1, <2>2 DEF ToSet
<1>3. ASSUME NEW x \in ToSet(Tail(s)) PROVE x \in ToSet(s)
  <2>1. PICK k \in 1..(Len(s) - 1) : x = s[k + 1]
    BY <1>1 DEF ToSet
  <2>2. k + 1 \in DOMAIN s
    BY <1>1
  <2> QED BY <2>1, <2>2 DEF ToSet
<1>4. Head(s) \in ToSet(s)
  BY <1>1 DEF ToSet
<1> QED BY <1>1, <1>2, <1>3, <1>4

\* What a fired rule concludes follows.
LEMMA FireInfers ==
  ASSUME base \in Seq(Rules!Rule), Monotone, NEW F \in SUBSET Fact, NEW G, G \subseteq Closure(F),
         NEW i \in DOMAIN base, Satisfied(base[i].if, G)
  PROVE  {c.fact : c \in ToSet(base[i].do)} \subseteq Closure(F)
<1>1. {c.fact : c \in ToSet(base[i].do)} \subseteq Consequences(G)
  BY DEF Consequences
<1>2. Consequences(G) \subseteq Consequences(Closure(F))
  BY ConsequencesMonotone
<1> QED BY <1>1, <1>2, ClosureMeans

LEMMA ForwardStep ==
  ASSUME RuleInv, DefinedInv, RtxIsFaithful, ForwardInv, ForwardIsClosure, [Next]_vars
  PROVE  ForwardInv' /\ ForwardIsClosure'
<1>0. /\ base' = base /\ RuleType /\ RuleType' /\ (Monotone' <=> Monotone)
      /\ \A F : Closure(F)' = Closure(F)
  BY RuleStep, RulesStay DEF RuleInv
<1>1. CASE UNCHANGED ruleVars
  <2>1. /\ base' = base /\ facts' = facts /\ mode' = mode /\ query' = query /\ todo' = todo
        /\ fired' = fired /\ answer' = answer
    BY <1>1 DEF ruleVars
  <2>2. Given' = Given /\ Pending' = Pending
    BY <2>1 DEF Given, Pending
  <2>3. Closure(Given)' = Closure(Given)
    BY <2>1, <2>2 DEF Closure, Consequences
  <2>4. Inferred => Inferred'
    BY <2>1, <2>2, <2>3 DEF Inferred
  <2>5. ForwardInv'
    BY <1>0, <2>1, <2>2, <2>4 DEF ForwardInv
  <2>6. ForwardIsClosure'
    <3>1. Disjuncts' = Disjuncts
      BY <1>0 DEF Disjuncts
    <3> QED BY <1>0, <2>1, <2>2, <2>3, <3>1 DEF ForwardIsClosure, Given
  <2> QED BY <2>5, <2>6
<1>2. ASSUME NEW q \in Queries, Rules!Ask(q) PROVE ForwardInv' /\ ForwardIsClosure'
  <2>1. mode = "idle" /\ mode' = "clear" /\ answer' = [is |-> "none"] /\ fired' = fired
    BY <1>2 DEF Rules!Ask, Rules!Rest
  <2> QED BY <2>1 DEF ForwardInv, ForwardIsClosure
<1>3. CASE Rules!Clear
  <2>1. mode = "clear" /\ mode' = mode /\ answer' = answer /\ fired' = fired
    BY <1>3 DEF Rules!Clear
  <2> QED BY <2>1 DEF ForwardInv, ForwardIsClosure
<1>4. CASE Rules!ClearFails \/ Rules!Proved \/ Rules!NotProved \/ Rules!Overflow
  <2>1. mode' = "idle" /\ answer'.is # "new" /\ fired' = <<>>
    BY <1>4 DEF Rules!ClearFails, Rules!Proved, Rules!NotProved, Rules!Overflow, Rules!Answer
  <2> QED BY <2>1 DEF ForwardInv, ForwardIsClosure
<1>5. CASE Rules!Give
  <2>1. /\ mode = "clear" /\ todo = <<>> /\ todo' = todo /\ facts' = facts \o query.given
        /\ query' = query /\ mode' = query.kind /\ answer' = answer /\ fired' = fired
    BY <1>5 DEF Rules!Give
  <2>2. query \in Queries /\ query.given \in Seq(Fact)
    BY <1>0, <2>1, QueryAssumption DEF RuleType, QueryAssumption
  <2>3. answer'.is = "none" /\ fired' = <<>>
    BY <2>1 DEF ForwardInv
  <2>4. ASSUME Monotone' PROVE Inferred' /\ ToSet(facts') = Given'
    <3>1. facts = <<>>
      BY <1>0, <2>1, <2>4, MonotoneIsRtx DEF RtxIsFaithful
    <3>2. facts' = query.given
      BY <2>1, <2>2, <3>1
    <3>3. Given' = Given /\ ToSet(facts') = Given
      BY <2>1, <3>2 DEF Given
    <3>4. Given \in SUBSET Fact
      BY <2>2 DEF Given, ToSet
    <3>5. Given \subseteq Closure(Given)
      BY <1>0, <2>4, <3>4, ClosureMeans DEF RuleType
    <3>6. Closure(Given)' = Closure(Given)
      BY <1>0, <3>3 DEF Closure, Consequences
    <3>7. Pending' = {} /\ DOMAIN fired' = {}
      BY <2>1, <2>3 DEF Pending, ToSet
    <3> QED BY <3>3, <3>5, <3>6, <3>7 DEF Inferred
  <2> QED BY <2>3, <2>4 DEF ForwardInv, ForwardIsClosure
<1>6. ASSUME NEW i \in DOMAIN base, NEW b \in BranchName, Rules!Fire(i, b)
      PROVE  ForwardInv' /\ ForwardIsClosure'
  <2>1. /\ mode = "forward" /\ mode' = mode /\ todo = <<>> /\ todo' = Rules!Do(i, b)
        /\ b \in Rules!Branch(i) /\ facts' = facts /\ query' = query /\ answer' = answer
        /\ fired' = Append(fired, [rule |-> i, branch |-> b])
    BY <1>6 DEF Rules!Fire, Rules!store
  <2>2. answer'.is = "none"
    BY <2>1 DEF ForwardInv
  <2>3. ASSUME Monotone PROVE Inferred'
    <3>1. Inferred /\ Given' = Given /\ Pending = {}
      BY <2>1, <2>3 DEF ForwardInv, Given, Pending, ToSet
    <3>2. b = "if" /\ Satisfied(base[i].if, ToSet(facts))
      <4>1. \/ Rules!Branch(i) = {"if"} /\ Rules!Holds(base[i].if, ToSet(facts), defined)
            \/ Rules!Branch(i) = {}
        BY <2>3, MonotoneBranch, Zenon
      <4> QED BY <2>1, <4>1, HoldsSatisfied
    <3>3. Rules!Do(i, b) = base[i].do
      BY <3>2 DEF Rules!Do
    <3>4. Pending' = {c.fact : c \in ToSet(base[i].do)}
      BY <2>1, <3>3 DEF Pending
    <3>5. query.given \in Seq(Fact)
      BY <1>0, <2>1, QueryAssumption DEF RuleType, QueryAssumption
    <3>6. Given \in SUBSET Fact
      BY <3>5 DEF Given, ToSet
    <3>7. ToSet(facts) \subseteq Closure(Given)
      BY <3>1 DEF Inferred
    <3>8. Pending' \subseteq Closure(Given)
      BY <1>0, <2>3, <3>2, <3>4, <3>6, <3>7, FireInfers DEF RuleType
    <3>9. Closure(Given)' = Closure(Given)
      BY <1>0, <3>1 DEF Closure, Consequences
    <3>10. ASSUME NEW k \in DOMAIN fired'
           PROVE  /\ fired'[k].branch = "if"
                  /\ {c.fact : c \in ToSet(base[fired'[k].rule].do)} \subseteq ToSet(facts) \cup Pending'
      <4>1. fired \in Seq([rule : DOMAIN base, branch : BranchName])
        BY <1>0 DEF RuleType
      <4> DEFINE e == [rule |-> i, branch |-> b]
                 E == [rule : DOMAIN base, branch : BranchName]
      <4> HIDE DEF e, E
      <4>a. fired' = Append(fired, e) /\ fired \in Seq(E)
        BY <2>1, <4>1 DEF e, E
      <4>b. \/ k \in DOMAIN fired /\ fired'[k] = fired[k]
            \/ fired'[k] = e
        BY <4>a, AppendMeans
      <4>2. CASE k \in DOMAIN fired /\ fired'[k] = fired[k]
        BY <3>1, <4>2 DEF Inferred
      <4>3. CASE fired'[k] = e
        BY <3>2, <3>4, <4>3 DEF e
      <4> QED BY <4>b, <4>2, <4>3
    <3> QED BY <1>0, <2>1, <3>1, <3>7, <3>8, <3>9, <3>10 DEF Inferred
  <2> QED BY <1>0, <2>1, <2>2, <2>3 DEF ForwardInv, ForwardIsClosure
<1>7. CASE Rules!Conclude
  <2>1. /\ mode = "forward" /\ mode' = mode /\ todo # <<>> /\ todo' = Tail(todo)
        /\ query' = query /\ answer' = answer /\ fired' = fired /\ Rules!Perform(Head(todo))
    BY <1>7 DEF Rules!Conclude
  <2>2. answer'.is = "none"
    BY <2>1 DEF ForwardInv
  <2>3. ASSUME Monotone PROVE Inferred'
    <3>1. Inferred /\ Given' = Given
      BY <2>1, <2>3 DEF ForwardInv, Given
    <3>2. todo \in Seq(Rules!Conclusion) /\ facts \in Seq(Fact)
      BY <1>0, <2>1 DEF RuleType
    <3>3. ToSet(todo) = {Head(todo)} \cup ToSet(todo')
      BY <2>1, <3>2, HeadTailMeans
    <3>4. Head(todo).do = "assert_rtx"
      <4>1. 1 \in DOMAIN todo /\ Head(todo) = todo[1]
        BY <2>1, <3>2
      <4> QED BY <2>1, <2>3, <4>1 DEF RuleInv, TodoFromRules, Monotone
    <3>5. facts' = Append(facts, Head(todo).fact)
      BY <2>1, <3>4 DEF Rules!Perform, Rules!AssertRtx
    <3>6. ToSet(facts') = ToSet(facts) \cup {Head(todo).fact}
      BY <3>2, <3>5, AppendMeans
    <3>7. ToSet(facts') \cup Pending' = ToSet(facts) \cup Pending
      BY <3>3, <3>6 DEF Pending
    <3>8. Closure(Given)' = Closure(Given)
      BY <1>0, <3>1 DEF Closure, Consequences
    <3> QED BY <1>0, <2>1, <3>1, <3>6, <3>7, <3>8 DEF Inferred
  <2> QED BY <1>0, <2>1, <2>2, <2>3 DEF ForwardInv, ForwardIsClosure
<1>8. CASE Rules!ForwardEnds
  <2>1. /\ mode = "forward" /\ todo = <<>> /\ \A i \in DOMAIN base : Rules!Branch(i) = {}
        /\ mode' = "idle" /\ fired' = <<>> /\ query' = query
        /\ answer' = [is |-> "new", facts |-> ToSet(rtx) \ ToSet(query.given)]
    BY <1>8, SameToSet DEF Rules!ForwardEnds, Rules!Answer
  <2>2. ASSUME Monotone PROVE ToSet(rtx) = ToSet(facts) /\ Inferred /\ Pending = {}
    BY <2>1, <2>2, MonotoneIsRtx DEF ForwardInv, Pending, ToSet, RtxIsFaithful
  <2>3. ASSUME Monotone, {PatternOf[f] : f \in Disjuncts} \subseteq Declared
        PROVE  Closure(Given) \subseteq ToSet(facts)
    <3>1. Inferred /\ Pending = {}
      BY <2>2, <2>3
    <3>2. query.given \in Seq(Fact)
      BY <1>0, <2>1, QueryAssumption DEF RuleType, QueryAssumption
    <3>3. Given \in SUBSET Fact
      BY <3>2 DEF Given, ToSet
    <3>4. ASSUME NEW i \in DOMAIN base, Satisfied(base[i].if, ToSet(facts))
          PROVE  {c.fact : c \in ToSet(base[i].do)} \subseteq ToSet(facts)
      <4>a. base[i].if \in Rules!Condition /\ Positive(base[i].if)
        BY <1>0, <2>3, RuleFields DEF RuleType, Monotone, Positive
      <4>b. \/ base[i].if.op = "and"
            \/ \A k \in DOMAIN base[i].if.lits : PatternOf[base[i].if.lits[k].fact] \in defined
        <5>1. base[i].if.op \in {"and", "or"}
          BY <4>a DEF Rules!Condition
        <5>2. CASE base[i].if.op = "or"
          <6>1. \A k \in DOMAIN base[i].if.lits : base[i].if.lits[k].fact \in Disjuncts
            BY <5>2 DEF Disjuncts
          <6> QED BY <2>3, <6>1 DEF DefinedInv
        <5> QED BY <5>1, <5>2
      <4>c. Rules!Holds(base[i].if, ToSet(facts), defined)
        BY <3>4, <4>a, <4>b, SatisfiedHolds DEF DefinedInv
      <4>1. [rule |-> i, branch |-> "if"] \in ToSet(fired)
        BY <2>1, <2>3, <4>c, MonotoneBranch
      <4>2. PICK k \in DOMAIN fired : fired[k] = [rule |-> i, branch |-> "if"]
        BY <4>1 DEF ToSet
      <4>3. fired[k].rule = i
        BY <4>2
      <4> QED BY <3>1, <4>3 DEF Inferred
    <3>5. Consequences(ToSet(facts)) \subseteq ToSet(facts)
      BY <3>4 DEF Consequences
    <3> QED BY <1>0, <2>3, <3>1, <3>3, <3>5, ClosureMeans, ZenonT(120) DEF RuleType, Inferred
  <2>4. Given' = Given /\ (Closure(Given)' = Closure(Given)) /\ Disjuncts' = Disjuncts
    BY <1>0, <2>1 DEF Closure, Consequences, Given, Disjuncts
  <2>5. ForwardIsClosure'
    <3> SUFFICES ASSUME Monotone
                 PROVE  /\ answer'.facts \subseteq Closure(Given) \ Given
                        /\ {PatternOf[f] : f \in Disjuncts} \subseteq Declared
                             => answer'.facts = Closure(Given) \ Given
      BY <1>0, <2>1, <2>4 DEF ForwardIsClosure, Given
    <3>1. answer'.facts = ToSet(rtx) \ Given
      BY <2>1 DEF Given
    <3>2. ToSet(facts) \subseteq Closure(Given)
      BY <2>2 DEF Inferred
    <3> QED BY <2>2, <2>3, <3>1, <3>2
  <2> QED BY <2>1, <2>5 DEF ForwardInv
<1>9. CASE Rules!Expand \/ Rules!TestItem
  <2>1. /\ mode = "backward" /\ mode' = mode /\ facts' = facts /\ query' = query
        /\ answer' = answer /\ fired' = fired
    BY <1>9, Zenon DEF Rules!Expand, Rules!TestItem, Rules!Searching, Rules!store
  <2>2. Given' = Given
    BY <2>1 DEF Given
  <2> QED BY <1>0, <2>1, <2>2 DEF ForwardInv, ForwardIsClosure
<1> QED BY <1>1, <1>2, <1>3, <1>4, <1>5, <1>6, <1>7, <1>8, <1>9, RuleCases

LEMMA ForwardHolds == FairSpec => [](ForwardInv /\ ForwardIsClosure)
<1>1. Init => ForwardInv /\ ForwardIsClosure
  BY DEF Init, Rules!Init, ForwardInv, ForwardIsClosure
<1>2. RuleInv /\ DefinedInv /\ RtxIsFaithful /\ ForwardInv /\ ForwardIsClosure /\ [Next]_vars
        => ForwardInv' /\ ForwardIsClosure'
  BY ForwardStep
<1> QED BY <1>1, <1>2, RuleInvHolds, DefinedInvHolds, RtxIsFaithfulHolds, PTL DEF FairSpec

\* With rules that only add facts to facts that hold, forward answers with nothing
\* but what follows from what is given, and with all of it if the facts of their
\* disjunctions are declared, whatever the rules, their priorities and the
\* question, although no rule fires twice.
THEOREM ForwardIsClosureHolds == FairSpec => []ForwardIsClosure
BY ForwardHolds, PTL
-------------------------------------------------------------------------------
(* Backward chaining: the ways to prove a condition.                           *)

\* What the agenda of monotone rules consists of.
PlainItem == {item \in [how : {"prove", "test"}, cond : Rules!Condition] :
                /\ Positive(item.cond)
                /\ item.how = "prove" => item.cond.op = "and" /\ Len(item.cond.lits) = 1}
Explained == [rule : DOMAIN base, branch : BranchName, goal : Fact]
PlainAlternative == [items : Seq(PlainItem), why : Seq(Explained)]

\* All that is left to prove holds in G.
ItemsHold(items, G) == \A k \in DOMAIN items : Satisfied(items[k].cond, G)

\* All that is left to prove is in C, and what is tested, one fact at a time, is
\* in F.
ItemOpen(item, F, C) == IF item.how = "prove" THEN Satisfied(item.cond, C)
                        ELSE Len(item.cond.lits) <= 1 /\ Satisfied(item.cond, F)
ItemsOpen(items, F, C) == \A k \in DOMAIN items : ItemOpen(items[k], F, C)

LEMMA ProveMeans ==
  ASSUME NEW lit \in Rules!Literal, lit.sign
  PROVE  /\ Rules!Prove(lit) \in PlainItem
         /\ Rules!Prove(lit).how = "prove"
         /\ \A G : Satisfied(Rules!Prove(lit).cond, G) <=> lit.fact \in G
<1> DEFINE cond == [op |-> "and", lits |-> <<lit>>]
<1>1. Rules!Prove(lit) = [how |-> "prove", cond |-> cond]
  BY DEF Rules!Prove
<1>2. /\ cond.op = "and" /\ cond.lits = <<lit>> /\ DOMAIN cond.lits = {1} /\ cond.lits[1] = lit
      /\ Len(cond.lits) = 1 /\ cond \in Rules!Condition
  BY DEF Rules!Condition
<1> HIDE DEF cond
<1>3. Positive(cond)
  BY <1>2 DEF Positive
<1>4. \A G : Rules!True(lit, G) <=> lit.fact \in G
  BY Zenon DEF Rules!True
<1>5. \A G : Satisfied(cond, G) <=> Rules!True(lit, G)
  BY <1>2 DEF Satisfied
<1> QED BY <1>1, <1>2, <1>3, <1>4, <1>5 DEF PlainItem

LEMMA TestMeans ==
  ASSUME NEW cond \in Rules!Condition, Positive(cond)
  PROVE  /\ Rules!Test(cond) \in PlainItem
         /\ Rules!Test(cond).how = "test" /\ Rules!Test(cond).cond = cond
BY DEF Rules!Test, PlainItem

LEMMA WaysMeans ==
  ASSUME NEW cond \in Rules!Condition, Positive(cond)
  PROVE  /\ Rules!Ways(cond) \in Seq(Seq(PlainItem))
         /\ \A w \in DOMAIN Rules!Ways(cond) : \A G :
              ItemsHold(Rules!Ways(cond)[w], G) => Satisfied(cond, G)
         /\ \A F, C : Len(cond.lits) <= 2 /\ Satisfied(cond, C)
              => \E w \in DOMAIN Rules!Ways(cond) : ItemsOpen(Rules!Ways(cond)[w], F, C)
<1> DEFINE lits == cond.lits
           rest == [cond EXCEPT !.lits = Tail(@)]
           W == Rules!Ways(cond)
           Goal == /\ W \in Seq(Seq(PlainItem))
                   /\ \A w \in DOMAIN W : \A G : ItemsHold(W[w], G) => Satisfied(cond, G)
                   /\ \A F, C : Len(lits) <= 2 /\ Satisfied(cond, C)
                        => \E w \in DOMAIN W : ItemsOpen(W[w], F, C)
<1> SUFFICES Goal
  BY Zenon
<1>0. /\ cond.op \in {"and", "or"} /\ lits \in Seq(Rules!Literal)
      /\ DOMAIN lits = 1..Len(lits) /\ Len(lits) \in Nat
      /\ \A k \in DOMAIN lits : lits[k] \in Rules!Literal /\ lits[k].sign
  BY DEF Rules!Condition, Positive
<1>1. /\ rest.op = cond.op /\ rest.lits = Tail(lits)
      /\ lits # <<>> => rest \in Rules!Condition
  BY <1>0 DEF Rules!Condition
<1> HIDE DEF lits, rest
<1>2. lits # <<>> => Positive(rest)
  <2> SUFFICES ASSUME lits # <<>>, NEW k \in DOMAIN rest.lits PROVE rest.lits[k].sign
    BY DEF Positive
  <2>1. k + 1 \in DOMAIN lits /\ rest.lits[k] = lits[k + 1]
    BY <1>0, <1>1
  <2> QED BY <1>0, <2>1
<1>3. \A G : Satisfied(cond, G) <=>
             IF cond.op = "and" THEN \A k \in DOMAIN lits : lits[k].fact \in G
                                ELSE \E k \in DOMAIN lits : lits[k].fact \in G
  <2>1. \A G : \A k \in DOMAIN lits : Rules!True(lits[k], G) <=> lits[k].fact \in G
    BY <1>0, Zenon DEF Rules!True
  <2> QED BY <2>1 DEF Satisfied, lits
<1>4. \A G : lits # <<>> => (Satisfied(rest, G) <=>
             IF cond.op = "and" THEN \A k \in 2..Len(lits) : lits[k].fact \in G
                                ELSE \E k \in 2..Len(lits) : lits[k].fact \in G)
  <2> SUFFICES ASSUME NEW G, lits # <<>>
               PROVE  Satisfied(rest, G) <=>
                        IF cond.op = "and" THEN \A k \in 2..Len(lits) : lits[k].fact \in G
                                           ELSE \E k \in 2..Len(lits) : lits[k].fact \in G
    OBVIOUS
  <2> DEFINE tail == rest.lits
  <2>1. \A k \in DOMAIN tail : tail[k].sign
    BY <1>2 DEF Positive
  <2>2. \A k \in DOMAIN tail : Rules!True(tail[k], G) <=> tail[k].fact \in G
    BY <2>1, Zenon DEF Rules!True
  <2>3. DOMAIN tail = 1..(Len(lits) - 1) /\ \A k \in DOMAIN tail : tail[k] = lits[k + 1]
    BY <1>0, <1>1
  <2>4. \A k \in 2..Len(lits) : k - 1 \in DOMAIN tail /\ lits[k] = tail[k - 1]
    BY <1>0, <2>3
  <2>5. \A k \in DOMAIN tail : k + 1 \in 2..Len(lits) /\ tail[k] = lits[k + 1]
    BY <1>0, <2>3
  <2>6. Satisfied(rest, G) <=> IF cond.op = "and" THEN \A k \in DOMAIN tail : tail[k].fact \in G
                                                    ELSE \E k \in DOMAIN tail : tail[k].fact \in G
    BY <1>1, <2>2 DEF Satisfied
  <2> HIDE DEF tail
  <2> QED BY <2>4, <2>5, <2>6
<1>5. CASE lits = <<>>
  <2>1. W = << <<Rules!Test(cond)>> >>
    BY <1>5 DEF Rules!Ways, lits
  <2>2. /\ Rules!Test(cond) \in PlainItem /\ Rules!Test(cond).how = "test"
        /\ Rules!Test(cond).cond = cond
    BY TestMeans
  <2>3. Len(cond.lits) <= 1 /\ \A F, C : Satisfied(cond, C) => Satisfied(cond, F)
    BY <1>3, <1>5 DEF lits
  <2> QED BY <2>1, <2>2, <2>3 DEF ItemsHold, ItemsOpen, ItemOpen
<1>6. ASSUME lits # <<>>
      PROVE  /\ 1 \in DOMAIN lits /\ Rules!Prove(lits[1]) \in PlainItem
             /\ Rules!Prove(lits[1]).how = "prove"
             /\ \A G : Satisfied(Rules!Prove(lits[1]).cond, G) <=> lits[1].fact \in G
  BY <1>0, <1>6, ProveMeans
<1>7. CASE Len(lits) = 1
  <2>1. W = << <<Rules!Prove(lits[1])>> >>
    BY <1>0, <1>7 DEF Rules!Ways, lits
  <2>2. \A G : Satisfied(cond, G) <=> lits[1].fact \in G
    BY <1>0, <1>3, <1>7
  <2>3. lits # <<>>
    BY <1>0, <1>7
  <2> QED BY <1>6, <2>1, <2>2, <2>3 DEF ItemsHold, ItemsOpen, ItemOpen
<1>8. CASE Len(lits) > 1
  <2> DEFINE first == Rules!Prove(lits[1])
             second == Rules!Second(cond)
  <2>1. /\ lits # <<>> /\ first \in PlainItem /\ first.how = "prove"
        /\ \A G : Satisfied(first.cond, G) <=> lits[1].fact \in G
    BY <1>0, <1>6, <1>8
  <2>2. /\ second \in PlainItem
        /\ \A G : Satisfied(second.cond, G) <=> Satisfied(rest, G)
        /\ Len(lits) <= 2 => second.how = "prove"
    <3>1. CASE Len(lits) = 2
      <4>1. second = Rules!Prove(lits[2]) /\ 2 \in DOMAIN lits
        BY <1>0, <3>1 DEF Rules!Second, lits
      <4>2. /\ second \in PlainItem /\ second.how = "prove"
            /\ \A G : Satisfied(second.cond, G) <=> lits[2].fact \in G
        BY <1>0, <4>1, ProveMeans
      <4>3. 2..Len(lits) = {2}
        BY <3>1
      <4>4. \A G : Satisfied(rest, G) <=> lits[2].fact \in G
        BY <1>4, <2>1, <4>3
      <4> QED BY <4>2, <4>4
    <3>2. CASE Len(lits) # 2
      <4>1. second = Rules!Test(rest)
        BY <3>2 DEF Rules!Second, rest, lits
      <4> QED BY <1>0, <1>1, <1>2, <1>8, <2>1, <3>2, <4>1, TestMeans
    <3> QED BY <3>1, <3>2
  <2>3. DOMAIN lits = {1} \cup 2..Len(lits)
    BY <1>0, <1>8
  <2>4. \A G : Satisfied(cond, G) <=>
                IF cond.op = "and" THEN Satisfied(first.cond, G) /\ Satisfied(second.cond, G)
                                   ELSE Satisfied(first.cond, G) \/ Satisfied(second.cond, G)
    <3> SUFFICES ASSUME NEW G
                 PROVE  Satisfied(cond, G) <=>
                          IF cond.op = "and" THEN Satisfied(first.cond, G) /\ Satisfied(second.cond, G)
                                             ELSE Satisfied(first.cond, G) \/ Satisfied(second.cond, G)
      OBVIOUS
    <3>1. Satisfied(second.cond, G) <=>
             IF cond.op = "and" THEN \A k \in 2..Len(lits) : lits[k].fact \in G
                                ELSE \E k \in 2..Len(lits) : lits[k].fact \in G
      BY <1>4, <2>1, <2>2
    <3>2. Satisfied(first.cond, G) <=> lits[1].fact \in G
      BY <2>1
    <3> HIDE DEF first, second
    <3> QED BY <1>3, <2>3, <3>1, <3>2
  <2>5. W = IF cond.op = "and" THEN << <<first, second>> >> ELSE << <<first>>, <<second>> >>
    <3>1. cond.lits # <<>> /\ Len(cond.lits) # 1 /\ Len(cond.lits) > 1
      BY <1>0, <1>8, <2>1 DEF lits
    <3>2. CASE cond.op = "and"
      BY <3>1, <3>2 DEF Rules!Ways, lits
    <3>3. CASE cond.op = "or"
      BY <3>1, <3>3 DEF Rules!Ways, lits
    <3> QED BY <1>0, <3>2, <3>3
  <2> HIDE DEF first, second, W
  <2>6. CASE cond.op = "and"
    <3>1. W = << <<first, second>> >>
      BY <2>5, <2>6
    <3>2. W \in Seq(Seq(PlainItem))
      BY <2>1, <2>2, <3>1
    <3>3. DOMAIN W = {1} /\ W[1] = <<first, second>>
      BY <3>1
    <3>4. DOMAIN W[1] = {1, 2} /\ W[1][1] = first /\ W[1][2] = second
      BY <3>3
    <3>5. \A G : ItemsHold(W[1], G) => Satisfied(cond, G)
      BY <2>4, <2>6, <3>4 DEF ItemsHold
    <3>6. \A F, C : Len(lits) <= 2 /\ Satisfied(cond, C) => ItemsOpen(W[1], F, C)
      BY <2>1, <2>2, <2>4, <2>6, <3>4 DEF ItemsOpen, ItemOpen
    <3> QED BY <3>2, <3>3, <3>5, <3>6
  <2>7. CASE cond.op = "or"
    <3>1. W = << <<first>>, <<second>> >>
      BY <2>5, <2>7
    <3>2. W \in Seq(Seq(PlainItem)) /\ DOMAIN W = {1, 2} /\ W[1] = <<first>> /\ W[2] = <<second>>
      BY <2>1, <2>2, <3>1
    <3>3. /\ DOMAIN W[1] = {1} /\ W[1][1] = first
          /\ DOMAIN W[2] = {1} /\ W[2][1] = second
      BY <3>2
    <3>4. \A G : ItemsHold(W[1], G) \/ ItemsHold(W[2], G) => Satisfied(cond, G)
      BY <2>4, <2>7, <3>3 DEF ItemsHold
    <3>5. \A F, C : Len(lits) <= 2 /\ Satisfied(cond, C) => ItemsOpen(W[1], F, C) \/ ItemsOpen(W[2], F, C)
      BY <2>1, <2>2, <2>4, <2>7, <3>3 DEF ItemsOpen, ItemOpen
    <3> QED BY <3>2, <3>4, <3>5
  <2> QED BY <1>0, <2>6, <2>7
<1>9. Len(lits) = 0 => lits = <<>>
  BY <1>0
<1> QED BY <1>0, <1>5, <1>7, <1>8, <1>9

\* Every rule has its place in the order in which they are picked.
LEMMA PickOrderMeans ==
  ASSUME base \in Seq(Rules!Rule)
  PROVE  /\ DOMAIN Rules!PickOrder = DOMAIN base
         /\ \A k \in DOMAIN base : Rules!PickOrder[k] \in DOMAIN base
         /\ \A i \in DOMAIN base : \E k \in DOMAIN base : Rules!PickOrder[k] = i
<1> DEFINE D == DOMAIN base
           N == Len(base)
           before(i) == {j \in D : Rules!PickedBefore(j, i)}
           place(i) == Cardinality(before(i)) + 1
           order == Rules!PickOrder
<1>0. D = 1..N /\ N \in Nat /\ IsFiniteSet(D) /\ Cardinality(D) = N
  <2>1. D = 1..N /\ N \in Nat
    OBVIOUS
  <2>2. IsFiniteSet(1..N) /\ Cardinality(1..N) = IF 1 > N THEN 0 ELSE N - 1 + 1
    BY <2>1, FS_Interval
  <2> QED BY <2>1, <2>2
<1>1. order = [k \in D |-> CHOOSE i \in D : Cardinality(before(i)) = k - 1]
  <2>1. order = [k \in D |-> CHOOSE i \in D : Rules!Cardinality(before(i)) = k - 1]
    BY DEF Rules!PickOrder
  <2>2. \A i : Rules!Cardinality(before(i)) = Cardinality(before(i))
    BY SameCardinality
  <2> HIDE DEF before, D, order
  <2> QED BY <2>1, <2>2
<1>2. \A i \in D : Rules!Shape(base[i]) \in Int
  BY DEF Rules!Shape
<1>3. /\ \A i \in D : ~Rules!PickedBefore(i, i)
      /\ \A i, j \in D : i = j \/ Rules!PickedBefore(i, j) \/ Rules!PickedBefore(j, i)
      /\ \A i, j, k \in D : Rules!PickedBefore(i, j) /\ Rules!PickedBefore(j, k)
                             => Rules!PickedBefore(i, k)
  BY <1>0, <1>2 DEF Rules!PickedBefore
<1> HIDE DEF D, N, order
<1>4. \A i \in D : IsFiniteSet(before(i)) /\ Cardinality(before(i)) \in Nat
  <2>1. \A i \in D : before(i) \in SUBSET D
    OBVIOUS
  <2> QED BY <1>0, <2>1, FS_Subset, FS_CardinalityType
<1>5. ASSUME NEW i \in D, NEW j \in D, Rules!PickedBefore(i, j)
      PROVE  Cardinality(before(i)) < Cardinality(before(j))
  <2>1. before(i) \in SUBSET before(j) /\ i \in before(j) /\ i \notin before(i)
    BY <1>3, <1>5
  <2> QED BY <1>4, <2>1, FS_Subset
<1>6. \A i \in D : Cardinality(before(i)) < N
  <2> SUFFICES ASSUME NEW i \in D PROVE Cardinality(before(i)) < N
    OBVIOUS
  <2>1. before(i) \in SUBSET D /\ i \in D /\ i \notin before(i)
    BY <1>3
  <2> HIDE DEF before
  <2>2. before(i) # D
    BY <2>1
  <2>3. Cardinality(before(i)) <= N /\ Cardinality(before(i)) # N
    BY <1>0, <2>1, <2>2, FS_Subset
  <2> QED BY <1>0, <1>4, <2>3
<1> HIDE DEF before
<1>7. /\ \A i \in D : place(i) \in D
      /\ \A i, j \in D : place(i) = place(j) => i = j
      /\ \A k, i \in D : place(i) = k <=> Cardinality(before(i)) = k - 1
  <2>1. \A i, j \in D : Cardinality(before(i)) = Cardinality(before(j)) => i = j
    BY <1>3, <1>4, <1>5
  <2> QED BY <1>0, <1>4, <1>6, <2>1
<1> HIDE DEF place
<1>8. ASSUME NEW k \in D PROVE \E i \in D : place(i) = k
  <2> DEFINE f == [i \in D |-> place(i)]
  <2>1. f \in [D -> D] /\ \A i, j \in D : f[i] = f[j] => i = j
    BY <1>7
  <2>2. f \in Injection(D, D)
    BY <2>1 DEF Injection, IsInjective
  <2>3. f \in Surjection(D, D)
    BY <1>0, <2>2, FS_Injection
  <2>4. \E i \in D : f[i] = k
    BY <2>3 DEF Surjection
  <2> QED BY <2>4
<1>10. \A k \in D : order[k] \in D /\ place(order[k]) = k
  <2> SUFFICES ASSUME NEW k \in D PROVE order[k] \in D /\ place(order[k]) = k
    OBVIOUS
  <2>1. \E i \in D : Cardinality(before(i)) = k - 1
    BY <1>7, <1>8
  <2>2. order[k] = CHOOSE i \in D : Cardinality(before(i)) = k - 1
    BY <1>1
  <2>3. order[k] \in D /\ Cardinality(before(order[k])) = k - 1
    BY <2>1, <2>2
  <2> QED BY <1>7, <2>3
<1>11. \A i \in D : order[place(i)] = i
  BY <1>7, <1>10
<1> QED BY <1>1, <1>7, <1>10, <1>11 DEF D, order

\* An alternative for f tests f, or names the rule that concludes f and whose
\* condition it proves.
Leads(alt, f) ==
  \/ alt.why = <<>> /\ \A G : ItemsHold(alt.items, G) => f \in G
  \/ \E e \in Explained :
       /\ alt.why = <<e>> /\ e.goal = f
       /\ \A G : ItemsHold(alt.items, G) => Satisfied(base[e.rule].if, G)

LEMMA WaysOfRuleMeans ==
  ASSUME base \in Seq(Rules!Rule), Monotone, NEW i \in DOMAIN base, NEW f \in Fact
  PROVE  /\ Rules!WaysOfRule(i, f) \in Seq(PlainAlternative)
         /\ \A a \in ToSet(Rules!WaysOfRule(i, f)) : Leads(a, f)
         /\ \A F, C : /\ AtMostTwo /\ Satisfied(base[i].if, C)
                       /\ \E c \in ToSet(base[i].do) : c.fact = f
              => \E a \in ToSet(Rules!WaysOfRule(i, f)) : ItemsOpen(a.items, F, C)
<1> DEFINE r == base[i]
           W == Rules!WaysOfRule(i, f)
           By(ways, b) == [k \in DOMAIN ways |->
                             Rules!Alternative(ways[k], <<[rule |-> i, branch |-> b, goal |-> f]>>)]
<1>1. /\ r.elseif = Rules!Never /\ r.elseDo = <<>> /\ Positive(r.if)
      /\ \A c \in Conclusions(r) : c.do = "assert_rtx"
  BY DEF Monotone, Positive
<1>2. r.if \in Rules!Condition /\ r.elseif \in Rules!Condition /\ r.do \in Seq(Rules!Conclusion)
  BY RuleFields
<1>3. ASSUME NEW cond \in Rules!Condition, Positive(cond), NEW b \in BranchName,
             \A G : Satisfied(cond, G) => Satisfied(r.if, G)
      PROVE  /\ By(Rules!Ways(cond), b) \in Seq(PlainAlternative)
             /\ \A a \in ToSet(By(Rules!Ways(cond), b)) : Leads(a, f)
             /\ \A F, C : Len(cond.lits) <= 2 /\ Satisfied(cond, C)
                  => \E a \in ToSet(By(Rules!Ways(cond), b)) : ItemsOpen(a.items, F, C)
  <2> DEFINE ways == Rules!Ways(cond)
             e == [rule |-> i, branch |-> b, goal |-> f]
             B == [k \in DOMAIN ways |-> [items |-> ways[k], why |-> <<e>>]]
  <2>1. By(ways, b) = B
    BY DEF Rules!Alternative
  <2>2. /\ ways \in Seq(Seq(PlainItem))
        /\ \A w \in DOMAIN ways : \A G : ItemsHold(ways[w], G) => Satisfied(r.if, G)
        /\ \A F, C : Len(cond.lits) <= 2 /\ Satisfied(cond, C)
             => \E w \in DOMAIN ways : ItemsOpen(ways[w], F, C)
    BY <1>3, WaysMeans
  <2>3. e \in Explained /\ e.goal = f /\ e.rule = i
    BY DEF Explained
  <2> HIDE DEF ways, e, r, By
  <2>4. /\ DOMAIN B = DOMAIN ways
        /\ \A k \in DOMAIN B : B[k].items = ways[k] /\ B[k].why = <<e>>
    OBVIOUS
  <2>5. \A k \in DOMAIN ways : [items |-> ways[k], why |-> <<e>>] \in PlainAlternative
    <3>1. <<e>> \in Seq(Explained) /\ \A k \in DOMAIN ways : ways[k] \in Seq(PlainItem)
      BY <2>2, <2>3
    <3> HIDE DEF ways, e
    <3> QED BY <3>1 DEF PlainAlternative
  <2>6. B \in Seq(PlainAlternative)
    <3>1. DOMAIN ways = 1..Len(ways) /\ Len(ways) \in Nat
      BY <2>2
    <3>2. B \in [1..Len(ways) -> PlainAlternative]
      BY <2>5, <3>1
    <3> HIDE DEF B
    <3> QED BY <3>1, <3>2
  <2> HIDE DEF B
  <2>7. \A k \in DOMAIN B : Leads(B[k], f)
    BY <2>2, <2>3, <2>4 DEF Leads, r
  <2>8. ToSet(B) = {B[k] : k \in DOMAIN B}
    BY DEF ToSet
  <2>9. \A F, C : Len(cond.lits) <= 2 /\ Satisfied(cond, C)
             => \E a \in ToSet(B) : ItemsOpen(a.items, F, C)
    BY <2>2, <2>4, <2>8
  <2> QED BY <2>1, <2>6, <2>7, <2>8, <2>9 DEF ways
<1>4. ~Rules!Concludes(r.elseDo, f)
  BY <1>1 DEF Rules!Concludes
<1>5. CASE Rules!Concludes(r.do, f)
  <2>1. W = By(Rules!Ways(r.if), "if")
    BY <1>5 DEF Rules!WaysOfRule
  <2>2. AtMostTwo => Len(r.if.lits) <= 2
    BY DEF AtMostTwo
  <2> HIDE DEF W, By, r
  <2>3. /\ W \in Seq(PlainAlternative) /\ \A a \in ToSet(W) : Leads(a, f)
        /\ \A F, C : Len(r.if.lits) <= 2 /\ Satisfied(r.if, C)
             => \E a \in ToSet(W) : ItemsOpen(a.items, F, C)
    BY <1>1, <1>2, <1>3, <2>1 DEF BranchName
  <2> QED BY <2>2, <2>3 DEF W, r
<1>6. ASSUME ~Rules!Concludes(r.do, f), NEW c \in ToSet(r.do), c.fact = f PROVE FALSE
  <2>1. PICK k \in DOMAIN r.do : c = r.do[k]
    BY DEF ToSet
  <2>2. c.do = "assert_rtx"
    BY <1>1 DEF Conclusions
  <2> QED BY <1>6, <2>1, <2>2 DEF Rules!Concludes
<1>7. CASE ~Rules!Concludes(r.do, f) /\ Rules!Concludes(r.elseifDo, f)
  <2>1. W = By(Rules!Ways(r.elseif), "elseif")
    BY <1>7 DEF Rules!WaysOfRule
  <2>2. Positive(r.elseif) /\ \A G : ~Satisfied(r.elseif, G)
    BY <1>1 DEF Rules!Never, Satisfied, Positive
  <2> HIDE DEF W, By, r
  <2>3. W \in Seq(PlainAlternative) /\ \A a \in ToSet(W) : Leads(a, f)
    BY <1>2, <1>3, <2>1, <2>2 DEF BranchName
  <2> QED BY <1>6, <1>7, <2>3 DEF W, r
<1>8. CASE ~Rules!Concludes(r.do, f) /\ ~Rules!Concludes(r.elseifDo, f)
  <2>1. W = <<>>
    BY <1>4, <1>8 DEF Rules!WaysOfRule
  <2>2. ToSet(<<>>) = {} /\ <<>> \in Seq(PlainAlternative)
    BY DEF ToSet
  <2> HIDE DEF W
  <2>3. W \in Seq(PlainAlternative) /\ \A a \in ToSet(W) : Leads(a, f)
    BY <2>1, <2>2
  <2> QED BY <1>6, <1>8, <2>3 DEF W
<1> QED BY <1>5, <1>7, <1>8

\* What follows has been given, or a rule concludes it from what follows.
LEMMA ClosureFrom ==
  ASSUME base \in Seq(Rules!Rule), Monotone, NEW F \in SUBSET Fact, NEW f \in Closure(F), f \notin F
  PROVE  \E i \in DOMAIN base : /\ Satisfied(base[i].if, Closure(F))
                                /\ \E c \in ToSet(base[i].do) : c.fact = f
<1> DEFINE C == Closure(F)
           G == F \cup {g \in C : \E i \in DOMAIN base : /\ Satisfied(base[i].if, C)
                                                        /\ \E c \in ToSet(base[i].do) : c.fact = g}
<1>1. /\ F \subseteq C /\ C \subseteq Fact /\ Consequences(C) = C
      /\ Consequences(G) \subseteq G => C \subseteq G
  BY ClosureMeans
<1> HIDE DEF C
<1>2. G \subseteq C
  BY <1>1
<1>3. ASSUME NEW i \in DOMAIN base, Satisfied(base[i].if, G), NEW c \in ToSet(base[i].do)
      PROVE  c.fact \in G
  <2>1. Satisfied(base[i].if, C)
    BY <1>2, <1>3, HoldsMonotone DEF Monotone, Positive
  <2>2. c.fact \in Consequences(C)
    BY <2>1 DEF Consequences
  <2> QED BY <1>1, <2>1, <2>2
<1>4. Consequences(G) \subseteq G
  <2> HIDE DEF G
  <2> QED BY <1>3 DEF Consequences
<1>5. f \in G
  BY <1>1, <1>4 DEF C
<1> QED BY <1>5 DEF C

LEMMA WaysToMeans ==
  ASSUME base \in Seq(Rules!Rule), Monotone, NEW f \in Fact
  PROVE  /\ Rules!WaysTo(f) \in Seq(PlainAlternative)
         /\ \A k \in DOMAIN Rules!WaysTo(f) : Leads(Rules!WaysTo(f)[k], f)
         /\ \A F \in SUBSET Fact : AtMostTwo /\ f \in Closure(F)
              => \E k \in DOMAIN Rules!WaysTo(f) : ItemsOpen(Rules!WaysTo(f)[k].items, F, Closure(F))
<1> DEFINE byRule == [k \in DOMAIN base |-> Rules!WaysOfRule(Rules!PickOrder[k], f)]
           cond == [op |-> "and", lits |-> <<[fact |-> f, sign |-> TRUE]>>]
           test == Rules!Alternative(<<Rules!Test(cond)>>, <<>>)
           rules == FlattenSeq(byRule)
<1>1. Rules!WaysTo(f) = rules \o <<test>>
  BY SameFlatten DEF Rules!WaysTo
<1>2. DOMAIN base = 1..Len(base) /\ Len(base) \in Nat
  OBVIOUS
<1>3. \A k \in DOMAIN base : byRule[k] \in Seq(PlainAlternative) /\ \A a \in ToSet(byRule[k]) : Leads(a, f)
  BY PickOrderMeans, WaysOfRuleMeans
<1>4. byRule \in Seq(Seq(PlainAlternative)) /\ DOMAIN byRule = DOMAIN base
  <2>1. byRule \in [1..Len(base) -> Seq(PlainAlternative)]
    BY <1>2, <1>3
  <2> HIDE DEF byRule
  <2> QED BY <1>2, <2>1
<1>5. ASSUME NEW F, NEW C, AtMostTwo,
             \E i \in DOMAIN base : /\ Satisfied(base[i].if, C)
                                   /\ \E c \in ToSet(base[i].do) : c.fact = f
      PROVE  \E k \in DOMAIN base : \E a \in ToSet(byRule[k]) : ItemsOpen(a.items, F, C)
  <2>1. PICK i \in DOMAIN base : /\ Satisfied(base[i].if, C)
                                /\ \E c \in ToSet(base[i].do) : c.fact = f
    BY <1>5
  <2>2. PICK k \in DOMAIN base : Rules!PickOrder[k] = i
    BY PickOrderMeans
  <2>3. \E a \in ToSet(Rules!WaysOfRule(i, f)) : ItemsOpen(a.items, F, C)
    BY <1>5, <2>1, WaysOfRuleMeans
  <2> QED BY <2>2, <2>3
<1>6. /\ test \in PlainAlternative /\ test.why = <<>>
      /\ \A G : ItemsHold(test.items, G) <=> f \in G
      /\ \A F, C : f \in F => ItemsOpen(test.items, F, C)
  <2>1. /\ DOMAIN cond.lits = {1} /\ cond.op = "and" /\ cond.lits[1].sign /\ cond.lits[1].fact = f
        /\ cond \in Rules!Condition
    BY DEF Rules!Condition, Rules!Literal
  <2>2. Positive(cond) /\ Len(cond.lits) = 1 /\ \A G : Satisfied(cond, G) <=> f \in G
    <3>1. \A G : Rules!True(cond.lits[1], G) <=> f \in G
      BY <2>1, Zenon DEF Rules!True
    <3> QED BY <2>1, <3>1 DEF Positive, Satisfied
  <2> HIDE DEF cond
  <2>3. /\ Rules!Test(cond) \in PlainItem /\ Rules!Test(cond).how = "test"
        /\ Rules!Test(cond).cond = cond
    BY <2>1, <2>2, TestMeans
  <2>4. test.items = <<Rules!Test(cond)>> /\ test.why = <<>> /\ test = [items |-> test.items, why |-> test.why]
    BY DEF Rules!Alternative
  <2> DEFINE t == Rules!Test(cond)
  <2> HIDE DEF t, test
  <2>a. test.items = <<t>> /\ t \in PlainItem
    BY <2>3, <2>4 DEF t
  <2>5. test.items \in Seq(PlainItem) /\ test.why \in Seq(Explained)
    BY <2>4, <2>a
  <2>6. test \in PlainAlternative
    BY <2>4, <2>5 DEF PlainAlternative
  <2>7. DOMAIN test.items = {1} /\ test.items[1] = t
    BY <2>a
  <2>8. t.how = "test" /\ t.cond = cond
    BY <2>3 DEF t
  <2>9. ASSUME NEW F, NEW C, f \in F PROVE ItemOpen(t, F, C)
    <3>1. Satisfied(t.cond, F) /\ t.how # "prove"
      BY <2>2, <2>8, <2>9
    <3>2. Len(t.cond.lits) = 1
      BY <2>2, <2>8, Zenon
    <3>3. Len(t.cond.lits) <= 1
      BY <3>2
    <3> QED BY <3>1, <3>3, Zenon DEF ItemOpen
  <2>10. \A F, C : f \in F => ItemsOpen(test.items, F, C)
    BY <2>7, <2>9 DEF ItemsOpen
  <2>11. \A G : ItemsHold(test.items, G) <=> f \in G
    BY <2>2, <2>7, <2>8 DEF ItemsHold
  <2> QED BY <2>4, <2>6, <2>10, <2>11
<1> HIDE DEF byRule, test
<1>7. /\ rules \in Seq(PlainAlternative)
      /\ ToSet(rules) = UNION {ToSet(byRule[k]) : k \in DOMAIN byRule}
  BY <1>4, FlattenMeans
<1> HIDE DEF rules
<1>8. /\ Rules!WaysTo(f) \in Seq(PlainAlternative)
      /\ ToSet(Rules!WaysTo(f)) = ToSet(rules) \cup {test}
  <2> DEFINE last == <<test>>
  <2>1. last \in Seq(PlainAlternative) /\ ToSet(last) = {test}
    BY <1>6 DEF ToSet
  <2> HIDE DEF last
  <2>2. /\ rules \o last \in Seq(PlainAlternative)
        /\ ToSet(rules \o last) = ToSet(rules) \cup ToSet(last)
    BY <1>7, <2>1, ConcatMeans
  <2> QED BY <1>1, <2>1, <2>2 DEF last
<1>9. ToSet(Rules!WaysTo(f)) = {Rules!WaysTo(f)[k] : k \in DOMAIN Rules!WaysTo(f)}
  BY DEF ToSet
<1>10. \A a \in ToSet(Rules!WaysTo(f)) : Leads(a, f)
  <2>1. Leads(test, f)
    BY <1>6 DEF Leads
  <2> QED BY <1>3, <1>4, <1>7, <1>8, <2>1
<1>11. ASSUME NEW F \in SUBSET Fact, AtMostTwo, f \in Closure(F)
       PROVE  \E a \in ToSet(Rules!WaysTo(f)) : ItemsOpen(a.items, F, Closure(F))
  <2>1. CASE f \in F
    BY <1>6, <1>8, <2>1
  <2>2. CASE f \notin F
    <3>1. \E i \in DOMAIN base : /\ Satisfied(base[i].if, Closure(F))
                                 /\ \E c \in ToSet(base[i].do) : c.fact = f
      BY <1>11, <2>2, ClosureFrom
    <3>2. \E k \in DOMAIN base : \E a \in ToSet(byRule[k]) : ItemsOpen(a.items, F, Closure(F))
      BY <1>5, <1>11, <3>1
    <3> QED BY <1>4, <1>7, <1>8, <3>2
  <2> QED BY <2>1, <2>2
<1>12. \A k \in DOMAIN Rules!WaysTo(f) : Leads(Rules!WaysTo(f)[k], f)
  BY <1>9, <1>10
<1> QED BY <1>8, <1>9, <1>11, <1>12
-------------------------------------------------------------------------------
(* Backward chaining: the alternatives on the agenda.                          *)

LEMMA ItemsOfConcat ==
  ASSUME NEW s \in Seq(PlainItem), NEW t \in Seq(PlainItem)
  PROVE  /\ \A G : ItemsHold(s \o t, G) <=> ItemsHold(s, G) /\ ItemsHold(t, G)
         /\ \A F, C : ItemsOpen(s \o t, F, C) <=> ItemsOpen(s, F, C) /\ ItemsOpen(t, F, C)
<1>1. \A u, G : ItemsHold(u, G) <=> \A x \in ToSet(u) : Satisfied(x.cond, G)
  BY DEF ItemsHold, ToSet
<1>2. \A u, F, C : ItemsOpen(u, F, C) <=> \A x \in ToSet(u) : ItemOpen(x, F, C)
  BY DEF ItemsOpen, ToSet
<1>3. ToSet(s \o t) = ToSet(s) \cup ToSet(t)
  BY ConcatMeans
<1> QED BY <1>1, <1>2, <1>3

LEMMA ItemsOfTail ==
  ASSUME NEW s \in Seq(PlainItem), s # <<>>
  PROVE  /\ \A G : ItemsHold(s, G) <=> Satisfied(Head(s).cond, G) /\ ItemsHold(Tail(s), G)
         /\ \A F, C : ItemsOpen(s, F, C) <=> ItemOpen(Head(s), F, C) /\ ItemsOpen(Tail(s), F, C)
<1>1. \A u, G : ItemsHold(u, G) <=> \A x \in ToSet(u) : Satisfied(x.cond, G)
  BY DEF ItemsHold, ToSet
<1>2. \A u, F, C : ItemsOpen(u, F, C) <=> \A x \in ToSet(u) : ItemOpen(x, F, C)
  BY DEF ItemsOpen, ToSet
<1>3. ToSet(s) = {Head(s)} \cup ToSet(Tail(s))
  BY HeadTailMeans
<1> QED BY <1>1, <1>2, <1>3

\* The goals of the first k rules of an explanation.
Concluded(why, k) == {why[j].goal : j \in 1..k}

\* Wherever what is left of an alternative holds, its rules can fire, each with
\* what those before it conclude, and the last reaches the goal.
Sound(alt, F, goal) ==
  \A G \in SUBSET Fact : F \subseteq G /\ ItemsHold(alt.items, G) =>
    /\ \A k \in DOMAIN alt.why :
         Concluded(alt.why, k - 1) \subseteq G => Satisfied(base[alt.why[k].rule].if, G)
    /\ Concluded(alt.why, Len(alt.why)) \subseteq G => goal \in G

\* To expand the first item of an alternative is sound.
LEMMA ExpandSound ==
  ASSUME NEW F, NEW goal, NEW alt \in PlainAlternative, Sound(alt, F, goal),
         NEW f, alt.items # <<>>, \A G : Satisfied(Head(alt.items).cond, G) <=> f \in G,
         NEW way \in PlainAlternative, Leads(way, f)
  PROVE  /\ Rules!Alternative(way.items \o Tail(alt.items), way.why \o alt.why) \in PlainAlternative
         /\ Sound(Rules!Alternative(way.items \o Tail(alt.items), way.why \o alt.why), F, goal)
<1> DEFINE items == way.items \o Tail(alt.items)
           why == way.why \o alt.why
           new == Rules!Alternative(items, why)
<1>1. /\ new.items = items /\ new.why = why /\ new = [items |-> items, why |-> why]
  BY DEF Rules!Alternative
<1>2. /\ alt.items \in Seq(PlainItem) /\ alt.why \in Seq(Explained)
      /\ way.items \in Seq(PlainItem) /\ way.why \in Seq(Explained)
      /\ Tail(alt.items) \in Seq(PlainItem)
  BY DEF PlainAlternative
<1>3. items \in Seq(PlainItem) /\ why \in Seq(Explained)
  BY <1>2
<1>4. new \in PlainAlternative
  BY <1>1, <1>3 DEF PlainAlternative
<1>5. \A G : ItemsHold(items, G) <=> ItemsHold(way.items, G) /\ ItemsHold(Tail(alt.items), G)
  BY <1>2, ItemsOfConcat
<1>6. \A G : ItemsHold(alt.items, G) <=> f \in G /\ ItemsHold(Tail(alt.items), G)
  BY <1>2, ItemsOfTail
<1> HIDE DEF items, new
<1>7. ASSUME NEW G \in SUBSET Fact, F \subseteq G, ItemsHold(items, G)
      PROVE  /\ \A k \in DOMAIN why :
                  Concluded(why, k - 1) \subseteq G => Satisfied(base[why[k].rule].if, G)
             /\ Concluded(why, Len(why)) \subseteq G => goal \in G
  <2>1. f \in G => /\ \A k \in DOMAIN alt.why :
                       Concluded(alt.why, k - 1) \subseteq G => Satisfied(base[alt.why[k].rule].if, G)
                   /\ Concluded(alt.why, Len(alt.why)) \subseteq G => goal \in G
    BY <1>5, <1>6, <1>7 DEF Sound
  <2>2. CASE way.why = <<>> /\ \A H : ItemsHold(way.items, H) => f \in H
    <3>1. why = alt.why /\ f \in G
      BY <1>2, <1>5, <1>7, <2>2
    <3> HIDE DEF why
    <3> QED BY <2>1, <3>1
  <2>3. ASSUME NEW e \in Explained, way.why = <<e>>, e.goal = f,
               \A H : ItemsHold(way.items, H) => Satisfied(base[e.rule].if, H)
        PROVE  /\ \A k \in DOMAIN why :
                    Concluded(why, k - 1) \subseteq G => Satisfied(base[why[k].rule].if, G)
               /\ Concluded(why, Len(why)) \subseteq G => goal \in G
    <3>1. Satisfied(base[e.rule].if, G)
      BY <1>5, <1>7, <2>3
    <3>2. /\ why = <<e>> \o alt.why /\ DOMAIN alt.why = 1..Len(alt.why) /\ Len(alt.why) \in Nat
          /\ Len(why) = Len(alt.why) + 1 /\ DOMAIN why = 1..Len(why)
          /\ why[1] = e /\ \A k \in DOMAIN alt.why : why[k + 1] = alt.why[k]
      BY <1>2, <2>3
    <3> HIDE DEF why
    <3>3. ASSUME NEW k \in 1..Len(alt.why) + 1, Concluded(why, k) \subseteq G
          PROVE  f \in G /\ Concluded(alt.why, k - 1) \subseteq G
      <4>1. why[1].goal \in Concluded(why, k)
        BY DEF Concluded
      <4>2. ASSUME NEW j \in 1..(k - 1) PROVE alt.why[j].goal \in Concluded(why, k)
        <5>1. j + 1 \in 1..k /\ why[j + 1] = alt.why[j]
          BY <3>2
        <5> QED BY <5>1 DEF Concluded
      <4> QED BY <2>3, <3>2, <3>3, <4>1, <4>2 DEF Concluded
    <3>4. ASSUME NEW k \in DOMAIN why, Concluded(why, k - 1) \subseteq G
          PROVE  Satisfied(base[why[k].rule].if, G)
      <4>1. CASE k = 1
        BY <3>1, <3>2, <4>1
      <4>2. CASE k # 1
        <5>1. k - 1 \in DOMAIN alt.why /\ k - 1 \in 1..Len(alt.why) + 1 /\ why[k] = alt.why[k - 1]
          BY <3>2, <4>2
        <5>2. f \in G /\ Concluded(alt.why, (k - 1) - 1) \subseteq G
          BY <3>3, <3>4, <5>1
        <5> QED BY <2>1, <5>1, <5>2
      <4> QED BY <4>1, <4>2
    <3>5. ASSUME Concluded(why, Len(why)) \subseteq G PROVE goal \in G
      <4>1. f \in G /\ Concluded(alt.why, Len(why) - 1) \subseteq G
        BY <3>2, <3>3, <3>5
      <4>2. Len(why) - 1 = Len(alt.why)
        BY <3>2
      <4> QED BY <2>1, <4>1, <4>2
    <3> QED BY <3>4, <3>5
  <2> QED BY <2>2, <2>3 DEF Leads
<1>8. Sound(new, F, goal)
  BY <1>1, <1>7 DEF Sound
<1> QED BY <1>4, <1>8 DEF new, items

\* Every alternative on the agenda is sound; and if the goal follows from F, one
\* of them has nothing left but what follows, and tests that F passes.
Agenda(ag, F, goal) ==
  /\ ag \in Seq(PlainAlternative)
  /\ \A a \in ToSet(ag) : Sound(a, F, goal)
  /\ AtMostTwo /\ goal \in Closure(F) => \E a \in ToSet(ag) : ItemsOpen(a.items, F, Closure(F))

\* The first alternative and its first item.
First(ag, alt, item) == /\ ag # <<>> /\ alt = Head(ag)
                        /\ alt.items # <<>> /\ item = Head(alt.items)

LEMMA FirstMeans ==
  ASSUME NEW ag \in Seq(PlainAlternative), NEW alt, NEW item, First(ag, alt, item)
  PROVE  /\ alt \in PlainAlternative /\ alt.items \in Seq(PlainItem) /\ alt.why \in Seq(Explained)
         /\ item \in PlainItem /\ Tail(alt.items) \in Seq(PlainItem)
         /\ alt.items # <<>> /\ item = Head(alt.items)
         /\ ToSet(ag) = {alt} \cup ToSet(Tail(ag)) /\ Tail(ag) \in Seq(PlainAlternative)
<1>1. /\ alt \in PlainAlternative
      /\ ToSet(ag) = {alt} \cup ToSet(Tail(ag)) /\ Tail(ag) \in Seq(PlainAlternative)
  BY HeadTailMeans DEF First
<1>2. alt.items \in Seq(PlainItem) /\ alt.why \in Seq(Explained)
  BY <1>1 DEF PlainAlternative
<1>3. alt.items # <<>> /\ item = Head(alt.items)
  BY DEF First
<1> QED BY <1>1, <1>2, <1>3, HeadTailMeans

\* A goal to prove is one fact of the database or to be concluded.
LEMMA ProveItem ==
  ASSUME NEW item \in PlainItem
  PROVE  item.how = "prove" =>
           /\ item.cond.lits[1].fact \in Fact /\ item.cond.lits[1].sign
           /\ \A G : Satisfied(item.cond, G) <=> item.cond.lits[1].fact \in G
<1> SUFFICES ASSUME item.how = "prove"
             PROVE  /\ item.cond.lits[1].fact \in Fact /\ item.cond.lits[1].sign
                    /\ \A G : Satisfied(item.cond, G) <=> item.cond.lits[1].fact \in G
  OBVIOUS
<1>1. /\ item.cond \in Rules!Condition /\ Positive(item.cond)
      /\ item.cond.op = "and" /\ Len(item.cond.lits) = 1
  BY DEF PlainItem
<1> DEFINE lits == item.cond.lits
<1>2. lits \in Seq(Rules!Literal)
  BY <1>1 DEF Rules!Condition
<1> HIDE DEF lits
<1>3. DOMAIN lits = {1} /\ lits[1] \in Rules!Literal
  BY <1>1, <1>2 DEF lits
<1>4. lits[1].sign /\ lits[1].fact \in Fact
  BY <1>1, <1>3 DEF Positive, lits, Rules!Literal
<1>5. \A G : Rules!True(lits[1], G) <=> lits[1].fact \in G
  BY <1>4, Zenon DEF Rules!True
<1> QED BY <1>1, <1>3, <1>4, <1>5 DEF Satisfied, lits

LEMMA AgendaExpand ==
  ASSUME base \in Seq(Rules!Rule), Monotone, NEW F \in SUBSET Fact, NEW goal,
         NEW ag, Agenda(ag, F, goal), NEW alt, NEW item, First(ag, alt, item), item.how = "prove",
         NEW f, f = item.cond.lits[1].fact, NEW ways, ways = Rules!WaysTo(f)
  PROVE  Agenda([k \in DOMAIN ways |->
                   Rules!Alternative(ways[k].items \o Tail(alt.items), ways[k].why \o alt.why)]
                \o Tail(ag), F, goal)
<1> DEFINE Alt(way) == Rules!Alternative(way.items \o Tail(alt.items), way.why \o alt.why)
           new == [k \in DOMAIN ways |-> Alt(ways[k])]
<1>0. ag \in Seq(PlainAlternative)
  BY DEF Agenda
<1>1. /\ alt \in PlainAlternative /\ alt.items \in Seq(PlainItem) /\ item \in PlainItem
      /\ Tail(alt.items) \in Seq(PlainItem) /\ alt.items # <<>> /\ item = Head(alt.items)
      /\ ToSet(ag) = {alt} \cup ToSet(Tail(ag)) /\ Tail(ag) \in Seq(PlainAlternative)
  BY <1>0, FirstMeans
<1>2. f \in Fact /\ \A G : Satisfied(Head(alt.items).cond, G) <=> f \in G
  BY <1>1, ProveItem
<1>3. Sound(alt, F, goal)
  BY <1>1 DEF Agenda
<1>4. /\ ways \in Seq(PlainAlternative)
      /\ \A k \in DOMAIN ways : Leads(ways[k], f)
      /\ AtMostTwo /\ f \in Closure(F) => \E k \in DOMAIN ways : ItemsOpen(ways[k].items, F, Closure(F))
  BY <1>2, WaysToMeans, SMTT(60)
<1>5. \A k \in DOMAIN ways : /\ ways[k] \in PlainAlternative
                            /\ Alt(ways[k]) \in PlainAlternative /\ Sound(Alt(ways[k]), F, goal)
  <2> SUFFICES ASSUME NEW k \in DOMAIN ways
               PROVE  /\ ways[k] \in PlainAlternative
                      /\ Alt(ways[k]) \in PlainAlternative /\ Sound(Alt(ways[k]), F, goal)
    OBVIOUS
  <2>1. ways[k] \in PlainAlternative /\ Leads(ways[k], f)
    BY <1>4
  <2> QED BY <1>1, <1>2, <1>3, <2>1, ExpandSound, Zenon
<1>6. new \in Seq(PlainAlternative) /\ DOMAIN new = DOMAIN ways
  <2>1. DOMAIN ways = 1..Len(ways) /\ Len(ways) \in Nat
    BY <1>4
  <2> HIDE DEF Alt
  <2>2. new \in [1..Len(ways) -> PlainAlternative]
    BY <1>5, <2>1
  <2> HIDE DEF new
  <2> QED BY <2>1, <2>2
<1>7. ToSet(new) = {Alt(ways[k]) : k \in DOMAIN ways}
  <2> HIDE DEF Alt
  <2> QED BY DEF ToSet
<1> HIDE DEF new
<1>8. /\ new \o Tail(ag) \in Seq(PlainAlternative)
      /\ ToSet(new \o Tail(ag)) = ToSet(new) \cup ToSet(Tail(ag))
  <2> DEFINE rest == Tail(ag)
  <2>1. rest \in Seq(PlainAlternative)
    BY <1>1
  <2> HIDE DEF rest
  <2>2. new \o rest \in Seq(PlainAlternative) /\ ToSet(new \o rest) = ToSet(new) \cup ToSet(rest)
    BY <1>6, <2>1, ConcatMeans
  <2> QED BY <2>2 DEF rest
<1>9. ASSUME AtMostTwo, goal \in Closure(F)
      PROVE  \E a \in ToSet(new \o Tail(ag)) : ItemsOpen(a.items, F, Closure(F))
  <2>1. PICK a \in ToSet(ag) : ItemsOpen(a.items, F, Closure(F))
    BY <1>9 DEF Agenda
  <2>2. CASE a \in ToSet(Tail(ag))
    BY <1>8, <2>1, <2>2, SMTT(60)
  <2>3. CASE a = alt
    <3>1. ItemOpen(Head(alt.items), F, Closure(F)) /\ ItemsOpen(Tail(alt.items), F, Closure(F))
      <4>1. ItemsOpen(alt.items, F, Closure(F))
        BY <2>1, <2>3
      <4>2. \A H, C : ItemsOpen(alt.items, H, C) <=>
                      ItemOpen(Head(alt.items), H, C) /\ ItemsOpen(Tail(alt.items), H, C)
        <5> DEFINE items == alt.items
        <5>1. items \in Seq(PlainItem) /\ items # <<>>
          BY <1>1
        <5> HIDE DEF items
        <5>2. \A H, C : ItemsOpen(items, H, C) <=> ItemOpen(Head(items), H, C) /\ ItemsOpen(Tail(items), H, C)
          BY <5>1, ItemsOfTail
        <5> QED BY <5>2 DEF items
      <4> QED BY <4>1, <4>2
    <3>2. f \in Closure(F)
      <4>1. Head(alt.items).how = "prove"
        BY <1>1
      <4> QED BY <1>2, <3>1, <4>1 DEF ItemOpen
    <3>3. PICK k \in DOMAIN ways : ItemsOpen(ways[k].items, F, Closure(F))
      BY <1>4, <1>9, <3>2
    <3>4. ways[k].items \in Seq(PlainItem)
      BY <1>5, SMTT(60) DEF PlainAlternative
    <3>5. ItemsOpen(ways[k].items \o Tail(alt.items), F, Closure(F))
      BY <1>1, <3>1, <3>3, <3>4, ItemsOfConcat, ZenonT(60)
    <3>6. Alt(ways[k]).items = ways[k].items \o Tail(alt.items)
      BY Zenon DEF Rules!Alternative
    <3>7. Alt(ways[k]) \in ToSet(new \o Tail(ag))
      BY <1>7, <1>8
    <3> HIDE DEF Alt
    <3> QED BY <3>5, <3>6, <3>7, Zenon
  <2> QED BY <1>1, <2>1, <2>2, <2>3
<1>10. \A a \in ToSet(new \o Tail(ag)) : Sound(a, F, goal)
  <2>1. \A a \in ToSet(new) : Sound(a, F, goal)
    BY <1>5, <1>7
  <2>2. \A a \in ToSet(Tail(ag)) : Sound(a, F, goal)
    BY <1>1 DEF Agenda
  <2> QED BY <1>8, <2>1, <2>2
<1>11. Agenda(new \o Tail(ag), F, goal)
  BY <1>8, <1>9, <1>10 DEF Agenda
<1> QED BY <1>11 DEF new

LEMMA AgendaTest ==
  ASSUME Monotone, NEW F, NEW goal,
         NEW ag, Agenda(ag, F, goal), NEW old, NEW item, First(ag, old, item), item.how = "test",
         NEW alt, alt = Rules!Alternative(Tail(old.items), old.why),
         NEW passes, passes => Satisfied(item.cond, F),
         Len(item.cond.lits) <= 1 /\ Satisfied(item.cond, F) => passes
  PROVE  Agenda(IF passes THEN <<alt>> \o Tail(ag) ELSE Tail(ag), F, goal)
<1>0. ag \in Seq(PlainAlternative)
  BY DEF Agenda
<1>1. /\ old \in PlainAlternative /\ old.items \in Seq(PlainItem) /\ item \in PlainItem
      /\ Tail(old.items) \in Seq(PlainItem) /\ old.why \in Seq(Explained)
      /\ old.items # <<>> /\ item = Head(old.items)
      /\ ToSet(ag) = {old} \cup ToSet(Tail(ag)) /\ Tail(ag) \in Seq(PlainAlternative)
  BY <1>0, FirstMeans
<1>2. /\ \A G : ItemsHold(old.items, G) <=> Satisfied(item.cond, G) /\ ItemsHold(Tail(old.items), G)
      /\ \A C : ItemsOpen(old.items, F, C) <=> ItemOpen(item, F, C) /\ ItemsOpen(Tail(old.items), F, C)
  BY <1>1, ItemsOfTail
<1>3. /\ alt.items = Tail(old.items) /\ alt.why = old.why
      /\ alt = [items |-> alt.items, why |-> alt.why]
  BY DEF Rules!Alternative
<1>4. alt \in PlainAlternative
  BY <1>1, <1>3 DEF PlainAlternative
<1>5. \A C : ItemOpen(item, F, C) => passes
  BY DEF ItemOpen
<1>6. \A a \in ToSet(Tail(ag)) : Sound(a, F, goal)
  BY <1>1 DEF Agenda
<1>7. AtMostTwo /\ goal \in Closure(F) => \E a \in ToSet(ag) : ItemsOpen(a.items, F, Closure(F))
  BY DEF Agenda
<1>8. Sound(old, F, goal)
  BY <1>1 DEF Agenda
<1>9. CASE passes
  <2>1. \A G : F \subseteq G => Satisfied(item.cond, G)
    BY <1>1, <1>9, HoldsMonotone DEF PlainItem
  <2>2. Sound(alt, F, goal)
    BY <1>2, <1>3, <1>8, <2>1 DEF Sound
  <2> DEFINE one == <<alt>>
  <2>3. one \in Seq(PlainAlternative) /\ ToSet(one) = {alt}
    BY <1>4 DEF ToSet
  <2> HIDE DEF one
  <2>4. one \o Tail(ag) \in Seq(PlainAlternative) /\ ToSet(one \o Tail(ag)) = {alt} \cup ToSet(Tail(ag))
    <3> DEFINE rest == Tail(ag)
    <3>1. rest \in Seq(PlainAlternative)
      BY <1>1
    <3> HIDE DEF rest
    <3>2. one \o rest \in Seq(PlainAlternative) /\ ToSet(one \o rest) = ToSet(one) \cup ToSet(rest)
      BY <2>3, <3>1, ConcatMeans
    <3> QED BY <2>3, <3>2 DEF rest
  <2>5. \A C : ItemsOpen(old.items, F, C) => ItemsOpen(alt.items, F, C)
    BY <1>2, <1>3
  <2>6. Agenda(one \o Tail(ag), F, goal)
    BY <1>1, <1>6, <1>7, <2>2, <2>4, <2>5 DEF Agenda
  <2> QED BY <1>9, <2>6 DEF one
<1>10. CASE ~passes
  <2>1. \A C : ~ItemsOpen(old.items, F, C)
    BY <1>2, <1>5, <1>10
  <2>2. Agenda(Tail(ag), F, goal)
    BY <1>1, <1>6, <1>7, <2>1 DEF Agenda
  <2> QED BY <1>10, <2>2
<1> QED BY <1>9, <1>10

BackwardInv == Monotone /\ mode = "backward" => Agenda(agenda, Given, query.goal)

LEMMA AgendaStays ==
  ASSUME base' = base, Given' = Given, query' = query, Monotone, Agenda(agenda', Given, query.goal)
  PROVE  BackwardInv'
<1>1. Closure(Given)' = Closure(Given)
  BY DEF Closure, Consequences
<1>2. PlainAlternative' = PlainAlternative
  BY DEF PlainAlternative, Explained, PlainItem, Positive
<1>3. AtMostTwo' <=> AtMostTwo
  BY DEF AtMostTwo
<1>4. \A a : Sound(a, Given, query.goal)' <=> Sound(a, Given, query.goal)
  BY DEF Sound
<1> QED BY <1>1, <1>2, <1>3, <1>4 DEF Agenda, BackwardInv

\* An explanation without anything left to prove can be replayed.
LEMMA ProofReplays ==
  ASSUME NEW alt \in PlainAlternative, alt.items = <<>>, Sound(alt, Given, query.goal),
         Given \subseteq Fact
  PROVE  Replays(alt.why)
<1> DEFINE why == alt.why
           Known(k) == Given \cup Concluded(why, k)
<1>1. why \in Seq(Explained) /\ DOMAIN why = 1..Len(why) /\ Len(why) \in Nat
  <2>1. why \in Seq(Explained)
    BY DEF PlainAlternative
  <2> HIDE DEF why
  <2> QED BY <2>1
<1>2. ASSUME NEW k \in 0..Len(why)
      PROVE  Known(k) \in SUBSET Fact /\ Concluded(why, k) \subseteq Known(k) /\ ItemsHold(alt.items, Known(k))
  <2>1. \A j \in 1..k : why[j].goal \in Fact
    <3>1. \A j \in 1..k : j \in DOMAIN why
      BY <1>1
    <3> HIDE DEF why
    <3>2. \A j \in 1..k : why[j] \in Explained
      BY <1>1, <3>1
    <3> QED BY <3>2 DEF Explained
  <2>2. DOMAIN alt.items = {}
    OBVIOUS
  <2> QED BY <2>1, <2>2 DEF Concluded, ItemsHold
<1>3. \A k \in DOMAIN why : Satisfied(base[why[k].rule].if, Known(k - 1))
  <2> SUFFICES ASSUME NEW k \in DOMAIN why PROVE Satisfied(base[why[k].rule].if, Known(k - 1))
    OBVIOUS
  <2>1. k - 1 \in 0..Len(why)
    BY <1>1
  <2> HIDE DEF why
  <2> QED BY <1>2, <2>1 DEF Sound, why
<1>4. query.goal \in Known(Len(why))
  <2>1. Len(why) \in 0..Len(why)
    BY <1>1
  <2> HIDE DEF why
  <2> QED BY <1>2, <2>1 DEF Sound, why
<1> HIDE DEF why
<1> QED BY <1>3, <1>4 DEF Replays, Given, Concluded, why

LEMMA BackwardStep ==
  ASSUME RuleInv, DefinedInv, RtxIsFaithful, ForwardInv, BackwardInv, BackwardProves, [Next]_vars
  PROVE  BackwardInv' /\ BackwardProves'
<1>0. /\ base' = base /\ RuleType /\ RuleType' /\ (Monotone' <=> Monotone)
      /\ (AtMostTwo' <=> AtMostTwo)
  BY RuleStep, RulesStay DEF RuleInv, AtMostTwo
<1>1. CASE UNCHANGED ruleVars
  <2>1. /\ base' = base /\ mode' = mode /\ query' = query /\ agenda' = agenda /\ answer' = answer
    BY <1>1 DEF ruleVars
  <2>2. Given' = Given
    BY <2>1 DEF Given
  <2>3. Closure(Given)' = Closure(Given)
    BY <2>1, <2>2 DEF Closure, Consequences
  <2>4. BackwardInv'
    <3>1. CASE Monotone /\ mode = "backward"
      BY <2>1, <2>2, <3>1, AgendaStays DEF BackwardInv
    <3>2. CASE ~(Monotone /\ mode = "backward")
      BY <1>0, <2>1, <3>2 DEF BackwardInv
    <3> QED BY <3>1, <3>2
  <2>5. BackwardProves'
    <3>1. \A e : Replays(e)' <=> Replays(e)
      BY <2>1 DEF Replays
    <3> QED BY <1>0, <2>1, <2>2, <2>3, <3>1 DEF BackwardProves, Given
  <2> QED BY <2>4, <2>5
<1>2. CASE \/ \E q \in Queries : Rules!Ask(q)
           \/ Rules!Clear \/ Rules!ClearFails \/ Rules!ForwardEnds \/ Rules!Overflow
  <2>1. mode' # "backward" /\ answer'.is \notin {"proof", "no"}
    BY <1>2 DEF Rules!Ask, Rules!Clear, Rules!ClearFails, Rules!ForwardEnds, Rules!Overflow,
                Rules!Answer, ForwardInv
  <2> QED BY <2>1 DEF BackwardInv, BackwardProves
<1>3. CASE Rules!Conclude \/ \E i \in DOMAIN base, b \in BranchName : Rules!Fire(i, b)
  <2>1. mode' # "backward" /\ answer'.is \notin {"proof", "no"}
    BY <1>3 DEF Rules!Conclude, Rules!Fire, ForwardInv
  <2> QED BY <2>1 DEF BackwardInv, BackwardProves
<1>4. CASE Rules!Give
  <2> DEFINE lit == [fact |-> query.goal, sign |-> TRUE]
             alt == Rules!Alternative(<<Rules!Prove(lit)>>, <<>>)
  <2>1. /\ mode = "clear" /\ query' = query /\ mode' = query.kind /\ answer' = answer
        /\ query.kind = "backward" => agenda' = <<alt>>
    BY <1>4 DEF Rules!Give
  <2>2. query \in Queries /\ query.given \in Seq(Fact) /\ query.goal \in Fact
    BY <1>0, <2>1, QueryAssumption DEF RuleType, QueryAssumption
  <2>3. /\ Rules!Prove(lit) \in PlainItem /\ Rules!Prove(lit).how = "prove"
        /\ \A G : Satisfied(Rules!Prove(lit).cond, G) <=> query.goal \in G
    <3>1. lit \in Rules!Literal /\ lit.sign /\ lit.fact = query.goal
      BY <2>2 DEF Rules!Literal
    <3> HIDE DEF lit
    <3> QED BY <3>1, ProveMeans
  <2> DEFINE item == Rules!Prove(lit)
  <2>4. alt.items = <<item>> /\ alt.why = <<>> /\ alt = [items |-> alt.items, why |-> alt.why]
    BY DEF Rules!Alternative
  <2> HIDE DEF lit, item, alt
  <2>5. alt.items \in Seq(PlainItem) /\ alt.why \in Seq(Explained) /\ DOMAIN alt.items = {1} /\ alt.items[1] = item
    BY <2>3, <2>4 DEF item
  <2>6. alt \in PlainAlternative
    BY <2>4, <2>5 DEF PlainAlternative
  <2>7. Sound(alt, Given, query.goal)
    BY <2>3, <2>4, <2>5 DEF Sound, ItemsHold, item
  <2>8. \A F, C : query.goal \in C => ItemsOpen(alt.items, F, C)
    BY <2>3, <2>5 DEF ItemsOpen, ItemOpen, item
  <2>9. <<alt>> \in Seq(PlainAlternative) /\ ToSet(<<alt>>) = {alt}
    BY <2>6 DEF ToSet
  <2>10. Agenda(<<alt>>, Given, query.goal)
    BY <2>7, <2>8, <2>9 DEF Agenda
  <2>11. Given' = Given
    BY <2>1 DEF Given
  <2>12. BackwardInv'
    <3>1. CASE Monotone /\ query.kind = "backward"
      BY <1>0, <2>1, <2>10, <2>11, <3>1, AgendaStays
    <3>2. CASE ~(Monotone /\ query.kind = "backward")
      BY <1>0, <2>1, <3>2 DEF BackwardInv
    <3> QED BY <3>1, <3>2
  <2> QED BY <2>1, <2>12 DEF BackwardProves, ForwardInv
<1>5. CASE Rules!Expand \/ Rules!TestItem
  <2>1. /\ mode = "backward" /\ agenda # <<>> /\ Rules!Current = Head(agenda)
        /\ Rules!Current.items # <<>> /\ Rules!Item = Head(Rules!Current.items)
        /\ mode' = mode /\ query' = query /\ answer' = answer
    BY <1>5, Zenon DEF Rules!Expand, Rules!TestItem, Rules!Searching, Rules!Current, Rules!Item
  <2>2. First(agenda, Rules!Current, Rules!Item) /\ Given' = Given
    BY <2>1 DEF First, Given
  <2>3. ASSUME Monotone PROVE Agenda(agenda', Given, query.goal)
    <3>1. Agenda(agenda, Given, query.goal) /\ Given = ToSet(facts)
      BY <2>1, <2>3 DEF BackwardInv, ForwardInv
    <3>2. Rules!Item \in PlainItem
      BY <2>2, <3>1, FirstMeans DEF Agenda
    <3>3. Rules!IsTest <=> Rules!Item.how = "test"
      <4>1. Rules!Item.how = "prove" => Rules!Item.cond.lits[1].sign
        BY <3>2, ProveItem
      <4>2. Rules!Item.how \in {"prove", "test"}
        BY <3>2 DEF PlainItem
      <4> QED BY <4>1, <4>2 DEF Rules!IsTest
    <3>4. Given \in SUBSET Fact
      BY <1>0, <3>1, SMTT(60) DEF RuleType, ToSet
    <3>5. CASE Rules!Expand
      <4> DEFINE ways == Rules!WaysTo(Rules!Item.cond.lits[1].fact)
      <4>1. /\ ~Rules!IsTest
            /\ agenda' = [k \in DOMAIN ways |->
                            Rules!Alternative(ways[k].items \o Tail(Rules!Current.items),
                                              ways[k].why \o Rules!Current.why)] \o Tail(agenda)
        BY <3>5, Zenon DEF Rules!Expand
      <4>2. Rules!Item.how = "prove"
        BY <3>2, <3>3, <4>1, Zenon DEF PlainItem
      <4> HIDE DEF ways
      <4>3. ways = Rules!WaysTo(Rules!Item.cond.lits[1].fact)
        BY DEF ways
      <4> QED BY <1>0, <2>2, <2>3, <3>1, <3>4, <4>1, <4>2, <4>3, AgendaExpand, ZenonT(120) DEF RuleType
    <3>6. CASE Rules!TestItem
      <4> DEFINE alt == Rules!Alternative(Tail(Rules!Current.items), Rules!Current.why)
      <4>1. /\ Rules!IsTest
            /\ agenda' = IF Rules!Passes THEN <<alt>> \o Tail(agenda) ELSE Tail(agenda)
        BY <3>6 DEF Rules!TestItem
      <4>2. Rules!Item.how = "test"
        BY <3>3, <4>1
      <4>3. Rules!Passes <=> Rules!Holds(Rules!Item.cond, Given, defined)
        BY <3>1, <4>2, SameToSet DEF Rules!Passes
      <4>4. Rules!Item.cond \in Rules!Condition /\ Positive(Rules!Item.cond)
        BY <3>2 DEF PlainItem
      <4>5. \A f \in Given : PatternOf[f] \in defined
        BY <3>1 DEF DefinedInv
      <4> DEFINE cond == Rules!Item.cond
      <4> HIDE DEF cond
      <4>6. Rules!Passes => Satisfied(cond, Given)
        BY <4>3, HoldsSatisfied DEF cond
      <4>7. Len(cond.lits) <= 1 /\ Satisfied(cond, Given) => Rules!Passes
        BY <4>3, <4>4, <4>5, SatisfiedHolds DEF cond
      <4> QED BY <2>2, <2>3, <3>1, <4>1, <4>2, <4>6, <4>7, AgendaTest DEF cond
    <3> QED BY <1>5, <3>5, <3>6
  <2>4. BackwardInv'
    <3>1. CASE Monotone
      BY <1>0, <2>1, <2>2, <2>3, <3>1, AgendaStays
    <3>2. CASE ~Monotone
      BY <1>0, <3>2 DEF BackwardInv
    <3> QED BY <3>1, <3>2
  <2> QED BY <2>1, <2>4, SMTT(60) DEF BackwardProves, ForwardInv
<1>6. CASE Rules!Proved
  <2>1. /\ mode = "backward" /\ agenda # <<>> /\ Head(agenda).items = <<>>
        /\ mode' = "idle" /\ query' = query /\ answer' = [is |-> "proof", fired |-> Head(agenda).why]
    BY <1>6 DEF Rules!Proved, Rules!Answer, Rules!Searching, Rules!Current
  <2>2. ASSUME Monotone PROVE Replays(Head(agenda).why)
    <3>1. Agenda(agenda, Given, query.goal) /\ Given = ToSet(facts)
      BY <2>1, <2>2 DEF BackwardInv, ForwardInv
    <3>2. Head(agenda) \in PlainAlternative /\ Head(agenda) \in ToSet(agenda)
      BY <2>1, <3>1, HeadTailMeans DEF Agenda
    <3>3. Given \subseteq Fact
      BY <1>0, <3>1 DEF RuleType, ToSet
    <3> QED BY <2>1, <3>1, <3>2, <3>3, ProofReplays DEF Agenda
  <2>3. \A e : Replays(e)' <=> Replays(e)
    BY <1>0, <2>1 DEF Replays
  <2>4. answer'.is = "proof" /\ answer'.fired = Head(agenda).why
    BY <2>1
  <2> QED BY <1>0, <2>1, <2>2, <2>3, <2>4 DEF BackwardInv, BackwardProves
<1>7. CASE Rules!NotProved
  <2>1. /\ mode = "backward" /\ agenda = <<>> /\ mode' = "idle" /\ query' = query
        /\ answer' = [is |-> "no"]
    BY <1>7 DEF Rules!NotProved, Rules!Answer
  <2>2. ToSet(agenda) = {}
    BY <2>1 DEF ToSet
  <2>3. Monotone /\ AtMostTwo => query.goal \notin Closure(Given)
    BY <2>1, <2>2 DEF BackwardInv, Agenda
  <2>4. Given' = Given /\ (Closure(Given)' = Closure(Given))
    BY <1>0, <2>1 DEF Closure, Consequences, Given
  <2>5. answer'.is = "no"
    BY <2>1
  <2> QED BY <1>0, <2>1, <2>3, <2>4, <2>5 DEF BackwardInv, BackwardProves, Given
<1> QED BY <1>1, <1>2, <1>3, <1>4, <1>5, <1>6, <1>7, RuleCases

\* With rules that only add facts to facts that hold, the explanation that
\* backward gives for a goal can be replayed from the facts given; and when no
\* condition has more than two parts, it says no only to a goal that does not
\* follow: whatever the rules, cyclic ones too, and however deep the stack.
THEOREM BackwardProvesHolds == FairSpec => []BackwardProves
<1>1. Init => BackwardInv /\ BackwardProves
  BY DEF Init, Rules!Init, BackwardInv, BackwardProves
<1>2. RuleInv /\ DefinedInv /\ RtxIsFaithful /\ ForwardInv /\ BackwardInv /\ BackwardProves /\ [Next]_vars
        => BackwardInv' /\ BackwardProves'
  BY BackwardStep
<1> QED BY <1>1, <1>2, RuleInvHolds, DefinedInvHolds, RtxIsFaithfulHolds, ForwardHolds, PTL DEF FairSpec
-------------------------------------------------------------------------------
(* The planner: what its variables contain.                                    *)

Ops == {library[k].op : k \in DOMAIN library}
PlanTask == [do : {"solve"}, goals : Plans!Goals, forbidden : SUBSET Ops]
            \cup [do : {"apply"}, action : ToSet(library)]
            \cup [do : {"final"}, goals : Plans!Goals]
PlanAlternative == [tasks : Seq(PlanTask), world : SUBSET State, plan : Seq(ToSet(library))]

PlanType ==
  /\ library \in Seq(Plans!Action(Ops))
  /\ outcome.is \in {"none", "searching", "plan", "no", "overflow"}
  /\ outcome.is # "none" => problem \in Problems
  /\ alternatives \in Seq(PlanAlternative)

LEMMA PlansMeans ==
  ASSUME NEW s
  PROVE  /\ Plans!FlattenSeq(s) = FlattenSeq(s) /\ Plans!ToSet(s) = ToSet(s)
         /\ \A S : Plans!Kept(s, S) = Rules!Kept(s, S)
<1>1. \A t : Plans!FlattenSeq(t) = FlattenSeq(t)
  BY DEF Plans!FlattenSeq, FlattenSeq
<1>2. Plans!ToSet(s) = ToSet(s)
  BY DEF Plans!ToSet, ToSet
<1> QED BY <1>1, <1>2, SameFlatten DEF Plans!Kept, Rules!Kept

LEMMA PlanKept ==
  ASSUME NEW A, NEW s \in Seq(A), NEW S
  PROVE  Plans!Kept(s, S) \in Seq(A) /\ ToSet(Plans!Kept(s, S)) = ToSet(s) \cap S
BY PlansMeans, KeptMeans

LEMMA SeqMeans ==
  ASSUME NEW A, NEW s \in Seq(A)
  PROVE  /\ DOMAIN s = 1..Len(s) /\ Len(s) \in Nat
         /\ \A k \in DOMAIN s : s[k] \in A /\ s[k] \in ToSet(s)
<1>1. DOMAIN s = 1..Len(s) /\ Len(s) \in Nat /\ \A k \in DOMAIN s : s[k] \in A
  OBVIOUS
<1> QED BY <1>1 DEF ToSet

LEMMA SeqBuild ==
  ASSUME NEW A, NEW n \in Nat, NEW s \in [1..n -> A]
  PROVE  s \in Seq(A) /\ Len(s) = n
OBVIOUS

\* A function over the indices of a sequence is a sequence.
LEMMA SeqMap ==
  ASSUME NEW A, NEW B, NEW s \in Seq(A), NEW t, DOMAIN t = DOMAIN s, t = [k \in DOMAIN s |-> t[k]],
         \A k \in DOMAIN s : t[k] \in B
  PROVE  t \in Seq(B)
<1>1. DOMAIN s = 1..Len(s) /\ Len(s) \in Nat
  OBVIOUS
<1>2. t \in [1..Len(s) -> B]
  BY <1>1
<1> QED BY <1>1, <1>2, SeqBuild

LEMMA TaskMeans ==
  /\ \A g \in Plans!Goals, fb \in SUBSET Ops :
       /\ Plans!Solve(g, fb) \in PlanTask
       /\ Plans!Solve(g, fb).do = "solve" /\ Plans!Solve(g, fb).goals = g /\ Plans!Solve(g, fb).forbidden = fb
  /\ \A a \in ToSet(library) :
       /\ Plans!Apply(a) \in PlanTask
       /\ Plans!Apply(a).do = "apply" /\ Plans!Apply(a).action = a
  /\ \A g \in Plans!Goals :
       /\ Plans!Final(g) \in PlanTask
       /\ Plans!Final(g).do = "final" /\ Plans!Final(g).goals = g
BY DEF Plans!Solve, Plans!Apply, Plans!Final, PlanTask

LEMMA TaskFields ==
  ASSUME NEW t \in PlanTask
  PROVE  /\ t.do \in {"solve", "apply", "final"}
         /\ t.do = "solve" => t.goals \in Plans!Goals /\ t.forbidden \in SUBSET Ops
         /\ t.do = "apply" => t.action \in ToSet(library)
         /\ t.do = "final" => t.goals \in Plans!Goals /\ t = Plans!Final(t.goals)
BY DEF PlanTask, Plans!Final

LEMMA ActionFields ==
  ASSUME library \in Seq(Plans!Action(Ops)), NEW a \in ToSet(library)
  PROVE  /\ a.op \in Ops /\ a.pre \in Plans!Goals
         /\ a.add \subseteq State /\ a.partial \subseteq State
<1>1. a \in Plans!Action(Ops)
  BY DEF ToSet
<1> QED BY <1>1 DEF Plans!Action

LEMMA GoalsFields ==
  ASSUME NEW g \in Plans!Goals
  PROVE  /\ g.kind \in {"all", "seq"} /\ g.list \in Seq(State)
         /\ g.kind = "seq" => g.list # <<>>
         /\ g = [kind |-> g.kind, list |-> g.list]
BY DEF Plans!Goals

LEMMA AllMeans ==
  ASSUME NEW list \in Seq(State)
  PROVE  /\ Plans!All(list) \in Plans!Goals
         /\ Plans!All(list).kind = "all" /\ Plans!All(list).list = list
BY DEF Plans!All, Plans!Goals

LEMMA SequentialType ==
  ASSUME NEW goals \in Plans!Goals
  PROVE  Plans!Sequential(goals) \in Seq(PlanTask)
<1> DEFINE all(k) == Plans!All(<<goals.list[k]>>)
           parts == [k \in DOMAIN goals.list |-> <<Plans!Solve(all(k), {}), Plans!Final(all(k))>>]
<1>1. goals.list \in Seq(State) /\ \A k \in DOMAIN goals.list : goals.list[k] \in State
  BY GoalsFields, SeqMeans
<1>2. \A k \in DOMAIN goals.list : all(k) \in Plans!Goals
  <2> SUFFICES ASSUME NEW k \in DOMAIN goals.list PROVE all(k) \in Plans!Goals
    OBVIOUS
  <2> DEFINE one == <<goals.list[k]>>
  <2>1. one \in Seq(State)
    BY <1>1
  <2> HIDE DEF one
  <2>2. Plans!All(one) \in Plans!Goals
    BY <2>1, AllMeans
  <2> QED BY <2>2 DEF one
<1>3. \A k \in DOMAIN goals.list : parts[k] \in Seq(PlanTask)
  <2> SUFFICES ASSUME NEW k \in DOMAIN goals.list PROVE parts[k] \in Seq(PlanTask)
    OBVIOUS
  <2>1. parts[k] = <<Plans!Solve(all(k), {}), Plans!Final(all(k))>>
    OBVIOUS
  <2>2. Plans!Solve(all(k), {}) \in PlanTask /\ Plans!Final(all(k)) \in PlanTask
    BY <1>2, TaskMeans
  <2> HIDE DEF parts, all
  <2> QED BY <2>1, <2>2
<1>4. DOMAIN parts = DOMAIN goals.list /\ parts = [k \in DOMAIN goals.list |-> parts[k]]
  OBVIOUS
<1>5. Plans!Sequential(goals) = FlattenSeq(parts)
  BY PlansMeans DEF Plans!Sequential
<1> HIDE DEF parts
<1>6. parts \in Seq(Seq(PlanTask))
  BY <1>1, <1>3, <1>4, SeqMap
<1> QED BY <1>5, <1>6, FlattenMeans

LEMMA AttemptType ==
  ASSUME library \in Seq(Plans!Action(Ops)), NEW goals \in Plans!Goals, NEW fb \in SUBSET Ops,
         NEW g \in ToSet(Plans!NextGoals(goals)), NEW a \in ToSet(library)
  PROVE  Plans!Attempt(goals, fb, g, a) \in Seq(PlanTask)
<1>1. /\ goals.kind \in {"all", "seq"} /\ goals.list \in Seq(State)
      /\ goals.kind = "seq" => goals.list # <<>>
  BY GoalsFields
<1>2. Plans!Remaining(goals, g) \in Plans!Goals
  <2>1. CASE goals.kind = "all"
    <3>1. Plans!Kept(goals.list, State \ {g}) \in Seq(State)
      BY <1>1, PlanKept
    <3> QED BY <2>1, <3>1, AllMeans DEF Plans!Remaining
  <2>2. CASE goals.kind = "seq" /\ Len(goals.list) = 1
    <3>1. <<>> \in Seq(State)
      OBVIOUS
    <3>2. Plans!All(<<>>) \in Plans!Goals
      BY <3>1, AllMeans
    <3> QED BY <2>2, <3>2 DEF Plans!Remaining
  <2>3. CASE goals.kind = "seq" /\ Len(goals.list) # 1
    <3>1. Tail(goals.list) \in Seq(State) /\ Tail(goals.list) # <<>>
      <4> DEFINE list == goals.list
      <4>1. list \in Seq(State) /\ list # <<>> /\ Len(list) # 1
        BY <1>1, <2>3
      <4> HIDE DEF list
      <4>2. Len(list) \in Nat /\ Len(list) # 0
        BY <4>1
      <4>3. Tail(list) \in Seq(State) /\ Len(Tail(list)) = Len(list) - 1
        BY <4>1, <4>2
      <4>4. Tail(list) # <<>>
        <5>1. Len(Tail(list)) # 0 /\ Len(<<>>) = 0
          BY <4>1, <4>2, <4>3
        <5> QED BY <5>1
      <4> QED BY <4>3, <4>4 DEF list
    <3>2. Plans!Remaining(goals, g) = [goals EXCEPT !.list = Tail(goals.list)]
      BY <2>3 DEF Plans!Remaining
    <3>3. Plans!Remaining(goals, g) = [kind |-> "seq", list |-> Tail(goals.list)]
      BY <2>3, <3>2, GoalsFields, ZenonT(60)
    <3> QED BY <3>1, <3>3 DEF Plans!Goals
  <2> QED BY <1>1, <2>1, <2>2, <2>3
<1>3. Plans!Forbid(fb, a) \in SUBSET Ops /\ a.pre \in Plans!Goals
  BY ActionFields DEF Plans!Forbid
<1> DEFINE t1 == Plans!Solve(a.pre, Plans!Forbid(fb, a))
           t2 == Plans!Apply(a)
           t3 == Plans!Solve(IF Plans!IsPartial(a) THEN goals ELSE Plans!Remaining(goals, g), fb)
<1>4. t1 \in PlanTask /\ t2 \in PlanTask /\ t3 \in PlanTask
  <2>1. t1 \in PlanTask
    BY <1>3, TaskMeans
  <2>2. t2 \in PlanTask
    BY TaskMeans
  <2>3. t3 \in PlanTask
    BY <1>2, TaskMeans
  <2> QED BY <2>1, <2>2, <2>3
<1>5. Plans!Attempt(goals, fb, g, a) = <<t1, t2, t3>>
  BY DEF Plans!Attempt
<1> HIDE DEF t1, t2, t3
<1> QED BY <1>4, <1>5

LEMMA AttemptsType ==
  ASSUME library \in Seq(Plans!Action(Ops)), NEW goals \in Plans!Goals, NEW fb \in SUBSET Ops,
         NEW world
  PROVE  Plans!Attempts(goals, fb, world) \in Seq(Seq(PlanTask))
<1> DEFINE Useful(g) == Plans!Kept(library, {a \in Plans!ToSet(library) : g \in a.add /\ Plans!May(a, fb)})
           Open == Plans!Kept(Plans!NextGoals(goals), State \ world)
           For(g) == [k \in DOMAIN Useful(g) |-> Plans!Attempt(goals, fb, g, Useful(g)[k])]
           parts == [k \in DOMAIN Open |-> For(Open[k])]
           first == IF goals.kind = "seq" THEN <<Plans!Sequential(goals)>> ELSE <<>>
<1>1. Plans!NextGoals(goals) \in Seq(State)
  BY GoalsFields DEF Plans!NextGoals
<1>2. Open \in Seq(State) /\ ToSet(Open) \subseteq ToSet(Plans!NextGoals(goals))
  BY <1>1, PlanKept
<1>3. library \in Seq(ToSet(library))
  BY SeqMeans, SeqBuild
<1>4. \A g : Useful(g) \in Seq(ToSet(library))
  BY <1>3, PlanKept
<1>5. ASSUME NEW g \in ToSet(Plans!NextGoals(goals)) PROVE For(g) \in Seq(Seq(PlanTask))
  <2> DEFINE us == Useful(g)
             t == For(g)
  <2>1. us \in Seq(ToSet(library))
    BY <1>4
  <2>2. DOMAIN t = DOMAIN us /\ t = [k \in DOMAIN us |-> t[k]]
        /\ \A k \in DOMAIN us : t[k] = Plans!Attempt(goals, fb, g, us[k])
    OBVIOUS
  <2> HIDE DEF us, t
  <2>3. \A k \in DOMAIN us : us[k] \in ToSet(library)
    BY <2>1, SeqMeans
  <2>4. \A k \in DOMAIN us : t[k] \in Seq(PlanTask)
    BY <2>2, <2>3, AttemptType
  <2>5. t \in Seq(Seq(PlanTask))
    BY <2>1, <2>2, <2>4, SeqMap
  <2> QED BY <2>5 DEF t
<1>6. /\ DOMAIN parts = DOMAIN Open /\ parts = [k \in DOMAIN Open |-> parts[k]]
      /\ \A k \in DOMAIN Open : parts[k] = For(Open[k])
  OBVIOUS
<1>7. Plans!Attempts(goals, fb, world) = first \o FlattenSeq(parts)
  BY PlansMeans DEF Plans!Attempts
<1> HIDE DEF parts, Open, For
<1>8. \A k \in DOMAIN Open : Open[k] \in ToSet(Plans!NextGoals(goals))
  BY <1>2, SeqMeans
<1>9. \A k \in DOMAIN Open : parts[k] \in Seq(Seq(PlanTask))
  BY <1>5, <1>6, <1>8
<1>10. parts \in Seq(Seq(Seq(PlanTask)))
  BY <1>2, <1>6, <1>9, SeqMap
<1>11. FlattenSeq(parts) \in Seq(Seq(PlanTask))
  BY <1>10, FlattenMeans
<1>12. first \in Seq(Seq(PlanTask))
  BY SequentialType
<1> HIDE DEF first
<1> QED BY <1>7, <1>11, <1>12, ConcatMeans
-------------------------------------------------------------------------------
(* The worlds of a plan.                                                       *)

\* What WorldsOf is computed by exists.
Carries(w, plan, n) ==
  w = [k \in 0..n |-> IF k = 0 THEN problem.world ELSE Plans!Effect(plan[k], w[k - 1])]

LEMMA WorldsExist ==
  ASSUME NEW plan, NEW n \in Nat
  PROVE  \E w : Carries(w, plan, n)
<1> DEFINE S == {m \in Nat : \E w : Carries(w, plan, m)}
<1>1. 0 \in S
  <2> DEFINE w == [k \in 0..0 |-> problem.world]
  <2>1. w = [k \in 0..0 |-> IF k = 0 THEN problem.world ELSE Plans!Effect(plan[k], w[k - 1])]
    OBVIOUS
  <2> QED BY <2>1 DEF Carries
<1>2. ASSUME NEW m \in Nat, m \in S PROVE m + 1 \in S
  <2>1. PICK w : Carries(w, plan, m)
    BY <1>2
  <2> DEFINE h == [k \in 0..m + 1 |-> IF k = m + 1 THEN Plans!Effect(plan[k], w[k - 1]) ELSE w[k]]
  <2>2. \A k \in 0..m : h[k] = w[k]
    OBVIOUS
  <2>3. \A k \in 0..m : w[k] = IF k = 0 THEN problem.world ELSE Plans!Effect(plan[k], w[k - 1])
    BY <2>1 DEF Carries
  <2>4. \A k \in 0..m + 1 : h[k] = IF k = 0 THEN problem.world ELSE Plans!Effect(plan[k], h[k - 1])
    <3> SUFFICES ASSUME NEW k \in 0..m + 1
                 PROVE  h[k] = IF k = 0 THEN problem.world ELSE Plans!Effect(plan[k], h[k - 1])
      OBVIOUS
    <3>1. k # 0 => k - 1 \in 0..m /\ h[k - 1] = w[k - 1]
      BY <2>2
    <3>2. CASE k = m + 1
      BY <3>1, <3>2
    <3>3. CASE k # m + 1
      BY <2>2, <2>3, <3>1, <3>3
    <3> QED BY <3>2, <3>3
  <2>5. Carries(h, plan, m + 1)
    <3> HIDE DEF h
    <3>1. h = [k \in 0..m + 1 |-> h[k]]
      BY DEF h
    <3> QED BY <2>4, <3>1 DEF Carries
  <2> QED BY <2>5
<1> QED BY <1>1, <1>2, SetInduction

LEMMA WorldsMeans ==
  ASSUME NEW A, NEW plan \in Seq(A)
  PROVE  /\ WorldsOf(plan)[0] = problem.world
         /\ \A k \in 1..Len(plan) : WorldsOf(plan)[k] = Plans!Effect(plan[k], WorldsOf(plan)[k - 1])
<1> DEFINE w == CHOOSE w : Carries(w, plan, Len(plan))
<1>1. Len(plan) \in Nat
  OBVIOUS
<1>2. WorldsOf(plan) = w
  BY DEF WorldsOf, Carries
<1>3. Carries(w, plan, Len(plan))
  BY <1>1, WorldsExist
<1> HIDE DEF w
<1>4. \A k \in 0..Len(plan) : w[k] = IF k = 0 THEN problem.world ELSE Plans!Effect(plan[k], w[k - 1])
  BY <1>3 DEF Carries
<1>5. 0 \in 0..Len(plan) /\ \A k \in 1..Len(plan) : k \in 0..Len(plan) /\ k # 0
  BY <1>1
<1> QED BY <1>2, <1>4, <1>5

LEMMA WorldsAppend ==
  ASSUME NEW A, NEW plan \in Seq(A), NEW a \in A
  PROVE  /\ \A k \in 0..Len(plan) : WorldsOf(Append(plan, a))[k] = WorldsOf(plan)[k]
         /\ WorldsOf(Append(plan, a))[Len(plan) + 1] = Plans!Effect(a, WorldsOf(plan)[Len(plan)])
<1> DEFINE longer == Append(plan, a)
<1>1. /\ Len(plan) \in Nat /\ longer \in Seq(A) /\ Len(longer) = Len(plan) + 1
      /\ \A k \in 1..Len(plan) : longer[k] = plan[k]
      /\ longer[Len(plan) + 1] = a
  OBVIOUS
<1> HIDE DEF longer
<1>2. /\ WorldsOf(longer)[0] = problem.world
      /\ \A k \in 1..Len(longer) : WorldsOf(longer)[k] = Plans!Effect(longer[k], WorldsOf(longer)[k - 1])
  BY <1>1, WorldsMeans
<1>3. /\ WorldsOf(plan)[0] = problem.world
      /\ \A k \in 1..Len(plan) : WorldsOf(plan)[k] = Plans!Effect(plan[k], WorldsOf(plan)[k - 1])
  BY WorldsMeans
<1> DEFINE S == {k \in Nat : k \in 0..Len(plan) => WorldsOf(longer)[k] = WorldsOf(plan)[k]}
<1>4. 0 \in S
  BY <1>2, <1>3
<1>5. ASSUME NEW k \in Nat, k \in S PROVE k + 1 \in S
  <2> SUFFICES ASSUME k + 1 \in 0..Len(plan) PROVE WorldsOf(longer)[k + 1] = WorldsOf(plan)[k + 1]
    OBVIOUS
  <2>1. k \in 0..Len(plan) /\ k + 1 \in 1..Len(plan) /\ k + 1 \in 1..Len(longer) /\ (k + 1) - 1 = k
    BY <1>1
  <2>2. WorldsOf(longer)[k] = WorldsOf(plan)[k]
    BY <1>5, <2>1
  <2> QED BY <1>1, <1>2, <1>3, <2>1, <2>2
<1>6. Nat \subseteq S
  <2> HIDE DEF S
  <2> QED BY <1>4, <1>5, SetInduction
<1>7. \A k \in 0..Len(plan) : WorldsOf(longer)[k] = WorldsOf(plan)[k]
  BY <1>1, <1>6
<1>8. WorldsOf(longer)[Len(plan) + 1] = Plans!Effect(a, WorldsOf(plan)[Len(plan)])
  <2>1. Len(plan) + 1 \in 1..Len(longer) /\ (Len(plan) + 1) - 1 = Len(plan) /\ Len(plan) \in 0..Len(plan)
    BY <1>1
  <2> QED BY <1>1, <1>2, <1>7, <2>1
<1> QED BY <1>7, <1>8 DEF longer

\* A plan can be carried out and leads to world.
Runs(plan, world) ==
  /\ world = WorldsOf(plan)[Len(plan)]
  /\ \A k \in 1..Len(plan) : Possible(plan[k], WorldsOf(plan)[k - 1])

LEMMA DoRuns ==
  ASSUME NEW A, NEW plan \in Seq(A), NEW a \in A, NEW world, Runs(plan, world),
         a.pre \in Plans!Goals, Plans!CanDo(a, world)
  PROVE  Runs(Append(plan, a), Plans!Effect(a, world))
<1> DEFINE longer == Append(plan, a)
<1>1. /\ Len(plan) \in Nat /\ Len(longer) = Len(plan) + 1
      /\ \A k \in 1..Len(plan) : longer[k] = plan[k]
      /\ longer[Len(plan) + 1] = a
  OBVIOUS
<1>2. /\ \A k \in 0..Len(plan) : WorldsOf(longer)[k] = WorldsOf(plan)[k]
      /\ WorldsOf(longer)[Len(plan) + 1] = Plans!Effect(a, WorldsOf(plan)[Len(plan)])
  BY WorldsAppend
<1> HIDE DEF longer
<1>3. Possible(a, world)
  <2> DEFINE list == a.pre.list
  <2>1. a.pre.kind \in {"all", "seq"} /\ list \in Seq(State)
    BY GoalsFields
  <2> SUFFICES ASSUME NEW k \in DOMAIN list, list[k] \notin world
               PROVE  /\ a.pre.kind = "seq"
                      /\ \E j \in DOMAIN list : j > k /\ PatternOf[list[j]] = PatternOf[list[k]]
    BY DEF Possible
  <2> HIDE DEF list
  <2>2. DOMAIN list = 1..Len(list) /\ Len(list) \in Nat
    BY <2>1
  <2>3. a.pre.kind # "all"
    <3>1. a.pre.kind = "all" => {list[j] : j \in DOMAIN list} \subseteq world
      BY DEF Plans!CanDo, Plans!Subgoals, Plans!ToSet, list
    <3> QED BY <3>1
  <2>4. list[k] \notin Plans!LastOnes(list)
    BY <2>3 DEF Plans!CanDo, list
  <2>5. \E j \in k + 1..Len(list) : PatternOf[list[j]] = PatternOf[list[k]]
    BY <2>4 DEF Plans!LastOnes
  <2> QED BY <2>1, <2>2, <2>3, <2>5
<1>4. ASSUME NEW k \in 1..Len(longer) PROVE Possible(longer[k], WorldsOf(longer)[k - 1])
  <2>1. CASE k \in 1..Len(plan)
    <3>1. k - 1 \in 0..Len(plan)
      BY <2>1, <1>1
    <3> QED BY <1>1, <1>2, <2>1, <3>1 DEF Runs
  <2>2. CASE k = Len(plan) + 1
    <3>1. k - 1 = Len(plan) /\ Len(plan) \in 0..Len(plan)
      BY <1>1, <2>2
    <3> QED BY <1>1, <1>2, <1>3, <2>2, <3>1 DEF Runs
  <2> QED BY <1>1, <2>1, <2>2
<1>5. Plans!Effect(a, world) = WorldsOf(longer)[Len(longer)]
  BY <1>1, <1>2 DEF Runs
<1> QED BY <1>4, <1>5 DEF Runs, longer
-------------------------------------------------------------------------------
(* The planner: what is still to be reached on the way to the goals.           *)

\* What is to be reached, one after the other.
Targets == IF problem.goals.kind = "all" THEN <<problem.goals>>
           ELSE [k \in DOMAIN problem.goals.list |-> Plans!All(<<problem.goals.list[k]>>)]

\* The first n targets have been reached, in this order, at these steps of a plan.
Visited(n, at, plan) ==
  \A j \in 1..n : /\ at[j] \in 0..Len(plan)
                  /\ Plans!Subgoals(Targets[j]) \subseteq WorldsOf(plan)[at[j]]
                  /\ \A i \in 1..j : at[i] <= at[j]

\* The tasks contain the tests of the others, in this order, at these positions,
\* the last one at the end.
Ahead(n, pos, tasks) ==
  /\ \A j \in n + 1..Len(Targets) : /\ pos[j] \in DOMAIN tasks
                                     /\ tasks[pos[j]] = Plans!Final(Targets[j])
                                     /\ \A i \in n + 1..j : i < j => pos[i] < pos[j]
  /\ n < Len(Targets) => pos[Len(Targets)] = Len(tasks)

\* A sequence that is tried as a goal is tested as a whole, which always fails.
Hopeless(tasks) ==
  /\ problem.goals.kind = "seq"
  /\ \E p \in DOMAIN tasks : tasks[p] = Plans!Final(problem.goals)
OnTheWay(tasks, plan) ==
  \/ Hopeless(tasks)
  \/ \E n \in 0..Len(Targets) : \E at, pos :
       /\ Visited(n, at, plan) /\ Ahead(n, pos, tasks)
       /\ n = Len(Targets) => tasks = <<>> /\ at[n] = Len(plan)

LEMMA TargetsMean ==
  ASSUME problem \in Problems
  PROVE  /\ Targets \in Seq(Plans!Goals) /\ Len(Targets) \in Nat /\ Len(Targets) >= 1
         /\ \A j \in 1..Len(Targets) : Targets[j].kind = "all"
         /\ problem.goals.kind = "all" => Len(Targets) = 1 /\ Targets[1] = problem.goals
         /\ problem.goals.kind = "seq" =>
              /\ DOMAIN problem.goals.list = 1..Len(Targets)
              /\ \A j \in 1..Len(Targets) : Plans!Subgoals(Targets[j]) = {problem.goals.list[j]}
<1> DEFINE goals == problem.goals
<1>1. goals \in Plans!Goals
  BY ProblemAssumption DEF ProblemAssumption
<1> HIDE DEF goals
<1>2. /\ goals.kind \in {"all", "seq"} /\ goals.list \in Seq(State)
      /\ goals.kind = "seq" => goals.list # <<>>
  BY <1>1, GoalsFields
<1>3. CASE goals.kind = "all"
  <2>1. Targets = <<goals>>
    BY <1>3 DEF Targets, goals
  <2>2. Targets \in Seq(Plans!Goals) /\ Len(Targets) = 1 /\ Targets[1] = goals
    BY <1>1, <2>1
  <2> QED BY <1>3, <2>2 DEF goals
<1>4. CASE goals.kind = "seq"
  <2> DEFINE list == goals.list
             all(k) == Plans!All(<<list[k]>>)
  <2>1. /\ DOMAIN list = 1..Len(list) /\ Len(list) \in Nat /\ \A k \in DOMAIN list : list[k] \in State
        /\ list \in Seq(State) /\ list # <<>>
    BY <1>2, <1>4, SeqMeans
  <2>2. Targets = [k \in DOMAIN list |-> all(k)]
    BY <1>4 DEF Targets, goals
  <2>3. \A k \in DOMAIN list : /\ all(k) \in Plans!Goals /\ all(k).kind = "all"
                               /\ Plans!Subgoals(all(k)) = {list[k]}
    <3> SUFFICES ASSUME NEW k \in DOMAIN list
                 PROVE  /\ all(k) \in Plans!Goals /\ all(k).kind = "all"
                        /\ Plans!Subgoals(all(k)) = {list[k]}
      OBVIOUS
    <3> DEFINE one == <<list[k]>>
    <3>1. one \in Seq(State) /\ DOMAIN one = {1} /\ one[1] = list[k]
      BY <2>1
    <3> HIDE DEF one
    <3>2. Plans!All(one) \in Plans!Goals /\ Plans!All(one).kind = "all" /\ Plans!All(one).list = one
      BY <3>1, AllMeans
    <3>3. Plans!Subgoals(Plans!All(one)) = {list[k]}
      BY <3>1, <3>2 DEF Plans!Subgoals, Plans!ToSet
    <3> QED BY <3>2, <3>3 DEF one
  <2> HIDE DEF list, all
  <2>4. Len(list) >= 1
    BY <2>1
  <2>5. Targets \in Seq(Plans!Goals) /\ Len(Targets) = Len(list)
    <3>1. Targets \in [1..Len(list) -> Plans!Goals]
      BY <2>1, <2>2, <2>3
    <3> QED BY <2>1, <3>1, SeqBuild
  <2>6. DOMAIN list = 1..Len(Targets) /\ \A j \in 1..Len(Targets) : Targets[j] = all(j)
    BY <2>1, <2>2, <2>5
  <2> QED BY <1>4, <2>1, <2>3, <2>4, <2>5, <2>6 DEF goals, list
<1> QED BY <1>2, <1>3, <1>4

\* Tasks in front of the others.
LEMMA InFront ==
  ASSUME NEW tasks \in Seq(PlanTask), tasks # <<>>, NEW pre \in Seq(PlanTask)
  PROVE  /\ DOMAIN tasks = 1..Len(tasks) /\ Len(tasks) \in Nat /\ Len(pre) \in Nat /\ Len(tasks) >= 1
         /\ Head(tasks) = tasks[1]
         /\ pre \o Tail(tasks) \in Seq(PlanTask)
         /\ DOMAIN (pre \o Tail(tasks)) = 1..Len(pre) + Len(tasks) - 1
         /\ Len(pre \o Tail(tasks)) = Len(pre) + Len(tasks) - 1
         /\ \A p \in 2..Len(tasks) : (pre \o Tail(tasks))[Len(pre) + p - 1] = tasks[p]
<1> DEFINE tail == Tail(tasks)
<1>1. /\ DOMAIN tasks = 1..Len(tasks) /\ Len(tasks) \in Nat /\ Len(tasks) >= 1
      /\ Head(tasks) = tasks[1] /\ Len(pre) \in Nat
      /\ tail \in Seq(PlanTask) /\ Len(tail) = Len(tasks) - 1
      /\ \A p \in 1..Len(tasks) - 1 : tail[p] = tasks[p + 1]
  OBVIOUS
<1> HIDE DEF tail
<1>2. /\ pre \o tail \in Seq(PlanTask) /\ Len(pre \o tail) = Len(pre) + Len(tail)
      /\ DOMAIN (pre \o tail) = 1..Len(pre) + Len(tail)
      /\ \A p \in 1..Len(tail) : (pre \o tail)[Len(pre) + p] = tail[p]
  <2>1. tail \in Seq(PlanTask)
    BY <1>1
  <2> QED BY <2>1
<1>3. ASSUME NEW p \in 2..Len(tasks) PROVE (pre \o tail)[Len(pre) + p - 1] = tasks[p]
  <2>1. p - 1 \in 1..Len(tail) /\ p - 1 \in 1..Len(tasks) - 1 /\ (p - 1) + 1 = p
        /\ Len(pre) + p - 1 = Len(pre) + (p - 1)
    BY <1>1
  <2> QED BY <1>1, <1>2, <2>1
<1>4. Len(pre) + Len(tail) = Len(pre) + Len(tasks) - 1
  BY <1>1
<1> QED BY <1>1, <1>2, <1>3, <1>4 DEF tail

\* The first task is replaced, the tests move with the others.
LEMMA Moved ==
  ASSUME NEW tasks \in Seq(PlanTask), tasks # <<>>, NEW pre \in Seq(PlanTask),
         Len(Targets) \in Nat, NEW n \in 0..Len(Targets), n < Len(Targets),
         NEW pos, Ahead(n, pos, tasks), \A j \in n + 1..Len(Targets) : pos[j] # 1
  PROVE  \E moved : Ahead(n, moved, pre \o Tail(tasks))
<1> DEFINE d == Len(pre) - 1
           new == pre \o Tail(tasks)
           moved == [j \in n + 1..Len(Targets) |-> pos[j] + d]
<1>1. /\ DOMAIN tasks = 1..Len(tasks) /\ Len(tasks) \in Nat
      /\ d \in Int /\ d >= -1
      /\ DOMAIN new = 1..Len(tasks) + d /\ Len(new) = Len(tasks) + d
      /\ \A p \in 2..Len(tasks) : p + d \in DOMAIN new /\ new[p + d] = tasks[p]
  <2>1. \A p \in 2..Len(tasks) : p + d = Len(pre) + p - 1
    BY InFront
  <2> QED BY <2>1, InFront
<1> HIDE DEF d, new
<1>2. \A j \in n + 1..Len(Targets) :
        /\ pos[j] \in 2..Len(tasks) /\ tasks[pos[j]] = Plans!Final(Targets[j])
        /\ \A i \in n + 1..j : i < j => pos[i] < pos[j]
  BY <1>1 DEF Ahead
<1>3. ASSUME NEW j \in n + 1..Len(Targets)
      PROVE  /\ moved[j] \in DOMAIN new /\ new[moved[j]] = Plans!Final(Targets[j])
             /\ \A i \in n + 1..j : i < j => moved[i] < moved[j]
  <2>1. pos[j] \in 2..Len(tasks) /\ moved[j] = pos[j] + d
    BY <1>2
  <2>2. \A i \in n + 1..j : i \in n + 1..Len(Targets) /\ pos[i] \in 2..Len(tasks) /\ moved[i] = pos[i] + d
    BY <1>2
  <2> HIDE DEF moved
  <2>3. moved[j] \in DOMAIN new /\ new[moved[j]] = Plans!Final(Targets[j])
    BY <1>1, <1>2, <2>1
  <2>4. \A i \in n + 1..j : i < j => moved[i] < moved[j]
    BY <1>1, <1>2, <2>1, <2>2, SMTT(60)
  <2> QED BY <2>3, <2>4
<1>4. moved[Len(Targets)] = Len(new)
  <2>1. Len(Targets) \in n + 1..Len(Targets) /\ pos[Len(Targets)] = Len(tasks)
    BY DEF Ahead
  <2> QED BY <1>1, <2>1
<1> HIDE DEF moved
<1>5. Ahead(n, moved, new)
  BY <1>3, <1>4 DEF Ahead
<1> QED BY <1>5 DEF new

LEMMA HopelessMoved ==
  ASSUME NEW tasks \in Seq(PlanTask), tasks # <<>>, NEW pre \in Seq(PlanTask),
         Hopeless(tasks), tasks[1] # Plans!Final(problem.goals)
  PROVE  Hopeless(pre \o Tail(tasks))
<1> DEFINE new == pre \o Tail(tasks)
<1>1. PICK p \in DOMAIN tasks : tasks[p] = Plans!Final(problem.goals)
  BY DEF Hopeless
<1>2. /\ p \in 2..Len(tasks) /\ new[Len(pre) + p - 1] = tasks[p]
      /\ Len(pre) + p - 1 \in DOMAIN new
  BY <1>1, InFront
<1> HIDE DEF new
<1> QED BY <1>1, <1>2 DEF Hopeless, new

\* A task that is no test is replaced.
LEMMA Replace ==
  ASSUME problem \in Problems, NEW tasks \in Seq(PlanTask), tasks # <<>>, Head(tasks).do # "final",
         NEW pre \in Seq(PlanTask), NEW plan, OnTheWay(tasks, plan)
  PROVE  OnTheWay(pre \o Tail(tasks), plan)
<1>1. \A g : tasks[1] # Plans!Final(g)
  <2>1. \A g : Plans!Final(g).do = "final"
    BY DEF Plans!Final
  <2> QED BY <2>1, InFront
<1>2. CASE Hopeless(tasks)
  BY <1>1, <1>2, HopelessMoved DEF OnTheWay
<1>3. CASE ~Hopeless(tasks)
  <2>0. PICK n \in 0..Len(Targets) : \E at, pos :
          /\ Visited(n, at, plan) /\ Ahead(n, pos, tasks)
          /\ n = Len(Targets) => tasks = <<>> /\ at[n] = Len(plan)
    BY <1>3 DEF OnTheWay
  <2>1. PICK at, pos :
          /\ Visited(n, at, plan) /\ Ahead(n, pos, tasks)
          /\ n = Len(Targets) => tasks = <<>> /\ at[n] = Len(plan)
    BY <2>0
  <2>2. n < Len(Targets) /\ Len(Targets) \in Nat
    BY <2>1, TargetsMean
  <2>3. \A j \in n + 1..Len(Targets) : pos[j] # 1
    BY <1>1, <2>1 DEF Ahead
  <2>4. \E moved : Ahead(n, moved, pre \o Tail(tasks))
    BY <2>1, <2>2, <2>3, Moved
  <2> QED BY <2>1, <2>2, <2>4 DEF OnTheWay
<1> QED BY <1>2, <1>3

\* A test that the world passes.
LEMMA Tested ==
  ASSUME problem \in Problems, NEW tasks \in Seq(PlanTask), tasks # <<>>, NEW g \in Plans!Goals,
         Head(tasks) = Plans!Final(g), NEW A, NEW plan \in Seq(A),
         Plans!HoldIn(g, WorldsOf(plan)[Len(plan)]), OnTheWay(tasks, plan)
  PROVE  OnTheWay(Tail(tasks), plan)
<1> DEFINE rest == Tail(tasks)
<1>1. <<>> \in Seq(PlanTask) /\ rest \in Seq(PlanTask) /\ <<>> \o rest = rest
  <2>1. rest \in Seq(PlanTask)
    OBVIOUS
  <2> HIDE DEF rest
  <2> QED BY <2>1
<1> HIDE DEF rest
<1>2. \A x, y : Plans!Final(x) = Plans!Final(y) => x = y
  <2>1. \A x : Plans!Final(x).goals = x
    BY DEF Plans!Final
  <2> QED BY <2>1
<1>3. tasks[1] = Plans!Final(g) /\ Len(tasks) \in Nat /\ Len(tasks) >= 1 /\ DOMAIN tasks = 1..Len(tasks)
  BY InFront
<1>4. g.kind = "all" /\ Plans!Subgoals(g) \subseteq WorldsOf(plan)[Len(plan)]
  BY DEF Plans!HoldIn
<1>5. CASE Hopeless(tasks)
  <2>1. problem.goals.kind = "seq"
    BY <1>5 DEF Hopeless
  <2>2. tasks[1] # Plans!Final(problem.goals)
    BY <1>2, <1>3, <1>4, <2>1
  <2>3. Hopeless(<<>> \o Tail(tasks))
    BY <1>1, <1>5, <2>2, HopelessMoved
  <2> QED BY <1>1, <2>3 DEF OnTheWay, rest
<1>6. CASE ~Hopeless(tasks)
  <2>0. PICK n \in 0..Len(Targets) : \E at, pos :
          /\ Visited(n, at, plan) /\ Ahead(n, pos, tasks)
          /\ n = Len(Targets) => tasks = <<>> /\ at[n] = Len(plan)
    BY <1>6 DEF OnTheWay
  <2>1. PICK at, pos :
          /\ Visited(n, at, plan) /\ Ahead(n, pos, tasks)
          /\ n = Len(Targets) => tasks = <<>> /\ at[n] = Len(plan)
    BY <2>0
  <2>2. n < Len(Targets) /\ Len(Targets) \in Nat /\ n \in Nat
    BY <2>1, TargetsMean
  <2>3. \A j \in n + 1..Len(Targets) :
          /\ pos[j] \in 1..Len(tasks) /\ tasks[pos[j]] = Plans!Final(Targets[j])
          /\ \A i \in n + 1..j : i < j => pos[i] < pos[j]
    BY <1>3, <2>1 DEF Ahead
  <2>4. n + 1 \in n + 1..Len(Targets)
    BY <2>2
  <2>5. CASE pos[n + 1] # 1
    <3>1. \A j \in n + 1..Len(Targets) : pos[j] # 1
      <4> SUFFICES ASSUME NEW j \in n + 1..Len(Targets), j # n + 1 PROVE pos[j] # 1
        BY <2>5
      <4>1. n + 1 \in n + 1..j /\ n + 1 < j
        BY <2>2
      <4> QED BY <2>3, <2>4, <4>1
    <3>2. \E moved : Ahead(n, moved, <<>> \o Tail(tasks))
      BY <1>1, <2>1, <2>2, <3>1, Moved
    <3> QED BY <1>1, <2>1, <2>2, <3>2 DEF OnTheWay, rest
  <2>6. CASE pos[n + 1] = 1
    <3> DEFINE reached == [j \in 1..n + 1 |-> IF j = n + 1 THEN Len(plan) ELSE at[j]]
    <3>1. Targets[n + 1] = g
      BY <1>2, <1>3, <2>3, <2>4, <2>6
    <3>2. Len(plan) \in Nat
      OBVIOUS
    <3>3. Visited(n + 1, reached, plan)
      <4> SUFFICES ASSUME NEW j \in 1..n + 1
                   PROVE  /\ reached[j] \in 0..Len(plan)
                          /\ Plans!Subgoals(Targets[j]) \subseteq WorldsOf(plan)[reached[j]]
                          /\ \A i \in 1..j : reached[i] <= reached[j]
        BY DEF Visited
      <4>1. /\ reached[n + 1] = Len(plan)
            /\ \A i \in 1..n : reached[i] = at[i] /\ at[i] \in 0..Len(plan)
        <5>1. \A i \in 1..n : i \in 1..n + 1 /\ i # n + 1
          BY <2>2
        <5>2. n + 1 \in 1..n + 1
          BY <2>2
        <5> QED BY <2>1, <5>1, <5>2 DEF Visited
      <4> HIDE DEF reached
      <4>2. CASE j = n + 1
        <5>1. \A i \in 1..j : i \in 1..n \/ i = n + 1
          BY <2>2, <4>2
        <5>2. \A i \in 1..j : reached[i] <= Len(plan)
          BY <3>2, <4>1, <5>1, SMTT(60)
        <5> QED BY <1>4, <3>1, <3>2, <4>1, <4>2, <5>2
      <4>3. CASE j # n + 1
        <5>1. j \in 1..n /\ \A i \in 1..j : i \in 1..n
          BY <2>2, <4>3
        <5> QED BY <2>1, <4>1, <5>1 DEF Visited
      <4> QED BY <4>2, <4>3
    <3>4. reached[n + 1] = Len(plan)
      BY <2>2
    <3> HIDE DEF reached
    <3>5. CASE n + 1 = Len(Targets)
      <4>1. Len(tasks) = 1
        BY <2>1, <2>2, <2>6, <3>5 DEF Ahead
      <4>2. rest = <<>>
        <5>1. Len(rest) = 0
          BY <4>1 DEF rest
        <5> QED BY <1>1, <5>1
      <4>3. Ahead(n + 1, pos, rest)
        BY <2>2, <3>5 DEF Ahead
      <4>4. n + 1 \in 0..Len(Targets)
        BY <2>2
      <4> QED BY <3>3, <3>4, <4>2, <4>3, <4>4 DEF OnTheWay, rest
    <3>6. CASE n + 1 # Len(Targets)
      <4>1. n + 1 \in 0..Len(Targets) /\ n + 1 < Len(Targets)
        BY <2>2, <3>6
      <4>2. \A j \in n + 1 + 1..Len(Targets) :
              /\ j \in n + 1..Len(Targets) /\ n + 1 \in n + 1..j /\ n + 1 < j
              /\ \A i \in n + 1 + 1..j : i \in n + 1..j
        BY <2>2
      <4>3. \A j \in n + 1 + 1..Len(Targets) : pos[j] # 1
        BY <2>3, <2>4, <2>6, <4>2
      <4>4. Ahead(n + 1, pos, tasks)
        BY <2>1, <4>1, <4>2 DEF Ahead
      <4>5. \E moved : Ahead(n + 1, moved, <<>> \o Tail(tasks))
        BY <1>1, <2>2, <4>1, <4>3, <4>4, Moved
      <4>6. PICK moved : Ahead(n + 1, moved, rest)
        BY <1>1, <4>5 DEF rest
      <4> DEFINE m == n + 1
      <4>7. m \in 0..Len(Targets) /\ m # Len(Targets) /\ Visited(m, reached, plan) /\ Ahead(m, moved, rest)
        BY <3>3, <3>6, <4>1, <4>6
      <4> HIDE DEF m
      <4>8. OnTheWay(rest, plan)
        BY <4>7 DEF OnTheWay
      <4> QED BY <4>8 DEF rest
    <3> QED BY <3>5, <3>6
  <2> QED BY <2>5, <2>6
<1> QED BY <1>5, <1>6

\* An action is added to the plan.
LEMMA Extend ==
  ASSUME problem \in Problems, NEW tasks, tasks # <<>>,
         NEW A, NEW plan \in Seq(A), NEW a \in A, OnTheWay(tasks, plan)
  PROVE  OnTheWay(tasks, Append(plan, a))
<1> DEFINE longer == Append(plan, a)
<1>1. Len(plan) \in Nat /\ Len(longer) = Len(plan) + 1
  OBVIOUS
<1>2. \A k \in 0..Len(plan) : WorldsOf(longer)[k] = WorldsOf(plan)[k] /\ k \in 0..Len(longer)
  BY <1>1, WorldsAppend
<1> HIDE DEF longer
<1>3. CASE Hopeless(tasks)
  BY <1>3 DEF OnTheWay, longer
<1>4. CASE ~Hopeless(tasks)
  <2>0. PICK n \in 0..Len(Targets) : \E at, pos :
          /\ Visited(n, at, plan) /\ Ahead(n, pos, tasks)
          /\ n = Len(Targets) => tasks = <<>> /\ at[n] = Len(plan)
    BY <1>4 DEF OnTheWay
  <2>1. PICK at, pos :
          /\ Visited(n, at, plan) /\ Ahead(n, pos, tasks)
          /\ n = Len(Targets) => tasks = <<>> /\ at[n] = Len(plan)
    BY <2>0
  <2>2. Visited(n, at, longer)
    BY <1>2, <2>1 DEF Visited
  <2>3. OnTheWay(tasks, longer)
    BY <2>1, <2>2 DEF OnTheWay
  <2> QED BY <2>3 DEF longer
<1> QED BY <1>3, <1>4

LEMMA ConcatPair ==
  ASSUME NEW A, NEW s \in Seq(A), NEW t \in Seq(A), NEW m \in Nat
  PROVE  Len(s) = 2 * m /\ Len(t) = 2 =>
           /\ s \o t \in Seq(A) /\ Len(s \o t) = 2 * (m + 1)
           /\ (s \o t)[2 * (m + 1)] = t[2]
           /\ \A k \in 1..m : (s \o t)[2 * k] = s[2 * k]
<1> DEFINE st == s \o t
<1>1. /\ st \in Seq(A) /\ Len(st) = Len(s) + Len(t)
      /\ \A i \in 1..Len(s) : st[i] = s[i]
      /\ \A i \in 1..Len(t) : st[Len(s) + i] = t[i]
  OBVIOUS
<1> HIDE DEF st
<1> SUFFICES ASSUME Len(s) = 2 * m, Len(t) = 2
             PROVE  /\ st \in Seq(A) /\ Len(st) = 2 * (m + 1)
                    /\ st[2 * (m + 1)] = t[2]
                    /\ \A k \in 1..m : st[2 * k] = s[2 * k]
  BY DEF st
<1>2. 2 * (m + 1) = Len(s) + 2 /\ 2 \in 1..Len(t) /\ \A k \in 1..m : 2 * k \in 1..Len(s)
  OBVIOUS
<1>3. st[Len(s) + 2] = t[2]
  BY <1>1, <1>2
<1> QED BY <1>1, <1>2, <1>3

\* Of sequences of two, one after the other, the second ones.
LEMMA FlattenPairs ==
  ASSUME NEW A, NEW seqs \in Seq(Seq(A)), Len(seqs) # 0,
         \A k \in DOMAIN seqs : Len(seqs[k]) = 2
  PROVE  /\ Len(FlattenSeq(seqs)) = 2 * Len(seqs)
         /\ \A k \in DOMAIN seqs : FlattenSeq(seqs)[2 * k] = seqs[k][2]
<1>0. Len(seqs) \in Nat /\ DOMAIN seqs = 1..Len(seqs) /\ \A k \in 1..Len(seqs) : seqs[k] \in Seq(A)
  OBVIOUS
<1> DEFINE flat == CHOOSE g : Flattens(g, seqs, Len(seqs))
<1>1. FlattenSeq(seqs) = flat[Len(seqs)]
  BY DEF FlattenSeq, Flattens
<1>2. Flattens(flat, seqs, Len(seqs))
  BY <1>0, FlattenExists
<1> HIDE DEF flat
<1>3. \A i \in 1..Len(seqs) : flat[i] = IF i = 1 THEN seqs[i] ELSE flat[i - 1] \o seqs[i]
  BY <1>2 DEF Flattens
<1> DEFINE Good(m) == /\ flat[m] \in Seq(A) /\ Len(flat[m]) = 2 * m
                      /\ \A k \in 1..m : flat[m][2 * k] = seqs[k][2]
           S == {m \in Nat : m \in 1..Len(seqs) => Good(m)}
<1>4. 0 \in S
  OBVIOUS
<1>5. ASSUME NEW m \in Nat, m \in S PROVE m + 1 \in S
  <2> SUFFICES ASSUME m + 1 \in 1..Len(seqs) PROVE Good(m + 1)
    OBVIOUS
  <2>1. CASE m = 0
    <3>1. flat[1] = seqs[1] /\ 1..1 = {1} /\ 1 \in 1..Len(seqs)
      BY <1>3, <2>1
    <3>2. Good(1)
      BY <1>0, <3>1
    <3> QED BY <2>1, <3>2
  <2>2. CASE m # 0
    <3>1. m \in 1..Len(seqs) /\ Good(m)
      BY <1>0, <1>5, <2>2
    <3> DEFINE one == flat[m]
               two == seqs[m + 1]
    <3>2. flat[m + 1] = one \o two
      <4>1. m + 1 # 1 /\ (m + 1) - 1 = m
        BY <2>2
      <4> QED BY <1>3, <4>1
    <3>3. one \in Seq(A) /\ two \in Seq(A) /\ Len(one) = 2 * m /\ Len(two) = 2
          /\ \A k \in 1..m : one[2 * k] = seqs[k][2]
      BY <1>0, <3>1
    <3> HIDE DEF one, two
    <3>4. /\ one \o two \in Seq(A) /\ Len(one \o two) = 2 * (m + 1)
          /\ (one \o two)[2 * (m + 1)] = two[2]
          /\ \A k \in 1..m : (one \o two)[2 * k] = one[2 * k]
      BY <3>3, ConcatPair
    <3>7. \A k \in 1..m + 1 : k \in 1..m \/ k = m + 1
      OBVIOUS
    <3>8. \A k \in 1..m + 1 : (one \o two)[2 * k] = seqs[k][2]
      BY <3>3, <3>4, <3>7 DEF two
    <3> QED BY <3>2, <3>4, <3>8
  <2> QED BY <2>1, <2>2
<1>6. Nat \subseteq S
  <2> HIDE DEF S
  <2> QED BY <1>4, <1>5, SetInduction
<1>7. Good(Len(seqs))
  <2>1. \A m \in S : m \in 1..Len(seqs) => Good(m)
    OBVIOUS
  <2>2. Len(seqs) \in 1..Len(seqs)
    BY <1>0
  <2> HIDE DEF S, Good
  <2> QED BY <1>0, <1>6, <2>1, <2>2
<1> QED BY <1>0, <1>1, <1>7

\* The tasks that a problem is posed with.
\* The alternatives a problem is posed with have nothing in their plans and the
\* tests of all targets ahead of them, or the one that always fails.
PosedWell ==
  /\ Runs(<<>>, problem.world)
  /\ <<Plans!Solve(problem.goals, {}), Plans!Final(problem.goals)>> \in Seq(PlanTask)
  /\ OnTheWay(<<Plans!Solve(problem.goals, {}), Plans!Final(problem.goals)>>, <<>>)
  /\ problem.goals.kind = "seq" => /\ Plans!Sequential(problem.goals) \in Seq(PlanTask)
                                   /\ OnTheWay(Plans!Sequential(problem.goals), <<>>)

LEMMA PosedOnTheWay == problem \in Problems => PosedWell
<1> SUFFICES ASSUME problem \in Problems PROVE PosedWell
  OBVIOUS
<1> DEFINE goals == problem.goals
           pair == <<Plans!Solve(goals, {}), Plans!Final(goals)>>
<1>1. goals \in Plans!Goals
  BY ProblemAssumption DEF ProblemAssumption
<1>2. pair \in Seq(PlanTask) /\ DOMAIN pair = {1, 2} /\ Len(pair) = 2 /\ pair[2] = Plans!Final(goals)
  <2> DEFINE t1 == Plans!Solve(goals, {})
             t2 == Plans!Final(goals)
  <2>1. t1 \in PlanTask /\ t2 \in PlanTask
    BY <1>1, TaskMeans
  <2> HIDE DEF t1, t2, goals
  <2>2. <<t1, t2>> \in Seq(PlanTask) /\ DOMAIN <<t1, t2>> = {1, 2} /\ Len(<<t1, t2>>) = 2 /\ <<t1, t2>>[2] = t2
    BY <2>1
  <2> QED BY <2>2 DEF t1, t2
<1>3. \A tasks, pos : Ahead(0, pos, tasks) => OnTheWay(tasks, <<>>)
  <2>1. \A at : Visited(0, at, <<>>)
    BY DEF Visited
  <2>2. 0 \in 0..Len(Targets) /\ 0 # Len(Targets)
    BY TargetsMean
  <2> QED BY <2>1, <2>2 DEF OnTheWay
<1> HIDE DEF pair
<1>4. OnTheWay(pair, <<>>)
  <2>1. CASE goals.kind = "seq"
    <3>1. Hopeless(pair)
      BY <1>2, <2>1 DEF Hopeless
    <3> QED BY <3>1 DEF OnTheWay
  <2>2. CASE goals.kind # "seq"
    <3> DEFINE pos == [j \in {1} |-> 2]
    <3>1. Len(Targets) = 1 /\ Targets[1] = goals
      BY <1>1, <2>2, TargetsMean, GoalsFields
    <3>2. pos[1] = 2
      OBVIOUS
    <3> HIDE DEF pos
    <3>3. \A j \in 0 + 1..1 : j = 1
      OBVIOUS
    <3>4. Ahead(0, pos, pair)
      BY <1>2, <3>1, <3>2, <3>3 DEF Ahead
    <3> QED BY <1>3, <3>4
  <2> QED BY <2>1, <2>2
<1>5. ASSUME goals.kind = "seq"
      PROVE  Plans!Sequential(goals) \in Seq(PlanTask) /\ OnTheWay(Plans!Sequential(goals), <<>>)
  <2> DEFINE list == goals.list
             all(k) == Plans!All(<<list[k]>>)
             parts == [k \in DOMAIN list |-> <<Plans!Solve(all(k), {}), Plans!Final(all(k))>>]
             flat == Plans!Sequential(goals)
  <2>1. flat \in Seq(PlanTask)
    BY <1>1, SequentialType
  <2>2. flat = FlattenSeq(parts)
    BY PlansMeans DEF Plans!Sequential
  <2>3. /\ DOMAIN list = 1..Len(Targets) /\ list \in Seq(State) /\ Len(Targets) \in Nat /\ Len(Targets) >= 1
        /\ Targets = [k \in DOMAIN list |-> all(k)]
        /\ \A k \in DOMAIN list : Targets[k] \in Plans!Goals
    <3>1. Targets = [k \in DOMAIN list |-> all(k)]
      BY <1>5 DEF Targets
    <3>2. list \in Seq(State)
      BY <1>1, GoalsFields
    <3>3. DOMAIN list = 1..Len(Targets) /\ Len(Targets) \in Nat /\ Len(Targets) >= 1 /\ Targets \in Seq(Plans!Goals)
      BY <1>5, TargetsMean
    <3>4. \A k \in 1..Len(Targets) : Targets[k] \in Plans!Goals
      BY <3>3
    <3> QED BY <3>1, <3>2, <3>3, <3>4
  <2>4. \A k \in DOMAIN list : all(k) \in Plans!Goals /\ all(k) = Targets[k]
    BY <2>3
  <2>5. DOMAIN parts = DOMAIN list /\ parts = [k \in DOMAIN list |-> parts[k]]
    OBVIOUS
  <2>6. ASSUME NEW k \in DOMAIN list
        PROVE  parts[k] \in Seq(PlanTask) /\ Len(parts[k]) = 2 /\ parts[k][2] = Plans!Final(Targets[k])
    <3> DEFINE t1 == Plans!Solve(all(k), {})
               t2 == Plans!Final(all(k))
    <3>1. parts[k] = <<t1, t2>>
      OBVIOUS
    <3>2. t1 \in PlanTask /\ t2 \in PlanTask
      BY <2>4, TaskMeans
    <3>3. t2 = Plans!Final(Targets[k])
      BY <2>4
    <3> HIDE DEF t1, t2, parts
    <3>4. <<t1, t2>> \in Seq(PlanTask) /\ Len(<<t1, t2>>) = 2 /\ <<t1, t2>>[2] = t2
      BY <3>2
    <3> QED BY <3>1, <3>3, <3>4
  <2> HIDE DEF parts, all, list, flat
  <2>7. parts \in Seq(Seq(PlanTask))
    <3>1. \A k \in DOMAIN list : parts[k] \in Seq(PlanTask)
      BY <2>6
    <3> QED BY <2>3, <2>5, <3>1, SeqMap
  <2>8. Len(parts) = Len(Targets)
    <3>1. parts \in [1..Len(Targets) -> Seq(PlanTask)]
      BY <2>3, <2>5, <2>6
    <3> QED BY <2>3, <3>1, SeqBuild
  <2>9. /\ Len(flat) = 2 * Len(Targets)
        /\ \A k \in 1..Len(Targets) : flat[2 * k] = Plans!Final(Targets[k])
    <3>1. Len(parts) # 0
      BY <2>3, <2>8
    <3>3. \A k \in DOMAIN parts : Len(parts[k]) = 2 /\ parts[k][2] = Plans!Final(Targets[k])
      BY <2>5, <2>6
    <3>2. /\ Len(FlattenSeq(parts)) = 2 * Len(parts)
          /\ \A k \in DOMAIN parts : FlattenSeq(parts)[2 * k] = parts[k][2]
      BY <2>7, <3>1, <3>3, FlattenPairs
    <3> QED BY <2>2, <2>3, <2>5, <2>8, <3>2, <3>3
  <2>10. DOMAIN flat = 1..2 * Len(Targets)
    BY <2>1, <2>9
  <2> DEFINE pos == [j \in 1..Len(Targets) |-> 2 * j]
  <2>11. \A j \in 1..Len(Targets) : pos[j] = 2 * j /\ 2 * j \in DOMAIN flat /\ \A i \in 1..j : i \in 1..Len(Targets)
    BY <2>3, <2>10
  <2> HIDE DEF pos
  <2>12. Ahead(0, pos, flat)
    <3>1. 0 + 1 = 1 /\ Len(Targets) \in 1..Len(Targets)
      BY <2>3
    <3>2. ASSUME NEW j \in 1..Len(Targets)
          PROVE  /\ pos[j] \in DOMAIN flat /\ flat[pos[j]] = Plans!Final(Targets[j])
                 /\ \A i \in 1..j : i < j => pos[i] < pos[j]
      <4>1. \A i \in 1..j : i < j => pos[i] < pos[j]
        BY <2>11
      <4> QED BY <2>9, <2>11, <4>1
    <3>3. pos[Len(Targets)] = Len(flat)
      BY <2>9, <2>11, <3>1
    <3> QED BY <3>1, <3>2, <3>3 DEF Ahead
  <2> QED BY <1>3, <2>1, <2>12 DEF flat
<1>6. Runs(<<>>, problem.world)
  <2>1. <<>> \in Seq(State) /\ Len(<<>>) = 0
    OBVIOUS
  <2>2. WorldsOf(<<>>)[0] = problem.world
    BY <2>1, WorldsMeans
  <2> QED BY <2>1, <2>2 DEF Runs
<1> QED BY <1>2, <1>4, <1>5, <1>6 DEF pair, PosedWell

LEMMA PosedNext == (problem \in Problems => PosedWell)'
BY PosedOnTheWay, PTL
-------------------------------------------------------------------------------
(* The planner: one step.                                                      *)

LEMMA PlanCases ==
  ASSUME [Next]_vars
  PROVE  \/ UNCHANGED planVars
         \/ \E p \in Problems : Plans!Pose(p)
         \/ Plans!SolveNothing \/ Plans!SolveGoals \/ Plans!Overflow
         \/ Plans!DoAction \/ Plans!CannotDo \/ Plans!FinalHolds \/ Plans!FinalFails
         \/ Plans!Solved \/ Plans!NotSolved
BY DEF Next, vars, Plans!Next, Plans!Step

LEMMA LibraryStays ==
  ASSUME [Next]_vars
  PROVE  library' = library /\ PlanTask' = PlanTask /\ PlanAlternative' = PlanAlternative /\ Ops' = Ops
<1>1. library' = library
  BY PlanCases DEF planVars, Plans!Pose, Plans!SolveNothing, Plans!SolveGoals, Plans!Overflow,
     Plans!DoAction, Plans!CannotDo, Plans!FinalHolds, Plans!FinalFails, Plans!Solved, Plans!NotSolved
<1> QED BY <1>1 DEF PlanTask, PlanAlternative, Ops, ToSet

\* An alternative can be carried out so far, and leads to the goals.
OnCourse(x) == Runs(x.plan, x.world) /\ OnTheWay(x.tasks, x.plan)
PlanInv == PlanType /\ (outcome.is = "searching" => \A x \in ToSet(alternatives) : OnCourse(x))

LEMMA AlternativeMeans ==
  ASSUME NEW tasks \in Seq(PlanTask), NEW world \in SUBSET State, NEW plan \in Seq(ToSet(library))
  PROVE  /\ Plans!Alternative(tasks, world, plan) \in PlanAlternative
         /\ Plans!Alternative(tasks, world, plan).tasks = tasks
         /\ Plans!Alternative(tasks, world, plan).world = world
         /\ Plans!Alternative(tasks, world, plan).plan = plan
BY DEF Plans!Alternative, PlanAlternative

LEMMA AlternativeFields ==
  ASSUME NEW x \in PlanAlternative
  PROVE  x.tasks \in Seq(PlanTask) /\ x.world \in SUBSET State /\ x.plan \in Seq(ToSet(library))
BY DEF PlanAlternative

\* The alternative in front, the others, and what the first task is.
LEMMA CurrentMeans ==
  ASSUME PlanInv, outcome.is = "searching", alternatives # <<>>
  PROVE  /\ Plans!Current \in PlanAlternative /\ OnCourse(Plans!Current)
         /\ Plans!Current.tasks \in Seq(PlanTask) /\ Plans!Current.world \in SUBSET State
         /\ Plans!Current.plan \in Seq(ToSet(library))
         /\ Plans!Current.tasks # <<>> =>
              /\ Plans!Task \in PlanTask /\ Plans!Task = Head(Plans!Current.tasks)
              /\ Tail(Plans!Current.tasks) \in Seq(PlanTask)
         /\ Tail(alternatives) \in Seq(PlanAlternative)
         /\ \A x \in ToSet(Tail(alternatives)) : OnCourse(x)
<1> DEFINE list == alternatives
           current == Plans!Current
           tasks == Plans!Current.tasks
<1>1. list \in Seq(PlanAlternative) /\ list # <<>> /\ \A x \in ToSet(list) : OnCourse(x)
  BY DEF PlanInv, PlanType
<1>2. current = Head(list)
  BY DEF Plans!Current
<1> HIDE DEF list, current
<1>3. current \in PlanAlternative /\ current \in ToSet(list)
      /\ Tail(list) \in Seq(PlanAlternative) /\ ToSet(Tail(list)) \subseteq ToSet(list)
  BY <1>1, <1>2, HeadTailMeans
<1>4. current.tasks \in Seq(PlanTask) /\ current.world \in SUBSET State /\ current.plan \in Seq(ToSet(library))
  BY <1>3, AlternativeFields
<1>5. tasks \in Seq(PlanTask) /\ Plans!Task = Head(tasks)
  BY <1>4 DEF current, Plans!Task
<1> HIDE DEF tasks
<1>6. tasks # <<>> => Head(tasks) \in PlanTask /\ Tail(tasks) \in Seq(PlanTask)
  BY <1>5, HeadTailMeans
<1> QED BY <1>1, <1>3, <1>4, <1>5, <1>6 DEF list, current, tasks

\* New alternatives in front of the others.
LEMMA NewAlternatives ==
  ASSUME PlanInv, [Next]_vars, outcome.is = "searching", alternatives # <<>>,
         problem' = problem, outcome' = outcome,
         NEW new \in Seq(PlanAlternative), \A x \in ToSet(new) : OnCourse(x),
         alternatives' = new \o Tail(alternatives)
  PROVE  PlanInv'
<1>1. Tail(alternatives) \in Seq(PlanAlternative) /\ \A x \in ToSet(Tail(alternatives)) : OnCourse(x)
  BY CurrentMeans
<1> DEFINE rest == Tail(alternatives)
<1> HIDE DEF rest
<1>2. new \o rest \in Seq(PlanAlternative) /\ ToSet(new \o rest) = ToSet(new) \cup ToSet(rest)
  BY <1>1, ConcatMeans, ZenonT(60) DEF rest
<1>3. alternatives' \in Seq(PlanAlternative) /\ \A x \in ToSet(alternatives') : OnCourse(x)
  BY <1>1, <1>2 DEF rest
<1>4. \A x : OnCourse(x)' = OnCourse(x)
  BY DEF OnCourse, Runs, OnTheWay, Visited, Ahead, Hopeless, Targets, WorldsOf
<1>5. library' = library /\ PlanAlternative' = PlanAlternative /\ Ops' = Ops
  BY LibraryStays
<1>6. ToSet(alternatives)' = ToSet(alternatives')
  BY DEF ToSet
<1>7. PlanType'
  BY <1>3, <1>5 DEF PlanInv, PlanType
<1> QED BY <1>3, <1>4, <1>6, <1>7 DEF PlanInv

\* The search goes on, or it does not, with the alternative in front.
LEMMA Continued ==
  ASSUME PlanInv, [Next]_vars, outcome.is = "searching", alternatives # <<>>,
         problem' = problem, outcome' = outcome,
         NEW tasks \in Seq(PlanTask), NEW world \in SUBSET State, NEW plan \in Seq(ToSet(library)),
         Runs(plan, world), OnTheWay(tasks, plan),
         alternatives' = <<Plans!Alternative(tasks, world, plan)>> \o Tail(alternatives)
  PROVE  PlanInv'
<1> DEFINE one == Plans!Alternative(tasks, world, plan)
           new == <<one>>
<1>1. one \in PlanAlternative /\ OnCourse(one)
  BY AlternativeMeans DEF OnCourse
<1> HIDE DEF one
<1>2. new \in Seq(PlanAlternative) /\ ToSet(new) = {one}
  BY <1>1 DEF ToSet
<1>3. \A x \in ToSet(new) : OnCourse(x)
  BY <1>1, <1>2
<1>4. alternatives' = new \o Tail(alternatives)
  BY DEF one
<1> HIDE DEF new
<1> QED BY <1>2, <1>3, <1>4, NewAlternatives

LEMMA Dropped ==
  ASSUME PlanInv, [Next]_vars, outcome.is = "searching", alternatives # <<>>,
         problem' = problem, outcome' = outcome, alternatives' = Tail(alternatives)
  PROVE  PlanInv'
<1>1. <<>> \in Seq(PlanAlternative) /\ ToSet(<<>>) = {}
  BY DEF ToSet
<1>2. Tail(alternatives) \in Seq(PlanAlternative)
  BY CurrentMeans
<1> DEFINE rest == Tail(alternatives)
<1>3. alternatives' = <<>> \o rest
  <2> HIDE DEF rest
  <2>1. rest \in Seq(PlanAlternative)
    BY <1>2 DEF rest
  <2>2. <<>> \o rest = rest
    BY <2>1
  <2> QED BY <2>2 DEF rest
<1> QED BY <1>1, <1>3, NewAlternatives

LEMMA PlanInit == Init => PlanInv /\ PlanExecutes
<1> SUFFICES ASSUME Init PROVE PlanInv /\ PlanExecutes
  OBVIOUS
<1>1. outcome = [is |-> "none"] /\ alternatives = <<>>
  BY DEF Init, Plans!Init
<1>2. library \in Seq(Plans!Action(Ops))
  <2>1. PICK l \in Loaded : <<base, library>> = l
    BY DEF Init
  <2>2. l[2] = library
    BY <2>1
  <2>3. l[2] \in Seq(Plans!Action({l[2][k].op : k \in DOMAIN l[2]}))
    BY LibraryAssumption DEF LibraryAssumption
  <2> QED BY <2>2, <2>3 DEF Ops
<1>3. <<>> \in Seq(PlanAlternative)
  OBVIOUS
<1> QED BY <1>1, <1>2, <1>3 DEF PlanInv, PlanType, PlanExecutes

\* The tasks without the first, which is not a test.
LEMMA Skipped ==
  ASSUME problem \in Problems, NEW tasks \in Seq(PlanTask), tasks # <<>>, Head(tasks).do # "final",
         NEW plan, OnTheWay(tasks, plan)
  PROVE  OnTheWay(Tail(tasks), plan)
<1> DEFINE rest == Tail(tasks)
<1>1. <<>> \in Seq(PlanTask) /\ rest \in Seq(PlanTask)
  OBVIOUS
<1>2. OnTheWay(<<>> \o Tail(tasks), plan)
  BY <1>1, Replace
<1>3. <<>> \o rest = rest
  <2> HIDE DEF rest
  <2> QED BY <1>1
<1> QED BY <1>2, <1>3

LEMMA StepSolveNothing ==
  ASSUME PlanInv, [Next]_vars, Plans!SolveNothing
  PROVE  PlanInv'
<1> DEFINE tasks == Plans!Current.tasks
           world == Plans!Current.world
           plan == Plans!Current.plan
<1>1. /\ outcome.is = "searching" /\ alternatives # <<>> /\ tasks # <<>> /\ Plans!Task.do = "solve"
      /\ problem' = problem /\ outcome' = outcome
      /\ alternatives' = <<Plans!Alternative(Tail(tasks), world, plan)>> \o Tail(alternatives)
  BY DEF Plans!SolveNothing, Plans!Searching, Plans!Continue
<1>2. /\ tasks \in Seq(PlanTask) /\ Tail(tasks) \in Seq(PlanTask) /\ world \in SUBSET State
      /\ plan \in Seq(ToSet(library)) /\ Plans!Task = Head(tasks)
      /\ Runs(plan, world) /\ OnTheWay(tasks, plan)
  BY <1>1, CurrentMeans DEF OnCourse
<1>3. problem \in Problems
  BY <1>1 DEF PlanInv, PlanType
<1> HIDE DEF tasks, world, plan
<1>4. Head(tasks).do # "final"
  BY <1>1, <1>2
<1>5. OnTheWay(Tail(tasks), plan)
  BY <1>1, <1>2, <1>3, <1>4, Skipped
<1> QED BY <1>1, <1>2, <1>5, Continued

LEMMA StepSolveGoals ==
  ASSUME PlanInv, [Next]_vars, Plans!SolveGoals
  PROVE  PlanInv'
<1> DEFINE tasks == Plans!Current.tasks
           world == Plans!Current.world
           plan == Plans!Current.plan
           task == Plans!Task
           attempts == Plans!Attempts(task.goals, task.forbidden, world)
           new == [k \in DOMAIN attempts |-> Plans!Alternative(attempts[k] \o Tail(tasks), world, plan)]
<1>1. /\ outcome.is = "searching" /\ alternatives # <<>> /\ tasks # <<>> /\ task.do = "solve"
      /\ problem' = problem /\ outcome' = outcome
      /\ alternatives' = new \o Tail(alternatives)
  BY DEF Plans!SolveGoals, Plans!Searching
<1>2. /\ tasks \in Seq(PlanTask) /\ world \in SUBSET State
      /\ plan \in Seq(ToSet(library)) /\ task = Head(tasks) /\ task \in PlanTask
      /\ Runs(plan, world) /\ OnTheWay(tasks, plan)
  BY <1>1, CurrentMeans DEF OnCourse
<1>3. problem \in Problems /\ library \in Seq(Plans!Action(Ops))
  BY <1>1, SMTT(60) DEF PlanInv, PlanType
<1>4. task.goals \in Plans!Goals /\ task.forbidden \in SUBSET Ops
  BY <1>1, <1>2, TaskFields
<1>5. attempts \in Seq(Seq(PlanTask))
  BY <1>3, <1>4, AttemptsType
<1>6. /\ DOMAIN new = DOMAIN attempts /\ new = [k \in DOMAIN attempts |-> new[k]]
      /\ \A k \in DOMAIN attempts : new[k] = Plans!Alternative(attempts[k] \o Tail(tasks), world, plan)
  OBVIOUS
<1> HIDE DEF new, attempts, tasks, world, plan, task
<1>7. Head(tasks).do # "final"
  BY <1>1, <1>2
<1>8. ASSUME NEW k \in DOMAIN attempts PROVE new[k] \in PlanAlternative /\ OnCourse(new[k])
  <2>1. attempts[k] \in Seq(PlanTask)
    BY <1>5
  <2>2. attempts[k] \o Tail(tasks) \in Seq(PlanTask)
    BY <1>1, <1>2, <2>1, InFront
  <2>3. OnTheWay(attempts[k] \o Tail(tasks), plan)
    BY <1>1, <1>2, <1>3, <1>7, <2>1, Replace
  <2> DEFINE them == attempts[k] \o Tail(tasks)
  <2>4. them \in Seq(PlanTask) /\ OnTheWay(them, plan) /\ new[k] = Plans!Alternative(them, world, plan)
    BY <1>6, <2>2, <2>3
  <2> HIDE DEF them
  <2> QED BY <1>2, <2>4, AlternativeMeans DEF OnCourse
<1>9. new \in Seq(PlanAlternative)
  BY <1>5, <1>6, <1>8, SeqMap
<1>10. \A x \in ToSet(new) : OnCourse(x)
  BY <1>6, <1>8 DEF ToSet
<1> QED BY <1>1, <1>9, <1>10, NewAlternatives

LEMMA StepDoAction ==
  ASSUME PlanInv, [Next]_vars, Plans!DoAction
  PROVE  PlanInv'
<1> DEFINE tasks == Plans!Current.tasks
           world == Plans!Current.world
           plan == Plans!Current.plan
           task == Plans!Task
           action == task.action
<1>1. /\ outcome.is = "searching" /\ alternatives # <<>> /\ tasks # <<>> /\ task.do = "apply"
      /\ problem' = problem /\ outcome' = outcome /\ Plans!CanDo(action, world)
      /\ alternatives' = <<Plans!Alternative(Tail(tasks), Plans!Effect(action, world), Append(plan, action))>>
                           \o Tail(alternatives)
  BY DEF Plans!DoAction, Plans!Searching, Plans!Continue
<1>2. /\ tasks \in Seq(PlanTask) /\ Tail(tasks) \in Seq(PlanTask) /\ world \in SUBSET State
      /\ plan \in Seq(ToSet(library)) /\ task = Head(tasks) /\ task \in PlanTask
      /\ Runs(plan, world) /\ OnTheWay(tasks, plan)
  BY <1>1, CurrentMeans DEF OnCourse
<1>3. problem \in Problems /\ library \in Seq(Plans!Action(Ops))
  BY <1>1 DEF PlanInv, PlanType
<1>4. action \in ToSet(library)
  BY <1>1, <1>2, TaskFields
<1>5. action.pre \in Plans!Goals /\ action.add \subseteq State /\ action.partial \subseteq State
  BY <1>3, <1>4, ActionFields
<1> HIDE DEF tasks, world, plan, action, task
<1>6. Plans!Effect(action, world) \in SUBSET State
  BY <1>2, <1>5 DEF Plans!Effect
<1>7. Append(plan, action) \in Seq(ToSet(library))
  BY <1>2, <1>4
<1>8. Runs(Append(plan, action), Plans!Effect(action, world))
  BY <1>1, <1>2, <1>4, <1>5, DoRuns
<1>9. Head(tasks).do # "final"
  BY <1>1, <1>2
<1>10. OnTheWay(tasks, Append(plan, action))
  BY <1>1, <1>2, <1>3, <1>4, Extend
<1>11. OnTheWay(Tail(tasks), Append(plan, action))
  BY <1>1, <1>2, <1>3, <1>9, <1>10, Skipped
<1> QED BY <1>1, <1>2, <1>6, <1>7, <1>8, <1>11, Continued

LEMMA StepFinalHolds ==
  ASSUME PlanInv, [Next]_vars, Plans!FinalHolds
  PROVE  PlanInv'
<1> DEFINE tasks == Plans!Current.tasks
           world == Plans!Current.world
           plan == Plans!Current.plan
           task == Plans!Task
<1>1. /\ outcome.is = "searching" /\ alternatives # <<>> /\ tasks # <<>> /\ task.do = "final"
      /\ problem' = problem /\ outcome' = outcome /\ Plans!HoldIn(task.goals, world)
      /\ alternatives' = <<Plans!Alternative(Tail(tasks), world, plan)>> \o Tail(alternatives)
  BY DEF Plans!FinalHolds, Plans!Searching, Plans!Continue
<1>2. /\ tasks \in Seq(PlanTask) /\ Tail(tasks) \in Seq(PlanTask) /\ world \in SUBSET State
      /\ plan \in Seq(ToSet(library)) /\ task = Head(tasks) /\ task \in PlanTask
      /\ Runs(plan, world) /\ OnTheWay(tasks, plan)
  BY <1>1, CurrentMeans DEF OnCourse
<1>3. problem \in Problems
  BY <1>1 DEF PlanInv, PlanType
<1>4. task.goals \in Plans!Goals /\ task = Plans!Final(task.goals)
  BY <1>1, <1>2, TaskFields
<1> HIDE DEF tasks, world, plan, task
<1>5. Plans!HoldIn(task.goals, WorldsOf(plan)[Len(plan)])
  BY <1>1, <1>2 DEF Runs
<1>6. OnTheWay(Tail(tasks), plan)
  BY <1>1, <1>2, <1>3, <1>4, <1>5, Tested
<1> QED BY <1>1, <1>2, <1>6, Continued

LEMMA StepPose ==
  ASSUME PlanInv, [Next]_vars, NEW p \in Problems, Plans!Pose(p)
  PROVE  PlanInv' /\ PlanExecutes'
<1> DEFINE goals == p.goals
           pair == <<Plans!Solve(goals, {}), Plans!Final(goals)>>
           seq == Plans!Sequential(goals)
           first == IF goals.kind = "seq" THEN <<Plans!Alternative(seq, p.world, <<>>)>> ELSE <<>>
           second == <<Plans!Alternative(pair, p.world, <<>>)>>
<1>1. /\ problem' = p /\ outcome' = [is |-> "searching"] /\ alternatives' = first \o second
  BY DEF Plans!Pose
<1>2. library' = library /\ PlanTask' = PlanTask /\ PlanAlternative' = PlanAlternative /\ Ops' = Ops
  BY LibraryStays
<1>3. goals \in Plans!Goals /\ p.world \in SUBSET State
  BY ProblemAssumption DEF ProblemAssumption
<1>4. PosedWell'
  BY <1>1, PosedNext
<1>5. /\ Runs(<<>>, p.world)'
      /\ pair \in Seq(PlanTask) /\ OnTheWay(pair, <<>>)'
      /\ goals.kind = "seq" => seq \in Seq(PlanTask) /\ OnTheWay(seq, <<>>)'
  BY <1>1, <1>2, <1>4 DEF PosedWell
<1> HIDE DEF goals, pair, seq
<1>6. ASSUME NEW tasks \in Seq(PlanTask), OnTheWay(tasks, <<>>)'
      PROVE  /\ <<Plans!Alternative(tasks, p.world, <<>>)>> \in Seq(PlanAlternative)
             /\ \A x \in ToSet(<<Plans!Alternative(tasks, p.world, <<>>)>>) : OnCourse(x)'
  <2> DEFINE none == <<>>
             one == Plans!Alternative(tasks, p.world, none)
  <2>1. none \in Seq(ToSet(library)) /\ p.world \in SUBSET State
    BY <1>3
  <2> HIDE DEF none
  <2>2. one \in PlanAlternative /\ one.tasks = tasks /\ one.world = p.world /\ one.plan = none
    BY <2>1, AlternativeMeans
  <2> USE DEF none
  <2> HIDE DEF one
  <2>3. OnCourse(one)'
    <3>1. Runs(one.plan, one.world)'
      BY <1>5, <2>2, Zenon
    <3>2. OnTheWay(one.tasks, one.plan)'
      BY <1>6, <2>2, Zenon
    <3> QED BY <3>1, <3>2 DEF OnCourse
  <2>4. <<one>> \in Seq(PlanAlternative) /\ ToSet(<<one>>) = {one}
    BY <2>2 DEF ToSet
  <2> QED BY <2>3, <2>4 DEF one
<1>7. second \in Seq(PlanAlternative) /\ \A x \in ToSet(second) : OnCourse(x)'
  BY <1>5, <1>6
<1>8. first \in Seq(PlanAlternative) /\ \A x \in ToSet(first) : OnCourse(x)'
  <2>1. CASE goals.kind = "seq"
    BY <1>5, <1>6, <2>1
  <2>2. CASE goals.kind # "seq"
    <3>1. first = <<>>
      BY <2>2
    <3>2. <<>> \in Seq(PlanAlternative) /\ ToSet(<<>>) = {}
      BY DEF ToSet
    <3> QED BY <3>1, <3>2
  <2> QED BY <2>1, <2>2
<1> HIDE DEF first, second
<1>9. alternatives' \in Seq(PlanAlternative) /\ \A x \in ToSet(alternatives') : OnCourse(x)'
  <2>1. first \o second \in Seq(PlanAlternative) /\ ToSet(first \o second) = ToSet(first) \cup ToSet(second)
    BY <1>7, <1>8, ConcatMeans
  <2> QED BY <1>1, <1>7, <1>8, <2>1
<1>10. ToSet(alternatives)' = ToSet(alternatives')
  BY DEF ToSet
<1>11. PlanType'
  BY <1>1, <1>2, <1>9 DEF PlanInv, PlanType
<1> QED BY <1>1, <1>9, <1>10, <1>11 DEF PlanInv, PlanExecutes

LEMMA StepSolved ==
  ASSUME PlanInv, [Next]_vars, Plans!Solved
  PROVE  PlanInv' /\ PlanExecutes'
<1> DEFINE world == Plans!Current.world
           plan == Plans!Current.plan
           n == Len(plan)
           w == WorldsOf(plan)
           goals == problem.goals
<1>1. /\ outcome.is = "searching" /\ alternatives # <<>> /\ Plans!Current.tasks = <<>>
      /\ problem' = problem /\ outcome' = [is |-> "plan", plan |-> plan, world |-> world]
      /\ alternatives' = <<>>
  BY DEF Plans!Solved
<1>2. Runs(plan, world) /\ OnTheWay(<<>>, plan) /\ plan \in Seq(ToSet(library))
  BY <1>1, CurrentMeans DEF OnCourse
<1>3. problem \in Problems
  BY <1>1 DEF PlanInv, PlanType
<1>4. goals \in Plans!Goals
  BY <1>3, ProblemAssumption DEF ProblemAssumption
<1> HIDE DEF plan, world
<1>5. PlanInv'
  <2>1. library' = library /\ PlanAlternative' = PlanAlternative /\ Ops' = Ops
    BY LibraryStays
  <2>2. <<>> \in Seq(PlanAlternative)
    OBVIOUS
  <2> QED BY <1>1, <1>3, <2>1, <2>2 DEF PlanInv, PlanType
<1>6. PICK at : Visited(Len(Targets), at, plan) /\ at[Len(Targets)] = n
  <2>1. ~Hopeless(<<>>)
    BY DEF Hopeless
  <2>0. PICK m \in 0..Len(Targets) : \E at, pos :
          /\ Visited(m, at, plan) /\ Ahead(m, pos, <<>>)
          /\ m = Len(Targets) => at[m] = n
    BY <1>2, <2>1 DEF OnTheWay
  <2>2. PICK at, pos :
          /\ Visited(m, at, plan) /\ Ahead(m, pos, <<>>)
          /\ m = Len(Targets) => at[m] = n
    BY <2>0
  <2>3. m = Len(Targets)
    <3>1. Len(Targets) \in Nat
      BY <1>3, TargetsMean
    <3>2. m # Len(Targets) => Len(Targets) \in m + 1..Len(Targets)
      BY <3>1
    <3>3. \A j \in m + 1..Len(Targets) : pos[j] \in DOMAIN <<>>
      BY <2>2 DEF Ahead
    <3> QED BY <3>2, <3>3
  <2> QED BY <2>2, <2>3
<1>7. \A k \in 1..n : Possible(plan[k], w[k - 1])
  BY <1>2 DEF Runs
<1>8. world = w[n]
  BY <1>2 DEF Runs
<1>9. n \in Nat
  BY <1>2
<1>10. ASSUME goals.kind = "all" PROVE Plans!Subgoals(goals) \subseteq w[n]
  <2>1. Len(Targets) = 1 /\ Targets[1] = goals
    BY <1>3, <1>10, TargetsMean
  <2>2. Plans!Subgoals(Targets[1]) \subseteq w[at[1]] /\ at[1] = n
    BY <1>6, <2>1 DEF Visited
  <2> QED BY <2>1, <2>2
<1>11. ASSUME goals.kind = "seq"
       PROVE  \E reached \in [DOMAIN goals.list -> 0..n] :
                \A k \in DOMAIN goals.list : /\ goals.list[k] \in w[reached[k]]
                                             /\ k > 1 => reached[k - 1] <= reached[k]
  <2> DEFINE list == goals.list
             reached == [k \in DOMAIN list |-> at[k]]
  <2>1. /\ DOMAIN list = 1..Len(Targets) /\ Len(Targets) \in Nat
        /\ \A j \in 1..Len(Targets) : Plans!Subgoals(Targets[j]) = {list[j]}
    BY <1>3, <1>11, TargetsMean
  <2> HIDE DEF list
  <2>2. \A k \in DOMAIN list : /\ at[k] \in 0..n /\ list[k] \in w[at[k]]
                               /\ \A i \in 1..k : at[i] <= at[k]
    BY <1>6, <2>1 DEF Visited
  <2>3. reached \in [DOMAIN list -> 0..n]
    BY <2>2
  <2>4. \A k \in DOMAIN list : reached[k] = at[k]
    OBVIOUS
  <2> HIDE DEF reached
  <2>5. ASSUME NEW k \in DOMAIN list, k > 1 PROVE reached[k - 1] <= reached[k]
    <3>1. k - 1 \in DOMAIN list /\ k - 1 \in 1..k
      BY <2>1, <2>5
    <3> QED BY <2>2, <2>4, <3>1
  <2> QED BY <2>2, <2>3, <2>4, <2>5 DEF list
<1>12. \A x : WorldsOf(x)' = WorldsOf(x)
  BY <1>1 DEF WorldsOf
<1>13. outcome'.plan = plan /\ outcome'.world = world /\ problem' = problem
  BY <1>1
<1> HIDE DEF w, n, goals
<1>14. /\ \A k \in 1..Len(outcome'.plan) : Possible(outcome'.plan[k], WorldsOf(outcome'.plan)[k - 1])
       /\ outcome'.world = WorldsOf(outcome'.plan)[Len(outcome'.plan)]
       /\ problem'.goals.kind = "all" =>
            Plans!Subgoals(problem'.goals) \subseteq WorldsOf(outcome'.plan)[Len(outcome'.plan)]
       /\ problem'.goals.kind = "seq" =>
            \E reached \in [DOMAIN problem'.goals.list -> 0..Len(outcome'.plan)] :
              \A k \in DOMAIN problem'.goals.list :
                /\ problem'.goals.list[k] \in WorldsOf(outcome'.plan)[reached[k]]
                /\ k > 1 => reached[k - 1] <= reached[k]
  <2>1. /\ WorldsOf(outcome'.plan) = w /\ Len(outcome'.plan) = n /\ problem'.goals = goals
        /\ outcome'.plan = plan /\ outcome'.world = world
    BY <1>13 DEF w, n, goals
  <2> QED BY <1>7, <1>8, <1>10, <1>11, <2>1, Zenon
<1>15. PlanExecutes'
  BY <1>12, <1>14 DEF PlanExecutes
<1> QED BY <1>5, <1>15

LEMMA PlanStep ==
  ASSUME PlanInv, PlanExecutes, [Next]_vars
  PROVE  PlanInv' /\ PlanExecutes'
<1>1. CASE UNCHANGED planVars
  <2>1. /\ library' = library /\ problem' = problem /\ alternatives' = alternatives /\ outcome' = outcome
    BY <1>1 DEF planVars
  <2>2. /\ \A x : OnCourse(x)' = OnCourse(x)
        /\ \A x : WorldsOf(x)' = WorldsOf(x)
    BY <2>1 DEF OnCourse, Runs, OnTheWay, Visited, Ahead, Hopeless, Targets, WorldsOf
  <2>3. PlanAlternative' = PlanAlternative /\ Ops' = Ops /\ ToSet(alternatives)' = ToSet(alternatives)
    BY <2>1, LibraryStays DEF ToSet
  <2> QED BY <2>1, <2>2, <2>3 DEF PlanInv, PlanType, PlanExecutes
<1>2. ASSUME NEW p \in Problems, Plans!Pose(p) PROVE PlanInv' /\ PlanExecutes'
  BY <1>2, StepPose
<1>3. CASE Plans!SolveNothing \/ Plans!SolveGoals \/ Plans!DoAction \/ Plans!FinalHolds
  <2>1. PlanInv'
    BY <1>3, StepSolveNothing, StepSolveGoals, StepDoAction, StepFinalHolds
  <2>2. outcome'.is = "searching"
    BY <1>3 DEF Plans!SolveNothing, Plans!SolveGoals, Plans!DoAction, Plans!FinalHolds, Plans!Searching
  <2> QED BY <2>1, <2>2 DEF PlanExecutes
<1>4. CASE Plans!CannotDo \/ Plans!FinalFails
  <2>1. /\ outcome.is = "searching" /\ alternatives # <<>> /\ problem' = problem /\ outcome' = outcome
        /\ alternatives' = Tail(alternatives)
    BY <1>4 DEF Plans!CannotDo, Plans!FinalFails, Plans!Searching, Plans!Backtrack
  <2>2. PlanInv'
    BY <2>1, Dropped
  <2> QED BY <2>1, <2>2 DEF PlanExecutes
<1>5. CASE Plans!Overflow \/ Plans!NotSolved
  <2>1. /\ outcome.is = "searching" /\ problem' = problem /\ outcome'.is \in {"overflow", "no"}
        /\ alternatives' = <<>>
    BY <1>5 DEF Plans!Overflow, Plans!NotSolved, Plans!Searching
  <2>2. library' = library /\ PlanAlternative' = PlanAlternative /\ Ops' = Ops
    BY LibraryStays
  <2>3. <<>> \in Seq(PlanAlternative)
    OBVIOUS
  <2> QED BY <2>1, <2>2, <2>3 DEF PlanInv, PlanType, PlanExecutes
<1>6. CASE Plans!Solved
  BY <1>6, StepSolved
<1> QED BY <1>1, <1>2, <1>3, <1>4, <1>5, <1>6, PlanCases

LEMMA PlanHolds == FairSpec => [](PlanInv /\ PlanExecutes)
<1>1. PlanInv /\ PlanExecutes /\ [Next]_vars => PlanInv' /\ PlanExecutes'
  BY PlanStep
<1> QED BY PlanInit, <1>1, PTL DEF FairSpec

\* A plan that the planner returns can be carried out from the world of the
\* problem, action by action, leads to the world it is returned with and reaches
\* the goals, a sequence of them in its order: whatever the library and however
\* deep the search, although a goal that was reached may be undone by the actions
\* for the next one.
THEOREM PlanExecutesHolds == FairSpec => []PlanExecutes
BY PlanHolds, PTL

\* The variables of the engine and of the planner have their types: the facts
\* are listed, no rule fires twice by the same branch, an agenda is empty but
\* for the search it belongs to, and worlds are sets of states.
THEOREM TypeCorrect == FairSpec => []TypeOK
<1>1. RuleInv /\ DefinedInv /\ PlanInv => TypeOK
  <2> SUFFICES ASSUME RuleInv, DefinedInv, PlanInv PROVE TypeOK
    OBVIOUS
  <2>1. \A k \in DOMAIN alternatives : alternatives[k].world \subseteq State
    <3> SUFFICES ASSUME NEW k \in DOMAIN alternatives PROVE alternatives[k].world \subseteq State
      OBVIOUS
    <3>1. alternatives[k] \in PlanAlternative
      BY SeqMeans DEF PlanInv, PlanType
    <3> QED BY <3>1, AlternativeFields
  <2>2. \A k \in DOMAIN fired : fired[k].rule \in DOMAIN base
    <3>1. \A k \in DOMAIN fired : fired[k] \in [rule : DOMAIN base, branch : BranchName]
      BY SeqMeans DEF RuleInv, RuleType
    <3> QED BY <3>1
  <2>3. outcome.is \in {"none", "searching", "plan", "no", "overflow"}
    BY DEF PlanInv, PlanType
  <2> QED BY <2>1, <2>2, <2>3 DEF RuleInv, RuleType, DefinedInv, TypeOK
<1> QED BY <1>1, RuleInvHolds, DefinedInvHolds, PlanHolds, PTL
===============================================================================
