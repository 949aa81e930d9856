---------------------------- MODULE PageView_proof -----------------------------
(* Proofs about PageView, for every set of threads, every repertoire and every *)
(* page, however the commands overlap: PageView is PortImage with a reader, so *)
(* that what is proved of PortImage holds here, and type correctness: whatever *)
(* the unlocked read meets is a text.                                          *)
EXTENDS PageView, PortImage_proof, SequenceTheorems

USE DEF OutPort

\* The web server thread changes the ports as the page of PortImage does, or not
\* at all: what is proved of PortImage holds here.
LEMMA ViewIsImage == ViewSpec => Spec
<1>1. ViewInit => Init
  BY DEF ViewInit
<1>2. [ViewNext]_viewVars => [Next]_vars
  <2>1. CommandStep => Next
    BY DEF CommandStep, Next
  <2>2. StoreAutomatic \/ Reply => UNCHANGED vars
    BY DEF StoreAutomatic, Reply, ReplyFirst, ReplyLast
  <2>3. StoreManual => Next
    BY DEF StoreManual, Next
  <2>4. UNCHANGED viewVars => UNCHANGED vars
    BY DEF viewVars
  <2> QED BY <2>1, <2>2, <2>3, <2>4 DEF ViewNext
<1> QED BY <1>1, <1>2, PTL DEF ViewSpec, Spec

\* A byte has a text.
LEMMA TextType == ASSUME NEW byte PROVE Text(byte) \in Seq(Char)
<1> DEFINE n == Number(byte)
<1>1. n \in 0..255
  BY DEF Number
<1> HIDE DEF n
<1>2. n < 10 => <<n>> \in Seq(Char)
  BY <1>1 DEF Char, Digit
<1>3. ~(n < 10) /\ n < 100 => <<n \div 10, n % 10>> \in Seq(Char)
  BY <1>1 DEF Char, Digit
<1>4. ~(n < 100) => <<n \div 100, (n \div 10) % 10, n % 10>> \in Seq(Char)
  BY <1>1 DEF Char, Digit
<1>5. Text(byte) = IF n < 10 THEN <<n>>
                   ELSE IF n < 100 THEN <<n \div 10, n % 10>>
                   ELSE <<n \div 100, (n \div 10) % 10, n % 10>>
  BY DEF Text, n
<1> QED BY <1>2, <1>3, <1>4, <1>5

\* A part of a text is a text.
LEMMA PartOfText ==
  ASSUME NEW s \in Seq(Char), NEW i \in 1..Len(s) + 1, NEW j \in 0..Len(s)
  PROVE  SubSeq(s, i, j) \in Seq(Char)
<1>1. \A k \in i..j : s[k] \in Char
  OBVIOUS
<1> QED BY <1>1, SubSeqProperties

\* What an unlocked read can find is a text.
LEMMA GlimpseType ==
  ASSUME NEW p, NEW v \in Glimpse(p)
  PROVE  v \in Seq(Char)
<1>1. CASE v \in {Text(port[p]), Text(copy[sem][p])}
  BY <1>1, TextType
<1>2. ASSUME NEW old \in Seq(Char), NEW new \in Seq(Char), v \in HalfWay(old, new)
      PROVE  v \in Seq(Char)
  <2>1. PICK k \in 1..Len(new) : \E rest \in Behind(old, k) : v = SubSeq(new, 1, k) \o rest
    BY <1>2 DEF HalfWay
  <2>2. PICK rest \in Behind(old, k) : v = SubSeq(new, 1, k) \o rest
    BY <2>1
  <2>3. SubSeq(new, 1, k) \in Seq(Char)
    BY PartOfText
  <2>4. rest \in Seq(Char)
    <3>1. CASE k <= Len(old)
      <4>1. rest = SubSeq(old, k + 1, Len(old))
        BY <3>1 DEF Behind
      <4>2. k + 1 \in 1..Len(old) + 1 /\ Len(old) \in 0..Len(old)
        BY <3>1
      <4> QED BY <4>1, <4>2, PartOfText
    <3>2. CASE ~(k <= Len(old))
      <4>1. rest = <<>> \/ \E c \in Char : rest = <<c>>
        BY <3>2 DEF Behind, Char
      <4>2. <<>> \in Seq(Char) /\ \A c \in Char : <<c>> \in Seq(Char)
        OBVIOUS
      <4> QED BY <4>1, <4>2, Zenon
    <3> QED BY <3>1, <3>2
  <2> HIDE DEF HalfWay, Behind
  <2> QED BY <2>2, <2>3, <2>4, ConcatProperties
<1>3. Text(port[p]) \in Seq(Char) /\ Text(copy[sem][p]) \in Seq(Char)
  BY TextType
<1>4. \/ v \in {Text(port[p]), Text(copy[sem][p])}
      \/ v \in HalfWay(Text(port[p]), Text(copy[sem][p]))
  BY DEF Glimpse
<1> QED BY <1>1, <1>2, <1>3, <1>4

LEMMA ReplyMeans ==
  ASSUME Reply
  PROVE  /\ UNCHANGED vars
         /\ \/ body' \in Glimpse(4) /\ server' = "last" /\ shown' = shown
            \/ /\ body' = <<>> /\ server' = "poll"
               /\ \E v \in Glimpse(5) :
                    shown' = [p \in OutPort |-> IF p = 4 THEN body ELSE v]
BY DEF Reply, ReplyFirst, ReplyLast

LEMMA OthersKeepTheAnswer ==
  ASSUME [ViewNext]_viewVars, ~Reply
  PROVE  /\ UNCHANGED <<body, shown>>
         /\ server' = server \/ server' = "first"
BY DEF ViewNext, CommandStep, StoreAutomatic, StoreManual, Post, viewVars, serverVars

\* What the variables contain: the page is always told two texts.
THEOREM ViewTypeCorrect == ViewSpec => []ViewTypeOK
<1> DEFINE Answer == /\ server \in {"poll", "first", "last"}
                     /\ body \in Seq(Char)
                     /\ shown \in [OutPort -> Seq(Char)]
<1>1. ViewInit => Answer
  BY TextType DEF ViewInit
<1>2. Answer /\ [ViewNext]_viewVars => Answer'
  <2> SUFFICES ASSUME Answer, [ViewNext]_viewVars PROVE Answer'
    OBVIOUS
  <2>1. CASE Reply
    <3>1. CASE body' \in Glimpse(4) /\ server' = "last" /\ shown' = shown
      BY <3>1, GlimpseType
    <3>2. CASE /\ body' = <<>> /\ server' = "poll"
               /\ \E v \in Glimpse(5) :
                    shown' = [p \in OutPort |-> IF p = 4 THEN body ELSE v]
      <4>1. PICK v \in Glimpse(5) :
              shown' = [p \in OutPort |-> IF p = 4 THEN body ELSE v]
        BY <3>2
      <4>2. v \in Seq(Char)
        BY GlimpseType
      <4> QED BY <3>2, <4>1, <4>2
    <3> QED BY <2>1, <3>1, <3>2, ReplyMeans
  <2>2. CASE ~Reply
    BY <2>2, OthersKeepTheAnswer
  <2> QED BY <2>1, <2>2
<1>3. TypeOK /\ Answer => ViewTypeOK
  BY DEF ViewTypeOK
<1> HIDE DEF Answer
<1> QED BY <1>1, <1>2, <1>3, ViewIsImage, TypeCorrect, PTL DEF ViewSpec
===============================================================================
