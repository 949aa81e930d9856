------------------------------- MODULE PageView -------------------------------
(* What the simulator page is told: the answer of the web server thread to     *)
(* POST /ajax_port_values.  The ports are stored under mutex_sem, the answer   *)
(* is composed from them, port by port, after it has been released, so that it *)
(* can meet a port in the middle of a sprintf_s.  mg_ports[p] is a decimal     *)
(* text, written digit by digit: what the answer finds there may be no number  *)
(* that any port has held, and read as a byte it may switch on any wire.       *)
EXTENDS PortImage

VARIABLES server,   \* the web server thread: "poll", "first" or "last"
          body,     \* the text of port 4 in the answer being composed
          shown     \* the texts of the last answer the page has received

serverVars == <<server, body, shown>>
viewVars == <<vars, serverVars>>

\* What sprintf_s with "%d" makes of a byte: its digits, no leading zeros.
Digit == 0..9
Number(byte) ==
  LET Bits(b, w) == IF b \in byte THEN w ELSE 0
  IN  Bits(0, 1) + Bits(1, 2) + Bits(2, 4) + Bits(3, 8)
        + Bits(4, 16) + Bits(5, 32) + Bits(6, 64) + Bits(7, 128)
Text(byte) ==
  LET n == Number(byte)
  IN  IF n < 10 THEN <<n>>
      ELSE IF n < 100 THEN <<n \div 10, n % 10>>
      ELSE <<n \div 100, (n \div 10) % 10, n % 10>>

\* What a debug build fills the buffer with behind the end of the text.
Filler == 10
Char == Digit \cup {Filler}

ViewInit == /\ Init
            /\ server = "poll"
            /\ body = <<>>
            /\ shown = [p \in OutPort |-> Text({})]

Post == /\ server = "poll"
        /\ server' = "first"
        /\ UNCHANGED <<body, shown>>

StoreAutomatic == Post /\ running /\ sem = Free /\ UNCHANGED vars
StoreManual    == Post /\ PostManual

\* A fault for the mutants: the answer is made from the last answer.
GlimpseCached(p) == {shown[p]}

\* What follows the k digits that have been written over an old text: the rest of
\* it, or nothing; but when they have overwritten its end, what lies behind it, a
\* digit of an earlier text of three or the filler.
Behind(old, k) ==
  IF k <= Len(old) THEN {SubSeq(old, k + 1, Len(old))}
  ELSE {<<>>, <<Filler>>} \cup {<<d>> : d \in IF k = 2 THEN Digit ELSE {}}

HalfWay(old, new) ==
  UNION {{SubSeq(new, 1, k) \o rest : rest \in Behind(old, k)} : k \in 1..Len(new)}

\* What the unlocked read of mg_ports[p] can find.
Glimpse(p) ==
  IF sem # Free /\ p = Head(todo[sem])
  THEN LET old == Text(port[p])
           new == Text(copy[sem][p])
       IN  {old, new} \cup HalfWay(old, new)
  ELSE {Text(port[p])}

\* The answer is composed port by port, and sent when it is complete.
ReplyFirst ==
  /\ running
  /\ server = "first"
  /\ body' \in Glimpse(4)
  /\ server' = "last"
  /\ UNCHANGED <<vars, shown>>

ReplyLast ==
  /\ running
  /\ server = "last"
  /\ \E v \in Glimpse(5) : shown' = [p \in OutPort |-> IF p = 4 THEN body ELSE v]
  /\ body' = <<>>
  /\ server' = "poll"
  /\ UNCHANGED vars

Reply == ReplyFirst \/ ReplyLast

CommandStep == /\ \/ \E t \in Commander : Step(t)
                  \/ \E t \in Commander : \E c \in Repertoire[t] : Begin(t, c)
                  \/ Exit
               /\ UNCHANGED serverVars

ViewNext == CommandStep \/ StoreAutomatic \/ StoreManual \/ Reply

\* The server thread runs, gets mutex_sem among the others that wait for it,
\* and the page posts again after each answer.
ViewSpec == ViewInit /\ [][ViewNext]_viewVars
FairViewSpec == /\ ViewSpec
                /\ \A t \in Commander : SF_viewVars(Step(t) /\ UNCHANGED serverVars)
                /\ WF_viewVars(Reply)
                /\ SF_viewVars(StoreAutomatic \/ StoreManual)
-------------------------------------------------------------------------------
ViewTypeOK == /\ TypeOK
              /\ server \in {"poll", "first", "last"}
              /\ body \in Seq(Char)
              /\ shown \in [OutPort -> Seq(Char)]

\* When the commands cease and the page changes nothing by hand any more, the
\* page ends up with the ports as they are, in spite of what its earlier answers
\* caught half-way.
AllQuiet == running /\ \A t \in Commander : cmd[t] = Idle
PageCatchesUp ==
  <>[]AllQuiet /\ <>[][port' = port]_port =>
    <>[](shown = [p \in OutPort |-> Text(port[p])])
===============================================================================
