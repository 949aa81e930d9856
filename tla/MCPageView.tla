------------------------------ MODULE MCPageView ------------------------------
(* PageView with main's keyboard loop as the only commander.                   *)
EXTENDS PageView, TLC

CONSTANT kbd

\* The left station goes in, out or stops: it writes both ports, and texts of one
\* and of three digits follow each other on port 4.
ViewRepertoire == kbd :> [motor : {"ls"}, dir : Direction]

\* The page switches everything off by hand, or x to the left.
ViewManual == {AllOff, [AllOff EXCEPT ![4] = {1}]}
===============================================================================
