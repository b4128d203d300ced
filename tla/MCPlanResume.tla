---------------------------- MODULE MCPlanResume ----------------------------
(***************************************************************************)
(* Six messages and a plan for PlanResume under TLC.                       *)
(***************************************************************************)
EXTENDS PlanResume

CONSTANTS m1, m2, m3, m4, m5, m6

step == [kind |-> "step", runIf |-> 0]
write == [kind |-> "write", runIf |-> 0]
pick == [kind |-> "pick", runIf |-> 0]
info == [kind |-> "info", runIf |-> 0]
If(s, i) == [s EXCEPT !.runIf = i]

\* "If I am free, book it, then ask Sam, mail the result and mail Kim",
\* where nobody knows Kim's address.
BookAskMail == <<step, If(write, 1), pick, write, info>>

Six == {m1, m2, m3, m4, m5, m6}
=============================================================================
