------------------------------- MODULE MCPlan -------------------------------
(***************************************************************************)
(* PlanResume for TLC on a plan with every kind of step, in two parts (the *)
(* variable part says which of them a behaviour is of):                    *)
(*   overlap  two messages are handled at the same time and the process    *)
(*            may die once; five messages                                  *)
(*   serial   one message at a time; six messages                          *)
(***************************************************************************)
EXTENDS MCPlanResume

VARIABLE part

\* Messages are interchangeable: they arrive in the order of this list.
Arrival == <<m1, m2, m3, m4, m5, m6>>
InTurn ==
  \A i \in 2 .. Len(Arrival) : pc[Arrival[i]] # "idle" => pc[Arrival[i - 1]] # "idle"

MCInit == part \in {"overlap", "serial"} /\ Init

MCNext ==
  /\ UNCHANGED part
  /\ Next
  /\ InTurn'
  /\ IF part = "serial" THEN ~disturbed' ELSE pc'[m6] = "idle"

MCSpec ==
  /\ MCInit
  /\ [][MCNext]_<<vars, part>>
  /\ \A r \in Requests : WF_<<vars, part>>(part = "overlap" /\ UNCHANGED part /\ Step(r))

-----------------------------------------------------------------------------
\* The questions an answer resumes the plan from: no path resumes a plan parked
\* with 'needs-input'.
Questions ==
  {t \in Token : \/ Plan[t[1]].kind = "write" /\ t[2] = "confirm"
                 \/ Plan[t[1]].kind = "pick" /\ t[2] # "confirm"}

\* Also when messages overlap, an answer that finds its plan parked resolves the
\* question, unless the process dies.  (Not for good: two picks at once resume
\* the plan twice, and the slower one asks what comes next again.)
Answers(r, t) == pc[r] \in {"lookup", "find"} /\ mem[r].from # "lone" /\ mem[r].token = t
Settled ==
  \A t \in Questions :
    part = "overlap" /\ (\E r \in Requests : Answers(r, t)) ~> parked[t].status # "pending" \/ crashes > 0
=============================================================================
