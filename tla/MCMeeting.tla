------------------------------ MODULE MCMeeting ------------------------------
(***************************************************************************)
(* MeetingRequest for TLC in the circumstances AllSettings lists, with     *)
(* fair handlers.                                                          *)
(***************************************************************************)
EXTENDS MCMeetingRequest

\* Requests are interchangeable: they arrive in the order of this list.
Arrival == <<r1, r2, r3, r4, r5>>
InTurn ==
  \A i \in DOMAIN Arrival \ {1} : pc[Arrival[i]] # "idle" => pc[Arrival[i - 1]] # "idle"

MCInit == Init
MCNext == Next /\ InTurn'
MCSpec ==
  /\ MCInit
  /\ [][MCNext]_vars
  /\ \A r \in Requests : WF_vars(UNCHANGED setting /\ Step(r))
=============================================================================
