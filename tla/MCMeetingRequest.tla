-------------------------- MODULE MCMeetingRequest --------------------------
(***************************************************************************)
(* Five requests to MeetingRequest for TLC, and the circumstances they are *)
(* handled in.  They are interchangeable, which the run without liveness   *)
(* uses as a symmetry.                                                     *)
(***************************************************************************)
EXTENDS MeetingRequest, TLC

CONSTANTS r1, r2, r3, r4, r5

Five == {r1, r2, r3, r4, r5}

Symmetry == Permutations(Requests)

AllFaults == {"create", "confirm", "delete"}

\* Two handlers overlap, the process may die once, every calendar call may throw.
Overlapping == [reserve |-> FALSE, inFlight |-> 2, crashes |-> 1, faults |-> AllFaults]
\* Handlers do not overlap and deletes do not throw.
Serial == [reserve |-> FALSE, inFlight |-> 1, crashes |-> 0, faults |-> {"create", "confirm"}]
\* Handlers do not overlap; holds are placed when the request is proposed.
AtPropose == [reserve |-> TRUE, inFlight |-> 1, crashes |-> 0, faults |-> AllFaults]
\* Two handlers overlap and nothing fails.
Overlapped == [reserve |-> FALSE, inFlight |-> 2, crashes |-> 0, faults |-> {}]

AllSettings == {Overlapping, Serial, AtPropose}
OverlapOnly == {Overlapped}
=============================================================================
