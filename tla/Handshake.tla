------------------------------ MODULE Handshake ------------------------------
(***************************************************************************)
(* What the two-sided handshake promises, without holds, snapshots, audit  *)
(* files or handlers: the state diagram at the head of                     *)
(* agent/src/a2a/meeting-request.ts together with the all-or-nothing       *)
(* booking it stands for.  Calendars are only touched once both owners     *)
(* have accepted; a request settles as committed only with both calendars  *)
(* booked, and in any other way only with neither.                         *)
(***************************************************************************)
Side == {"self", "peer"}

VARIABLES
  status,    \* status of the newest snapshot
  accepted,  \* owners whose acceptance it records
  booked     \* owners whose calendar holds an event for the meeting

vars == <<status, accepted, booked>>

Init == status = "none" /\ accepted = {} /\ booked = {}

Propose ==
  /\ status = "none"
  /\ status' = "pending-both"
  /\ UNCHANGED <<accepted, booked>>

Accept(s) ==
  /\ status = "pending-both"
  /\ s \notin accepted
  /\ accepted' = accepted \cup {s}
  /\ status' = IF accepted' = Side THEN "both-accepted" ELSE "pending-both"
  /\ UNCHANGED booked

Book(s) ==
  /\ status = "both-accepted"
  /\ booked' = booked \cup {s}
  /\ UNCHANGED <<status, accepted>>

Free(s) ==
  /\ status = "both-accepted"
  /\ booked' = booked \ {s}
  /\ UNCHANGED <<status, accepted>>

Commit ==
  /\ status = "both-accepted"
  /\ booked = Side
  /\ status' = "committed"
  /\ UNCHANGED <<accepted, booked>>

Fail ==
  /\ status = "both-accepted"
  /\ booked = {}
  /\ status' = "commit-failed"
  /\ UNCHANGED <<accepted, booked>>

Expire ==
  /\ status \in {"pending-both", "both-accepted"}
  /\ booked = {}
  /\ status' = "expired"
  /\ UNCHANGED <<accepted, booked>>

\* Everything that is not committed can still be declined.
Decline ==
  /\ status \notin {"none", "committed", "declined"}
  /\ booked = {}
  /\ status' = "declined"
  /\ UNCHANGED <<accepted, booked>>

Next ==
  \/ Propose \/ Commit \/ Fail \/ Expire \/ Decline
  \/ \E s \in Side : Accept(s) \/ Book(s) \/ Free(s)

Spec == Init /\ [][Next]_vars
=============================================================================
