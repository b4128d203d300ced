--------------------------- MODULE MeetingRequest ---------------------------
(***************************************************************************)
(* The two-sided meeting handshake of agent/src/a2a/meeting-request.ts and *)
(* the hold machinery of agent/src/a2a/negotiate.ts it drives, for ONE     *)
(* threadId (records, holds and idempotency ids are all keyed by it).      *)
(*                                                                         *)
(* The handlers are async functions of one Node process: another handler   *)
(* can run at every await.  A step of this module is the code between two  *)
(* awaits that touch shared state - the JSONL store, a calendar, or the    *)
(* booking audit - so a value read in one step may be stale in the next.   *)
(***************************************************************************)
EXTENDS Naturals, FiniteSets

CONSTANTS
  Requests,  \* handler invocations, each runs at most once
  Settings   \* the circumstances a request may be handled in, see `setting`

ASSUME ConstantsAssumption ==
  Settings \subseteq [reserve : BOOLEAN, inFlight : Nat \ {0}, crashes : Nat,
                      faults : SUBSET {"create", "confirm", "delete"}]

\* The two parties: the initiator books as `self`, the other owner as `peer`.
Side == {"self", "peer"}

Status == {"none", "pending-both", "both-accepted", "committed",
           "declined", "expired", "commit-failed"}

\* Calendar event ids are per-calendar sequence numbers; 0 is no event.
Hold == [status : {"absent", "tentative", "busy", "released"}, event : Nat]

Record == [status : Status, accepted : SUBSET Side, holds : [Side -> Hold]]

Stage == {"idle", "append", "commit", "place", "create", "audit",
          "confirm", "release", "done", "thrown", "lost"}

VARIABLES
  setting,     \* the circumstances of this behaviour, which stay as they are
  store,       \* the newest snapshot of the thread in meeting-requests.jsonl
  ttlElapsed,  \* Date.now() > store.expiresAt
  calendar,    \* live events of each owner's calendar
  created,     \* how many events each calendar ever created
  audit,       \* event of the newest 'written' audit entry of the hold, or 0
  pc,          \* where each handler waits
  rec,         \* the snapshot each handler holds in memory
  crashes,
  consent      \* history: owners who accepted their own side

vars == <<setting, store, ttlElapsed, calendar, created, audit, pc, rec, crashes, consent>>
world == <<calendar, created, audit>>

ReserveAtPropose == setting.reserve \* proposeMeetingRequest is given a `booking`: holds first
MaxInFlight == setting.inFlight     \* how many handlers may overlap
MaxCrashes == setting.crashes       \* how many times the process may die and restart
Faults == setting.faults            \* calendar calls that may throw

-----------------------------------------------------------------------------
NoHold == [status |-> "absent", event |-> 0]
NoHolds == [s \in Side |-> NoHold]
NoRecord == [status |-> "none", accepted |-> {}, holds |-> NoHolds]
NewRecord == [NoRecord EXCEPT !.status = "pending-both"]

\* Holds are listed self first, and every loop over them keeps that order.
First(S) == IF "self" \in S THEN "self" ELSE "peer"

Having(snapshot, status) == {s \in Side : snapshot.holds[s].status = status}
Holding(snapshot) == Side \ Having(snapshot, "absent")
Unreleased(snapshot) == Having(snapshot, "tentative") \cup Having(snapshot, "busy")

WithHold(snapshot, s, status, event) ==
  [snapshot EXCEPT !.holds[s] = [status |-> status, event |-> event]]

InFlight == {r \in Requests : pc[r] \notin {"idle", "done", "thrown", "lost"}}
CanStart(r) == pc[r] = "idle" /\ Cardinality(InFlight) < MaxInFlight

\* A propose on its way: it has not seen an acceptance.
Proposing == {r \in InFlight : /\ rec[r].status \in {"pending-both", "commit-failed"}
                               /\ rec[r].accepted = {}}

Goto(r, stage, snapshot) ==
  /\ pc' = [pc EXCEPT ![r] = stage]
  /\ rec' = [rec EXCEPT ![r] = snapshot]
Return(r) == Goto(r, "done", NoRecord)

\* releaseHolds skips released holds and has no await when none is left.
GotoAppendUnreleased(r, snapshot) == Goto(r, "append", snapshot) \* mutant: nothing released
GotoRelease(r, snapshot) ==
  Goto(r, IF Unreleased(snapshot) = {} THEN "append" ELSE "release", snapshot)

-----------------------------------------------------------------------------
Init ==
  /\ setting \in Settings
  /\ store = NoRecord
  /\ ttlElapsed = FALSE
  /\ calendar = [s \in Side |-> {}]
  /\ created = [s \in Side |-> 0]
  /\ audit = [s \in Side |-> 0]
  /\ pc = [r \in Requests |-> "idle"]
  /\ rec = [r \in Requests |-> NoRecord]
  /\ crashes = 0
  /\ consent = {}

(***************************************************************************)
(* proposeMeetingRequest: an existing record is returned as it is.         *)
(***************************************************************************)
Propose(r) ==
  /\ CanStart(r)
  /\ \/ /\ store.status # "none"
        /\ Return(r)
     \/ /\ store.status = "none"
        /\ Goto(r, IF ReserveAtPropose THEN "place" ELSE "append", NewRecord)
  /\ UNCHANGED <<store, ttlElapsed, world, crashes, consent>>

\* Mutant of AcceptRefused: a paired token is good for either side.
AcceptRefusedAnyToken(snapshot, o, token) ==
  \/ snapshot.status \in {"none", "committed", "declined", "commit-failed", "expired"}
  \/ o \notin Side

\* applyAcceptance, and the token check before it, answer without a change.
AcceptRefused(snapshot, o, token) ==
  \/ snapshot.status \in {"none", "committed", "declined", "commit-failed", "expired"}
  \/ o \notin Side
  \/ token \notin {o, "none"}

\* Mutants of Accepted: one acceptance is enough; the newest replaces the others.
AcceptedByEither(snapshot, o) ==
  [snapshot EXCEPT !.accepted = @ \cup {o}, !.status = "both-accepted"]
AcceptedByNewest(snapshot, o) ==
  [snapshot EXCEPT
    !.accepted = {o},
    !.status = IF {o} = Side THEN "both-accepted" ELSE "pending-both"]

\* The record with o's acceptance folded in.
Accepted(snapshot, o) ==
  [snapshot EXCEPT
    !.accepted = @ \cup {o},
    !.status = IF snapshot.accepted \cup {o} = Side THEN "both-accepted" ELSE "pending-both"]

(***************************************************************************)
(* acceptMeetingRequest up to its first write: read, token, applyAcceptance.*)
(* `now` is captured on entry, so a handler may still find the record in    *)
(* time when the clock has already passed it; it never finds it late early. *)
(* The caller's own token, or none, is the caller's consent.                *)
(***************************************************************************)
AcceptRefuse(r, o, token) ==
  /\ CanStart(r)
  /\ AcceptRefused(store, o, token)
  /\ Return(r)
  /\ UNCHANGED <<store, ttlElapsed, world, crashes, consent>>

AcceptLate(r, o, token) ==
  /\ CanStart(r)
  /\ ~AcceptRefused(store, o, token)
  /\ ttlElapsed
  /\ Goto(r, "append", [store EXCEPT !.status = "expired"])
  /\ UNCHANGED <<store, ttlElapsed, world, crashes, consent>>

\* A repeated accept writes nothing; on a both-accepted record it commits.
AcceptAgain(r, o, token) ==
  /\ CanStart(r)
  /\ ~AcceptRefused(store, o, token)
  /\ o \in store.accepted
  /\ \/ store.status = "both-accepted" /\ Goto(r, "commit", NoRecord)
     \/ store.status # "both-accepted" /\ Return(r)
  /\ UNCHANGED <<store, ttlElapsed, world, crashes, consent>>

AcceptFirst(r, o, token) ==
  /\ CanStart(r)
  /\ ~AcceptRefused(store, o, token)
  /\ o \notin store.accepted
  /\ Goto(r, "append", Accepted(store, o))
  /\ consent' = IF token \in {o, "none"} THEN consent \cup {o} ELSE consent
  /\ UNCHANGED <<store, ttlElapsed, world, crashes>>

Accept(r) ==
  \E o \in Side \cup {"stranger"}, token \in Side \cup {"none"} :
    \/ AcceptRefuse(r, o, token)
    \/ AcceptLate(r, o, token)
    \/ AcceptAgain(r, o, token)
    \/ AcceptFirst(r, o, token)

(***************************************************************************)
(* declineMeetingRequest: any status but committed and declined can still  *)
(* be declined; the holds of the snapshot just read are released first.    *)
(***************************************************************************)
DeclineRefused(o) ==
  store.status \in {"none", "committed", "declined"} \/ o \notin Side

Decline(r, o) ==
  /\ CanStart(r)
  /\ \/ DeclineRefused(o) /\ Return(r)
     \/ ~DeclineRefused(o) /\ GotoRelease(r, [store EXCEPT !.status = "declined"])
  /\ UNCHANGED <<store, ttlElapsed, world, crashes, consent>>

(***************************************************************************)
(* expireMeetingRequest, which sweepExpiredMeetingRequests calls for every *)
(* pending record past its TTL.                                            *)
(***************************************************************************)
Expirable == ttlElapsed /\ store.status \in {"pending-both", "both-accepted"}

Expire(r) ==
  /\ CanStart(r)
  /\ \/ ~Expirable /\ Return(r)
     \/ Expirable /\ GotoRelease(r, [store EXCEPT !.status = "expired"])
  /\ UNCHANGED <<store, ttlElapsed, world, crashes, consent>>

-----------------------------------------------------------------------------
(***************************************************************************)
(* commitMeetingRequest reads the store again: the status guard, then      *)
(* confirm the holds made at propose time or place and confirm new ones.   *)
(***************************************************************************)
CommitGuard(snapshot) == snapshot.status = "both-accepted"

Commit(r) ==
  /\ pc[r] = "commit"
  /\ \/ ~CommitGuard(store) /\ Return(r)
     \/ CommitGuard(store) /\ Holding(store) = {} /\ Goto(r, "place", store)
     \/ CommitGuard(store) /\ Holding(store) # {} /\ Goto(r, "confirm", store)
  /\ UNCHANGED <<store, ttlElapsed, world, crashes, consent>>

\* Both holds are placed: a propose is recorded, a commit goes on to confirm.
AfterHold(r, snapshot) ==
  Goto(r, IF Holding(snapshot) # Side THEN "place"
          ELSE IF snapshot.status = "pending-both" THEN "append" ELSE "confirm",
       snapshot)

(***************************************************************************)
(* placeHold for the next side: runWriteIntegration looks for a 'written'  *)
(* entry with the hold's idempotency id and reuses its event.              *)
(***************************************************************************)
Lookup(r) ==
  LET s == First(Side \ Holding(rec[r])) IN
  /\ pc[r] = "place"
  /\ \/ /\ audit[s] # 0
        /\ AfterHold(r, WithHold(rec[r], s, "tentative", audit[s]))
     \/ /\ audit[s] = 0
        /\ Goto(r, "create", rec[r])
  /\ UNCHANGED <<store, ttlElapsed, world, crashes, consent>>

\* calendar.createEvent succeeds ...
Create(r) ==
  LET s == First(Side \ Holding(rec[r]))
      event == created[s] + 1
  IN
  /\ pc[r] = "create"
  /\ created' = [created EXCEPT ![s] = event]
  /\ calendar' = [calendar EXCEPT ![s] = @ \cup {event}]
  /\ Goto(r, "audit", WithHold(rec[r], s, "tentative", event))
  /\ UNCHANGED <<store, ttlElapsed, audit, crashes, consent>>

\* ... or throws: what was placed is released and the booking has failed.
CreateFails(r) ==
  /\ "create" \in Faults
  /\ pc[r] = "create"
  /\ GotoRelease(r, [rec[r] EXCEPT !.status = "commit-failed"])
  /\ UNCHANGED <<store, ttlElapsed, world, crashes, consent>>

\* The 'written' entry is appended after the event exists.
AuditWrite(r) ==
  LET s == IF Holding(rec[r]) = Side THEN "peer" ELSE "self" IN
  /\ pc[r] = "audit"
  /\ audit' = [audit EXCEPT ![s] = rec[r].holds[s].event]
  /\ AfterHold(r, rec[r])
  /\ UNCHANGED <<store, ttlElapsed, calendar, created, crashes, consent>>

(***************************************************************************)
(* confirmHolds, one side per step; the snapshot is committed when no      *)
(* tentative hold is left.  A throw releases every hold, busy ones too.    *)
(***************************************************************************)
Confirm(r) ==
  LET s == First(Having(rec[r], "tentative"))
      confirmed == WithHold(rec[r], s, "busy", rec[r].holds[s].event)
  IN
  /\ pc[r] = "confirm"
  /\ IF Having(confirmed, "tentative") = {}
       THEN Goto(r, "append", [confirmed EXCEPT !.status = "committed"])
       ELSE Goto(r, "confirm", confirmed)
  /\ UNCHANGED <<store, ttlElapsed, world, crashes, consent>>

ConfirmFails(r) ==
  /\ "confirm" \in Faults
  /\ pc[r] = "confirm"
  /\ GotoRelease(r, [rec[r] EXCEPT !.status = "commit-failed"])
  /\ UNCHANGED <<store, ttlElapsed, world, crashes, consent>>

(***************************************************************************)
(* releaseHolds, one calendar.deleteEvent per step.  Deleting an event     *)
(* that is gone is not an error.  A throw leaves the handler by exception, *)
(* with nothing appended.                                                  *)
(***************************************************************************)
Release(r) ==
  LET s == First(Unreleased(rec[r])) IN
  /\ pc[r] = "release"
  /\ calendar' = [calendar EXCEPT ![s] = @ \ {rec[r].holds[s].event}]
  /\ GotoRelease(r, WithHold(rec[r], s, "released", rec[r].holds[s].event))
  /\ UNCHANGED <<store, ttlElapsed, created, audit, crashes, consent>>

ReleaseFails(r) ==
  /\ "delete" \in Faults
  /\ pc[r] = "release"
  /\ Goto(r, "thrown", NoRecord)
  /\ UNCHANGED <<store, ttlElapsed, world, crashes, consent>>

\* appendSnapshot: the newest line wins.  After a second accept, the commit.
AppendOnly(r) == \* mutant: the accept leaves the commit to a later call
  /\ pc[r] = "append"
  /\ store' = rec[r]
  /\ Return(r)
  /\ UNCHANGED <<ttlElapsed, world, crashes, consent>>
Append(r) ==
  /\ pc[r] = "append"
  /\ store' = rec[r]
  /\ Goto(r, IF rec[r].status = "both-accepted" THEN "commit" ELSE "done", NoRecord)
  /\ UNCHANGED <<ttlElapsed, world, crashes, consent>>

-----------------------------------------------------------------------------
\* A propose takes far less time than the TTL it sets.
TtlElapses ==
  /\ store.status # "none"
  /\ ~ttlElapsed
  /\ Proposing = {}
  /\ ttlElapsed' = TRUE
  /\ UNCHANGED <<store, world, pc, rec, crashes, consent>>

\* The process dies: handlers are lost, files and calendars stay.
Crash ==
  /\ crashes < MaxCrashes
  /\ InFlight # {}
  /\ pc' = [r \in Requests |-> IF r \in InFlight THEN "lost" ELSE pc[r]]
  /\ rec' = [r \in Requests |-> NoRecord]
  /\ crashes' = crashes + 1
  /\ UNCHANGED <<store, ttlElapsed, world, consent>>

\* A handler that runs, as opposed to one a user or a timer starts.
Step(r) ==
  \/ Commit(r) \/ Lookup(r) \/ Create(r) \/ CreateFails(r) \/ AuditWrite(r)
  \/ Confirm(r) \/ ConfirmFails(r) \/ Release(r) \/ ReleaseFails(r) \/ Append(r)

Start(r) ==
  \/ Propose(r)
  \/ Accept(r)
  \/ \E o \in Side \cup {"stranger"} : Decline(r, o)
  \/ Expire(r)

Next ==
  /\ UNCHANGED setting
  /\ \/ \E r \in Requests : Start(r) \/ Step(r)
     \/ TtlElapses
     \/ Crash

Spec == Init /\ [][Next]_vars

\* The event loop runs every pending continuation; users may do nothing.
FairSpec == Spec /\ \A r \in Requests : WF_vars(UNCHANGED setting /\ Step(r))

-----------------------------------------------------------------------------
(***************************************************************************)
(* Properties.                                                             *)
(***************************************************************************)

\* The types, and that the audit only ever names events that were created:
\* the 'written' entry follows the calendar write (assistant-runtime.ts).
TypeOK ==
  /\ setting \in Settings
  /\ store \in Record
  /\ ttlElapsed \in BOOLEAN
  /\ created \in [Side -> Nat]
  /\ calendar \in [Side -> SUBSET Nat]
  /\ audit \in [Side -> Nat]
  /\ pc \in [Requests -> Stage]
  /\ rec \in [Requests -> Record]
  /\ crashes \in Nat
  /\ consent \in SUBSET Side
  /\ \A s \in Side : audit[s] <= created[s] /\ \A e \in calendar[s] : e <= created[s]

\* No calendar is written, and nothing is committed, before BOTH owners have
\* accepted their own side - whatever interleaves, fails or crashes
\* (acceptMeetingRequest: "Never commits before both accept").
ConsentBeforeBooking ==
  /\ store.status \in {"both-accepted", "committed"} => consent = Side
  /\ ~ReserveAtPropose => \A s \in Side : created[s] > 0 => consent = Side

\* A committed request has its event, held busy, on both calendars.
CommittedMeansBooked ==
  store.status = "committed" =>
    \A s \in Side : /\ store.holds[s].status = "busy"
                    /\ store.holds[s].event \in calendar[s]

\* A declined or failed request leaves no event behind on either calendar.
NothingLeftWhenRefused ==
  store.status \in {"declined", "commit-failed"} => \A s \in Side : calendar[s] = {}

\* When no handler is at work, only a committed request has events: a failed
\* commit compensates on both calendars (commitAgreedSlot).
NothingLeftUnlessCommitted ==
  InFlight = {} /\ store.status # "committed" => \A s \in Side : calendar[s] = {}

\* A double accept or a retry never creates a second event.
OneEventPerSide == \A s \in Side : created[s] <= 1

\* Once both owners have accepted and no handler is at work, the request is
\* not back to waiting for one of them.
NoLostAcceptance == InFlight = {} /\ consent = Side => store.status # "pending-both"

\* Handlers that do not overlap in a process that does not die: with holds placed
\* by the commit and deletes that do not throw, or with holds placed by the propose.
Alone == MaxInFlight = 1 /\ MaxCrashes = 0
Serially == Alone /\ Faults \subseteq {"create", "confirm"} /\ ~ReserveAtPropose
Reserving == Alone /\ ReserveAtPropose

\* What both owners get, whatever order they answer in: no event is made before
\* both accepted.  Where handlers do not overlap, a committed meeting is on both
\* calendars and one that is not has left nothing on either, also if its holds
\* were placed with the proposal; nobody gets a second event, and what both
\* accepted does not go back to waiting for one of them.
BothOrNeither ==
  /\ TypeOK /\ ConsentBeforeBooking
  /\ Serially => /\ OneEventPerSide /\ CommittedMeansBooked
                 /\ NothingLeftUnlessCommitted /\ NoLostAcceptance
  /\ Reserving => OneEventPerSide /\ NothingLeftWhenRefused

\* Handlers that do not overlap implement the abstract handshake of both
\* owners, when the holds are placed by the second acceptance.
Promise == INSTANCE Handshake WITH
  status <- IF Serially THEN store.status ELSE "none",
  accepted <- IF Serially THEN store.accepted ELSE {},
  booked <- IF Serially THEN {s \in Side : calendar[s] # {}} ELSE {}
KeepsPromise == Promise!Spec

\* A request both owners accepted does not hang: the commit that follows the
\* second accept settles it, unless the process dies or a deleteEvent throws.
Settles ==
  store.status = "both-accepted" ~>
    \/ store.status # "both-accepted"
    \/ crashes > 0
    \/ \E r \in Requests : pc[r] = "thrown"

=============================================================================
