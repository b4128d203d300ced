------------------------ MODULE MeetingRequestProofs ------------------------
(***************************************************************************)
(* Theorems about MeetingRequest for any number of handlers, any overlap,  *)
(* any number of crashes and any calendar faults.                          *)
(***************************************************************************)
EXTENDS MeetingRequest, FiniteSetTheorems, TLAPS

\* Every event a snapshot refers to was created.
EventsExist(snapshot) == \A s \in Side : snapshot.holds[s].event <= created[s]

\* The inductive form of TypeOK: the bound on audit needs the bound on holds.
TypeInv ==
  /\ TypeOK
  /\ EventsExist(store)
  /\ \A r \in Requests : EventsExist(rec[r])

\* A handler about to write or confirm a calendar event does so for a
\* snapshot both owners accepted, or reserves holds for a propose.
MayBook(stage, snapshot) ==
  stage \in {"place", "create", "audit", "confirm"} =>
    \/ snapshot.status = "both-accepted"
    \/ ReserveAtPropose /\ snapshot.status = "pending-both" /\ stage # "confirm"

\* A snapshot counts only acceptances that were given, and claims both
\* acceptances only when it has them.
Honest(snapshot) ==
  /\ snapshot.accepted \subseteq consent
  /\ snapshot.status \in {"both-accepted", "committed"} => snapshot.accepted = Side

\* The inductive form of ConsentBeforeBooking: it holds of every snapshot in
\* memory as well as of the stored one, because any of them may be appended.
ConsentInv ==
  /\ Honest(store)
  /\ \A r \in Requests : Honest(rec[r])
  /\ \A r \in Requests : MayBook(pc[r], rec[r])
  /\ ~ReserveAtPropose => \A s \in Side : created[s] > 0 => consent = Side

-----------------------------------------------------------------------------
\* A record before its first snapshot, and a fresh one, are records.
LEMMA BlankTypes ==
  /\ NoRecord \in Record /\ NewRecord \in Record
  /\ \A s \in Side : NoRecord.holds[s].event = 0 /\ NewRecord.holds[s].event = 0
  BY DEF NoRecord, NewRecord, NoHolds, NoHold, Record, Hold, Status, Side

\* A hold written into a record keeps it a record and changes nothing else.
LEMMA WithHoldType ==
  ASSUME NEW snapshot \in Record, NEW s \in Side, NEW e \in Nat,
         NEW st \in {"absent", "tentative", "busy", "released"}
  PROVE  /\ WithHold(snapshot, s, st, e) \in Record
         /\ WithHold(snapshot, s, st, e).status = snapshot.status
         /\ WithHold(snapshot, s, st, e).accepted = snapshot.accepted
         /\ WithHold(snapshot, s, st, e).holds[s] = [status |-> st, event |-> e]
         /\ \A t \in Side \ {s} : WithHold(snapshot, s, st, e).holds[t] = snapshot.holds[t]
  BY DEF WithHold, Record, Hold

\* ... whose events stay below a limit the new one respects.
LEMMA WithHoldBounded ==
  ASSUME NEW snapshot \in Record, NEW s \in Side, NEW e \in Nat,
         NEW st \in {"absent", "tentative", "busy", "released"},
         NEW limit, e <= limit[s],
         \A t \in Side : snapshot.holds[t].event <= limit[t]
  PROVE  /\ WithHold(snapshot, s, st, e) \in Record
         /\ \A t \in Side : WithHold(snapshot, s, st, e).holds[t].event <= limit[t]
<1>1. WithHold(snapshot, s, st, e).holds[s].event = e
  BY DEF WithHold, Record
<1>2. ASSUME NEW t \in Side \ {s}
      PROVE  WithHold(snapshot, s, st, e).holds[t].event = snapshot.holds[t].event
  BY DEF WithHold, Record
<1>3. ASSUME NEW t \in Side
      PROVE  WithHold(snapshot, s, st, e).holds[t].event <= limit[t]
  BY <1>1, <1>2
<1> QED BY <1>3, WithHoldType

\* The side served first is a side.
LEMMA FirstType == ASSUME NEW S PROVE First(S) \in Side
  BY DEF First, Side

\* A status change keeps the rest of a record.
LEMMA StatusType ==
  ASSUME NEW snapshot \in Record, NEW st \in Status
  PROVE  /\ [snapshot EXCEPT !.status = st] \in Record
         /\ [snapshot EXCEPT !.status = st].status = st
         /\ [snapshot EXCEPT !.status = st].accepted = snapshot.accepted
         /\ [snapshot EXCEPT !.status = st].holds = snapshot.holds
  BY DEF Record

\* An acceptance leaves a record a record.
LEMMA AcceptedType ==
  ASSUME NEW snapshot \in Record, NEW o \in Side
  PROVE  /\ Accepted(snapshot, o) \in Record
         /\ Accepted(snapshot, o).accepted = snapshot.accepted \cup {o}
         /\ Accepted(snapshot, o).holds = snapshot.holds
         /\ Accepted(snapshot, o).status = "both-accepted"
              => Accepted(snapshot, o).accepted = Side
         /\ Accepted(snapshot, o).status # "committed"
  BY DEF Accepted, Record, Status

\* releaseHolds and ensureHolds leave the handler at one of a few awaits.
LEMMA GotoReleaseStage ==
  ASSUME NEW r \in Requests, NEW snapshot, GotoRelease(r, snapshot)
  PROVE  \E stage \in {"append", "release"} : Goto(r, stage, snapshot)
  BY DEF GotoRelease

\* What follows a hold is a stage of a handler.
LEMMA AfterHoldStage ==
  ASSUME NEW r \in Requests, NEW snapshot, AfterHold(r, snapshot)
  PROVE  \/ Goto(r, "place", snapshot)
         \/ snapshot.status = "pending-both" /\ Goto(r, "append", snapshot)
         \/ snapshot.status # "pending-both" /\ Goto(r, "confirm", snapshot)
  BY DEF AfterHold

\* A handler that moves on with a well-typed snapshot, whose events exist by
\* then, keeps the part of TypeInv that is about handlers.
LEMMA GotoType ==
  ASSUME TypeInv, NEW r \in Requests, NEW stage \in Stage, NEW snapshot \in Record,
         Goto(r, stage, snapshot),
         created' \in [Side -> Nat],
         \A s \in Side : created[s] <= created'[s] /\ snapshot.holds[s].event <= created'[s]
  PROVE  /\ pc' \in [Requests -> Stage]
         /\ rec' \in [Requests -> Record]
         /\ \A q \in Requests : EventsExist(rec[q])'
<1>1. pc' \in [Requests -> Stage] /\ rec' \in [Requests -> Record]
  BY DEF Goto, TypeInv, TypeOK
<1>2. ASSUME NEW q \in Requests PROVE EventsExist(rec[q])'
  <2>1. CASE q = r
    <3>1. rec'[q] = snapshot
      BY <2>1 DEF Goto, TypeInv, TypeOK
    <3> QED BY <3>1 DEF EventsExist
  <2>2. CASE q # r
    <3>1. rec'[q] = rec[q] /\ rec[q] \in Record
      BY <2>2 DEF Goto, TypeInv, TypeOK
    <3>2. ASSUME NEW s \in Side PROVE rec[q].holds[s].event <= created'[s]
      <4>1. rec[q].holds[s].event \in Nat /\ created[s] \in Nat /\ created'[s] \in Nat
        BY <3>1 DEF Record, Hold, TypeInv, TypeOK
      <4>2. rec[q].holds[s].event <= created[s] /\ created[s] <= created'[s]
        BY DEF TypeInv, EventsExist
      <4> QED BY <4>1, <4>2
    <3> QED BY <3>1, <3>2 DEF EventsExist
  <2> QED BY <2>1, <2>2
<1> QED BY <1>1, <1>2

\* The same for a step that creates no event.
LEMMA GotoTypeSame ==
  ASSUME TypeInv, NEW r \in Requests, NEW stage \in Stage, NEW snapshot \in Record,
         Goto(r, stage, snapshot), EventsExist(snapshot), UNCHANGED created
  PROVE  /\ pc' \in [Requests -> Stage]
         /\ rec' \in [Requests -> Record]
         /\ \A q \in Requests : EventsExist(rec[q])'
<1>1. created' \in [Side -> Nat] /\ \A s \in Side : created[s] <= created'[s]
  BY DEF TypeInv, TypeOK
<1>2. \A s \in Side : snapshot.holds[s].event <= created'[s]
  BY DEF EventsExist
<1> QED BY <1>1, <1>2, GotoType

\* A step that moves one handler on and leaves calendars, audit, store and
\* clock alone keeps TypeInv.
LEMMA QuietStep ==
  ASSUME TypeInv, NEW r \in Requests, NEW stage \in Stage, NEW snapshot \in Record,
         Goto(r, stage, snapshot), EventsExist(snapshot),
         UNCHANGED <<setting, store, ttlElapsed, world, crashes>>, consent' \in SUBSET Side
  PROVE  TypeInv'
<1>1. /\ pc' \in [Requests -> Stage]
      /\ rec' \in [Requests -> Record]
      /\ \A q \in Requests : EventsExist(rec[q])'
  BY GotoTypeSame DEF world
<1> QED BY <1>1 DEF TypeInv, TypeOK, EventsExist, world

-----------------------------------------------------------------------------
(***************************************************************************)
(* Type correctness.                                                       *)
(***************************************************************************)
LEMMA TypeInit == Init => TypeInv
<1> SUFFICES ASSUME Init PROVE TypeInv
  OBVIOUS
<1>1. TypeOK
  <2>1. store \in Record /\ pc \in [Requests -> Stage] /\ rec \in [Requests -> Record]
    BY BlankTypes DEF Init, Stage
  <2>2. /\ created \in [Side -> Nat] /\ audit \in [Side -> Nat]
        /\ calendar \in [Side -> SUBSET Nat]
    BY DEF Init
  <2>3. \A s \in Side : audit[s] <= created[s] /\ calendar[s] = {}
    BY DEF Init
  <2> QED BY <2>1, <2>2, <2>3 DEF Init, TypeOK
<1>2. EventsExist(NoRecord)
  BY BlankTypes DEF Init, EventsExist
<1> QED BY <1>1, <1>2 DEF Init, TypeInv

\* Handlers that start keep the types.
LEMMA StartType ==
  ASSUME TypeInv, UNCHANGED setting, NEW r \in Requests, Start(r)
  PROVE  TypeInv'
<1> USE DEF Stage
<1>1. store \in Record /\ EventsExist(store) /\ consent \in SUBSET Side
  BY DEF TypeInv, TypeOK
<1>2. /\ NoRecord \in Record /\ EventsExist(NoRecord)
      /\ NewRecord \in Record /\ EventsExist(NewRecord)
  BY BlankTypes DEF EventsExist, TypeInv, TypeOK
<1>3. \A st \in Status : /\ [store EXCEPT !.status = st] \in Record
                         /\ EventsExist([store EXCEPT !.status = st])
  BY <1>1, StatusType DEF EventsExist
<1>4. CASE Propose(r)
  BY <1>1, <1>2, <1>4, QuietStep DEF Propose, Return
<1>5. CASE Accept(r)
  <2>1. PICK o \in Side \cup {"stranger"}, token \in Side \cup {"none"} :
          \/ AcceptRefuse(r, o, token) \/ AcceptLate(r, o, token)
          \/ AcceptAgain(r, o, token) \/ AcceptFirst(r, o, token)
    BY <1>5 DEF Accept
  <2>2. CASE AcceptRefuse(r, o, token)
    BY <1>1, <1>2, <2>2, QuietStep DEF AcceptRefuse, Return
  <2>3. CASE AcceptLate(r, o, token)
    BY <1>1, <1>3, <2>3, QuietStep DEF AcceptLate, Status
  <2>4. CASE AcceptAgain(r, o, token)
    BY <1>1, <1>2, <2>4, QuietStep DEF AcceptAgain, Return
  <2>5. CASE AcceptFirst(r, o, token)
    <3>1. o \in Side
      BY <2>5 DEF AcceptFirst, AcceptRefused
    <3>2. Accepted(store, o) \in Record /\ EventsExist(Accepted(store, o))
      BY <1>1, <3>1, AcceptedType DEF EventsExist
    <3> QED BY <1>1, <2>5, <3>1, <3>2, QuietStep DEF AcceptFirst
  <2> QED BY <2>1, <2>2, <2>3, <2>4, <2>5
<1>6. CASE \E o \in Side \cup {"stranger"} : Decline(r, o)
  BY <1>1, <1>2, <1>3, <1>6, GotoReleaseStage, QuietStep DEF Decline, Return, Status
<1>7. CASE Expire(r)
  BY <1>1, <1>2, <1>3, <1>7, GotoReleaseStage, QuietStep DEF Expire, Return, Status
<1> QED BY <1>4, <1>5, <1>6, <1>7 DEF Start

\* Handlers that go on after an await keep the types.
LEMMA StepType ==
  ASSUME TypeInv, UNCHANGED setting, NEW r \in Requests, Step(r)
  PROVE  TypeInv'
<1> USE DEF Stage
<1>1. /\ store \in Record /\ EventsExist(store) /\ consent \in SUBSET Side
      /\ rec[r] \in Record /\ EventsExist(rec[r])
  BY DEF TypeInv, TypeOK
<1>2. NoRecord \in Record /\ EventsExist(NoRecord)
  BY BlankTypes DEF EventsExist, TypeInv, TypeOK
<1>failed. /\ [rec[r] EXCEPT !.status = "commit-failed"] \in Record
           /\ EventsExist([rec[r] EXCEPT !.status = "commit-failed"])
  <2>1. "commit-failed" \in Status
    BY DEF Status
  <2> QED BY <1>1, <2>1, StatusType DEF EventsExist
<1>3. CASE Commit(r)
  BY <1>1, <1>2, <1>3, QuietStep DEF Commit, Return
<1>4. CASE Lookup(r)
  <2>1. PICK s \in Side : s = First(Side \ Holding(rec[r]))
    BY FirstType
  <2> DEFINE held == WithHold(rec[r], s, "tentative", audit[s])
  <2>2. held \in Record /\ EventsExist(held)
    <3>1. audit[s] \in Nat /\ audit[s] <= created[s]
      BY DEF TypeInv, TypeOK
    <3> QED BY <1>1, <3>1, WithHoldBounded DEF EventsExist
  <2>3. CASE AfterHold(r, held)
    BY <1>1, <1>4, <2>2, <2>3, AfterHoldStage, QuietStep DEF Lookup
  <2>4. CASE Goto(r, "create", rec[r])
    BY <1>1, <1>4, <2>4, QuietStep DEF Lookup
  <2> QED BY <1>4, <2>1, <2>3, <2>4 DEF Lookup
<1>5. CASE Create(r)
  <2>0. PICK s \in Side : s = First(Side \ Holding(rec[r]))
    BY FirstType
  <2> DEFINE event == created[s] + 1
             held == WithHold(rec[r], s, "tentative", event)
  <2>1. created[s] \in Nat /\ event \in Nat
    BY DEF TypeInv, TypeOK
  <2>2. /\ created' = [created EXCEPT ![s] = event]
        /\ calendar' = [calendar EXCEPT ![s] = @ \cup {event}]
        /\ Goto(r, "audit", held)
        /\ UNCHANGED <<store, ttlElapsed, audit, crashes, consent>>
    BY <1>5, <2>0 DEF Create
  <2>3. created' \in [Side -> Nat] /\ \A t \in Side : created[t] <= created'[t]
    BY <2>1, <2>2 DEF TypeInv, TypeOK
  <2>4. held \in Record /\ \A t \in Side : held.holds[t].event <= created'[t]
    <3>1. event <= created'[s]
      BY <2>1, <2>2 DEF TypeInv, TypeOK
    <3>2. \A t \in Side : /\ rec[r].holds[t].event \in Nat
                          /\ created[t] \in Nat /\ created'[t] \in Nat
                          /\ rec[r].holds[t].event <= created[t]
      BY <1>1, <2>3 DEF Record, Hold, EventsExist, TypeInv, TypeOK
    <3>3. \A t \in Side : rec[r].holds[t].event <= created'[t]
      BY <2>3, <3>2
    <3> QED BY <1>1, <2>1, <3>1, <3>3, WithHoldBounded
  <2>5. /\ pc' \in [Requests -> Stage]
        /\ rec' \in [Requests -> Record]
        /\ \A q \in Requests : EventsExist(rec[q])'
    BY <2>2, <2>3, <2>4, GotoType
  <2>6. EventsExist(store)'
    <3>1. \A t \in Side : /\ store.holds[t].event \in Nat
                          /\ created[t] \in Nat /\ created'[t] \in Nat
                          /\ store.holds[t].event <= created[t]
      BY <1>1, <2>3 DEF Record, Hold, EventsExist, TypeInv, TypeOK
    <3> QED BY <2>2, <2>3, <3>1 DEF EventsExist
  <2>7. calendar' \in [Side -> SUBSET Nat]
    BY <2>1, <2>2 DEF TypeInv, TypeOK
  <2>8. \A t \in Side : audit'[t] <= created'[t] /\ \A e \in calendar'[t] : e <= created'[t]
    BY <2>1, <2>2 DEF TypeInv, TypeOK
  <2> QED BY <2>2, <2>3, <2>5, <2>6, <2>7, <2>8 DEF TypeInv, TypeOK
<1>6. CASE CreateFails(r)
  BY <1>1, <1>6, <1>failed, GotoReleaseStage, QuietStep DEF CreateFails
<1>7. CASE AuditWrite(r)
  <2> DEFINE s == IF Holding(rec[r]) = Side THEN "peer" ELSE "self"
  <2>1. /\ audit' = [audit EXCEPT ![s] = rec[r].holds[s].event]
        /\ AfterHold(r, rec[r])
        /\ UNCHANGED <<store, ttlElapsed, calendar, created, crashes, consent>>
    BY <1>7 DEF AuditWrite
  <2>2. s \in Side /\ rec[r].holds[s].event \in Nat /\ rec[r].holds[s].event <= created[s]
    BY <1>1 DEF Record, Hold, EventsExist, Side
  <2>3. audit' \in [Side -> Nat] /\ \A t \in Side : audit'[t] <= created'[t]
    BY <2>1, <2>2 DEF TypeInv, TypeOK
  <2>4. /\ pc' \in [Requests -> Stage]
        /\ rec' \in [Requests -> Record]
        /\ \A q \in Requests : EventsExist(rec[q])'
    BY <1>1, <2>1, AfterHoldStage, GotoTypeSame
  <2> QED BY <2>1, <2>3, <2>4 DEF TypeInv, TypeOK, EventsExist
<1>8. CASE Confirm(r)
  <2>0. PICK s \in Side : s = First(Having(rec[r], "tentative"))
    BY FirstType
  <2> DEFINE confirmed == WithHold(rec[r], s, "busy", rec[r].holds[s].event)
  <2>1. rec[r].holds[s].event \in Nat /\ rec[r].holds[s].event <= created[s]
    BY <1>1 DEF Record, Hold, EventsExist
  <2>2. confirmed \in Record /\ EventsExist(confirmed)
    BY <1>1, <2>1, WithHoldBounded DEF EventsExist
  <2>3. /\ [confirmed EXCEPT !.status = "committed"] \in Record
        /\ EventsExist([confirmed EXCEPT !.status = "committed"])
    BY <2>2, StatusType DEF EventsExist, Status
  <2>4. \/ Goto(r, "append", [confirmed EXCEPT !.status = "committed"])
        \/ Goto(r, "confirm", confirmed)
    BY <1>8, <2>0 DEF Confirm
  <2>5. UNCHANGED <<store, ttlElapsed, world, crashes, consent>>
    BY <1>8 DEF Confirm
  <2> QED BY <1>1, <2>2, <2>3, <2>4, <2>5, QuietStep
<1>9. CASE ConfirmFails(r)
  BY <1>1, <1>9, <1>failed, GotoReleaseStage, QuietStep DEF ConfirmFails
<1>10. CASE Release(r)
  <2>0. PICK s \in Side : s = First(Unreleased(rec[r]))
    BY FirstType
  <2> DEFINE rest == WithHold(rec[r], s, "released", rec[r].holds[s].event)
  <2>1. /\ calendar' = [calendar EXCEPT ![s] = @ \ {rec[r].holds[s].event}]
        /\ GotoRelease(r, rest)
        /\ UNCHANGED <<store, ttlElapsed, created, audit, crashes, consent>>
    BY <1>10, <2>0 DEF Release
  <2>2. rec[r].holds[s].event \in Nat /\ rec[r].holds[s].event <= created[s]
    BY <1>1 DEF Record, Hold, EventsExist
  <2>3. rest \in Record /\ EventsExist(rest)
    BY <1>1, <2>2, WithHoldBounded DEF EventsExist
  <2>4. /\ calendar' \in [Side -> SUBSET Nat]
        /\ \A t \in Side : \A e \in calendar'[t] : e <= created'[t]
    BY <2>1, <2>2 DEF TypeInv, TypeOK
  <2>5. /\ pc' \in [Requests -> Stage]
        /\ rec' \in [Requests -> Record]
        /\ \A q \in Requests : EventsExist(rec[q])'
    BY <2>1, <2>3, GotoReleaseStage, GotoTypeSame
  <2> QED BY <2>1, <2>4, <2>5 DEF TypeInv, TypeOK, EventsExist
<1>11. CASE ReleaseFails(r)
  BY <1>1, <1>2, <1>11, QuietStep DEF ReleaseFails
<1>12. CASE Append(r)
  <2>1. /\ store' = rec[r]
        /\ UNCHANGED <<ttlElapsed, world, crashes, consent>>
    BY <1>12 DEF Append
  <2>2. \E stage \in Stage : Goto(r, stage, NoRecord)
    BY <1>12 DEF Append
  <2>3. /\ pc' \in [Requests -> Stage]
        /\ rec' \in [Requests -> Record]
        /\ \A q \in Requests : EventsExist(rec[q])'
    BY <1>2, <2>1, <2>2, GotoTypeSame DEF world
  <2> QED BY <1>1, <2>1, <2>3 DEF TypeInv, TypeOK, EventsExist, world
<1> QED
  BY <1>3, <1>4, <1>5, <1>6, <1>7, <1>8, <1>9, <1>10, <1>11, <1>12 DEF Step

\* So every step keeps them.
LEMMA TypeStep == TypeInv /\ [Next]_vars => TypeInv'
<1> SUFFICES ASSUME TypeInv, [Next]_vars PROVE TypeInv'
  OBVIOUS
<1>0. UNCHANGED setting
  BY DEF Next, vars
<1>1. CASE \E r \in Requests : Start(r) \/ Step(r)
  BY <1>0, <1>1, StartType, StepType
<1>2. CASE TtlElapses
  BY <1>0, <1>2 DEF TtlElapses, TypeInv, TypeOK, EventsExist, world
<1>3. CASE Crash
  BY <1>0, <1>3, BlankTypes DEF Crash, TypeInv, TypeOK, EventsExist, world, Stage
<1>4. CASE UNCHANGED vars
  BY <1>4 DEF vars, TypeInv, TypeOK, EventsExist
<1> QED BY <1>1, <1>2, <1>3, <1>4 DEF Next

\* The state always has its types and the audit, the calendars and every
\* snapshot only name events that were created: the audit entry of a write is
\* appended after the calendar call returned (runWriteIntegration).
THEOREM TypeCorrect == Spec => []TypeOK
<1>1. TypeInv => TypeOK
  BY DEF TypeInv
<1> QED BY TypeInit, TypeStep, <1>1, PTL DEF Spec

-----------------------------------------------------------------------------
(***************************************************************************)
(* Consent before booking.                                                 *)
(***************************************************************************)
LEMMA ConsentInit == Init => ConsentInv
  BY DEF Init, ConsentInv, Honest, MayBook, NoRecord, Side

\* A handler that moves on with an honest snapshot it may book for keeps
\* ConsentInv, whether or not it appends the snapshot it had.
LEMMA GotoConsent ==
  ASSUME TypeOK, ConsentInv, UNCHANGED setting,
         NEW r \in Requests, NEW stage, NEW snapshot, Goto(r, stage, snapshot),
         UNCHANGED store \/ store' = rec[r],
         consent \subseteq consent', consent' \in SUBSET Side,
         snapshot.accepted \subseteq consent',
         snapshot.status \in {"both-accepted", "committed"} => snapshot.accepted = Side,
         MayBook(stage, snapshot),
         ~ReserveAtPropose => \A s \in Side : created'[s] > 0 => consent' = Side
  PROVE  ConsentInv'
<1>1. pc' = [pc EXCEPT ![r] = stage] /\ rec' = [rec EXCEPT ![r] = snapshot]
  BY DEF Goto
<1>2. Honest(store)'
  BY DEF ConsentInv, Honest
<1>3. ASSUME NEW q \in Requests PROVE Honest(rec[q])'
  <2>1. CASE q = r
    <3>1. rec'[q] = snapshot
      BY <1>1, <2>1 DEF TypeOK
    <3> QED BY <3>1 DEF Honest
  <2>2. CASE q # r
    <3>1. rec'[q] = rec[q] /\ Honest(rec[q])
      BY <1>1, <2>2 DEF TypeOK, ConsentInv
    <3> QED BY <3>1 DEF Honest
  <2> QED BY <2>1, <2>2
<1>4. ASSUME NEW q \in Requests PROVE MayBook(pc'[q], rec'[q])
  <2>1. CASE q = r
    BY <1>1, <2>1 DEF TypeOK
  <2>2. CASE q # r
    BY <1>1, <2>2 DEF TypeOK, ConsentInv
  <2> QED BY <2>1, <2>2
<1> QED BY <1>2, <1>3, <1>4 DEF ConsentInv, MayBook, ReserveAtPropose

\* The common case: no acceptance is given and no event is created.
LEMMA QuietConsent ==
  ASSUME TypeOK, ConsentInv, UNCHANGED setting,
         NEW r \in Requests, NEW stage, NEW snapshot, Goto(r, stage, snapshot),
         UNCHANGED store \/ store' = rec[r],
         UNCHANGED <<created, consent>>,
         Honest(snapshot), MayBook(stage, snapshot)
  PROVE  ConsentInv'
<1>1. /\ consent \subseteq consent' /\ consent' \in SUBSET Side
      /\ snapshot.accepted \subseteq consent'
      /\ snapshot.status \in {"both-accepted", "committed"} => snapshot.accepted = Side
  BY DEF Honest, TypeOK
<1>2. ~ReserveAtPropose => \A s \in Side : created'[s] > 0 => consent' = Side
  BY DEF ConsentInv
<1> QED BY <1>1, <1>2, GotoConsent

\* A snapshot that settles without a commit is honest if its source was.
LEMMA SettledHonest ==
  ASSUME NEW snapshot \in Record, Honest(snapshot),
         NEW status \in {"declined", "expired", "commit-failed"}
  PROVE  Honest([snapshot EXCEPT !.status = status])
<1>1. status \in Status
  BY DEF Status
<1> QED BY <1>1, StatusType DEF Honest

\* A record nobody has accepted claims nothing.
LEMMA BlankHonest == Honest(NoRecord) /\ Honest(NewRecord)
  BY DEF Honest, NoRecord, NewRecord

\* Stages that book nothing.
LEMMA Bookless ==
  ASSUME NEW stage, stage \notin {"place", "create", "audit", "confirm"}, NEW snapshot
  PROVE  MayBook(stage, snapshot)
  BY DEF MayBook

\* Handlers that start keep every record honest about its consents.
LEMMA StartConsent ==
  ASSUME TypeOK, ConsentInv, UNCHANGED setting, NEW r \in Requests, Start(r)
  PROVE  ConsentInv'
<1>1. store \in Record /\ Honest(store) /\ consent \in SUBSET Side
  BY DEF TypeOK, ConsentInv
<1>2. CASE Propose(r)
  <2>1. CASE Return(r)
    BY <1>2, <2>1, BlankHonest, Bookless, QuietConsent DEF Propose, Return, world
  <2>2. CASE Goto(r, IF ReserveAtPropose THEN "place" ELSE "append", NewRecord)
    <3>1. MayBook(IF ReserveAtPropose THEN "place" ELSE "append", NewRecord)
      BY DEF MayBook, NewRecord, NoRecord
    <3> QED BY <1>2, <2>2, <3>1, BlankHonest, QuietConsent DEF Propose, world
  <2> QED BY <1>2, <2>1, <2>2 DEF Propose
<1>3. CASE Accept(r)
  <2>1. PICK o \in Side \cup {"stranger"}, token \in Side \cup {"none"} :
          \/ AcceptRefuse(r, o, token) \/ AcceptLate(r, o, token)
          \/ AcceptAgain(r, o, token) \/ AcceptFirst(r, o, token)
    BY <1>3 DEF Accept
  <2>2. CASE AcceptRefuse(r, o, token)
    BY <2>2, BlankHonest, Bookless, QuietConsent DEF AcceptRefuse, Return, world
  <2>3. CASE AcceptLate(r, o, token)
    BY <1>1, <2>3, SettledHonest, Bookless, QuietConsent DEF AcceptLate, world
  <2>4. CASE AcceptAgain(r, o, token)
    BY <2>4, BlankHonest, Bookless, QuietConsent DEF AcceptAgain, Return, world
  <2>5. CASE AcceptFirst(r, o, token)
    <3>1. o \in Side /\ token \in {o, "none"}
      BY <2>5 DEF AcceptFirst, AcceptRefused
    <3>2. /\ consent' = consent \cup {o}
          /\ Goto(r, "append", Accepted(store, o))
          /\ UNCHANGED <<store, created>>
      BY <2>5, <3>1 DEF AcceptFirst, world
    <3>3. /\ Accepted(store, o).accepted = store.accepted \cup {o}
          /\ Accepted(store, o).status = "both-accepted" => Accepted(store, o).accepted = Side
          /\ Accepted(store, o).status # "committed"
      BY <1>1, <3>1, AcceptedType
    <3>4. ~ReserveAtPropose => \A s \in Side : created'[s] > 0 => consent' = Side
      BY <1>1, <3>1, <3>2 DEF ConsentInv
    <3>5. Accepted(store, o).accepted \subseteq consent' /\ consent' \in SUBSET Side
      BY <1>1, <3>1, <3>2, <3>3 DEF Honest
    <3>6. MayBook("append", Accepted(store, o))
      BY Bookless
    <3> QED BY <3>2, <3>3, <3>4, <3>5, <3>6, GotoConsent
  <2> QED BY <2>1, <2>2, <2>3, <2>4, <2>5
<1>4. CASE \E o \in Side \cup {"stranger"} : Decline(r, o)
  <2>1. CASE Return(r)
    BY <1>4, <2>1, BlankHonest, Bookless, QuietConsent DEF Decline, Return, world
  <2>2. CASE GotoRelease(r, [store EXCEPT !.status = "declined"])
    BY <1>1, <1>4, <2>2, GotoReleaseStage, SettledHonest, Bookless, QuietConsent
    DEF Decline, world
  <2> QED BY <1>4, <2>1, <2>2 DEF Decline
<1>5. CASE Expire(r)
  <2>1. CASE Return(r)
    BY <1>5, <2>1, BlankHonest, Bookless, QuietConsent DEF Expire, Return, world
  <2>2. CASE GotoRelease(r, [store EXCEPT !.status = "expired"])
    BY <1>1, <1>5, <2>2, GotoReleaseStage, SettledHonest, Bookless, QuietConsent
    DEF Expire, world
  <2> QED BY <1>5, <2>1, <2>2 DEF Expire
<1> QED BY <1>2, <1>3, <1>4, <1>5 DEF Start

\* Writing one hold into a snapshot changes neither its status nor who
\* accepted it.
LEMMA WithHoldHonest ==
  ASSUME NEW snapshot, NEW s, NEW st, NEW e, snapshot \in Record
  PROVE  /\ WithHold(snapshot, s, st, e).status = snapshot.status
         /\ WithHold(snapshot, s, st, e).accepted = snapshot.accepted
         /\ Honest(snapshot) => Honest(WithHold(snapshot, s, st, e))
  BY DEF WithHold, Record, Honest

\* ensureHolds never moves a handler to a booking its snapshot forbids.
LEMMA AfterHoldConsent ==
  ASSUME TypeOK, ConsentInv, UNCHANGED setting, NEW r \in Requests, NEW snapshot,
         AfterHold(r, snapshot), Honest(snapshot),
         UNCHANGED <<store, created, consent>>,
         \/ snapshot.status = "both-accepted"
         \/ ReserveAtPropose /\ snapshot.status = "pending-both"
  PROVE  ConsentInv'
<1>1. PICK stage \in {"place", "append", "confirm"} :
        /\ Goto(r, stage, snapshot)
        /\ stage = "confirm" => snapshot.status # "pending-both"
  BY AfterHoldStage
<1>2. MayBook(stage, snapshot)
  BY <1>1 DEF MayBook
<1> QED BY <1>1, <1>2, QuietConsent

\* Handlers that go on keep it so: what they hold in memory was honest when read.
LEMMA StepConsent ==
  ASSUME TypeOK, ConsentInv, UNCHANGED setting, NEW r \in Requests, Step(r)
  PROVE  ConsentInv'
<1>1. /\ store \in Record /\ Honest(store)
      /\ rec[r] \in Record /\ Honest(rec[r]) /\ MayBook(pc[r], rec[r])
  BY DEF TypeOK, ConsentInv
<1>2. pc[r] \in {"place", "create", "audit"} =>
        \/ rec[r].status = "both-accepted"
        \/ ReserveAtPropose /\ rec[r].status = "pending-both"
  BY <1>1 DEF MayBook
<1>3. CASE Commit(r)
  <2>1. CASE Return(r)
    BY <1>3, <2>1, BlankHonest, Bookless, QuietConsent DEF Commit, Return, world
  <2>2. CASE CommitGuard(store) /\ (Goto(r, "place", store) \/ Goto(r, "confirm", store))
    <3>1. MayBook("place", store) /\ MayBook("confirm", store)
      BY <2>2 DEF CommitGuard, MayBook
    <3> QED BY <1>1, <1>3, <2>2, <3>1, QuietConsent DEF Commit, world
  <2> QED BY <1>3, <2>1, <2>2 DEF Commit
<1>4. CASE Lookup(r)
  <2>1. PICK s \in Side : s = First(Side \ Holding(rec[r]))
    BY FirstType
  <2>2. CASE AfterHold(r, WithHold(rec[r], s, "tentative", audit[s]))
    <3> DEFINE held == WithHold(rec[r], s, "tentative", audit[s])
    <3>1. held.status = rec[r].status /\ Honest(held)
      BY <1>1, WithHoldHonest
    <3>2. pc[r] = "place" /\ UNCHANGED <<store, created, consent>>
      BY <1>4 DEF Lookup, world
    <3> HIDE DEF held
    <3>3. AfterHold(r, held)
      BY <2>2 DEF held
    <3> QED BY <1>2, <3>1, <3>2, <3>3, AfterHoldConsent
  <2>3. CASE Goto(r, "create", rec[r])
    <3>1. MayBook("create", rec[r])
      BY <1>2, <1>4 DEF Lookup, MayBook
    <3> QED BY <1>1, <1>4, <2>3, <3>1, QuietConsent DEF Lookup, world
  <2> QED BY <1>4, <2>1, <2>2, <2>3 DEF Lookup
<1>5. CASE Create(r)
  <2>1. PICK s \in Side : s = First(Side \ Holding(rec[r]))
    BY FirstType
  <2> DEFINE held == WithHold(rec[r], s, "tentative", created[s] + 1)
  <2>2. held.status = rec[r].status /\ held.accepted = rec[r].accepted /\ Honest(held)
    BY <1>1, WithHoldHonest
  <2>3. pc[r] = "create" /\ Goto(r, "audit", held) /\ UNCHANGED <<store, consent>>
    BY <1>5, <2>1 DEF Create
  <2> HIDE DEF held
  <2>4. MayBook("audit", held)
    BY <1>2, <2>2, <2>3 DEF MayBook
  <2>5. ~ReserveAtPropose => consent = Side
    BY <1>1, <1>2, <2>3 DEF Honest, TypeOK
  <2>6. ~ReserveAtPropose => \A t \in Side : created'[t] > 0 => consent' = Side
    BY <2>3, <2>5
  <2>7. /\ consent \subseteq consent' /\ consent' \in SUBSET Side
        /\ held.accepted \subseteq consent'
        /\ held.status \in {"both-accepted", "committed"} => held.accepted = Side
    BY <2>2, <2>3 DEF Honest, TypeOK
  <2> QED BY <2>3, <2>4, <2>6, <2>7, GotoConsent
<1>6. CASE CreateFails(r)
  BY <1>1, <1>6, GotoReleaseStage, SettledHonest, Bookless, QuietConsent
  DEF CreateFails, world
<1>7. CASE AuditWrite(r)
  BY <1>1, <1>2, <1>7, AfterHoldConsent DEF AuditWrite
<1>8. CASE Confirm(r)
  <2>1. PICK s \in Side : s = First(Having(rec[r], "tentative"))
    BY FirstType
  <2> DEFINE confirmed == WithHold(rec[r], s, "busy", rec[r].holds[s].event)
             committed == [confirmed EXCEPT !.status = "committed"]
  <2>2. rec[r].status = "both-accepted"
    BY <1>1, <1>8 DEF Confirm, MayBook
  <2>3. /\ confirmed \in Record /\ confirmed.status = "both-accepted"
        /\ confirmed.accepted = rec[r].accepted /\ Honest(confirmed)
    <3>1. rec[r].holds[s].event \in Nat
      BY <1>1 DEF Record, Hold
    <3>2. confirmed \in Record
      BY <1>1, <3>1, WithHoldType
    <3>3. /\ confirmed.status = rec[r].status /\ confirmed.accepted = rec[r].accepted
          /\ Honest(confirmed)
      BY <1>1, WithHoldHonest
    <3> QED BY <2>2, <3>2, <3>3
  <2>4. \/ Goto(r, "append", committed)
        \/ Goto(r, "confirm", confirmed)
    BY <1>8, <2>1 DEF Confirm
  <2>5. UNCHANGED <<store, created, consent>>
    BY <1>8 DEF Confirm, world
  <2>6. Honest(committed)
    <3>1. rec[r].accepted = Side
      BY <1>1, <2>2 DEF Honest
    <3>2. committed.accepted = rec[r].accepted
      BY <2>3, StatusType DEF Status
    <3> QED BY <1>1, <3>1, <3>2 DEF Honest
  <2> HIDE DEF confirmed, committed
  <2>7. MayBook("append", committed) /\ MayBook("confirm", confirmed)
    BY <2>3 DEF MayBook
  <2> QED BY <2>3, <2>4, <2>5, <2>6, <2>7, QuietConsent
<1>9. CASE ConfirmFails(r)
  BY <1>1, <1>9, GotoReleaseStage, SettledHonest, Bookless, QuietConsent
  DEF ConfirmFails, world
<1>10. CASE Release(r)
  BY <1>1, <1>10, GotoReleaseStage, WithHoldHonest, Bookless, QuietConsent
  DEF Release
<1>11. CASE ReleaseFails(r)
  BY <1>11, BlankHonest, Bookless, QuietConsent DEF ReleaseFails, world
<1>12. CASE Append(r)
  <2>1. PICK stage \in {"commit", "done"} : Goto(r, stage, NoRecord)
    BY <1>12 DEF Append
  <2> QED BY <1>12, <2>1, BlankHonest, Bookless, QuietConsent DEF Append, world
<1> QED
  BY <1>3, <1>4, <1>5, <1>6, <1>7, <1>8, <1>9, <1>10, <1>11, <1>12 DEF Step

\* So every step keeps it.
LEMMA ConsentStep == TypeOK /\ ConsentInv /\ [Next]_vars => ConsentInv'
<1> SUFFICES ASSUME TypeOK, ConsentInv, [Next]_vars PROVE ConsentInv'
  OBVIOUS
<1>0. UNCHANGED setting
  BY DEF Next, vars
<1>1. CASE \E r \in Requests : Start(r) \/ Step(r)
  BY <1>0, <1>1, StartConsent, StepConsent
<1>2. CASE TtlElapses
  BY <1>0, <1>2 DEF TtlElapses, ConsentInv, Honest, MayBook, ReserveAtPropose, world
<1>3. CASE Crash
  <2>1. \A r \in Requests : rec'[r] = NoRecord /\ pc'[r] \in {"lost", pc[r]}
    BY <1>3 DEF Crash
  <2>2. \A r \in Requests : pc'[r] \notin {"place", "create", "audit", "confirm"}
    BY <1>3 DEF Crash, InFlight
  <2>3. \A r \in Requests : Honest(rec[r])'
    BY <2>1 DEF Honest, NoRecord
  <2>4. \A r \in Requests : MayBook(pc'[r], rec'[r])
    BY <2>2 DEF MayBook
  <2> QED
    BY <1>0, <1>3, <2>3, <2>4 DEF Crash, ConsentInv, Honest, MayBook, ReserveAtPropose, world
<1>4. CASE UNCHANGED vars
  BY <1>4 DEF vars, ConsentInv, Honest, MayBook, ReserveAtPropose
<1> QED BY <1>1, <1>2, <1>3, <1>4 DEF Next

\* No calendar is written and nothing is committed before both owners accepted
\* their own side, however many handlers overlap, fail or die: the promise
\* of acceptMeetingRequest, and the snapshot each handler carries keeps it.
THEOREM ConsentFirst == Spec => []ConsentBeforeBooking
<1>1. TypeOK /\ ConsentInv => ConsentBeforeBooking
  BY DEF ConsentInv, Honest, TypeOK, ConsentBeforeBooking
<1> QED BY TypeCorrect, ConsentInit, ConsentStep, <1>1, PTL DEF Spec

-----------------------------------------------------------------------------
(***************************************************************************)
(* Handlers that do not overlap, on calendars that always let an event be  *)
(* deleted, implement the abstract handshake.  At rest a request that is   *)
(* not committed has nothing on either calendar; a handler at work knows,  *)
(* in its snapshot, exactly what is there.                                 *)
(***************************************************************************)
Kept == INSTANCE Handshake WITH
  status <- store.status, accepted <- store.accepted,
  booked <- {s \in Side : calendar[s] # {}}

\* What a snapshot says of the calendars.
Matches(snapshot) ==
  \A s \in Side : calendar[s] = IF s \in Unreleased(snapshot) THEN {snapshot.holds[s].event} ELSE {}
Clear(snapshot) == Matches(snapshot) /\ Unreleased(snapshot) = {}
Untouched == Clear(store) /\ Holding(store) = {} /\ \A s \in Side : audit[s] = 0
Booked(snapshot) == Matches(snapshot) /\ Having(snapshot, "busy") = Side

\* No handler is at work.
AtRest ==
  \/ store.status = "none" /\ store.accepted = {} /\ Untouched
  \/ store.status = "pending-both" /\ Untouched
  \/ store.status \in {"declined", "expired", "commit-failed"} /\ Clear(store)
  \/ store.status = "committed" /\ Booked(store)

\* What a handler is about to append.
Answering(snapshot) ==
  \/ store.status = "none" /\ snapshot = NewRecord
  \/ store.status = "pending-both" /\ \E o \in Side \ store.accepted : snapshot = Accepted(store, o)
  \/ store.status = "pending-both" /\ snapshot = [store EXCEPT !.status = "expired"]
  \/ /\ store.status \in {"pending-both", "expired", "commit-failed"}
     /\ snapshot = [store EXCEPT !.status = "declined"]
Settling(snapshot) ==
  \/ snapshot.status = "commit-failed" /\ Clear(snapshot)
  \/ snapshot.status = "committed" /\ Booked(snapshot)

\* A handler that books: the self side first, no entry of another booking.
Booking(stage, snapshot) ==
  /\ snapshot.status = "both-accepted" /\ Matches(snapshot)
  /\ Having(snapshot, "released") = {}
  /\ \A s \in Side \ Holding(snapshot) : audit[s] = 0
  /\ stage \in {"place", "create"} => Holding(snapshot) # Side
  /\ stage = "audit" => "self" \in Holding(snapshot)
  /\ "peer" \in Holding(snapshot) => "self" \in Holding(snapshot)
  /\ stage = "confirm" => Holding(snapshot) = Side
Undoing(snapshot) ==
  snapshot.status = "commit-failed" /\ Matches(snapshot) /\ Unreleased(snapshot) # {}

AtWork(r) ==
  \/ pc[r] = "append" /\ AtRest /\ Answering(rec[r])
  \/ pc[r] = "commit" /\ store.status = "both-accepted" /\ Untouched
  \/ /\ store.status = "both-accepted" /\ rec[r].accepted = store.accepted
     /\ \/ pc[r] = "append" /\ Settling(rec[r])
        \/ pc[r] \in {"place", "create", "audit", "confirm"} /\ Booking(pc[r], rec[r])
        \/ pc[r] = "release" /\ Undoing(rec[r])

SerialInv ==
  /\ \A q, r \in InFlight : q = r
  /\ InFlight = {} => AtRest
  /\ \A r \in InFlight : AtWork(r)

\* A handler starts when no other is at work.
LEMMA StartsAlone ==
  ASSUME Serially, SerialInv, NEW r \in Requests, CanStart(r)
  PROVE  InFlight = {} /\ AtRest
<1>1. InFlight # {} => \E q : InFlight = {q}
  BY DEF SerialInv
<1>2. ASSUME NEW q, InFlight = {q} PROVE FALSE
  <2>1. Cardinality(InFlight) = 1
    BY <1>2, FS_Singleton
  <2> QED
    BY <2>1 DEF CanStart, Serially, Alone
<1> QED
  BY <1>1, <1>2 DEF SerialInv

\* Where a handler that is alone goes, it is alone.
LEMMA GoesAlone ==
  ASSUME TypeOK, NEW r \in Requests, InFlight \subseteq {r},
         NEW stage \in Stage, NEW snapshot, Goto(r, stage, snapshot)
  PROVE  /\ InFlight' = IF stage \in {"idle", "done", "thrown", "lost"} THEN {} ELSE {r}
         /\ pc'[r] = stage /\ rec'[r] = snapshot
BY DEF TypeOK, Goto, InFlight

\* A handler that is alone goes on with some work, or comes to rest.
LEMMA GoesOn ==
  ASSUME TypeOK, NEW r \in Requests, InFlight \subseteq {r},
         NEW stage \in Stage \ {"idle"}, NEW snapshot, Goto(r, stage, snapshot),
         IF stage \in {"done", "thrown", "lost"} THEN AtRest' ELSE AtWork(r)'
  PROVE  SerialInv'
<1>1. InFlight' = IF stage \in {"done", "thrown", "lost"} THEN {} ELSE {r}
  BY GoesAlone
<1> QED
  BY <1>1 DEF SerialInv

\* A new status, or an acceptance, leaves the holds of a snapshot alone.
LEMMA SameHolds ==
  ASSUME NEW one, NEW other, one.holds = other.holds
  PROVE  /\ Unreleased(one) = Unreleased(other) /\ Holding(one) = Holding(other)
         /\ \A status : Having(one, status) = Having(other, status)
         /\ Matches(one) <=> Matches(other)
         /\ Clear(one) <=> Clear(other)
BY DEF Unreleased, Holding, Having, Matches, Clear

\* Calendars, audit and the stored snapshot that stay are at rest as they were.
LEMMA RestStays ==
  ASSUME UNCHANGED <<store, calendar, audit>>
  PROVE  /\ AtRest' <=> AtRest
         /\ Untouched' <=> Untouched
         /\ \A r \in Requests : Answering(rec[r])' <=> Answering(rec'[r])
BY DEF AtRest, Untouched, Clear, Booked, Matches, Answering

\* What a handler that starts may be about to append, or that it has returned.
LEMMA StartAnswers ==
  ASSUME TypeOK, AtRest, NEW r \in Requests, Start(r), ~ReserveAtPropose
  PROVE  /\ UNCHANGED <<store, calendar, audit>>
         /\ \/ \E snapshot : Goto(r, "done", snapshot)
            \/ \E snapshot : Goto(r, "append", snapshot) /\ Answering(snapshot)
<1>1. CASE Propose(r)
  BY <1>1 DEF Propose, Return, Answering, world
<1>2. ASSUME NEW o \in Side \cup {"stranger"}, NEW token \in Side \cup {"none"},
             AcceptRefuse(r, o, token) \/ AcceptAgain(r, o, token)
      PROVE  UNCHANGED <<store, calendar, audit>> /\ \E snapshot : Goto(r, "done", snapshot)
  BY <1>2 DEF AcceptRefuse, AcceptAgain, Return, world, AtRest, AcceptRefused
<1>3. ASSUME NEW o \in Side \cup {"stranger"}, NEW token \in Side \cup {"none"},
             AcceptLate(r, o, token) \/ AcceptFirst(r, o, token)
      PROVE  /\ UNCHANGED <<store, calendar, audit>>
             /\ \E snapshot : Goto(r, "append", snapshot) /\ Answering(snapshot)
  <2>1. o \in Side /\ store.status = "pending-both"
    BY <1>3 DEF AcceptLate, AcceptFirst, AcceptRefused, AtRest
  <2> QED
    BY <1>3, <2>1 DEF AcceptLate, AcceptFirst, world, Answering
<1>4. ASSUME NEW status \in {"declined", "expired"}, store.status # "committed",
             GotoRelease(r, [store EXCEPT !.status = status])
      PROVE  Goto(r, "append", [store EXCEPT !.status = status])
  <2>1. Unreleased(store) = {}
    BY <1>4 DEF AtRest, Untouched, Clear, Unreleased, Holding, Having
  <2>2. [store EXCEPT !.status = status].holds = store.holds
    BY DEF TypeOK, Record
  <2>3. Unreleased([store EXCEPT !.status = status]) = {}
    BY <2>1, <2>2, SameHolds
  <2> QED
    BY <1>4, <2>3 DEF GotoRelease
<1>5. ASSUME NEW o \in Side \cup {"stranger"}, Decline(r, o)
      PROVE  /\ UNCHANGED <<store, calendar, audit>>
             /\ \/ \E snapshot : Goto(r, "done", snapshot)
                \/ \E snapshot : Goto(r, "append", snapshot) /\ Answering(snapshot)
  <2>1. CASE DeclineRefused(o)
    BY <1>5, <2>1 DEF Decline, Return, world
  <2>2. CASE ~DeclineRefused(o)
    <3>1. store.status \in {"pending-both", "expired", "commit-failed"}
      BY <2>2 DEF DeclineRefused, AtRest
    <3>2. GotoRelease(r, [store EXCEPT !.status = "declined"])
      BY <1>5, <2>2 DEF Decline
    <3> QED
      BY <1>4, <1>5, <3>1, <3>2 DEF Decline, world, Answering
  <2> QED
    BY <2>1, <2>2
<1>6. CASE Expire(r)
  <2>1. CASE ~Expirable
    BY <1>6, <2>1 DEF Expire, Return, world
  <2>2. CASE Expirable
    <3>1. store.status = "pending-both"
      BY <2>2 DEF Expirable, AtRest
    <3> QED
      BY <1>4, <1>6, <2>2, <3>1 DEF Expire, world, Answering
  <2> QED
    BY <2>1, <2>2
<1> QED
  BY <1>1, <1>2, <1>3, <1>5, <1>6 DEF Start, Accept, Propose, world

\* Starting a handler is no step of the abstract handshake.
LEMMA SerialStart ==
  ASSUME Serially, TypeOK, SerialInv, NEW r \in Requests, Start(r)
  PROVE  SerialInv' /\ UNCHANGED Kept!vars
<1>1. CanStart(r)
  BY DEF Start, Propose, Accept, AcceptRefuse, AcceptLate, AcceptAgain, AcceptFirst, Decline, Expire
<1>2. InFlight = {} /\ AtRest
  BY <1>1, StartsAlone
<1>3. /\ UNCHANGED <<store, calendar, audit>>
      /\ \/ \E snapshot : Goto(r, "done", snapshot)
         \/ \E snapshot : Goto(r, "append", snapshot) /\ Answering(snapshot)
  BY <1>2, StartAnswers DEF Serially
<1>4. AtRest'
  BY <1>2, <1>3, RestStays
<1>5. ASSUME NEW snapshot, Goto(r, "done", snapshot) PROVE SerialInv'
  BY <1>2, <1>4, <1>5, GoesOn DEF Stage
<1>6. ASSUME NEW snapshot, Goto(r, "append", snapshot), Answering(snapshot) PROVE SerialInv'
  <2>1. pc'[r] = "append" /\ rec'[r] = snapshot
    BY <1>2, <1>6, GoesAlone DEF Stage
  <2>2. Answering(rec[r])'
    BY <1>3, <1>6, <2>1, RestStays
  <2>3. AtWork(r)'
    BY <1>4, <2>1, <2>2 DEF AtWork
  <2> QED
    BY <1>2, <1>6, <2>3, GoesOn DEF Stage
<1> QED
  BY <1>3, <1>5, <1>6 DEF Kept!vars

-----------------------------------------------------------------------------
\* A commit finds both acceptances and nothing booked: it places two holds.
LEMMA SerialCommit ==
  ASSUME TypeOK, NEW r \in Requests, InFlight \subseteq {r}, AtWork(r), Commit(r)
  PROVE  SerialInv' /\ UNCHANGED Kept!vars
<1>1. store.status = "both-accepted" /\ Untouched /\ UNCHANGED <<store, calendar, audit>>
  BY DEF AtWork, Commit, world
<1>2. Goto(r, "place", store)
  BY <1>1 DEF Commit, CommitGuard, Untouched
<1>3. pc'[r] = "place" /\ rec'[r] = store
  BY <1>2, GoesAlone DEF Stage
<1>4. Booking("place", store)
  BY <1>1 DEF Booking, Untouched, Clear, Having, Holding, Side
<1>5. Booking(pc[r], rec[r])'
  BY <1>1, <1>3, <1>4 DEF Booking, Matches
<1>6. AtWork(r)'
  BY <1>1, <1>3, <1>5 DEF AtWork
<1> QED
  BY <1>1, <1>2, <1>6, GoesOn DEF Stage, Kept!vars

\* Steps of a booking find the stored record with both acceptances.
LEMMA AtBooking ==
  ASSUME NEW r \in Requests, AtWork(r), pc[r] \in {"place", "create", "audit", "confirm"}
  PROVE  /\ store.status = "both-accepted" /\ rec[r].accepted = store.accepted
         /\ Booking(pc[r], rec[r])
BY DEF AtWork

\* A booking that goes on booking.
LEMMA BookingGoesOn ==
  ASSUME TypeOK, NEW r \in Requests, InFlight \subseteq {r},
         NEW stage \in {"place", "create", "audit", "confirm"}, NEW snapshot,
         Goto(r, stage, snapshot), UNCHANGED store, store.status = "both-accepted",
         snapshot.accepted = store.accepted,
         pc'[r] = stage /\ rec'[r] = snapshot => Booking(pc[r], rec[r])'
  PROVE  SerialInv'
<1>1. pc'[r] = stage /\ rec'[r] = snapshot
  BY GoesAlone DEF Stage
<1>2. AtWork(r)'
  BY <1>1 DEF AtWork
<1> QED
  BY <1>2, GoesOn DEF Stage

\* The audit knows nothing of a side without a hold: its event is created.
LEMMA SerialLookup ==
  ASSUME TypeOK, NEW r \in Requests, InFlight \subseteq {r}, AtWork(r), Lookup(r)
  PROVE  SerialInv' /\ UNCHANGED Kept!vars
<1>1. pc[r] = "place" /\ UNCHANGED <<store, calendar, audit>>
  BY DEF Lookup, world
<1>2. /\ store.status = "both-accepted" /\ rec[r].accepted = store.accepted
      /\ Booking("place", rec[r])
  BY <1>1, AtBooking
<1>3. Goto(r, "create", rec[r])
  BY <1>2 DEF Lookup, Booking, First, Side, Holding
<1>4. ASSUME pc'[r] = "create", rec'[r] = rec[r] PROVE Booking(pc[r], rec[r])'
  BY <1>1, <1>2, <1>4 DEF Booking, Matches
<1> QED
  BY <1>1, <1>2, <1>3, <1>4, BookingGoesOn DEF Kept!vars

\* An event is created on the calendar of the side without a hold.
LEMMA SerialCreate ==
  ASSUME TypeOK, NEW r \in Requests, InFlight \subseteq {r}, AtWork(r), Create(r)
  PROVE  SerialInv' /\ \E s \in Side : Kept!Book(s)
<1> DEFINE s == First(Side \ Holding(rec[r]))
           e == created[s] + 1
           snapshot == WithHold(rec[r], s, "tentative", e)
<1>1. /\ pc[r] = "create" /\ UNCHANGED <<store, audit>>
      /\ calendar' = [calendar EXCEPT ![s] = @ \cup {e}] /\ Goto(r, "audit", snapshot)
  BY DEF Create
<1>2. /\ store.status = "both-accepted" /\ rec[r].accepted = store.accepted
      /\ Booking("create", rec[r])
  BY <1>1, AtBooking
<1>3. s \in Side \ Holding(rec[r]) /\ ("self" \in Holding(rec[r]) \/ s = "self")
  BY <1>2 DEF Booking, First, Side, Holding
<1>4. rec[r] \in Record /\ e \in Nat /\ calendar \in [Side -> SUBSET Nat]
  BY <1>3 DEF TypeOK
<1> HIDE DEF s, e
<1>0. snapshot = WithHold(rec[r], s, "tentative", e)
  OBVIOUS
<1> HIDE DEF snapshot
<1>5. /\ snapshot.status = "both-accepted" /\ snapshot.accepted = store.accepted
      /\ snapshot.holds[s].status = "tentative" /\ snapshot.holds[s].event = e
      /\ \A t \in Side \ {s} : snapshot.holds[t] = rec[r].holds[t]
  <2>1. s \in Side /\ rec[r].status = "both-accepted"
    BY <1>2, <1>3 DEF Booking
  <2>2. /\ snapshot \in Record
        /\ snapshot.status = rec[r].status /\ snapshot.accepted = rec[r].accepted
        /\ snapshot.holds[s].status = "tentative" /\ snapshot.holds[s].event = e
        /\ \A t \in Side \ {s} : snapshot.holds[t] = rec[r].holds[t]
    BY <1>4, <1>0, <2>1 DEF WithHold, Record, Hold
  <2> QED
    BY <1>2, <2>1, <2>2
<1>6. rec[r].holds[s].status = "absent" /\ calendar[s] = {}
  BY <1>2, <1>3 DEF Booking, Matches, Holding, Unreleased, Having
<1>7. calendar'[s] = {e} /\ \A t \in Side \ {s} : calendar'[t] = calendar[t]
  BY <1>1, <1>3, <1>4, <1>6
<1>8. /\ Holding(snapshot) = Holding(rec[r]) \cup {s}
      /\ Having(snapshot, "released") = {}
      /\ Unreleased(snapshot) = Unreleased(rec[r]) \cup {s}
  BY <1>2, <1>3, <1>5 DEF Booking, Holding, Having, Unreleased
<1>9. \A t \in Side : calendar'[t] = IF t \in Unreleased(snapshot)
                                       THEN {snapshot.holds[t].event} ELSE {}
  <2>1. \A t \in Side : calendar[t] = IF t \in Unreleased(rec[r])
                                         THEN {rec[r].holds[t].event} ELSE {}
    BY <1>2 DEF Booking, Matches
  <2>2. snapshot.holds[s].event = e
    BY <1>5
  <2> QED
    BY <1>3, <1>5, <1>7, <1>8, <2>1, <2>2
<1>10. ASSUME pc'[r] = "audit", rec'[r] = snapshot PROVE Booking(pc[r], rec[r])'
  <2>1. Matches(rec[r])'
    BY <1>9, <1>10 DEF Matches
  <2>2. "self" \in Holding(snapshot) /\ \A t \in Side \ Holding(snapshot) : audit[t] = 0
    BY <1>2, <1>3, <1>8 DEF Booking
  <2> QED
    BY <1>1, <1>5, <1>8, <1>10, <2>1, <2>2 DEF Booking
<1>11. SerialInv'
  BY <1>1, <1>2, <1>5, <1>10, BookingGoesOn
<1>12. {t \in Side : calendar'[t] # {}} = {t \in Side : calendar[t] # {}} \cup {s}
  BY <1>3, <1>7
<1> QED
  BY <1>1, <1>2, <1>3, <1>11, <1>12 DEF Kept!Book

\* The 'written' entry names the side whose event was created.
LEMMA SerialAudit ==
  ASSUME TypeOK, NEW r \in Requests, InFlight \subseteq {r}, AtWork(r), AuditWrite(r)
  PROVE  SerialInv' /\ UNCHANGED Kept!vars
<1> DEFINE s == IF Holding(rec[r]) = Side THEN "peer" ELSE "self"
<1>1. /\ pc[r] = "audit" /\ UNCHANGED <<store, calendar>>
      /\ audit' = [audit EXCEPT ![s] = rec[r].holds[s].event] /\ AfterHold(r, rec[r])
  BY DEF AuditWrite
<1>2. /\ store.status = "both-accepted" /\ rec[r].accepted = store.accepted
      /\ Booking("audit", rec[r])
  BY <1>1, AtBooking
<1>3. s \in Side /\ s \in Holding(rec[r])
  BY <1>2 DEF Booking, Side
<1> HIDE DEF s
<1>4. \A t \in Side \ Holding(rec[r]) : audit'[t] = 0
  BY <1>1, <1>2, <1>3 DEF Booking, TypeOK
<1>5. PICK stage \in {"place", "confirm"} :
        /\ Goto(r, stage, rec[r])
        /\ stage = "place" <=> Holding(rec[r]) # Side
  BY <1>1, <1>2 DEF AfterHold, Booking
<1>6. ASSUME pc'[r] = stage, rec'[r] = rec[r] PROVE Booking(pc[r], rec[r])'
  BY <1>1, <1>2, <1>4, <1>5, <1>6 DEF Booking, Matches
<1> QED
  BY <1>1, <1>2, <1>5, <1>6, BookingGoesOn DEF Kept!vars

\* Confirming turns a tentative hold busy; with the last one the snapshot is
\* committed.
LEMMA SerialConfirm ==
  ASSUME TypeOK, NEW r \in Requests, InFlight \subseteq {r}, AtWork(r), Confirm(r)
  PROVE  SerialInv' /\ UNCHANGED Kept!vars
<1> DEFINE s == First(Having(rec[r], "tentative"))
           snapshot == WithHold(rec[r], s, "busy", rec[r].holds[s].event)
           committed == [snapshot EXCEPT !.status = "committed"]
<1>1. /\ pc[r] = "confirm" /\ UNCHANGED <<store, calendar, audit>>
      /\ IF Having(snapshot, "tentative") = {}
           THEN Goto(r, "append", committed) ELSE Goto(r, "confirm", snapshot)
  BY DEF Confirm, world
<1>2. /\ store.status = "both-accepted" /\ rec[r].accepted = store.accepted
      /\ Booking("confirm", rec[r])
  BY <1>1, AtBooking
<1>3. s \in Side
  BY FirstType
<1>4. rec[r] \in Record /\ rec[r].holds[s].event \in Nat
  BY <1>3 DEF TypeOK, Record, Hold
<1> HIDE DEF s
<1>0. snapshot = WithHold(rec[r], s, "busy", rec[r].holds[s].event)
  OBVIOUS
<1> HIDE DEF snapshot
<1>5. /\ snapshot \in Record
      /\ snapshot.status = "both-accepted" /\ snapshot.accepted = store.accepted
      /\ snapshot.holds[s].status = "busy" /\ snapshot.holds[s].event = rec[r].holds[s].event
      /\ \A t \in Side \ {s} : snapshot.holds[t] = rec[r].holds[t]
  <2>1. rec[r].status = "both-accepted"
    BY <1>2 DEF Booking
  <2>2. /\ snapshot \in Record
        /\ snapshot.status = rec[r].status /\ snapshot.accepted = rec[r].accepted
        /\ snapshot.holds[s].status = "busy" /\ snapshot.holds[s].event = rec[r].holds[s].event
        /\ \A t \in Side \ {s} : snapshot.holds[t] = rec[r].holds[t]
    BY <1>3, <1>4, <1>0, <2>1 DEF WithHold, Record, Hold
  <2> QED
    BY <1>2, <2>1, <2>2
<1>6. \A t \in Side : rec[r].holds[t].status \in {"tentative", "busy"}
  BY <1>2, <1>4 DEF Booking, Holding, Having, Record, Hold
<1>7. /\ Holding(snapshot) = Side /\ Having(snapshot, "released") = {}
      /\ Unreleased(snapshot) = Side /\ Unreleased(rec[r]) = Side
  BY <1>3, <1>5, <1>6 DEF Holding, Having, Unreleased
<1>8. Matches(snapshot)
  BY <1>2, <1>3, <1>5, <1>7 DEF Booking, Matches
<1>9. CASE Having(snapshot, "tentative") = {}
  <2>1. /\ committed.status = "committed" /\ committed.accepted = store.accepted
        /\ committed.holds = snapshot.holds
    BY <1>5 DEF Record
  <2>2. Having(snapshot, "busy") = Side
    BY <1>7, <1>9 DEF Unreleased
  <2>3. Booked(committed)
    BY <1>8, <2>1, <2>2, SameHolds DEF Booked
  <2> HIDE DEF committed
  <2>4. pc'[r] = "append" /\ rec'[r] = committed
    BY <1>1, <1>9, GoesAlone DEF Stage
  <2>5. AtWork(r)'
    BY <1>1, <1>2, <2>1, <2>3, <2>4 DEF AtWork, Settling, Booked, Matches
  <2> QED
    BY <1>1, <1>9, <2>5, GoesOn DEF Stage, Kept!vars
<1>10. CASE Having(snapshot, "tentative") # {}
  <2>1. ASSUME pc'[r] = "confirm", rec'[r] = snapshot PROVE Booking(pc[r], rec[r])'
    BY <1>1, <1>5, <1>7, <1>8, <2>1 DEF Booking, Matches, Side
  <2> QED
    BY <1>1, <1>2, <1>5, <1>10, <2>1, BookingGoesOn DEF Kept!vars
<1> QED
  BY <1>9, <1>10

\* A failed booking is recorded at once, or undone first.
LEMMA UndoGoesOn ==
  ASSUME TypeOK, NEW r \in Requests, InFlight \subseteq {r}, NEW snapshot,
         GotoRelease(r, snapshot), UNCHANGED <<store, audit>>, store.status = "both-accepted",
         snapshot.status = "commit-failed", snapshot.accepted = store.accepted,
         \A s \in Side : calendar'[s] = IF s \in Unreleased(snapshot)
                                          THEN {snapshot.holds[s].event} ELSE {}
  PROVE  SerialInv'
<1>1. CASE Unreleased(snapshot) = {}
  <2>1. Goto(r, "append", snapshot)
    BY <1>1 DEF GotoRelease
  <2>2. pc'[r] = "append" /\ rec'[r] = snapshot
    BY <2>1, GoesAlone DEF Stage
  <2>3. AtWork(r)'
    BY <1>1, <2>2 DEF AtWork, Settling, Clear, Matches
  <2> QED
    BY <2>1, <2>3, GoesOn DEF Stage
<1>2. CASE Unreleased(snapshot) # {}
  <2>1. Goto(r, "release", snapshot)
    BY <1>2 DEF GotoRelease
  <2>2. pc'[r] = "release" /\ rec'[r] = snapshot
    BY <2>1, GoesAlone DEF Stage
  <2>3. AtWork(r)'
    BY <1>2, <2>2 DEF AtWork, Undoing, Matches
  <2> QED
    BY <2>1, <2>3, GoesOn DEF Stage
<1> QED
  BY <1>1, <1>2

\* A calendar call that throws turns the booking to undoing itself.
LEMMA SerialFails ==
  ASSUME TypeOK, NEW r \in Requests, InFlight \subseteq {r}, AtWork(r),
         CreateFails(r) \/ ConfirmFails(r)
  PROVE  SerialInv' /\ UNCHANGED Kept!vars
<1> DEFINE snapshot == [rec[r] EXCEPT !.status = "commit-failed"]
<1>1. /\ pc[r] \in {"create", "confirm"} /\ UNCHANGED <<store, calendar, audit>>
      /\ GotoRelease(r, snapshot)
  BY DEF CreateFails, ConfirmFails, world
<1>2. /\ store.status = "both-accepted" /\ rec[r].accepted = store.accepted
      /\ Matches(rec[r])
  BY <1>1, AtBooking DEF Booking
<1>3. /\ snapshot.status = "commit-failed" /\ snapshot.accepted = store.accepted
      /\ snapshot.holds = rec[r].holds
  BY <1>2 DEF TypeOK, Record
<1>4. Matches(snapshot)
  BY <1>2, <1>3, SameHolds
<1> HIDE DEF snapshot
<1> QED
  BY <1>1, <1>2, <1>3, <1>4, UndoGoesOn DEF Matches, Kept!vars

\* A released hold empties its calendar.
LEMMA SerialRelease ==
  ASSUME TypeOK, NEW r \in Requests, InFlight \subseteq {r}, AtWork(r), Release(r)
  PROVE  SerialInv' /\ \E s \in Side : Kept!Free(s)
<1> DEFINE s == First(Unreleased(rec[r]))
           e == rec[r].holds[s].event
           snapshot == WithHold(rec[r], s, "released", e)
<1>1. /\ pc[r] = "release" /\ UNCHANGED <<store, audit>>
      /\ calendar' = [calendar EXCEPT ![s] = @ \ {e}] /\ GotoRelease(r, snapshot)
  BY DEF Release
<1>2. /\ store.status = "both-accepted" /\ rec[r].accepted = store.accepted
      /\ Undoing(rec[r])
  BY <1>1 DEF AtWork
<1>3. s \in Unreleased(rec[r]) /\ s \in Side
  BY <1>2 DEF Undoing, First, Unreleased, Having, Side
<1>4. rec[r] \in Record /\ e \in Nat /\ calendar \in [Side -> SUBSET Nat]
  BY <1>3 DEF TypeOK, Record, Hold
<1> HIDE DEF s
<1>0. snapshot = WithHold(rec[r], s, "released", e)
  OBVIOUS
<1> HIDE DEF snapshot
<1>5. /\ snapshot.status = "commit-failed" /\ snapshot.accepted = store.accepted
      /\ snapshot.holds[s].status = "released" /\ snapshot.holds[s].event = e
      /\ \A t \in Side \ {s} : snapshot.holds[t] = rec[r].holds[t]
  <2>1. rec[r].status = "commit-failed"
    BY <1>2 DEF Undoing
  <2>2. /\ snapshot \in Record
        /\ snapshot.status = rec[r].status /\ snapshot.accepted = rec[r].accepted
        /\ snapshot.holds[s].status = "released" /\ snapshot.holds[s].event = e
        /\ \A t \in Side \ {s} : snapshot.holds[t] = rec[r].holds[t]
    BY <1>3, <1>4, <1>0, <2>1 DEF WithHold, Record, Hold
  <2> QED
    BY <1>2, <2>1, <2>2
<1>6. calendar[s] = {e}
  BY <1>2, <1>3 DEF Undoing, Matches
<1>7. calendar'[s] = {} /\ \A t \in Side \ {s} : calendar'[t] = calendar[t]
  BY <1>1, <1>3, <1>4, <1>6
<1>8. Unreleased(snapshot) = Unreleased(rec[r]) \ {s}
  BY <1>3, <1>5 DEF Unreleased, Having
<1>9. \A t \in Side : calendar'[t] = IF t \in Unreleased(snapshot)
                                       THEN {snapshot.holds[t].event} ELSE {}
  BY <1>2, <1>5, <1>7, <1>8 DEF Undoing, Matches
<1>10. SerialInv'
  BY <1>1, <1>2, <1>5, <1>9, UndoGoesOn
<1>11. {t \in Side : calendar'[t] # {}} = {t \in Side : calendar[t] # {}} \ {s}
  BY <1>3, <1>7
<1> QED
  BY <1>1, <1>2, <1>3, <1>10, <1>11 DEF Kept!Free

-----------------------------------------------------------------------------
\* The first snapshot of the thread: the abstract Propose.
LEMMA SerialPropose ==
  ASSUME TypeOK, AtRest, store.status = "none", store' = NewRecord,
         UNCHANGED <<calendar, audit>>
  PROVE  AtRest' /\ Kept!Propose
<1>1. Untouched /\ store.accepted = {}
  BY DEF AtRest
<1>2. /\ store'.status = "pending-both" /\ store'.accepted = {}
      /\ \A s \in Side : store'.holds[s].status = "absent"
  BY DEF NewRecord, NoRecord, NoHolds, NoHold
<1>3. /\ \A s \in Side : calendar[s] = {} /\ audit[s] = 0
  BY <1>1 DEF Untouched, Clear, Matches
<1>4. Untouched'
  BY <1>2, <1>3 DEF Untouched, Clear, Matches, Unreleased, Holding, Having
<1> QED
  BY <1>1, <1>2, <1>4 DEF AtRest, Kept!Propose

\* The store takes a snapshot with the holds it had: what was clear stays so.
LEMMA SameHoldsStay ==
  ASSUME store'.holds = store.holds, UNCHANGED <<calendar, audit>>
  PROVE  (Clear(store) => Clear(store)') /\ (Untouched => Untouched')
BY DEF Clear, Untouched, Matches, Unreleased, Holding, Having

\* An acceptance is recorded; the second one goes on to the commit.
LEMMA SerialAccept ==
  ASSUME TypeOK, AtRest, store.status = "pending-both", NEW o \in Side \ store.accepted,
         store' = Accepted(store, o), UNCHANGED <<calendar, audit>>
  PROVE  /\ Kept!Accept(o) /\ Untouched'
         /\ \/ store'.status = "both-accepted"
            \/ store'.status = "pending-both" /\ AtRest'
<1>1. /\ store'.accepted = store.accepted \cup {o} /\ store'.holds = store.holds
      /\ store'.status = IF store.accepted \cup {o} = Side THEN "both-accepted" ELSE "pending-both"
  BY DEF Accepted, TypeOK, Record
<1>2. Untouched'
  BY <1>1, SameHoldsStay DEF AtRest
<1>3. Kept!Side = Side
  BY DEF Side, Kept!Side
<1> QED
  BY <1>1, <1>2, <1>3 DEF AtRest, Kept!Accept

\* No event is on any calendar when the stored holds are clear.
LEMMA ClearMeansFree ==
  ASSUME Clear(store)
  PROVE  {s \in Side : calendar[s] # {}} = {}
BY DEF Clear, Matches

\* A request that nobody booked is closed.
LEMMA SerialClose ==
  ASSUME TypeOK, AtRest, NEW status \in {"expired", "declined"},
         store.status \in {"pending-both", "expired", "commit-failed"},
         status = "expired" => store.status = "pending-both",
         store' = [store EXCEPT !.status = status], UNCHANGED <<calendar, audit>>
  PROVE  AtRest' /\ (Kept!Expire \/ Kept!Decline)
<1>1. store'.status = status /\ store'.accepted = store.accepted /\ store'.holds = store.holds
  BY DEF TypeOK, Record
<1>2. Clear(store)
  BY DEF AtRest, Untouched
<1>3. Clear(store)'
  BY <1>1, <1>2, SameHoldsStay
<1>4. {s \in Side : calendar[s] # {}} = {}
  BY <1>2, ClearMeansFree
<1> QED
  BY <1>1, <1>3, <1>4 DEF AtRest, Kept!Expire, Kept!Decline

\* The outcome of a commit is recorded: both calendars booked, or neither.
LEMMA SerialSettle ==
  ASSUME TypeOK, NEW snapshot, store.status = "both-accepted",
         snapshot.accepted = store.accepted, Settling(snapshot), store' = snapshot,
         UNCHANGED <<calendar, audit>>
  PROVE  AtRest' /\ (Kept!Commit \/ Kept!Fail)
<1>1. CASE snapshot.status = "commit-failed" /\ Clear(snapshot)
  <2>1. Clear(store)' /\ {s \in Side : calendar[s] # {}} = {}
    BY <1>1 DEF Clear, Matches
  <2> QED
    BY <1>1, <2>1 DEF AtRest, Kept!Fail
<1>2. CASE snapshot.status = "committed" /\ Booked(snapshot)
  <2>1. Booked(store)'
    BY <1>2 DEF Booked, Matches
  <2>2. {s \in Side : calendar[s] # {}} = Kept!Side
    BY <1>2 DEF Booked, Matches, Unreleased, Having, Side, Kept!Side
  <2> QED
    BY <1>2, <2>1, <2>2 DEF AtRest, Kept!Commit
<1> QED
  BY <1>1, <1>2 DEF Settling

\* An appended snapshot is a step of the abstract handshake.
LEMMA SerialAppend ==
  ASSUME TypeOK, NEW r \in Requests, InFlight \subseteq {r}, AtWork(r), Append(r)
  PROVE  SerialInv' /\ Kept!Next
<1>1. pc[r] = "append" /\ store' = rec[r] /\ UNCHANGED <<calendar, audit>>
  BY DEF Append, world
<1>2. ASSUME store'.status # "both-accepted", AtRest' PROVE SerialInv'
  <2>1. Goto(r, "done", NoRecord)
    BY <1>1, <1>2 DEF Append
  <2> QED
    BY <1>2, <2>1, GoesOn DEF Stage
<1>3. ASSUME store'.status = "both-accepted", Untouched' PROVE SerialInv'
  <2>1. Goto(r, "commit", NoRecord)
    BY <1>1, <1>3 DEF Append
  <2>2. pc'[r] = "commit"
    BY <2>1, GoesAlone DEF Stage
  <2>3. AtWork(r)'
    BY <1>3, <2>2 DEF AtWork
  <2> QED
    BY <2>1, <2>3, GoesOn DEF Stage
<1>4. CASE AtRest /\ Answering(rec[r])
  <2>1. CASE store.status = "none" /\ rec[r] = NewRecord
    <3>1. AtRest' /\ Kept!Propose /\ store'.status # "both-accepted"
      BY <1>1, <1>4, <2>1, SerialPropose DEF NewRecord, NoRecord
    <3> QED
      BY <1>2, <3>1 DEF Kept!Next
  <2>2. ASSUME NEW o \in Side \ store.accepted, store.status = "pending-both",
               rec[r] = Accepted(store, o)
        PROVE  SerialInv' /\ Kept!Next
    <3>1. /\ Kept!Accept(o) /\ Untouched'
          /\ \/ store'.status = "both-accepted"
             \/ store'.status = "pending-both" /\ AtRest'
      BY <1>1, <1>4, <2>2, SerialAccept
    <3>2. o \in Kept!Side
      BY DEF Side, Kept!Side
    <3> QED
      BY <1>2, <1>3, <3>1, <3>2 DEF Kept!Next
  <2>3. ASSUME NEW status \in {"expired", "declined"},
               store.status \in {"pending-both", "expired", "commit-failed"},
               status = "expired" => store.status = "pending-both",
               rec[r] = [store EXCEPT !.status = status]
        PROVE  SerialInv' /\ Kept!Next
    <3>1. AtRest' /\ (Kept!Expire \/ Kept!Decline)
      BY <1>1, <1>4, <2>3, SerialClose
    <3>2. store'.status # "both-accepted"
      BY <1>1, <2>3 DEF TypeOK, Record
    <3> QED
      BY <1>2, <3>1, <3>2 DEF Kept!Next
  <2> QED
    BY <1>4, <2>1, <2>2, <2>3 DEF Answering
<1>5. CASE /\ store.status = "both-accepted" /\ rec[r].accepted = store.accepted
           /\ Settling(rec[r])
  <2>1. AtRest' /\ (Kept!Commit \/ Kept!Fail)
    BY <1>1, <1>5, SerialSettle
  <2>2. store'.status # "both-accepted"
    BY <1>1, <1>5 DEF Settling
  <2> QED
    BY <1>2, <2>1, <2>2 DEF Kept!Next
<1> QED
  BY <1>1, <1>4, <1>5 DEF AtWork

\* Every step of the handlers is a step of the handshake, or none.
LEMMA SerialStep ==
  ASSUME Serially, TypeOK, SerialInv, [Next]_vars
  PROVE  SerialInv' /\ [Kept!Next]_Kept!vars
<1>1. ASSUME NEW r \in Requests, Start(r) PROVE SerialInv' /\ UNCHANGED Kept!vars
  BY <1>1, SerialStart
<1>2. ASSUME NEW r \in Requests, Step(r) PROVE SerialInv' /\ [Kept!Next]_Kept!vars
  <2>1. r \in InFlight
    BY <1>2 DEF Step, Commit, Lookup, Create, CreateFails, AuditWrite, Confirm, ConfirmFails,
                Release, ReleaseFails, Append, InFlight
  <2>2. InFlight \subseteq {r} /\ AtWork(r)
    BY <2>1 DEF SerialInv
  <2>3. ~ReleaseFails(r)
    BY DEF ReleaseFails, Serially
  <2>4. CASE Commit(r) \/ Lookup(r) \/ AuditWrite(r) \/ Confirm(r)
    BY <2>2, <2>4, SerialCommit, SerialLookup, SerialAudit, SerialConfirm
  <2>5. CASE CreateFails(r) \/ ConfirmFails(r)
    BY <2>2, <2>5, SerialFails
  <2>6. Kept!Side = Side
    BY DEF Side, Kept!Side
  <2>7. CASE Create(r)
    BY <2>2, <2>6, <2>7, SerialCreate DEF Kept!Next
  <2>8. CASE Release(r)
    BY <2>2, <2>6, <2>8, SerialRelease DEF Kept!Next
  <2>9. CASE Append(r)
    BY <2>2, <2>9, SerialAppend
  <2> QED
    BY <1>2, <2>3, <2>4, <2>5, <2>7, <2>8, <2>9 DEF Step
<1>3. ASSUME TtlElapses \/ UNCHANGED vars PROVE SerialInv' /\ UNCHANGED Kept!vars
  <2>1. UNCHANGED <<store, calendar, audit, pc, rec>>
    BY <1>3 DEF TtlElapses, vars, world
  <2>2. InFlight' = InFlight /\ (AtRest' <=> AtRest) /\ (Untouched' <=> Untouched)
    BY <2>1, RestStays DEF InFlight
  <2>3. ASSUME NEW r \in Requests
        PROVE  /\ Answering(rec[r])' <=> Answering(rec[r])
               /\ Settling(rec[r])' <=> Settling(rec[r])
               /\ Booking(pc[r], rec[r])' <=> Booking(pc[r], rec[r])
               /\ Undoing(rec[r])' <=> Undoing(rec[r])
    <3>1. Matches(rec[r])' <=> Matches(rec[r])
      BY <2>1 DEF Matches
    <3> QED
      BY <2>1, <3>1 DEF Answering, Settling, Booked, Clear, Booking, Undoing
  <2>4. ASSUME NEW r \in Requests, AtWork(r) PROVE AtWork(r)'
    BY <2>1, <2>2, <2>3, <2>4 DEF AtWork
  <2> QED
    BY <2>1, <2>2, <2>4 DEF SerialInv, InFlight, Kept!vars
<1>4. ~Crash
  BY DEF Crash, Serially, Alone, TypeOK
<1> QED
  BY <1>1, <1>2, <1>3, <1>4 DEF Next

\* It starts at rest, with nothing proposed.
LEMMA SerialStarts == Init => SerialInv /\ Kept!Init
<1> SUFFICES ASSUME Init PROVE SerialInv /\ Kept!Init
  OBVIOUS
<1>1. InFlight = {}
  BY DEF Init, InFlight
<1>2. store.status = "none" /\ store.accepted = {} /\ \A s \in Side : store.holds[s].status = "absent"
  BY DEF Init, NoRecord, NoHolds, NoHold
<1>3. \A s \in Side : calendar[s] = {} /\ audit[s] = 0
  BY DEF Init
<1>4. Untouched
  BY <1>2, <1>3 DEF Untouched, Clear, Matches, Unreleased, Holding, Having
<1> QED
  BY <1>1, <1>2, <1>3, <1>4 DEF SerialInv, AtRest, Kept!Init

\* The circumstances of a behaviour stay as they are.
LEMMA SameCircumstances ==
  ASSUME [Next]_vars
  PROVE  (Serially' <=> Serially) /\ (Reserving' <=> Reserving)
BY DEF Next, vars, Serially, Reserving, Alone, MaxInFlight, MaxCrashes, Faults, ReserveAtPropose

\* Where handlers do not overlap, KeepsPromise speaks of the record as it is ...
LEMMA PromiseOfRecord ==
  ASSUME Serially, Serially', [Kept!Next]_Kept!vars
  PROVE  [Promise!Next]_Promise!vars
<1>1. CASE UNCHANGED Kept!vars
  BY <1>1 DEF Kept!vars, Promise!vars
<1>2. CASE Kept!Propose
  BY <1>2 DEF Kept!Propose, Promise!Propose, Promise!Next
<1>3. CASE Kept!Commit
  BY <1>3 DEF Kept!Commit, Promise!Commit, Promise!Next, Kept!Side, Promise!Side
<1>4. CASE Kept!Fail
  BY <1>4 DEF Kept!Fail, Promise!Fail, Promise!Next
<1>5. CASE Kept!Expire
  BY <1>5 DEF Kept!Expire, Promise!Expire, Promise!Next
<1>6. CASE Kept!Decline
  BY <1>6 DEF Kept!Decline, Promise!Decline, Promise!Next
<1>7. ASSUME NEW s \in Kept!Side, Kept!Accept(s) PROVE Promise!Next
  BY <1>7 DEF Kept!Accept, Promise!Accept, Promise!Next, Kept!Side, Promise!Side
<1>8. ASSUME NEW s \in Kept!Side, Kept!Book(s) PROVE Promise!Next
  BY <1>8 DEF Kept!Book, Promise!Book, Promise!Next, Kept!Side, Promise!Side
<1>9. ASSUME NEW s \in Kept!Side, Kept!Free(s) PROVE Promise!Next
  BY <1>9 DEF Kept!Free, Promise!Free, Promise!Next, Kept!Side, Promise!Side
<1> QED
  BY <1>1, <1>2, <1>3, <1>4, <1>5, <1>6, <1>7, <1>8, <1>9 DEF Kept!Next

\* ... and says nothing elsewhere.
LEMMA PromiseElsewhere ==
  ASSUME ~Serially, ~Serially'
  PROVE  UNCHANGED Promise!vars
BY DEF Promise!vars

\* Handlers of meeting-request.ts that do not overlap, over calendars whose
\* deletes succeed, implement the handshake: events are only written once both
\* owners have accepted, a request is committed only with both calendars
\* booked, and it is closed in any other way only with neither.
THEOREM KeepsItsPromise == Spec => KeepsPromise
<1> DEFINE Inv == TypeOK /\ (Serially => SerialInv)
<1>1. Init => Inv /\ Promise!Init
  <2>1. Init => TypeOK
    BY TypeInit DEF TypeInv
  <2>2. Kept!Init => Promise!Init
    BY DEF Kept!Init, Promise!Init
  <2> QED
    BY <2>1, <2>2, SerialStarts
<1>2. TypeOK /\ Inv /\ [Next]_vars => (Serially => SerialInv)' /\ [Promise!Next]_Promise!vars
  <2> SUFFICES ASSUME TypeOK, Serially => SerialInv, [Next]_vars
               PROVE  (Serially' => SerialInv') /\ [Promise!Next]_Promise!vars
    OBVIOUS
  <2>1. CASE Serially
    BY <2>1, SerialStep, SameCircumstances, PromiseOfRecord
  <2>2. CASE ~Serially
    BY <2>2, SameCircumstances, PromiseElsewhere
  <2> QED
    BY <2>1, <2>2
<1> QED
  BY <1>1, <1>2, TypeCorrect, PTL DEF Spec, KeepsPromise, Promise!Spec

-----------------------------------------------------------------------------
(***************************************************************************)
(* Both owners get the meeting or neither does.  Of handlers that do not   *)
(* overlap it takes, beside SerialInv, how often an event was created and  *)
(* which acceptances were given.                                           *)
(***************************************************************************)

\* No side gets a second event: one that is not held yet was never created.
CreatedOnce ==
  /\ \A s \in Side : created[s] <= 1
  /\ store.status \in {"none", "pending-both"} => \A s \in Side : created[s] = 0
  /\ \A r \in InFlight :
       /\ pc[r] = "commit" => \A s \in Side : created[s] = 0
       /\ pc[r] \in {"place", "create", "audit", "confirm"} =>
            \A s \in Side \ Holding(rec[r]) : created[s] = 0

\* What was accepted is in the stored snapshot, or in the one to be appended.
AcceptanceKept ==
  /\ store.status = "none" => consent = {}
  /\ store.status = "pending-both" => store.accepted # Side
  /\ InFlight = {} /\ store.status = "pending-both" => consent \subseteq store.accepted
  /\ \A r \in InFlight :
       pc[r] = "append" /\ rec[r].status = "pending-both" =>
         consent \subseteq rec[r].accepted /\ rec[r].accepted # Side

(***************************************************************************)
(* Holds that are placed with the proposal, over calendars whose deletes   *)
(* may throw.  Here a snapshot does not know what is on the calendars, but *)
(* it covers it: what a side still has is the event of an unreleased hold. *)
(***************************************************************************)
Covers(snapshot) ==
  \A s \in Side : calendar[s] \subseteq
    IF s \in Unreleased(snapshot) THEN {snapshot.holds[s].event} ELSE {}

Fit(snapshot) ==
  /\ snapshot.status # "none" /\ Covers(snapshot)
  /\ snapshot.status \in {"pending-both", "both-accepted"} => Holding(snapshot) = Side
  /\ snapshot.status \in {"declined", "commit-failed"} => Unreleased(snapshot) = {}

\* A proposal that failed without a record: its event may be there still, and
\* the audit will find it.
Unbooked == created["peer"] = 0 /\ \A s \in Side : audit[s] = created[s]

\* A proposal on its way to both holds; the newest one may not be audited yet.
Newest(held) == IF held = Side THEN "peer" ELSE "self"
Placing(stage, snapshot) ==
  LET held == Holding(snapshot) IN
  /\ Having(snapshot, "tentative") = held /\ \A s \in held : snapshot.holds[s].event = 1 /\ created[s] = 1
  /\ "peer" \in held => "self" \in held
  /\ "peer" \notin held => created["peer"] = 0
  /\ \A s \in Side : (stage = "audit" => s # Newest(held)) => audit[s] = created[s]
  /\ stage \in {"place", "create"} => held # Side
  /\ stage = "create" => created[First(Side \ held)] = 0
  /\ stage = "audit" => "self" \in held

Reserved(r) ==
  \/ pc[r] = "append" /\ Fit(rec[r])
  \/ pc[r] = "commit" /\ store.status # "none"
  \/ /\ pc[r] \in {"place", "create", "audit"}
     /\ store.status = "none" /\ rec[r].status = "pending-both" /\ Placing(pc[r], rec[r])
  \/ /\ pc[r] = "confirm" /\ store.status # "none"
     /\ rec[r].status = "both-accepted" /\ Covers(rec[r])
  \/ /\ pc[r] = "release" /\ rec[r].status \in {"declined", "expired", "commit-failed"}
     /\ Covers(rec[r]) /\ Unreleased(rec[r]) # {} /\ (store.status = "none" => Unbooked)

ReservedInv ==
  /\ \A q, r \in InFlight : q = r
  /\ \A s \in Side : created[s] <= 1 /\ calendar[s] \subseteq 1 .. created[s]
  /\ store.status # "none" => Fit(store)
  /\ InFlight = {} /\ store.status = "none" => Unbooked
  /\ \A r \in InFlight : Reserved(r)

\* What a handler that starts does to the acceptances.
LEMMA StartAccepts ==
  ASSUME TypeOK, AtRest, InFlight = {}, AcceptanceKept, NEW r \in Requests, Start(r), ~ReserveAtPropose
  PROVE  /\ UNCHANGED <<store, created>> /\ (store.status = "none" => consent' = {})
         /\ \/ \E snapshot : Goto(r, "done", snapshot) /\ consent' = consent
            \/ \E snapshot :
                 /\ Goto(r, "append", snapshot)
                 /\ snapshot.status = "pending-both" =>
                      consent' \subseteq snapshot.accepted /\ snapshot.accepted # Side
<1>1. CASE Propose(r)
  <2>1. NewRecord.accepted = {}
    BY DEF NewRecord, NoRecord
  <2> QED
    BY <1>1, <2>1 DEF Propose, Return, AcceptanceKept, world, Side
<1>2. ASSUME NEW o \in Side \cup {"stranger"}, NEW token \in Side \cup {"none"},
             AcceptRefuse(r, o, token) \/ AcceptAgain(r, o, token)
      PROVE  UNCHANGED <<store, created, consent>> /\ \E snapshot : Goto(r, "done", snapshot)
  BY <1>2 DEF AcceptRefuse, AcceptAgain, Return, world, AtRest, AcceptRefused
<1>3. ASSUME NEW o \in Side \cup {"stranger"}, NEW token \in Side \cup {"none"},
             AcceptLate(r, o, token)
      PROVE  /\ UNCHANGED <<store, created, consent>>
             /\ \E snapshot : Goto(r, "append", snapshot) /\ snapshot.status # "pending-both"
  <2>1. [store EXCEPT !.status = "expired"].status = "expired"
    BY DEF TypeOK, Record
  <2> QED
    BY <1>3, <2>1 DEF AcceptLate, world
<1>4. ASSUME NEW o \in Side \cup {"stranger"}, NEW token \in Side \cup {"none"},
             AcceptFirst(r, o, token)
      PROVE  /\ UNCHANGED <<store, created>> /\ store.status # "none"
             /\ \E snapshot :
                  /\ Goto(r, "append", snapshot)
                  /\ snapshot.status = "pending-both" =>
                       consent' \subseteq snapshot.accepted /\ snapshot.accepted # Side
  <2>1. store.status = "pending-both" /\ consent \subseteq store.accepted
    BY <1>4 DEF AcceptFirst, AcceptRefused, AtRest, AcceptanceKept
  <2>2. /\ Accepted(store, o).accepted = store.accepted \cup {o}
        /\ Accepted(store, o).status = "pending-both" => store.accepted \cup {o} # Side
    BY DEF Accepted, TypeOK, Record
  <2>3. consent' \subseteq store.accepted \cup {o}
    BY <1>4, <2>1 DEF AcceptFirst
  <2> QED
    BY <1>4, <2>1, <2>2, <2>3 DEF AcceptFirst, world
<1>5. ASSUME NEW status \in {"declined", "expired"}, GotoRelease(r, [store EXCEPT !.status = status]),
             store.status # "committed", store.status # "both-accepted"
      PROVE  \E snapshot : Goto(r, "append", snapshot) /\ snapshot.status # "pending-both"
  <2>1. Unreleased(store) = {}
    BY <1>5 DEF AtRest, Untouched, Clear
  <2>2. /\ [store EXCEPT !.status = status].holds = store.holds
        /\ [store EXCEPT !.status = status].status = status
    BY DEF TypeOK, Record
  <2>3. Unreleased([store EXCEPT !.status = status]) = {}
    BY <2>1, <2>2, SameHolds
  <2> QED
    BY <1>5, <2>2, <2>3 DEF GotoRelease
<1>6. ASSUME NEW o \in Side \cup {"stranger"}, Decline(r, o)
      PROVE  /\ UNCHANGED <<store, created, consent>>
             /\ \/ \E snapshot : Goto(r, "done", snapshot)
                \/ \E snapshot : Goto(r, "append", snapshot) /\ snapshot.status # "pending-both"
  <2>1. CASE DeclineRefused(o)
    BY <1>6, <2>1 DEF Decline, Return, world
  <2>2. CASE ~DeclineRefused(o)
    BY <1>5, <1>6, <2>2 DEF Decline, DeclineRefused, AtRest, world
  <2> QED
    BY <2>1, <2>2
<1>7. ASSUME Expire(r)
      PROVE  /\ UNCHANGED <<store, created, consent>>
             /\ \/ \E snapshot : Goto(r, "done", snapshot)
                \/ \E snapshot : Goto(r, "append", snapshot) /\ snapshot.status # "pending-both"
  <2>1. CASE ~Expirable
    BY <1>7, <2>1 DEF Expire, Return, world
  <2>2. CASE Expirable
    BY <1>5, <1>7, <2>2 DEF Expire, Expirable, AtRest, world
  <2> QED
    BY <2>1, <2>2
<1> QED
  BY <1>1, <1>2, <1>3, <1>4, <1>6, <1>7 DEF Start, Accept, AcceptanceKept

\* What starts creates nothing and keeps the acceptances.
LEMMA OnceStart ==
  ASSUME Serially, TypeOK, SerialInv, CreatedOnce, AcceptanceKept, NEW r \in Requests, Start(r)
  PROVE  CreatedOnce' /\ AcceptanceKept'
<1>1. CanStart(r)
  BY DEF Start, Propose, Accept, AcceptRefuse, AcceptLate, AcceptAgain, AcceptFirst, Decline, Expire
<1>2. InFlight = {} /\ AtRest
  BY <1>1, StartsAlone
<1>3. /\ UNCHANGED <<store, created>> /\ (store.status = "none" => consent' = {})
      /\ \/ \E snapshot : Goto(r, "done", snapshot) /\ consent' = consent
         \/ \E snapshot :
              /\ Goto(r, "append", snapshot)
              /\ snapshot.status = "pending-both" =>
                   consent' \subseteq snapshot.accepted /\ snapshot.accepted # Side
  BY <1>2, StartAccepts DEF Serially
<1>4. ASSUME NEW snapshot, Goto(r, "done", snapshot), consent' = consent
      PROVE  CreatedOnce' /\ AcceptanceKept'
  <2>1. InFlight' = {}
    BY <1>2, <1>4, GoesAlone DEF Stage
  <2> QED
    BY <1>2, <1>3, <1>4, <2>1 DEF CreatedOnce, AcceptanceKept
<1>5. ASSUME NEW snapshot, Goto(r, "append", snapshot),
             snapshot.status = "pending-both" =>
               consent' \subseteq snapshot.accepted /\ snapshot.accepted # Side
      PROVE  CreatedOnce' /\ AcceptanceKept'
  <2>1. InFlight' = {r} /\ pc'[r] = "append" /\ rec'[r] = snapshot
    BY <1>2, <1>5, GoesAlone DEF Stage
  <2> QED
    BY <1>3, <1>5, <2>1 DEF CreatedOnce, AcceptanceKept
<1> QED
  BY <1>3, <1>4, <1>5

-----------------------------------------------------------------------------
\* Between the second acceptance and the outcome there is nothing to keep.
LEMMA KeptWhileBoth ==
  ASSUME SerialInv', store'.status = "both-accepted"
  PROVE  AcceptanceKept'
<1>1. ~AtRest'
  BY DEF AtRest
<1>2. ASSUME NEW r \in InFlight', pc'[r] = "append" PROVE rec'[r].status # "pending-both"
  BY <1>1, <1>2 DEF SerialInv, AtWork, Settling
<1> QED
  BY <1>1, <1>2 DEF SerialInv, AcceptanceKept

\* A handler at work that does not append finds both acceptances.
LEMMA WorksOnBoth ==
  ASSUME NEW r \in Requests, AtWork(r), pc[r] # "append"
  PROVE  store.status = "both-accepted"
BY DEF AtWork

\* A step that creates nothing keeps at most one event per side, if the sides
\* without a hold stay the same.
LEMMA OnceGoesOn ==
  ASSUME TypeOK, NEW r \in Requests, InFlight \subseteq {r}, CreatedOnce,
         NEW stage \in Stage \ {"idle", "commit"}, NEW snapshot, Goto(r, stage, snapshot),
         UNCHANGED <<store, created>>,
         stage \in {"place", "create", "audit", "confirm"} =>
           \A s \in Side \ Holding(snapshot) : created[s] = 0
  PROVE  CreatedOnce'
<1>1. /\ InFlight' \subseteq {r} /\ pc'[r] = stage /\ rec'[r] = snapshot
  BY GoesAlone
<1> QED
  BY <1>1 DEF CreatedOnce

\* A hold more leaves fewer sides without one.
LEMMA HoldsGrow ==
  ASSUME NEW snapshot \in Record, NEW s \in Side, NEW e \in Nat,
         NEW st \in {"tentative", "busy", "released"}
  PROVE  Holding(WithHold(snapshot, s, st, e)) = Holding(snapshot) \cup {s}
<1> DEFINE next == WithHold(snapshot, s, st, e)
<1>1. next.holds[s].status = st /\ \A t \in Side \ {s} : next.holds[t] = snapshot.holds[t]
  BY DEF WithHold, Record, Hold
<1> QED
  BY <1>1 DEF Holding, Having

LEMMA OnceWork ==
  ASSUME TypeOK, SerialInv, CreatedOnce, NEW r \in Requests, InFlight \subseteq {r}, r \in InFlight,
         Commit(r) \/ Lookup(r) \/ CreateFails(r) \/ AuditWrite(r) \/ Confirm(r)
           \/ ConfirmFails(r) \/ Release(r)
  PROVE  CreatedOnce'
<1>0. rec[r] \in Record /\ UNCHANGED <<store, created>>
  BY DEF TypeOK, Commit, Lookup, CreateFails, AuditWrite, Confirm, ConfirmFails, Release, world
<1>1. CASE Commit(r)
  <2>1. \A s \in Side : created[s] = 0
    BY <1>1 DEF Commit, CreatedOnce
  <2>2. PICK stage, snapshot : stage \in {"done", "place", "confirm"} /\ Goto(r, stage, snapshot)
    BY <1>1 DEF Commit, Return
  <2> QED
    BY <1>0, <2>1, <2>2, OnceGoesOn DEF Stage
<1>2. ASSUME pc[r] \in {"place", "create", "audit", "confirm"}
      PROVE  \A s \in Side \ Holding(rec[r]) : created[s] = 0
  BY <1>2 DEF CreatedOnce
<1>3. CASE Lookup(r)
  <2> DEFINE s == First(Side \ Holding(rec[r]))
             next == WithHold(rec[r], s, "tentative", audit[s])
  <2>1. s \in Side /\ audit[s] \in Nat
    BY FirstType DEF TypeOK
  <2>2. Holding(next) = Holding(rec[r]) \cup {s}
    BY <1>0, <2>1, HoldsGrow
  <2>3. \/ Goto(r, "create", rec[r])
        \/ \E stage \in {"place", "append", "confirm"} : Goto(r, stage, next)
    BY <1>3 DEF Lookup, AfterHold
  <2>4. pc[r] = "place"
    BY <1>3 DEF Lookup
  <2> HIDE DEF next, s
  <2> QED
    BY <1>0, <1>2, <2>2, <2>3, <2>4, OnceGoesOn DEF Stage
<1>4. CASE CreateFails(r) \/ ConfirmFails(r)
  <2>1. PICK stage, snapshot : stage \in {"append", "release"} /\ Goto(r, stage, snapshot)
    BY <1>4 DEF CreateFails, ConfirmFails, GotoRelease
  <2> QED
    BY <1>0, <2>1, OnceGoesOn DEF Stage
<1>5. CASE AuditWrite(r)
  <2>1. PICK stage \in {"place", "append", "confirm"} : Goto(r, stage, rec[r])
    BY <1>5 DEF AuditWrite, AfterHold
  <2>2. pc[r] = "audit"
    BY <1>5 DEF AuditWrite
  <2> QED
    BY <1>0, <1>2, <2>1, <2>2, OnceGoesOn DEF Stage
<1>6. CASE Confirm(r)
  <2> DEFINE s == First(Having(rec[r], "tentative"))
             next == WithHold(rec[r], s, "busy", rec[r].holds[s].event)
  <2>1. s \in Side
    BY FirstType
  <2>2. rec[r].holds[s].event \in Nat
    BY <1>0, <2>1 DEF Record, Hold
  <2>3. Holding(next) = Holding(rec[r]) \cup {s}
    BY <1>0, <2>1, <2>2, HoldsGrow
  <2>4. \/ Goto(r, "confirm", next) \/ Goto(r, "append", [next EXCEPT !.status = "committed"])
    BY <1>6 DEF Confirm
  <2>5. pc[r] = "confirm"
    BY <1>6 DEF Confirm
  <2> HIDE DEF next, s
  <2> QED
    BY <1>0, <1>2, <2>3, <2>4, <2>5, OnceGoesOn DEF Stage
<1>7. CASE Release(r)
  <2>1. PICK stage, snapshot : stage \in {"append", "release"} /\ Goto(r, stage, snapshot)
    BY <1>7 DEF Release, GotoRelease
  <2> QED
    BY <1>0, <2>1, OnceGoesOn DEF Stage
<1> QED
  BY <1>1, <1>3, <1>4, <1>5, <1>6, <1>7

\* The event that is created is the first of its side.
LEMMA OnceCreate ==
  ASSUME TypeOK, SerialInv, CreatedOnce, NEW r \in Requests, InFlight \subseteq {r}, AtWork(r),
         r \in InFlight, Create(r)
  PROVE  CreatedOnce'
<1> DEFINE s == First(Side \ Holding(rec[r]))
           e == created[s] + 1
           next == WithHold(rec[r], s, "tentative", e)
<1>1. /\ pc[r] = "create" /\ UNCHANGED store /\ created' = [created EXCEPT ![s] = e]
      /\ Goto(r, "audit", next)
  BY DEF Create
<1>2. Holding(rec[r]) # Side /\ store.status = "both-accepted"
  BY <1>1, AtBooking DEF Booking
<1>3. s \in Side \ Holding(rec[r])
  BY <1>2 DEF First, Holding, Side
<1>4. created[s] = 0 /\ \A t \in Side \ Holding(rec[r]) : created[t] = 0
  BY <1>1, <1>3 DEF CreatedOnce
<1>5. created \in [Side -> Nat] /\ rec[r] \in Record
  BY DEF TypeOK
<1>6. e = 1
  BY <1>4
<1>7. Holding(next) = Holding(rec[r]) \cup {s}
  BY <1>3, <1>5, <1>6, HoldsGrow
<1>8. InFlight' = {r} /\ pc'[r] = "audit" /\ rec'[r] = next
  BY <1>1, GoesAlone DEF Stage
<1> HIDE DEF next, e, s
<1>9. \A t \in Side : created'[t] = IF t = s THEN 1 ELSE created[t]
  BY <1>1, <1>5, <1>6
<1> QED
  BY <1>1, <1>2, <1>3, <1>4, <1>7, <1>8, <1>9 DEF CreatedOnce

\* An answer is recorded before anything was created for the request.
LEMMA AnswerStatus ==
  ASSUME TypeOK, NEW r \in Requests, Answering(rec[r])
  PROVE  /\ rec[r].status # "none"
         /\ rec[r].status \in {"pending-both", "both-accepted"} =>
              store.status \in {"none", "pending-both"}
<1>1. NewRecord.status = "pending-both"
  BY DEF NewRecord, NoRecord
<1>2. \A o : Accepted(store, o).status \in {"pending-both", "both-accepted"}
  BY DEF Accepted, TypeOK, Record
<1>3. \A status : [store EXCEPT !.status = status].status = status
  BY DEF TypeOK, Record
<1> QED
  BY <1>1, <1>2, <1>3 DEF Answering

LEMMA OnceAppend ==
  ASSUME TypeOK, SerialInv, CreatedOnce, AcceptanceKept, NEW r \in Requests, r \in InFlight,
         InFlight \subseteq {r}, Append(r)
  PROVE  CreatedOnce' /\ AcceptanceKept'
<1>1. pc[r] = "append" /\ store' = rec[r] /\ UNCHANGED <<created, consent>>
  BY DEF Append, world
<1>2. PICK stage \in {"done", "commit"} :
        /\ Goto(r, stage, NoRecord)
        /\ stage = "commit" => rec[r].status = "both-accepted"
  BY DEF Append
<1>3. InFlight' = (IF stage = "done" THEN {} ELSE {r}) /\ pc'[r] = stage
  BY <1>2, GoesAlone DEF Stage
<1>4. AtWork(r)
  BY DEF SerialInv
<1>5. /\ rec[r].status # "none"
      /\ rec[r].status \in {"pending-both", "both-accepted"} =>
           store.status \in {"none", "pending-both"}
  BY <1>1, <1>4, AnswerStatus DEF AtWork, Settling
<1>6. rec[r].status \in {"pending-both", "both-accepted"} => \A s \in Side : created[s] = 0
  BY <1>5 DEF CreatedOnce
<1>7. CreatedOnce'
  BY <1>1, <1>2, <1>3, <1>5, <1>6 DEF CreatedOnce
<1>8. rec[r].status = "pending-both" => consent \subseteq rec[r].accepted /\ rec[r].accepted # Side
  BY <1>1 DEF AcceptanceKept
<1>9. AcceptanceKept'
  BY <1>1, <1>3, <1>5, <1>8 DEF AcceptanceKept
<1> QED
  BY <1>7, <1>9

LEMMA OnceStep ==
  ASSUME Serially, TypeOK, SerialInv, SerialInv', CreatedOnce, AcceptanceKept, [Next]_vars
  PROVE  CreatedOnce' /\ AcceptanceKept'
<1>1. ASSUME NEW r \in Requests, Start(r) PROVE CreatedOnce' /\ AcceptanceKept'
  BY <1>1, OnceStart
<1>2. ASSUME NEW r \in Requests, Step(r) PROVE CreatedOnce' /\ AcceptanceKept'
  <2>1. r \in InFlight
    BY <1>2 DEF Step, Commit, Lookup, Create, CreateFails, AuditWrite, Confirm, ConfirmFails,
                Release, ReleaseFails, Append, InFlight
  <2>2. InFlight \subseteq {r} /\ AtWork(r)
    BY <2>1 DEF SerialInv
  <2>3. ~ReleaseFails(r)
    BY DEF ReleaseFails, Serially
  <2>4. CASE Append(r)
    BY <2>1, <2>2, <2>4, OnceAppend
  <2>5. CASE ~Append(r)
    <3>1. pc[r] # "append" /\ store' = store
      BY <1>2, <2>3, <2>5 DEF Step, Commit, Lookup, Create, CreateFails, AuditWrite, Confirm,
                              ConfirmFails, Release
    <3>2. AcceptanceKept'
      BY <2>2, <3>1, WorksOnBoth, KeptWhileBoth
    <3>3. CreatedOnce'
      BY <1>2, <2>1, <2>2, <2>3, <2>5, OnceWork, OnceCreate DEF Step
    <3> QED
      BY <3>2, <3>3
  <2> QED
    BY <2>4, <2>5
<1>3. ASSUME TtlElapses \/ UNCHANGED vars PROVE CreatedOnce' /\ AcceptanceKept'
  <2>1. UNCHANGED <<store, created, pc, rec, consent>>
    BY <1>3 DEF TtlElapses, vars, world
  <2>2. InFlight' = InFlight
    BY <2>1 DEF InFlight
  <2> QED
    BY <2>1, <2>2 DEF CreatedOnce, AcceptanceKept
<1>4. ~Crash
  BY DEF Crash, Serially, Alone, TypeOK
<1> QED
  BY <1>1, <1>2, <1>3, <1>4 DEF Next

\* It starts with nothing created and nothing accepted.
LEMMA OnceStarts == Init => CreatedOnce /\ AcceptanceKept
<1> SUFFICES ASSUME Init PROVE CreatedOnce /\ AcceptanceKept
  OBVIOUS
<1>1. InFlight = {}
  BY DEF Init, InFlight
<1>2. store.status = "none" /\ consent = {} /\ \A s \in Side : created[s] = 0
  BY DEF Init, NoRecord
<1> QED
  BY <1>1, <1>2 DEF CreatedOnce, AcceptanceKept

\* At rest or at work, a committed request is booked and one that is neither
\* committed nor on its way has nothing on a calendar.
LEMMA SerialPromises ==
  ASSUME TypeOK, SerialInv, CreatedOnce, AcceptanceKept
  PROVE  OneEventPerSide /\ CommittedMeansBooked /\ NothingLeftUnlessCommitted /\ NoLostAcceptance
<1>1. OneEventPerSide
  BY DEF OneEventPerSide, CreatedOnce
<1>2. CommittedMeansBooked
  <2> SUFFICES ASSUME store.status = "committed" PROVE Booked(store)
    BY DEF CommittedMeansBooked, Booked, Matches, Having, Unreleased
  <2>1. AtRest
    BY DEF SerialInv, AtWork
  <2> QED
    BY <2>1 DEF AtRest
<1>3. NothingLeftUnlessCommitted
  <2> SUFFICES ASSUME InFlight = {}, store.status # "committed" PROVE \A s \in Side : calendar[s] = {}
    BY DEF NothingLeftUnlessCommitted
  <2>1. Clear(store)
    BY DEF SerialInv, AtRest, Untouched
  <2> QED
    BY <2>1 DEF Clear, Matches
<1>4. NoLostAcceptance
  BY DEF NoLostAcceptance, AcceptanceKept, TypeOK, Record
<1> QED
  BY <1>1, <1>2, <1>3, <1>4

\* A handler starts alone where handlers do not overlap.
LEMMA ReservesAlone ==
  ASSUME Reserving, ReservedInv, NEW r \in Requests, CanStart(r)
  PROVE  InFlight = {}
<1>1. \A p, q \in InFlight : p = q
  BY DEF ReservedInv
<1>2. ASSUME NEW q \in InFlight PROVE FALSE
  <2>1. InFlight = {q}
    BY <1>1
  <2>2. Cardinality(InFlight) = 1
    BY <2>1, FS_Singleton
  <2> QED
    BY <2>2 DEF CanStart, Reserving, Alone
<1> QED
  BY <1>2

\* The invariant after a step that leaves store and calendars alone.
LEMMA ReservedGoesOn ==
  ASSUME TypeOK, ReservedInv, NEW r \in Requests, InFlight \subseteq {r},
         NEW stage \in Stage \ {"idle"}, NEW snapshot, Goto(r, stage, snapshot),
         UNCHANGED <<store, calendar, created>>,
         IF stage \in {"done", "thrown", "lost"} THEN (store.status = "none" => Unbooked)'
           ELSE pc'[r] = stage /\ rec'[r] = snapshot => Reserved(r)'
  PROVE  ReservedInv'
<1>1. /\ InFlight' = IF stage \in {"done", "thrown", "lost"} THEN {} ELSE {r}
      /\ pc'[r] = stage /\ rec'[r] = snapshot
  BY GoesAlone
<1>2. Fit(store)' <=> Fit(store)
  BY DEF Fit, Covers
<1> QED
  BY <1>1, <1>2 DEF ReservedInv

\* What a snapshot covers depends on its holds alone.
LEMMA SameCover ==
  ASSUME NEW one, NEW other, one.holds = other.holds
  PROVE  Covers(one) <=> Covers(other)
<1>1. Unreleased(one) = Unreleased(other)
  BY SameHolds
<1> QED
  BY <1>1 DEF Covers

\* To release what is left, or to record that nothing is.
LEMMA ReleaseGoesOn ==
  ASSUME TypeOK, ReservedInv, NEW r \in Requests, InFlight \subseteq {r}, NEW snapshot,
         GotoRelease(r, snapshot), UNCHANGED <<store, calendar, created, audit>>,
         snapshot.status \in {"declined", "expired", "commit-failed"}, Covers(snapshot),
         store.status = "none" => Unbooked
  PROVE  ReservedInv'
<1>1. CASE Unreleased(snapshot) = {}
  <2>1. Goto(r, "append", snapshot)
    BY <1>1 DEF GotoRelease
  <2>2. Fit(snapshot)
    BY <1>1 DEF Fit
  <2>3. ASSUME pc'[r] = "append", rec'[r] = snapshot PROVE Reserved(r)'
    BY <2>2, <2>3 DEF Reserved, Fit, Covers
  <2> QED
    BY <2>1, <2>3, ReservedGoesOn DEF Stage
<1>2. CASE Unreleased(snapshot) # {}
  <2>1. Goto(r, "release", snapshot)
    BY <1>2 DEF GotoRelease
  <2>2. ASSUME pc'[r] = "release", rec'[r] = snapshot PROVE Reserved(r)'
    BY <1>2, <2>2 DEF Reserved, Covers, Unbooked
  <2> QED
    BY <2>1, <2>2, ReservedGoesOn DEF Stage
<1> QED
  BY <1>1, <1>2

-----------------------------------------------------------------------------
\* A proposal goes on to place its holds.
LEMMA ReservedPropose ==
  ASSUME Reserving, TypeOK, ReservedInv, NEW r \in Requests, InFlight = {}, Propose(r)
  PROVE  ReservedInv'
<1>1. UNCHANGED <<store, calendar, created, audit>>
  BY DEF Propose, world
<1>2. CASE store.status # "none"
  BY <1>1, <1>2, ReservedGoesOn DEF Propose, Return, Stage
<1>3. CASE store.status = "none"
  <2>1. Goto(r, "place", NewRecord)
    BY <1>3 DEF Propose, Reserving
  <2>2. /\ NewRecord.status = "pending-both"
        /\ Holding(NewRecord) = {} /\ Having(NewRecord, "tentative") = {}
    BY DEF NewRecord, NoRecord, NoHolds, NoHold, Holding, Having, Side
  <2>3. Unbooked
    BY <1>3 DEF ReservedInv
  <2>4. Placing("place", NewRecord)
    BY <2>2, <2>3 DEF Placing, Unbooked, Side
  <2>5. ASSUME pc'[r] = "place", rec'[r] = NewRecord PROVE Reserved(r)'
    BY <1>1, <1>3, <2>2, <2>4, <2>5 DEF Reserved, Placing
  <2> QED
    BY <1>1, <2>1, <2>5, ReservedGoesOn DEF Stage
<1> QED
  BY <1>2, <1>3

\* A snapshot with another status, or one acceptance more, covers the same.
LEMMA ReservedAppends ==
  ASSUME TypeOK, ReservedInv, NEW r \in Requests, InFlight = {}, NEW snapshot,
         Goto(r, "append", snapshot), UNCHANGED <<store, calendar, created>>,
         store.status # "none", snapshot.holds = store.holds,
         \/ snapshot.status = "expired"
         \/ /\ snapshot.status \in {"pending-both", "both-accepted"}
            /\ store.status \in {"pending-both", "both-accepted"}
  PROVE  ReservedInv'
<1>1. Fit(store)
  BY DEF ReservedInv
<1>2. Holding(snapshot) = Holding(store) /\ (Covers(snapshot) <=> Covers(store))
  BY SameHolds, SameCover
<1>3. Fit(snapshot)
  BY <1>1, <1>2 DEF Fit
<1>4. ASSUME pc'[r] = "append", rec'[r] = snapshot PROVE Reserved(r)'
  BY <1>3, <1>4 DEF Reserved, Fit, Covers
<1> QED
  BY <1>4, ReservedGoesOn DEF Stage

\* An accept returns, goes on to the commit, or records what it found.
LEMMA ReservedAccept ==
  ASSUME TypeOK, ReservedInv, NEW r \in Requests, InFlight = {}, Accept(r)
  PROVE  ReservedInv'
<1>1. UNCHANGED <<store, calendar, created, audit>>
  BY DEF Accept, AcceptRefuse, AcceptLate, AcceptAgain, AcceptFirst, world
<1>2. PICK o \in Side \cup {"stranger"}, token \in Side \cup {"none"} :
        AcceptRefuse(r, o, token) \/ AcceptLate(r, o, token)
          \/ AcceptAgain(r, o, token) \/ AcceptFirst(r, o, token)
  BY DEF Accept
<1>3. store.status = "none" => Unbooked
  BY DEF ReservedInv
<1>4. ~AcceptRefused(store, o, token) =>
        store.status \in {"pending-both", "both-accepted"} /\ o \in Side
  BY DEF AcceptRefused, TypeOK, Record, Status
<1>5. CASE AcceptRefuse(r, o, token)
  BY <1>1, <1>3, <1>5, ReservedGoesOn DEF AcceptRefuse, Return, Stage, Unbooked
<1>6. CASE AcceptLate(r, o, token)
  <2>1. /\ [store EXCEPT !.status = "expired"].holds = store.holds
        /\ [store EXCEPT !.status = "expired"].status = "expired"
    BY DEF TypeOK, Record
  <2> QED
    BY <1>1, <1>4, <1>6, <2>1, ReservedAppends DEF AcceptLate
<1>7. CASE AcceptAgain(r, o, token)
  <2>1. Goto(r, "commit", NoRecord) \/ Goto(r, "done", NoRecord)
    BY <1>7 DEF AcceptAgain, Return
  <2>2. ASSUME pc'[r] = "commit" PROVE Reserved(r)'
    BY <1>1, <1>4, <1>7, <2>2 DEF Reserved, AcceptAgain
  <2>3. CASE Goto(r, "commit", NoRecord)
    BY <1>1, <2>2, <2>3, ReservedGoesOn DEF Stage
  <2>4. CASE Goto(r, "done", NoRecord)
    BY <1>1, <1>3, <2>4, ReservedGoesOn DEF Stage, Unbooked
  <2> QED
    BY <2>1, <2>3, <2>4
<1>8. CASE AcceptFirst(r, o, token)
  <2>1. /\ Accepted(store, o).holds = store.holds
        /\ Accepted(store, o).status \in {"pending-both", "both-accepted"}
    BY DEF Accepted, TypeOK, Record
  <2> QED
    BY <1>1, <1>4, <1>8, <2>1, ReservedAppends DEF AcceptFirst
<1> QED
  BY <1>2, <1>5, <1>6, <1>7, <1>8

\* A decline or an expiry releases what its snapshot covers.
LEMMA ReservedClose ==
  ASSUME TypeOK, ReservedInv, NEW r \in Requests, InFlight = {},
         Expire(r) \/ \E o \in Side \cup {"stranger"} : Decline(r, o)
  PROVE  ReservedInv'
<1>1. UNCHANGED <<store, calendar, created, audit>>
  BY DEF Expire, Decline, world
<1>2. \/ Return(r)
      \/ /\ store.status # "none"
         /\ \E status \in {"declined", "expired"} : GotoRelease(r, [store EXCEPT !.status = status])
  BY DEF Expire, Expirable, Decline, DeclineRefused
<1>3. store.status = "none" => Unbooked
  BY DEF ReservedInv
<1>4. CASE Return(r)
  BY <1>1, <1>3, <1>4, ReservedGoesOn DEF Return, Stage, Unbooked
<1>5. ASSUME store.status # "none", NEW status \in {"declined", "expired"},
             GotoRelease(r, [store EXCEPT !.status = status])
      PROVE  ReservedInv'
  <2> DEFINE snapshot == [store EXCEPT !.status = status]
  <2>1. snapshot.status = status /\ snapshot.holds = store.holds
    BY DEF TypeOK, Record
  <2>2. Covers(store)
    BY <1>5 DEF ReservedInv, Fit
  <2> HIDE DEF snapshot
  <2>3. Covers(snapshot)
    BY <2>1, <2>2, SameCover
  <2>4. GotoRelease(r, snapshot)
    BY <1>5 DEF snapshot
  <2> QED
    BY <1>1, <1>5, <2>1, <2>3, <2>4, ReleaseGoesOn
<1> QED
  BY <1>2, <1>4, <1>5

-----------------------------------------------------------------------------
\* A commit that finds both acceptances finds both holds too.
LEMMA ReservedCommit ==
  ASSUME TypeOK, ReservedInv, NEW r \in Requests, InFlight \subseteq {r}, Reserved(r), Commit(r)
  PROVE  ReservedInv'
<1>1. /\ pc[r] = "commit" /\ store.status # "none" /\ UNCHANGED <<store, calendar, created, audit>>
  BY DEF Commit, Reserved, world
<1>2. Fit(store)
  BY <1>1 DEF ReservedInv
<1>3. CASE Return(r)
  BY <1>1, <1>3, ReservedGoesOn DEF Return, Stage
<1>4. CASE ~Return(r)
  <2>1. store.status = "both-accepted" /\ Goto(r, "confirm", store)
    BY <1>2, <1>4 DEF Commit, CommitGuard, Fit, Side
  <2>2. ASSUME pc'[r] = "confirm", rec'[r] = store PROVE Reserved(r)'
    BY <1>1, <1>2, <2>1, <2>2 DEF Reserved, Fit, Covers
  <2> QED
    BY <1>1, <2>1, <2>2, ReservedGoesOn DEF Stage
<1> QED
  BY <1>3, <1>4

\* Only a proposal places holds here.
LEMMA AtPlacing ==
  ASSUME NEW r \in Requests, Reserved(r), pc[r] \in {"place", "create", "audit"}
  PROVE  store.status = "none" /\ rec[r].status = "pending-both" /\ Placing(pc[r], rec[r])
BY DEF Reserved

\* What a proposal has placed it covers, if all of it is audited.
LEMMA PlacedIsCovered ==
  ASSUME TypeOK, ReservedInv, NEW stage, NEW snapshot, Placing(stage, snapshot),
         Holding(snapshot) = Side \/ stage = "create"
  PROVE  Covers(snapshot)
<1> SUFFICES ASSUME NEW s \in Side
             PROVE  calendar[s] \subseteq IF s \in Unreleased(snapshot) THEN {snapshot.holds[s].event} ELSE {}
  BY DEF Covers
<1>1. created[s] \in Nat /\ created[s] <= 1 /\ calendar[s] \subseteq 1 .. created[s]
  BY DEF ReservedInv, TypeOK
<1>2. CASE s \in Holding(snapshot)
  <2>1. s \in Unreleased(snapshot) /\ snapshot.holds[s].event = 1
    BY <1>2 DEF Placing, Unreleased
  <2> QED
    BY <1>1, <2>1
<1>3. CASE s \notin Holding(snapshot)
  <2>1. stage = "create" /\ created[First(Side \ Holding(snapshot))] = 0
    BY <1>3 DEF Placing
  <2>2. created[s] = 0
    BY <1>3, <2>1 DEF Placing, First, Side, Holding
  <2> QED
    BY <1>1, <2>2
<1> QED
  BY <1>2, <1>3

\* With both holds the proposal is recorded, with one it goes on.
LEMMA PlacingGoesOn ==
  ASSUME TypeOK, ReservedInv, NEW r \in Requests, InFlight \subseteq {r}, NEW snapshot,
         AfterHold(r, snapshot), UNCHANGED <<store, calendar, created>>,
         store.status = "none", snapshot.status = "pending-both", Covers(snapshot) \/ Holding(snapshot) # Side,
         Holding(snapshot) # Side => Placing("place", snapshot)'
  PROVE  ReservedInv'
<1>1. CASE Holding(snapshot) # Side
  <2>1. Goto(r, "place", snapshot)
    BY <1>1 DEF AfterHold
  <2>2. ASSUME pc'[r] = "place", rec'[r] = snapshot PROVE Reserved(r)'
    BY <1>1, <2>2 DEF Reserved, Placing
  <2> QED
    BY <2>1, <2>2, ReservedGoesOn DEF Stage
<1>2. CASE Holding(snapshot) = Side
  <2>1. Goto(r, "append", snapshot)
    BY <1>2 DEF AfterHold
  <2>2. ASSUME pc'[r] = "append", rec'[r] = snapshot PROVE Reserved(r)'
    BY <1>2, <2>2 DEF Reserved, Fit, Covers
  <2> QED
    BY <2>1, <2>2, ReservedGoesOn DEF Stage
<1> QED
  BY <1>1, <1>2

\* The audit may know the event of a proposal that failed without a record.
LEMMA ReservedLookup ==
  ASSUME TypeOK, ReservedInv, NEW r \in Requests, InFlight \subseteq {r}, Reserved(r), Lookup(r)
  PROVE  ReservedInv'
<1> DEFINE s == First(Side \ Holding(rec[r]))
<1>0. PICK next : next = WithHold(rec[r], s, "tentative", audit[s])
  OBVIOUS
<1>1. pc[r] = "place" /\ UNCHANGED <<store, calendar, created, audit>>
  BY DEF Lookup, world
<1>2. store.status = "none" /\ rec[r].status = "pending-both" /\ Placing("place", rec[r])
  BY <1>1, AtPlacing
<1>3. s \in Side \ Holding(rec[r]) /\ ("self" \in Holding(rec[r]) \/ s = "self")
  BY <1>2 DEF Placing, First, Side, Holding
<1>4. rec[r] \in Record /\ audit[s] = created[s] /\ created[s] \in Nat /\ created[s] <= 1
  BY <1>2, <1>3 DEF TypeOK, Placing, ReservedInv
<1>5. CASE audit[s] = 0
  <2>1. Goto(r, "create", rec[r])
    BY <1>5 DEF Lookup
  <2>2. Placing("create", rec[r])
    BY <1>2, <1>4, <1>5 DEF Placing
  <2>3. ASSUME pc'[r] = "create", rec'[r] = rec[r] PROVE Reserved(r)'
    BY <1>1, <1>2, <2>2, <2>3 DEF Reserved, Placing
  <2> QED
    BY <1>1, <2>1, <2>3, ReservedGoesOn DEF Stage
<1>6. CASE audit[s] # 0
  <2>1. AfterHold(r, next) /\ audit[s] = 1
    BY <1>0, <1>4, <1>6 DEF Lookup
  <2>2. s = "self"
    BY <1>2, <1>3, <1>4, <1>6 DEF Placing, Side
  <2> HIDE DEF s
  <2>3. /\ next.status = "pending-both" /\ next.holds[s] = [status |-> "tentative", event |-> 1]
        /\ \A t \in Side \ {s} : next.holds[t] = rec[r].holds[t]
    BY <1>0, <1>2, <1>3, <1>4, <2>1 DEF WithHold, Record, Hold
  <2>4. /\ Holding(next) = Holding(rec[r]) \cup {s}
        /\ Having(next, "tentative") = Having(rec[r], "tentative") \cup {s}
    BY <1>3, <2>3 DEF Holding, Having
  <2>5. "peer" \notin Holding(rec[r])
    BY <1>2, <1>3, <2>2 DEF Placing
  <2>6. "peer" \notin Holding(next) /\ Holding(next) # Side
    BY <2>2, <2>4, <2>5 DEF Side
  <2>7. Having(next, "tentative") = Holding(next)
    BY <1>2, <2>4 DEF Placing
  <2>8. \A t \in Holding(next) : next.holds[t].event = 1 /\ created[t] = 1
    <3>1. created[s] = 1
      BY <1>4, <2>1
    <3>2. \A t \in Holding(rec[r]) : rec[r].holds[t].event = 1 /\ created[t] = 1
      BY <1>2 DEF Placing
    <3>3. Holding(rec[r]) \subseteq Side \ {s}
      BY <1>3 DEF Holding
    <3> QED
      BY <2>3, <2>4, <3>1, <3>2, <3>3
  <2>9. created["peer"] = 0 /\ \A t \in Side : audit[t] = created[t]
    BY <1>2, <2>5 DEF Placing
  <2>10. Placing("place", next)'
    BY <1>1, <2>6, <2>7, <2>8, <2>9 DEF Placing
  <2> QED
    BY <1>1, <1>2, <2>1, <2>3, <2>6, <2>10, PlacingGoesOn
<1> QED
  BY <1>5, <1>6

\* The event of a side is created once: the audit did not know any.
LEMMA ReservedCreate ==
  ASSUME TypeOK, ReservedInv, NEW r \in Requests, InFlight \subseteq {r}, Reserved(r), Create(r)
  PROVE  ReservedInv'
<1> DEFINE s == First(Side \ Holding(rec[r]))
           e == created[s] + 1
<1>0. PICK next : next = WithHold(rec[r], s, "tentative", e)
  OBVIOUS
<1>1. /\ pc[r] = "create" /\ UNCHANGED <<store, audit>>
      /\ created' = [created EXCEPT ![s] = e] /\ calendar' = [calendar EXCEPT ![s] = @ \cup {e}]
      /\ Goto(r, "audit", next)
  BY <1>0 DEF Create
<1>2. store.status = "none" /\ rec[r].status = "pending-both" /\ Placing("create", rec[r])
  BY <1>1, AtPlacing
<1>3. s \in Side \ Holding(rec[r]) /\ ("self" \in Holding(rec[r]) \/ s = "self")
  BY <1>2 DEF Placing, First, Side, Holding
<1>4. /\ rec[r] \in Record /\ created \in [Side -> Nat] /\ calendar \in [Side -> SUBSET Nat]
      /\ created[s] = 0 /\ e = 1 /\ audit[s] = 0 /\ calendar[s] = {}
  <2>1. created[s] = 0 /\ audit[s] = created[s]
    BY <1>2, <1>3 DEF Placing
  <2> QED
    BY <1>3, <2>1 DEF TypeOK, ReservedInv
<1> HIDE DEF s, e
<1>5. /\ next.status = "pending-both" /\ next.holds[s] = [status |-> "tentative", event |-> 1]
      /\ \A t \in Side \ {s} : next.holds[t] = rec[r].holds[t]
  BY <1>0, <1>2, <1>3, <1>4 DEF WithHold, Record, Hold
<1>6. \A t \in Side : /\ created'[t] = IF t = s THEN 1 ELSE created[t]
                      /\ calendar'[t] = IF t = s THEN {1} ELSE calendar[t]
  BY <1>1, <1>3, <1>4
<1>7. /\ Holding(next) = Holding(rec[r]) \cup {s}
      /\ Having(next, "tentative") = Having(rec[r], "tentative") \cup {s}
  BY <1>3, <1>5 DEF Holding, Having
<1>8. Newest(Holding(next)) = s
  <2>1. "peer" \in Holding(rec[r]) => "self" \in Holding(rec[r])
    BY <1>2 DEF Placing
  <2>2. Holding(rec[r]) \subseteq Side
    BY DEF Holding
  <2> QED
    BY <1>3, <1>7, <2>1, <2>2 DEF Newest, Side
<1>9. InFlight' = {r} /\ pc'[r] = "audit" /\ rec'[r] = next
  BY <1>1, GoesAlone DEF Stage
<1>10. Placing("audit", next)'
  <2>1. /\ Having(next, "tentative") = Holding(next)
        /\ \A t \in Holding(next) : next.holds[t].event = 1 /\ created'[t] = 1
    BY <1>2, <1>3, <1>5, <1>6, <1>7 DEF Placing, Holding
  <2>2. /\ "self" \in Holding(next)
        /\ "peer" \notin Holding(next) => created'["peer"] = 0
    BY <1>2, <1>3, <1>6, <1>7 DEF Placing, Side
  <2>3. \A t \in Side \ {s} : audit'[t] = created'[t]
    BY <1>1, <1>2, <1>6 DEF Placing
  <2> QED
    BY <1>8, <2>1, <2>2, <2>3 DEF Placing
<1>11. Reserved(r)'
  BY <1>1, <1>2, <1>5, <1>9, <1>10 DEF Reserved
<1>12. \A t \in Side : created'[t] <= 1 /\ calendar'[t] \subseteq 1 .. created'[t]
  BY <1>6 DEF ReservedInv
<1> QED
  BY <1>1, <1>2, <1>9, <1>11, <1>12 DEF ReservedInv

\* The audit catches up with the event that was created.
LEMMA ReservedAudit ==
  ASSUME TypeOK, ReservedInv, NEW r \in Requests, InFlight \subseteq {r}, Reserved(r), AuditWrite(r)
  PROVE  ReservedInv'
<1>0. PICK snapshot, held : snapshot = rec[r] /\ held = Holding(snapshot)
  OBVIOUS
<1>1. /\ pc[r] = "audit" /\ UNCHANGED <<store, calendar, created>>
      /\ audit' = [audit EXCEPT ![Newest(held)] = snapshot.holds[Newest(held)].event]
      /\ AfterHold(r, snapshot)
  BY <1>0 DEF AuditWrite, Newest
<1>2. store.status = "none" /\ snapshot.status = "pending-both" /\ Placing("audit", snapshot)
  BY <1>0, <1>1, AtPlacing
<1>3. Newest(held) \in Side /\ Newest(held) \in held
  BY <1>0, <1>2 DEF Placing, Newest, Side
<1>4. \A t \in Side : audit'[t] = created[t]
  <2>1. snapshot.holds[Newest(held)].event = 1 /\ created[Newest(held)] = 1
    BY <1>0, <1>2, <1>3 DEF Placing
  <2>2. audit \in [Side -> Nat]
    BY DEF TypeOK
  <2> QED
    BY <1>0, <1>1, <1>2, <1>3, <2>1, <2>2 DEF Placing
<1>5. Holding(snapshot) # Side => Placing("place", snapshot)'
  BY <1>1, <1>2, <1>4 DEF Placing
<1>6. Covers(snapshot) \/ Holding(snapshot) # Side
  BY <1>2, PlacedIsCovered
<1> QED
  BY <1>1, <1>2, <1>5, <1>6, PlacingGoesOn

\* Confirming changes a status, not what is covered.
LEMMA ReservedConfirm ==
  ASSUME TypeOK, ReservedInv, NEW r \in Requests, InFlight \subseteq {r}, Reserved(r), Confirm(r)
  PROVE  ReservedInv'
<1> DEFINE s == First(Having(rec[r], "tentative"))
           next == WithHold(rec[r], s, "busy", rec[r].holds[s].event)
           committed == [next EXCEPT !.status = "committed"]
<1>1. /\ pc[r] = "confirm" /\ UNCHANGED <<store, calendar, created>>
      /\ Goto(r, "append", committed) \/ Goto(r, "confirm", next)
  BY DEF Confirm, world
<1>2. store.status # "none" /\ rec[r].status = "both-accepted" /\ Covers(rec[r])
  BY <1>1 DEF Reserved
<1>3. s \in Side
  BY FirstType
<1>4. rec[r] \in Record /\ rec[r].holds[s].event \in Nat
  BY <1>3 DEF TypeOK, Record, Hold
<1> HIDE DEF s
<1>5. /\ next \in Record /\ next.status = "both-accepted"
      /\ next.holds[s].status = "busy" /\ next.holds[s].event = rec[r].holds[s].event
      /\ \A t \in Side \ {s} : next.holds[t] = rec[r].holds[t]
  BY <1>2, <1>3, <1>4 DEF WithHold, Record, Hold
<1> HIDE DEF next
<1>6. Covers(next)
  BY <1>2, <1>3, <1>5 DEF Covers, Unreleased, Having
<1>7. CASE Goto(r, "confirm", next)
  <2>1. ASSUME pc'[r] = "confirm", rec'[r] = next PROVE Reserved(r)'
    BY <1>1, <1>2, <1>5, <1>6, <2>1 DEF Reserved, Covers
  <2> QED
    BY <1>1, <1>7, <2>1, ReservedGoesOn DEF Stage
<1>8. CASE Goto(r, "append", committed)
  <2>1. committed.status = "committed" /\ committed.holds = next.holds
    BY <1>5 DEF Record
  <2> HIDE DEF committed
  <2>2. Fit(committed)
    BY <1>6, <2>1, SameCover DEF Fit
  <2>3. ASSUME pc'[r] = "append", rec'[r] = committed PROVE Reserved(r)'
    BY <1>1, <2>2, <2>3 DEF Reserved, Fit, Covers
  <2> QED
    BY <1>1, <1>8, <2>3, ReservedGoesOn DEF Stage
<1> QED
  BY <1>1, <1>7, <1>8

\* What was placed, or found in the record, is released when a call throws.
LEMMA ReservedFails ==
  ASSUME TypeOK, ReservedInv, NEW r \in Requests, InFlight \subseteq {r}, Reserved(r),
         CreateFails(r) \/ ConfirmFails(r)
  PROVE  ReservedInv'
<1> DEFINE snapshot == [rec[r] EXCEPT !.status = "commit-failed"]
<1>1. /\ pc[r] \in {"create", "confirm"} /\ UNCHANGED <<store, calendar, created, audit>>
      /\ GotoRelease(r, snapshot)
  BY DEF CreateFails, ConfirmFails, world
<1>2. snapshot.status = "commit-failed" /\ snapshot.holds = rec[r].holds
  BY DEF TypeOK, Record
<1> HIDE DEF snapshot
<1>3. Covers(rec[r]) /\ (store.status = "none" => Unbooked)
  <2>1. CASE pc[r] = "create"
    <3>1. Placing("create", rec[r])
      BY <2>1, AtPlacing
    <3>2. "peer" \notin Holding(rec[r])
      BY <3>1 DEF Placing, Side, Holding
    <3> QED
      BY <3>1, <3>2, PlacedIsCovered DEF Placing, Unbooked
  <2>2. CASE pc[r] = "confirm"
    BY <2>2 DEF Reserved
  <2> QED
    BY <1>1, <2>1, <2>2
<1>4. Covers(snapshot)
  BY <1>2, <1>3, SameCover
<1> QED
  BY <1>1, <1>2, <1>3, <1>4, ReleaseGoesOn

\* What is covered stays covered when a calendar loses an event.
LEMMA ReservedRelease ==
  ASSUME TypeOK, ReservedInv, NEW r \in Requests, InFlight \subseteq {r}, Reserved(r), Release(r)
  PROVE  ReservedInv'
<1> DEFINE s == First(Unreleased(rec[r]))
           e == rec[r].holds[s].event
<1>0. PICK next : next = WithHold(rec[r], s, "released", e)
  OBVIOUS
<1>1. /\ pc[r] = "release" /\ UNCHANGED <<store, created, audit>>
      /\ calendar' = [calendar EXCEPT ![s] = @ \ {e}] /\ GotoRelease(r, next)
  BY <1>0 DEF Release
<1>2. /\ rec[r].status \in {"declined", "expired", "commit-failed"}
      /\ Covers(rec[r]) /\ Unreleased(rec[r]) # {} /\ (store.status = "none" => Unbooked)
  BY <1>1 DEF Reserved
<1>3. s \in Unreleased(rec[r]) /\ s \in Side
  BY <1>2 DEF First, Unreleased, Having, Side
<1>4. rec[r] \in Record /\ e \in Nat /\ calendar \in [Side -> SUBSET Nat]
  BY <1>3 DEF TypeOK, Record, Hold
<1> HIDE DEF s
<1>5. /\ next.status = rec[r].status /\ next.holds[s].status = "released"
      /\ \A t \in Side \ {s} : next.holds[t] = rec[r].holds[t]
  BY <1>0, <1>3, <1>4 DEF WithHold, Record, Hold
<1>6. calendar'[s] = {} /\ \A t \in Side : calendar'[t] \subseteq calendar[t]
  <2>1. calendar[s] \subseteq {e}
    BY <1>2, <1>3 DEF Covers
  <2> QED
    BY <1>1, <1>3, <1>4, <2>1
<1> HIDE DEF e
<1>7. Covers(next)'
  BY <1>2, <1>3, <1>5, <1>6 DEF Covers, Unreleased, Having
<1>8. /\ \A t \in Side : created'[t] <= 1 /\ calendar'[t] \subseteq 1 .. created'[t]
      /\ store'.status # "none" => Fit(store)'
      /\ store'.status = "none" => Unbooked'
  BY <1>1, <1>2, <1>6 DEF ReservedInv, Fit, Covers, Unbooked
<1>9. PICK stage \in {"append", "release"} :
        Goto(r, stage, next) /\ (stage = "append" <=> Unreleased(next) = {})
  BY <1>1 DEF GotoRelease
<1>10. InFlight' = {r} /\ pc'[r] = stage /\ rec'[r] = next
  BY <1>9, GoesAlone DEF Stage
<1>11. Reserved(r)'
  BY <1>2, <1>5, <1>7, <1>8, <1>9, <1>10 DEF Reserved, Fit
<1> QED
  BY <1>8, <1>10, <1>11 DEF ReservedInv

\* A delete that throws leaves the record, and what it covers, as it was.
LEMMA ReservedThrows ==
  ASSUME TypeOK, ReservedInv, NEW r \in Requests, InFlight \subseteq {r}, Reserved(r), ReleaseFails(r)
  PROVE  ReservedInv'
<1>1. /\ UNCHANGED <<store, calendar, created, audit>> /\ Goto(r, "thrown", NoRecord)
      /\ store.status = "none" => Unbooked
  BY DEF ReleaseFails, Reserved, world
<1> QED
  BY <1>1, ReservedGoesOn DEF Stage, Unbooked

\* The record takes what the handler's snapshot covers.
LEMMA ReservedAppend ==
  ASSUME TypeOK, ReservedInv, NEW r \in Requests, InFlight \subseteq {r}, Reserved(r), Append(r)
  PROVE  ReservedInv'
<1>1. pc[r] = "append" /\ store' = rec[r] /\ UNCHANGED <<calendar, created>>
  BY DEF Append, world
<1>2. Fit(rec[r])
  BY <1>1 DEF Reserved
<1>3. Fit(store)' /\ store'.status # "none"
  BY <1>1, <1>2 DEF Fit, Covers
<1>4. PICK stage \in {"done", "commit"} : Goto(r, stage, NoRecord)
  BY DEF Append
<1>5. InFlight' \subseteq {r} /\ pc'[r] = stage /\ (stage = "done" => InFlight' = {})
  BY <1>4, GoesAlone DEF Stage
<1>6. r \in InFlight' => Reserved(r)'
  BY <1>3, <1>5 DEF Reserved
<1> QED
  BY <1>1, <1>3, <1>5, <1>6 DEF ReservedInv

LEMMA ReservedStep ==
  ASSUME Reserving, TypeOK, ReservedInv, [Next]_vars
  PROVE  ReservedInv'
<1>1. ASSUME NEW r \in Requests, Start(r) PROVE ReservedInv'
  <2>1. CanStart(r)
    BY <1>1 DEF Start, Propose, Accept, AcceptRefuse, AcceptLate, AcceptAgain, AcceptFirst, Decline, Expire
  <2> QED
    BY <1>1, <2>1, ReservesAlone, ReservedPropose, ReservedAccept, ReservedClose DEF Start
<1>2. ASSUME NEW r \in Requests, Step(r) PROVE ReservedInv'
  <2>1. r \in InFlight
    BY <1>2 DEF Step, Commit, Lookup, Create, CreateFails, AuditWrite, Confirm, ConfirmFails,
                Release, ReleaseFails, Append, InFlight
  <2>2. InFlight \subseteq {r} /\ Reserved(r)
    BY <2>1 DEF ReservedInv
  <2> QED
    BY <1>2, <2>2, ReservedCommit, ReservedLookup, ReservedCreate, ReservedAudit, ReservedConfirm,
       ReservedFails, ReservedRelease, ReservedThrows, ReservedAppend DEF Step
<1>3. ASSUME TtlElapses \/ UNCHANGED vars PROVE ReservedInv'
  <2>1. UNCHANGED <<store, calendar, created, audit, pc, rec>>
    BY <1>3 DEF TtlElapses, vars, world
  <2>2. InFlight' = InFlight
    BY <2>1 DEF InFlight
  <2>3. \A r \in Requests : Reserved(r) => Reserved(r)'
    BY <2>1 DEF Reserved, Fit, Covers, Placing, Unbooked
  <2> QED
    BY <2>1, <2>2, <2>3 DEF ReservedInv, InFlight, Fit, Covers, Unbooked
<1>4. ~Crash
  BY DEF Crash, Reserving, Alone, TypeOK
<1> QED
  BY <1>1, <1>2, <1>3, <1>4 DEF Next

LEMMA ReservedStarts == Init => ReservedInv
<1> SUFFICES ASSUME Init PROVE ReservedInv
  OBVIOUS
<1>1. InFlight = {}
  BY DEF Init, InFlight
<1>2. store.status = "none" /\ \A s \in Side : created[s] = 0 /\ audit[s] = 0 /\ calendar[s] = {}
  BY DEF Init, NoRecord
<1> QED
  BY <1>1, <1>2 DEF ReservedInv, Unbooked, Side

\* Whatever order both owners answer in, no event is made and nothing committed
\* before both accepted.  Where handlers do not overlap and deletes succeed, a
\* committed request is on both calendars, once, one that is not has left nothing
\* on either, and an acceptance is not forgotten; where the holds are placed with
\* the proposal, a refused request has left nothing although deletes may throw.
THEOREM BothSidesOrNone == Spec => []BothOrNeither
<1> DEFINE Told == Serially => SerialInv /\ CreatedOnce /\ AcceptanceKept
           Placed == Reserving => ReservedInv
<1>1. Init => Told /\ Placed
  BY SerialStarts, OnceStarts, ReservedStarts
<1>2. TypeOK /\ Told /\ Placed /\ [Next]_vars => Told' /\ Placed'
  <2> SUFFICES ASSUME TypeOK, Told, Placed, [Next]_vars PROVE Told' /\ Placed'
    OBVIOUS
  <2>1. ASSUME Serially PROVE (SerialInv /\ CreatedOnce /\ AcceptanceKept)'
    BY <2>1, SerialStep, OnceStep
  <2>2. ASSUME Reserving PROVE ReservedInv'
    BY <2>2, ReservedStep
  <2> QED
    BY <2>1, <2>2, SameCircumstances
<1>3. ReservedInv => OneEventPerSide /\ NothingLeftWhenRefused
  BY DEF ReservedInv, Fit, Covers, OneEventPerSide, NothingLeftWhenRefused
<1>4. TypeOK /\ SerialInv /\ CreatedOnce /\ AcceptanceKept =>
        OneEventPerSide /\ CommittedMeansBooked /\ NothingLeftUnlessCommitted /\ NoLostAcceptance
  BY SerialPromises
<1>5. TypeOK /\ ConsentBeforeBooking /\ Told /\ Placed => BothOrNeither
  BY <1>3, <1>4 DEF BothOrNeither
<1> QED
  BY <1>1, <1>2, <1>5, TypeCorrect, ConsentFirst, PTL DEF Spec

=============================================================================
