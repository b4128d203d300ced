------------------------- MODULE NegotiationProofs -------------------------
(***************************************************************************)
(* What holds of a negotiation for any slots, hops and faults; of the      *)
(* account an owner's call works with, for any owners, consents, calls and *)
(* restarts (Connections); and of an owner's contact book and the mails    *)
(* addressed with it, for any people, addresses and edits (Contacts).      *)
(***************************************************************************)
EXTENDS Negotiation, Connections, Contacts, FiniteSetTheorems, WellFoundedInduction, TLAPS

\* While the loop runs, a live event is one an unreleased hold names, and a
\* placement has a side left to hold: so a slot is only placed on a calendar
\* that is empty.  After the loop the events stay as they are.
Covered ==
  /\ phase \notin {"done", "thrown"} =>
       \A s \in Side : \A e \in calendar[s] : s \in Unreleased /\ e.id = holds[s].event
  /\ phase = "place" => Having("absent") # {}
  /\ phase \in {"place", "confirm"} \/ Unreleased # {} => slot \in SelfFree

\* The inductive invariant.
IInv == TypeOK /\ Covered /\ OneHoldPerCalendar

-----------------------------------------------------------------------------
\* The preferred one of some slots is one of them.
LEMMA BestIsOne ==
  ASSUME NEW S \in SUBSET SelfFree, S # {}
  PROVE  Best(S) \in S
<1>1. S \subseteq Nat
  BY NegotiationAssumption
<1>2. PICK x \in S : \A y \in S : ~ (<<y, x>> \in OpToRel(<, Nat))
  BY <1>1, WFMin, NatLessThanWellFounded
<1>3. OpToRel(<, Nat) = {p \in Nat \X Nat : p[1] < p[2]}
  BY Zenon DEF OpToRel
<1>4. \A y \in S : ~(y < x)
  BY <1>1, <1>2, <1>3
<1>5. \A y \in S : x <= y
  BY <1>1, <1>4
<1> QED
  BY <1>5 DEF Best

\* The first side of some sides is one of them.
LEMMA FirstSide ==
  ASSUME NEW S \in SUBSET Side
  PROVE  First(S) \in Side /\ (S # {} => First(S) \in S)
BY DEF First, Side

\* The invariant holds at the start.
LEMMA InitInv == Init => IInv
<1> SUFFICES ASSUME Init PROVE IInv
  OBVIOUS
<1>1. TypeOK
  <2>1. hop \in 0 .. MaxHops /\ phase \in Phase /\ reason \in Reason
    BY NegotiationAssumption DEF Init, Phase, Reason
  <2>2. holds \in [Side -> Hold]
    BY DEF Init, NoHolds, Hold
  <2>3. calendar \in [Side -> SUBSET [id : Nat, slot : SelfFree]] /\ created \in [Side -> Nat]
    BY DEF Init
  <2>4. audit \in [Side -> [Slots -> Nat]]
    <3>1. [x \in Slots |-> 0] \in [Slots -> Nat]
      OBVIOUS
    <3> QED
      BY <3>1 DEF Init
  <2>5. faults \in [Fault -> Nat]
    BY DEF Init
  <2> QED
    BY <2>1, <2>2, <2>3, <2>4, <2>5 DEF Init, TypeOK
<1>2. Covered /\ OneHoldPerCalendar
  BY DEF Init, Covered, OneHoldPerCalendar, NoHolds, Unreleased, Having
<1> QED
  BY <1>1, <1>2 DEF IInv

\* A step to the next slot.
LEMMA EnsureInv ==
  ASSUME IInv, phase = "ask", NEW x \in SelfFree, NEW goal \in {"ask", "confirm"},
         Ensure(x, goal), UNCHANGED <<world, faults>>, hop' \in 0 .. MaxHops
  PROVE  IInv'
<1>1. TypeOK'
  <2>1. NoHolds \in [Side -> Hold]
    BY DEF NoHolds, Hold
  <2>2. holds' \in [Side -> Hold] /\ dropped' \subseteq SelfFree
    BY <2>1 DEF IInv, TypeOK, Covered, Ensure
  <2>3. phase' \in Phase /\ (phase' = "switch" => Unreleased' # {})
    BY DEF IInv, Ensure, Phase, Unreleased, Having
  <2> QED
    BY <2>2, <2>3 DEF IInv, TypeOK, Ensure, world, Unreleased, Having
<1>2. Covered'
  BY DEF IInv, TypeOK, Covered, Ensure, world, NoHolds, Unreleased, Having, Side
<1>3. OneHoldPerCalendar'
  BY DEF IInv, OneHoldPerCalendar, world
<1> QED
  BY <1>1, <1>2, <1>3 DEF IInv

\* A return that releases first.
LEMMA StopInv ==
  ASSUME IInv, phase \in {"ask", "confirm"}, NEW why \in Reason,
         Stop(why), UNCHANGED world, hop' \in 0 .. MaxHops, faults' \in [Fault -> Nat]
  PROVE  IInv'
<1>1. TypeOK'
  BY DEF IInv, TypeOK, Stop, world, Phase, Unreleased, Having
<1>2. Covered'
  BY DEF IInv, Covered, Stop, world, Unreleased, Having
<1>3. OneHoldPerCalendar'
  BY DEF IInv, OneHoldPerCalendar, world
<1> QED
  BY <1>1, <1>2, <1>3 DEF IInv

\* The catch block, entered with the holds of the loop or, when what was
\* placed could not be undone, with none of them.
LEMMA CatchInv ==
  ASSUME IInv, phase \notin {"done", "thrown"},
         NEW snapshot, snapshot \in {holds, NoHolds},
         Catch(snapshot), UNCHANGED <<hop, slot, then, dropped, world>>,
         faults' \in [Fault -> Nat]
  PROVE  IInv'
<1>1. NoHolds \in [Side -> Hold]
  BY DEF NoHolds, Hold
<1>2. Unreleased' = {s \in Side : snapshot[s].status \in {"tentative", "busy"}}
  BY DEF Catch, Unreleased, Having
<1>3. TypeOK'
  BY <1>1, <1>2 DEF IInv, TypeOK, Catch, world, Phase, Reason
<1>4. Covered'
  <2>1. CASE snapshot = holds
    BY <2>1, <1>2 DEF IInv, Covered, Catch, world, Unreleased, Having
  <2>2. CASE snapshot = NoHolds
    BY <2>2, <1>2 DEF IInv, Covered, Catch, world, NoHolds
  <2> QED
    BY <2>1, <2>2
<1>5. OneHoldPerCalendar'
  BY DEF IInv, OneHoldPerCalendar, world
<1> QED
  BY <1>3, <1>4, <1>5 DEF IInv

\* A call that threw is counted.
LEMMA FaultsType ==
  ASSUME TypeOK, NEW kind \in Fault, Failed(kind)
  PROVE  faults' \in [Fault -> Nat]
BY DEF TypeOK, Failed

\* One deleteEvent: the other side's event, if any, is still held.
LEMMA ReleaseInv == IInv /\ Release => IInv'
<1> SUFFICES ASSUME IInv, Release PROVE IInv'
  OBVIOUS
<1> DEFINE s == First(Unreleased)
           Next_s == WithHold(s, "released", holds[s].event)
<1>1. s \in Side /\ s \in Unreleased
  <2>1. Unreleased \subseteq Side /\ Unreleased # {}
    BY DEF IInv, TypeOK, Release, Unreleased, Having
  <2> QED
    BY <2>1, FirstSide
<1>2. /\ calendar' = [calendar EXCEPT ![s] = {e \in @ : e.id # holds[s].event}]
      /\ UNCHANGED <<hop, slot, then, reason, created, audit, faults, dropped>>
      /\ phase \in {"switch", "undo", "end", "catch"}
  BY DEF Release, loop
<1>3. calendar' \in [Side -> SUBSET [id : Nat, slot : SelfFree]]
  BY <1>1, <1>2 DEF IInv, TypeOK
<1>4. /\ \A e \in calendar'[s] : FALSE
      /\ \A t \in Side \ {s} : calendar'[t] = calendar[t]
  BY <1>1, <1>2 DEF IInv, TypeOK, Covered
<1>5. OneHoldPerCalendar'
  BY <1>4 DEF IInv, OneHoldPerCalendar
<1>6. CASE phase = "switch" /\ Unreleased = {s}
  <2>1. holds' = NoHolds /\ phase' = "place"
    BY <1>6 DEF Release
  <2>2. TypeOK'
    BY <1>2, <1>3, <2>1 DEF IInv, TypeOK, Phase, NoHolds, Hold
  <2>3. \A t \in Side : \A e \in calendar'[t] : FALSE
    BY <1>4, <1>6 DEF IInv, Covered
  <2>4. Having("absent")' = Side
    BY <2>1 DEF Having, NoHolds
  <2>5. Covered'
    BY <1>2, <1>6, <2>1, <2>3, <2>4, <1>1 DEF IInv, Covered, Side
  <2> QED
    BY <2>2, <2>5, <1>5 DEF IInv
<1>7. CASE ~(phase = "switch" /\ Unreleased = {s})
  <2>1. /\ holds' = Next_s
        /\ phase' = IF Unreleased # {s} THEN phase ELSE "done"
    BY <1>7 DEF Release
  <2>2. /\ Next_s \in [Side -> Hold]
        /\ Next_s[s].status = "released"
        /\ \A t \in Side \ {s} : Next_s[t] = holds[t]
    BY <1>1 DEF IInv, TypeOK, WithHold, Hold
  <2>3. Unreleased' = Unreleased \ {s}
    BY <2>1, <2>2, <1>1 DEF Unreleased, Having
  <2>4. TypeOK'
    BY <1>2, <1>3, <1>1, <2>1, <2>2, <2>3 DEF IInv, TypeOK, Phase
  <2>5. Covered'
    BY <1>1, <1>2, <1>4, <2>1, <2>2, <2>3 DEF IInv, Covered
  <2> QED
    BY <2>4, <2>5, <1>5 DEF IInv
<1> QED
  BY <1>6, <1>7

\* One placement: of the hold an audit entry names, or of a new event on a
\* calendar that has none.
LEMMA PlaceInv == IInv /\ Place => IInv'
<1> SUFFICES ASSUME IInv, Place PROVE IInv'
  OBVIOUS
<1> DEFINE s == First(Having("absent"))
           event == created[s] + 1
<1>1. s \in Side /\ holds[s].status = "absent" /\ phase = "place" /\ slot \in SelfFree
  <2>1. Having("absent") \subseteq Side /\ Having("absent") # {}
    BY DEF IInv, Covered, Place, Having
  <2>2. s \in Having("absent")
    BY <2>1, FirstSide
  <2> QED
    BY <2>2 DEF IInv, Covered, Place, Having
<1>2. slot \in Slots /\ audit[s][slot] \in Nat /\ event \in Nat
  BY <1>1, NegotiationAssumption DEF IInv, TypeOK
<1>3. \A e \in calendar[s] : FALSE
  BY <1>1 DEF IInv, Covered, Unreleased, Having
<1>4. PICK id \in Nat :
        /\ AfterHold(WithHold(s, "tentative", id))
        /\ \/ UNCHANGED world
           \/ /\ created' = [created EXCEPT ![s] = event]
              /\ calendar' = [calendar EXCEPT ![s] = @ \cup {[id |-> id, slot |-> slot]}]
              /\ audit' = [audit EXCEPT ![s][slot] = id]
  BY <1>2 DEF Place
<1>5. UNCHANGED <<hop, slot, then, reason, faults, dropped>>
  BY DEF Place, loop
<1> DEFINE placed == WithHold(s, "tentative", id)
<1>6. /\ placed \in [Side -> Hold]
      /\ placed[s].status = "tentative" /\ placed[s].event = id
      /\ \A t \in Side \ {s} : placed[t] = holds[t]
  BY <1>1 DEF IInv, TypeOK, WithHold, Hold
<1>7. /\ holds' = placed
      /\ phase' = IF \E t \in Side : placed[t].status = "absent" THEN "place" ELSE then
  BY <1>4 DEF AfterHold
<1>8. Unreleased' = Unreleased \cup {s}
  <2>1. Unreleased' = {t \in Side : placed[t].status \in {"tentative", "busy"}}
    BY <1>7 DEF Unreleased, Having
  <2>2. Unreleased = {t \in Side : holds[t].status \in {"tentative", "busy"}}
    BY DEF Unreleased, Having
  <2> QED
    BY <2>1, <2>2, <1>1, <1>6
<1>9. /\ calendar' \in [Side -> SUBSET [id : Nat, slot : SelfFree]]
      /\ created' \in [Side -> Nat]
      /\ audit' \in [Side -> [Slots -> Nat]]
      /\ \A e \in calendar'[s] : e = [id |-> id, slot |-> slot]
      /\ \A t \in Side \ {s} : calendar'[t] = calendar[t]
  <2>1. CASE UNCHANGED world
    BY <2>1, <1>3 DEF IInv, TypeOK, world
  <2>2. CASE /\ created' = [created EXCEPT ![s] = event]
             /\ calendar' = [calendar EXCEPT ![s] = @ \cup {[id |-> id, slot |-> slot]}]
             /\ audit' = [audit EXCEPT ![s][slot] = id]
    BY <2>2, <1>1, <1>2, <1>3 DEF IInv, TypeOK
  <2> QED
    BY <1>4, <2>1, <2>2
<1>10. TypeOK'
  BY <1>5, <1>6, <1>7, <1>9 DEF IInv, TypeOK, Phase
<1>11. Covered'
  <2>1. \A t \in Side : \A e \in calendar'[t] : t \in Unreleased' /\ e.id = holds'[t].event
    BY <1>1, <1>6, <1>7, <1>8, <1>9 DEF IInv, Covered
  <2>2. phase' = "place" => Having("absent")' # {}
    BY <1>7, <1>6 DEF IInv, TypeOK, Having
  <2> QED
    BY <2>1, <2>2, <1>1, <1>5 DEF Covered
<1>12. OneHoldPerCalendar'
  BY <1>1, <1>9 DEF IInv, OneHoldPerCalendar
<1> QED
  BY <1>10, <1>11, <1>12 DEF IInv

\* One side confirmed.
LEMMA ConfirmInv == IInv /\ Confirm => IInv'
<1> SUFFICES ASSUME IInv, Confirm PROVE IInv'
  OBVIOUS
<1> DEFINE s == First(Having("tentative"))
<1>1. s \in Side
  BY FirstSide DEF Having
<1>2. /\ phase = "confirm"
      /\ holds' = WithHold(s, "busy", holds[s].event)
      /\ \/ phase' = "done" /\ reason' = "converged"
         \/ UNCHANGED <<phase, reason>>
      /\ UNCHANGED <<hop, slot, then, world, faults, dropped>>
  BY DEF Confirm
<1>3. /\ holds' \in [Side -> Hold]
      /\ holds'[s].status = "busy" /\ holds'[s].event = holds[s].event
      /\ \A t \in Side \ {s} : holds'[t] = holds[t]
  BY <1>1, <1>2 DEF IInv, TypeOK, WithHold, Hold
<1>4. Unreleased' = Unreleased \cup {s}
  <2>1. Unreleased' = {t \in Side : holds'[t].status \in {"tentative", "busy"}}
    BY DEF Unreleased, Having
  <2>2. Unreleased = {t \in Side : holds[t].status \in {"tentative", "busy"}}
    BY DEF Unreleased, Having
  <2> QED
    BY <2>1, <2>2, <1>1, <1>3
<1>5. TypeOK'
  BY <1>2, <1>3 DEF IInv, TypeOK, Phase, Reason, world
<1>6. Covered'
  BY <1>1, <1>2, <1>3, <1>4 DEF IInv, Covered, world
<1>7. OneHoldPerCalendar'
  BY <1>2 DEF IInv, OneHoldPerCalendar, world
<1> QED
  BY <1>5, <1>6, <1>7 DEF IInv

-----------------------------------------------------------------------------
\* Every step keeps the invariant.
LEMMA StepInv == IInv /\ [Next]_vars => IInv'
<1> SUFFICES ASSUME IInv, [Next]_vars PROVE IInv'
  OBVIOUS
<1>1. ASSUME NEW offered \in SUBSET Slots, NEW accept \in Slots \cup {None}, Ask(offered, accept)
      PROVE  IInv'
  <2>1. hop' \in 0 .. MaxHops /\ phase = "ask" /\ UNCHANGED <<world, faults>>
    BY <1>1, NegotiationAssumption DEF IInv, TypeOK, Ask
  <2>2. CASE accept \in SelfFree
    BY <1>1, <2>1, <2>2, EnsureInv DEF Ask
  <2>3. CASE accept \notin SelfFree /\ SelfFree \cap offered = {}
    <3>1. Stop("no-common-slot") /\ "no-common-slot" \in Reason /\ faults' \in [Fault -> Nat]
      BY <1>1, <2>1, <2>3 DEF Ask, Reason, IInv, TypeOK
    <3> QED
      BY <3>1, <2>1, StopInv
  <2>4. CASE accept \notin SelfFree /\ SelfFree \cap offered # {}
    <3>1. Best(SelfFree \cap offered) \in SelfFree
      BY <2>4, BestIsOne
    <3> QED
      BY <1>1, <2>1, <2>4, <3>1, EnsureInv DEF Ask
  <2> QED
    BY <2>2, <2>3, <2>4
<1>2. CASE HopCap
  <2>1. /\ Stop("max-hops") /\ "max-hops" \in Reason /\ phase = "ask" /\ UNCHANGED world
        /\ hop' \in 0 .. MaxHops /\ faults' \in [Fault -> Nat]
    BY <1>2 DEF HopCap, Reason, IInv, TypeOK
  <2> QED
    BY <2>1, StopInv
<1>3. CASE AskFails
  <2>1. /\ Catch(holds) /\ phase = "ask" /\ UNCHANGED <<hop, slot, then, dropped, world>>
        /\ faults' \in [Fault -> Nat]
    BY <1>3, FaultsType DEF AskFails, Fault, IInv
  <2> QED
    BY <2>1, CatchInv
<1>4. CASE Release
  BY <1>4, ReleaseInv
<1>5. CASE ReleaseFails
  <2>1. faults' \in [Fault -> Nat] /\ UNCHANGED <<hop, slot, then, dropped, world>>
    BY <1>5, FaultsType DEF ReleaseFails, Fault, IInv
  <2>2. CASE phase = "catch"
    <3>1. phase' = "thrown" /\ UNCHANGED <<holds, reason>>
      BY <1>5, <2>2 DEF ReleaseFails
    <3> QED
      BY <2>1, <3>1 DEF IInv, TypeOK, Covered, OneHoldPerCalendar, Phase, world, Unreleased, Having
  <2>3. CASE phase # "catch"
    <3>1. phase \notin {"done", "thrown"} /\ (Catch(holds) \/ Catch(NoHolds))
      BY <1>5, <2>3 DEF ReleaseFails
    <3> QED
      BY <2>1, <3>1, CatchInv
  <2> QED
    BY <2>2, <2>3
<1>6. CASE Place
  BY <1>6, PlaceInv
<1>7. CASE PlaceFails
  <2>1. /\ phase = "place" /\ reason' = "booking-failed"
        /\ phase' = IF Unreleased = {} THEN "done" ELSE "undo"
        /\ UNCHANGED <<hop, slot, then, holds, world, dropped>>
        /\ faults' \in [Fault -> Nat]
    BY <1>7, FaultsType DEF PlaceFails, Fault, IInv
  <2> QED
    BY <2>1 DEF IInv, TypeOK, Covered, OneHoldPerCalendar, Phase, Reason, world, Unreleased, Having
<1>8. CASE Confirm
  BY <1>8, ConfirmInv
<1>9. CASE ConfirmFails
  <2>1. /\ Stop("booking-failed") /\ "booking-failed" \in Reason /\ phase = "confirm"
        /\ UNCHANGED world /\ hop' \in 0 .. MaxHops /\ faults' \in [Fault -> Nat]
    BY <1>9, FaultsType DEF ConfirmFails, Reason, Fault, IInv, TypeOK
  <2> QED
    BY <2>1, StopInv
<1>10. CASE UNCHANGED vars
  BY <1>10 DEF vars, IInv, TypeOK, Covered, OneHoldPerCalendar, Unreleased, Having
<1> QED
  BY <1>1, <1>2, <1>3, <1>4, <1>5, <1>6, <1>7, <1>8, <1>9, <1>10 DEF Next

\* Every state of negotiateSlot is well typed: in particular only slots that
\* are free for self are ever held, whatever the peer offers or accepts.
THEOREM NegotiationTypes == Spec => []TypeOK
<1>1. IInv => TypeOK
  BY DEF IInv
<1> QED
  BY <1>1, InitInv, StepInv, PTL DEF Spec

\* Whatever the peer answers and whatever throws, negotiateSlot never has two
\* events of one thread on a calendar at the same time: it releases the slot
\* it leaves before it holds the next one, and never goes on past a release
\* that failed.
THEOREM OneHold == Spec => []OneHoldPerCalendar
<1>1. IInv => OneHoldPerCalendar
  BY DEF IInv
<1> QED
  BY <1>1, InitInv, StepInv, PTL DEF Spec

-----------------------------------------------------------------------------
(***************************************************************************)
(* What is left when the loop ends.  A slot that was never let go of was   *)
(* held once: its audit entries are those of the events that are there     *)
(* now.  And events outlive the loop's knowledge of them only if a         *)
(* placement and a release threw.                                          *)
(***************************************************************************)
Event(s) == [id |-> holds[s].event, slot |-> slot]
Untouched(x) == \A s \in Side : audit[s][x] = 0

\* In the loop, the slots that were neither held nor dropped have no entry,
\* and the one that is held has its events.
Visited ==
  phase \in {"ask", "switch", "place", "confirm"} =>
    \A x \in SelfFree \ dropped : x # slot \/ phase = "switch" => Untouched(x)
Held ==
  phase \in {"ask", "place", "confirm"} /\ slot \in SelfFree \ dropped =>
    \A s \in Side : \/ holds[s].status = "absent" /\ audit[s][slot] = 0
                    \/ s \in Unreleased /\ Event(s) \in calendar[s]

\* Whom a phase concerns, and what must have gone wrong before an undo.
Ready ==
  /\ phase = "confirm" => Unreleased = Side
  /\ phase = "ask" => slot = None \/ Unreleased = Side
  /\ phase = "place" => \A s \in Side : holds[s].status \in {"absent", "tentative"}
  /\ phase = "undo" => faults["create"] > 0
  /\ reason = "converged" => phase = "done"

Outcome == Visited /\ Held /\ Ready /\ AgreedIsBooked /\ NothingLeftUnlessBooked

\* The state of a loop that is over does not change; one that just ended by
\* giving up has left nothing if the calendars are empty.
LEMMA GivenUp ==
  ASSUME phase' \in {"done", "end", "catch", "undo", "thrown"}, reason' # "converged",
         phase' = "undo" => faults'["create"] > 0,
         phase' = "done" => \/ \A s \in Side : calendar'[s] = {}
                            \/ 0 \notin {faults'["create"], faults'["delete"]}
  PROVE  Outcome'
BY DEF Outcome, Visited, Held, Ready, AgreedIsBooked, NothingLeftUnlessBooked

\* An unreleased hold is all that keeps an event on a calendar.
LEMMA EmptyOnceReleased ==
  ASSUME IInv, phase \notin {"done", "thrown"}, Unreleased = {}
  PROVE  \A s \in Side : calendar[s] = {}
BY DEF IInv, Covered

\* Moving on to a slot: the one that is left is dropped, the next has no entry
\* or was dropped before.
LEMMA EnsureOutcome ==
  ASSUME IInv, Outcome, phase = "ask", NEW x \in SelfFree, NEW goal \in {"ask", "confirm"},
         Ensure(x, goal), UNCHANGED <<world, faults>>
  PROVE  Outcome'
<1>1. /\ UNCHANGED <<calendar, created, audit, faults, reason>> /\ slot' = x
      /\ x # None /\ reason # "converged"
  BY NegotiationAssumption DEF Ensure, world, Outcome, Ready, None
<1>2. CASE slot = x /\ Unreleased = Side
  <2>1. phase' = goal /\ UNCHANGED <<slot, holds, dropped>>
    BY <1>1, <1>2 DEF Ensure
  <2>2. Unreleased' = Unreleased
    BY <2>1 DEF Unreleased, Having
  <2>3. Visited' /\ Held' /\ Ready'
    BY <1>1, <1>2, <2>1, <2>2
    DEF Outcome, Visited, Held, Ready, Untouched, Event
  <2> QED
    BY <1>1, <2>1, <2>3 DEF Outcome, AgreedIsBooked, NothingLeftUnlessBooked
<1>3. CASE ~(slot = x /\ Unreleased = Side) /\ Unreleased # {}
  <2>1. phase' = "switch" /\ dropped' = dropped \cup {slot} /\ UNCHANGED holds
    BY <1>3 DEF Ensure
  <2>2. slot # x
    BY <1>1, <1>3 DEF Outcome, Ready
  <2>3. Visited' /\ Held' /\ Ready'
    BY <1>1, <2>1, <2>2 DEF Outcome, Visited, Held, Ready, Untouched
  <2> QED
    BY <1>1, <2>1, <2>3 DEF Outcome, AgreedIsBooked, NothingLeftUnlessBooked
<1>4. CASE Unreleased = {}
  <2>1. phase' = "place" /\ holds' = NoHolds /\ UNCHANGED dropped
    BY <1>4 DEF Ensure, Side
  <2>2. slot = None /\ None \notin SelfFree
    BY <1>4, NegotiationAssumption DEF Outcome, Ready, Side, None
  <2>3. Visited'
    BY <1>1, <2>1, <2>2 DEF Outcome, Visited, Untouched
  <2>4. \A s \in Side : holds'[s].status = "absent"
    BY <2>1 DEF NoHolds
  <2>5. x \notin dropped => \A s \in Side : audit[s][x] = 0
    BY <2>2 DEF Outcome, Visited, Untouched
  <2>6. Held' /\ Ready'
    BY <1>1, <2>1, <2>4, <2>5 DEF Held, Ready
  <2> QED
    BY <1>1, <2>1, <2>3, <2>6 DEF Outcome, AgreedIsBooked, NothingLeftUnlessBooked
<1> QED
  BY <1>2, <1>3, <1>4

\* A return that releases first.
LEMMA StopOutcome ==
  ASSUME IInv, phase \in {"ask", "confirm"}, NEW why \in Reason \ {"converged"},
         Stop(why), UNCHANGED world
  PROVE  Outcome'
<1>1. phase' \in {"done", "end"} /\ reason' # "converged" /\ UNCHANGED calendar
  BY DEF Stop, world
<1>2. phase' = "done" => \A s \in Side : calendar'[s] = {}
  BY <1>1, EmptyOnceReleased DEF Stop
<1> QED
  BY <1>1, <1>2, GivenUp

\* The catch block with the holds of the loop.
LEMMA CatchOutcome ==
  ASSUME IInv, phase \notin {"done", "thrown"}, Catch(holds), UNCHANGED world
  PROVE  Outcome'
<1>1. phase' \in {"done", "catch"} /\ reason' # "converged" /\ UNCHANGED calendar
  BY DEF Catch, world
<1>2. phase' = "done" => \A s \in Side : calendar'[s] = {}
  BY <1>1, EmptyOnceReleased DEF Catch, Unreleased, Having
<1> QED
  BY <1>1, <1>2, GivenUp

\* Releases: the last one of an exit leaves nothing, the last one of a switch
\* goes on to a slot that is not held.
LEMMA ReleaseOutcome == IInv /\ IInv' /\ Outcome /\ Release => Outcome'
<1> SUFFICES ASSUME IInv, IInv', Outcome, Release PROVE Outcome'
  OBVIOUS
<1> DEFINE s == First(Unreleased)
<1>1. /\ phase \in {"switch", "undo", "end", "catch"}
      /\ calendar' = [calendar EXCEPT ![s] = {e \in @ : e.id # holds[s].event}]
      /\ UNCHANGED <<hop, slot, then, reason, created, audit, faults, dropped>>
      /\ reason # "converged"
  BY DEF Release, loop, Outcome, Ready
<1>2. s \in Unreleased /\ s \in Side
  <2>1. Unreleased \subseteq Side /\ Unreleased # {}
    BY <1>1 DEF IInv, TypeOK, Unreleased, Having
  <2> QED
    BY <2>1, FirstSide
<1>3. CASE phase = "switch" /\ Unreleased = {s}
  <2>1. holds' = NoHolds /\ phase' = "place"
    BY <1>3 DEF Release
  <2>2. Visited' /\ Held' /\ Ready'
    BY <1>1, <1>3, <2>1 DEF Outcome, Visited, Held, Ready, Untouched, NoHolds
  <2> QED
    BY <1>1, <2>1, <2>2 DEF Outcome, AgreedIsBooked, NothingLeftUnlessBooked
<1>4. CASE phase = "switch" /\ Unreleased # {s}
  <2>1. phase' = "switch"
    BY <1>4 DEF Release
  <2>2. Visited' /\ Held' /\ Ready'
    BY <1>1, <1>4, <2>1 DEF Outcome, Visited, Held, Ready, Untouched
  <2> QED
    BY <1>1, <2>1, <2>2 DEF Outcome, AgreedIsBooked, NothingLeftUnlessBooked
<1>5. CASE phase # "switch"
  <2>1. phase' = IF Unreleased # {s} THEN phase ELSE "done"
    BY <1>5 DEF Release
  <2>2. phase' = "done" => \A t \in Side : calendar'[t] = {}
    <3> SUFFICES ASSUME phase' = "done" PROVE \A t \in Side : calendar'[t] = {}
      OBVIOUS
    <3>1. Unreleased = {s}
      BY <1>1, <2>1
    <3>2. \A t \in Side \ {s} : calendar'[t] = {}
      BY <1>1, <1>2, <3>1 DEF IInv, TypeOK, Covered
    <3>3. calendar'[s] = {}
      BY <1>1, <1>2 DEF IInv, TypeOK, Covered
    <3> QED
      BY <3>2, <3>3
  <2>3. phase' = "undo" => faults'["create"] > 0
    BY <1>1, <1>5, <2>1 DEF Outcome, Ready
  <2> QED
    BY <1>1, <1>5, <2>1, <2>2, <2>3, GivenUp
<1> QED
  BY <1>3, <1>4, <1>5

\* A placement: the event of a slot that was not dropped is there, since no
\* entry of an earlier one can be taken for it.
LEMMA PlaceOutcome == IInv /\ IInv' /\ Outcome /\ Place => Outcome'
<1> SUFFICES ASSUME IInv, IInv', Outcome, Place PROVE Outcome'
  OBVIOUS
<1>1. PICK s \in Side : /\ s = First(Having("absent")) /\ holds[s].status = "absent"
                       /\ phase = "place" /\ slot \in SelfFree
  <2>1. Having("absent") \subseteq Side /\ Having("absent") # {}
    BY DEF IInv, Covered, Place, Having
  <2>2. First(Having("absent")) \in Having("absent")
    BY <2>1, FirstSide
  <2> QED
    BY <2>2 DEF IInv, Covered, Place, Having
<1> DEFINE event == created[s] + 1
<1>2. UNCHANGED <<slot, then, reason, faults, dropped>> /\ reason # "converged"
  BY <1>1 DEF Place, loop, Outcome, Ready
<1>3. slot \in Slots /\ event \in Nat /\ audit \in [Side -> [Slots -> Nat]]
  BY <1>1, NegotiationAssumption DEF IInv, TypeOK
<1>4. PICK id \in Nat : AfterHold(WithHold(s, "tentative", id)) /\
        \/ audit[s][slot] # 0 /\ UNCHANGED world
        \/ /\ audit[s][slot] = 0
           /\ calendar' = [calendar EXCEPT ![s] = @ \cup {[id |-> id, slot |-> slot]}]
           /\ audit' = [audit EXCEPT ![s][slot] = id]
  BY <1>1, <1>3 DEF Place
<1>5. /\ holds' = [holds EXCEPT ![s] = [status |-> "tentative", event |-> id]]
      /\ phase' = IF \E t \in Side : holds'[t].status = "absent" THEN "place" ELSE then
  BY <1>4 DEF AfterHold, WithHold
<1>6. /\ holds'[s] = [status |-> "tentative", event |-> id]
      /\ \A t \in Side \ {s} : holds'[t] = holds[t]
  BY <1>1, <1>5 DEF IInv, TypeOK
<1>7. phase' \in {"place", "ask", "confirm"}
  BY <1>5 DEF IInv, TypeOK
<1>8. \A t \in Side : \A x \in Slots : (t # s \/ x # slot) => audit'[t][x] = audit[t][x]
  BY <1>3, <1>4 DEF world
<1>9. Visited'
  <2> SUFFICES ASSUME NEW x \in SelfFree \ dropped, x # slot
               PROVE  \A t \in Side : audit'[t][x] = 0
    BY <1>2, <1>7 DEF Visited, Untouched
  <2>1. \A t \in Side : audit[t][x] = 0
    BY <1>1 DEF Outcome, Visited, Untouched
  <2> QED
    BY <1>8, <2>1, NegotiationAssumption
<1>10. ASSUME slot \notin dropped
       PROVE  /\ Event(s)' \in calendar'[s]
              /\ \A t \in Side \ {s} : calendar'[t] = calendar[t] /\ audit'[t][slot] = audit[t][slot]
  <2>1. audit[s][slot] = 0
    BY <1>1, <1>10 DEF Outcome, Held, Unreleased, Having
  <2>2. calendar' = [calendar EXCEPT ![s] = @ \cup {[id |-> id, slot |-> slot]}]
    BY <1>4, <2>1
  <2>3. Event(s)' = [id |-> id, slot |-> slot]
    BY <1>2, <1>6 DEF Event
  <2> QED
    BY <1>1, <1>3, <1>8, <2>2, <2>3 DEF IInv, TypeOK
<1>11. Held'
  <2> SUFFICES ASSUME slot \notin dropped, NEW t \in Side
               PROVE  \/ holds'[t].status = "absent" /\ audit'[t][slot] = 0
                      \/ t \in Unreleased' /\ Event(t)' \in calendar'[t]
    BY <1>2 DEF Held
  <2>1. CASE t = s
    BY <1>6, <1>10, <2>1 DEF Unreleased, Having
  <2>2. CASE t # s
    <3>1. \/ holds[t].status = "absent" /\ audit[t][slot] = 0
          \/ t \in Unreleased /\ Event(t) \in calendar[t]
      BY <1>1 DEF Outcome, Held
    <3>2. Event(t)' = Event(t) /\ (t \in Unreleased => t \in Unreleased')
      BY <1>2, <1>6, <2>2 DEF Event, Unreleased, Having
    <3> QED
      BY <1>6, <1>10, <2>2, <3>1, <3>2
  <2> QED
    BY <2>1, <2>2
<1>12. Ready'
  <2>1. \A t \in Side : holds'[t].status \in {"absent", "tentative"}
    BY <1>1, <1>6 DEF Outcome, Ready
  <2>2. phase' \in {"ask", "confirm"} => Unreleased' = Side
    <3> SUFFICES ASSUME phase' # "place" PROVE Unreleased' = Side
      BY <1>7
    <3>1. \A t \in Side : holds'[t].status = "tentative"
      BY <1>5, <2>1
    <3> QED
      BY <3>1 DEF Unreleased, Having
  <2> QED
    BY <1>2, <1>7, <2>1, <2>2 DEF Ready
<1> QED
  BY <1>2, <1>7, <1>9, <1>11, <1>12 DEF Outcome, AgreedIsBooked, NothingLeftUnlessBooked

\* A confirmation: the last one finds both sides held.
LEMMA ConfirmOutcome == IInv /\ Outcome /\ Confirm => Outcome'
<1> SUFFICES ASSUME IInv, Outcome, Confirm PROVE Outcome'
  OBVIOUS
<1>1. PICK s \in Side : /\ s = First(Having("tentative"))
                       /\ phase = "confirm" /\ Unreleased = Side
  BY FirstSide DEF Having, Confirm, Outcome, Ready
<1>2. /\ UNCHANGED <<hop, slot, then, calendar, created, audit, faults, dropped>>
      /\ holds'[s] = [status |-> "busy", event |-> holds[s].event]
      /\ \A t \in Side \ {s} : holds'[t] = holds[t]
  BY <1>1 DEF Confirm, WithHold, world, IInv, TypeOK
<1>3. Unreleased' = Side /\ \A t \in Side : Event(t)' = Event(t)
  <2>1. \A t \in Side : holds'[t].event = holds[t].event
    BY <1>2
  <2>2. \A t \in Side : holds'[t].status \in {"tentative", "busy"}
    BY <1>1, <1>2 DEF Unreleased, Having
  <2> QED
    BY <1>2, <2>1, <2>2 DEF Unreleased, Having, Event
<1>4. Visited' /\ Held'
  <2>1. phase' \in {"confirm", "done"}
    BY <1>1 DEF Confirm
  <2>2. slot \in SelfFree \ dropped => \A t \in Side : Event(t) \in calendar[t]
    BY <1>1 DEF Outcome, Held, Unreleased, Having
  <2>3. Held'
    BY <1>2, <1>3, <2>2 DEF Held
  <2> QED
    BY <1>1, <1>2, <2>1, <2>3 DEF Outcome, Visited, Untouched
<1>5. CASE Having("tentative") = {s}
  <2>1. phase' = "done" /\ reason' = "converged"
    BY <1>1, <1>5 DEF Confirm
  <2>2. \A t \in Side : holds'[t].status = "busy"
    BY <1>1, <1>2, <1>5 DEF Unreleased, Having
  <2>3. slot \notin dropped => \A t \in Side : Event(t) \in calendar[t]
    <3>1. slot \in SelfFree
      BY <1>1 DEF IInv, Covered
    <3> QED
      BY <1>1, <3>1 DEF Outcome, Held, Unreleased, Having
  <2>4. AgreedIsBooked'
    BY <1>2, <1>3, <2>2, <2>3 DEF AgreedIsBooked, Event
  <2> QED
    BY <1>4, <2>1, <2>4 DEF Outcome, Ready, NothingLeftUnlessBooked
<1>6. CASE Having("tentative") # {s}
  <2>1. UNCHANGED <<phase, reason>>
    BY <1>1, <1>6 DEF Confirm
  <2>2. reason # "converged"
    BY <1>1 DEF Outcome, Ready
  <2> QED
    BY <1>1, <1>3, <1>4, <2>1, <2>2
    DEF Outcome, Ready, AgreedIsBooked, NothingLeftUnlessBooked
<1> QED
  BY <1>5, <1>6

\* Every step keeps the outcome.
LEMMA StepOutcome == IInv /\ IInv' /\ Outcome /\ [Next]_vars => Outcome'
<1> SUFFICES ASSUME IInv, IInv', Outcome, [Next]_vars PROVE Outcome'
  OBVIOUS
<1>1. ASSUME NEW offered \in SUBSET Slots, NEW accept \in Slots \cup {None}, Ask(offered, accept)
      PROVE  Outcome'
  <2>1. phase = "ask" /\ UNCHANGED <<world, faults>>
    BY <1>1 DEF Ask
  <2>2. CASE accept \in SelfFree
    BY <1>1, <2>1, <2>2, EnsureOutcome DEF Ask
  <2>3. CASE accept \notin SelfFree /\ SelfFree \cap offered = {}
    BY <1>1, <2>1, <2>3, StopOutcome DEF Ask, Reason, world
  <2>4. CASE accept \notin SelfFree /\ SelfFree \cap offered # {}
    <3>1. Best(SelfFree \cap offered) \in SelfFree
      BY <2>4, BestIsOne
    <3> QED
      BY <1>1, <2>1, <2>4, <3>1, EnsureOutcome DEF Ask
  <2> QED
    BY <2>2, <2>3, <2>4
<1>2. CASE HopCap
  BY <1>2, StopOutcome DEF HopCap, Reason
<1>3. CASE AskFails
  BY <1>3, CatchOutcome DEF AskFails
<1>4. CASE Release
  BY <1>4, ReleaseOutcome
<1>5. CASE ReleaseFails
  <2>1. /\ UNCHANGED world
        /\ faults' = [faults EXCEPT !["delete"] = @ + 1]
        /\ faults \in [Fault -> Nat]
    BY <1>5 DEF ReleaseFails, Failed, IInv, TypeOK
  <2>2. CASE phase = "catch"
    <3>1. phase' = "thrown" /\ UNCHANGED reason /\ reason # "converged"
      BY <1>5, <2>2 DEF ReleaseFails, Outcome, Ready
    <3> QED
      BY <3>1, GivenUp
  <2>3. CASE phase = "undo"
    <3>1. phase' = "done" /\ reason' = "booking-failed"
      BY <1>5, <2>3 DEF ReleaseFails, Catch, NoHolds
    <3>2. faults["create"] > 0 /\ faults'["create"] = faults["create"] /\ faults'["delete"] > 0
      BY <2>1, <2>3 DEF Outcome, Ready, Fault
    <3> QED
      BY <3>1, <3>2, GivenUp
  <2>4. CASE phase \notin {"catch", "undo"}
    BY <1>5, <2>1, <2>4, CatchOutcome DEF ReleaseFails
  <2> QED
    BY <2>2, <2>3, <2>4
<1>6. CASE Place
  BY <1>6, PlaceOutcome
<1>7. CASE PlaceFails
  <2>1. /\ phase' = IF Unreleased = {} THEN "done" ELSE "undo"
        /\ reason' = "booking-failed" /\ UNCHANGED calendar
        /\ phase = "place"
    BY <1>7 DEF PlaceFails, world
  <2>2. faults'["create"] > 0
    BY <1>7 DEF PlaceFails, Failed, IInv, TypeOK, Fault
  <2>3. phase' = "done" => \A s \in Side : calendar'[s] = {}
    BY <2>1, EmptyOnceReleased
  <2> QED
    BY <2>1, <2>2, <2>3, GivenUp
<1>8. CASE Confirm
  BY <1>8, ConfirmOutcome
<1>9. CASE ConfirmFails
  BY <1>9, StopOutcome DEF ConfirmFails, Reason
<1>10. CASE UNCHANGED vars
  BY <1>10 DEF vars, Outcome, Visited, Held, Ready, Event, Untouched, AgreedIsBooked,
               NothingLeftUnlessBooked, Unreleased, Having
<1> QED
  BY <1>1, <1>2, <1>3, <1>4, <1>5, <1>6, <1>7, <1>8, <1>9, <1>10 DEF Next

\* Whatever the peer answers and whatever throws: a negotiation that agreed on
\* a slot it never let go of has it on both calendars, and one that did not
\* agree has left nothing there, unless a placement and a release both threw
\* (negotiateSlot's compensation and catch block).
THEOREM Booked == Spec => []BookedOrNothing
<1>1. Init => Outcome
  BY NegotiationAssumption
  DEF Init, Outcome, Visited, Held, Ready, Untouched, AgreedIsBooked,
         NothingLeftUnlessBooked, None, NoHolds
<1>2. IInv /\ Outcome => BookedOrNothing
  BY DEF IInv, Outcome, BookedOrNothing
<1> QED
  BY InitInv, StepInv, StepOutcome, <1>1, <1>2, PTL DEF Spec

-----------------------------------------------------------------------------
(***************************************************************************)
(* Connections.                                                            *)
(***************************************************************************)

\* A token anywhere is one its owner connected: in the record, in the token
\* file, in the memory of a call and with its server.
BelongsTo(c, o) == consent[c].stage = "connected" /\ consent[c].owner = o
Owned ==
  /\ \A o \in Owners : stored[o] \in Consents => BelongsTo(stored[o], o)
  /\ \A o \in Owners : tokenFile[o] \in Consents => BelongsTo(tokenFile[o], o)
  /\ \A k \in Calls : call[k].token \in Consents => BelongsTo(call[k].token, call[k].owner)
  /\ \A k \in Calls : used[k] \in Consents => BelongsTo(used[k], call[k].owner)

\* Who may go on with the bridge's own account.
Excused(k) == k \in disturbed \/ (call[k].way = "agreed" /\ floor[k] \notin Consents)

\* Who has begun has an owner, who connects through the token file has
\* that owner's token in mind, and who had an owner when it asked still has.
Placed ==
  /\ \A c \in Consents : consent[c].stage # "none" => consent[c].owner \in Owners
  /\ \A k \in Calls : call[k].stage \notin {"idle"} => call[k].owner \in Owners
  /\ \A k \in Calls : call[k].stage \in Holding => call[k].token \in Consents
  /\ \A k \in Calls : call[k].stage = "begun" /\ ~Excused(k) => stored[call[k].owner] \in Consents
  /\ \A k \in Calls : call[k].stage = "ambient" => Excused(k)

\* Two calls of one owner that hold a token at a time are on record, and a
\* call that is alone finds the token it wrote.
Alone ==
  /\ \A j, k \in Calls : /\ j # k /\ call[j].owner = call[k].owner
                         /\ call[j].stage \in Holding /\ call[k].stage \in Holding
                         => j \in shared
  /\ \A k \in Calls : call[k].stage = "written" /\ k \notin shared =>
       tokenFile[call[k].owner] = call[k].token
  /\ \A k \in Calls : call[k].stage = "writing" /\ k \notin shared => k \in emptied

\* The record holds the last account that was saved, and a call reads it after
\* the one it found when it began.
Newest ==
  /\ \A c \in Consents : saved[c] <= saves /\ (consent[c].stage # "connected" => saved[c] = 0)
  /\ \A c \in Consents, o \in Owners :
       stored[o] \in Consents /\ consent[c].owner = o => saved[c] <= saved[stored[o]]
  /\ \A k \in Calls : floor[k] \in Consents => BelongsTo(floor[k], call[k].owner)
  /\ \A k \in Calls : call[k].token \in Consents /\ floor[k] \in Consents =>
       saved[floor[k]] <= saved[call[k].token]
  /\ \A k \in Calls : call[k].stage # "connected" => used[k] = Nothing

AccountInv == AccountIsRight /\ Owned /\ Placed /\ Alone /\ Newest

-----------------------------------------------------------------------------
\* Nobody has connected anything yet.
LEMMA AccountStarts == ConnectionInit => AccountInv
<1> SUFFICES ASSUME ConnectionInit PROVE AccountInv
  OBVIOUS
<1>1. ConnectionTypes
  BY DEF ConnectionInit, ConnectionTypes, NoCall, File, Holding
<1>2. Owned /\ Placed /\ Alone /\ Newest
  BY ConnectionAssumption
  DEF ConnectionInit, Owned, Placed, Excused, Alone, Newest, NoCall, Holding, BelongsTo
<1>3. AccountIsOwners /\ AccountIsFresh /\ ConnectedIsStored
  BY ConnectionAssumption
  DEF ConnectionInit, AccountIsOwners, AccountIsFresh, ConnectedIsStored
<1> QED
  BY <1>1, <1>2, <1>3 DEF AccountInv, AccountIsRight

\* The consents that are not saved yet are nobody's token, so they may change.
LEMMA ConsentInv ==
  ASSUME AccountInv, NEW c \in Consents, NEW o \in Owners, Start(c, o) \/ Callback(c, o)
  PROVE  AccountInv'
<1>1. /\ UNCHANGED <<restarts, secret, stored, opened, tokenFile, emptied, call, used, floor, shared,
                     saves, saved, disturbed, damaged>>
      /\ consent[c].stage \in {"none", "asked"}
      /\ consent' = [consent EXCEPT ![c] = consent'[c]]
      /\ consent'[c].stage \in {"asked", "exchanged", "failed"} /\ consent'[c].owner = o
      /\ consent'[c].secret \in Nat
      /\ consent'[c] \in [stage : {"asked", "exchanged", "failed"}, owner : Owners, secret : Nat]
  BY DEF AccountInv, AccountIsRight, ConnectionTypes, Start, Callback, callVars
<1>2. ConnectionTypes'
  BY <1>1 DEF AccountInv, AccountIsRight, ConnectionTypes
<1>3. \A d \in Consents : consent[d].stage = "connected" => d # c /\ consent'[d] = consent[d]
  BY <1>1 DEF AccountInv, AccountIsRight, ConnectionTypes
<1>4. \A d \in Consents : d # c => consent'[d] = consent[d]
  BY <1>1 DEF AccountInv, AccountIsRight, ConnectionTypes
<1>5. Owned'
  BY <1>1, <1>3 DEF AccountInv, AccountIsRight, ConnectionTypes, Owned, BelongsTo
<1>6. Placed' /\ Alone'
  BY <1>1, <1>4 DEF AccountInv, Placed, Excused, Alone
<1>7. saved[c] = 0
  BY <1>1 DEF AccountInv, Newest
<1>8. Newest'
  BY <1>1, <1>3, <1>4, <1>7 DEF AccountInv, AccountIsRight, ConnectionTypes, Newest, BelongsTo
<1>9. AccountIsOwners' /\ AccountIsFresh'
  BY <1>1, <1>3 DEF AccountInv, AccountIsRight, AccountIsOwners, AccountIsFresh, Owned, BelongsTo
<1>10. ConnectedIsStored'
  BY <1>1, <1>3, <1>4 DEF AccountInv, AccountIsRight, ConnectedIsStored
<1> QED
  BY <1>2, <1>5, <1>6, <1>8, <1>9, <1>10 DEF AccountInv, AccountIsRight

\* A record is truncated: the calls past the gate are on record.
LEMMA TruncateInv ==
  ASSUME AccountInv, NEW c \in Consents, Truncate(c)
  PROVE  AccountInv'
<1> DEFINE o == consent[c].owner
<1>1. /\ consent[c].stage = "exchanged" /\ o \in Owners
      /\ consent' = [consent EXCEPT ![c].stage = "saving"]
      /\ stored' = [stored EXCEPT ![o] = Torn] /\ opened' = opened \cup {c}
      /\ disturbed' = disturbed \cup {k \in Calls : call[k].owner = o /\ call[k].stage = "begun"}
      /\ UNCHANGED <<secret, restarts, tokenFile, emptied, call, used, floor, shared, saves, saved,
                     damaged>>
  BY DEF Truncate, Waiting, StateOwner, callVars, AccountInv, Placed
<1>2. ConnectionTypes'
  BY <1>1 DEF AccountInv, AccountIsRight, ConnectionTypes, File
<1>3. /\ consent'[c].stage = "saving" /\ consent'[c].owner = o
      /\ \A d \in Consents : d # c => consent'[d] = consent[d]
      /\ stored'[o] = Torn /\ \A q \in Owners : q # o => stored'[q] = stored[q]
  BY <1>1 DEF AccountInv, AccountIsRight, ConnectionTypes
<1>4. Owned'
  BY <1>1, <1>3, ConnectionAssumption DEF AccountInv, Owned, BelongsTo
<1>5. Placed'
  BY <1>1, <1>3 DEF AccountInv, Placed, Excused
<1>6. Alone' /\ Newest'
  BY <1>1, <1>3, ConnectionAssumption DEF AccountInv, Alone, Newest, BelongsTo
<1>7. AccountIsOwners' /\ AccountIsFresh'
  BY <1>1, <1>3 DEF AccountInv, AccountIsRight, AccountIsOwners, AccountIsFresh
<1>8. ConnectedIsStored'
  BY <1>1, <1>3 DEF AccountInv, AccountIsRight, ConnectedIsStored
<1> QED
  BY <1>2, <1>4, <1>5, <1>6, <1>7, <1>8 DEF AccountInv, AccountIsRight

\* A record is saved: it is the newest one, or unreadable and known to be.
LEMMA SaveInv ==
  ASSUME AccountInv, NEW c \in Consents, Save(c)
  PROVE  AccountInv'
<1> DEFINE o == consent[c].owner
<1>1. /\ consent[c].stage = "saving" /\ o \in Owners
      /\ consent' = [consent EXCEPT ![c].stage = "connected"]
      /\ opened' = {d \in opened : consent[d].owner # o}
      /\ saves' = saves + 1 /\ saved' = [saved EXCEPT ![c] = saves + 1]
      /\ UNCHANGED <<secret, restarts, tokenFile, emptied, call, used, floor, shared>>
  BY DEF Save, StateOwner, callVars, AccountInv, Placed
<1>0. PICK record \in {c, Torn} :
        /\ stored' = [stored EXCEPT ![o] = record]
        /\ damaged' = IF record = Torn THEN damaged \cup {o} ELSE damaged \ {o}
        /\ disturbed' = IF record = Torn THEN disturbed \cup Waiting(o) ELSE disturbed
  BY DEF Save, StateOwner
<1>2. ConnectionTypes'
  BY <1>0, <1>1 DEF AccountInv, AccountIsRight, ConnectionTypes, File, Waiting
<1>3. /\ consent'[c].stage = "connected" /\ consent'[c].owner = o
      /\ \A d \in Consents : d # c => consent'[d] = consent[d] /\ saved'[d] = saved[d]
      /\ saved'[c] = saves + 1
      /\ stored'[o] = record /\ \A q \in Owners : q # o => stored'[q] = stored[q]
      /\ saves \in Nat /\ \A d \in Consents : saved[d] \in Nat /\ saved[d] <= saves
  BY <1>0, <1>1 DEF AccountInv, AccountIsRight, ConnectionTypes, Newest
<1>4. \A d \in Consents, q \in Owners : BelongsTo(d, q) => d # c
  BY <1>1 DEF BelongsTo
<1>5. Owned'
  BY <1>1, <1>3, ConnectionAssumption DEF AccountInv, Owned, BelongsTo
<1>6. Placed' /\ Alone'
  <2>1. disturbed \subseteq disturbed' /\ (record # c => Waiting(o) \subseteq disturbed')
    BY <1>0
  <2>2. ASSUME NEW k \in Calls, call[k].stage = "begun", ~Excused(k)' PROVE stored'[call[k].owner] \in Consents
    <3>1. ~Excused(k) /\ k \notin disturbed'
      BY <1>1, <2>1, <2>2 DEF Excused
    <3>2. CASE call[k].owner = o
      BY <1>3, <2>1, <2>2, <3>1, <3>2 DEF Waiting
    <3>3. CASE call[k].owner # o
      BY <1>1, <1>3, <2>2, <3>1, <3>3 DEF AccountInv, Placed
    <3> QED
      BY <3>2, <3>3
  <2> QED
    BY <1>1, <1>3, <2>1, <2>2 DEF AccountInv, Placed, Alone, Excused
<1>7. Newest'
  <2>1. \A d \in Consents : saved'[d] <= saves' /\ (consent'[d].stage # "connected" => saved'[d] = 0)
    BY <1>1, <1>3 DEF AccountInv, Newest
  <2>2. ASSUME NEW d \in Consents, NEW q \in Owners,
               stored'[q] \in Consents, consent'[d].owner = q
        PROVE  saved'[d] <= saved'[stored'[q]]
    <3>1. CASE q = o
      BY <1>1, <1>3, <2>1, <2>2, <3>1, ConnectionAssumption
    <3>2. CASE q # o
      <4>1. stored'[q] = stored[q] /\ stored[q] # c /\ d # c
        BY <1>1, <1>3, <2>2, <3>2 DEF AccountInv, Owned, BelongsTo
      <4> QED
        BY <1>3, <2>2, <4>1 DEF AccountInv, Newest
    <3> QED
      BY <3>1, <3>2
  <2>3. \A k \in Calls : floor[k] \in Consents => floor[k] # c /\ BelongsTo(floor[k], call[k].owner)'
    BY <1>1, <1>3 DEF AccountInv, Newest, BelongsTo
  <2>4. \A k \in Calls : call[k].token \in Consents => call[k].token # c
    BY <1>1 DEF AccountInv, Owned, BelongsTo
  <2> QED
    BY <1>1, <1>3, <2>1, <2>2, <2>3, <2>4 DEF AccountInv, Newest
<1>8. AccountIsOwners' /\ AccountIsFresh'
  <2>1. \A k \in Calls : used[k] \in Consents => used[k] # c
    BY <1>1 DEF AccountInv, Owned, BelongsTo
  <2>2. \A k \in Calls : floor[k] \in Consents => floor[k] # c
    BY <1>1 DEF AccountInv, Newest, BelongsTo
  <2>3. disturbed \subseteq disturbed'
    BY <1>0
  <2> QED
    BY <1>1, <1>3, <2>1, <2>2, <2>3 DEF AccountInv, AccountIsRight, AccountIsOwners, AccountIsFresh
<1>9. ConnectedIsStored'
  BY <1>0, <1>1, <1>3 DEF AccountInv, AccountIsRight, ConnectedIsStored
<1> QED
  BY <1>2, <1>5, <1>6, <1>7, <1>8, <1>9 DEF AccountInv, AccountIsRight

\* What a step of one call leaves alone, and what is then to be shown of it.
Others(k) == \A j \in Calls : j # k => call'[j] = call[j] /\ used'[j] = used[j] /\ floor'[j] = floor[j]

\* A call begins: it knows what was stored then.
LEMMA EnterInv ==
  ASSUME AccountInv, NEW k \in Calls, NEW o \in Owners, Gate(k, o) \/ Ungated(k, o)
  PROVE  AccountInv'
<1>1. PICK way \in {"turn", "agreed"}, stage \in {"begun", "refused"} :
        /\ call' = [call EXCEPT ![k] = [stage |-> stage, way |-> way, owner |-> o, token |-> Nothing]]
        /\ stage = "begun" => way = "agreed" \/ stored[o] \in Consents
        /\ call[k].stage = "idle" /\ floor' = [floor EXCEPT ![k] = stored[o]]
        /\ UNCHANGED <<consent, secret, restarts, stored, opened, tokenFile, emptied, saves, saved, used,
                       shared, disturbed, damaged>>
  BY DEF Gate, Ungated, Enter
<1>2. ConnectionTypes'
  BY <1>1 DEF AccountInv, AccountIsRight, ConnectionTypes
<1>3. /\ call'[k].owner = o /\ call'[k].token = Nothing /\ Others(k)
      /\ call'[k].stage = stage /\ call'[k].way = way
      /\ floor'[k] = stored[o] /\ used[k] = Nothing
  BY <1>1 DEF AccountInv, AccountIsRight, ConnectionTypes, Others, Newest
<1>4. Owned' /\ Alone'
  BY <1>1, <1>3, ConnectionAssumption DEF AccountInv, Owned, Alone, Others, Holding, BelongsTo
<1>5. Placed'
  BY <1>1, <1>3, ConnectionAssumption DEF AccountInv, Placed, Excused, Others, Holding
<1>6. Newest'
  BY <1>1, <1>3, ConnectionAssumption DEF AccountInv, Owned, Newest, Others, BelongsTo
<1>7. AccountIsOwners' /\ AccountIsFresh' /\ ConnectedIsStored'
  BY <1>1, <1>3, ConnectionAssumption
  DEF AccountInv, AccountIsRight, AccountIsOwners, AccountIsFresh, ConnectedIsStored, Others
<1> QED
  BY <1>2, <1>4, <1>5, <1>6, <1>7 DEF AccountInv, AccountIsRight

\* A call reads the record: what it finds is no older than what it found before.
LEMMA ResolveInv ==
  ASSUME AccountInv, NEW k \in Calls, Resolve(k)
  PROVE  AccountInv'
<1>11. PICK o \in Owners : o = call[k].owner /\ call[k].stage = "begun"
  BY DEF Resolve, AccountInv, Placed
<1> DEFINE others == {j \in Calls : call[j].owner = o /\ call[j].stage \in Holding}
           there == stored[o] \in Consents
<1>1. /\ shared' = IF there /\ others # {} THEN shared \cup others \cup {k} ELSE shared
      /\ UNCHANGED <<consent, secret, restarts, stored, opened, tokenFile, emptied, saves, saved, used,
                     floor, disturbed, damaged>>
  BY <1>11 DEF Resolve
<1>2. /\ call'[k].owner = o /\ call'[k].way = call[k].way
      /\ \/ there /\ call'[k].stage = "resolved" /\ call'[k].token = stored[o]
         \/ ~there /\ call'[k].stage = "ambient" /\ call'[k].token = Ambient
  <2>1. CASE there
    <3>1. call' = [call EXCEPT ![k].stage = "resolved", ![k].token = stored[o]]
      BY <1>11, <2>1 DEF Resolve
    <3> QED
      BY <1>11, <2>1, <3>1 DEF AccountInv, AccountIsRight, ConnectionTypes
  <2>2. CASE ~there
    <3>1. call' = [call EXCEPT ![k].stage = "ambient", ![k].token = Ambient]
      BY <1>11, <2>2 DEF Resolve
    <3> QED
      BY <1>11, <2>2, <3>1 DEF AccountInv, AccountIsRight, ConnectionTypes
  <2> QED
    BY <2>1, <2>2
<1>10. PICK stage \in {"ambient"} \cup Holding, token \in Consents \cup {Ambient} :
         call' = [call EXCEPT ![k].stage = stage, ![k].token = token]
  <2>1. CASE there
    BY <1>11, <2>1 DEF Resolve, Holding
  <2>2. CASE ~there
    BY <1>11, <2>2 DEF Resolve
  <2> QED
    BY <2>1, <2>2
<1>3. Others(k) /\ used[k] = Nothing
  BY <1>1, <1>11, <1>10 DEF AccountInv, AccountIsRight, ConnectionTypes, Others, Newest
<1>4. ConnectionTypes'
  <2>1. call' \in [Calls -> [stage : {"idle", "begun", "refused", "ambient", "connected", "lost"} \cup Holding,
                             way : {"none", "turn", "agreed"}, owner : Owners \cup {Nothing}, token : Consents \cup {Nothing, Ambient}]]
    <3> DEFINE stages == {"idle", "begun", "refused", "ambient", "connected", "lost"} \cup Holding
               ways == {"none", "turn", "agreed"}
               tokens == Consents \cup {Nothing, Ambient}
    <3>1. call \in [Calls -> [stage : stages, way : ways, owner : Owners \cup {Nothing}, token : tokens]]
      BY DEF AccountInv, AccountIsRight, ConnectionTypes
    <3>2. stage \in stages /\ token \in tokens
      OBVIOUS
    <3> HIDE DEF stages, ways, tokens
    <3>3. call' \in [Calls -> [stage : stages, way : ways, owner : Owners \cup {Nothing}, token : tokens]]
      BY <1>10, <3>1, <3>2
    <3> QED
      BY <3>3 DEF stages, ways, tokens
  <2>2. shared' \subseteq Calls
    BY <1>1, <1>11 DEF AccountInv, AccountIsRight, ConnectionTypes
  <2> QED
    BY <1>1, <1>11, <2>1, <2>2 DEF AccountInv, AccountIsRight, ConnectionTypes
<1>5. Owned'
  BY <1>1, <1>11, <1>2, <1>3, ConnectionAssumption DEF AccountInv, Owned, Others, BelongsTo
<1>6. Placed'
  <2>1. ~there => Excused(k)
    BY <1>1, <1>11 DEF AccountInv, Placed
  <2>2. \A j \in Calls : Excused(j)' <=> Excused(j)
    BY <1>1, <1>2, <1>3 DEF Excused, Others
  <2> QED
    BY <1>1, <1>11, <1>2, <1>3, <2>1, <2>2 DEF AccountInv, Placed, Others, Holding
<1>7. Alone'
  <2>1. ASSUME NEW i \in Calls, NEW j \in Calls, i # j, call'[i].owner = call'[j].owner,
               call'[i].stage \in Holding, call'[j].stage \in Holding
        PROVE  i \in shared'
    <3>1. CASE i # k /\ j # k
      BY <1>1, <1>11, <1>3, <2>1, <3>1 DEF AccountInv, Alone, Others
    <3>2. CASE i = k \/ j = k
      <4>0. \A l \in Calls : l # k => call'[l] = call[l]
        BY <1>3 DEF Others
      <4>1. there /\ others # {} /\ i \in others \cup {k}
        BY <1>2, <2>1, <3>2, <4>0 DEF Holding
      <4> QED
        BY <1>1, <1>11, <4>1
    <3> QED
      BY <3>1, <3>2
  <2>2. ASSUME NEW j \in Calls, call'[j].stage = "written", j \notin shared'
        PROVE  tokenFile'[call'[j].owner] = call'[j].token
    <3>1. j # k /\ j \notin shared
      BY <1>1, <1>11, <1>2, <2>2
    <3> QED
      BY <1>1, <1>11, <1>3, <2>2, <3>1 DEF AccountInv, Alone, Others
  <2>3. ASSUME NEW j \in Calls, call'[j].stage = "writing", j \notin shared' PROVE j \in emptied'
    <3>1. j # k /\ j \notin shared
      BY <1>1, <1>11, <1>2, <2>3
    <3> QED
      BY <1>1, <1>3, <2>3, <3>1 DEF AccountInv, Alone, Others
  <2> QED
    BY <2>1, <2>2, <2>3 DEF Alone
<1>8. Newest'
  <2>1. there /\ floor[k] \in Consents => saved[floor[k]] <= saved[stored[o]]
    BY <1>1, <1>11 DEF AccountInv, Newest, BelongsTo
  <2> QED
    BY <1>1, <1>11, <1>2, <1>3, <2>1, ConnectionAssumption DEF AccountInv, Newest, Others, BelongsTo
<1>9. AccountIsOwners' /\ AccountIsFresh' /\ ConnectedIsStored'
  BY <1>1, <1>11, <1>2, <1>3, ConnectionAssumption
  DEF AccountInv, AccountIsRight, AccountIsOwners, AccountIsFresh, ConnectedIsStored, Others
<1> QED
  BY <1>4, <1>5, <1>6, <1>7, <1>8, <1>9 DEF AccountInv, AccountIsRight

\* The token file is written: only calls that share the owner can tell.
LEMMA TokenInv ==
  ASSUME AccountInv, NEW k \in Calls, TruncateToken(k) \/ WriteToken(k)
  PROVE  AccountInv'
<1> DEFINE o == call[k].owner
<1>1. /\ call[k].stage \in {"resolved", "writing"} /\ o \in Owners /\ call[k].token \in Consents
      /\ call' = [call EXCEPT ![k].stage = call'[k].stage]
      /\ UNCHANGED <<consent, secret, restarts, stored, opened, saves, saved, used, floor, shared,
                     disturbed, damaged>>
      /\ \/ /\ call'[k].stage = "writing" /\ tokenFile' = [tokenFile EXCEPT ![o] = Torn]
            /\ emptied' = emptied \cup {k}
         \/ /\ call[k].stage = "writing" /\ call'[k].stage = "written"
            /\ \/ tokenFile' = [tokenFile EXCEPT ![o] = call[k].token]
               \/ k \notin emptied /\ tokenFile' = [tokenFile EXCEPT ![o] = Torn]
            /\ emptied' = {j \in emptied : call[j].owner # o}
  BY DEF TruncateToken, WriteToken, AccountInv, AccountIsRight, ConnectionTypes, Placed, Holding
<1>2. /\ call'[k].owner = o /\ call'[k].way = call[k].way /\ call'[k].token = call[k].token /\ Others(k)
      /\ call'[k].stage \in Holding /\ call[k].stage \in Holding /\ used[k] = Nothing
  BY <1>1 DEF AccountInv, AccountIsRight, ConnectionTypes, Others, Newest, Holding
<1>3. \A q \in Owners : q # o => tokenFile'[q] = tokenFile[q]
  BY <1>1 DEF AccountInv, AccountIsRight, ConnectionTypes
<1>4. /\ tokenFile'[o] \in {Torn, call[k].token} /\ call'[k].stage \in {"writing", "written"}
      /\ call'[k].stage = "writing" => emptied' = emptied \cup {k}
      /\ call'[k].stage = "written" =>
           /\ emptied' = {j \in emptied : call[j].owner # o}
           /\ k \notin shared => tokenFile'[o] = call[k].token
  BY <1>1 DEF AccountInv, AccountIsRight, ConnectionTypes, Alone
<1>5. ConnectionTypes'
  <2>1. tokenFile' \in [Owners -> File]
    BY <1>1 DEF AccountInv, AccountIsRight, ConnectionTypes, File
  <2>2. PICK stage \in Holding : call' = [call EXCEPT ![k].stage = stage]
    BY <1>1, <1>2
  <2>3. call' \in [Calls -> [stage : {"idle", "begun", "refused", "ambient", "connected", "lost"} \cup Holding,
                             way : {"none", "turn", "agreed"}, owner : Owners \cup {Nothing}, token : Consents \cup {Nothing, Ambient}]]
    BY <2>2 DEF AccountInv, AccountIsRight, ConnectionTypes
  <2> QED
    BY <1>1, <2>1, <2>3 DEF AccountInv, AccountIsRight, ConnectionTypes
<1>6. Owned'
  BY <1>1, <1>2, <1>3, <1>4, ConnectionAssumption DEF AccountInv, Owned, Others, BelongsTo
<1>7. Placed'
  BY <1>1, <1>2, <1>4 DEF AccountInv, Placed, Excused, Others, Holding
<1>8. Alone'
  <2>1. ASSUME NEW i \in Calls, NEW j \in Calls, i # j, call'[i].owner = call'[j].owner,
               call'[i].stage \in Holding, call'[j].stage \in Holding
        PROVE  i \in shared'
    <3>1. /\ call[i].owner = call[j].owner
          /\ call[i].stage \in Holding /\ call[j].stage \in Holding
      BY <1>2, <2>1 DEF Others
    <3> QED
      BY <1>1, <2>1, <3>1 DEF AccountInv, Alone
  <2>2. ASSUME NEW j \in Calls, call'[j].stage = "written", j \notin shared'
        PROVE  tokenFile'[call'[j].owner] = call'[j].token
    <3>1. CASE j = k
      BY <1>1, <1>2, <1>4, <2>2, <3>1
    <3>2. CASE j # k
      <4>1. call[j].stage = "written" /\ call'[j] = call[j] /\ j \notin shared /\ call[j].owner \in Owners
        BY <1>1, <1>2, <2>2, <3>2 DEF Others, AccountInv, Placed
      <4>2. call[j].owner # o
        BY <1>2, <3>2, <4>1 DEF AccountInv, Alone, Holding
      <4> QED
        BY <1>3, <4>1, <4>2 DEF AccountInv, Alone
    <3> QED
      BY <3>1, <3>2
  <2>3. ASSUME NEW j \in Calls, call'[j].stage = "writing", j \notin shared' PROVE j \in emptied'
    <3>1. CASE j = k
      BY <1>4, <2>3, <3>1
    <3>2. CASE j # k
      <4>1. call[j].stage = "writing" /\ j \notin shared
        BY <1>1, <1>2, <2>3, <3>2 DEF Others
      <4>2. call[j].owner # o /\ j \in emptied
        BY <1>2, <3>2, <4>1 DEF AccountInv, Alone, Holding
      <4> QED
        BY <1>4, <4>2
    <3> QED
      BY <3>1, <3>2
  <2> QED
    BY <2>1, <2>2, <2>3 DEF Alone
<1>9. Newest'
  BY <1>1, <1>2 DEF AccountInv, Newest, Others, BelongsTo
<1>10. AccountIsOwners' /\ AccountIsFresh' /\ ConnectedIsStored'
  BY <1>1, <1>2
  DEF AccountInv, AccountIsRight, AccountIsOwners, AccountIsFresh, ConnectedIsStored, Others
<1> QED
  BY <1>5, <1>6, <1>7, <1>8, <1>9, <1>10 DEF AccountInv, AccountIsRight

\* A server is started: it finds the token of its call if the call is alone.
LEMMA ConnectInv ==
  ASSUME AccountInv, NEW k \in Calls, Connect(k)
  PROVE  AccountInv'
<1> DEFINE o == call[k].owner
<1>1. /\ call[k].stage \in {"written", "ambient"} /\ o \in Owners
      /\ used' = [used EXCEPT ![k] = IF call[k].stage = "ambient" THEN Ambient ELSE tokenFile[o]]
      /\ call' = [call EXCEPT ![k].stage = "connected"]
      /\ UNCHANGED <<consent, secret, restarts, stored, opened, tokenFile, emptied, saves, saved, floor,
                     shared, disturbed, damaged>>
  BY DEF Connect, AccountInv, Placed
<1>2. /\ call'[k].owner = o /\ call'[k].way = call[k].way /\ call'[k].token = call[k].token /\ call'[k].stage = "connected"
      /\ used'[k] = (IF call[k].stage = "ambient" THEN Ambient ELSE tokenFile[o]) /\ Others(k)
  BY <1>1 DEF AccountInv, AccountIsRight, ConnectionTypes, Others
<1>3. ConnectionTypes'
  BY <1>1 DEF AccountInv, AccountIsRight, ConnectionTypes, Holding, File
<1>4. Owned' /\ Placed' /\ Alone'
  BY <1>1, <1>2, ConnectionAssumption DEF AccountInv, Owned, Placed, Excused, Alone, Others, Holding, BelongsTo
<1>5. Newest'
  BY <1>1, <1>2 DEF AccountInv, Newest, Others, BelongsTo
<1>6. call[k].stage = "written" => /\ call[k].token \in Consents
                                   /\ k \notin shared => tokenFile[o] = call[k].token
  BY DEF AccountInv, Placed, Alone, Holding
<1>7. AccountIsOwners'
  <2> SUFFICES ASSUME NEW j \in Calls
               PROVE  \/ used'[j] = Nothing
                      \/ used'[j] = Ambient /\ Excused(j)'
                      \/ used'[j] = Torn /\ j \in shared
                      \/ used'[j] \in Consents /\ consent[used'[j]].owner = call'[j].owner
    BY <1>1 DEF AccountIsOwners, Excused
  <2>1. CASE j # k
    BY <1>1, <1>2, <2>1 DEF AccountInv, AccountIsRight, AccountIsOwners, Excused, Others
  <2>2. CASE j = k /\ call[k].stage = "ambient"
    BY <1>1, <1>2, <2>2 DEF AccountInv, Placed, Excused
  <2>3. CASE j = k /\ call[k].stage = "written"
    <3>1. used'[j] = tokenFile[o] /\ call'[j].owner = o
      BY <1>2, <2>3
    <3>2. tokenFile[o] \in Consents => consent[tokenFile[o]].owner = o
      BY <1>1 DEF AccountInv, Owned, BelongsTo
    <3>3. tokenFile[o] \in Consents \cup {Nothing, Torn}
      BY <1>1 DEF AccountInv, AccountIsRight, ConnectionTypes, File
    <3>4. tokenFile[o] = Torn => j \in shared
      BY <1>6, <2>3, ConnectionAssumption
    <3> QED
      BY <3>1, <3>2, <3>3, <3>4
  <2> QED
    BY <1>1, <2>1, <2>2, <2>3
<1>8. AccountIsFresh'
  <2> SUFFICES ASSUME NEW j \in Calls, used'[j] \in Consents, floor[j] \in Consents, j \notin shared
               PROVE  saved[used'[j]] >= saved[floor[j]]
    BY <1>1 DEF AccountIsFresh
  <2>1. CASE j # k
    BY <1>2, <2>1 DEF AccountInv, AccountIsRight, AccountIsFresh, Others
  <2>2. CASE j = k
    <3>1. used'[j] = call[k].token /\ call[k].token \in Consents
      BY <1>1, <1>2, <1>6, <2>2, ConnectionAssumption
    <3>2. saved[floor[k]] <= saved[call[k].token]
      BY <2>2, <3>1 DEF AccountInv, Newest
    <3>3. saved[floor[k]] \in Nat /\ saved[call[k].token] \in Nat
      BY <2>2, <3>1 DEF AccountInv, AccountIsRight, ConnectionTypes
    <3> QED
      BY <2>2, <3>1, <3>2, <3>3
  <2> QED
    BY <2>1, <2>2
<1>9. ConnectedIsStored'
  BY <1>1 DEF AccountInv, AccountIsRight, ConnectedIsStored
<1> QED
  BY <1>3, <1>4, <1>5, <1>7, <1>8, <1>9 DEF AccountInv, AccountIsRight

\* A restart ends what was under way and notes the records it left truncated.
LEMMA RestartInv == AccountInv /\ Restart => AccountInv'
<1> SUFFICES ASSUME AccountInv, Restart PROVE AccountInv'
  OBVIOUS
<1>1. /\ restarts' = restarts + 1 /\ secret' \in {secret, secret + 1}
      /\ consent' = [c \in Consents |-> IF consent[c].stage \in {"exchanged", "saving"}
                                          THEN [consent[c] EXCEPT !.stage = "failed"] ELSE consent[c]]
      /\ call' = [k \in Calls |-> IF call[k].stage \in Holding \cup {"begun", "ambient"}
                                    THEN [call[k] EXCEPT !.stage = "lost"] ELSE call[k]]
      /\ damaged' = damaged \cup {o \in Owners : stored[o] = Torn}
      /\ opened' = {} /\ emptied' = {}
      /\ UNCHANGED <<stored, tokenFile, saves, saved, used, floor, shared, disturbed>>
  BY DEF Restart
<1>2. \A c \in Consents :
        /\ consent'[c].owner = consent[c].owner
        /\ \/ consent'[c].stage = consent[c].stage
           \/ /\ consent[c].stage \in {"exchanged", "saving"}
              /\ consent'[c].stage = "failed"
  <2> SUFFICES ASSUME NEW c \in Consents
               PROVE  /\ consent'[c].owner = consent[c].owner
                      /\ \/ consent'[c].stage = consent[c].stage
                         \/ /\ consent[c].stage \in {"exchanged", "saving"}
                            /\ consent'[c].stage = "failed"
    OBVIOUS
  <2>1. CASE consent[c].stage \in {"exchanged", "saving"}
    <3>1. consent'[c] = [consent[c] EXCEPT !.stage = "failed"]
      BY <1>1, <2>1
    <3>2. consent[c] \in [stage : {"none", "asked", "exchanged", "saving", "connected", "failed"},
                          owner : Owners \cup {Nothing}, secret : Nat]
      BY DEF AccountInv, AccountIsRight, ConnectionTypes
    <3> QED
      BY <2>1, <3>1, <3>2
  <2>2. CASE consent[c].stage \notin {"exchanged", "saving"}
    BY <1>1, <2>2
  <2> QED
    BY <2>1, <2>2
<1>3. \A k \in Calls :
        /\ call'[k].owner = call[k].owner /\ call'[k].way = call[k].way /\ call'[k].token = call[k].token
        /\ \/ call'[k].stage = call[k].stage /\ call[k].stage \notin Holding \cup {"begun", "ambient"}
           \/ call[k].stage \in Holding \cup {"begun", "ambient"} /\ call'[k].stage = "lost"
  BY <1>1 DEF AccountInv, AccountIsRight, ConnectionTypes, Holding
<1>4. ConnectionTypes'
  <2>1. consent' \in [Consents -> [stage : {"none", "asked", "exchanged", "saving", "connected", "failed"},
                                  owner : Owners \cup {Nothing}, secret : Nat]]
    <3>1. \A c \in Consents : consent[c] \in [stage : {"none", "asked", "exchanged", "saving", "connected",
                                   "failed"}, owner : Owners \cup {Nothing}, secret : Nat]
      BY DEF AccountInv, AccountIsRight, ConnectionTypes
    <3> QED
      BY <1>1, <3>1
  <2>2. call' \in [Calls -> [stage : {"idle", "begun", "refused", "ambient", "connected", "lost"} \cup Holding,
                             way : {"none", "turn", "agreed"}, owner : Owners \cup {Nothing}, token : Consents \cup {Nothing, Ambient}]]
    <3>1. \A k \in Calls : call[k] \in [stage : {"idle", "begun", "refused", "ambient", "connected", "lost"}
                             \cup Holding, way : {"none", "turn", "agreed"}, owner : Owners \cup {Nothing}, token : Consents \cup {Nothing, Ambient}]
      BY DEF AccountInv, AccountIsRight, ConnectionTypes
    <3> QED
      BY <1>1, <3>1
  <2>3. secret' \in Nat /\ restarts' \in Nat /\ damaged' \subseteq Owners
    BY <1>1 DEF AccountInv, AccountIsRight, ConnectionTypes
  <2> QED
    BY <1>1, <2>1, <2>2, <2>3 DEF AccountInv, AccountIsRight, ConnectionTypes
<1>5. Owned' /\ Placed' /\ Alone'
  BY <1>1, <1>2, <1>3 DEF AccountInv, Owned, Placed, Excused, Alone, Holding, BelongsTo
<1>6. Newest'
  BY <1>1, <1>2, <1>3 DEF AccountInv, Newest, BelongsTo, Holding
<1>7. AccountIsOwners' /\ AccountIsFresh'
  BY <1>1, <1>2, <1>3 DEF AccountInv, AccountIsRight, AccountIsOwners, AccountIsFresh
<1>8. ConnectedIsStored'
  <2> SUFFICES ASSUME NEW c \in Consents, consent'[c].stage = "connected",
                      stored[consent[c].owner] \notin Consents
               PROVE  stored[consent[c].owner] = Torn /\ consent[c].owner \in damaged'
    BY <1>1, <1>2 DEF ConnectedIsStored
  <2>1. consent[c].stage = "connected" /\ consent[c].owner \in Owners
    BY <1>2 DEF AccountInv, Placed
  <2>2. stored[consent[c].owner] = Torn
    BY <2>1 DEF AccountInv, AccountIsRight, ConnectedIsStored
  <2> QED
    BY <1>1, <2>1, <2>2
<1> QED
  BY <1>4, <1>5, <1>6, <1>7, <1>8 DEF AccountInv, AccountIsRight

-----------------------------------------------------------------------------
\* Whatever owners connect, call and restart, in any order: a call works with an
\* account its owner connected, no older than the one on record when it began,
\* and who was told to be connected is (resolveDefaultIntegration,
\* resolveIntegrationTokenPath, completeGoogleOAuth); a call can find half a
\* token only through another call of the owner, and the bridge's own account only
\* if the record was damaged after it began, or it was agreed on before and began
\* without one.
THEOREM AccountsRight == ConnectionSpec => []AccountIsRight
<1>1. AccountInv /\ [ConnectionNext]_connectionVars => AccountInv'
  <2> SUFFICES ASSUME AccountInv, [ConnectionNext]_connectionVars PROVE AccountInv'
    OBVIOUS
  <2>1. CASE UNCHANGED connectionVars
    BY <2>1 DEF connectionVars, AccountInv, AccountIsRight, ConnectionTypes, AccountIsOwners, AccountIsFresh,
                ConnectedIsStored, Owned, Placed, Excused, Alone, Newest, BelongsTo, callVars
  <2> QED
    BY <2>1, ConsentInv, TruncateInv, SaveInv, EnterInv, ResolveInv, TokenInv, ConnectInv, RestartInv
    DEF ConnectionNext
<1>2. AccountInv => AccountIsRight
  BY DEF AccountInv
<1> QED
  BY AccountStarts, <1>1, <1>2, PTL DEF ConnectionSpec

-----------------------------------------------------------------------------
(***************************************************************************)
(* Contacts.                                                               *)
(***************************************************************************)

Contact ==
  [name : People, address : Addresses \cup {NoAddress}, aliases : SUBSET References,
   handle : {Peer, Nobody}]
Ops == {"none", "save", "remove", "invite", "refresh", "rename"}
EditRecord ==
  [op : Ops, stage : {"idle", "load", "truncate", "write"}, entry : {Nobody} \cup Contact,
   next : SUBSET Contact]
MailRecord ==
  [stage : {"idle", "shown", "unknown", "ambiguous", "done", "sent"}, id : {Nobody} \cup Ids,
   about : {Nobody} \cup References, to : Addresses \cup {NoAddress}]

Unique(entries) == \A c, d \in entries : c.name = d.name => c = d
Peers(entries) == {c \in entries : c.handle = Peer}
Names(entries) == {c.name : c \in entries}

BookTypes ==
  /\ book \in SUBSET Contact /\ torn \in SUBSET Edits
  /\ profile \in {Nobody} \cup [name : People, address : Addresses \cup {NoAddress}]
  /\ edit \in [Edits -> EditRecord] /\ doubled \in BOOLEAN
  /\ \A e \in Edits : edit[e].stage # "idle" => edit[e].op # "none" /\ edit[e].entry \in Contact

\* Every book there is, or is about to be, has one entry for a name.
OneEach == Unique(book) /\ \A e \in Edits : Unique(edit[e].next)

\* What an edit that meets no other has in hand.
Inviting(d) == d.stage # "idle" /\ d.op \in {"invite", "refresh", "rename"}
Bringing(d) == d.stage # "idle" /\ d.entry.handle = Peer
Settled == \A e \in Edits : ~Bringing(edit[e])
InHand(d) ==
  /\ d.op = "remove" => d.entry.handle = Nobody
  /\ Inviting(d) => d.entry.handle = Peer
  /\ Bringing(d) => d.entry.address = brought
  /\ d.stage = "load" => d.op # "rename"
  /\ d.op = "refresh" => doubled \/ \A c \in Peers(book) : c.name = d.entry.name
  /\ d.stage \in {"truncate", "write"} =>
       CASE d.op \in {"save", "refresh"} -> d.next = Without(book, d.entry.name) \cup {d.entry}
         [] d.op = "remove" -> d.next = Without(book, d.entry.name)
         [] d.op = "rename" -> d.next \subseteq book /\ (doubled \/ Peers(d.next) = {}) /\ kept \subseteq Names(d.next)
         [] OTHER -> FALSE

\* One entry of the peer, with its last address once no edit brings another one.
OnePeer == \A c, d \in Peers(book) : c = d
LastAddress == Settled => \A c \in Peers(book) : c.address = brought

BookAlone ==
  ~overlapped =>
    /\ \A e, f \in Busy : e = f
    /\ torn = {e \in Edits : edit[e].stage = "write"}
    /\ doubled \/ (OnePeer /\ LastAddress)
    /\ kept \subseteq Names(book)
    /\ \A e \in Busy : InHand(edit[e])

BookInv == BookTypes /\ OneEach /\ BookAlone

-----------------------------------------------------------------------------
LEMMA BookStarts == ContactInit => BookInv
<1> SUFFICES ASSUME ContactInit PROVE BookInv
  OBVIOUS
<1>1. NoEdit \in EditRecord /\ NoEdit.stage = "idle" /\ NoEdit.next = {}
  BY DEF NoEdit, EditRecord, Ops
<1>2. BookTypes
  BY <1>1 DEF ContactInit, BookTypes
<1>3. OneEach
  BY <1>1 DEF ContactInit, OneEach, Unique
<1>4. BookAlone
  BY <1>1 DEF ContactInit, BookAlone, OnePeer, LastAddress, Busy, Peers, Names
<1> QED
  BY <1>2, <1>3, <1>4 DEF BookInv

\* The contact that an edit is about is a contact.
LEMMA Beginning ==
  ASSUME BookInv, NEW e \in Edits, NEW op \in {"save", "remove", "invite"}, NEW entry \in Contact,
         Begin(e, op, entry),
         op = "invite" => entry.handle = Peer, op = "remove" => entry.handle = Nobody
  PROVE  BookInv'
<1> DEFINE new == [op |-> op, stage |-> "load", entry |-> entry, next |-> {}]
<1>1. /\ edit[e].stage = "idle" /\ edit' = [edit EXCEPT ![e] = new]
      /\ overlapped' = (overlapped \/ Busy # {})
      /\ brought' = IF entry.handle = Peer THEN entry.address ELSE brought
      /\ UNCHANGED <<book, torn, profile, kept, doubled>>
  BY DEF Begin
<1>2. /\ new \in EditRecord /\ new.stage = "load" /\ new.op = op /\ new.entry = entry /\ new.next = {}
  BY DEF EditRecord, Ops
<1> HIDE DEF new
<1>3. /\ edit \in [Edits -> EditRecord] /\ edit'[e] = new
      /\ \A f \in Edits \ {e} : edit'[f] = edit[f]
  BY <1>1 DEF BookInv, BookTypes
<1>4. BookTypes'
  BY <1>1, <1>2, <1>3 DEF BookInv, BookTypes
<1>5. OneEach'
  BY <1>1, <1>2, <1>3 DEF BookInv, OneEach, Unique
<1>6. ASSUME ~overlapped' PROVE Busy = {} /\ Busy' = {e} /\ \A f \in Edits \ {e} : edit[f].stage \notin {"load", "truncate", "write"}
  BY <1>1, <1>2, <1>3, <1>6 DEF Busy
<1>7. ASSUME ~overlapped' PROVE (InHand(edit[e]))'
  BY <1>1, <1>2, <1>3 DEF InHand, Inviting, Bringing, Peers
<1>8. ASSUME ~overlapped' PROVE torn' = {f \in Edits : edit'[f].stage = "write"}
  BY <1>1, <1>2, <1>3, <1>8 DEF BookInv, BookAlone
<1>9. ASSUME ~overlapped', ~doubled PROVE OnePeer' /\ LastAddress'
  <2>1. OnePeer /\ LastAddress
    BY <1>1, <1>9 DEF BookInv, BookAlone
  <2>2. OnePeer'
    BY <1>1, <2>1 DEF OnePeer, Peers
  <2>3. ASSUME Settled' PROVE Settled /\ brought' = brought
    <3>1. entry.handle # Peer
      BY <1>2, <1>3, <2>3 DEF Settled, Bringing
    <3>2. Settled
      BY <1>1, <1>3, <2>3 DEF Settled, Bringing
    <3> QED
      BY <1>1, <3>1, <3>2
  <2> QED
    BY <1>1, <2>1, <2>2, <2>3 DEF LastAddress, Peers
<1>10. BookAlone'
  BY <1>1, <1>6, <1>7, <1>8, <1>9 DEF BookInv, BookTypes, BookAlone, Names
<1> QED
  BY <1>4, <1>5, <1>10 DEF BookInv

\* The other edits when one is under way alone.
LEMMA OnlyOne ==
  ASSUME BookInv, ~overlapped, NEW e \in Busy
  PROVE  /\ \A f \in Edits \ {e} : f \notin Busy /\ edit[f].stage = "idle"
         /\ (Settled <=> ~Bringing(edit[e])) /\ InHand(edit[e])
<1>1. e \in Edits /\ \A f \in Edits : edit[f] \in EditRecord
  BY DEF Busy, BookInv, BookTypes
<1>2. \A f \in Edits \ {e} : f \notin Busy
  BY DEF BookInv, BookAlone
<1>3. \A f \in Edits \ {e} : edit[f].stage = "idle"
  BY <1>1, <1>2 DEF Busy, EditRecord
<1> QED
  BY <1>1, <1>2, <1>3 DEF Settled, Bringing, BookInv, BookAlone

\* An edit's record after a step of its own, while nobody else moves.
LEMMA Moved ==
  ASSUME BookTypes, NEW e \in Edits, NEW d \in EditRecord, edit' = [edit EXCEPT ![e] = d]
  PROVE  /\ edit' \in [Edits -> EditRecord] /\ edit'[e] = d
         /\ \A f \in Edits \ {e} : edit'[f] = edit[f]
BY DEF BookTypes

\* An entry taken out, and one put in its place.
LEMMA Replacing ==
  ASSUME NEW entries \in SUBSET Contact, NEW entry \in Contact, Unique(entries)
  PROVE  /\ Without(entries, entry.name) \in SUBSET Contact
         /\ Without(entries, entry.name) \cup {entry} \in SUBSET Contact
         /\ Unique(Without(entries, entry.name)) /\ Unique(Without(entries, entry.name) \cup {entry})
BY DEF Without, Unique

\* What is read is the book, or nothing.
LEMMA Reading ==
  ASSUME BookInv
  PROVE  Loaded \in SUBSET Contact /\ Unique(Loaded) /\ Loaded \subseteq book
BY DEF BookInv, BookTypes, OneEach, Loaded, Unique

LEMMA TruncateKeeps ==
  ASSUME BookInv, NEW e \in Edits, TruncateBook(e)
  PROVE  BookInv'
<1>1. /\ edit[e].stage = "truncate" /\ edit' = [edit EXCEPT ![e].stage = "write"] /\ torn' = torn \cup {e}
      /\ UNCHANGED <<book, profile, kept, overlapped, brought, doubled>>
  BY DEF TruncateBook
<1>2. edit[e] \in EditRecord /\ edit[e].op # "none" /\ edit[e].entry \in Contact
  BY <1>1 DEF BookInv, BookTypes
<1>3. PICK d : d = [edit[e] EXCEPT !.stage = "write"]
  OBVIOUS
<1>4. /\ d \in EditRecord /\ d.stage = "write" /\ d.op = edit[e].op /\ d.entry = edit[e].entry
      /\ d.next = edit[e].next
  BY <1>2, <1>3 DEF EditRecord
<1>5. edit' = [edit EXCEPT ![e] = d]
  BY <1>1, <1>3
<1>6. /\ edit' \in [Edits -> EditRecord] /\ edit'[e] = d /\ \A f \in Edits \ {e} : edit'[f] = edit[f]
  BY <1>4, <1>5, Moved DEF BookInv
<1>7. BookTypes'
  BY <1>1, <1>2, <1>4, <1>6 DEF BookInv, BookTypes
<1>8. OneEach'
  BY <1>1, <1>4, <1>6 DEF BookInv, OneEach, Unique
<1>9. ASSUME ~overlapped PROVE BookAlone'
  <2>1. e \in Busy
    BY <1>1 DEF Busy
  <2>2. /\ \A f \in Edits \ {e} : f \notin Busy /\ edit[f].stage = "idle"
        /\ (Settled <=> ~Bringing(edit[e])) /\ InHand(edit[e])
    BY <1>9, <2>1, OnlyOne
  <2>3. Busy' = {e}
    BY <1>4, <1>6, <2>2 DEF Busy
  <2>4. torn' = {f \in Edits : edit'[f].stage = "write"}
    BY <1>1, <1>4, <1>6, <1>9 DEF BookInv, BookAlone
  <2>5. (InHand(edit[e]))'
    BY <1>1, <1>4, <1>6, <2>2 DEF InHand, Inviting, Bringing, Peers, Names
  <2>6. Settled' => Settled
    BY <1>1, <1>4, <1>6, <2>2 DEF Settled, Bringing
  <2> QED
    BY <1>1, <1>9, <2>3, <2>4, <2>5, <2>6 DEF BookInv, BookAlone, OnePeer, LastAddress, Peers, Names
<1> QED
  BY <1>1, <1>7, <1>8, <1>9 DEF BookInv, BookAlone

LEMMA WriteKeeps ==
  ASSUME BookInv, NEW e \in Edits, Write(e)
  PROVE  BookInv'
<1> DEFINE d == edit[e]
<1>1. /\ d.stage = "write" /\ torn' = {} /\ UNCHANGED <<profile, overlapped, brought>>
      /\ book' \in IF e \in torn THEN {d.next} ELSE {d.next, {}}
      /\ kept' = CASE d.op = "save" -> kept \cup {d.entry.name}
                   [] d.op \in {"remove", "refresh"} -> kept \ {d.entry.name}
                   [] OTHER -> kept
      /\ doubled' = IF d.op \in {"save", "refresh"} /\ d.entry.handle = Peer
                       THEN /\ d.op = "save" \/ doubled
                            /\ \E c \in book' : c.handle = Peer /\ c # d.entry
                       ELSE doubled
  BY DEF Write
<1>2. d \in EditRecord /\ d.op # "none" /\ d.entry \in Contact
  BY <1>1 DEF BookInv, BookTypes
<1>3. PICK new \in EditRecord :
        /\ edit' = [edit EXCEPT ![e] = new]
        /\ \/ d.op # "rename" /\ new.stage = "idle" /\ new.next = {}
           \/ /\ d.op = "rename" /\ new.op = "refresh" /\ new.stage = "load"
              /\ new.entry = d.entry /\ new.next = d.next
  <2>1. CASE d.op # "rename"
    <3>1. edit' = [edit EXCEPT ![e] = NoEdit]
      BY <2>1 DEF Write
    <3>2. NoEdit \in EditRecord /\ NoEdit.stage = "idle" /\ NoEdit.next = {}
      BY DEF NoEdit, EditRecord, Ops
    <3> QED
      BY <2>1, <3>1, <3>2
  <2>2. CASE d.op = "rename"
    <3>1. PICK h : h = [d EXCEPT !.op = "refresh"]
      OBVIOUS
    <3>2. PICK new : new = [h EXCEPT !.stage = "load"]
      OBVIOUS
    <3>3. edit' = [edit EXCEPT ![e] = new]
      BY <2>2, <3>1, <3>2 DEF Write
    <3>4. h \in EditRecord /\ h.op = "refresh" /\ h.entry = d.entry /\ h.next = d.next
      BY <1>2, <3>1 DEF EditRecord, Ops
    <3>5. new \in EditRecord /\ new.op = h.op /\ new.stage = "load" /\ new.entry = h.entry /\ new.next = h.next
      BY <3>2, <3>4 DEF EditRecord
    <3> QED
      BY <2>2, <3>3, <3>4, <3>5
  <2> QED
    BY <2>1, <2>2
<1>4. /\ edit' \in [Edits -> EditRecord] /\ edit'[e] = new /\ \A f \in Edits \ {e} : edit'[f] = edit[f]
  BY <1>3, Moved DEF BookInv
<1>5. d.next \in SUBSET Contact /\ Unique(d.next)
  BY <1>2 DEF EditRecord, BookInv, OneEach
<1>6. BookTypes'
  BY <1>1, <1>2, <1>3, <1>4, <1>5 DEF BookInv, BookTypes
<1>7. OneEach'
  BY <1>1, <1>3, <1>4, <1>5 DEF BookInv, OneEach, Unique
<1>8. ASSUME ~overlapped PROVE BookAlone'
  <2>1. e \in Busy
    BY <1>1 DEF Busy
  <2>2. /\ \A f \in Edits \ {e} : f \notin Busy /\ edit[f].stage = "idle"
        /\ (Settled <=> ~Bringing(edit[e])) /\ InHand(edit[e])
    BY <1>8, <2>1, OnlyOne
  <2>3. e \in torn /\ book' = d.next
    BY <1>1, <1>8 DEF BookInv, BookAlone
  <2>4. Busy' \subseteq {e} /\ torn' = {f \in Edits : edit'[f].stage = "write"}
    BY <1>1, <1>3, <1>4, <2>2 DEF Busy
  <2>5. /\ doubled \/ \A x, y \in Peers(book) : x = y
        /\ kept \subseteq Names(book)
        /\ ~Bringing(d) => doubled \/ \A c \in Peers(book) : c.address = brought
    BY <1>8, <2>2 DEF BookInv, BookAlone, OnePeer, LastAddress
  <2>6. CASE d.op = "rename"
    <3>1. /\ doubled \/ Peers(d.next) = {}
          /\ kept \subseteq Names(d.next) /\ d.entry.handle = Peer /\ d.entry.address = brought
      BY <1>1, <2>2, <2>6 DEF InHand, Inviting, Bringing
    <3>2. /\ kept' = kept /\ doubled' = doubled /\ (doubled \/ Peers(book') = {})
          /\ Names(book') = Names(d.next)
      BY <1>1, <2>3, <2>6, <3>1
    <3>3. (InHand(edit[e]))'
      BY <1>1, <1>3, <1>4, <2>6, <3>1, <3>2 DEF InHand, Inviting, Bringing, Peers
    <3>4. /\ doubled' \/ \A x, y \in Peers(book') : x = y
          /\ doubled' \/ \A c \in Peers(book') : c.address = brought'
          /\ kept' \subseteq Names(book')
      BY <3>1, <3>2
    <3> QED
      BY <1>1, <2>4, <3>3, <3>4 DEF BookAlone, OnePeer, LastAddress, Peers, Names
  <2>7. CASE d.op # "rename"
    <3>1. Busy' = {} /\ d.op \in {"save", "remove", "invite", "refresh"}
      BY <1>2, <1>3, <1>4, <2>4, <2>7 DEF Busy, EditRecord, Ops
    <3>2. /\ d.op \in {"save", "refresh"} => book' = Without(book, d.entry.name) \cup {d.entry}
          /\ d.op = "remove" => book' = Without(book, d.entry.name)
          /\ d.op # "invite"
      BY <1>1, <2>2, <2>3, <3>1 DEF InHand
    <3>3. kept' \subseteq Names(book')
      BY <1>1, <2>5, <3>1, <3>2 DEF Names, Without
    <3>4. CASE d.op \in {"save", "refresh"} /\ d.entry.handle = Peer
      <4>1. d.entry.address = brought
        BY <1>1, <2>2, <3>4 DEF InHand, Bringing
      <4>2. doubled' \/ Peers(book') = {d.entry}
        <5>1. ASSUME ~doubled' PROVE ~\E c \in book' : c.handle = Peer /\ c # d.entry
          <6>1. CASE d.op = "save" \/ doubled
            BY <1>1, <3>4, <5>1, <6>1
          <6>2. CASE d.op = "refresh" /\ ~doubled
            <7>1. \A c \in Peers(book) : c.name = d.entry.name
              BY <2>2, <6>2 DEF InHand
            <7> QED
              BY <3>2, <6>2, <7>1 DEF Peers, Without
          <6> QED
            BY <3>4, <6>1, <6>2
        <5> QED
          BY <3>2, <3>4, <5>1 DEF Peers
      <4> QED
        BY <1>1, <2>4, <3>1, <3>3, <4>1, <4>2 DEF BookAlone, OnePeer, LastAddress, Peers, Names
    <3>5. CASE ~(d.op \in {"save", "refresh"} /\ d.entry.handle = Peer)
      <4>1. d.entry.handle = Nobody /\ d.op \in {"save", "remove"} /\ doubled' = doubled
        BY <1>1, <1>2, <2>2, <3>1, <3>2, <3>5 DEF InHand, Inviting, Contact
      <4>2. Peers(book') \subseteq Peers(book)
        BY <3>2, <4>1, ContactAssumption DEF Peers, Without
      <4>3. ~Bringing(d)
        BY <4>1, ContactAssumption DEF Bringing
      <4>4. doubled' \/ \A x, y \in Peers(book') : x = y
        BY <2>5, <4>1, <4>2
      <4>5. brought' = brought
        BY <1>1
      <4>6. doubled \/ \A c \in Peers(book) : c.address = brought
        BY <2>5, <4>3
      <4>7. doubled' \/ \A c \in Peers(book') : c.address = brought'
        BY <4>1, <4>2, <4>5, <4>6
      <4> QED
        BY <1>1, <2>4, <3>1, <3>3, <4>4, <4>7 DEF BookAlone, OnePeer, LastAddress, Names, Peers
    <3> QED
      BY <3>4, <3>5
  <2> QED
    BY <2>6, <2>7
<1> QED
  BY <1>1, <1>7, <1>8, <1>6 DEF BookInv, BookAlone

\* What a loading leaves in the hands of an edit.
LEMMA LoadKeeps ==
  ASSUME BookInv, NEW e \in Edits, Load(e)
  PROVE  BookInv'
<1> DEFINE d == edit[e]
           entry == d.entry
           found == Match(Loaded, entry)
<1>1. /\ d.stage = "load" /\ UNCHANGED <<book, torn, profile, overlapped, brought, doubled>>
      /\ d \in EditRecord /\ d.op # "none" /\ entry \in Contact
  BY DEF Load, BookInv, BookTypes
<1>2. Loaded \in SUBSET Contact /\ Unique(Loaded) /\ Loaded \subseteq book
  BY Reading
<1>3. \A name \in People : Without(Loaded, name) \in SUBSET Contact /\ Unique(Without(Loaded, name))
  BY <1>2 DEF Without, Unique
<1>4. entry.name \in People
  BY <1>1 DEF Contact
\* Whatever the case, the record that takes the place of d.
<1>5. PICK new \in EditRecord :
        /\ edit' = [edit EXCEPT ![e] = new]
        /\ \/ /\ d.op \in {"save", "refresh"} /\ new.op = d.op /\ new.stage = "truncate" /\ new.entry = entry
              /\ new.next = Without(Loaded, entry.name) \cup {entry}
           \/ /\ d.op = "remove" /\ new.op = d.op /\ new.stage = "truncate" /\ new.entry = entry
              /\ new.next = Without(Loaded, entry.name)
           \/ /\ d.op = "invite" /\ new.op = "refresh" /\ new.stage = "load" /\ new.next = d.next
              /\ \/ found = {} /\ new.entry = entry
                 \/ /\ \E match \in found : match.name = entry.name
                    /\ new.entry \in Contact
                    /\ new.entry.name = entry.name /\ new.entry.address = entry.address
                    /\ new.entry.handle = entry.handle
           \/ /\ d.op = "invite" /\ new.op = "rename" /\ new.stage = "truncate"
              /\ \E match \in found : match.name # entry.name /\ new.next = Without(Loaded, match.name)
              /\ new.entry \in Contact
              /\ new.entry.name = entry.name /\ new.entry.address = entry.address
              /\ new.entry.handle = entry.handle
  <2>1. ASSUME NEW next \in SUBSET Contact,
               edit' = [edit EXCEPT ![e] = [[d EXCEPT !.stage = "truncate"] EXCEPT !.next = next]]
        PROVE  \E new \in EditRecord :
                 /\ edit' = [edit EXCEPT ![e] = new]
                 /\ new.op = d.op /\ new.stage = "truncate" /\ new.entry = entry /\ new.next = next
    <3>1. PICK h : h = [d EXCEPT !.stage = "truncate"]
      OBVIOUS
    <3>2. PICK new : new = [h EXCEPT !.next = next]
      OBVIOUS
    <3>3. h \in EditRecord /\ h.op = d.op /\ h.entry = entry /\ h.stage = "truncate"
      BY <1>1, <3>1 DEF EditRecord
    <3>4. new \in EditRecord /\ new.op = h.op /\ new.entry = h.entry /\ new.stage = h.stage /\ new.next = next
      BY <3>2, <3>3, next \in SUBSET Contact DEF EditRecord
    <3>5. edit' = [edit EXCEPT ![e] = new]
      BY <2>1, <3>1, <3>2
    <3> QED
      BY <3>3, <3>4, <3>5
  <2>2. CASE d.op \in {"save", "refresh"}
    <3>1. PICK next \in SUBSET Contact : next = Without(Loaded, entry.name) \cup {entry}
      BY <1>1, <1>3, <1>4
    <3>2. edit' = [edit EXCEPT ![e] = [[d EXCEPT !.stage = "truncate"] EXCEPT !.next = next]]
      BY <2>2, <3>1 DEF Load
    <3> QED
      BY <2>1, <2>2, <3>1, <3>2
  <2>3. CASE d.op = "remove"
    <3>1. PICK next \in SUBSET Contact : next = Without(Loaded, entry.name)
      BY <1>3, <1>4
    <3>2. edit' = [edit EXCEPT ![e] = [[d EXCEPT !.stage = "truncate"] EXCEPT !.next = next]]
      BY <2>3, <3>1 DEF Load
    <3> QED
      BY <2>1, <2>3, <3>1, <3>2
  <2>4. ASSUME d.op = "invite", found = {}, edit' = [edit EXCEPT ![e].op = "refresh"]
        PROVE  \E new \in EditRecord :
                 /\ edit' = [edit EXCEPT ![e] = new]
                 /\ new.op = "refresh" /\ new.stage = "load" /\ new.next = d.next /\ new.entry = entry
    <3>1. PICK new : new = [d EXCEPT !.op = "refresh"]
      OBVIOUS
    <3>2. new \in EditRecord /\ new.op = "refresh" /\ new.stage = "load" /\ new.next = d.next /\ new.entry = entry
      BY <1>1, <3>1 DEF EditRecord, Ops
    <3> QED
      BY <2>4, <3>1, <3>2
  <2>5. ASSUME d.op = "invite", NEW match \in found,
               edit' = [edit EXCEPT ![e] =
                   IF match.name = entry.name
                     THEN [@ EXCEPT !.op = "refresh", !.entry = Refresh(entry, match)]
                     ELSE [[d EXCEPT !.stage = "truncate"] EXCEPT !.op = "rename", !.entry = Refresh(entry, match),
                                       !.next = Without(Loaded, match.name)]]
        PROVE  \E new \in EditRecord :
                 /\ edit' = [edit EXCEPT ![e] = new]
                 /\ new.entry \in Contact
                 /\ new.entry.name = entry.name /\ new.entry.address = entry.address
                 /\ new.entry.handle = entry.handle
                 /\ \/ match.name = entry.name /\ new.op = "refresh" /\ new.stage = "load" /\ new.next = d.next
                    \/ /\ match.name # entry.name /\ new.op = "rename" /\ new.stage = "truncate"
                       /\ new.next = Without(Loaded, match.name)
    <3>1. match \in Contact /\ match.name \in People
      BY <1>2 DEF Match, Contact
    <3>2. PICK fresh : fresh = Refresh(entry, match)
      OBVIOUS
    <3>3. /\ fresh \in Contact /\ fresh.name = entry.name /\ fresh.address = entry.address
          /\ fresh.handle = entry.handle
      BY <1>1, <3>1, <3>2 DEF Contact, Refresh
    <3>4. CASE match.name = entry.name
      <4>1. PICK h : h = [d EXCEPT !.op = "refresh"]
        OBVIOUS
      <4>2. PICK new : new = [h EXCEPT !.entry = fresh]
        OBVIOUS
      <4>3. h \in EditRecord /\ h.op = "refresh" /\ h.stage = "load" /\ h.next = d.next
        BY <1>1, <4>1 DEF EditRecord, Ops
      <4>4. new \in EditRecord /\ new.op = h.op /\ new.stage = h.stage /\ new.next = h.next /\ new.entry = fresh
        BY <3>3, <4>2, <4>3 DEF EditRecord
      <4>5. edit' = [edit EXCEPT ![e] = new]
        BY <2>5, <3>2, <3>4, <4>1, <4>2
      <4> QED
        BY <3>3, <3>4, <4>3, <4>4, <4>5
    <3>5. CASE match.name # entry.name
      <4>1. PICK next \in SUBSET Contact : next = Without(Loaded, match.name)
        BY <1>3, <3>1
      <4>2. PICK g : g = [d EXCEPT !.stage = "truncate"]
        OBVIOUS
      <4>3. PICK h : h = [g EXCEPT !.op = "rename"]
        OBVIOUS
      <4>4. PICK i : i = [h EXCEPT !.entry = fresh]
        OBVIOUS
      <4>5. PICK new : new = [i EXCEPT !.next = next]
        OBVIOUS
      <4>6. g \in EditRecord /\ g.stage = "truncate"
        BY <1>1, <4>2 DEF EditRecord
      <4>7. h \in EditRecord /\ h.op = "rename" /\ h.stage = g.stage
        BY <4>3, <4>6 DEF EditRecord, Ops
      <4>8. i \in EditRecord /\ i.op = h.op /\ i.stage = h.stage /\ i.entry = fresh
        BY <3>3, <4>4, <4>7 DEF EditRecord
      <4>9. new \in EditRecord /\ new.op = i.op /\ new.stage = i.stage /\ new.entry = i.entry /\ new.next = next
        BY <4>5, <4>8, next \in SUBSET Contact DEF EditRecord
      <4>10. edit' = [edit EXCEPT ![e] = new]
        BY <2>5, <3>2, <3>5, <4>1, <4>2, <4>3, <4>4, <4>5
      <4> QED
        BY <3>3, <3>5, <4>1, <4>6, <4>7, <4>8, <4>9, <4>10
    <3> QED
      BY <3>4, <3>5
  <2>6. CASE d.op = "invite"
    <3>1. \/ found = {} /\ edit' = [edit EXCEPT ![e].op = "refresh"]
          \/ \E match \in found :
               edit' = [edit EXCEPT ![e] =
                   IF match.name = entry.name
                     THEN [@ EXCEPT !.op = "refresh", !.entry = Refresh(entry, match)]
                     ELSE [[d EXCEPT !.stage = "truncate"] EXCEPT !.op = "rename", !.entry = Refresh(entry, match),
                                       !.next = Without(Loaded, match.name)]]
      BY <2>6 DEF Load
    <3>2. CASE found = {} /\ edit' = [edit EXCEPT ![e].op = "refresh"]
      BY <2>4, <2>6, <3>2
    <3>3. CASE ~(found = {} /\ edit' = [edit EXCEPT ![e].op = "refresh"])
      <4>1. PICK match \in found :
               edit' = [edit EXCEPT ![e] =
                   IF match.name = entry.name
                     THEN [@ EXCEPT !.op = "refresh", !.entry = Refresh(entry, match)]
                     ELSE [[d EXCEPT !.stage = "truncate"] EXCEPT !.op = "rename", !.entry = Refresh(entry, match),
                                       !.next = Without(Loaded, match.name)]]
        BY <3>1, <3>3
      <4>2. PICK new \in EditRecord :
                 /\ edit' = [edit EXCEPT ![e] = new]
                 /\ new.entry \in Contact
                 /\ new.entry.name = entry.name /\ new.entry.address = entry.address
                 /\ new.entry.handle = entry.handle
                 /\ \/ match.name = entry.name /\ new.op = "refresh" /\ new.stage = "load" /\ new.next = d.next
                    \/ /\ match.name # entry.name /\ new.op = "rename" /\ new.stage = "truncate"
                       /\ new.next = Without(Loaded, match.name)
        BY <2>5, <2>6, <4>1
      <4> QED
        BY <2>6, <4>2
    <3> QED
      BY <3>2, <3>3
  <2> QED
    BY <1>1, <2>2, <2>3, <2>6 DEF Load
<1>6. /\ edit' \in [Edits -> EditRecord] /\ edit'[e] = new /\ \A f \in Edits \ {e} : edit'[f] = edit[f]
  BY <1>5, Moved DEF BookInv
<1>7. BookTypes'
  BY <1>1, <1>5, <1>6 DEF BookInv, BookTypes
<1>8. OneEach'
  <2>1. Unique(d.next) /\ \A name \in People : Unique(Without(Loaded, name))
    BY <1>3 DEF BookInv, OneEach
  <2>2. Unique(Without(Loaded, entry.name) \cup {entry})
    BY <1>1, <1>2, Replacing
  <2>3. \A match \in found : match.name \in People
    BY <1>2 DEF Match, Contact
  <2>4. Unique(new.next)
    BY <1>4, <1>5, <2>1, <2>2, <2>3
  <2> QED
    BY <1>1, <1>6, <2>4 DEF BookInv, OneEach, Unique
<1>9. ASSUME ~overlapped PROVE BookAlone'
  <2>1. e \in Busy
    BY <1>1 DEF Busy
  <2>2. /\ \A f \in Edits \ {e} : f \notin Busy /\ edit[f].stage = "idle"
        /\ (Settled <=> ~Bringing(d)) /\ InHand(d)
    BY <1>9, <2>1, OnlyOne
  <2>3. torn = {} /\ Loaded = book
    BY <1>1, <1>9, <2>2 DEF BookInv, BookAlone, Loaded
  <2>4. /\ doubled \/ \A x, y \in Peers(book) : x = y
        /\ kept \subseteq Names(book)
        /\ ~Bringing(d) => doubled \/ \A c \in Peers(book) : c.address = brought
    BY <1>9, <2>2 DEF BookInv, BookAlone, OnePeer, LastAddress
  <2>5. Busy' = {e} /\ torn' = {f \in Edits : edit'[f].stage = "write"}
    BY <1>1, <1>5, <1>6, <2>2, <2>3 DEF Busy
  <2>6. Settled' => ~Bringing(new)
    BY <1>6 DEF Settled, Bringing
  <2>7. (Bringing(d) <=> Bringing(new)) /\ (Inviting(d) <=> Inviting(new))
    BY <1>1, <1>5 DEF Bringing, Inviting
  <2>8. /\ Inviting(d) => entry.handle = Peer
        /\ Bringing(d) => entry.address = brought
    BY <2>2 DEF InHand
  <2>9. /\ kept' = IF d.op = "invite" /\ new.op = "rename"
                     THEN kept \ {c.name : c \in book \ new.next} ELSE kept
    BY <1>6, <2>3 DEF Load
  <2>10. doubled \/ (OnePeer' /\ LastAddress')
    BY <1>1, <2>4, <2>6, <2>7 DEF OnePeer, LastAddress, Peers
  <2>11. CASE d.op \in {"save", "refresh", "remove"}
    <3>1. kept' = kept /\ new.op = d.op /\ new.stage = "truncate" /\ new.entry = entry
      BY <1>5, <2>9, <2>11
    <3>2. (InHand(edit[e]))'
      BY <1>1, <1>5, <1>6, <2>2, <2>3, <2>11, <3>1 DEF InHand, Inviting, Bringing, Peers
    <3> QED
      BY <1>1, <2>4, <2>5, <2>10, <3>1, <3>2 DEF BookAlone, Names
  <2>12. CASE d.op = "invite" /\ new.op = "refresh"
    <3>1. kept' = kept /\ new.stage = "load" /\ new.entry.handle = Peer /\ new.entry.address = brought
          /\ new.entry.name = entry.name
      BY <1>1, <1>5, <2>8, <2>9, <2>12 DEF Inviting, Bringing
    <3>2. doubled \/ \A c \in Peers(book) : c.name = entry.name
      <4>1. found = IF {c \in book : c.handle = Peer} # {} THEN {c \in book : c.handle = Peer}
                    ELSE {c \in book : c.name = entry.name}
        BY <1>1, <2>3, <2>8, <2>12 DEF Match, Inviting
      <4>2. found = {} \/ \E match \in found : match.name = entry.name
        BY <1>5, <2>12
      <4> QED
        BY <2>4, <4>1, <4>2 DEF Peers
    <3>3. (InHand(edit[e]))'
      BY <1>1, <1>6, <2>12, <3>1, <3>2 DEF InHand, Inviting, Bringing, Peers
    <3> QED
      BY <1>1, <2>4, <2>5, <2>10, <3>1, <3>3 DEF BookAlone, Names
  <2>13. CASE d.op = "invite" /\ new.op = "rename"
    <3>1. new.stage = "truncate" /\ new.entry.handle = Peer /\ new.entry.address = brought
      BY <1>1, <1>5, <2>8, <2>13 DEF Inviting, Bringing
    <3>2. PICK match \in found : match.name # entry.name /\ new.next = Without(book, match.name)
      BY <1>5, <2>3, <2>13
    <3>3. match \in book
      BY <2>3, <3>2 DEF Match
    <3>4. kept' = kept \ {match.name}
      BY <2>9, <2>13, <3>2, <3>3 DEF Without
    <3>5. doubled \/ Peers(book) \subseteq {match}
      BY <1>1, <2>3, <2>4, <2>8, <2>13, <3>2 DEF Match, Inviting, Peers
    <3>6. new.next \subseteq book /\ (doubled \/ Peers(new.next) = {}) /\ kept' \subseteq Names(new.next)
      BY <2>4, <3>2, <3>4, <3>5 DEF Without, Peers, Names
    <3>7. (InHand(edit[e]))'
      BY <1>1, <1>6, <2>13, <3>1, <3>6 DEF InHand, Inviting, Bringing, Peers, Names
    <3>8. kept' \subseteq Names(book')
      BY <1>1, <2>4, <3>4
    <3> QED
      BY <1>1, <2>5, <2>10, <3>7, <3>8 DEF BookAlone, Names
  <2> QED
    BY <1>5, <2>11, <2>12, <2>13
<1> QED
  BY <1>1, <1>7, <1>8, <1>9 DEF BookInv, BookAlone

\* What is read after a stop is the book, or nothing.
LEMMA StopKeeps ==
  ASSUME BookInv, CutOff
  PROVE  BookInv'
<1>1. overlapped' /\ book' = Loaded /\ torn' = {} /\ edit' = [e \in Edits |-> NoEdit]
      /\ UNCHANGED <<profile, doubled>>
  BY DEF CutOff
<1>2. NoEdit \in EditRecord /\ NoEdit.stage = "idle" /\ NoEdit.next = {}
  BY DEF NoEdit, EditRecord, Ops
<1>3. Loaded \in SUBSET Contact /\ Unique(Loaded)
  BY Reading
<1>4. BookTypes' /\ OneEach'
  BY <1>1, <1>2, <1>3 DEF BookInv, BookTypes, OneEach, Unique
<1> QED
  BY <1>1, <1>4 DEF BookInv, BookAlone

\* Nothing else changes the book or who is about to.
LEMMA BookStays ==
  ASSUME BookInv, UNCHANGED <<book, torn, edit, kept, overlapped, brought, doubled>>,
         profile' \in {Nobody} \cup [name : People, address : Addresses \cup {NoAddress}]
  PROVE  BookInv'
<1>1. BookTypes' /\ OneEach'
  BY DEF BookInv, BookTypes, OneEach, Unique
<1>2. BookAlone'
  BY DEF BookInv, BookAlone, OnePeer, LastAddress, InHand, Inviting, Bringing, Settled, Busy, Peers, Names
<1> QED
  BY <1>1, <1>2 DEF BookInv

LEMMA BookStep == BookInv /\ [ContactNext]_contactVars => BookInv'
<1> SUFFICES ASSUME BookInv, [ContactNext]_contactVars PROVE BookInv'
  OBVIOUS
<1>1. ASSUME NEW e \in Edits, NEW name \in People, NEW address \in Addresses, NEW aliases \in {{}, {Nick}},
             NEW handle \in {Nobody, Peer}, SaveContact(e, name, address, aliases, handle)
      PROVE  BookInv'
  <2>1. PICK entry : entry = Entry(name, address, aliases, handle)
    OBVIOUS
  <2>2. entry \in Contact
    BY <2>1 DEF Entry, Contact, References
  <2>3. Begin(e, "save", entry)
    BY <1>1, <2>1 DEF SaveContact
  <2> QED
    BY <2>2, <2>3, Beginning
<1>2. ASSUME NEW e \in Edits, NEW name \in People, RemoveContact(e, name)
      PROVE  BookInv'
  <2>1. PICK entry : entry = Entry(name, NoAddress, {}, Nobody)
    OBVIOUS
  <2>2. entry \in Contact /\ entry.handle = Nobody
    BY <2>1 DEF Entry, Contact
  <2>3. Begin(e, "remove", entry)
    BY <1>2, <2>1 DEF RemoveContact
  <2> QED
    BY <2>2, <2>3, Beginning
<1>3. ASSUME NEW e \in Edits, Invite(e)
      PROVE  BookInv'
  <2>1. PICK entry : entry = FromPeer(profile)
    OBVIOUS
  <2>2. profile \in [name : People, address : Addresses \cup {NoAddress}]
    BY <1>3 DEF Invite, BookInv, BookTypes
  <2>3. entry \in Contact /\ entry.handle = Peer
    BY <2>1, <2>2 DEF FromPeer, Entry, Contact, References
  <2>4. Begin(e, "invite", entry)
    BY <1>3, <2>1 DEF Invite
  <2> QED
    BY <2>3, <2>4, Beginning
<1>4. ASSUME NEW name \in People, NEW address \in Addresses \cup {NoAddress},
             SaveProfile([name |-> name, address |-> address])
      PROVE  BookInv'
  BY <1>4, BookStays DEF SaveProfile
<1>5. ASSUME NEW m \in Mails, NEW id \in Ids \cup {Nobody}, NEW about \in References, Propose(m, id, about)
      PROVE  BookInv'
  BY <1>5, BookStays DEF Propose, BookInv, BookTypes
<1>6. ASSUME NEW m \in Mails, ConfirmMail(m)
      PROVE  BookInv'
  BY <1>6, BookStays DEF ConfirmMail, BookInv, BookTypes
<1>7. CASE UNCHANGED contactVars
  BY <1>7, BookStays DEF contactVars, BookInv, BookTypes
<1> QED
  BY <1>1, <1>2, <1>3, <1>4, <1>5, <1>6, <1>7, LoadKeeps, TruncateKeeps, WriteKeeps, StopKeeps DEF ContactNext

LEMMA BookFits == BookInv => NamesAreUnique /\ PeerIsOne /\ CardArrives /\ NothingForgotten
<1> SUFFICES ASSUME BookInv PROVE NamesAreUnique /\ PeerIsOne /\ CardArrives /\ NothingForgotten
  OBVIOUS
<1>1. NamesAreUnique
  BY DEF BookInv, OneEach, Unique, NamesAreUnique
<1>2. PeerIsOne
  <2> SUFFICES ASSUME ~overlapped, ~doubled PROVE Cardinality(Peers(book)) <= 1
    BY DEF PeerIsOne, Peers
  <2>1. Peers(book) = {} \/ \E c : Peers(book) = {c}
    BY DEF BookInv, BookAlone, OnePeer
  <2>2. Cardinality(Peers(book)) \in {0, 1}
    BY ONLY <2>1, FS_EmptySet, FS_Singleton
  <2> QED
    BY <2>2
<1>3. CardArrives
  <2> SUFFICES ASSUME ~overlapped, ~doubled, Busy = {}, NEW c \in book, c.handle = Peer PROVE c.address = brought
    BY DEF CardArrives
  <2>1. Settled
    BY DEF Settled, Bringing, Busy, BookInv, BookTypes, EditRecord
  <2> QED
    BY <2>1 DEF BookInv, BookAlone, LastAddress, Peers
<1>4. NothingForgotten
  BY DEF NothingForgotten, BookInv, BookAlone, Names
<1> QED
  BY <1>1, <1>2, <1>3, <1>4

-----------------------------------------------------------------------------
\* A proposal goes where its token says, or where a mail went for which its planner
\* gave that id first.
Backed(p) ==
  \/ \E about \in References : p.token = Token(Nobody, about, p.to)
  \/ \E id \in Ids : p.token = Token(id, Nobody, Nobody) /\ [id |-> id, to |-> p.to] \in named

\* What a mail is shown with is what it says, and what its planner gave an id to.
MailInv ==
  /\ mail \in [Mails -> MailRecord]
  /\ shown \in [Mails -> Addresses \cup {NoAddress}]
  /\ \A m \in Mails : mail[m].stage = "shown" => mail[m].to = shown[m]
  /\ \A m \in Mails : mail[m].stage \in {"shown", "sent"} /\ mail[m].id # Nobody =>
       [id |-> mail[m].id, to |-> shown[m]] \in named
  /\ \A p \in proposed : p.to \in Addresses \cup {NoAddress} /\ Backed(p)
  /\ \A m \in Mails : mail[m].stage = "sent" =>
       \/ mail[m].to = shown[m]
       \/ mail[m].id # Nobody /\ [id |-> mail[m].id, to |-> mail[m].to] \in named

LEMMA MailStarts == ContactInit => MailInv
BY DEF ContactInit, MailInv, MailRecord

\* A planner's id stays with what it was given to.
LEMMA BackedStays ==
  ASSUME NEW p, Backed(p), named \subseteq named'
  PROVE  Backed(p)'
BY DEF Backed, Token

LEMMA Asking ==
  ASSUME MailInv, NEW m \in Mails, NEW stage \in {"unknown", "ambiguous"},
         NEW about \in References, Asked(m, stage, about)
  PROVE  MailInv'
<1>1. PICK new : new = [stage |-> stage, id |-> Nobody, about |-> about, to |-> NoAddress]
  OBVIOUS
<1>2. new \in MailRecord /\ new.stage = stage
  BY <1>1 DEF MailRecord
<1>3. mail' = [mail EXCEPT ![m] = new] /\ UNCHANGED <<proposed, shown, named>>
  BY <1>1 DEF Asked
<1>4. mail \in [Mails -> MailRecord] /\ mail'[m] = new /\ \A n \in Mails \ {m} : mail'[n] = mail[n]
  BY <1>3 DEF MailInv
<1>5. \A p \in proposed' : p.to \in Addresses \cup {NoAddress} /\ Backed(p)'
  BY <1>3, BackedStays DEF MailInv
<1> QED
  BY <1>2, <1>3, <1>4, <1>5 DEF MailInv

LEMMA Showing ==
  ASSUME MailInv, NEW m \in Mails, NEW id \in Ids \cup {Nobody}, NEW about \in References,
         NEW to \in Addresses \cup {NoAddress}, Show(m, id, about, to)
  PROVE  MailInv'
<1> DEFINE token == Token(id, about, to)
<1>1. named' = IF id = Nobody THEN named ELSE named \cup {[id |-> id, to |-> to]}
  BY DEF Show
<1>2. PICK new \in MailRecord :
        /\ mail' = [mail EXCEPT ![m] = new] /\ new.id = id /\ new.to = to
        /\ \/ new.stage = "done" /\ UNCHANGED <<proposed, shown>>
           \/ /\ new.stage = "shown" /\ shown' = [shown EXCEPT ![m] = to]
              /\ proposed' \subseteq proposed \cup {[token |-> token, to |-> to]}
  <2>1. \A stage \in {"done", "shown"} :
          LET new == [stage |-> stage, id |-> id, about |-> about, to |-> to]
          IN  new \in MailRecord /\ new.stage = stage /\ new.id = id /\ new.to = to
    BY DEF MailRecord
  <2> QED
    BY <2>1 DEF Show
<1>3. /\ mail \in [Mails -> MailRecord] /\ mail'[m] = new /\ \A n \in Mails \ {m} : mail'[n] = mail[n]
      /\ shown \in [Mails -> Addresses \cup {NoAddress}]
  BY <1>2 DEF MailInv
<1>4. \A p \in proposed' : p.to \in Addresses \cup {NoAddress} /\ Backed(p)'
  <2> SUFFICES ASSUME NEW p \in proposed' PROVE p.to \in Addresses \cup {NoAddress} /\ Backed(p)'
    OBVIOUS
  <2>1. CASE p \in proposed
    BY <1>1, <2>1, BackedStays DEF MailInv
  <2>2. CASE p \notin proposed
    <3>1. p.token = token /\ p.to = to
      BY <1>2, <2>2
    <3>2. CASE id = Nobody
      BY <3>1, <3>2 DEF Backed, Token
    <3>3. CASE id # Nobody
      BY <1>1, <3>1, <3>3 DEF Backed, Token
    <3> QED
      BY <3>1, <3>2, <3>3
  <2> QED
    BY <2>1, <2>2
<1>5. \A n \in Mails : mail'[n].stage = "shown" => mail'[n].to = shown'[n]
  BY <1>2, <1>3 DEF MailInv
<1>6. \A n \in Mails : mail'[n].stage \in {"shown", "sent"} /\ mail'[n].id # Nobody =>
        [id |-> mail'[n].id, to |-> shown'[n]] \in named'
  BY <1>1, <1>2, <1>3 DEF MailInv
<1>7. \A n \in Mails : mail'[n].stage = "sent" =>
        \/ mail'[n].to = shown'[n]
        \/ mail'[n].id # Nobody /\ [id |-> mail'[n].id, to |-> mail'[n].to] \in named'
  BY <1>1, <1>2, <1>3 DEF MailInv
<1> QED
  BY <1>2, <1>3, <1>4, <1>5, <1>6, <1>7 DEF MailInv

LEMMA Proposing ==
  ASSUME BookInv, MailInv, NEW m \in Mails, NEW id \in Ids \cup {Nobody}, NEW about \in References,
         Propose(m, id, about)
  PROVE  MailInv'
<1> DEFINE found == {c \in Loaded : Knows(c, about)}
           to == (CHOOSE c \in found : TRUE).address
<1>1. CASE Cardinality(found) = 1 /\ Show(m, id, about, to)
  <2>1. found # {}
    <3>1. ASSUME found = {} PROVE FALSE
      <4>1. Cardinality(found) = 0
        BY ONLY <3>1, FS_EmptySet
      <4> QED
        BY <1>1, <4>1
    <3> QED
      BY <3>1
  <2>2. (CHOOSE c \in found : TRUE) \in Contact
    BY <2>1, Reading
  <2>3. to \in Addresses \cup {NoAddress}
    BY <2>2 DEF Contact
  <2> HIDE DEF to
  <2> QED
    BY <1>1, <2>3, Showing
<1> QED
  BY <1>1, Asking DEF Propose

LEMMA Confirming ==
  ASSUME MailInv, NEW m \in Mails, ConfirmMail(m)
  PROVE  MailInv'
<1> DEFINE old == mail[m]
           token == Token(old.id, old.about, old.to)
<1>1. /\ old.stage = "shown" /\ old \in MailRecord /\ old.to = shown[m]
      /\ UNCHANGED <<proposed, shown, named>>
      /\ old.id # Nobody => [id |-> old.id, to |-> shown[m]] \in named
  BY DEF ConfirmMail, MailInv
<1>2. PICK new \in MailRecord :
        /\ mail' = [mail EXCEPT ![m] = new] /\ new.id = old.id
        /\ \/ new.stage = "done"
           \/ new.stage = "sent" /\ \E p \in proposed : p.token = token /\ new.to = p.to
  <2>1. CASE mail' = [mail EXCEPT ![m].stage = "done"]
    <3>1. PICK new : new = [old EXCEPT !.stage = "done"]
      OBVIOUS
    <3>2. new \in MailRecord /\ new.stage = "done" /\ new.id = old.id
      BY <1>1, <3>1 DEF MailRecord
    <3>3. mail' = [mail EXCEPT ![m] = new]
      BY <2>1, <3>1
    <3> QED
      BY <3>2, <3>3
  <2>2. CASE \E p \in proposed :
               p.token = token /\ mail' = [mail EXCEPT ![m].stage = "sent", ![m].to = p.to]
    <3>1. PICK p \in proposed :
            p.token = token /\ mail' = [mail EXCEPT ![m].stage = "sent", ![m].to = p.to]
      BY <2>2
    <3>2. p.to \in Addresses \cup {NoAddress}
      BY DEF MailInv
    <3>3. PICK h : h = [old EXCEPT !.stage = "sent"]
      OBVIOUS
    <3>4. PICK new : new = [h EXCEPT !.to = p.to]
      OBVIOUS
    <3>5. h \in MailRecord /\ h.stage = "sent" /\ h.id = old.id
      BY <1>1, <3>3 DEF MailRecord
    <3>6. new \in MailRecord /\ new.stage = "sent" /\ new.to = p.to /\ new.id = old.id
      BY <3>2, <3>4, <3>5 DEF MailRecord
    <3>7. mail' = [mail EXCEPT ![m] = new]
      <4>1. mail \in [Mails -> MailRecord]
        BY DEF MailInv
      <4>2. [mail EXCEPT ![m].stage = "sent"] = [mail EXCEPT ![m] = h]
        BY <3>3
      <4>3. [[mail EXCEPT ![m] = h] EXCEPT ![m].to = p.to] = [mail EXCEPT ![m] = new]
        BY <3>4, <4>1
      <4> QED
        BY <3>1, <4>2, <4>3
    <3> QED
      BY <3>1, <3>6, <3>7
  <2> QED
    BY <2>1, <2>2 DEF ConfirmMail
<1>3. new.stage = "sent" =>
        \/ new.to = shown[m]
        \/ new.id # Nobody /\ [id |-> new.id, to |-> new.to] \in named
  <2> SUFFICES ASSUME new.stage = "sent"
               PROVE  new.to = shown[m] \/ (new.id # Nobody /\ [id |-> new.id, to |-> new.to] \in named)
    OBVIOUS
  <2>1. PICK p \in proposed : p.token = token /\ new.to = p.to
    BY <1>2
  <2>2. Backed(p)
    BY DEF MailInv
  <2>3. CASE old.id = Nobody
    <3>1. token = [id |-> Nobody, about |-> old.about, to |-> old.to]
      BY <2>3 DEF Token
    <3>2. p.to = old.to
      <4>1. CASE \E about \in References : p.token = Token(Nobody, about, p.to)
        BY <2>1, <3>1, <4>1 DEF Token
      <4>2. CASE \E id \in Ids : p.token = Token(id, Nobody, Nobody)
        BY <2>1, <3>1, <4>2, ContactAssumption DEF Token
      <4> QED
        BY <2>2, <4>1, <4>2 DEF Backed
    <3> QED
      BY <1>1, <2>1, <3>2
  <2>4. CASE old.id # Nobody
    <3>1. token.id = old.id
      BY <2>4 DEF Token
    <3>2. ASSUME NEW about \in References, p.token = Token(Nobody, about, p.to) PROVE FALSE
      <4>1. p.token = [id |-> Nobody, about |-> about, to |-> p.to]
        BY <3>2 DEF Token
      <4> QED
        BY <2>1, <2>4, <3>1, <4>1
    <3>3. PICK id \in Ids : p.token = Token(id, Nobody, Nobody) /\ [id |-> id, to |-> p.to] \in named
      BY <2>2, <3>2 DEF Backed
    <3>4. id = old.id
      BY <2>1, <3>1, <3>3, ContactAssumption DEF Token
    <3> QED
      BY <1>2, <2>1, <2>4, <3>3, <3>4
  <2> QED
    BY <2>3, <2>4
<1>4. mail \in [Mails -> MailRecord] /\ mail'[m] = new /\ \A n \in Mails \ {m} : mail'[n] = mail[n]
  BY <1>2 DEF MailInv
<1>5. \A p \in proposed' : p.to \in Addresses \cup {NoAddress} /\ Backed(p)'
  BY <1>1, BackedStays DEF MailInv
<1>6. mail' \in [Mails -> MailRecord]
  BY <1>2 DEF MailInv
<1> QED
  BY <1>1, <1>2, <1>3, <1>4, <1>5, <1>6 DEF MailInv

LEMMA MailStep == BookInv /\ MailInv /\ [ContactNext]_contactVars => MailInv'
<1> SUFFICES ASSUME BookInv, MailInv, [ContactNext]_contactVars PROVE MailInv'
  OBVIOUS
<1>1. ASSUME UNCHANGED mailVars PROVE MailInv'
  BY <1>1 DEF mailVars, MailInv, Backed, Token
<1>2. CASE UNCHANGED contactVars
  BY <1>1, <1>2 DEF contactVars
<1>3. ASSUME NEW e \in Edits, NEW op, NEW entry, Begin(e, op, entry) PROVE MailInv'
  BY <1>1, <1>3 DEF Begin
<1> QED
  BY <1>1, <1>2, <1>3, Proposing, Confirming
  DEF ContactNext, SaveContact, RemoveContact, Invite, Load, TruncateBook, Write, SaveProfile, CutOff

LEMMA MailFits == MailInv => SentAsShown
<1> SUFFICES ASSUME MailInv, NEW m \in Mails, mail[m].stage = "sent", OneIdOneMail(mail[m].id)
             PROVE  mail[m].to = shown[m]
  BY DEF SentAsShown
<1>1. CASE mail[m].id = Nobody
  BY <1>1 DEF MailInv
<1>2. CASE mail[m].id # Nobody
  <2>1. [id |-> mail[m].id, to |-> shown[m]] \in named
    BY <1>2 DEF MailInv
  <2>2. CASE [id |-> mail[m].id, to |-> mail[m].to] \in named
    BY <2>1, <2>2 DEF OneIdOneMail
  <2> QED
    BY <2>2 DEF MailInv
<1> QED
  BY <1>1, <1>2

\* However edits of the book overlap or are cut off, a name is one entry; and while none
\* does, a peer that the owner did not link twice by hand is one entry with its last
\* address, and nobody whom the owner saved is lost (contacts-store.ts): for any people,
\* addresses and edits.
THEOREM BooksKept == ContactInit /\ [][ContactNext]_contactVars => []BookIsKept
BY BookStarts, BookStep, BookFits, PTL DEF BookIsKept

\* A mail is sent where the owner was shown it would go, however the book changed
\* between the proposal and the confirmation (runConfirmedWrite), unless its planner
\* gave one id to mails of different addresses.
THEOREM SentWhereShown == ContactInit /\ [][ContactNext]_contactVars => []SentAsShown
BY BookStarts, BookStep, MailStarts, MailStep, MailFits, PTL
=============================================================================
