---------------------------- MODULE Negotiation ----------------------------
(***************************************************************************)
(* negotiateSlot of agent/src/a2a/negotiate.ts: one assistant proposes     *)
(* slots to a peer, hop after hop, keeps a tentative hold of the best      *)
(* common slot on both owners' calendars, and confirms it when the peer    *)
(* accepts.  The peer (askPeer) may answer anything.                       *)
(*                                                                         *)
(* The loop is sequential: nobody else writes these holds.  What can go    *)
(* wrong is a calendar call or the peer that throws at any await, so each  *)
(* of those awaits is a step.                                              *)
(***************************************************************************)
EXTENDS Integers

CONSTANTS
  Slots,    \* as numbers, in self's preference order
  SelfFree, \* self's free slots
  MaxHops,  \* maxHops, clamped to 1 .. MAX_A2A_HOPS
  MaxFaults \* how many calls may throw

ASSUME NegotiationAssumption ==
  /\ Slots \subseteq Nat \ {0}
  /\ SelfFree \subseteq Slots
  /\ MaxHops \in 1 .. 8
  /\ MaxFaults \in Nat

Side == {"self", "peer"}
None == 0

\* What a calendar call or the transport did wrong.
Fault == {"ask", "create", "confirm", "delete"}

Reason == {"none", "converged", "no-common-slot", "max-hops", "booking-failed"}

Hold == [status : {"absent", "tentative", "busy", "released"}, event : Nat]

Phase == {"ask",     \* waiting for the peer
          "switch",  \* releasing the old slot before the next one is held
          "place", "confirm",
          "undo",    \* releasing what ensureHolds placed before it failed
          "end",     \* releasing every hold, then returning `reason`
          "catch",   \* the same in the catch block
          "done", "thrown"}

VARIABLES
  phase,
  hop,
  slot,      \* the slot that is held, or about to be
  then,      \* once `slot` is held: "confirm" it, for the peer then, or "ask"
  holds,     \* the holds of `slot`, one per side
  reason,
  calendar,  \* live events of each owner: id -> slot, by id
  created,   \* how many events each calendar ever created
  audit,     \* event of the 'written' entry of each side and slot
  faults,    \* history: how often each kind of call threw
  dropped    \* history: slots whose hold was released

vars == <<phase, hop, slot, then, holds, reason, calendar, created, audit,
          faults, dropped>>
loop == <<hop, slot, then, reason>>
world == <<calendar, created, audit>>

-----------------------------------------------------------------------------
NoHolds == [s \in Side |-> [status |-> "absent", event |-> 0]]
Having(status) == {s \in Side : holds[s].status = status}
Unreleased == Having("tentative") \cup Having("busy")

\* Holds are placed, confirmed and released self first.
First(S) == IF "self" \in S THEN "self" ELSE "peer"

WithHold(s, status, event) ==
  [holds EXCEPT ![s] = [status |-> status, event |-> event]]

Best(S) == CHOOSE x \in S : \A y \in S : x <= y

\* At most MaxFaults calls throw.
CanFail == faults["ask"] + faults["create"] + faults["confirm"] + faults["delete"] < MaxFaults
Failed(kind) == faults' = [faults EXCEPT ![kind] = @ + 1]

Init ==
  /\ phase = "ask"
  /\ hop = 0
  /\ slot = None
  /\ then = "ask"
  /\ holds = NoHolds
  /\ reason = "none"
  /\ calendar = [s \in Side |-> {}]
  /\ created = [s \in Side |-> 0]
  /\ audit = [s \in Side |-> [x \in Slots |-> 0]]
  /\ faults = [f \in Fault |-> 0]
  /\ dropped = {}

-----------------------------------------------------------------------------
\* ensureHolds: nothing to do when both sides already hold the next slot.
EnsureAtOnce(next, goal) == \* mutant: the old slot is not released
  /\ slot' = next
  /\ then' = goal
  /\ IF slot = next /\ Unreleased = Side
       THEN /\ phase' = goal
            /\ UNCHANGED holds
       ELSE /\ phase' = "place"
            /\ holds' = NoHolds
  /\ UNCHANGED <<reason, dropped>>
Ensure(next, goal) ==
  /\ slot' = next
  /\ then' = goal
  /\ IF slot = next /\ Unreleased = Side
       THEN /\ phase' = goal
            /\ UNCHANGED <<holds, dropped>>
       ELSE IF Unreleased # {}
       THEN /\ phase' = "switch"
            /\ dropped' = dropped \cup {slot}
            /\ UNCHANGED holds
       ELSE /\ phase' = "place"
            /\ holds' = NoHolds
            /\ UNCHANGED dropped
  /\ UNCHANGED reason

\* Return `why` once the holds are released.
Stop(why) ==
  /\ phase' = IF Unreleased = {} THEN "done" ELSE "end"
  /\ reason' = why
  /\ UNCHANGED <<slot, then, holds, dropped>>

(***************************************************************************)
(* One hop: the peer offers slots and may accept one.  An accept of a slot *)
(* self is free for is final; else self commits to the best common slot.   *)
(***************************************************************************)
AskSameHop(offered, accept) == \* mutant: the hop is not counted
  /\ phase = "ask"
  /\ hop < MaxHops
  /\ hop' = hop
  /\ IF accept \in SelfFree THEN Ensure(accept, "confirm")
     ELSE IF SelfFree \cap offered = {} THEN Stop("no-common-slot")
     ELSE Ensure(Best(SelfFree \cap offered), "ask")
  /\ UNCHANGED <<world, faults>>
Ask(offered, accept) ==
  /\ phase = "ask"
  /\ hop < MaxHops
  /\ hop' = hop + 1
  /\ IF accept \in SelfFree THEN Ensure(accept, "confirm")
     ELSE IF SelfFree \cap offered = {} THEN Stop("no-common-slot")
     ELSE Ensure(Best(SelfFree \cap offered), "ask")
  /\ UNCHANGED <<world, faults>>

HopCap ==
  /\ phase = "ask"
  /\ hop = MaxHops
  /\ Stop("max-hops")
  /\ UNCHANGED <<hop, world, faults>>

\* The catch block releases `snapshot`, the holds of the enclosing loop.
Catch(snapshot) ==
  LET left == {s \in Side : snapshot[s].status \in {"tentative", "busy"}} IN
  /\ holds' = snapshot
  /\ phase' = IF left = {} THEN "done" ELSE "catch"
  /\ reason' = "booking-failed"

\* askPeer, or the audit hook onTurn, throws.
AskFails ==
  /\ phase = "ask"
  /\ hop < MaxHops
  /\ CanFail
  /\ Failed("ask")
  /\ Catch(holds)
  /\ UNCHANGED <<hop, slot, then, world, dropped>>

-----------------------------------------------------------------------------
(***************************************************************************)
(* releaseHolds: one calendar.deleteEvent per step.                        *)
(***************************************************************************)
Release ==
  LET s == First(Unreleased) IN
  /\ phase \in {"switch", "undo", "end", "catch"}
  /\ calendar' = [calendar EXCEPT ![s] = {e \in @ : e.id # holds[s].event}]
  /\ holds' = IF phase = "switch" /\ Unreleased = {s}
                THEN NoHolds
                ELSE WithHold(s, "released", holds[s].event)
  /\ phase' = IF Unreleased # {s} THEN phase
              ELSE IF phase = "switch" THEN "place" ELSE "done"
  /\ UNCHANGED <<loop, created, audit, faults, dropped>>

\* The holds a failed ensureHolds placed are not the loop's: the catch block
\* does not see them.  In the catch block itself the exception leaves.
ReleaseFails ==
  /\ phase \in {"switch", "undo", "end", "catch"}
  /\ CanFail
  /\ Failed("delete")
  /\ CASE phase = "catch" -> phase' = "thrown" /\ UNCHANGED <<holds, reason>>
       [] phase = "undo" -> Catch(NoHolds)
       [] OTHER -> Catch(holds)
  /\ UNCHANGED <<hop, slot, then, world, dropped>>

-----------------------------------------------------------------------------
(***************************************************************************)
(* placeHold of the next side.  A 'written' audit entry of this thread,    *)
(* side and slot is taken for the hold.                                    *)
(***************************************************************************)
AfterHold(placed) ==
  /\ holds' = placed
  /\ phase' = IF \E s \in Side : placed[s].status = "absent" THEN "place"
              ELSE then

Place ==
  LET s == First(Having("absent"))
      event == created[s] + 1
  IN
  /\ phase = "place"
  /\ \/ /\ audit[s][slot] # 0
        /\ AfterHold(WithHold(s, "tentative", audit[s][slot]))
        /\ UNCHANGED world
     \/ /\ audit[s][slot] = 0
        /\ created' = [created EXCEPT ![s] = event]
        /\ calendar' = [calendar EXCEPT ![s] = @ \cup {[id |-> event, slot |-> slot]}]
        /\ audit' = [audit EXCEPT ![s][slot] = event]
        /\ AfterHold(WithHold(s, "tentative", event))
  /\ UNCHANGED <<loop, faults, dropped>>

PlaceFailsNoUndo == \* mutant: what was placed is not released
  /\ phase = "place"
  /\ audit[First(Having("absent"))][slot] = 0
  /\ CanFail
  /\ Failed("create")
  /\ reason' = "booking-failed"
  /\ phase' = "done"
  /\ UNCHANGED <<hop, slot, then, holds, world, dropped>>
PlaceFails ==
  /\ phase = "place"
  /\ audit[First(Having("absent"))][slot] = 0
  /\ CanFail
  /\ Failed("create")
  /\ reason' = "booking-failed"
  /\ phase' = IF Unreleased = {} THEN "done" ELSE "undo"
  /\ UNCHANGED <<hop, slot, then, holds, world, dropped>>

Confirm ==
  LET s == First(Having("tentative")) IN
  /\ phase = "confirm"
  /\ holds' = WithHold(s, "busy", holds[s].event)
  /\ IF Having("tentative") = {s}
       THEN phase' = "done" /\ reason' = "converged"
       ELSE UNCHANGED <<phase, reason>>
  /\ UNCHANGED <<hop, slot, then, world, faults, dropped>>

\* A confirm that throws releases both holds, busy ones too.
ConfirmFails ==
  /\ phase = "confirm"
  /\ CanFail
  /\ Failed("confirm")
  /\ Stop("booking-failed")
  /\ UNCHANGED <<hop, world>>

Next ==
  \/ \E offered \in SUBSET Slots, accept \in Slots \cup {None} : Ask(offered, accept)
  \/ HopCap \/ AskFails
  \/ Release \/ ReleaseFails
  \/ Place \/ PlaceFails
  \/ Confirm \/ ConfirmFails

Spec == Init /\ [][Next]_vars

\* The loop is one async call: it goes on as long as its awaits settle.
FairSpec == Spec /\ WF_vars(Next)

-----------------------------------------------------------------------------
TypeOK ==
  /\ phase \in Phase
  /\ hop \in 0 .. MaxHops
  /\ slot \in SelfFree \cup {None}
  /\ then \in {"ask", "confirm"}
  /\ holds \in [Side -> Hold]
  /\ reason \in Reason
  /\ calendar \in [Side -> SUBSET [id : Nat, slot : SelfFree]]
  /\ created \in [Side -> Nat]
  /\ audit \in [Side -> [Slots -> Nat]]
  /\ faults \in [Fault -> Nat]
  /\ dropped \subseteq SelfFree
  /\ phase \in {"switch", "undo", "end", "catch"} => Unreleased # {}

\* However the peer moves the negotiation from slot to slot, no calendar ever
\* holds two slots of one thread.
OneHoldPerCalendar == \A s \in Side : \A e, f \in calendar[s] : e = f

\* A negotiation that did not converge leaves no hold behind, even if a call
\* threw on the way: only a placement and a release that both throw, or a
\* release that throws in the catch block, are not made good.
NothingLeftUnlessBooked ==
  phase = "done" /\ reason # "converged" /\ 0 \in {faults["create"], faults["delete"]} =>
    \A s \in Side : calendar[s] = {}

\* An agreed slot that was never let go of is on both calendars, and busy.
AgreedIsBooked ==
  reason = "converged" /\ slot \notin dropped =>
    \A s \in Side : /\ holds[s].status = "busy"
                    /\ [id |-> holds[s].event, slot |-> slot] \in calendar[s]

\* Both together: a negotiation that agreed is on both calendars, any other has
\* left nothing behind (negotiateSlot, its exits and its catch block).
BookedOrNothing == TypeOK /\ AgreedIsBooked /\ NothingLeftUnlessBooked

\* The same for every agreed slot: "both owner calendars must contain exactly
\* one event" (check-pa-booking-a2a.ts).
ConvergedIsBooked ==
  reason = "converged" => \A s \in Side : \E e \in calendar[s] : e.slot = slot

=============================================================================
