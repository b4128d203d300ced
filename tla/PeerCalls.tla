----------------------------- MODULE PeerCalls ------------------------------
(***************************************************************************)
(* One assistant asks other people's assistants: runOutboundA2A and        *)
(* runInboundA2A of agent/src/assistant/assistant-runtime.ts, the daily    *)
(* budget file, the live transport and the liveness probe of               *)
(* agent/src/a2a/, and dashboardLocalA2A of agent/src/server/dashboard.ts. *)
(*                                                                         *)
(* A turn is one owner message that calls a peer; turns of one process     *)
(* interleave at every await.  The peers run the same code elsewhere: a    *)
(* task put on the network is handled once, possibly after its sender has  *)
(* given up.  A turn's threadId is the turn itself; every retry keeps it.  *)
(***************************************************************************)
EXTENDS Naturals, FiniteSets

CONSTANTS
  Turns,       \* calls of this owner, each handled once
  Peers,       \* assistants that may be on the roster
  OwnerKnown,  \* peers whose ownerId the roster records
  SameBridge,  \* peers whose assistant this bridge serves as well
  Cap,         \* PA_A2A_DAILY_CALLS_CAP
  MaxInFlight, \* turns handled at the same time
  MaxDays,     \* how many days a behaviour spans
  MaxEvents    \* crashes, midnights, revocations and probes, together

ASSUME PeerCallsAssumption ==
  /\ Peers # {} /\ OwnerKnown \subseteq Peers /\ SameBridge \subseteq Peers
  /\ Cap \in Nat \ {0} /\ MaxInFlight \in Nat \ {0}
  /\ MaxDays \in Nat \ {0} /\ MaxEvents \in Nat
  /\ IsFiniteSet(Turns) /\ "probe" \notin Turns

\* What the request asks for: to set up a meeting, or anything the peer answers
\* at once (free/busy as far as it shares it, or its planner's reply).
Intent == {"coordinate", "other"}

\* "torn": writeFile has emptied the file and not yet written it.
Budget == [torn : BOOLEAN, day : Nat, count : Nat]
Task == [thread : Turns \cup {"probe"}, peer : Peers, intent : Intent]
Stage == {"idle", "check", "read", "truncate", "write", "send", "wait", "retry",
          "wait again", "fallback", "propose", "done", "thrown", "lost"}

VARIABLES
  offline,  \* FOUNDATION_OFFLINE
  day,
  budget,   \* a2a-budget.json
  roster,   \* peers on this assistant's roster
  admits,   \* peers whose roster has this assistant
  pc, mem,  \* where each turn waits; the peer, the intent, the budget it read
  network,  \* live tasks no instance has picked up
  proposed, \* threads with a record in the meeting request store
  told,     \* notifications of each thread to the caller's and the peer's owner
  events,   \* counts up to MaxEvents
  calls,    \* history: calls let through, by day
  heard,    \* history: how often a peer took up a thread
  raced     \* history: a turn passed the check while another was counting, or
            \* a crash left the file torn

vars == <<offline, day, budget, roster, admits, pc, mem, network, proposed,
          told, events, calls, heard, raced>>
files == <<budget, proposed, raced, calls>>
world == <<offline, day, roster, admits, events>>

-----------------------------------------------------------------------------
NoMemory == [peer |-> CHOOSE p \in Peers : TRUE, intent |-> "other", day |-> 1, count |-> 0]

InFlight == {t \in Turns : pc[t] \notin {"idle", "done", "thrown", "lost"}}
InBudget == {t \in Turns : pc[t] \in {"read", "truncate", "write"}}
Goto(t, stage) == pc' = [pc EXCEPT ![t] = stage]

\* loadBudget: an unreadable file or one of another day counts as no call.
Load == IF budget.torn \/ budget.day # day THEN 0 ELSE budget.count

\* The turn has its answer: only a coordination may go on to a meeting.
Answered(t) == IF mem[t].intent = "coordinate" THEN "propose" ELSE "done"

Init ==
  /\ offline \in BOOLEAN
  /\ day = 1
  /\ budget = [torn |-> FALSE, day |-> 1, count |-> 0]
  /\ roster = Peers
  /\ admits = Peers
  /\ pc = [t \in Turns |-> "idle"]
  /\ mem = [t \in Turns |-> NoMemory]
  /\ network = {}
  /\ proposed = {}
  /\ told = [t \in Turns |-> [caller |-> 0, peer |-> 0]]
  /\ events = 0
  /\ calls = [d \in 1..MaxDays |-> 0]
  /\ heard = [t \in Turns \cup {"probe"} |-> 0]
  /\ raced = FALSE

(***************************************************************************)
(* Outbound.                                                               *)
(***************************************************************************)
\* The roster decides whom a call reaches: a reference to the assistant
\* itself, to nobody on the roster or to several peers is answered in words.
Ask(t) ==
  /\ pc[t] = "idle"
  /\ Cardinality(InFlight) < MaxInFlight
  /\ \/ Goto(t, "done") /\ UNCHANGED mem
     \/ \E p \in roster, i \in Intent :
          /\ mem' = [mem EXCEPT ![t] = [NoMemory EXCEPT !.peer = p, !.intent = i]]
          /\ Goto(t, "check")
  /\ UNCHANGED <<files, world, network, told, heard>>

\* withinDailyCap.
CheckCapLate(t) == \* mutant: one call too many
  /\ pc[t] = "check"
  /\ Goto(t, IF Load <= Cap THEN "read" ELSE "done")
  /\ raced' = (raced \/ InBudget # {})
  /\ UNCHANGED <<budget, proposed, calls, world, mem, network, told, heard>>
CheckCap(t) ==
  /\ pc[t] = "check"
  /\ Goto(t, IF Load < Cap THEN "read" ELSE "done")
  /\ raced' = (raced \/ InBudget # {})
  /\ UNCHANGED <<budget, proposed, calls, world, mem, network, told, heard>>

\* recordA2ACall reads the file again, empties it and writes the new count.
ReadCount(t) ==
  /\ pc[t] = "read"
  /\ mem' = [mem EXCEPT ![t].day = day, ![t].count = Load]
  /\ Goto(t, "truncate")
  /\ UNCHANGED <<files, world, network, told, heard>>

Truncate(t) ==
  /\ pc[t] = "truncate"
  /\ budget' = [budget EXCEPT !.torn = TRUE]
  /\ Goto(t, "write")
  /\ UNCHANGED <<proposed, raced, calls, world, mem, network, told, heard>>

WriteCount(t) ==
  /\ pc[t] = "write"
  /\ budget' = [torn |-> FALSE, day |-> mem[t].day, count |-> mem[t].count + 1]
  /\ calls' = [calls EXCEPT ![mem[t].day] = @ + 1]
  /\ Goto(t, "send")
  /\ mem' = [mem EXCEPT ![t].day = 1, ![t].count = 0]
  /\ UNCHANGED <<proposed, raced, world, network, told, heard>>

\* Offline the sender is a stub without a reply; live, a task goes out to the
\* handle.  Without credentials the sender cannot be made: the turn throws.
Send(t) ==
  /\ pc[t] \in {"send", "retry"}
  /\ \/ /\ offline
        /\ Goto(t, "fallback")
        /\ UNCHANGED network
     \/ /\ ~offline
        /\ Goto(t, "thrown")
        /\ UNCHANGED network
     \/ /\ ~offline
        /\ network' = network \cup
             {[thread |-> t, peer |-> mem[t].peer, intent |-> mem[t].intent]}
        /\ Goto(t, IF pc[t] = "send" THEN "wait" ELSE "wait again")
  /\ UNCHANGED <<files, world, mem, told, heard>>

\* The task did not complete within two minutes, or ended in another state.
SendHangs(t) == \* mutant: no time limit on an answer
  /\ pc[t] \in {"wait", "wait again"}
  /\ ~\E task \in network : task.thread = t
  /\ Goto(t, "wait")
  /\ UNCHANGED <<files, world, mem, network, told, heard>>
SendFails(t) ==
  /\ pc[t] \in {"wait", "wait again"}
  /\ Goto(t, "thrown")
  /\ UNCHANGED <<files, world, mem, network, told, heard>>

\* A peer's instance finished it; its artifacts, or none within five seconds,
\* are what the sender reads.
Completed(t) == ~\E task \in network : task.thread = t

\* It completed and no readable reply came with it: ask once more, then try
\* the assistant on this bridge.
AnswerEmptyAgain(t) == \* mutant: asks again for as long as nothing is readable
  /\ pc[t] \in {"wait", "wait again"}
  /\ Completed(t)
  /\ Goto(t, "retry")
  /\ UNCHANGED <<files, world, mem, network, told, heard>>
AnswerEmpty(t) ==
  /\ pc[t] \in {"wait", "wait again"}
  /\ Completed(t)
  /\ Goto(t, IF pc[t] = "wait" THEN "retry" ELSE "fallback")
  /\ UNCHANGED <<files, world, mem, network, told, heard>>

Answer(t) ==
  /\ pc[t] \in {"wait", "wait again"}
  /\ Completed(t)
  /\ Goto(t, Answered(t))
  /\ UNCHANGED <<files, world, mem, network, told, heard>>

(***************************************************************************)
(* Inbound: the roster gate, then park a coordination request and tell the *)
(* bound owner, or answer.  The caller's owner is only who asks.           *)
(***************************************************************************)
Admitted(task) == task.thread # "probe" /\ task.peer \in admits

NotifyBound(n) == [n EXCEPT !.peer = @ + 1]

TakeUp(task) ==
  IF Admitted(task)
    THEN /\ heard' = [heard EXCEPT ![task.thread] = @ + 1]
         /\ told' = IF task.intent = "coordinate"
                      THEN [told EXCEPT ![task.thread] = NotifyBound(@)] ELSE told
    ELSE UNCHANGED <<heard, told>>

Receive(task) ==
  /\ task \in network
  /\ network' = network \ {task}
  /\ TakeUp(task)
  /\ UNCHANGED <<files, world, pc, mem>>

\* The same-bridge fallback runs the peer's assistant here; it throws, and is
\* ignored, unless the peer's owner is known and bound to that assistant.
Fallback(t) ==
  LET p == mem[t].peer IN
  /\ pc[t] = "fallback"
  /\ IF p \in OwnerKnown \cap SameBridge
       THEN TakeUp([thread |-> t, peer |-> p, intent |-> mem[t].intent])
       ELSE UNCHANGED <<heard, told>>
  /\ Goto(t, Answered(t))
  /\ UNCHANGED <<files, world, mem, network>>

(***************************************************************************)
(* parkInitiatorMeetingRequest: a slot both sides seem to have free is     *)
(* proposed once the roster names the peer's owner; both owners are told.  *)
(* No slot in common, or a peer gone from the roster, leaves words.        *)
(***************************************************************************)
Propose(t) ==
  /\ pc[t] = "propose"
  /\ Goto(t, "done")
  /\ \/ UNCHANGED <<proposed, told>>
     \/ /\ mem[t].peer \in roster \cap OwnerKnown
        /\ proposed' = proposed \cup {t}
        /\ told' = [told EXCEPT ![t] = [caller |-> @.caller + 1, peer |-> @.peer + 1]]
  /\ UNCHANGED <<budget, raced, calls, world, mem, network, heard>>

-----------------------------------------------------------------------------
Event == events < MaxEvents /\ events' = events + 1

\* probePeerReachable: a task from pa_probe, withdrawn at the first sign of
\* life or when the window closes.  It is not counted.
Probe(p) ==
  /\ ~offline
  /\ Event
  /\ network' = network \cup {[thread |-> "probe", peer |-> p, intent |-> "other"]}
  /\ UNCHANGED <<offline, day, roster, admits, files, pc, mem, told, heard>>

Withdraw(task) ==
  /\ task \in network
  /\ task.thread = "probe"
  /\ network' = network \ {task}
  /\ UNCHANGED <<files, world, pc, mem, told, heard>>

\* Either side's owner ends the relation while a call is under way.
Revoke(p) ==
  /\ Event
  /\ \/ p \in roster /\ roster' = roster \ {p} /\ UNCHANGED admits
     \/ p \in admits /\ admits' = admits \ {p} /\ UNCHANGED roster
  /\ UNCHANGED <<offline, day, files, pc, mem, network, told, heard>>

Midnight ==
  /\ day < MaxDays
  /\ Event
  /\ day' = day + 1
  /\ UNCHANGED <<offline, roster, admits, files, pc, mem, network, told, heard>>

Crash ==
  /\ Event
  /\ InFlight # {}
  /\ pc' = [t \in Turns |-> IF t \in InFlight THEN "lost" ELSE pc[t]]
  /\ raced' = (raced \/ budget.torn)
  /\ UNCHANGED <<offline, day, roster, admits, budget, proposed, calls, mem,
                 network, told, heard>>

Step(t) ==
  \/ CheckCap(t) \/ ReadCount(t) \/ Truncate(t) \/ WriteCount(t)
  \/ Send(t) \/ SendFails(t) \/ AnswerEmpty(t) \/ Answer(t)
  \/ Fallback(t) \/ Propose(t)

Next ==
  \/ \E t \in Turns : Ask(t) \/ Step(t)
  \/ \E task \in network : Receive(task) \/ Withdraw(task)
  \/ \E p \in Peers : Probe(p) \/ Revoke(p)
  \/ Midnight
  \/ Crash

Spec == Init /\ [][Next]_vars

\* The event loop and the transport's own timeouts finish what a turn began;
\* owners, peers and the clock may do nothing.
FairSpec == Spec /\ \A t \in Turns : WF_vars(Step(t))

-----------------------------------------------------------------------------
(***************************************************************************)
(* Properties.                                                             *)
(***************************************************************************)
TypeOK ==
  /\ offline \in BOOLEAN
  /\ day \in 1..MaxDays
  /\ budget \in Budget
  /\ roster \in SUBSET Peers /\ admits \in SUBSET Peers
  /\ pc \in [Turns -> Stage]
  /\ mem \in [Turns -> [peer : Peers, intent : Intent, day : 1..MaxDays, count : Nat]]
  /\ network \in SUBSET Task
  /\ events \in Nat
  /\ proposed \in SUBSET Turns
  /\ told \in [Turns -> [caller : Nat, peer : Nat]]
  /\ calls \in [1..MaxDays -> Nat]
  /\ heard \in [Turns \cup {"probe"} -> Nat]
  /\ raced \in BOOLEAN

\* The cap holds on every day, and what the dashboard shows as today's calls is
\* their number, unless two turns were between the check and the write at once, or
\* the process died while the file was empty
\* (runOutboundA2A: "refuse the call that would exceed PA_A2A_DAILY_CALLS_CAP").
CapIsKept ==
  TypeOK /\ (~raced =>
    /\ \A d \in 1..MaxDays : calls[d] <= Cap
    /\ InBudget = {} => Load = calls[day])

\* Lost answers, retries and the fallback put one request before a peer three
\* times at most.  Its owner sees no more cards than that and the proposal; the
\* caller's owner is told only by the proposal of the caller's own turn
\* (dashboardLocalA2A).
AskedAtMostThrice ==
  \A t \in Turns :
    /\ heard[t] <= 3 /\ told[t].peer <= heard[t] + told[t].caller
    /\ told[t].caller = IF t \in proposed THEN 1 ELSE 0

\* A turn that started comes to an end, whatever the peer does.
EveryTurnEnds ==
  \A t \in Turns : pc[t] # "idle" ~> pc[t] \in {"done", "thrown", "lost"}
=============================================================================
