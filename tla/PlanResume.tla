----------------------------- MODULE PlanResume -----------------------------
(***************************************************************************)
(* The step executor of agent/src/assistant/assistant-runtime.ts for ONE   *)
(* plan of one owner: it runs the steps in order, parks the plan when a    *)
(* write needs the owner's confirmation, a peer has to be picked or a      *)
(* detail is missing, and resumes it from pending-plans.jsonl when the     *)
(* owner sends the token.  Confirmed writes are made idempotent by         *)
(* booking-audit.jsonl, the rest of the plan by the parked plan itself.    *)
(*                                                                         *)
(* As in MeetingRequest, a step of this module is the code between two     *)
(* awaits that touch shared state.                                         *)
(***************************************************************************)
EXTENDS Naturals, Sequences, FiniteSets

CONSTANTS
  Plan,        \* the validated plan: [kind, runIf], runIf is 0 or an earlier step
  Requests,    \* owner messages, each handled once
  Policies,    \* values PA_BOOKING_POLICY may have in this process
  MaxInFlight, \* how many messages may be handled at the same time
  MaxCrashes,
  Faults       \* "write": calendar and mail calls may fail; "step": other steps

Kind == {"step",  \* runs at once: specialist, catalog, peer, calendar read
         "write", \* a WRITE_TOOLS integration
         "pick",  \* call-peer with a personRef several peers match
         "info"}  \* an integration that lacks a contact or a time

ASSUME PlanAssumption ==
  /\ Plan \in Seq([kind : Kind, runIf : Nat])
  /\ Len(Plan) > 1 \* a single action is dispatched without the executor
  /\ \A i \in DOMAIN Plan : Plan[i].runIf < i
  /\ Policies \subseteq {"confirm", "auto"}
  /\ "confirm" \notin Requests
  /\ MaxInFlight \in Nat /\ MaxCrashes \in Nat
  /\ Faults \subseteq {"write", "step"}

Steps == DOMAIN Plan
Outcome == {"none", "satisfied", "soft-miss", "skipped", "hard-fail"}
Ledger == [Steps -> Outcome]

\* A write is parked under its confirm token, which is a function of its
\* arguments; every other pause mints a new token.
Token == Steps \X ({"confirm"} \cup Requests)

Entry == [status : {"none", "pending", "resolved"}, ledger : Ledger]

Stage == {"idle", "exec", "lookup", "write", "record", "find", "resolve", "park",
          "done", "lost"}

\* What a handler has in memory.  `from` says how it got its plan.
Memory == [cursor : Nat, ledger : Ledger, token : Token \cup {<<>>},
           from : {"request", "confirm", "pick", "lone"}]

VARIABLES
  policy,    \* bookingPolicy: "auto" writes without a confirmation
  parked,    \* newest line of each token in pending-plans.jsonl
  proposed,  \* writes with a 'proposed' audit entry
  written,   \* writes with a 'written' audit entry
  pc, mem,   \* where each handler waits, and what it has in memory
  started,   \* the request was sent; every other message carries a token
  issued,    \* tokens the owner was given
  crashes,
  disturbed, \* history: two messages were handled at the same time, or the process died
  ran,       \* history: how often each step had its effect
  last,      \* history: the outcome of each step; a failure stays
  sent       \* history: tokens the owner sent back

vars == <<policy, parked, proposed, written, pc, mem, started, issued, crashes,
          disturbed, ran, last, sent>>
files == <<policy, parked, proposed, written>>
history == <<ran, last, sent>>

-----------------------------------------------------------------------------
NoLedger == [i \in Steps |-> "none"]
NoMemory == [cursor |-> 0, ledger |-> NoLedger, token |-> <<>>, from |-> "request"]

InFlight == {r \in Requests : pc[r] \notin {"idle", "done", "lost"}}
Arrives(r) ==
  /\ pc[r] = "idle" /\ Cardinality(InFlight) < MaxInFlight
  /\ disturbed' = (disturbed \/ InFlight # {})

Goto(r, stage, memory) ==
  /\ pc' = [pc EXCEPT ![r] = stage]
  /\ mem' = [mem EXCEPT ![r] = memory]
Reply(r) == Goto(r, "done", NoMemory)

Recorded(memory, outcome) ==
  [memory EXCEPT !.ledger[memory.cursor] = outcome, !.cursor = @ + 1]

\* runIfSatisfied, for the predicate 'satisfied'.
GuardMet(ledger, i) == Plan[i].runIf # 0 => ledger[Plan[i].runIf] = "satisfied"

\* A picked peer step has its handle and runs like any other.
Runs(r, i) ==
  \/ Plan[i].kind = "step"
  \/ Plan[i].kind = "pick" /\ mem[r].from = "pick" /\ mem[r].token[1] = i

At(r, kind) ==
  LET i == mem[r].cursor IN
  /\ pc[r] = "exec"
  /\ i \in Steps
  /\ mem[r].ledger[i] = "none"
  /\ GuardMet(mem[r].ledger, i)
  /\ Plan[i].kind = kind

-----------------------------------------------------------------------------
Init ==
  /\ policy \in Policies
  /\ parked = [t \in Token |-> [status |-> "none", ledger |-> NoLedger]]
  /\ proposed = {}
  /\ written = {}
  /\ pc = [r \in Requests |-> "idle"]
  /\ mem = [r \in Requests |-> NoMemory]
  /\ started = FALSE
  /\ issued = {}
  /\ crashes = 0
  /\ disturbed = FALSE
  /\ ran = [i \in Steps |-> 0]
  /\ last = NoLedger
  /\ sent = {}

\* runAssistant plans the request and runs the plan from its first step.
Request(r) ==
  /\ Arrives(r)
  /\ ~started
  /\ started' = TRUE
  /\ Goto(r, "exec", [NoMemory EXCEPT !.cursor = 1])
  /\ UNCHANGED <<files, issued, crashes, history>>

(***************************************************************************)
(* A message with a confirm token: resume the plan parked under it, or run *)
(* the lone write.                                                         *)
(***************************************************************************)
Confirm(r, i) ==
  LET token == <<i, "confirm">> IN
  /\ Arrives(r)
  /\ token \in issued
  /\ sent' = sent \cup {token}
  /\ Goto(r, "lookup",
          [cursor |-> i, token |-> token,
           ledger |-> IF parked[token].status = "pending"
                        THEN parked[token].ledger ELSE NoLedger,
           from   |-> IF parked[token].status = "pending" THEN "confirm" ELSE "lone"])
  /\ UNCHANGED <<files, started, issued, crashes, ran, last>>

\* A pick with a resume token: only a plan parked on a disambiguation is
\* resumed; any other text is a new request.
Pick(r, token) ==
  /\ Arrives(r)
  /\ token \in issued
  /\ token[2] # "confirm"
  /\ IF parked[token].status = "pending" /\ Plan[token[1]].kind = "pick"
       THEN Goto(r, "find", [cursor |-> token[1], token |-> token,
                             ledger |-> parked[token].ledger, from |-> "pick"])
       ELSE Reply(r)
  /\ sent' = sent \cup {token}
  /\ UNCHANGED <<files, started, issued, crashes, ran, last>>

-----------------------------------------------------------------------------
(***************************************************************************)
(* executePlanFrom: one iteration of the loop per action.                  *)
(***************************************************************************)
\* A step recorded on an earlier turn is not run again; a step whose guard
\* is not met is recorded as skipped.
Skip(r) ==
  LET i == mem[r].cursor IN
  /\ pc[r] = "exec"
  /\ i \in Steps
  /\ \/ /\ mem[r].ledger[i] # "none"
        /\ Goto(r, "exec", [mem[r] EXCEPT !.cursor = @ + 1])
        /\ UNCHANGED last
     \/ /\ mem[r].ledger[i] = "none"
        /\ ~GuardMet(mem[r].ledger, i)
        /\ Goto(r, "exec", Recorded(mem[r], "skipped"))
        /\ last' = [last EXCEPT ![i] = "skipped"]
  /\ UNCHANGED <<files, started, issued, crashes, disturbed, ran, sent>>

\* Every step is done: one reply is synthesized.
Finish(r) ==
  /\ pc[r] = "exec"
  /\ mem[r].cursor \notin Steps
  /\ Reply(r)
  /\ UNCHANGED <<files, started, issued, crashes, disturbed, history>>

\* A step that runs at once; a hard failure ends the plan, a miss does not.
RunStep(r, outcome) ==
  LET i == mem[r].cursor IN
  /\ At(r, Plan[i].kind)
  /\ Runs(r, i)
  /\ outcome = "hard-fail" => "step" \in Faults
  /\ ran' = [ran EXCEPT ![i] = @ + 1]
  /\ last' = [last EXCEPT ![i] = outcome]
  /\ IF outcome = "hard-fail" THEN Reply(r) ELSE Goto(r, "exec", Recorded(mem[r], outcome))
  /\ UNCHANGED <<files, started, issued, crashes, disturbed, sent>>

\* A write step: nothing to do when it is written, else propose it and park
\* the plan under its confirm token, or run it under the auto policy.
ReachWriteBlindly(r) == \* mutant: the confirmation gate is skipped
  /\ At(r, "write")
  /\ Goto(r, "write", mem[r])
  /\ UNCHANGED <<files, started, issued, crashes, disturbed, history>>
ReachWrite(r) ==
  LET i == mem[r].cursor IN
  /\ At(r, "write")
  /\ \/ /\ i \in written
        /\ Goto(r, "exec", Recorded(mem[r], "satisfied"))
        /\ UNCHANGED proposed
     \/ /\ i \notin written
        /\ policy = "auto"
        /\ Goto(r, "write", mem[r])
        /\ UNCHANGED proposed
     \/ /\ i \notin written
        /\ policy = "confirm"
        /\ proposed' = proposed \cup {i}
        /\ Goto(r, "park", [mem[r] EXCEPT !.token = <<i, "confirm">>])
  /\ UNCHANGED <<policy, parked, written, started, issued, crashes, disturbed, history>>

\* An ambiguous peer or a missing detail: park under a new token.
Ask(r) ==
  LET i == mem[r].cursor IN
  /\ At(r, "pick") \/ At(r, "info")
  /\ ~Runs(r, i)
  /\ Goto(r, "park", [mem[r] EXCEPT !.token = <<i, r>>])
  /\ UNCHANGED <<files, started, issued, crashes, disturbed, history>>

\* recordPendingPlan: the ledger holds the completed steps only.  The reply
\* gives the owner the token.
Park(r) ==
  /\ pc[r] = "park"
  /\ parked' = [parked EXCEPT ![mem[r].token] =
                  [status |-> "pending", ledger |-> mem[r].ledger]]
  /\ issued' = issued \cup {mem[r].token}
  /\ Reply(r)
  /\ UNCHANGED <<policy, proposed, written, started, crashes, disturbed, history>>

-----------------------------------------------------------------------------
\* What follows a write: resolve the parked plan, go on with the plan, or reply.
AfterWrite(r, outcome) ==
  LET memory == [mem[r] EXCEPT !.ledger[mem[r].cursor] = outcome] IN
  CASE mem[r].from = "confirm" -> Goto(r, "find", memory)
    [] mem[r].from = "lone" -> Reply(r)
    [] OTHER -> IF outcome = "hard-fail" THEN Reply(r)
                ELSE Goto(r, "exec", Recorded(mem[r], outcome))

\* runConfirmedWrite: a written proposal is not written again.
LookupUnwritten(r) == \* mutant: the 'written' entry is ignored
  /\ pc[r] = "lookup"
  /\ Goto(r, "write", mem[r])
  /\ UNCHANGED <<files, started, issued, crashes, disturbed, history>>
Lookup(r) ==
  /\ pc[r] = "lookup"
  /\ \/ mem[r].cursor \in written /\ AfterWrite(r, "satisfied")
     \/ mem[r].cursor \notin written /\ Goto(r, "write", mem[r])
  /\ UNCHANGED <<files, started, issued, crashes, disturbed, history>>

\* The calendar or mail call, and the 'written' entry that follows it.
Write(r) ==
  /\ pc[r] = "write"
  /\ ran' = [ran EXCEPT ![mem[r].cursor] = @ + 1]
  /\ last' = [last EXCEPT ![mem[r].cursor] = IF @ = "hard-fail" THEN @ ELSE "satisfied"]
  /\ Goto(r, "record", mem[r])
  /\ UNCHANGED <<files, started, issued, crashes, disturbed, sent>>

WriteFails(r) ==
  /\ "write" \in Faults
  /\ pc[r] = "write"
  /\ last' = [last EXCEPT ![mem[r].cursor] = "hard-fail"]
  /\ AfterWrite(r, "hard-fail")
  /\ UNCHANGED <<files, started, issued, crashes, disturbed, ran, sent>>

Record(r) ==
  /\ pc[r] = "record"
  /\ written' = written \cup {mem[r].cursor}
  /\ AfterWrite(r, "satisfied")
  /\ UNCHANGED <<policy, parked, proposed, started, issued, crashes, disturbed, history>>

-----------------------------------------------------------------------------
\* From the cursor on: a failed write ends the plan, a confirmed one is in
\* the ledger, a picked step is still to run.
Rest(memory) == [memory EXCEPT !.from = IF @ = "confirm" THEN "request" ELSE @]
Resume(r) ==
  IF mem[r].ledger[mem[r].cursor] = "hard-fail" THEN Reply(r) ELSE Goto(r, "exec", Rest(mem[r]))

\* resolvePendingPlan: find the plan, then append its 'resolved' line.
Find(r) ==
  /\ pc[r] = "find"
  /\ IF parked[mem[r].token].status = "pending"
       THEN Goto(r, "resolve", mem[r])
       ELSE Resume(r)
  /\ UNCHANGED <<files, started, issued, crashes, disturbed, history>>

ResolveNothing(r) == \* mutant: the plan stays pending
  /\ pc[r] = "resolve"
  /\ Resume(r)
  /\ UNCHANGED <<files, started, issued, crashes, disturbed, history>>
Resolve(r) ==
  /\ pc[r] = "resolve"
  /\ parked' = [parked EXCEPT ![mem[r].token].status = "resolved"]
  /\ Resume(r)
  /\ UNCHANGED <<policy, proposed, written, started, issued, crashes, disturbed, history>>

Crash ==
  /\ crashes < MaxCrashes
  /\ InFlight # {}
  /\ pc' = [r \in Requests |-> IF r \in InFlight THEN "lost" ELSE pc[r]]
  /\ mem' = [r \in Requests |-> NoMemory]
  /\ crashes' = crashes + 1 /\ disturbed' = TRUE
  /\ UNCHANGED <<files, started, issued, history>>

Step(r) ==
  \/ Skip(r) \/ Finish(r) \/ ReachWrite(r) \/ Ask(r) \/ Park(r)
  \/ \E outcome \in {"satisfied", "soft-miss", "hard-fail"} : RunStep(r, outcome)
  \/ Lookup(r) \/ Write(r) \/ WriteFails(r) \/ Record(r) \/ Find(r) \/ Resolve(r)

Message(r) ==
  \/ Request(r)
  \/ \E i \in Steps : Confirm(r, i)
  \/ \E token \in Token : Pick(r, token)

Next == \/ \E r \in Requests : Message(r) \/ Step(r)
        \/ Crash

Spec == Init /\ [][Next]_vars
FairSpec == Spec /\ \A r \in Requests : WF_vars(Step(r))

-----------------------------------------------------------------------------
TypeOK ==
  /\ policy \in Policies
  /\ parked \in [Token -> Entry]
  /\ proposed \subseteq Steps /\ written \subseteq Steps
  /\ policy = "confirm" => written \subseteq proposed
  /\ pc \in [Requests -> Stage] /\ mem \in [Requests -> Memory]
  /\ started \in BOOLEAN /\ issued \subseteq Token /\ crashes \in Nat /\ disturbed \in BOOLEAN
  /\ ran \in [Steps -> Nat] /\ last \in Ledger /\ sent \subseteq issued

\* No write runs under the confirm policy before the owner sent its token.
WritesNeedConsent ==
  policy = "confirm" =>
    \A i \in Steps : Plan[i].kind = "write" /\ ran[i] > 0 => <<i, "confirm">> \in sent

\* However often a token is replayed, each step has its effect at most once
\* ("a replayed confirm token can't re-run it", pending-plan.ts).
AtMostOnce == \A i \in Steps : ran[i] <= 1

\* A guarded step ran only if the step it depends on was satisfied, also when
\* the plan was parked in between.
GuardsHold ==
  \A j \in Steps : ran[j] > 0 /\ Plan[j].runIf # 0 => last[Plan[j].runIf] = "satisfied"

\* When nothing runs, the plan waits for the owner, failed, or is complete:
\* one confirm both runs the write and resumes the rest (pending-plan.ts).
NothingStranded ==
  InFlight = {} /\ started =>
    \/ \E t \in Token : parked[t].status = "pending"
    \/ \E i \in Steps : last[i] = "hard-fail"
    \/ \A i \in Steps : last[i] # "none"

\* Once the owner answered, the plan is no longer parked on that question - a
\* missing detail excepted: no path resumes a plan parked with 'needs-input'.
AnswerResumes ==
  InFlight = {} =>
    \A t \in sent : Plan[t[1]].kind # "info" => parked[t].status # "pending"

\* One message at a time, however tokens are replayed: every step has its effect
\* once at most and only under its guard, an answered question is no longer
\* asked, and a plan at rest waits for the owner, failed, or is complete.
RunsOnceToTheEnd ==
  TypeOK /\ (~disturbed => AtMostOnce /\ GuardsHold /\ AnswerResumes /\ NothingStranded)

=============================================================================
