----------------------------- MODULE OwnerTurn ------------------------------
(***************************************************************************)
(* One turn of an owner with their assistant, from the message to the      *)
(* reply: the planner and its offline stand-in                             *)
(* (agent/src/blocks/openclaw-client.ts), the plan they return as          *)
(* plan-schema.ts repairs it, and what assistant-runtime.ts does with each *)
(* step - which mode, which account, which peer - until it has a reply.    *)
(*                                                                         *)
(* PlanResume is about turns that overlap and crash.  Here turns follow    *)
(* each other, and between them the bridge may restart with other          *)
(* settings, an owner may connect an account and a roster may change.      *)
(*                                                                         *)
(* A step id "stepN" is the number N; ids of the planner's own are numbers *)
(* too.  Every owner has one calendar event and one mail to write, *)
(* so a write's idempotency id is its tool.                                *)
(***************************************************************************)
EXTENDS Naturals, Sequences, FiniteSets

CONSTANTS
  Tenants,     \* owners bound to this bridge
  Assistants,  \* handles of their peers' assistants
  Own,         \* [Tenants -> handle]
  Named,       \* [references -> handles whose owner or display name fits]
  Messages,    \* requests: [segments, person, plans], with the plans the live
               \* planner may return for them
  Settings,    \* environments the bridge may run with
  MaxSteps, MaxTurns, MaxRestarts, MaxEdits

VARIABLES
  setting,     \* [mode, policy, live, wired] of the running bridge
  connected,   \* tenants with an integration record
  invited,     \* rosters
  audit,       \* state directory -> tool -> what booking-audit.jsonl holds
  waiting,     \* state directory -> plans pending in pending-plans.jsonl
  turn,        \* the turn under way or the last one
  effect,      \* history: the call the last step made to the world
  wrote,       \* history: how often each write succeeded
  turns, restarts, edits

turnVars == <<setting, connected, invited, audit, waiting, turn, effect, wrote, turns,
              restarts, edits>>
outside == <<setting, connected, invited, restarts, edits>>

NoId == 0
NoRef == "nobody"
Writes == {"event", "mail"}            \* WRITE_TOOLS
Blockable == {"event", "mail", "draft"} \* READONLY_BLOCKED_TOOLS
Google == {"read", "event", "mail", "draft"}
Known == {"satisfied", "soft-miss", "free", "busy"} \* runIf predicates

Action(kind, to, id, from, when, ref) ==
  [kind |-> kind, to |-> to, id |-> id, from |-> from, when |-> when, ref |-> ref]
Direct == Action("direct", NoRef, NoId, NoId, "none", NoId)
NoPlan == <<>>

Kinds == Google \cup {"direct", "specialist", "catalog", "peer", "malformed"}
References == DOMAIN Named \cup Assistants \cup {NoRef}
\* A planner may name steps and conditions as it likes.
Actions == [kind : Kinds, to : References, id : Nat, from : Nat,
            when : Known \cup {"none", "other"}, ref : Nat]

ASSUME TurnAssumption ==
  /\ Settings \subseteq [mode : {"readonly", "booking", "open"}, policy : {"auto", "confirm"},
                        live : BOOLEAN, wired : BOOLEAN]
  /\ IsFiniteSet(Assistants) /\ Own \in [Tenants -> Assistants]
  /\ MaxSteps \in Nat \ {0} /\ {MaxTurns, MaxRestarts, MaxEdits} \subseteq Nat
  /\ Messages \subseteq [segments : Seq(Actions), person : References, plans : SUBSET Seq(Actions)]

-----------------------------------------------------------------------------
(***************************************************************************)
(* plan-schema.ts.  A validated step also keeps, for the properties, the   *)
(* id the planner gave it and the condition it set.                        *)
(***************************************************************************)
UniqueStepId(raw, index, seen) ==
  LET candidate == IF raw = NoId THEN index ELSE raw
  IN  IF candidate \notin seen THEN candidate
      ELSE CHOOSE n \in index .. index + Cardinality(seen) :
             n \notin seen /\ \A k \in index .. n - 1 : k \in seen

\* normalizeRunIf: a condition it does not know is dropped.
Normalized(raw, id) ==
  LET known == raw.from # NoId /\ raw.when \in Known IN
  [kind |-> raw.kind, to |-> raw.to, id |-> id, ref |-> raw.ref,
   from |-> IF known THEN raw.from ELSE NoId,
   when |-> IF known THEN raw.when ELSE "none",
   named |-> raw.id, askedOf |-> raw.from, asked |-> raw.when]

Ids(steps) == {steps[i].id : i \in DOMAIN steps}

\* normalizeSteps: step by step, each under an id no earlier one has.
WithStep(done, raw) ==
  Append(done, Normalized(raw, UniqueStepId(raw.id, Len(done) + 1, Ids(done))))
NormalizeSteps(kept) ==
  LET steps[n \in 0 .. Len(kept)] == IF n = 0 THEN <<>> ELSE WithStep(steps[n - 1], kept[n])
  IN  steps[Len(kept)]

\* validatePlan: one malformed step among the first MaxSteps spoils the plan.
ValidatePlan(raw) ==
  LET kept == SubSeq(raw, 1, IF Len(raw) > MaxSteps THEN MaxSteps ELSE Len(raw))
  IN  IF kept = <<>> \/ \E i \in DOMAIN kept : kept[i].kind = "malformed"
        THEN <<Normalized(Direct, 1)>>
        ELSE NormalizeSteps(kept)

\* planNeededRepair: kinds and targets must be as the planner gave them.
NeededRepair(raw, plan) ==
  Len(raw) # Len(plan) \/ \E i \in DOMAIN plan : raw[i].kind # plan[i].kind

-----------------------------------------------------------------------------
\* threadSteps: what a step produced goes into the next one.
Threaded(steps) ==
  [i \in DOMAIN steps |->
     IF /\ i > 1 /\ steps[i - 1].kind \in {"specialist", "read"}
        /\ steps[i].kind \in {"peer", "mail", "draft", "specialist"}
       THEN [steps[i] EXCEPT !.ref = i - 1] ELSE steps[i]]

Availability(person) ==
  <<Action("read", NoRef, 1, NoId, "none", NoId), Action("peer", person, 2, NoId, "none", 1)>>

\* planPersonalAssistant: a compound request, a coordination, or one action.
Stub(message) ==
  LET segments == message.segments
  IN  IF Len(segments) > 1
        THEN Threaded([i \in DOMAIN segments |-> [segments[i] EXCEPT !.id = i]])
      ELSE IF message.person # NoRef THEN Availability(message.person)
      ELSE segments

\* planRequest: the live plan if it is usable as it is, else the stub's.
PlanRequest(raw, message) ==
  IF setting.live /\ raw # NoPlan /\ ~NeededRepair(raw, ValidatePlan(raw))
    THEN ValidatePlan(raw)
    ELSE ValidatePlan(Stub(message))

\* repairPeerCoordinationPlan
Repaired(message, plan) ==
  IF /\ message.person # NoRef
     /\ \A i \in DOMAIN plan : plan[i].kind # "peer"
     /\ plan[1].kind \in {"read", "direct"}
    THEN ValidatePlan(Availability(message.person))
    ELSE plan

-----------------------------------------------------------------------------
(***************************************************************************)
(* What a step may come to.  `made` says that it reached the world, `how`  *)
(* what a calendar read gave: "free" and "busy" are intervals, "text" and  *)
(* "failed" are not.                                                       *)
(***************************************************************************)
Came(class, made, how) == [class |-> class, made |-> made, how |-> how]
Quietly(class) == Came(class, FALSE, "none")
Throws == Quietly("throws")

\* writeBlockedByMode
Blocked(tool) ==
  /\ setting.mode \in {"readonly", "booking"}
  /\ ~(tool = "event" /\ setting.mode = "booking")
  /\ tool \in Blockable

BookingPolicy == IF setting.mode = "booking" THEN "confirm" ELSE setting.policy

\* resolveDefaultIntegration and resolveDefaultSendA2A with what they give:
\* offline a stub answers, a live bridge without its server or key refuses.
Runner ==
  IF ~setting.live THEN {Came("satisfied", TRUE, "stub")}
  ELSE IF setting.wired THEN {Came("satisfied", TRUE, "live"), Throws}
  ELSE {Throws}

\* runUseIntegration's first gate: ownerIntegrationConnected.
MustConnect(o) == setting.live /\ o \notin connected

UseRead(o) ==
  IF MustConnect(o) THEN {Quietly("satisfied")}
  ELSE UNION {IF r.how # "live" THEN {r}
              ELSE {Came("satisfied", TRUE, how) : how \in {"free", "busy", "text", "failed"}}
                : r \in Runner}

\* prepareWriteArgs: a recipient that is missing or fits several contacts, a
\* time that is missing.
Asks(tool) ==
  IF tool # "event" THEN {Quietly("info"), Quietly("choose")}
  ELSE IF setting.mode = "booking" THEN {Quietly("info")} ELSE {}

\* email.draft does not look at the result it gets.
UseDraft(o) ==
  IF MustConnect(o) THEN {Quietly("satisfied")}
  ELSE IF Blocked("draft") THEN {Quietly("soft-miss")}
  ELSE Asks("draft") \cup Runner

\* runWriteTool: an error of the tool is a failed write.
RunWrite == UNION {{r} \cup (IF r.made THEN {Came("hard-fail", TRUE, r.how)} ELSE {})
                     : r \in Runner}

\* runWriteIntegration
UseWrite(o, dir, tool) ==
  IF MustConnect(o) THEN {Quietly("satisfied")}
  ELSE IF Blocked(tool) THEN {Quietly("soft-miss")}
  ELSE Asks(tool) \cup
       (IF audit[dir][tool] = "written" THEN {Quietly("satisfied")}
        ELSE IF BookingPolicy = "confirm" THEN {Quietly("confirm")}
        ELSE RunWrite)

\* runConfirmedWrite: the mode is looked at again, the account is not.
ConfirmUnblocked(dir, tool) == \* mutant: the mode of the proposal counts
  IF audit[dir][tool] = "none" THEN {Quietly("hard-fail")}
  ELSE IF audit[dir][tool] = "written" THEN {Quietly("satisfied")}
  ELSE RunWrite
ConfirmAgain(dir, tool) == \* mutant: the 'written' entry is not looked for
  IF audit[dir][tool] = "none" \/ Blocked(tool) THEN {Quietly("hard-fail")} ELSE RunWrite
ConfirmedWrite(dir, tool) ==
  IF audit[dir][tool] = "none" \/ Blocked(tool) THEN {Quietly("hard-fail")}
  ELSE IF audit[dir][tool] = "written" THEN {Quietly("satisfied")}
  ELSE RunWrite

\* resolvePeerTarget: whom a step may call, of whom the owner has to pick one.
Fitting(o, ref) == {h \in invited[o] : h \in Named[ref]}
FirstFitting(o, to) == \* mutant: the first of several is taken
  IF to \in Assistants \cup {Own[o]} THEN {to} \cap (invited[o] \ {Own[o]})
  ELSE IF to = NoRef \/ Own[o] \in Named[to] \/ Fitting(o, to) = {} THEN {}
  ELSE {CHOOSE h \in Fitting(o, to) : TRUE}
PeerTargets(o, to) ==
  IF to \in Assistants \cup {Own[o]} THEN {to} \cap (invited[o] \ {Own[o]})
  ELSE IF to = NoRef \/ Own[o] \in Named[to] THEN {}
  ELSE Fitting(o, to)

\* runOutboundA2A: an expected miss, a question, or a call - see PeerCalls.
UsePeer(o, to) ==
  LET n == Cardinality(PeerTargets(o, to))
  IN  IF n = 0 THEN {Quietly("soft-miss")}
      ELSE IF n > 1 THEN {Quietly("pick")}
      ELSE {Quietly("hard-fail")} \cup Runner

\* runSpecialistStep, specialistOutcome.
UseSpecialist ==
  {Came("satisfied", TRUE, "live"), Came("soft-miss", TRUE, "live"), Quietly("soft-miss"),
   Came("hard-fail", TRUE, "live"), Throws}

\* dispatchStepOutcome
Outcomes(o, dir, step) ==
  CASE step.kind = "direct" -> {Quietly("satisfied")}
    [] step.kind = "specialist" -> UseSpecialist
    [] step.kind = "catalog" -> {Quietly("satisfied"), Quietly("soft-miss")}
    [] step.kind = "peer" -> UsePeer(o, step.to)
    [] step.kind = "read" -> UseRead(o)
    [] step.kind = "draft" -> UseDraft(o)
    [] OTHER -> UseWrite(o, dir, step.kind)

-----------------------------------------------------------------------------
NoEffect == [what |-> "none", asked |-> NoRef, to |-> NoRef, how |-> "none", via |-> "none"]
NoTurn == [pc |-> "idle", owner |-> NoRef, home |-> NoRef, plan |-> NoPlan, cursor |-> 0,
           ledger |-> <<>>, alone |-> FALSE]

\* buildMultiTenantAssistantRoute: every tenant has directories of its own.
Dir(o) == o

TurnInit ==
  /\ setting \in Settings
  /\ connected \in SUBSET Tenants
  /\ invited = [o \in Tenants |-> Assistants \ {Own[o]}]
  /\ audit = [o \in Tenants |-> [tool \in Writes |-> "none"]]
  /\ waiting = [o \in Tenants |-> {}]
  /\ turn = NoTurn /\ effect = NoEffect
  /\ wrote = [o \in Tenants |-> [tool \in Writes |-> 0]]
  /\ turns = 0 /\ restarts = 0 /\ edits = 0

NewTurn == turn.pc # "exec" /\ turns < MaxTurns /\ turns' = turns + 1

\* runAssistant replies before it plans: the caller is not the owner, there is
\* nothing to answer, a picture was read, the bridge is read-only.
AnswerAtOnce(o) ==
  /\ NewTurn
  /\ turn' = [NoTurn EXCEPT !.pc = "told", !.owner = o, !.home = o]
  /\ effect' = NoEffect
  /\ UNCHANGED <<outside, audit, waiting, wrote>>

Ask(o, message, raw) ==
  LET plan == Repaired(message, PlanRequest(raw, message)) IN
  /\ NewTurn
  /\ turn' = [pc |-> "exec", owner |-> o, home |-> o, plan |-> plan, cursor |-> 1,
              ledger |-> <<>>, alone |-> Len(plan) = 1]
  /\ effect' = NoEffect
  /\ UNCHANGED <<outside, audit, waiting, wrote>>

-----------------------------------------------------------------------------
\* friendlyIntegrationReply: a read that gave no intervals says "free".
Said(step, r) ==
  IF step.kind = "read" /\ r.made THEN (IF r.how = "busy" THEN "busy" ELSE "free") ELSE "other"
Entry(step, r) ==
  [id |-> step.id, class |-> r.class, made |-> r.made, how |-> r.how, said |-> Said(step, r)]
Recorded(id) == {k \in DOMAIN turn.ledger : turn.ledger[k].id = id}

\* runIfSatisfied, calendarFreeBusyCount.
OpenGuard(step) == \* mutant: a read without intervals counts as free
  step.from # NoId =>
    \E k \in Recorded(step.from) :
      \/ step.when = turn.ledger[k].class
      \/ step.when = "free" /\ turn.ledger[k].how # "busy"
      \/ step.when = "busy" /\ turn.ledger[k].how = "busy"
GuardMet(step) ==
  step.from # NoId =>
    \E k \in Recorded(step.from) : step.when \in {turn.ledger[k].class, turn.ledger[k].how}

\* What a write leaves in the booking audit.
Audited(o, step, r) ==
  LET made == r.made /\ r.class = "satisfied" IN
  IF step.kind \notin Writes THEN UNCHANGED <<audit, wrote>>
  ELSE /\ audit' = IF made THEN [audit EXCEPT ![Dir(o)][step.kind] = "written"]
                   ELSE IF r.class = "confirm" THEN [audit EXCEPT ![Dir(o)][step.kind] = "proposed"]
                   ELSE audit
       /\ wrote' = IF made THEN [wrote EXCEPT ![o][step.kind] = @ + 1] ELSE wrote

Reached(o, step, r, via) ==
  effect' = IF ~r.made THEN NoEffect
            ELSE [what |-> step.kind, asked |-> step.to, how |-> r.how, via |-> via,
                  to |-> IF step.kind = "peer" THEN CHOOSE h \in PeerTargets(o, step.to) : TRUE
                         ELSE NoRef]

Pauses == {"confirm", "pick", "choose", "info"}
Token(step, class) == IF class = "confirm" THEN <<step.kind, 0>> ELSE <<"resume", turns>>
Without(dir, token) == {w \in waiting[dir] : w.token # token}

\* recordPendingPlan, parkSinglePeerDisambiguation: of a single action only a
\* peer to pick is parked.
Park(step, class) ==
  LET token == Token(step, class)
      w == [token |-> token, home |-> turn.owner, plan |-> turn.plan, cursor |-> turn.cursor,
            ledger |-> turn.ledger,
            reason |-> IF class \in {"pick", "choose"} THEN "disambiguation" ELSE class]
  IN  waiting' = IF turn.alone /\ class # "pick" THEN waiting
                 ELSE [waiting EXCEPT ![Dir(turn.owner)] = Without(Dir(turn.owner), token) \cup {w}]

\* One pass of executePlanFrom's loop, or the dispatch of a single action.
RunStep ==
  LET o == turn.owner  step == turn.plan[turn.cursor] IN
  /\ turn.pc = "exec" /\ turn.cursor <= Len(turn.plan)
  /\ Recorded(step.id) = {} /\ (turn.alone \/ GuardMet(step))
  /\ \E r \in Outcomes(o, Dir(o), step) :
       /\ Audited(o, step, r) /\ Reached(o, step, r, "plan")
       /\ IF r.class \in Pauses THEN Park(step, r.class) ELSE UNCHANGED waiting
       /\ turn' = CASE r.class = "throws" -> [turn EXCEPT !.pc = "error"]
                    [] r.class \in Pauses -> [turn EXCEPT !.pc = "told"]
                    [] r.class = "hard-fail" ->
                         [turn EXCEPT !.ledger = Append(@, Entry(step, r)),
                                      !.pc = IF turn.alone /\ step.kind = "specialist"
                                               THEN "error" ELSE "told"]
                    [] OTHER -> [turn EXCEPT !.ledger = Append(@, Entry(step, r)),
                                             !.cursor = @ + 1]
  /\ UNCHANGED <<outside, turns>>

PassStep ==
  LET step == turn.plan[turn.cursor] IN
  /\ turn.pc = "exec" /\ turn.cursor <= Len(turn.plan) /\ ~turn.alone
  /\ \/ Recorded(step.id) # {} /\ turn' = [turn EXCEPT !.cursor = @ + 1]
     \/ /\ Recorded(step.id) = {} /\ ~GuardMet(step)
        /\ turn' = [turn EXCEPT !.ledger = Append(@, Entry(step, Quietly("skipped"))),
                                !.cursor = @ + 1]
  /\ effect' = NoEffect
  /\ UNCHANGED <<outside, audit, waiting, wrote, turns>>

\* synthesizeStepPlan of a complete plan, or the reply of a single action.
FinishTurn ==
  /\ turn.pc = "exec" /\ turn.cursor > Len(turn.plan)
  /\ turn' = [turn EXCEPT !.pc = "complete"]
  /\ effect' = NoEffect
  /\ UNCHANGED <<outside, audit, waiting, wrote, turns>>

-----------------------------------------------------------------------------
(***************************************************************************)
(* A message with a token.                                                 *)
(***************************************************************************)
NoStep(tool) == Normalized(Action(tool, NoRef, 1, NoId, "none", NoId), 1)
Resumed(w, plan, ledger, cursor) ==
  [pc |-> "exec", owner |-> w.home, home |-> w.home, plan |-> plan, cursor |-> cursor,
   ledger |-> ledger, alone |-> FALSE]

\* runConfirmedWrite and, when a plan waits for it, resumeConfirmedPlan: the
\* plan is resolved whatever came of the write, unless it throws.
Confirm(o, tool) ==
  LET dir == Dir(o)
      pending == {w \in waiting[dir] : w.token = <<tool, 0>>}
      told == [NoTurn EXCEPT !.pc = "told", !.owner = o, !.home = o]
  IN
  /\ NewTurn /\ setting.mode # "readonly"
  /\ \E r \in ConfirmedWrite(dir, tool) :
       /\ Audited(o, NoStep(tool), r) /\ Reached(o, NoStep(tool), r, "confirm")
       /\ IF pending = {}
            THEN turn' = (IF r.class = "throws" THEN [told EXCEPT !.pc = "error"] ELSE told)
                 /\ UNCHANGED waiting
          ELSE LET w == CHOOSE w \in pending : TRUE
                   back == [Resumed(w, w.plan, w.ledger, w.cursor) EXCEPT !.owner = o]
                   entry == Entry(w.plan[w.cursor], r)
               IN  IF r.class = "throws"
                     THEN turn' = [back EXCEPT !.pc = "error"] /\ UNCHANGED waiting
                   ELSE /\ waiting' = [waiting EXCEPT ![dir] = @ \ pending]
                        /\ turn' = [back EXCEPT !.ledger = Append(@, entry),
                                                !.pc = IF r.class = "hard-fail" THEN "told" ELSE @,
                                                !.cursor = IF r.class = "hard-fail" THEN @ ELSE @ + 1]
  /\ UNCHANGED outside

\* resumeDisambiguatedPlan: the step asks for the assistant the owner named.
PickPeer(o, w, h) ==
  LET at == w.plan[w.cursor]
      plan == IF at.kind = "peer" THEN [w.plan EXCEPT ![w.cursor].to = h] ELSE w.plan
  IN
  /\ NewTurn
  /\ w \in waiting[Dir(o)] /\ w.reason = "disambiguation"
  /\ turn' = [Resumed(w, plan, w.ledger, w.cursor) EXCEPT !.owner = o]
  /\ waiting' = [waiting EXCEPT ![Dir(o)] = @ \ {w}]
  /\ effect' = NoEffect
  /\ UNCHANGED <<outside, audit, wrote>>

-----------------------------------------------------------------------------
\* Between turns.
Restart ==
  /\ turn.pc # "exec" /\ restarts < MaxRestarts /\ restarts' = restarts + 1
  /\ setting' \in Settings \ {setting}
  /\ effect' = NoEffect
  /\ UNCHANGED <<connected, invited, audit, waiting, turn, wrote, turns, edits>>

ConnectAccount(o) ==
  /\ turn.pc # "exec" /\ edits < MaxEdits /\ edits' = edits + 1
  /\ o \notin connected /\ connected' = connected \cup {o}
  /\ effect' = NoEffect
  /\ UNCHANGED <<setting, invited, audit, waiting, turn, wrote, turns, restarts>>

EditRoster(o, h) ==
  /\ turn.pc # "exec" /\ edits < MaxEdits /\ edits' = edits + 1
  /\ invited' = [invited EXCEPT ![o] = IF h \in @ THEN @ \ {h} ELSE @ \cup {h}]
  /\ effect' = NoEffect
  /\ UNCHANGED <<setting, connected, audit, waiting, turn, wrote, turns, restarts>>

TurnStep == RunStep \/ PassStep \/ FinishTurn
TurnNext ==
  \/ TurnStep \/ Restart
  \/ \E o \in Tenants :
       \/ AnswerAtOnce(o) \/ ConnectAccount(o)
       \/ \E message \in Messages : \E raw \in message.plans \cup {NoPlan} : Ask(o, message, raw)
       \/ \E tool \in Writes : Confirm(o, tool)
       \/ \E w \in waiting[Dir(o)], h \in Assistants : PickPeer(o, w, h)
       \/ \E h \in Assistants \ {Own[o]} : EditRoster(o, h)

TurnSpec == TurnInit /\ [][TurnNext]_turnVars

-----------------------------------------------------------------------------
TurnTypeOK ==
  /\ setting \in Settings /\ connected \subseteq Tenants
  /\ invited \in [Tenants -> SUBSET Assistants]
  /\ audit \in [Tenants -> [Writes -> {"none", "proposed", "written"}]]
  /\ \A o \in Tenants : \A w \in waiting[o] : w.cursor \in DOMAIN w.plan
  /\ turn.cursor \in 0 .. Len(turn.plan) + 1
  /\ turn.pc \in {"idle", "exec", "told", "complete", "error"}
  /\ turns \in 0 .. MaxTurns /\ restarts \in 0 .. MaxRestarts /\ edits \in 0 .. MaxEdits

\* A read-only bridge neither books, mails nor drafts, and one that may only
\* book neither mails nor drafts - also when the token was given out before a
\* restart changed the mode ("regardless of what the brain planned").
ModeObeyed == effect.what \in Blockable => ~Blocked(effect.what)

\* Where a confirmation is asked for - booking mode always does - no write is
\* made except by its token.
ConsentGiven ==
  effect.what \in Writes /\ setting.mode # "open" => effect.via = "confirm"

\* An assistant is only asked if it is on the roster now, is not the owner's
\* own, and is the only one the name fits or the one the owner picked.
PeerChosen ==
  effect.what = "peer" =>
    LET o == turn.owner IN
    /\ effect.to \in invited[o] \ {Own[o]}
    /\ \/ effect.asked = effect.to
       \/ {h \in invited[o] : h \in Named[effect.asked]} = {effect.to}

\* A live bridge never takes the offline stub's answer for a result ("never
\* silently fall through to the offline stub").
LiveIsLive == effect.how = "stub" => ~setting.live

\* An owner without an account is told to connect one.  The exception is a
\* confirmed write: only the step that proposed it looks for the account.
AccountNeeded ==
  effect.what \in Google /\ effect.via = "plan" /\ setting.live => turn.owner \in connected

\* The ledger is the beginning of the plan, over pauses and picks, however the
\* planner named its steps, and all of it once the plan is complete: no step is
\* lost, repeated or out of order.
NoStepLost ==
  turn.plan # NoPlan /\ ~turn.alone =>
    /\ Len(turn.ledger) <= Len(turn.plan)
    /\ \A i \in DOMAIN turn.ledger : turn.ledger[i].id = turn.plan[i].id
    /\ turn.pc = "complete" => Len(turn.ledger) = Len(turn.plan)

\* The step a condition names: the first the planner gave that id, else the
\* one at that place.
Called(plan, id) == {i \in DOMAIN plan : plan[i].named = id}
Meant(plan, id) ==
  IF Called(plan, id) = {} THEN {i \in DOMAIN plan : i = id}
  ELSE {i \in Called(plan, id) : \A j \in Called(plan, id) : i <= j}

\* A step whose own id was taken moved on to this one, or had it by its place before
\* another was called so.
Shadowed(plan, id) ==
  \E j \in DOMAIN plan \ Called(plan, id) :
    plan[j].id = id /\ (j # id \/ Called(plan, id) # {})

\* A step with a condition the validator knows reached the world only if an
\* earlier step ended that way, the one the condition names unless that id is
\* shadowed; a calendar that could not be read is neither free nor busy ("so
\* free/busy guards both fail closed").
ConditionsHold ==
  ~turn.alone =>
    \A i \in DOMAIN turn.ledger :
      LET step == turn.plan[i] IN
      turn.ledger[i].made /\ step.askedOf # NoId /\ step.asked \in Known =>
        \E k \in 1 .. i - 1 :
          /\ turn.plan[k].id = step.askedOf
          /\ k \in Meant(turn.plan, step.askedOf) \/ Shadowed(turn.plan, step.askedOf)
          /\ step.asked \in {"satisfied", "soft-miss"} => turn.ledger[k].class = step.asked
          /\ step.asked \in {"free", "busy"} => turn.ledger[k].how = step.asked

\* A write is made at most once for an owner, through however many plans,
\* tokens, turns and restarts it is asked for.
WrittenOnce == \A o \in Tenants, tool \in Writes : wrote[o][tool] <= 1

\* A calendar that could not be read is not reported as free ("an expired token
\* surfaces later as a runtime error with a Retry remedy").
FailedReadSurfaces ==
  \A i \in DOMAIN turn.ledger : turn.ledger[i].how = "failed" => turn.ledger[i].said # "free"

\* A plan is resumed only by the owner it was parked for.
PlansStayHome == turn.owner = turn.home

\* Every call a turn makes to the world is one the mode, the booking policy and the
\* account allow, and no answer of the offline stub passes for a result.
CallsAllowed == ModeObeyed /\ ConsentGiven /\ AccountNeeded /\ LiveIsLive

\* Whatever the planner returned, the ledger is the beginning of the plan, over
\* pauses and picks, the plan is its owner's, and a step with a condition reached the
\* world only if the step it names ended that way.
PlanFollowed == TurnTypeOK /\ NoStepLost /\ PlansStayHome /\ ConditionsHold
=============================================================================
