------------------------------- MODULE Fanout -------------------------------
(***************************************************************************)
(* Hiring agents of the network: pipeline/fanout.ts (retry, time limit,    *)
(* race, quorum, judge), the chain of pipeline/pipeline.ts, and the        *)
(* bridge's endpoints over them: fan-out, image generation in its two      *)
(* phases, and the routes that try one candidate after the other.          *)
(*                                                                         *)
(* Agents are numbers in the order an endpoint takes them; what they       *)
(* answer is abstracted to whether it holds an image.  An agent whose call *)
(* ran into its time limit goes on working: only its answer is dropped.    *)
(***************************************************************************)
EXTENDS Integers, FiniteSets

CONSTANTS Agents,  \* a finite set of numbers
          Tries,   \* attempts of a fan-out or a chain
          Quorums, \* what a caller asks for in mode "quorum"
          Limit    \* how many are called at most

ASSUME FanoutAssumption ==
  /\ IsFiniteSet(Agents) /\ Agents \subseteq Nat \ {0} /\ Quorums \subseteq Nat \ {0}
  /\ Tries \in Nat \ {0} /\ Limit \in Nat

VARIABLES
  mode,      \* "all", "race", "quorum", "best"; "random" or "selected" ones in
             \* turn until one succeeds, "chain" each with the last one's
             \* answer, "single" one call
  quorum, image, online,
  consent,   \* the caller agreed to pay
  paid,      \* what the catalog says of each agent now
  stage,     \* "discover", "targets", "calls", "judge", "done", "failed", "refused"
  offered,   \* handles that passed the billing gate
  targets,
  seen,      \* "free" or "paid", as it said when this session found the agent
  st,        \* callWithRetry of each target
  attempt, outcome, hasImage,
  closed,    \* BlocksSession.closed
  winner     \* the judge's verdict, 0 for none

fvars == <<mode, quorum, image, online, consent, paid, stage, offered, targets, seen, st,
           attempt, outcome, hasImage, closed, winner>>
request == <<quorum, image, online, consent>>

FirstOf(S, n) == {a \in S : Cardinality({b \in S : b < a}) < n}

\* routeRandomBlocksAgent and routeSelectedBlocksAgent.
Turns == {"random", "selected"}

FanoutInit ==
  /\ mode \in {"all", "race", "quorum", "best", "chain", "single"} \cup Turns
  /\ image \in BOOLEAN /\ online \in BOOLEAN /\ consent \in BOOLEAN
  /\ quorum \in Quorums \cup {0} /\ (mode = "quorum" <=> quorum > 0)
  /\ IF image THEN mode \in {"all", "race", "best", "single"} ELSE mode # "single" /\ ~consent
  /\ paid \in [Agents -> BOOLEAN]
  /\ stage = IF image THEN "discover" ELSE "targets"
  /\ offered = Agents /\ targets = {}
  /\ seen = [a \in Agents |-> "no"]
  /\ st = [a \in Agents |-> "idle"] /\ attempt = [a \in Agents |-> 0]
  /\ outcome = [a \in Agents |-> "none"] /\ hasImage = [a \in Agents |-> FALSE]
  /\ closed = FALSE /\ winner = 0

-----------------------------------------------------------------------------
(* Discovery and the billing gate *)

Free(pool) == {a \in pool : ~paid[a]}
Seen(pool) == [a \in Agents |-> CASE a \notin pool -> "no"
                                  [] a \in Free(pool) -> "free"
                                  [] OTHER -> "paid"]

\* discover(): online only what is free, offline the whole mock catalog.
Discovered(pool) == IF online THEN Free(pool) ELSE pool
Affordable(pool) == IF online /\ ~consent THEN Free(pool) ELSE pool

\* Phase 1 of apiGenerateImage: discover, gate, and one hire when one will do.
DiscoverImage ==
  /\ stage = "discover"
  /\ \E pool \in SUBSET Agents :
       LET free == Affordable(Discovered(pool))
       IN  /\ seen' = Seen(pool)
           /\ \/ /\ free = {} /\ closed' = TRUE
                 /\ stage' = IF Discovered(pool) = {} THEN "failed" ELSE "refused"
                 /\ UNCHANGED <<mode, offered, targets>>
              \/ /\ free # {} /\ (mode = "single" \/ Cardinality(free) = 1)
                 /\ mode' = "single" /\ stage' = "calls"
                 /\ \E a \in free : targets' = {a}
                 /\ UNCHANGED <<offered, closed>>
              \/ /\ Cardinality(free) > 1 /\ mode # "single"
                 /\ offered' = free /\ stage' = "targets"
                 /\ UNCHANGED <<mode, targets, closed>>
  /\ UNCHANGED <<request, paid, st, attempt, outcome, hasImage, winner>>

\* Whom a session may call.  The routes scan free and paid agents alike: a random
\* one is free if any is, and the owner's selection is taken as it is.  The others
\* discover again, and keep the handles asked for.
Candidates(pool) ==
  CASE mode = "selected" -> pool
    [] mode = "random" -> IF Free(pool) # {} THEN Free(pool) ELSE pool
    [] OTHER -> Discovered(pool) \cap offered

\* resolveTargets and the routes: nobody to call is an empty answer.
ResolveTargets ==
  /\ stage = "targets"
  /\ \E pool \in SUBSET Agents :
       /\ targets' = FirstOf(Candidates(pool), Limit)
       /\ seen' = Seen(pool)
  /\ stage' = IF targets' # {} THEN "calls"
              ELSE IF image \/ mode = "chain" THEN "failed" ELSE "done"
  /\ closed' = (targets' = {})
  /\ UNCHANGED <<mode, request, paid, offered, st, attempt, outcome, hasImage, winner>>

\* A provider changes its price (external).
Reprice ==
  /\ image /\ online /\ stage = "targets"
  /\ \E a \in Agents : paid' = [paid EXCEPT ![a] = ~@]
  /\ UNCHANGED <<mode, request, stage, offered, targets, seen, st, attempt, outcome, hasImage,
                 closed, winner>>

-----------------------------------------------------------------------------
(* callWithRetry and collectUntil *)

MaxAttempts == IF mode \in Turns \cup {"single"} \/ image THEN 1 ELSE Tries

Need ==
  CASE mode \in {"race"} \cup Turns -> 1
    [] mode = "quorum" -> IF quorum < Cardinality(targets) THEN quorum ELSE Cardinality(targets)
    [] OTHER -> Cardinality(targets)

Successes(o) == {a \in targets : o[a] = "ok"}
AllSettled(o) == \A a \in targets : o[a] # "none"

\* Enough successes, or nothing more to wait for; a chain and a single call
\* end with the first failure.
DecidedByCount(o) == Cardinality({a \in targets : o[a] # "none"}) >= Need \* mutant: failures count
Decided(o) ==
  \/ Cardinality(Successes(o)) >= Need
  \/ AllSettled(o)
  \/ mode = "chain" /\ \E a \in targets : o[a] = "failed"

\* What follows when the collected outcomes decide: the judge, or the reply
\* and the end of the session, with no await in between.
After(o) ==
  CASE mode = "best" /\ Successes(o) # {} -> "judge"
    [] mode = "chain" /\ Successes(o) # targets -> "failed"
    [] image /\ ~\E a \in Successes(o) : hasImage'[a] -> "failed"
    [] OTHER -> "done"

\* A target's outcome is collected, unless it comes after the decision.
Settle(a, o) ==
  LET new == [outcome EXCEPT ![a] = o]
  IN  /\ st' = [st EXCEPT ![a] = o]
      /\ outcome' = IF stage = "calls" THEN new ELSE outcome
      /\ IF stage = "calls" /\ Decided(new)
         THEN stage' = After(new) /\ closed' = (After(new) # "judge")
         ELSE UNCHANGED <<stage, closed>>

\* Sequential modes start a target when the ones before it are over.
Turn(a) ==
  \A b \in targets : b < a => CASE mode \in Turns -> st[b] = "failed"
                                [] mode = "chain" -> st[b] = "ok"
                                [] OTHER -> TRUE

CallAnyway(a) == \* mutant: the session does not know that it is closed
  /\ st' = [st EXCEPT ![a] = "calling"] /\ UNCHANGED <<outcome, stage, closed, hasImage>>

\* session.call: a closed session throws, which is not retried.
Call(a) ==
  \/ /\ ~closed
     /\ st' = [st EXCEPT ![a] = "calling"] /\ UNCHANGED <<outcome, stage, closed, hasImage>>
  \/ closed /\ UNCHANGED hasImage /\ Settle(a, "failed")

Attempt(a) ==
  /\ a \in targets
  /\ \/ st[a] = "idle" /\ stage = "calls" /\ Turn(a)
     \/ st[a] = "sleeping"
  /\ attempt' = [attempt EXCEPT ![a] = @ + 1]
  /\ Call(a)
  /\ UNCHANGED <<mode, request, paid, offered, targets, seen, winner>>

Answer(a) ==
  /\ st[a] = "calling"
  /\ \E img \in (IF image THEN BOOLEAN ELSE {FALSE}) : hasImage' = [hasImage EXCEPT ![a] = img]
  /\ Settle(a, "ok")
  /\ UNCHANGED <<mode, request, paid, offered, targets, seen, attempt, winner>>

Retry(a) ==
  /\ attempt[a] < MaxAttempts
  /\ st' = [st EXCEPT ![a] = "sleeping"] /\ UNCHANGED <<outcome, stage, closed>>

\* An error: tried again after a delay, unless it is permanent or was the last.
Fail(a) ==
  /\ st[a] = "calling"
  /\ UNCHANGED <<mode, request, paid, offered, targets, seen, attempt, hasImage, winner>>
  /\ Retry(a) \/ Settle(a, "failed")

\* The limit of an attempt runs out: as an error, but never permanent.
TimeOut(a) ==
  /\ st[a] = "calling"
  /\ UNCHANGED <<mode, request, paid, offered, targets, seen, attempt, hasImage, winner>>
  /\ \/ Retry(a)
     \/ attempt[a] = MaxAttempts /\ Settle(a, "failed")

-----------------------------------------------------------------------------
(* The judge *)

\* pick_best must name a candidate; anything else fails the whole request,
\* and so does an image request none of whose successes has an image.
Judge ==
  /\ stage = "judge" /\ closed' = TRUE
  /\ \E w \in Agents \cup {0} :
       LET valid == w \in Successes(outcome)
       IN  /\ winner' = IF valid THEN w ELSE 0
           /\ stage' = IF ~valid \/ (image /\ ~\E a \in Successes(outcome) : hasImage[a])
                       THEN "failed" ELSE "done"
  /\ UNCHANGED <<mode, request, paid, offered, targets, seen, st, attempt, outcome, hasImage>>

\* The agents an image reply shows, and the one it puts first.
Entries == {a \in Successes(outcome) : hasImage[a]}
Primary == IF winner \in Entries THEN winner ELSE CHOOSE a \in Entries : \A b \in Entries : a <= b

-----------------------------------------------------------------------------
FanoutNext ==
  \/ DiscoverImage \/ ResolveTargets \/ Reprice \/ Judge
  \/ \E a \in Agents : Attempt(a) \/ Answer(a) \/ Fail(a) \/ TimeOut(a)

FanoutSpec == FanoutInit /\ [][FanoutNext]_fvars

\* Timers fire: the limit of an attempt and the delay before the next one.
\* Discovery and the judge are HTTP requests with limits of their own.
FanoutDriven ==
  \/ DiscoverImage \/ ResolveTargets \/ Judge
  \/ \E a \in Agents : TimeOut(a) \/ Attempt(a)

FanoutTypes ==
  /\ stage \in {"discover", "targets", "calls", "judge", "done", "failed", "refused"}
  /\ offered \subseteq Agents /\ targets \subseteq offered
  /\ st \in [Agents -> {"idle", "calling", "sleeping", "ok", "failed"}]
  /\ outcome \in [Agents -> {"none", "ok", "failed"}]
  /\ attempt \in [Agents -> 0 .. Tries + 1] /\ winner \in Agents \cup {0}

\* A fan-out answers as its mode promises: a race and a quorum with enough
\* successes unless every target was heard, the others only when all were;
\* what was collected is what the calls returned.
AnswersItsMode ==
  stage = "done" /\ targets # {} =>
    /\ \A a \in targets : outcome[a] # "none" => outcome[a] = st[a]
    /\ AllSettled(outcome) \/ Cardinality(Successes(outcome)) >= Need
    /\ mode \in {"all", "best", "chain", "single"} => AllSettled(outcome)
    /\ mode = "chain" => Successes(outcome) = targets
    /\ mode = "best" => (winner = 0 <=> Successes(outcome) = {})

\* The judge's winner is one of the successes, and an image reply puts it
\* first whenever it has an image at all.
WinnerIsShown ==
  stage = "done" /\ winner # 0 =>
    /\ winner \in Successes(outcome)
    /\ image /\ hasImage[winner] => Primary = winner

\* Without the caller's consent an agent online that asked for money when the
\* calling session found it is called only if the owner selected it, or wanted a
\* random one and none was free; although the gate of an image request and its
\* hire discover separately and prices change in between.
PaidOnlyIfChosen ==
  online /\ ~consent =>
    \A a \in Agents : attempt[a] > 0 /\ seen[a] = "paid" =>
      \/ mode = "selected"
      \/ mode = "random" /\ \A b \in Agents : seen[b] # "free"

\* A fan-out answers as its mode promises, shows the judge's winner, and pays only
\* for whom the owner agreed to pay, selected, or left no free choice but.
FanoutKeepsMode == FanoutTypes /\ AnswersItsMode /\ WinnerIsShown /\ PaidOnlyIfChosen

\* Nobody is called after the session is closed: the retries of abandoned
\* targets end instead.
Starts(a) == st'[a] = "calling" /\ st[a] # "calling"
NoCallAfterClose == [][closed => \A a \in Agents : ~Starts(a)]_fvars

\* Whatever the agents do, the request is answered.
Ended == stage \in {"done", "failed", "refused"}
=============================================================================
