--------------------------- MODULE BridgeRequests ---------------------------
(***************************************************************************)
(* The bridge's HTTP side (server/http-io.ts, handleRequest and the        *)
(* handlers of server/dashboard.ts, server/chat-proxy.ts): requests of     *)
(* several clients, interleaved at every await.  A handler is a program of *)
(* steps; the first that refuses or fails ends the request.  What a turn,  *)
(* a write or a hired agent does is abstracted to whose records it touches *)
(* and whether it succeeds.                                                *)
(***************************************************************************)
EXTENDS Integers, FiniteSets, SequencesExt

CONSTANTS
  Requests,     \* [route, owner, addr, claim, peer, host, token, text, body]; peer is
                \* the peerOwnerId of the body, or NoOwner
  Sites,        \* [auth, enabled, online, key, gateway : BOOLEAN]
  Rosters,      \* contents of the standing assistants' file: sequences of <<owner, handle>>
  Preferred,    \* PA_DEFAULT_OWNER_ID, or NoOwner
  NoOwner,      \* no owner, no host
  Limit,        \* requests per window of each rate-limited group of routes
  Window,       \* DASHBOARD_RATE_LIMIT_WINDOW_MS
  MaxBuckets,   \* buckets from which expired ones are pruned (1000)
  Slots, MaxRequests, MaxClock \* bounds

ASSUME RequestAssumption ==
  /\ NoOwner \notin Requests /\ \A r \in Requests : "shared" \notin {NoOwner, r.owner, r.claim, r.peer}
  /\ \A roster \in Rosters : Len(roster) \in Nat
  /\ {Limit, MaxBuckets, MaxRequests, MaxClock} \subseteq Nat /\ Window \in Nat \ {0}

VARIABLES
  site,         \* the bridge's settings
  clock,
  buckets,      \* rateBuckets: [key -> [start, count]]
  admitted,     \* history: the times at which requests of a key were let in
  slot,         \* the requests being served
  taken,        \* requests so far
  standing,     \* what the standing assistants' file holds
  cache         \* cachedStandingAssistants: the text last parsed and its bindings
requestVars == <<site, clock, buckets, admitted, slot, taken, standing, cache>>

-----------------------------------------------------------------------------
\* Whose request it is.

\* With authentication the token and the owner header count, and a claim in the
\* body may only repeat the header; without it the claim is all there is.
OwnerRefusal(r, optional) ==
  IF site.auth
    THEN IF ~r.token \/ r.owner = NoOwner THEN 401
         ELSE IF r.claim \notin {NoOwner, r.owner} THEN 403 ELSE 0
    ELSE IF r.claim = NoOwner /\ ~optional THEN 400 ELSE 0
OwnerOf(r) == IF site.auth THEN r.owner ELSE r.claim

\* Of several entries with one owner or one handle the last counts.
Bindings(entries) ==
  LET At(side, name) == CHOOSE n \in 1..Len(entries) :
        /\ entries[n][side] = name
        /\ \A later \in (n + 1)..Len(entries) : entries[later][side] # name
      Owners == {entries[n][1] : n \in 1..Len(entries)}
      Handles == {entries[n][2] : n \in 1..Len(entries)}
  IN [owners |-> Owners,
      handle |-> [o \in Owners |-> entries[At(1, o)][2]],
      owner |-> [h \in Handles |-> entries[At(2, h)][1]]]

\* The file is read each time and parsed when its text changed.
Standing == IF cache.text = standing THEN cache.bindings ELSE Bindings(standing)
Remembered == [text |-> standing, bindings |-> Standing]

\* Whom GET /api/identity says the browser acts for; "key" is whoever the Blocks
\* key belongs to.
Identity(r) ==
  IF site.auth THEN r.owner
  ELSE IF r.host \in DOMAIN Standing.owner THEN Standing.owner[r.host]
  ELSE IF Preferred \in Standing.owners THEN Preferred
  ELSE IF Cardinality(Standing.owners) = 1 THEN CHOOSE o \in Standing.owners : TRUE
  ELSE "key"

-----------------------------------------------------------------------------
\* The handlers, as the steps they take in order.

\* mutant: the stream is opened before the request is looked at.
EarlyHead == <<"enabled", "head", "body", "text", "owner", "try", "turn", "final">>

\* apiAssistantStream: everything that may refuse comes before the head.
StreamSteps == <<"enabled", "body", "text", "owner", "head", "try", "turn", "final">>

\* apiTranscribe, apiDescribeImage, apiCallAgent: the session is closed in finally.
HireSteps == <<"body", "text", "key", "open", "discover", "hire", "close", "json">>

\* What two assistants' rosters are edited by.
Introductions == {"invite", "membership", "revoke"}

Steps(route) ==
  CASE route = "run" -> <<"body", "enabled", "text", "owner", "turn", "json">>
    [] route = "stream" -> StreamSteps
    [] route = "create" -> <<"body", "enabled", "text", "owner", "write", "json">>
    [] route \in Introductions ->
         <<"body", "enabled", "text", "ownerIfAny", "write", "json">>
    [] route = "contacts" -> <<"body", "enabled", "owner", "text", "write", "json">>
    [] route = "look" -> <<"enabled", "owner", "json">>
    [] route \in {"transcribe", "call"} -> HireSteps
    [] route = "image" ->
         <<"body", "text", "key", "open", "discover", "hire", "close", "work", "json">>
    [] route = "route" -> <<"body", "key", "open", "discover", "hire", "close", "json">>
    [] route = "chat" -> <<"gateway", "body", "fetch", "head", "try", "chunks">>
    [] route = "identity" -> <<"identity", "json">>
    [] OTHER -> <<"notFound">>

\* The groups of routes that are limited.
RateLimited(route) ==
  route \in {"run", "stream", "create", "chat", "transcribe"} \cup Introductions

\* The status a step refuses a request with, 0 if it lets it pass.
Refusals(r) ==
  [enabled |-> IF site.enabled THEN 0 ELSE 403,
   body |-> IF r.body = "big" THEN 413
            ELSE IF r.body = "bad" /\ r.route # "chat" THEN 400 ELSE 0,
   text |-> IF r.text THEN 0 ELSE 400,
   owner |-> OwnerRefusal(r, FALSE),
   ownerIfAny |-> OwnerRefusal(r, TRUE),
   key |-> IF site.online /\ ~site.key THEN 400 ELSE 0,
   gateway |-> IF site.gateway THEN 0 ELSE 401,
   identity |-> IF site.auth /\ (~r.token \/ r.owner = NoOwner) THEN 401 ELSE 0,
   notFound |-> 404]
Checks == {"enabled", "body", "text", "owner", "ownerIfAny", "key", "gateway", "notFound"}

\* The statuses an awaited step may fail with.
Failures(step, route) ==
  CASE step = "body" -> {500}                      \* the client went away
    [] step \in {"turn", "work", "open"} -> {500}
    [] step = "write" -> IF route = "create" THEN {409, 500} ELSE {500}
    [] step = "discover" -> IF route = "route" THEN {500} ELSE {404, 500}
    [] step = "hire" -> IF route = "call" THEN {500}
                        ELSE IF route = "transcribe" THEN {400, 404, 500, 502}
                        ELSE IF route = "image" THEN {404, 500, 502} ELSE {500}
    [] step = "fetch" -> {502}
    [] step = "chunks" -> {0}                        \* swallowed: the answer just stops
    [] OTHER -> {}

Free == [request |-> NoOwner, at |-> 0, out |-> <<>>, status |-> 0,
         opened |-> 0, closed |-> 0, touched |-> {}, told |-> NoOwner, hired |-> "one"]

Served(s) == slot[s].request # NoOwner /\ "end" \notin ToSet(slot[s].out)
Step(s) == Steps(slot[s].request.route)[slot[s].at]
InTry(s) == \E before \in 1..(slot[s].at - 1) : Steps(slot[s].request.route)[before] = "try"

-----------------------------------------------------------------------------
\* Arrival and the rate limit.

RequestsInit ==
  /\ site \in Sites
  /\ clock = 0 /\ buckets = <<>> /\ taken = 0
  /\ admitted = [key \in {} |-> <<>>]
  /\ slot = [s \in Slots |-> Free]
  /\ standing \in Rosters
  /\ cache = [text |-> <<>>, bindings |-> Bindings(<<>>)]

ClientKey(r) == <<r.route, r.owner, r.addr>>

\* mutant: a full table is emptied.
PruneAll(table) ==
  IF Cardinality(DOMAIN table) < MaxBuckets THEN table ELSE <<>>

\* Only windows that are over are dropped, and only from a full table.
Prune(table) ==
  IF Cardinality(DOMAIN table) < MaxBuckets THEN table
  ELSE [key \in {x \in DOMAIN table : clock - table[x].start < Window} |-> table[key]]

\* A key's window opens with the first request after the last one is over; in it
\* requests are counted, refused ones too.
Charged(key) ==
  IF key \in DOMAIN buckets /\ clock - buckets[key].start < Window
    THEN [buckets EXCEPT ![key].count = @ + 1]
    ELSE Prune([x \in DOMAIN buckets \cup {key} |->
                  IF x = key THEN [start |-> clock, count |-> 1] ELSE buckets[x]])

Accepted(s, r) == slot' = [slot EXCEPT ![s] = [Free EXCEPT !.request = r, !.at = 1]]
Answered(s, r, status) ==
  slot' = [slot EXCEPT ![s] = [Free EXCEPT !.request = r, !.status = status,
                                           !.out = <<"head", "end">>]]

Arrive(s, r) ==
  /\ ~Served(s) /\ taken < MaxRequests /\ taken' = taken + 1
  /\ IF r.route = "options"
       THEN Answered(s, r, 204) /\ UNCHANGED <<buckets, admitted>>
     ELSE IF ~RateLimited(r.route) \/ Limit = 0
       THEN Accepted(s, r) /\ UNCHANGED <<buckets, admitted>>
     ELSE LET key == ClientKey(r)
          IN /\ buckets' = Charged(key)
             /\ IF key \in DOMAIN buckets' /\ buckets'[key].count > Limit
                  THEN Answered(s, r, 429) /\ UNCHANGED admitted
                  ELSE /\ Accepted(s, r)
                       /\ admitted' = [x \in DOMAIN admitted \cup {key} |->
                            (IF x \in DOMAIN admitted THEN admitted[x] ELSE <<>>)
                              \o (IF x = key THEN <<clock>> ELSE <<>>)]
  /\ UNCHANGED <<site, clock, standing, cache>>

-----------------------------------------------------------------------------
\* One step of a request's handler.

Kept == UNCHANGED <<site, clock, buckets, admitted, taken, standing>>
Becomes(s, new) == slot' = [slot EXCEPT ![s] = new]
Next1(s) == [slot[s] EXCEPT !.at = @ + 1]

\* An error ends the request: the finally clauses close the session, a handler
\* that has begun to stream says so in the stream, any other answers with a status.
Fail(s, status) ==
  LET now == [slot[s] EXCEPT !.closed = slot[s].opened]
  IN Becomes(s,
       IF ~InTry(s) THEN [now EXCEPT !.out = @ \o <<"head", "end">>, !.status = status]
       ELSE IF now.request.route = "stream" THEN [now EXCEPT !.out = @ \o <<"error", "end">>]
       ELSE [now EXCEPT !.out = Append(@, "end")])

\* A step that lets the request pass, or refuses it.
Check(s) ==
  /\ Served(s) /\ Step(s) \in Checks
  /\ LET refusal == Refusals(slot[s].request)[Step(s)]
     IN IF refusal = 0 THEN Becomes(s, Next1(s)) ELSE Fail(s, refusal)
  /\ UNCHANGED cache /\ Kept

\* No agent is hired where none or several were found, and the fan-out asks several.
Skipped(s) ==
  \/ Step(s) = "hire" /\ slot[s].hired # "one"
  \/ Step(s) = "work" /\ slot[s].hired # "many"

\* An awaited step fails, whatever it has already done.
StepFails(s) ==
  /\ Served(s) /\ ~Skipped(s)
  /\ \E status \in Failures(Step(s), slot[s].request.route) : Fail(s, status)
  /\ UNCHANGED cache /\ Kept

\* Whose rosters an introduction edits: where both owners are known each in a
\* directory of its own, else both in the shared one, of whatever names of assistants
\* the body gives; but a membership on its own side alone.
RosterDirs(r) ==
  IF OwnerOf(r) = NoOwner \/ (r.peer = NoOwner /\ r.route # "membership") THEN {"shared"}
  ELSE {OwnerOf(r), r.peer} \ {NoOwner}

\* Whose records a turn or a write may touch; an invite has a contact saved too.
Records(r) ==
  IF r.route \notin Introductions THEN {OwnerOf(r)}
  ELSE RosterDirs(r) \cup (IF r.route = "invite" THEN {OwnerOf(r)} \ {NoOwner} ELSE {})

\* They are touched one after the other, so a step that fails may leave some.
Touch(s) ==
  /\ Served(s) /\ Step(s) \in {"turn", "write"}
  /\ \E whose \in Records(slot[s].request) \ slot[s].touched :
       Becomes(s, [slot[s] EXCEPT !.touched = @ \cup {whose}])
  /\ UNCHANGED cache /\ Kept

\* The turn or the write is done.
Act(s) ==
  /\ Served(s) /\ Step(s) \in {"turn", "write"}
  /\ Step(s) = "write" => slot[s].touched = Records(slot[s].request)
  /\ Becomes(s, Next1(s))
  /\ UNCHANGED cache /\ Kept

\* The runtime reports progress while the turn is under way (reportStatus, reportStep).
Report(s) ==
  /\ Served(s) /\ Step(s) = "turn" /\ slot[s].request.route = "stream"
  /\ "status" \notin ToSet(slot[s].out)
  /\ Becomes(s, [slot[s] EXCEPT !.out = Append(@, "status")])
  /\ UNCHANGED cache /\ Kept

Open(s) ==
  /\ Served(s) /\ Step(s) = "open"
  /\ Becomes(s, [Next1(s) EXCEPT !.opened = @ + 1])
  /\ UNCHANGED cache /\ Kept

\* One agent is hired on this session, none is to be had, or several are asked
\* later in a session of their own (fanout).
Discover(s) ==
  /\ Served(s) /\ Step(s) = "discover"
  /\ \E hired \in (CASE slot[s].request.route = "image" -> {"one", "none", "many"}
                     [] slot[s].request.route = "route" -> {"one", "none"}
                     [] OTHER -> {"one"}) :
       Becomes(s, [Next1(s) EXCEPT !.hired = hired])
  /\ UNCHANGED cache /\ Kept

\* The agent, or the fan-out, answers; or there is nobody to ask.
Hire(s) ==
  /\ Served(s) /\ Step(s) \in {"hire", "work"}
  /\ Becomes(s, Next1(s))
  /\ UNCHANGED cache /\ Kept

Close(s) ==
  /\ Served(s) /\ Step(s) = "close"
  /\ Becomes(s, [Next1(s) EXCEPT !.closed = @ + 1])
  /\ UNCHANGED cache /\ Kept

TellIdentity(s) ==
  /\ Served(s) /\ Step(s) = "identity"
  /\ LET refusal == Refusals(slot[s].request).identity
     IN IF refusal = 0
          THEN Becomes(s, [Next1(s) EXCEPT !.told = <<Identity(slot[s].request), standing>>])
          ELSE Fail(s, refusal)
  /\ cache' = Remembered /\ Kept

\* The answer: a JSON body, or the head of a stream, its pieces and its end.
Reply(s) ==
  /\ Served(s)
  /\ \/ Step(s) = "json" /\ Becomes(s, [slot[s] EXCEPT !.out = @ \o <<"head", "end">>, !.status = 200])
     \/ Step(s) = "head" /\ Becomes(s, [Next1(s) EXCEPT !.out = Append(@, "head"), !.status = 200])
     \/ Step(s) = "final" /\ Becomes(s, [slot[s] EXCEPT !.out = @ \o <<"final", "end">>])
     \/ Step(s) = "chunks" /\ Becomes(s, [slot[s] EXCEPT !.out = @ \o <<"chunk", "end">>])
     \/ Step(s) \in {"try", "fetch"} /\ Becomes(s, Next1(s))
  /\ UNCHANGED cache /\ Kept

Tick ==
  /\ clock < MaxClock /\ clock' = clock + 1
  /\ UNCHANGED <<site, buckets, admitted, slot, taken, standing, cache>>

\* The operator edits the standing assistants' file.
EditStanding ==
  /\ standing' \in Rosters \ {standing}
  /\ UNCHANGED <<site, clock, buckets, admitted, slot, taken, cache>>

Handle(s) ==
  \/ Check(s) \/ StepFails(s) \/ Touch(s) \/ Act(s) \/ Report(s) \/ Open(s) \/ Discover(s) \/ Hire(s)
  \/ Close(s) \/ TellIdentity(s) \/ Reply(s)

RequestsNext ==
  \/ \E s \in Slots : Handle(s) \/ \E r \in Requests : Arrive(s, r)
  \/ Tick
  \/ EditStanding

-----------------------------------------------------------------------------
Ended(s) == slot[s].request # NoOwner /\ ~Served(s)
Times(s, event) == Cardinality({n \in 1..Len(slot[s].out) : slot[s].out[n] = event})

\* However a handler ends, its request is answered once: one head before anything
\* else, one end after everything, a streamed turn with exactly one outcome, and no
\* session with the network left open.
AnsweredOnce ==
  \A s \in Slots :
    /\ Times(s, "head") <= 1 /\ Times(s, "end") <= 1
    /\ slot[s].out # <<>> => slot[s].out[1] = "head"
    /\ Ended(s) =>
         /\ Last(slot[s].out) = "end" /\ slot[s].opened = slot[s].closed
         /\ slot[s].request.route = "stream" /\ slot[s].status = 200 =>
              Times(s, "final") + Times(s, "error") = 1

\* Over any stretch of one window's length a client gets at most twice its limit
\* through, and at most the limit within one window of its own.
WithinLimit ==
  \A key \in DOMAIN admitted :
    LET times == admitted[key]
    IN /\ \A n \in 1..(Len(times) - 2 * Limit) : times[n + 2 * Limit] - times[n] >= Window
       /\ key \in DOMAIN buckets =>
            \A n \in 1..(Len(times) - Limit) : times[n] < buckets[key].start

\* Whatever fails half way, records are touched only while personal assistants are
\* enabled, and are those of the owner the bridge authenticated or, where it
\* authenticates nobody, of the owner the request names.  An introduction goes
\* further, for the code ties neither the peer nor the assistants' names of the body
\* to that owner: it edits the roster of whatever peer owner the body names, and the
\* shared rosters if it names none or if nobody was authenticated.  Whom identity
\* names is an owner of the file as it was when asked, however often it was edited.
ActsForTheOwner ==
  \A s \in Slots :
    LET r == slot[s].request
        further == IF r.route \in Introductions THEN {r.peer, "shared"} ELSE {}
    IN /\ slot[s].touched # {} =>
            /\ site.enabled
            /\ site.auth => r.token /\ r.claim \in {NoOwner, r.owner}
            /\ slot[s].touched \subseteq {OwnerOf(r)} \cup further
            /\ "shared" \in slot[s].touched => ~site.auth \/ r.peer = NoOwner
       /\ slot[s].told # NoOwner /\ ~site.auth /\ slot[s].told[1] # "key" =>
            slot[s].told[1] \in Bindings(slot[s].told[2]).owners

\* A client's limit holds over every stretch of time, and what a request touches is
\* its owner's, or the other side of an introduction.
LimitHolds == WithinLimit /\ ActsForTheOwner
=============================================================================
