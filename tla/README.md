# Formal models of the personal-assistant bridge

This directory holds TLA+ models of the parts of OpenClaw Agent Blocks whose
correctness depends on the order in which things happen, or on arithmetic that a
test samples too thinly: the two-sided meeting handshake and the slot
negotiation, an owner's turns with their plans and confirmations, the calls
between assistants, the rosters, contacts and accounts behind them, the serving
and hiring of agents, the bridge's HTTP side, and the chat page. TLC checks them
on small instances; TLAPS proves the theorems of section 5 for every instance.
Paths are relative to `src/agent/src/` unless they start with another directory.

All of the system's own logic runs in one Node process, the bridge
(`server/dashboard.ts`), in handler processes built from the same files, or in
one browser tab. Nothing in it locks anything. A handler owns the process until
its next `await`; then any other handler may run. Files are JSON documents that
are read and rewritten whole, or JSONL logs whose newest line wins. So the
models have one rule in common: **a step is the code between two awaits that
touch shared state**, and what was read in one step may be stale in the next.
`writeFile` is two steps where it matters: it empties the file, then fills it.

## 1. Inventory

| Component | State it keeps | Operations | Hard behaviour |
|---|---|---|---|
| Meeting handshake `a2a/meeting-request.ts` | `meeting-requests.jsonl`, newest snapshot per thread; tentative holds on two calendars | propose, accept, decline, commit, expire, sweep | two owners answer at once; retries; TTL; compensation; crashes |
| Negotiation `a2a/negotiate.ts` | holds of the current slot (memory), calendars, audit | ask, ensureHolds, releaseHolds, confirmHolds | a peer that says anything; a call that throws at any await; hop cap |
| Owner's turn and executor `assistant/assistant-runtime.ts` | the ledger of step outcomes (memory) | plan, run, skip, gate, park, resume, confirm | parking and resuming across messages, settings and restarts; replayed tokens; failures half-way |
| Pending plans `assistant/pending-plan.ts` | `pending-plans.jsonl`, newest line per token | record, find, resolve | a find that is stale when resolved |
| Booking audit `integrations/booking-audit.ts` | `booking-audit.jsonl` | record, find proposal, find written | looked up before, and written after, the calendar call |
| Plan validation `assistant/plan-schema.ts` | none | repair the planner's answer | colliding ids, dropped steps, unknown guards |
| Slots and windows `assistant/assistant-runtime.ts` 2438-2830, 3100-3580, `integrations/calendar-mcp.ts` 76-298 | none | read a date and a time, intersect, search | one text parsed twice; offsets that change; interval ends |
| A2A `a2a/a2a*.ts`, runtime 725-905, 1240-1400 | `a2a-budget.json` | count, send, retry, fall back, gate, park | cap tested apart from counting; lost and late answers; torn file |
| Roster `assistant/assistant-roster.ts` | one roster file per assistant | invite, membership, revoke | load/load/save/save over two files |
| Contacts, profiles `assistant/contacts-store.ts`, `owner-profile.ts` | one JSON file per owner | save, remove, upsert, address a mail | read-modify-write; remove then save |
| Integrations `integrations/integration-store.ts`, `integration-oauth.ts` | record and token file per owner | consent, callback, resolve, connect | token file written from a stale record |
| Serving `server/dashboard.ts` 405-417, 1640-1741, `blocks/blocks-serve.ts`, `agent-keyring.ts` | map `served`, `process.env.BLOCKS_API_KEY` | serve, stop, shutdown | check and set around awaits; a global swapped around an await |
| Requests `server/http-io.ts`, `dashboard.ts` 296-383 and the handlers | rate buckets, standing assistants' cache | limit, authorize, act, stream, answer | failure after the head was sent; sessions left open; window boundaries |
| Owner channels `dashboard.ts` 255-286, 891-930 | SSE responses per owner | subscribe, replay, push | replay awaited after the subscription |
| Routing `routing/*.ts`, `blocks/openclaw-client.ts` | none | classify a turn | a model that is late or answers anything |
| Catalog `blocks/catalog-index.ts`, `blocks-client.ts` | snapshot cache, in-flight map | load, walk pages, rank, browse | single flight; a registry that changes under the walk; paging |
| Fan-out `pipeline/fanout.ts`, `pipeline.ts`, image endpoints | session | call with retry, collect, judge, hire | a timed-out call goes on; late answers; a price that changes |
| Web chat `src/agent/web/chat/js/*.jsx` | busy and stream refs, conversations, attachments, cards | send, stop, confirm, record, follow | refs read after awaits; Stop against the stage it meets |
| Factory, audit log, demos, published agents, scripts | files | - | not modelled, section 8 |

How they meet. The page sends a message to the bridge; `/api/classify` picks a
path; an assistant's turn asks the planner for a plan and hands it to the
executor. A step of the plan writes to the owner's calendar or mail through an
adapter (gated, audited, with the owner's own account), asks a peer's assistant
(over the Blocks network or on the same bridge), or hires a specialist found in
the catalog. An inbound coordination request is parked as a meeting request and
pushed to its owner's channel; both owners answer on their pages; the second
acceptance books both calendars. Handshake, negotiation and executor share
`booking-audit.jsonl` and the calendars, and never each other's ids: the
handshake and the negotiation key theirs by thread, side and slot, the executor
by the arguments of the write. That is why they are separate modules, and why a
module for one thread, one plan or one owner speaks for all.

## 2. Modules

| Module | What it is | Run |
|---|---|---|
| `Handshake` | the abstract two-sided handshake: consents, all-or-nothing booking | meeting |
| `MeetingRequest` | the code of the handshake and the hold machinery it drives | meeting |
| `Negotiation` | the hop loop of `negotiateSlot` | negotiate_any_peer |
| `PlanResume` | executor, confirmation gate, parked plans, with overlap and crashes | plan |
| `OwnerTurn` | whole turns, one after the other: planner, modes, accounts, picks | bridge |
| `PeerCalls` | outbound and inbound A2A, the budget, the probe | peer_calls |
| `Roster` | invite, revoke and membership over pairs of roster files | roster_edits |
| `Contacts` | one contact book, invitations into it, mails addressed with it | negotiate_any_peer |
| `Connections` | consents, records, token files and calls of Google accounts | negotiate_any_peer |
| `SlotSearch` | the search for the earliest slot free on both sides | search |
| `CalendarWindows` | what the words of a message mean, for reading and for booking | search |
| `OwnerCalendar` | the slot search and an owner's messages together, and what holds of both | search |
| `Catalog` | the snapshot cache and the registry walk | search |
| `CatalogSearch` | categories, ranking, facets, pages | search |
| `CatalogQueries` | a snapshot and what is asked of it, and what must hold of the answers | search |
| `Fanout` | hiring agents: all modes, retries, judge, billing gate | search |
| `ServeRegistry` | serve, stop, shutdown, the key swap | bridge |
| `BridgeRequests` | the life of an HTTP request | bridge |
| `IntentRouting` | classification of a turn | bridge |
| `ChatRuns` | the runs of the chat page and Stop | chat |
| `Notices` | owner channels and the meeting panel | chat |
| `Composer` | attachments and recordings | chat |
| `MeetingRequestProofs`, `PlanResumeProofs`, `PeerCallsProofs`, `RosterProofs` | theorems about the module of the name | |
| `NegotiationProofs` | theorems about `Negotiation`, `Connections`, `Contacts` | |
| `BridgeProofs` | theorems about `ServeRegistry`, `OwnerTurn`, `BridgeRequests`, `IntentRouting` | |
| `ChatProofs` | theorems about `Composer`, `Notices`, `ChatRuns` | |
| `SlotSearchProofs` | theorems about `OwnerCalendar` and its parts, `Fanout`, `Catalog`, `CatalogQueries` | |
| `MC*` | instances for TLC | all |

Several runs check components that share no state side by side:
`MCPlan`, `MCNegotiation`, `MCPeerCalls`, `MCSearch`, `MCChat` and `MCBridge`
have a variable `part` that says which of them a behaviour is of. The variables
of the other parts are frozen at an initial state. A run with parts answers
the same questions as one run per part would.

## 3. State and actions against the code

### MeetingRequest and Handshake

One `threadId`: records, holds and idempotency ids are all keyed by it. `store`
is the newest snapshot; `calendar`, `created` and `audit` are the owners'
calendars and the newest 'written' entry per side; `pc` and `rec` are what a
suspended handler waits for and holds in memory. `Requests` are handler
invocations; each may be any operation with any owner and token. `setting` says
in which circumstances a behaviour takes place, and stays as it is: whether holds
are placed with the proposal, how many handlers overlap, how often the process
dies and which calendar calls may throw.

| Action | Code |
|---|---|
| `Propose` | `proposeMeetingRequest`; with a booking it goes on to `Lookup` |
| `AcceptRefuse/Late/Again/First` | `acceptMeetingRequest`, `applyAcceptance` |
| `Decline`, `Expire` | `declineMeetingRequest`, `expireMeetingRequest` and the sweep |
| `Commit` | `commitMeetingRequest` up to its first await |
| `Lookup`, `Create`, `CreateFails`, `AuditWrite` | `placeHold` through `runWriteIntegration` |
| `Confirm`, `ConfirmFails`, `Release`, `ReleaseFails` | `confirmHolds`, `releaseHolds` |
| `Append` | `appendSnapshot` |
| `TtlElapses`, `Crash` | the clock; the death of the process |

Abstracted: slots, titles, notifications (`Notices` has them), the text of
errors. A propose is assumed to take less time than the TTL it sets
(`TtlElapses`; 15 minutes by default). The production confirm is a no-op on the
calendar, so `Confirm` changes the hold only. `Handshake` is refined by handlers
that do not overlap, with `booked` the owners whose calendar is not empty. With
overlap the refinement is false: see the findings.

### Negotiation

One negotiation is one async call that nobody else interleaves with; what can
happen at an await is a throw. `Ask(offered, accept)` takes any answer of the
peer. `phase` is the place in the loop, `then` what follows once both holds are
placed. `Ensure` with `Place`, `PlaceFails`, `Release`, `ReleaseFails` is
`ensureHolds` and its compensation; the holds of a failed `ensureHolds` are not
the loop's own, so the catch block does not see them (`Catch(NoHolds)`).
`dropped` and `faults` are history. Slots are numbers in self's order of
preference. The booking is present: without it, the loop has no shared state.

### PlanResume and OwnerTurn

`PlanResume` is one plan of one owner under messages that overlap. A step is
reduced to its kind and its guard `runIf`. `Request`, `Confirm` and `Pick` are
the messages; `Skip`, `RunStep`, `ReachWrite`, `Ask`, `Finish` are iterations of
`executePlanFrom`; `Park` is `recordPendingPlan`; `Lookup`, `Write`, `WriteFails`
and `Record` are `runConfirmedWrite` (and the write of the auto policy); `Find`
and `Resolve` are `resolvePendingPlan`. A confirm token is a function of the
write's arguments, so it names the step; every other pause mints a new one. The
owner sends only tokens the owner was given (`issued`). `disturbed` is history:
two messages were at work at once, or the process died.

`OwnerTurn` takes turns one after the other and adds what lies around the
executor: `Ask` and `AnswerAtOnce` are `runAssistant` with the planner or its
offline stand-in and the repairs of `plan-schema.ts`; `RunStep`, `PassStep` and
`FinishTurn` the executor with booking mode, account gate and peer lookup;
`Confirm` and `PickPeer` the replies of an owner; `Restart` a bridge with other
settings, `ConnectAccount` and `EditRoster` what may change between turns.
`audit` and `waiting` are the two files, `effect` and `wrote` history. A step's
ids and references are numbers (`stepN` is N), every owner has one event and one
mail to write, and a peer's answer is one of the outcomes the executor tells
apart. `ValidatePlan` takes any sequence of steps, with any ids, targets and
conditions; a validated step keeps, as `named`, `asked` and `askedOf`, what the
planner called it and what its condition asked of whom. What interleaves inside a turn is left to `PlanResume`.

### PeerCalls

A turn goes through the stages check, read, truncate, write (`withinDailyCap`,
`recordA2ACall`), send, wait, retry, wait again, fallback, propose
(`runOutboundA2A`, `parkInitiatorMeetingRequest`). A task on the `network` is
handled once, perhaps after its sender gave up (`Receive`); `TakeUp` is the
roster gate and the parked request of `runInboundA2A`. `Probe` and `Withdraw`
are the liveness check. Environment: `Revoke`, `Midnight`, `Crash`. `calls`,
`heard` and `raced` are history.

### Roster

An assistant is one roster file; owner-scoped and shared directories hold
different files, so they are different assistants. `Invite`, `Revoke` and
`Record` are the endpoints up to their first `loadRoster`; `LoadPeer` loads the
other side; `Open` and `Write` are the two halves of `writeFile`, between which a
reader finds a file that does not parse, and `loadRoster` turns that into an
empty roster. `SaveFails` is a save that throws; `readable = FALSE` is a read
that throws, which `loadRoster` swallows. Invites and revokes load both rosters
before they save either; a membership on both sides is two independent edits. An
entry is absent, peer, or peer one shares with. `damaged`, `half`, `said` and
`offered` are history: files that two edits used at once, that were misread or
cut off; pairs an edit changed on one side only; what the saved edits say; what
owners offered.

### Contacts and Connections

`Contacts`: an edit loads the book, truncates the file and writes it;
`SaveContact`, `RemoveContact` and `Invite` are the endpoints; an invited peer
under a new name is removed and saved again in two writes (`Refresh`, `Match`).
`SaveContact` may link an entry to the peer by hand (`peerHandle`), and looks for
an old entry by name only. `Propose` resolves a recipient and keeps it under a
token: an id the planner chose (`Ids`), or else a function of the reference and the
address. The first proposal under a token is the one that is kept, while the reply
shows the arguments of the new one; `ConfirmMail` sends what was kept, once.
`Connections`: `Start` and `Callback` are the consent, `Truncate` and `Save` the
record, `Gate` and `Ungated` the two ways into a live call - a turn asks first
whether the owner is connected; a confirmed write and a meeting's booking do not,
and go on with the bridge's environment (`Ambient`) if there is no record -, and
`Resolve`, `TruncateToken`, `WriteToken` and `Connect` its way to the adapter.
Two writes of one file that overlap may leave the tail of the longer one (`Torn`).
`shared`, `damaged` and `disturbed` are history: calls that met another of their
owner, records that two visits wrote at once, calls whose record was damaged under
them. A restart may change the secret that signs states. In both modules a file
read while truncated counts as none. Contacts abstracts an alias to one nickname;
Connections has one account per consent and owners with different file names.

### SlotSearch, CalendarWindows and OwnerCalendar

`SlotSearch` follows `mutualAvailabilitySuggestion`, `workingHourWindows`
(`RawWindow`, `DayWindow`, `DaysDone`), `pickWorkingHoursSlot` (`PickWindow`) and
`firstFreeSlot` (`FoundGap`, `SkipInterval`, `FoundTail`, `TailTooShort`), one
action per turn of a loop. Instants are integers; a zone changes its offset once.
`CalendarWindows` is pure: `ResolveNaturalWindow` is what an availability read
asks about, `ParseCalendarBookingQuery` and `PrepareEvent` what a booking writes.
The words of a message are a record of one date and one time phrase, with every
form the two parsers know, and which of the two stands first; days are numbers,
minutes are numbers. Both parsers look for hours anywhere in the text, so that the
month and the day of an ISO date are a range to them (`FirstRange`), and only the
booking's knows "till". `OwnerCalendar`
puts the two together, since both read the owner's working hours: it says which
records are messages and states the properties that range over the search and the
words. A message takes no step.

### Catalog, CatalogSearch, CatalogQueries and Fanout

`Catalog`: `Load` (hit, join or start a walk), `Page`, `ScanMock`, `FetchFails`,
with `Edit` and `Tick` as environment, for one cache key. The registry, external,
may change between two pages and may repeat a cursor. A snapshot keeps the entries
under the cap, of which `Public` are the agents; `servedBy`, `newest`, `floor` and
`walks` are history. `CatalogSearch`: words are
letter sequences, agents are records, and the code's tables are constants;
`SearchCatalog`, `ChooseSpecialist`, `BrowseCatalog` and `CatalogReply` are the
functions. `Only` is `Array.filter` and `Sorted` a stable sort, both as functions of
positions, since nothing can be proved of the library's recursive `SelectSeq` and of
its folds. `CatalogQueries` is a snapshot, the words that are searched for in it and
the property of the answers; an input takes no step. `Fanout`: `Attempt`, `Answer`, `Retry`, `Fail`, `TimeOut` are
`callWithRetry`; `mode` and `Need` are `collectUntil`; `Judge` is mode best;
`DiscoverImage` is the billing gate of the image endpoint, which discovers in one
session and hires in another, so that `Reprice` may come between. Modes `random`
and `selected` are the two routes (`Turns`): they scan free and paid agents
(`Candidates`, as `seen` when scanned) and call one after the other without a gate.
An agent's answer is abstracted to whether it holds an image.

### ServeRegistry and BridgeRequests

`ServeRegistry`: `Calls` are POSTs to `/api/serve`. `Serve` is `apiServe` after
its file reads; an agent with a `handler.ts` is imported first (`Import`).
`SwapKey`, `Started`/`StartFails` are the two ends of `withBlocksApiKey`;
`Register` is `served.set`. The SDK's instance is external: online from `Started`
until its handle is stopped. `raced` and `crossed` are history: two calls were
serving one agent; a key was put back over another call's key.

`BridgeRequests`: a handler is a program of steps (`Steps`); the first that
refuses or fails ends the request. `Arrive` is the rate limiter and the CORS
answer, `Check` every refusal, `Touch` and `Act` a turn or a write: it touches one
owner's records (`Records`) after the other and then ends. An introduction touches
those of its owner and of the peer owner it names, or, where one of them is not
known, the rosters of the directory all share (`RosterDirs`). `Report` is
the events of a stream, `Open`/`Discover`/`Hire`/`Close` a session with the
network, `TellIdentity` the standing assistants and their cache, `Reply` the
answer or the proxied one. `Tick` and `EditStanding` are environment.

### IntentRouting

A text is the set of detectors that fire on it; a context says what was attached
or picked. `TakeShortcut`, `AnswerOffline`, `AskModel`, then `ModelReplies`,
`CallFails` or `BudgetSpent`; a call may still answer after its budget. The person
a classification names is one of the forms a reference has: a name as people write
it, an `@handle`, or a handle `pa_...`. `Mirror` takes over what the owner typed
(`Reference`), whichever it is; `Validated` drops a handle from the model's reply.

### ChatRuns, Notices and Composer

`ChatRuns`: the stages of `send` in their order, each ending in any way its
request may end; `Begin`/`Finish` are a confirmation or a remedy; `Stop`,
`NewChat`, `SelectChat`, `DeleteChat`, `ResetSession`, `Reload` the user. Where a
stage has no handle - while a turn is classified, a picture is made, a specialist
works - `Stop` marks the message and the run goes on (`GoesOn`).
`busy` and `handle` are `busyRef` and `streamRef`, `shown` is `streamingId`.
`Notices`: `Click`, then `Accept`, `Commit` or `Decline` in the bridge, a notice
to every page subscribed; `Connect`, `ReadList`, `Replay`, `Receive`, `Cut` are
the stream. `Composer`: files of one drop are read one after the other (`Drop`,
`Read`), a recording waits for the microphone (`StartRec`, `Granted`, `Denied`,
`StopRec`, `OnStop`); a recorder may fail after the stream was opened
(`NotRecording`: the microphone stays open), and a clip may be unreadable (`NotRead`).

## 4. Runs

| Run | Instance | Shows |
|---|---|---|
| `meeting` | 5 requests in three settings. `Overlapping`: two at a time, all faults, one crash. `Serial`: one at a time, create and confirm may throw. `AtPropose`: one at a time, holds placed with the proposal, all faults | `ConsentBeforeBooking` under everything; `BothOrNeither`: a committed meeting is on both calendars, anything else on neither, one event per calendar, no acceptance lost, where calls do not overlap; `Settles`: what both accepted is settled, in all three; `KeepsPromise`: serial handlers implement `Handshake` |
| `plan` | a plan of five steps: read, guarded write, pick, write, missing detail; both policies, failing steps and writes. overlap: 5 messages, two at a time, one crash. serial: 6 messages, one at a time | `WritesNeedConsent`; `RunsOnceToTheEnd`: each step at most once, under its guard, no answered question still asked, nothing stranded; `Settled`: an answer that finds its plan parked resolves the question |
| `negotiate_any_peer` | negotiation: 3 slots (2 of self's), 4 hops, 2 throws. edits: 2 people, 2 addresses, 3 changes of which entries may be linked by hand, one stop. mails: 2 changes one after the other, one mail with 2 proposals, one id of the planner's. connections: 2 owners, 2 consents, 2 calls, gated or not, one restart | `OneHoldPerCalendar`, `BookedOrNothing`, `NegotiationEnds`; `BookIsKept`, `SentAsShown`; `AccountIsRight` |
| `roster_edits` | 3 assistants, 3 edits, two at a time, one failing access or crash | `MutualUnlessDamaged`, `EditsTakeEffect` |
| `peer_calls` | 2 turns, both at a time, cap 1, 2 days, 2 events; a peer on this bridge whose owner is known, or one elsewhere | `CapIsKept`, `AskedAtMostThrice`, `EveryTurnEnds` |
| `search` | slots: days of 6 instants, 3 windows, 4 busy lists a side, 5 zones. words: some 60000 messages of a grammar at two moments. catalog: 3 calls, listings of 5 and of 3 entries, pages of 2, a cap of 3. ranking: small catalogs and queries. hiring: 3 agents, 2 tries, every mode and both routes | `EarliestFreeSlot`, `WorkingHoursKept`, `BooksWhatWasRead`, `CatalogIsCurrent`, `SearchIsStable`, `FanoutKeepsMode`, `NoCallAfterClose`, `SearchesEnd` |
| `chat` | runs: 2 messages, one remedy, 2 conversations. notices: one page watched, 4 clicks or cuts. composer: 3 files, 2 recordings, 2 messages | `OneRunAtATime`, `StopStops`, `PanelCatchesUp`, `ComposerKeeps`, `ComesToRest` |
| `bridge` | serve: 3 calls, 3 agents, stops, shutdown, with and without a configured key. turns: 2 tenants, 3 turns, 5 settings, one restart, one edit. requests: 4 requests, 2 at a time, limit 1, window 2, introductions with and without a peer owner. routing: up to 3 of 21 detectors | `UnlistedOnlyIfRaced`, `KeyComesBack`; `CallsAllowed`, `PeerChosen`, `PlanFollowed`, `WrittenOnce`; `AnsweredOnce`, `LimitHolds`; `RoutedAsTold` |
| `meeting_double_event`, `negotiate_return`, `serve_key_stuck`, `turn_failed_read` | small | the findings of section 7 |

Bounds. Five serial handshake calls reach every status from every status that
leads to it (propose, two accepts, a retry, a decline); a sixth adds only
refused calls. Two overlapping handlers are what it takes to make a read stale,
and a third adds no new kind of interference, since every interference is a pair
of a read and a later write. Three slots with two common ones let a negotiation
leave a slot and return within four hops; two faults are a failure and a failure
of its compensation. Six messages are the request, one answer per pause and
replays of two of them. A cap of one is passed by two turns; two days put a
midnight between every pair of stages, and two events pair it with a crash or a
revocation. Three edits of a roster or of a book are one, one that overlaps it,
and one after both; three assistants let two edits meet in one file and part in
the other. Once two changes of a book overlapped no third begins (`ManyEdits`), and
a mail meets changes that do not overlap, of entries nobody linked (`ManyMails`):
where a mail goes depends on what the book says, not on how it came to. Two consents and two calls of two owners put a reconnection inside a
call and two calls on one token file. Days of six instants hold every order of
two windows and two intervals, touching and empty ones included; the zones change
forward and back, inside and outside the hours. The words are every form either
parser knows, at the turn of a leap day and after midnight. Three catalog calls
are a walk, a joiner and one after the snapshot has aged; the cap falls inside the
second page of one listing and on its end of the other. Three agents are the
least for a quorum that is not all and an answer after it. Three serve calls are
a race plus a third party. Three turns ask, answer and replay; four requests at a
limit of one cross a window boundary. Three detectors are any pair out of
order and one more. Two messages and a remedy are a run, one that meets it, and a
resumption of the first. Symmetry is used for interchangeable calls in runs
without liveness only (`roster_edits`, `bridge` and two of the findings). In
`meeting` and `plan`, whose properties include liveness, `InTurn` lets
interchangeable requests arrive in one order instead.

`CHECK_DEADLOCK FALSE` stands where the system may rest: owners need not send
anything more, calls are bounded, and a negotiation, a search and a pure part
end.

Fairness. Weak fairness stands on what has been started and only on that:
`Step(r)` of a handler or a turn (`meeting`, `plan`, `peer_calls`), the one loop
of the negotiation, and `Driven` of a search, a page asked for, a fan-out, a chat
run, the bridge's answer to a click and a recording. The event loop runs a
continuation when its promise settles; adapters settle or throw; the transport,
the fan-out, the classifier's budget and the minute of a recording have timers;
the remaining stages of the chat are HTTP requests the bridge answers or the
browser fails. Users, peers, the registry's changes, clocks and crashes are never
fair. One fairness condition over a whole part is enough where one actor drives
it; the two owners' responses in `notices` have one each.

## 5. Proofs

Each theorem is `Spec => []P` for every value of the constants (or, for
`KeepsItsPromise`, a refinement, and for `NobodyCalledLate` an action property).
Where a module has no fairness of its own to state, `Spec` stands spelled out as
`Init /\ [][Next]_vars`. What is assumed of the constants is in the named
`ASSUME`s, which TLC evaluates in the runs; they say what the code makes of its
configuration and no more:

- the shape of plans (`PlanAssumption`: at least two steps, for a single action is
  dispatched without the executor; a guard looks back), of intervals
  (`SlotAssumption`), slots (`NegotiationAssumption`), listings (`CatalogAssumption`:
  each names an agent once; a page and the cap are positive), calls and rosters;
- `ConstantsAssumption` (`MeetingRequest`): what a setting is;
- `RequestAssumption`: no owner is called "shared", limits and bounds are numbers, a
  window is at least 1 (0 switches the limiter off); `RoutingAssumption`: a
  confidence is a number;
- `TurnAssumption`: settings are those the environment can say, there are finitely
  many assistants, and every tenant's own is one of them; what a planner returns is
  a sequence of steps, with any ids and conditions;
- `SlotAssumption`: working hours are clock times of one day (`parseHm`);
  `MessageAssumption`: the words of a message are of the forms the parsers know, and
  a message is sent in the years 2000 to 2097, which `CalendarWindows` can count;
- `QueryAssumption`: catalogs, queries and the taxonomy are sequences, handles and
  parsed prices are ordered (integers stand for them), page sizes are positive;
- `FanoutAssumption`: agents are finitely many, quorums and tries are positive;
- `KeyAssumption`, `ConnectionAssumption`, `ContactAssumption`, `MediaAssumption`,
  `RunsAssumption`: names of different things differ (the peer's handle, the ids a
  planner may choose and the accounts are none of the marks the modules use).

The invariants of a run are seldom inductive. What each needs besides:

| Module | Theorems | Argument |
|---|---|---|
| `MeetingRequestProofs` | `TypeCorrect`, `ConsentFirst` | `TypeInv`: every event a snapshot or an audit entry names was created. `ConsentInv`: every snapshot, in the file or in a handler's memory, counts only acceptances that were given and claims both only if it has both (`Honest`), and a handler about to touch a calendar holds such a snapshot (`MayBook`). Without the part about memory it is not inductive: `Append` makes any stale snapshot the record. |
| | `KeepsItsPromise` | Where a setting is not `Serially` (no overlap, no crash, deletes that do not throw, no reservation) `KeepsPromise` says nothing. Where it is, `SerialInv`: at most one handler is at work; at rest the calendars hold what the record says, which is nothing unless it is committed (`AtRest`); a handler at work knows exactly what is on them and which audit entries are its own (`AtWork`). Then each action maps to a step of `Handshake` or to a stutter. |
| | `BothSidesOrNone` | `Serially`: beside `SerialInv`, `CreatedOnce` (a side that the booking at work holds nothing on had no event yet) and `AcceptanceKept` (who consented is in the record or in the snapshot about to be appended). `Reserving`: `ReservedInv`; after deletes that threw a snapshot no longer says what the calendars hold, but it covers it: what a side still has is the event of an unreleased hold (`Covers`), also in the record (`Fit`) |
| `NegotiationProofs` | `NegotiationTypes`, `OneHold` | `Covered`: while the loop runs, a live event is one that an unreleased hold names, so a slot is only placed on an empty calendar |
| | `Booked` | `Visited`, `Held`, `Ready`: a slot never dropped has no audit entries before it is held and afterwards those of its live events; an undo means a placement threw, so what remains needs a release that threw too |
| | `AccountsRight` | `Owned`: a token anywhere is one its owner connected. `Placed`, `Excused`: who goes on with the bridge's environment was let by the gate before the record was damaged, or is an ungated call that began without a record. `Alone`: a call that never met another of its owner finds the token it wrote. `Newest`: the record holds the last account saved, and a call reads it after the one it found when it began |
| | `BooksKept` | `OneEach`: a name is once in every book, in the file or in an edit's memory. `BookAlone`: while no two edits met and none was cut off, an edit's copy is what the file says (`InHand`), and what was saved and not removed is in it. `OnePeer`, `LastAddress`: unless the owner linked a second entry to the peer (`doubled`), the book has one entry of it, with the address it came with last |
| | `SentWhereShown` | `MailInv`, with `Backed`: a proposal keeps the address its token was made of, or, under an id of the planner's, one that a mail of that id was shown with; where all mails of an id agree on the address it is the one shown |
| `PlanResumeProofs` | `ExecutorTypes`, `ConsentedWrites` | `Waiting`: a handler about to write has the owner's token for that very step behind it, and a confirm token exists only for a proposed write |
| | `RunsOnce` | `Orderly`, while nothing disturbs the plan. The plan is at one place: before it every step has its outcome, behind it nothing happened (`AtStep`). Between messages (`AtRest`) it was not asked for, is parked there on one question, or is over. A handler at work either carries the plan on and knows its place at each await (`Carries`), or replays a token of a plan that went on and can only make a write that failed (`Replays`). Every token ever given is one of these two (`Given`), which is why replays of any number in any order do nothing twice. |
| `PeerCallsProofs` | `PeerCallTypes`, `CapHolds` | `Counted`, `Room`: unless turns raced, one turn at a time is between check and write, the file counts the calls of the last day that had any, and a turn past the check has room on the day it will be counted on, although midnight may pass twice before it writes |
| | `ThriceAtMost` | `Asked`: a turn at a stage was put before its peer at most as often as the stage allows, a task still on the network included |
| `RosterProofs` | `RosterTypes`, `EditsApply`, `MutualTrust`, `SharingOffered` | `Locked`: a file two calls use is damaged, and an undamaged one is truncated exactly while a call writes it; so (`Effects`) what a call is about to save is what the file says, edited; so (`Agreement`) two undamaged sides agree except half-way through the one edit that changes them. `Offers` needs none of this. |
| `BridgeProofs` | `RegistryTypes`, `ListedLive`, `LeaksOnlyByRace` | `Registry`: a listed call is online and finished; two calls past the check for one agent have been seen by `raced`, and so has a call whose agent was listed meanwhile |
| | `KeyReturns` | `Balanced`: windows close in any order and may share keys, so no stack describes them. Each open window is an edge from the key it found to the key it set; as long as none was put back over another's, edges leaving and entering a key balance but for the configured key and the current one. With no window open the two are the same. |
| | `AllowedCalls`, `ChosenPeers`, `WritesOnce` | `CallInv`, with `AuditInv`: a write that succeeded is audited, and nothing takes an audit entry back, whatever turns, settings and restarts follow |
| | `PlansFollowed` | `PlanSound`: no two steps of a validated plan share an id, and a name is the id of the first step that bears it or of an earlier one. `PlanInv`: the ledger of a turn, or of a plan that waits for a token, has the plan's steps in order up to the place it has come to (`Follows`), each that reached the world with its guard met by an earlier entry (`Opened`), and a write waits for its token only with its guard met. What `normalizeSteps` builds step by step is a recursive function; that it exists, and that each of its values is sound, is shown by the least number of steps without it, and that an id is free in `uniqueStepId` by counting the ids taken. |
| | `RequestsLimited` | `LimitInv`: each client's admissions are cut into the windows they fell into, of which the table keeps the last (`Laid`, `Before`, `Over`): a window holds at most the limit, and windows begin at least a window apart. So a stretch of a window's length meets two. |
| | `RequestsAnsweredOnce` | `RequestInv`: what was sent so far is a beginning of a well-formed answer and what is left to do completes it (`Going`), or it is well formed (`Gone`); records are only ahead of a request that was checked for its owner (`Rightful`), and they are that owner's or, in an introduction, those `RosterDirs` allows (`Further`), also after the cache of standing assistants was rebuilt |
| | `TurnsRoutedAsTold` | `RoutingInv`: the model is only asked where no fact of the turn decides, and every way to settle gives a classification within the taxonomy; whom it names is what the owner typed, or what is left of the model's reply (`Told`) |
| `ChatProofs` | `ComposerHolds` | `MediaInv`: the files of a drop that are read are together in the composer or gone with one message (`Together`); unless Record was clicked twice, one recording owns the button, and one that records or reads its clip has it (`OneRecorder`) |
| | `PanelsCatchUp` | `NoticeInv`: of the notices on their way to a page the last one tells the newest change (`ToldTheNewest`), and a list read for the replay is no newer than the record and as new unless the page was overtaken (`ListedIsOld`) |
| | `OneRunOnly`, `StoppingStops` | `ChatInv`: one run works (`OneWorks`), the handle that Stop uses is the run's own or a gateway stream's (`HandleIsLive`), one message is shown as in progress (`OneShown`), and a run stopped where there was something to stop was aborted or is at its last stage (`StoppedIsAborted`; `GoesOn` are the others) |
| `SlotSearchProofs` | `SlotFree`, `SlotEarliest`, `EarliestSlot` | `Searched`: earlier windows are exhausted. `Scanned`: intervals already looked at end before the cursor, and no start before the cursor is free |
| | `HoursKept` | A window that a search without a named time looks through is a stretch of one local day between its opening and its closing instant (`DayInv`); while the zone's offset does not move a clock time of the working hours, clock times in it run as instants do, so a slot that fits passes the guard of the write. For messages: inferred ends are taken from the hours, unless the pattern finds hours in an ISO date. |
| | `ReadAndBooked` | The first day of a year has a closed form (`NewYear`), from which every day in range lies in one year and one month of it; a dated word is then the next such day, and both parsers compute the same clock times from the same words (`SameClock`), where those are words both know and no date is taken for hours. |
| | `SearchStable` | The members of a finite strictly ordered set are told apart by how many come before them (`Ranks`); so `Only` is a selection (`Selects`) and `Sorted` a permutation (`SortedPlaces`), which of results of different handles depends on their set alone (`SortedInOrder`). Of the hits one explains a result (`OneExplains`), and a hit in the model field contradicts the note. Pages glued one after the other are the first so many matches (`PagesGlued`). |
| | `ModesKept`, `NobodyCalledLate` | `FanoutInv`: calls are made to targets only (`OnlyTargets`), what was collected is what the calls returned (`Collected`), a session closes when its mode is satisfied or nothing is left to wait for, and stays so (`ClosedAtTheEnd`, `StaysDecided`); a target that costs money was consented to, was free when this session discovered it, was selected, or is the random pick where nothing was free (`FreeTargets`); a route discovers without a gate (`TurnsAreOpen`) |
| | `CatalogCurrent` | `OneFlight`: whoever walks is the flight, its walk is the newest begun, and whoever joined asked for nothing newer, so what lands is the newest that landed and no older than anybody's floor. `Walked`: while the registry holds still, a walk has a prefix of the listing as long as its cursor, and no cursor it has seen is ahead of it, so a repeated cursor ends the walk before it repeats an entry. `Stored`: a snapshot is such a prefix, or all of it. |

Only model-checked, and why:

- every liveness property (`Settles`, `Settled`, `NegotiationEnds`,
  `EveryTurnEnds`, `SearchesEnd`, `ComesToRest`): fairness is beyond the prover.

## 6. Properties with conditions

A condition in a property names a behaviour of the code that would break it; each
is described below.

- `Settles` and `Settled` except a crash, and the first also a `deleteEvent` that
  throws: it leaves the handler and nothing resumes it. `Settled` and
  `RunsOnceToTheEnd` exempt a plan parked on a missing detail, and `Settled` says
  that the question is resolved, not that it stays so (section 7).
- `BookedOrNothing` excepts a negotiation in which a create and a delete threw,
  and a slot that was let go of (finding 2).
- `BothOrNeither` is about handlers that do not overlap, but for consent;
  `RunsOnceToTheEnd` about a plan that is not `disturbed`: messages one at a time in
  a process that lives.
- `CapIsKept` excepts overlapping counts and a file a crash left empty.
- `MutualUnlessDamaged`, `EditsTakeEffect`, `BookIsKept` except files used by two
  edits at once, or misread, or cut off.
  The lost update itself is therefore what the code does, and not caught by them.
- `BookIsKept` says that the peer is one entry unless the owner linked a second
  one to it by hand and both are in the book (`doubled`).
- `SentAsShown` excepts an id that the planner gave to mails of different addresses.
- `AccountIsRight` excepts a call that meets another call of its owner, or a
  record while it is replaced. With the bridge's own account goes an ungated call of
  an owner without a record, and a gated one whose record was damaged after the gate.
- `WorkingHoursKept`: the proposal passes the guard of the write unless the zone
  skips or repeats a clock time of the working hours; a date whose month and day are
  read as hours (`ReadAsHours`) is excepted, whatever hours that gives.
- `CapIsKept` does not see a write of the budget that fails after it truncated the
  file (`a2a/a2a-budget.ts:76`): that file access is assumed to succeed or to be cut
  off by a crash.
- `FanoutKeepsMode`: without consent an agent that asked for money is called by the
  route for a selected one, and by the random route where nothing free was found.
- `PlanFollowed`: a guard looks at the step it names unless that id is `Shadowed`. A
  planner that calls its first step "step2" and leaves the second without an id moves
  the second on to "step3" (`assistant/plan-schema.ts:125`); a guard on "step3" then
  looks at the second step, not at the third.
- `SearchIsStable`: which order a result has, and that an agent is filed under its
  own tags only, are said of a catalog that names each agent once (`NamesEachOnce`).
  `walkRegistryPages` keeps what it is given (`blocks-client.ts:105`), so an agent
  that moves to a later page during a walk is in the snapshot twice, perhaps with
  two prices or other tags. What a page holds, the note on the model and that
  nobody is hidden are proved of such catalogs as well.
- `BooksWhatWasRead` assumes the server's clock is in the owner's zone and leaves
  out "coming", names of months, "til" and "till" and dates read as hours, which the
  two parsers read differently.
- `StopStops` excepts classification, pictures and specialists; `OneRunAtATime`
  counts a gateway stream apart; `PanelCatchesUp` excepts a page told of a change
  before its replay; `ComposerKeeps` a doubled click on Record, a file removed while
  it loads, and the microphone of a recorder that failed after the stream was opened,
  in which nothing records. `ComesToRest` does not count that microphone as a
  recording.
- `CatalogIsCurrent` exempts, from being whole or saying so, a snapshot whose last
  page passed the cap and one whose registry changed under the walk or repeated a
  cursor.
- `LimitHolds` says twice the limit over a stretch that crosses a boundary, and that
  a request touches its owner's records, those of the peer owner an introduction
  names, or the shared rosters if the request carries no checked owner or the
  introduction names no peer owner.
- `RoutedAsTold`: a handle is named where the owner typed it, and only there.
- `Settled` says nothing after a crash: a process that dies between the resolution of
  a plan and its continuation loses the rest of the plan, which no property catches.

## 7. Findings

Each has a violation run that TLC answers with a trace.

1. `meeting_double_event`: two overlapping accepts create two events on one
   calendar. The audit is looked up before `createEvent` and written after it,
   and the status guard of the commit is read before either.
2. `negotiate_return`: a negotiation that returns to a slot it left converges
   with nothing on the calendars.
3. `serve_key_stuck`: two serves whose key swaps cross leave one agent's
   credential in `BLOCKS_API_KEY`.
4. `turn_failed_read`: a calendar server that answers a free/busy question with
   an error, which is not thrown, is reported to the owner as a free calendar.

Observed while modelling, without a run of their own.

Handshake and negotiation:

- First accepts of both owners that overlap: the later snapshot overwrites the
  earlier one (`a2a/meeting-request.ts:395`), and the request waits for an owner
  who accepted. With overlap, a decline can be appended over a commit.
- An accept after the TTL appends 'expired' without releasing holds made at
  propose time (`a2a/meeting-request.ts:256`), and the sweep then skips the
  record. The product passes no booking (`assistant/assistant-runtime.ts:2061`).
- `sweepExpiredMeetingRequests` has no caller outside the checks. After a crash,
  holds and events stay; nothing sweeps them. The live calendar adapter supports
  no delete (`integrations/calendar-mcp.ts:416`): every release throws there.

Plans and turns (`assistant/assistant-runtime.ts`):

- Two overlapping confirms of one parked plan both write and both run the rest
  (1806, 1814). Two overlapping picks both resume the plan, and the slower one
  parks it again on a confirmation that was answered meanwhile. A confirmed write that fails resolves the parked plan: a retry of
  the token runs the write alone. A plan parked because a detail is missing is
  never resumed (598).
- A guard with an unknown predicate is dropped and its step runs unguarded
  (`assistant/plan-schema.ts:182`); positional references can name another step
  when the planner's ids collide with `stepN`.
- With an account not connected the step counts as satisfied and nothing is
  parked, though the reply says "I'll finish that for you"; a confirmed write
  never checks the account; a mail draft whose tool answers with an error is
  still satisfied; a failed read fails both guards 'free' and 'busy', but counts
  as no busy interval in the slot search.
- A refused confirmation in read-only mode consumes the plan; two plans with the
  same write share one token; entries written offline make a later live
  confirmation answer "already created"; a write proposed with an explicit
  idempotency id that is taken (1601, 1636) is shown with its own arguments and
  confirmed with those of the first proposal: a mail goes elsewhere than shown.
- A confirmed write (1708) and a meeting's booking (424) resolve the account without
  the gate of a turn. Without a record they go on with the environment of the bridge
  (`integrations/integration-store.ts:112`), although the comment at the gate (1518)
  says that a disconnected owner must never reach the server without credentials.
- A peer whose owner has one's own first name cannot be reached by name; a pick is
  checked against the roster and not against the candidates it was offered.
- The pattern for a range of hours (`integrations/calendar-mcp.ts:167`) matches the
  month and the day of an ISO date: "free on 2026-06-15" asks about 06:00 to 15:00,
  although line 69 says of a bare date that it is clamped to the working hours. The
  booking's pattern (3480) finds the same, without am or pm, and gives up. "1pm til 4pm" is read as one hour and booked as three.
- A booking parses dates with the server's clock (3409). "Coming Tuesday" and
  names of months are read differently by the window and by the booking; "11 to
  1pm" books from 23:00 to 13:00.

Calls between assistants:

- Retries and the fallback are not counted against the cap; a refused inbound
  answer looks unreadable and is retried; every outbound request starts at hop 1
  (`a2a/a2a.ts:27`); a proposal notifies the owner of a peer on the same bridge
  even if the roster gate refused the request.

Files per owner:

- Two overlapping edits of one roster lose one of them, and a roster read while it
  is written loads as empty, so that the next save drops all its peers
  (`assistant/assistant-roster.ts:148`). A repeated invite replaces both entries
  (160). Inviting with both owner ids and revoking with one of them missing edit
  different directories (`server/dashboard.ts:772`).
- The contact book and the integration record are truncated and written the same
  way. A peer that comes back under a new name may replace another contact, and replaces
  an address the owner had corrected (`assistant/contacts-store.ts:148` says
  "WITHOUT clobbering"). Two contacts saved one after the other, or a contact and an
  invitation, may be linked to one peer, since entries are told apart by name (89).
  Saving a profile replaces all of it.
- `sanitizeOwnerId` (`integrations/integration-store.ts:35`) maps different owners
  to one file name; the nonce of a consent is never checked; the scopes recorded
  are those of the environment (`integration-oauth.ts:120`). Two callbacks of one owner that
  overlap may leave a record that does not parse, and both answer "connected". Every
  live call starts an MCP
  server that nobody stops (3617).

Network:

- A forced refresh of the catalog joins an older walk in flight
  (`blocks/catalog-index.ts:643`); a walk whose last page passes the cap is
  clipped (`blocks/blocks-client.ts:117`) and does not say `truncated`, although the
  comment above says "never silently clipped to a prefix". Race and best succeed with an answer that has no image; handles
  beyond the limit are silently not called; the cost shown omits timed-out calls.
  The random and the selected route call paid agents without a question
  (`server/dashboard.ts:2374`, `2436`).

Bridge and page:

- The fixed window lets twice the limit through across a boundary; refused
  requests count; a window of 0 switches the limit off. A client that disconnects
  does not stop its turn, and its retry repeats it. An upstream that aborts in
  mid-stream ends a 200 answer like any other. Identity says 'assistant-default'
  though the preferred owner is not configured. A model call outlives the
  classifier's budget. The offline mirror names as the person what the owner typed, a
  handle `pa_bob` included (`routing/classify.ts:204`), though
  `routing/peer-coordination.ts:82` says it never is one. An introduction without
  `peerOwnerId` edits rosters of the shared directory, of whatever assistant the body
  names (`server/dashboard.ts:646`). The comment at `routing/classify.ts:235` that its order
  mirrors the offline stub is not so.
- A confirmation or an action does not look at `streamRef`: it may run beside a
  gateway stream, whose handle for Stop is then lost. Stop while a turn is
  classified stops nothing: the message is marked and the run goes on (`app.jsx:1179`);
  Stop during a picture or a specialist goes on to the gateway. A message stopped while another conversation
  is shown keeps its spinner. `send` may refuse a text the composer has cleared.
  Record clicked twice leaves the first microphone open, and so does a recorder that
  cannot be built or started (`composer.jsx:188`, `213`); a clip that cannot be read
  leaves a stop button that stops nothing. Sending does not stop a recording. The panel's stream is not reconnected.

## 8. Not modelled and why

- `assistant-factory.ts`, `assistant-dashboard.ts`: file templates and a read-only
  page; the one check before a write is a name collision.
- `a2a-audit.ts`, the listing and metrics endpoints, tracing: nothing that
  decides reads them.
- The early notice of an inbound request, which has neither slot nor token
  (`parkInboundCoordination`, `assistant/assistant-runtime.ts:871-889`): `Notices` has
  those that tell of a record.
- `gmail-mcp.ts` and the MCP wire: what a call does, throws or returns is in the
  modules of its callers.
- Static files, outputs and their conversion, skill files, markdown, layout and
  the browse page: formatting.
- `run-fanout.ts`, `run.ts`, `test-suite.ts`, demos and checks: programs over the
  modelled functions. The checks were read as the intended behaviour.
- Published agents, shell scripts, containers and prompt texts: no state machine.
- The planner and the classifier's model (any answer the code accepts or has to
  repair is an input), regular expressions (a text is what they say of it), the
  Blocks SDK, Google and the registry (external, as `src` uses them).
