------------------------------ MODULE Catalog ------------------------------
(***************************************************************************)
(* The catalog snapshot: loadCatalogSnapshot of blocks/catalog-index.ts    *)
(* (a cache with a time to live, one walk in flight at a time) over        *)
(* walkRegistryPages of blocks/blocks-client.ts, as loadRuntimeCatalog and *)
(* the bridge's loadDashboardCatalog call them, for one cache key.         *)
(*                                                                         *)
(* The registry is external.  It answers a page at a time, it may change   *)
(* between two pages, it may fail, and it may hand out the cursor it was   *)
(* asked with.  An entry is an agent and whether it is public; a cursor is *)
(* the number of entries before the page it stands for.                    *)
(***************************************************************************)
EXTENDS Integers, Sequences

CONSTANTS Calls,      \* calls of loadCatalogSnapshot
          Listings,   \* the contents of the registry, one after the other
          PageSize,   \* 50 in the code
          Cap,        \* catalogScanMax()
          Ttl,        \* CATALOG_TTL_MS
          MaxTime,    \* bound of the clock
          NoSnapshot, NoCall, NoWalk

Entry == [agent : Nat, public : BOOLEAN]

ASSUME CatalogAssumption ==
  /\ Listings \in Seq(Seq(Entry)) /\ Listings # <<>>
  /\ \A v \in DOMAIN Listings : \A i, j \in DOMAIN Listings[v] :
       Listings[v][i].agent = Listings[v][j].agent => i = j
  /\ {PageSize, Cap} \subseteq Nat \ {0} /\ {Ttl, MaxTime} \subseteq Nat
  /\ NoCall \notin Calls

VARIABLES
  mock,    \* FOUNDATION_OFFLINE: the mock catalog instead of the registry
  reports,    \* whether the registry reports its size
  version,    \* the current listing
  clock,
  cache,      \* snapshotCache: a snapshot or NoSnapshot
  inflight,   \* inflight: the call whose promise others join, or NoCall
  phase,         \* of each call
  walk,       \* the locals of walkRegistryPages, of each call
  servedBy,     \* the walk each call was answered from (history)
  newest,     \* the newest walk that has landed (history)
  floor,      \* the oldest walk a call may be answered from (history)
  walks     \* walks begun so far (history)

cvars == <<mock, reports, version, clock, cache, inflight, phase, walk, servedBy, newest, floor, walks>>

Registry == Listings[version]
LastPage == -1

\* s.slice(from, from + n)
Slice(s, from, n) == SubSeq(s, from + 1, IF from + n < Len(s) THEN from + n ELSE Len(s))

NewWalk(nr) ==
  [nr |-> nr, items |-> <<>>, scanned |-> 0, total |-> 0, cursor |-> 0, seen |-> {},
   from |-> version, steady |-> TRUE]

CatalogInit ==
  /\ mock \in BOOLEAN /\ reports \in BOOLEAN /\ (mock => ~reports)
  /\ version = 1 /\ clock = 0 /\ walks = 0
  /\ cache = NoSnapshot /\ inflight = NoCall
  /\ phase = [c \in Calls |-> "idle"]
  /\ walk = [c \in Calls |-> NoWalk]
  /\ servedBy = [c \in Calls |-> 0] /\ newest = 0
  /\ floor = [c \in Calls |-> 0]

-----------------------------------------------------------------------------
Fresh == cache # NoSnapshot /\ clock - cache.at < Ttl

Hit(c, refresh) ==
  /\ ~refresh /\ Fresh
  /\ servedBy' = [servedBy EXCEPT ![c] = cache.nr] /\ phase' = [phase EXCEPT ![c] = "done"]
  /\ UNCHANGED <<inflight, walk, walks>>

Join(c, refresh) ==
  /\ refresh \/ ~Fresh
  /\ inflight # NoCall
  /\ phase' = [phase EXCEPT ![c] = "join"]
  /\ UNCHANGED <<inflight, walk, servedBy, walks>>

StartAnyway(c, refresh) == \* mutant: every call fetches for itself
  /\ refresh \/ ~Fresh
  /\ inflight' = c /\ walks' = walks + 1
  /\ walk' = [walk EXCEPT ![c] = NewWalk(walks + 1)]
  /\ phase' = [phase EXCEPT ![c] = "walk"]
  /\ UNCHANGED servedBy

Start(c, refresh) ==
  /\ refresh \/ ~Fresh
  /\ inflight = NoCall
  /\ inflight' = c /\ walks' = walks + 1
  /\ walk' = [walk EXCEPT ![c] = NewWalk(walks + 1)]
  /\ phase' = [phase EXCEPT ![c] = "walk"]
  /\ UNCHANGED servedBy

\* loadCatalogSnapshot up to its first await.
Load(c) ==
  /\ phase[c] = "idle"
  /\ \E refresh \in BOOLEAN :
       /\ Hit(c, refresh) \/ Join(c, refresh) \/ Start(c, refresh)
       /\ floor' = [floor EXCEPT ![c] = IF refresh THEN newest + 1 ELSE newest]
  /\ UNCHANGED <<mock, reports, version, clock, cache, newest>>

-----------------------------------------------------------------------------
\* The calls a walk answers: its own and the ones that joined it.
Served(c) == {c} \cup {d \in Calls : phase[d] = "join" /\ inflight = c}

\* The snapshot of a walk: the first Cap entries, of which the agents are the
\* public ones.
Snapshot(w, truncated) ==
  [items |-> Slice(w.items, 0, Cap), scanned |-> w.scanned, total |-> IF w.total = 0 THEN w.scanned ELSE w.total,
   truncated |-> truncated, at |-> clock, nr |-> w.nr, from |-> w.from, steady |-> w.steady]
Public(snapshot) == {i \in DOMAIN snapshot.items : snapshot.items[i].public}

\* The fetch resolved: stored, the flight's entry deleted, everybody answered.
Land(c, w, truncated) ==
  /\ walk' = [walk EXCEPT ![c] = NoWalk]
  /\ cache' = Snapshot(w, truncated)
  /\ newest' = IF w.nr > newest THEN w.nr ELSE newest
  /\ inflight' = IF inflight = c THEN NoCall ELSE inflight
  /\ servedBy' = [d \in Calls |-> IF d \in Served(c) THEN w.nr ELSE servedBy[d]]
  /\ phase' = [d \in Calls |-> IF d \in Served(c) THEN "done" ELSE phase[d]]

\* What fetchAgentRegistry returns for a cursor (external).
PageAt(cursor) == Slice(Registry, cursor, PageSize)
NextCursors(cursor) ==
  (IF cursor + PageSize < Len(Registry) THEN {cursor + PageSize} ELSE {LastPage})
    \cup (IF cursor > 0 THEN {cursor} ELSE {})

Honest(cursor, next) == next # cursor

\* The walk after a page.
WithPage(w, page, next) ==
  [w EXCEPT !.items = @ \o page, !.scanned = @ + Len(page),
            !.total = IF reports THEN Len(Registry) ELSE @,
            !.steady = @ /\ Honest(w.cursor, next) /\ w.from = version]

MoreLeft(w, next) == next # LastPage \/ (w.total > 0 /\ w.scanned < w.total)

Repeated(w, next) == next \in w.seen

\* One turn of the loop of walkRegistryPages.
Page(c) ==
  /\ phase[c] = "walk" /\ ~mock
  /\ \E next \in NextCursors(walk[c].cursor) :
       LET page == PageAt(walk[c].cursor)
           w == WithPage(walk[c], page, next)
       IN  \/ /\ page = <<>>
              /\ Land(c, w, FALSE)
           \/ /\ page # <<>> /\ Len(w.items) >= Cap
              /\ Land(c, w, MoreLeft(w, next))
           \/ /\ page # <<>> /\ Len(w.items) < Cap
              /\ next = LastPage \/ Repeated(w, next)
              /\ Land(c, w, FALSE)
           \/ /\ page # <<>> /\ Len(w.items) < Cap
              /\ next # LastPage /\ ~Repeated(w, next)
              /\ walk' = [walk EXCEPT ![c] = [w EXCEPT !.seen = @ \cup {next}, !.cursor = next]]
              /\ UNCHANGED <<cache, inflight, servedBy, newest, phase>>
  /\ UNCHANGED <<mock, reports, version, clock, floor, walks>>

\* scanCatalog offline: the mock catalog up to the cap (the first listing).
ScanMock(c) ==
  /\ phase[c] = "walk" /\ mock
  /\ LET kept == Slice(Listings[1], 0, Cap)
     IN  Land(c, [walk[c] EXCEPT !.items = kept, !.scanned = Len(kept), !.total = Len(Listings[1])],
              Len(Listings[1]) > Len(kept))
  /\ UNCHANGED <<mock, reports, version, clock, floor, walks>>

FetchFailsKept(c) == \* mutant: the entry of a failed flight stays, nobody else is told
  /\ phase[c] = "walk" /\ phase' = [phase EXCEPT ![c] = "failed"]
  /\ walk' = [walk EXCEPT ![c] = NoWalk]
  /\ UNCHANGED <<mock, reports, version, clock, cache, inflight, servedBy, newest, floor, walks>>

\* connect() or a page throws: nothing is stored, everybody gets the error.
FetchFails(c) ==
  /\ phase[c] = "walk"
  /\ inflight' = IF inflight = c THEN NoCall ELSE inflight
  /\ phase' = [d \in Calls |-> IF d \in Served(c) THEN "failed" ELSE phase[d]]
  /\ walk' = [walk EXCEPT ![c] = NoWalk]
  /\ UNCHANGED <<mock, reports, version, clock, cache, servedBy, newest, floor, walks>>

\* Agents are published or withdrawn.
Edit ==
  /\ version < Len(Listings) /\ version' = version + 1
  /\ UNCHANGED <<mock, reports, clock, cache, inflight, phase, walk, servedBy, newest, floor, walks>>

Tick ==
  /\ clock < MaxTime /\ clock' = clock + 1
  /\ UNCHANGED <<mock, reports, version, cache, inflight, phase, walk, servedBy, newest, floor, walks>>

CatalogNext ==
  \/ \E c \in Calls : Load(c) \/ Page(c) \/ ScanMock(c) \/ FetchFails(c)
  \/ Edit \/ Tick

CatalogSpec == CatalogInit /\ [][CatalogNext]_cvars

\* A page, once asked for, is answered or fails.
CatalogDriven == \E c \in Calls : Page(c) \/ ScanMock(c)
-----------------------------------------------------------------------------
CatalogTypes ==
  /\ mock \in BOOLEAN /\ reports \in BOOLEAN
  /\ version \in DOMAIN Listings /\ clock \in Nat
  /\ inflight \in Calls \cup {NoCall}
  /\ phase \in [Calls -> {"idle", "join", "walk", "done", "failed"}]
  /\ {walks, newest} \subseteq Nat
  /\ servedBy \in [Calls -> Nat] /\ floor \in [Calls -> Nat]

\* A registry that stayed as it was gives each agent once, also when it hands
\* out a cursor twice: "Guards against a stuck/repeating cursor".
NoDuplicates ==
  cache # NoSnapshot /\ cache.from = version =>
    \A i, j \in Public(cache) : cache.items[i] = cache.items[j] => i = j

\* A snapshot of a registry that stayed as it was has every public agent, or
\* says that it is a prefix: "never silently clipped to a prefix".  (Not so when
\* the last page passes the cap: it is clipped and says nothing.)
WholeOrSaidSo ==
  cache # NoSnapshot /\ cache.steady /\ cache.scanned <= Cap =>
    \/ cache.truncated
    \/ LET listing == IF mock THEN Listings[1] ELSE Listings[cache.from]
       IN  {cache.items[i] : i \in Public(cache)}
             = {e \in {listing[i] : i \in DOMAIN listing} : e.public}

\* Answers never go back: a call is answered from a walk that began no earlier
\* than any walk that had landed when the call was made, and a refresh from
\* one that landed later.
NeverOlder ==
  \A c \in Calls : phase[c] = "done" => servedBy[c] >= floor[c]

\* The catalog a call is answered with is no older than one that was there when it
\* was made, names nobody twice, and is whole or says that it is not.
CatalogIsCurrent == CatalogTypes /\ NoDuplicates /\ WholeOrSaidSo /\ NeverOlder

\* Every call ends, with an answer or an error, whatever the registry does:
\* time and again none is waiting (there are finitely many, each made once).
NobodyWaits == \A c \in Calls : phase[c] \notin {"walk", "join"}
=============================================================================
