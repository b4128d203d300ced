--------------------------- MODULE ServeRegistry ---------------------------
(***************************************************************************)
(* Serving agents from the bridge: apiServe, apiStop and shutdown of       *)
(* agent/src/server/dashboard.ts, the map `served` they share, and the     *)
(* key swap around the SDK call in agent/src/blocks/blocks-serve.ts.       *)
(*                                                                         *)
(* A step is the code between two awaits.  The SDK and its instances are   *)
(* external: startAgentInstance takes any time and may reject, and an      *)
(* instance is online from then until its handle is stopped.               *)
(***************************************************************************)
CONSTANTS
  Agents,      \* folders under published/, one agent each
  Calls,       \* POST /api/serve calls, each made at most once
  OwnKey,      \* agents with a credential of their own in the keyring
  Modules,     \* agents served by their handler.ts, which is imported first
  Configurations, \* what .env may say of BLOCKS_API_KEY: a key or Unset
  Unset,
  Nobody       \* no call

ASSUME KeyAssumption ==
  /\ OwnKey \subseteq Agents
  /\ Modules \subseteq Agents
  /\ Configurations \cap Agents = {} /\ Unset \notin Agents
  /\ Nobody \notin Calls

\* The keyring names a key by its agent.
Key == Agents \cup Configurations \cup {Unset}

Stage == {"idle", "import", "card", "starting", "started", "done", "refused"}

VARIABLES
  configured, \* BLOCKS_API_KEY when the bridge started
  env,      \* process.env.BLOCKS_API_KEY
  served,   \* the map: the call whose handle is listed for an agent
  live,     \* calls whose instance is online
  pc,
  agent,    \* the agent of a call
  key,      \* apiKey of serveAgent
  previous, \* what withBlocksApiKey will put back
  down,     \* shutdown has run
  raced,    \* history: agents two calls were serving at the same time
  crossed   \* history: a key was put back over the key of another call

vars == <<configured, env, served, live, pc, agent, key, previous, down, raced, crossed>>
call == <<agent, key, previous, configured>>

Goto(c, stage) == pc' = [pc EXCEPT ![c] = stage]

\* Calls past the check of `served` whose instance is not listed yet.
Serving == {c \in Calls : pc[c] \in {"import", "card", "starting", "started"}}
\* Calls inside withBlocksApiKey.
Windows == {c \in Calls : pc[c] = "starting"}
Listed == {served[a] : a \in Agents} \ {Nobody}

KeyFor(a) == IF a \in OwnKey THEN a ELSE env

Init ==
  /\ configured \in Configurations
  /\ env = configured
  /\ served = [a \in Agents |-> Nobody]
  /\ live = {}
  /\ pc = [c \in Calls |-> "idle"]
  /\ agent \in [Calls -> Agents]
  /\ key = [c \in Calls |-> Unset]
  /\ previous = [c \in Calls |-> Unset]
  /\ down = FALSE
  /\ raced = {}
  /\ crossed = FALSE

-----------------------------------------------------------------------------
\* serveAgent takes the agent's own key, else whatever the environment holds.
EnterServeAgent(c) ==
  /\ key' = [key EXCEPT ![c] = KeyFor(agent[c])]
  /\ Goto(c, IF KeyFor(agent[c]) = Unset THEN "refused" ELSE "card")

\* apiServe after its file reads: no key at all, or the agent is listed.
RefuseServe(c) ==
  /\ ~down /\ pc[c] = "idle"
  /\ \/ KeyFor(agent[c]) = Unset
     \/ served[agent[c]] # Nobody
  /\ Goto(c, "refused")
  /\ UNCHANGED <<env, served, live, call, down, raced, crossed>>

\* Mutant of Unserved: the map is not consulted.
UnservedAlways(a) == a \in Agents
Unserved(a) == served[a] = Nobody

\* Otherwise the handler: an import, or for an assistant a closure at once.
Serve(c) ==
  /\ ~down /\ pc[c] = "idle"
  /\ KeyFor(agent[c]) # Unset
  /\ Unserved(agent[c])
  /\ raced' = raced \cup {a \in {agent[c]} : \E d \in Serving : agent[d] = a}
  /\ \/ agent[c] \in Modules /\ Goto(c, "import") /\ UNCHANGED key
     \/ agent[c] \notin Modules /\ EnterServeAgent(c)
  /\ UNCHANGED <<configured, env, served, live, agent, previous, down, crossed>>

\* The module may fail to load or have no handler.
Import(c) ==
  /\ pc[c] = "import"
  /\ \/ EnterServeAgent(c)
     \/ Goto(c, "refused") /\ UNCHANGED key
  /\ UNCHANGED <<configured, env, served, live, agent, previous, down, raced, crossed>>

\* serveAgent has read the card: withBlocksApiKey swaps the environment.
SwapKey(c) ==
  /\ pc[c] = "card"
  /\ previous' = [previous EXCEPT ![c] = env]
  /\ env' = key[c]
  /\ Goto(c, "starting")
  /\ UNCHANGED <<configured, served, live, agent, key, down, raced, crossed>>

\* Mutant of RestoreKey: put back on success only.
RestoreKeyIfStarted(c, started) ==
  /\ env' = IF started THEN previous[c] ELSE env
  /\ crossed' = (crossed \/ env # key[c])
\* The finally block: with no key before, the variable is deleted.
RestoreKey(c, started) ==
  /\ env' = previous[c]
  /\ crossed' = (crossed \/ env # key[c])

\* startAgentInstance resolves with a handle, or rejects.
Started(c) ==
  /\ pc[c] = "starting"
  /\ live' = live \cup {c}
  /\ RestoreKey(c, TRUE)
  /\ Goto(c, "started")
  /\ UNCHANGED <<served, call, down, raced>>

StartFails(c) ==
  /\ pc[c] = "starting"
  /\ RestoreKey(c, FALSE)
  /\ Goto(c, "refused")
  /\ UNCHANGED <<served, live, call, down, raced>>

\* The handle is listed, over whatever was listed.  Waiting for the control
\* channel and the reply that follow change nothing.
Register(c) ==
  /\ pc[c] = "started"
  /\ served' = [served EXCEPT ![agent[c]] = c]
  /\ Goto(c, "done")
  /\ UNCHANGED <<env, live, call, down, raced, crossed>>

\* apiStop, without an await; an agent that is not listed is a 404.
Stop(a) ==
  /\ ~down
  /\ served[a] # Nobody
  /\ live' = live \ {served[a]}
  /\ served' = [served EXCEPT ![a] = Nobody]
  /\ UNCHANGED <<env, pc, call, down, raced, crossed>>

\* SIGINT or SIGTERM.  Calls in flight go on until the process exits.
Shutdown ==
  /\ ~down
  /\ down' = TRUE
  /\ live' = live \ Listed
  /\ served' = [a \in Agents |-> Nobody]
  /\ UNCHANGED <<env, pc, call, raced, crossed>>

Next ==
  \/ \E c \in Calls :
       \/ RefuseServe(c) \/ Serve(c) \/ Import(c) \/ SwapKey(c)
       \/ Started(c) \/ StartFails(c) \/ Register(c)
  \/ \E a \in Agents : Stop(a)
  \/ Shutdown

Spec == Init /\ [][Next]_vars

-----------------------------------------------------------------------------
(***************************************************************************)
(* Properties.                                                             *)
(***************************************************************************)

\* The types, and that a call past serveAgent's check has a key.
TypeOK ==
  /\ configured \in Configurations
  /\ env \in Key
  /\ served \in [Agents -> Calls \cup {Nobody}]
  /\ live \subseteq Calls
  /\ pc \in [Calls -> Stage]
  /\ agent \in [Calls -> Agents]
  /\ key \in [Calls -> Key]
  /\ previous \in [Calls -> Key]
  /\ down \in BOOLEAN
  /\ raced \subseteq Agents
  /\ crossed \in BOOLEAN
  /\ \A c \in Calls : pc[c] \in {"card", "starting", "started", "done"} => key[c] # Unset

\* What /api/served lists is online and is the agent it is listed for:
\* however serves, stops and a shutdown interleave (dashboard.ts: "Live agent
\* instances served by this dashboard process").
ListedIsLive ==
  \A a \in Agents : served[a] # Nobody => served[a] \in live /\ agent[served[a]] = a

\* Every online instance is listed or about to be, so that a stop reaches it,
\* unless two calls were serving its agent at the same time (apiServe checks
\* `served` and sets it on the other side of its awaits).
UnlistedOnlyIfRaced ==
  \A c \in live : \/ served[agent[c]] = c
                  \/ pc[c] = "started"
                  \/ agent[c] \in raced

\* Serves that nest give the environment back: once no call is inside
\* withBlocksApiKey, BLOCKS_API_KEY is the configured one, unless a call put
\* its `previous` back while another call's key was in place.
KeyComesBack == Windows = {} /\ ~crossed => env = configured

\* Without that exception: an agent's own credential does not outlive its
\* serve call ("Optional per-agent Blocks credential", blocks-serve.ts).
KeyRestored == Windows = {} => env = configured
=============================================================================
