---------------------------- MODULE BridgeProofs ----------------------------
(***************************************************************************)
(* What holds of the bridge for any agents, keys, owners, requests, limits *)
(* and settings: its registry of served agents and the key in the          *)
(* environment (ServeRegistry), a turn's calls to the world (OwnerTurn),   *)
(* the requests it serves (BridgeRequests) and the routing of what owners  *)
(* say (IntentRouting).                                                    *)
(***************************************************************************)
EXTENDS ServeRegistry, OwnerTurn, BridgeRequests, IntentRouting,
        FiniteSetTheorems, SequenceTheorems, WellFoundedInduction, TLAPS

-----------------------------------------------------------------------------
(***************************************************************************)
(* ServeRegistry.                                                          *)
(***************************************************************************)

\* Why an instance can only go missing by a race: a listed call is finished
\* and online, an instance that is started but not listed is online, and a
\* call that is not alone with its agent has been seen by `raced`.
Registry ==
  /\ \A a \in Agents : served[a] # Nobody =>
       served[a] \in live /\ agent[served[a]] = a /\ pc[served[a]] = "done"
  /\ \A c \in live : pc[c] \in {"started", "done"}
  /\ \A c \in Calls : pc[c] = "started" => c \in live
  /\ \A c, d \in Serving : c # d /\ agent[c] = agent[d] => agent[c] \in raced
  /\ \A c \in Serving : served[agent[c]] # Nobody => agent[c] \in raced

IInv == TypeOK /\ Registry /\ UnlistedOnlyIfRaced

\* The initial states satisfy the invariant.
LEMMA InitInv == Init => IInv
<1> SUFFICES ASSUME Init
             PROVE  IInv
  OBVIOUS
<1>1. TypeOK
  BY DEF Init, TypeOK, Key, Stage
<1>2. Registry /\ UnlistedOnlyIfRaced
  BY DEF Init, Registry, UnlistedOnlyIfRaced, Serving
<1> QED BY <1>1, <1>2 DEF IInv

\* A call that is refused before it is past the check changes nothing else.
LEMMA RefuseInv ==
  ASSUME IInv, NEW c \in Calls, RefuseServe(c)
  PROVE  IInv'
  BY KeyAssumption, SMTT(60)
  DEF IInv, TypeOK, Registry, UnlistedOnlyIfRaced, Key, Stage, Serving,
      RefuseServe, Goto, call

\* A call that passes the check is seen by `raced` when it is not alone.
LEMMA ServeInv ==
  ASSUME IInv, NEW c \in Calls, Serve(c)
  PROVE  IInv'
<1> DEFINE next == pc'[c]
<1>1. /\ pc[c] = "idle" /\ served[agent[c]] = Nobody /\ agent[c] \in Agents
      /\ UNCHANGED <<configured, env, served, live, agent, previous, down, crossed>>
      /\ raced' = raced \cup {a \in {agent[c]} : \E d \in Serving : agent[d] = a}
  BY DEF Serve, Unserved, IInv, TypeOK
<1>2. /\ pc' = [pc EXCEPT ![c] = next] /\ next \in {"import", "refused", "card"}
      /\ key' \in [Calls -> Key] /\ \A d \in Calls : d # c => key'[d] = key[d]
      /\ next = "card" => key'[c] # Unset
  BY DEF Serve, EnterServeAgent, KeyFor, Goto, IInv, TypeOK, Key
<1>3. TypeOK'
  BY <1>1, <1>2, SMTT(30) DEF IInv, TypeOK, Stage, Key
<1>4. Serving' \subseteq Serving \cup {c} /\ c \notin Serving /\ Serving \subseteq Serving'
  BY <1>1, <1>2 DEF Serving, IInv, TypeOK
<1>5. Registry'
  <2>1. /\ \A a \in Agents : served'[a] # Nobody =>
            served'[a] \in live' /\ agent'[served'[a]] = a /\ pc'[served'[a]] = "done"
        /\ \A d \in live' : pc'[d] \in {"started", "done"}
        /\ \A d \in Calls : pc'[d] = "started" => d \in live'
    BY <1>1, <1>2, KeyAssumption DEF IInv, TypeOK, Registry
  <2>2. \A d, e \in Serving' : d # e /\ agent'[d] = agent'[e] => agent'[d] \in raced'
    BY <1>1, <1>4 DEF IInv, Registry
  <2>3. \A d \in Serving' : served'[agent'[d]] # Nobody => agent'[d] \in raced'
    BY <1>1, <1>4 DEF IInv, Registry
  <2> QED BY <2>1, <2>2, <2>3 DEF Registry
<1>6. UnlistedOnlyIfRaced'
  BY <1>1, <1>2 DEF IInv, TypeOK, Registry, UnlistedOnlyIfRaced
<1> QED BY <1>3, <1>5, <1>6 DEF IInv

\* Loading the handler, swapping the key and failing to start keep a call
\* where it was, or take it out of the race.
LEMMA ImportInv ==
  ASSUME IInv, NEW c \in Calls, Import(c)
  PROVE  IInv'
<1>1. /\ pc[c] = "import"
      /\ pc' = [pc EXCEPT ![c] = pc'[c]] /\ pc'[c] \in {"refused", "card"}
      /\ key' \in [Calls -> Key] /\ \A d \in Calls : d # c => key'[d] = key[d]
      /\ pc'[c] = "card" => key'[c] # Unset
      /\ UNCHANGED <<configured, env, served, live, agent, previous, down, raced, crossed>>
  BY DEF Import, EnterServeAgent, KeyFor, Goto, IInv, TypeOK, Key
<1>2. TypeOK'
  BY <1>1, SMTT(30) DEF IInv, TypeOK, Stage, Key
<1>3. Serving' \subseteq Serving
  BY <1>1 DEF Serving, IInv, TypeOK
<1>4. Registry' /\ UnlistedOnlyIfRaced'
  BY <1>1, <1>3, KeyAssumption DEF IInv, TypeOK, Registry, UnlistedOnlyIfRaced
<1> QED BY <1>2, <1>4 DEF IInv

\* Swapping the key moves no instance.
LEMMA SwapKeyInv ==
  ASSUME IInv, NEW c \in Calls, SwapKey(c)
  PROVE  IInv'
<1>1. TypeOK'
  BY SMTT(30) DEF IInv, TypeOK, SwapKey, Goto, Stage, Key
<1>2. Serving' = Serving
  BY DEF Serving, IInv, TypeOK, SwapKey, Goto
<1>3. Registry' /\ UnlistedOnlyIfRaced'
  BY <1>2, KeyAssumption DEF IInv, TypeOK, Registry, UnlistedOnlyIfRaced, SwapKey, Goto
<1> QED BY <1>1, <1>3 DEF IInv

\* A start that fails takes its call out of the race.
LEMMA StartFailsInv ==
  ASSUME IInv, NEW c \in Calls, StartFails(c)
  PROVE  IInv'
<1>1. TypeOK'
  BY SMTT(30) DEF IInv, TypeOK, StartFails, RestoreKey, Goto, Stage, Key, call
<1>2. Serving' \subseteq Serving
  BY DEF Serving, IInv, TypeOK, StartFails, Goto
<1>3. Registry' /\ UnlistedOnlyIfRaced'
  BY <1>2, KeyAssumption
  DEF IInv, TypeOK, Registry, UnlistedOnlyIfRaced, StartFails, Goto, call
<1> QED BY <1>1, <1>3 DEF IInv

\* A new instance is online before it is listed.
LEMMA StartedInv ==
  ASSUME IInv, NEW c \in Calls, Started(c)
  PROVE  IInv'
<1>1. TypeOK'
  BY SMTT(30) DEF IInv, TypeOK, Started, RestoreKey, Goto, Stage, Key, call
<1>2. Serving' = Serving
  BY DEF Serving, IInv, TypeOK, Started, Goto
<1>3. Registry' /\ UnlistedOnlyIfRaced'
  BY <1>2, KeyAssumption
  DEF IInv, TypeOK, Registry, UnlistedOnlyIfRaced, Started, Goto, call
<1> QED BY <1>1, <1>3 DEF IInv

\* Listing a call over another one is a race: the other was listed while
\* this one was serving.
LEMMA RegisterInv ==
  ASSUME IInv, NEW c \in Calls, Register(c)
  PROVE  IInv'
<1>1. /\ pc[c] = "started" /\ c \in Serving /\ c \in live /\ agent[c] \in Agents
      /\ served' = [served EXCEPT ![agent[c]] = c]
      /\ pc' = [pc EXCEPT ![c] = "done"]
      /\ UNCHANGED <<configured, env, live, agent, key, previous, down, raced, crossed>>
  BY DEF Register, Goto, call, Serving, IInv, TypeOK, Registry
<1>2. TypeOK'
  BY <1>1, SMTT(30) DEF IInv, TypeOK, Stage, Key
<1>3. Serving' = Serving \ {c}
  BY <1>1 DEF Serving, IInv, TypeOK
<1>4. Registry'
  <2>1. \A a \in Agents : served'[a] # Nobody =>
          served'[a] \in live' /\ agent'[served'[a]] = a /\ pc'[served'[a]] = "done"
    BY <1>1, KeyAssumption DEF IInv, TypeOK, Registry
  <2>2. /\ \A d \in live' : pc'[d] \in {"started", "done"}
        /\ \A d \in Calls : pc'[d] = "started" => d \in live'
    BY <1>1 DEF IInv, TypeOK, Registry
  <2>3. \A d, e \in Serving' : d # e /\ agent'[d] = agent'[e] => agent'[d] \in raced'
    BY <1>1, <1>3 DEF IInv, Registry
  <2>4. \A d \in Serving' : served'[agent'[d]] # Nobody => agent'[d] \in raced'
    <3> SUFFICES ASSUME NEW d \in Serving', served'[agent[d]] # Nobody
                 PROVE  agent[d] \in raced
      BY <1>1
    <3>1. d \in Serving /\ d # c /\ agent[d] \in Agents
      BY <1>3 DEF Serving, IInv, TypeOK
    <3>2. CASE agent[d] = agent[c]
      BY <1>1, <3>1, <3>2 DEF IInv, Registry
    <3>3. CASE agent[d] # agent[c]
      BY <1>1, <3>1, <3>3 DEF IInv, TypeOK, Registry
    <3> QED BY <3>2, <3>3
  <2> QED BY <2>1, <2>2, <2>3, <2>4 DEF Registry
<1>5. UnlistedOnlyIfRaced'
  <2> SUFFICES ASSUME NEW d \in live
               PROVE  served'[agent[d]] = d \/ pc'[d] = "started" \/ agent[d] \in raced
    BY <1>1 DEF UnlistedOnlyIfRaced
  <2>1. d \in Calls /\ agent[d] \in Agents
    BY DEF IInv, TypeOK
  <2>2. CASE d = c
    BY <1>1, <2>2 DEF IInv, TypeOK
  <2>3. CASE d # c /\ agent[d] # agent[c]
    BY <1>1, <2>1, <2>3 DEF IInv, TypeOK, UnlistedOnlyIfRaced
  <2>4. CASE d # c /\ agent[d] = agent[c]
    <3>1. served[agent[c]] = d => agent[d] \in raced
      BY <1>1, <2>1, <2>4, KeyAssumption DEF IInv, Registry
    <3> QED BY <1>1, <2>1, <2>4, <3>1 DEF IInv, TypeOK, UnlistedOnlyIfRaced
  <2> QED BY <2>2, <2>3, <2>4
<1> QED BY <1>2, <1>4, <1>5 DEF IInv

\* Stopping takes the listed instance of one agent, or of all of them.
LEMMA StopInv ==
  ASSUME IInv, NEW a \in Agents, Stop(a)
  PROVE  IInv'
<1>1. /\ served[a] # Nobody /\ served[a] \in live /\ pc[served[a]] = "done"
      /\ agent[served[a]] = a
      /\ live' = live \ {served[a]} /\ served' = [served EXCEPT ![a] = Nobody]
      /\ UNCHANGED <<configured, env, pc, agent, key, previous, down, raced, crossed>>
  BY DEF Stop, call, IInv, Registry
<1>2. TypeOK'
  BY <1>1 DEF IInv, TypeOK
<1>3. Serving' = Serving
  BY <1>1 DEF Serving
<1>4. Registry'
  BY <1>1, <1>3, KeyAssumption DEF IInv, TypeOK, Registry, Serving
<1>5. UnlistedOnlyIfRaced'
  BY <1>1 DEF IInv, TypeOK, UnlistedOnlyIfRaced
<1> QED BY <1>2, <1>4, <1>5 DEF IInv

\* A shutdown empties the list and stops what was on it.
LEMMA ShutdownInv ==
  ASSUME IInv, Shutdown
  PROVE  IInv'
<1>1. /\ live' = live \ Listed /\ served' = [a \in Agents |-> Nobody]
      /\ UNCHANGED <<configured, env, pc, agent, key, previous, raced, crossed>>
      /\ down' = TRUE
  BY DEF Shutdown, call
<1>2. TypeOK'
  BY <1>1 DEF IInv, TypeOK
<1>3. Serving' = Serving
  BY <1>1 DEF Serving
<1>4. \A c \in Listed : pc[c] = "done"
  BY DEF Listed, IInv, Registry
<1>5. Registry'
  BY <1>1, <1>3, <1>4 DEF IInv, TypeOK, Registry, Serving
<1>6. UnlistedOnlyIfRaced'
  <2> SUFFICES ASSUME NEW c \in live', pc[c] # "started"
               PROVE  agent[c] \in raced
    BY <1>1 DEF UnlistedOnlyIfRaced
  <2>1. c \in live /\ c \in Calls /\ agent[c] \in Agents /\ c \notin Listed
    BY <1>1 DEF IInv, TypeOK
  <2>2. served[agent[c]] # c
    BY <2>1, KeyAssumption DEF Listed
  <2> QED BY <2>1, <2>2 DEF IInv, UnlistedOnlyIfRaced
<1> QED BY <1>2, <1>5, <1>6 DEF IInv

\* The invariant is inductive: one lemma per action.
LEMMA Inductive == IInv /\ [Next]_vars => IInv'
<1> SUFFICES ASSUME IInv, [Next]_vars
             PROVE  IInv'
  OBVIOUS
<1>1. ASSUME NEW c \in Calls, RefuseServe(c) PROVE IInv'  BY <1>1, RefuseInv
<1>2. ASSUME NEW c \in Calls, Serve(c)       PROVE IInv'  BY <1>2, ServeInv
<1>3. ASSUME NEW c \in Calls, Import(c)      PROVE IInv'  BY <1>3, ImportInv
<1>4. ASSUME NEW c \in Calls, SwapKey(c)     PROVE IInv'  BY <1>4, SwapKeyInv
<1>5. ASSUME NEW c \in Calls, Started(c)     PROVE IInv'  BY <1>5, StartedInv
<1>6. ASSUME NEW c \in Calls, StartFails(c)  PROVE IInv'  BY <1>6, StartFailsInv
<1>7. ASSUME NEW c \in Calls, Register(c)    PROVE IInv'  BY <1>7, RegisterInv
<1>8. ASSUME NEW a \in Agents, Stop(a)       PROVE IInv'  BY <1>8, StopInv
<1>9. CASE Shutdown                                       BY <1>9, ShutdownInv
<1>10. CASE UNCHANGED vars
  BY <1>10 DEF vars, IInv, TypeOK, Registry, UnlistedOnlyIfRaced, Serving
<1> QED
  BY <1>1, <1>2, <1>3, <1>4, <1>5, <1>6, <1>7, <1>8, <1>9, <1>10 DEF Next

\* Whatever agents, calls and keyring, the registry is well typed: in
\* particular no agent is started without a key (serveAgent throws).
THEOREM RegistryTypes == Spec => []TypeOK
<1>1. Spec => []IInv
  BY InitInv, Inductive, PTL DEF Spec
<1> QED BY <1>1, PTL DEF IInv

\* An instance listed for an agent is online and runs that agent.
THEOREM ListedLive == Spec => []ListedIsLive
<1>1. Spec => []IInv
  BY InitInv, Inductive, PTL DEF Spec
<1>2. IInv => ListedIsLive
  BY DEF IInv, Registry, ListedIsLive
<1> QED BY <1>1, <1>2, PTL

\* Only two calls serving one agent at the same time can leave an instance
\* online that no stop reaches.
THEOREM LeaksOnlyByRace == Spec => []UnlistedOnlyIfRaced
<1>1. Spec => []IInv
  BY InitInv, Inductive, PTL DEF Spec
<1> QED BY <1>1, PTL DEF IInv

-----------------------------------------------------------------------------
(***************************************************************************)
(* The environment's key.  Windows close in any order, and several may     *)
(* hold one key, so no stack of them can be kept in mind.  Instead each    *)
(* window is an edge from the key it found to the key it set: opening one  *)
(* moves the environment along a new edge, closing one over its own key    *)
(* moves it back along that edge, and so the edges that leave a key and    *)
(* those that enter it balance, but for the configured key and the current *)
(* one.                                                                    *)
(***************************************************************************)
Leaving(v) == {c \in Windows : previous[c] = v}
Entering(v) == {c \in Windows : key[c] = v}
Here(v, w) == IF v = w THEN 1 ELSE 0

Balanced ==
  \A v \in Key : Cardinality(Leaving(v)) + Here(v, env)
                   = Cardinality(Entering(v)) + Here(v, configured)

KeyInv == IsFiniteSet(Windows) /\ (crossed \/ Balanced)

\* One more element counts one more.
LEMMA OneMore ==
  ASSUME NEW S, NEW T, NEW x, IsFiniteSet(S), x \notin S, T = S \cup {x}
  PROVE  Cardinality(T) = Cardinality(S) + 1 /\ Cardinality(S) \in Nat
  BY FS_AddElement, FS_CardinalityType

\* A step that opens and closes no window leaves the balance alone.
LEMMA KeyKept ==
  ASSUME KeyInv, Windows' = Windows,
         UNCHANGED <<env, configured, previous, crossed>>,
         \A c \in Windows : key'[c] = key[c]
  PROVE  KeyInv'
<1>1. \A v : Leaving(v)' = Leaving(v) /\ Entering(v)' = Entering(v)
  BY DEF Leaving, Entering
<1> QED BY <1>1 DEF KeyInv, Balanced, Here

\* Opening a window adds its edge and goes along it.
LEMMA KeyOpened ==
  ASSUME IInv, KeyInv, NEW c \in Calls, SwapKey(c)
  PROVE  KeyInv'
<1>1. /\ pc[c] = "card" /\ pc' = [pc EXCEPT ![c] = "starting"]
      /\ previous' = [previous EXCEPT ![c] = env] /\ env' = key[c]
      /\ UNCHANGED <<configured, key, crossed>>
  BY DEF SwapKey, Goto
<1>2. c \notin Windows /\ Windows' = Windows \cup {c}
  BY <1>1 DEF Windows, IInv, TypeOK
<1>3. IsFiniteSet(Windows')
  BY <1>2, FS_AddElement DEF KeyInv
<1>4. ASSUME NEW v \in Key, Balanced
      PROVE  Cardinality(Leaving(v)') + Here(v, env') = Cardinality(Entering(v)') + Here(v, configured)
  <2>1. /\ Leaving(v)' = IF v = env THEN Leaving(v) \cup {c} ELSE Leaving(v)
        /\ Entering(v)' = IF v = key[c] THEN Entering(v) \cup {c} ELSE Entering(v)
        /\ c \notin Leaving(v) /\ c \notin Entering(v)
    BY <1>1, <1>2 DEF Leaving, Entering, Windows, IInv, TypeOK
  <2>2. IsFiniteSet(Leaving(v)) /\ IsFiniteSet(Entering(v))
    BY FS_Subset DEF KeyInv, Leaving, Entering
  <2>3. /\ Cardinality(Leaving(v)) \in Nat /\ Cardinality(Entering(v)) \in Nat
        /\ Cardinality(Leaving(v)') = Cardinality(Leaving(v)) + Here(v, env)
        /\ Cardinality(Entering(v)') = Cardinality(Entering(v)) + Here(v, env')
    BY <1>1, <2>1, <2>2, OneMore, FS_CardinalityType DEF Here
  <2>4. Cardinality(Leaving(v)) + Here(v, env) = Cardinality(Entering(v)) + Here(v, configured)
    BY <1>4 DEF Balanced
  <2> QED BY <2>3, <2>4 DEF Here
<1> QED BY <1>1, <1>3, <1>4 DEF KeyInv, Balanced

\* Closing a window goes back along its edge, unless another key is in place.
LEMMA KeyClosed ==
  ASSUME IInv, KeyInv, NEW c \in Calls, Started(c) \/ StartFails(c)
  PROVE  KeyInv'
<1>1. /\ pc[c] = "starting" /\ pc' \in {[pc EXCEPT ![c] = "started"], [pc EXCEPT ![c] = "refused"]}
      /\ env' = previous[c] /\ crossed' = (crossed \/ env # key[c])
      /\ UNCHANGED <<configured, key, previous>>
  BY DEF Started, StartFails, RestoreKey, Goto, call
<1>2. c \in Windows /\ Windows' = Windows \ {c}
  BY <1>1 DEF Windows, IInv, TypeOK
<1>3. IsFiniteSet(Windows')
  BY <1>2, FS_RemoveElement DEF KeyInv
<1>4. ASSUME NEW v \in Key, Balanced, env = key[c]
      PROVE  Cardinality(Leaving(v)') + Here(v, env') = Cardinality(Entering(v)') + Here(v, configured)
  <2>1. /\ Leaving(v) = IF v = env' THEN Leaving(v)' \cup {c} ELSE Leaving(v)'
        /\ Entering(v) = IF v = env THEN Entering(v)' \cup {c} ELSE Entering(v)'
        /\ c \notin Leaving(v)' /\ c \notin Entering(v)'
    BY <1>1, <1>2, <1>4 DEF Leaving, Entering
  <2>2. IsFiniteSet(Leaving(v)') /\ IsFiniteSet(Entering(v)')
    BY <1>3, FS_Subset DEF Leaving, Entering
  <2>3. /\ Cardinality(Leaving(v)') \in Nat /\ Cardinality(Entering(v)') \in Nat
        /\ Cardinality(Leaving(v)) = Cardinality(Leaving(v)') + Here(v, env')
        /\ Cardinality(Entering(v)) = Cardinality(Entering(v)') + Here(v, env)
    BY <2>1, <2>2, OneMore, FS_CardinalityType DEF Here
  <2>4. Cardinality(Leaving(v)) + Here(v, env) = Cardinality(Entering(v)) + Here(v, configured)
    BY <1>4 DEF Balanced
  <2> QED BY <2>3, <2>4 DEF Here
<1> QED BY <1>1, <1>3, <1>4 DEF KeyInv, Balanced

\* The other steps concern calls outside the windows.
LEMMA KeyElsewhere ==
  ASSUME IInv, KeyInv,
         \/ \E c \in Calls : RefuseServe(c) \/ Serve(c) \/ Import(c) \/ Register(c)
         \/ \E a \in Agents : Stop(a)
         \/ Shutdown \/ UNCHANGED vars
  PROVE  KeyInv'
<1>1. UNCHANGED <<env, configured, previous, crossed>>
  BY DEF RefuseServe, Serve, EnterServeAgent, Import, Register, Stop, Shutdown, vars, call
<1>2. Windows' = Windows /\ \A c \in Windows : key'[c] = key[c]
  <2>1. ASSUME NEW c \in Calls, RefuseServe(c) \/ Register(c)
        PROVE  Windows' = Windows /\ \A d \in Windows : key'[d] = key[d]
    BY <2>1 DEF Windows, RefuseServe, Register, Goto, call, IInv, TypeOK
  <2>2. ASSUME NEW c \in Calls, Serve(c) \/ Import(c)
        PROVE  Windows' = Windows /\ \A d \in Windows : key'[d] = key[d]
    BY <2>2 DEF Windows, Serve, Import, EnterServeAgent, Goto, IInv, TypeOK
  <2>3. CASE (\E a \in Agents : Stop(a)) \/ Shutdown \/ UNCHANGED vars
    BY <2>3 DEF Windows, Stop, Shutdown, vars, call
  <2> QED BY <2>1, <2>2, <2>3
<1> QED BY <1>1, <1>2, KeyKept

\* Whatever serves overlap and however they end: when no call is inside
\* withBlocksApiKey, the environment holds the configured key again, unless a
\* key was put back over another call's (blocks-serve.ts).
THEOREM KeyReturns == Spec => []KeyComesBack
<1>1. Init => KeyInv
  <2> SUFFICES ASSUME Init PROVE KeyInv
    OBVIOUS
  <2>1. Windows = {} /\ env = configured
    BY DEF Init, Windows
  <2>2. \A v : Leaving(v) = {} /\ Entering(v) = {}
    BY <2>1 DEF Leaving, Entering
  <2> QED BY <2>1, <2>2, FS_EmptySet DEF KeyInv, Balanced
<1>2. IInv /\ KeyInv /\ [Next]_vars => KeyInv'
  BY KeyOpened, KeyClosed, KeyElsewhere DEF Next
<1>3. IInv /\ KeyInv => KeyComesBack
  <2> SUFFICES ASSUME IInv, KeyInv, Windows = {}, ~crossed
               PROVE  env = configured
    BY DEF KeyComesBack
  <2>1. env \in Key /\ Leaving(env) = {} /\ Entering(env) = {}
    BY DEF IInv, TypeOK, Leaving, Entering
  <2>2. Cardinality(Leaving(env)) = 0 /\ Cardinality(Entering(env)) = 0
    BY <2>1, FS_EmptySet
  <2>3. Cardinality(Leaving(env)) + Here(env, env) = Cardinality(Entering(env)) + Here(env, configured)
    BY <2>1 DEF KeyInv, Balanced
  <2> QED BY <2>2, <2>3 DEF Here
<1> QED BY InitInv, Inductive, <1>1, <1>2, <1>3, PTL DEF Spec

-----------------------------------------------------------------------------
(***************************************************************************)
(* OwnerTurn: the calls of a turn to the world.  They are decided in one   *)
(* step, so little has to be known of the state; the effect of the step    *)
(* says which call it was.                                                 *)
(***************************************************************************)

TurnFields == {"pc", "owner", "home", "plan", "cursor", "ledger", "alone"}

\* A write that succeeded is audited.
AuditInv ==
  /\ audit \in [Tenants -> [Writes -> {"none", "proposed", "written"}]]
  /\ wrote \in [Tenants -> [Writes -> 0 .. 1]]
  /\ \A o \in Tenants, tool \in Writes : wrote[o][tool] = 1 => audit[o][tool] = "written"

\* What the calls depend on, and what they were.
CallInv ==
  /\ setting \in Settings /\ invited \in [Tenants -> SUBSET Assistants]
  /\ AuditInv
  /\ DOMAIN turn = TurnFields /\ (turn.pc = "exec" => turn.owner \in Tenants)
  /\ CallsAllowed /\ PeerChosen

\* There are only so many assistants a name may mean.
LEMMA TargetsCount ==
  ASSUME invited \in [Tenants -> SUBSET Assistants], NEW o \in Tenants, NEW to
  PROVE  /\ IsFiniteSet(PeerTargets(o, to)) /\ Cardinality(PeerTargets(o, to)) \in Nat
         /\ PeerTargets(o, to) \subseteq invited[o] \ {Own[o]}
         /\ to \in Assistants \cup {Own[o]} => PeerTargets(o, to) \subseteq {to}
         /\ to \notin Assistants \cup {Own[o]} =>
              PeerTargets(o, to) \in {{}, {h \in invited[o] : h \in Named[to]}}
<1>1. PeerTargets(o, to) \subseteq Assistants
  BY DEF PeerTargets, Fitting
<1>2. IsFiniteSet(PeerTargets(o, to)) /\ Cardinality(PeerTargets(o, to)) \in Nat
  BY <1>1, TurnAssumption, FS_Subset, FS_CardinalityType
<1> QED
  BY <1>2 DEF PeerTargets, Fitting

\* A call reaches the world only where mode, policy, account and roster allow it.
LEMMA CallAllowed ==
  ASSUME setting \in Settings, invited \in [Tenants -> SUBSET Assistants],
         NEW o \in Tenants, NEW step, NEW r \in Outcomes(o, o, step)
  PROVE  /\ r.made =>
              /\ step.kind \in Blockable => ~Blocked(step.kind)
              /\ step.kind \in Writes => setting.mode = "open" /\ audit[o][step.kind] # "written"
              /\ step.kind \in Google /\ setting.live => o \in connected
              /\ r.how = "stub" => ~setting.live
              /\ step.kind = "peer" => Cardinality(PeerTargets(o, step.to)) = 1
         /\ step.kind \in Writes /\ r.class = "confirm" => audit[o][step.kind] # "written"
<1>1. setting.mode \in {"readonly", "booking", "open"}
  BY TurnAssumption
<1>2. \A c \in Runner : /\ c.made => (c.how = "stub" => ~setting.live)
                        /\ c.class # "confirm"
  BY DEF Runner, Came, Throws, Quietly
<1>3. \A c \in RunWrite : /\ c.made => (c.how = "stub" => ~setting.live)
                          /\ c.class # "confirm"
  <2> SUFFICES ASSUME NEW c \in RunWrite
               PROVE  (c.made => (c.how = "stub" => ~setting.live)) /\ c.class # "confirm"
    OBVIOUS
  <2>1. PICK q \in Runner : c \in {q} \cup (IF q.made THEN {Came("hard-fail", TRUE, q.how)} ELSE {})
    BY DEF RunWrite
  <2> QED
    BY <1>2, <2>1 DEF Came
<1>4. \A tool : \A c \in Asks(tool) : ~c.made /\ c.class # "confirm"
  BY DEF Asks, Quietly, Came
<1>5. CASE step.kind \in {"direct", "catalog"}
  BY <1>5 DEF Outcomes, Quietly, Came, Blockable, Writes, Google
<1>6. CASE step.kind = "specialist"
  BY <1>6 DEF Outcomes, UseSpecialist, Quietly, Throws, Came, Blockable, Writes, Google
<1>7. CASE step.kind = "peer"
  <2>1. r \in UsePeer(o, step.to)
    BY <1>7 DEF Outcomes
  <2>2. Cardinality(PeerTargets(o, step.to)) \in Nat
    BY TargetsCount
  <2> QED
    BY <1>2, <1>7, <2>1, <2>2 DEF UsePeer, Quietly, Came, Blockable, Writes, Google
<1>8. CASE step.kind = "read"
  <2>1. r \in UseRead(o)
    BY <1>8 DEF Outcomes
  <2>2. r.made => (setting.live => o \in connected) /\ (r.how = "stub" => ~setting.live)
    <3>1. CASE MustConnect(o)
      BY <2>1, <3>1 DEF UseRead, Quietly, Came
    <3>2. CASE ~MustConnect(o)
      <4>1. PICK q \in Runner :
              r \in IF q.how # "live" THEN {q}
                    ELSE {Came("satisfied", TRUE, how) : how \in {"free", "busy", "text", "failed"}}
        BY <2>1, <3>2 DEF UseRead
      <4> QED
        BY <1>2, <3>2, <4>1 DEF MustConnect, Came
    <3> QED
      BY <3>1, <3>2
  <2> QED
    BY <1>8, <2>2 DEF Blockable, Writes
<1>9. CASE step.kind = "draft"
  <2>1. r \in UseDraft(o)
    BY <1>9 DEF Outcomes
  <2> QED
    BY <1>2, <1>4, <1>9, <2>1 DEF UseDraft, MustConnect, Quietly, Came, Writes
<1>10. CASE step.kind \notin {"direct", "catalog", "specialist", "peer", "read", "draft"}
  <2>1. r \in UseWrite(o, o, step.kind)
    BY <1>10 DEF Outcomes
  <2>2. r.made => /\ ~MustConnect(o) /\ ~Blocked(step.kind) /\ audit[o][step.kind] # "written"
                  /\ BookingPolicy # "confirm" /\ (r.how = "stub" => ~setting.live)
    BY <1>3, <1>4, <2>1 DEF UseWrite, Quietly, Came
  <2>3. r.class = "confirm" => audit[o][step.kind] # "written"
    BY <1>3, <1>4, <2>1 DEF UseWrite, Quietly, Came
  <2>4. step.kind \in Writes /\ ~Blocked(step.kind) /\ BookingPolicy # "confirm" => setting.mode = "open"
    BY <1>1 DEF Blocked, BookingPolicy, Writes, Blockable
  <2> QED
    BY <1>10, <2>2, <2>3, <2>4 DEF MustConnect
<1> QED
  BY <1>5, <1>6, <1>7, <1>8, <1>9, <1>10

\* A confirmed write is looked at again: its mode, and whether it was made.
LEMMA ConfirmAllowed ==
  ASSUME setting \in Settings, NEW o \in Tenants, NEW tool \in Writes, NEW r \in ConfirmedWrite(o, tool)
  PROVE  /\ r.made => ~Blocked(tool) /\ audit[o][tool] # "written" /\ (r.how = "stub" => ~setting.live)
         /\ r.class # "confirm"
<1>1. \A c \in Runner : (c.made => (c.how = "stub" => ~setting.live)) /\ c.class # "confirm"
  BY DEF Runner, Came, Throws, Quietly
<1>2. r \in RunWrite => (r.made => (r.how = "stub" => ~setting.live)) /\ r.class # "confirm"
  <2> SUFFICES ASSUME r \in RunWrite
               PROVE  (r.made => (r.how = "stub" => ~setting.live)) /\ r.class # "confirm"
    OBVIOUS
  <2>1. PICK q \in Runner : r \in {q} \cup (IF q.made THEN {Came("hard-fail", TRUE, q.how)} ELSE {})
    BY DEF RunWrite
  <2> QED
    BY <1>1, <2>1 DEF Came
<1> QED
  BY <1>2 DEF ConfirmedWrite, Quietly, Came

\* A write succeeds, or is proposed, where none is on record.
LEMMA AuditKept ==
  ASSUME AuditInv, NEW o \in Tenants, NEW step, NEW r, Audited(o, step, r),
         step.kind \in Writes /\ (r.class = "confirm" \/ (r.made /\ r.class = "satisfied"))
           => audit[o][step.kind] # "written"
  PROVE  AuditInv'
<1>1. CASE step.kind \notin Writes
  BY <1>1 DEF Audited, AuditInv
<1>2. CASE step.kind \in Writes
  <2> DEFINE tool == step.kind
  <2>1. CASE r.made /\ r.class = "satisfied"
    <3>1. /\ audit' = [audit EXCEPT ![o][tool] = "written"]
          /\ wrote' = [wrote EXCEPT ![o][tool] = @ + 1]
      BY <1>2, <2>1 DEF Audited, Dir
    <3>2. wrote[o][tool] = 0
      BY <1>2, <2>1 DEF AuditInv
    <3> QED
      BY <1>2, <3>1, <3>2 DEF AuditInv
  <2>2. CASE r.class = "confirm"
    <3>1. audit' = [audit EXCEPT ![o][tool] = "proposed"] /\ wrote' = wrote
      BY <1>2, <2>2 DEF Audited, Dir
    <3>2. wrote[o][tool] = 0
      BY <1>2, <2>2 DEF AuditInv
    <3> QED
      BY <1>2, <3>1, <3>2 DEF AuditInv
  <2>3. CASE ~(r.made /\ r.class = "satisfied") /\ r.class # "confirm"
    BY <1>2, <2>3 DEF Audited, AuditInv
  <2> QED
    BY <2>1, <2>2, <2>3
<1> QED
  BY <1>1, <1>2

\* A step that calls nobody.
LEMMA QuietStep ==
  ASSUME CallInv, effect' = NoEffect, UNCHANGED <<audit, wrote>>, setting' \in Settings,
         invited' \in [Tenants -> SUBSET Assistants], DOMAIN turn' = TurnFields,
         turn'.pc = "exec" => turn'.owner \in Tenants
  PROVE  CallInv'
<1>1. AuditInv'
  BY DEF CallInv, AuditInv
<1>2. (CallsAllowed /\ PeerChosen)'
  BY DEF NoEffect, CallsAllowed, ModeObeyed, ConsentGiven, AccountNeeded, LiveIsLive, PeerChosen,
         Blockable, Writes, Google
<1> QED
  BY <1>1, <1>2 DEF CallInv

\* What Reached records is what CallAllowed speaks of.
LEMMA ReachedAllowed ==
  ASSUME CallInv, NEW o \in Tenants, NEW step, NEW r \in Outcomes(o, o, step),
         Reached(o, step, r, "plan"), UNCHANGED outside, turn'.owner = o
  PROVE  (CallsAllowed /\ PeerChosen)'
<1>1. UNCHANGED <<setting, connected, invited>>
  BY DEF outside
<1>2. setting \in Settings /\ invited \in [Tenants -> SUBSET Assistants]
  BY DEF CallInv
<1>3. CASE ~r.made
  BY <1>3 DEF Reached, NoEffect, CallsAllowed, ModeObeyed, ConsentGiven, AccountNeeded, LiveIsLive,
     PeerChosen, Blockable, Writes, Google
<1>4. CASE r.made
  <2>1. /\ effect'.what = step.kind /\ effect'.asked = step.to /\ effect'.how = r.how
        /\ effect'.via = "plan"
        /\ step.kind = "peer" => effect'.to = CHOOSE h \in PeerTargets(o, step.to) : TRUE
    BY <1>4 DEF Reached
  <2>2. /\ step.kind \in Blockable => ~Blocked(step.kind)
        /\ step.kind \in Writes => setting.mode = "open"
        /\ step.kind \in Google /\ setting.live => o \in connected
        /\ r.how = "stub" => ~setting.live
        /\ step.kind = "peer" => Cardinality(PeerTargets(o, step.to)) = 1
    BY <1>2, <1>4, CallAllowed
  <2>3. CallsAllowed'
    BY <1>1, <2>1, <2>2 DEF CallsAllowed, ModeObeyed, ConsentGiven, AccountNeeded, LiveIsLive, Blocked
  <2>4. ASSUME step.kind = "peer" PROVE PeerChosen'
    <3> DEFINE to == step.to
               h == CHOOSE x \in PeerTargets(o, to) : TRUE
    <3>1. PeerTargets(o, to) = {h}
      BY <1>2, <2>2, <2>4, TargetsCount, FS_Singleton
    <3>2. h \in invited[o] \ {Own[o]} /\ (h = to \/ {x \in invited[o] : x \in Named[to]} = {h})
      BY <1>2, <3>1, TargetsCount
    <3> QED
      BY <1>1, <2>1, <2>4, <3>2 DEF PeerChosen
  <2> QED
    BY <2>1, <2>3, <2>4 DEF PeerChosen
<1> QED
  BY <1>3, <1>4

\* A step of the plan.
LEMMA RunStepAllowed ==
  ASSUME CallInv, RunStep
  PROVE  CallInv'
<1> DEFINE o == turn.owner
           step == turn.plan[turn.cursor]
<1>1. o \in Tenants /\ setting \in Settings /\ invited \in [Tenants -> SUBSET Assistants] /\ AuditInv
  BY DEF CallInv, RunStep
<1>2. UNCHANGED <<setting, invited>> /\ UNCHANGED outside
  BY DEF RunStep, outside
<1>3. PICK r \in Outcomes(o, o, step) : Audited(o, step, r) /\ Reached(o, step, r, "plan")
  BY DEF RunStep, Dir
<1>4. DOMAIN turn' = TurnFields /\ turn'.owner = o
  BY DEF RunStep, CallInv, TurnFields
<1>5. AuditInv'
  BY <1>1, <1>3, CallAllowed, AuditKept
<1>6. (CallsAllowed /\ PeerChosen)'
  BY <1>1, <1>2, <1>3, <1>4, ReachedAllowed
<1> QED
  BY <1>1, <1>2, <1>4, <1>5, <1>6 DEF CallInv

\* A token.
LEMMA ConfirmStepAllowed ==
  ASSUME CallInv, NEW o \in Tenants, NEW tool \in Writes, Confirm(o, tool)
  PROVE  CallInv'
<1>1. setting \in Settings /\ invited \in [Tenants -> SUBSET Assistants] /\ AuditInv
  BY DEF CallInv
<1>2. UNCHANGED <<setting, invited, connected>>
  BY DEF Confirm, outside
<1>3. PICK r \in ConfirmedWrite(o, tool) :
        Audited(o, NoStep(tool), r) /\ Reached(o, NoStep(tool), r, "confirm")
  BY DEF Confirm, Dir
<1>4. NoStep(tool).kind = tool
  BY DEF NoStep, Normalized, Action
<1>5. AuditInv'
  BY <1>1, <1>3, <1>4, ConfirmAllowed, AuditKept
<1>6. DOMAIN turn' = TurnFields /\ (turn'.pc = "exec" => turn'.owner \in Tenants)
  BY DEF Confirm, NoTurn, Resumed, TurnFields
<1>7. effect' = IF ~r.made THEN NoEffect
                ELSE [what |-> tool, asked |-> NoStep(tool).to, how |-> r.how, via |-> "confirm", to |-> NoRef]
  BY <1>3, <1>4 DEF Reached, Writes
<1>8. (CallsAllowed /\ PeerChosen)'
  <2>1. r.made => ~Blocked(tool) /\ (r.how = "stub" => ~setting.live)
    BY <1>1, <1>3, ConfirmAllowed
  <2> QED
    BY <1>2, <1>7, <2>1 DEF NoEffect, CallsAllowed, ModeObeyed, ConsentGiven, AccountNeeded,
       LiveIsLive, PeerChosen, Blocked, Blockable, Writes, Google
<1> QED
  BY <1>1, <1>2, <1>5, <1>6, <1>8 DEF CallInv

\* Every other step calls nobody.
LEMMA OtherStepAllowed ==
  ASSUME CallInv,
         \/ PassStep \/ FinishTurn \/ Restart
         \/ \E o \in Tenants :
              \/ AnswerAtOnce(o) \/ ConnectAccount(o)
              \/ \E message \in Messages : \E raw \in message.plans \cup {NoPlan} : Ask(o, message, raw)
              \/ \E w \in waiting[Dir(o)], h \in Assistants : PickPeer(o, w, h)
              \/ \E h \in Assistants \ {Own[o]} : EditRoster(o, h)
  PROVE  CallInv'
<1>1. CASE PassStep \/ FinishTurn
  <2>1. /\ effect' = NoEffect /\ UNCHANGED <<audit, wrote, setting, invited>>
        /\ DOMAIN turn' = TurnFields /\ turn'.owner = turn.owner /\ turn.pc = "exec"
    BY <1>1 DEF PassStep, FinishTurn, outside, CallInv, TurnFields
  <2> QED
    BY <2>1, QuietStep DEF CallInv
<1>2. CASE Restart
  BY <1>2, QuietStep DEF Restart, CallInv
<1>3. ASSUME NEW o \in Tenants, AnswerAtOnce(o) PROVE CallInv'
  <2>1. /\ effect' = NoEffect /\ UNCHANGED <<audit, wrote, setting, invited>>
        /\ DOMAIN turn' = TurnFields /\ turn'.pc = "told"
    BY <1>3 DEF AnswerAtOnce, outside, NoTurn, TurnFields
  <2> QED
    BY <2>1, QuietStep DEF CallInv
<1>4. ASSUME NEW o \in Tenants, ConnectAccount(o) PROVE CallInv'
  BY <1>4, QuietStep DEF ConnectAccount, CallInv
<1>5. ASSUME NEW o \in Tenants, NEW message \in Messages, NEW raw, Ask(o, message, raw) PROVE CallInv'
  <2>1. /\ effect' = NoEffect /\ UNCHANGED <<audit, wrote, setting, invited>>
        /\ DOMAIN turn' = TurnFields /\ turn'.owner = o
    BY <1>5 DEF Ask, outside, TurnFields
  <2> QED
    BY <2>1, QuietStep DEF CallInv
<1>6. ASSUME NEW o \in Tenants, NEW w, NEW h \in Assistants, PickPeer(o, w, h) PROVE CallInv'
  <2>1. /\ effect' = NoEffect /\ UNCHANGED <<audit, wrote, setting, invited>>
        /\ DOMAIN turn' = TurnFields /\ turn'.owner = o
    BY <1>6 DEF PickPeer, Resumed, outside, TurnFields
  <2> QED
    BY <2>1, QuietStep DEF CallInv
<1>7. ASSUME NEW o \in Tenants, NEW h \in Assistants, EditRoster(o, h) PROVE CallInv'
  <2>1. invited' \in [Tenants -> SUBSET Assistants]
    BY <1>7 DEF EditRoster, CallInv
  <2> QED
    BY <1>7, <2>1, QuietStep DEF EditRoster, CallInv
<1> QED
  BY <1>1, <1>2, <1>3, <1>4, <1>5, <1>6, <1>7

LEMMA CallsStart == TurnInit => CallInv
<1> SUFFICES ASSUME TurnInit PROVE CallInv
  OBVIOUS
<1>1. /\ setting \in Settings /\ invited \in [Tenants -> SUBSET Assistants] /\ AuditInv
      /\ DOMAIN turn = TurnFields /\ turn.pc = "idle"
  BY DEF TurnInit, NoTurn, TurnFields, AuditInv
<1>2. CallsAllowed /\ PeerChosen
  BY DEF TurnInit, NoEffect, CallsAllowed, ModeObeyed, ConsentGiven, AccountNeeded, LiveIsLive,
         PeerChosen, Blockable, Writes, Google
<1> QED
  BY <1>1, <1>2 DEF CallInv

LEMMA CallsStep == CallInv /\ [TurnNext]_turnVars => CallInv'
<1> SUFFICES ASSUME CallInv, [TurnNext]_turnVars PROVE CallInv'
  OBVIOUS
<1>1. CASE RunStep
  BY <1>1, RunStepAllowed
<1>2. ASSUME NEW o \in Tenants, NEW tool \in Writes, Confirm(o, tool) PROVE CallInv'
  BY <1>2, ConfirmStepAllowed
<1>3. CASE UNCHANGED turnVars
  BY <1>3 DEF turnVars, CallInv, AuditInv, CallsAllowed, ModeObeyed, ConsentGiven, AccountNeeded,
     LiveIsLive, PeerChosen, Blocked
<1> QED
  BY <1>1, <1>2, <1>3, OtherStepAllowed DEF TurnNext, TurnStep

LEMMA CallsHold == TurnSpec => []CallInv
  BY CallsStart, CallsStep, PTL DEF TurnSpec

\* Whatever is planned, asked, restarted or edited, every call a turn makes to the
\* world is one its mode, its booking policy and its account allow, and a live
\* bridge takes no answer of the offline stub (assistant-runtime.ts).
THEOREM AllowedCalls == TurnSpec => []CallsAllowed
  BY CallsHold, PTL DEF CallInv

\* A peer's assistant is only asked while it is on the roster, and only where one
\* name fits or the owner chose (resolvePeerTarget).
THEOREM ChosenPeers == TurnSpec => []PeerChosen
  BY CallsHold, PTL DEF CallInv

\* No owner's event or mail is written twice, through plans, tokens, turns and
\* restarts (runWriteIntegration, runConfirmedWrite).
THEOREM WritesOnce == TurnSpec => []WrittenOnce
<1>1. CallInv => WrittenOnce
  BY DEF CallInv, AuditInv, WrittenOnce
<1> QED
  BY <1>1, CallsHold, PTL

-----------------------------------------------------------------------------
(***************************************************************************)
(* OwnerTurn: plans as they are validated (plan-schema.ts).                *)
(***************************************************************************)

\* A set of numbers has a least one.
LEMMA Least ==
  ASSUME NEW S \in SUBSET Nat, S # {}
  PROVE  \E n \in S : \A m \in S : n <= m
<1>1. PICK n \in S : \A m \in S : ~ (<<m, n>> \in OpToRel(<, Nat))
  BY WFMin, NatLessThanWellFounded
<1>2. OpToRel(<, Nat) = {p \in Nat \X Nat : p[1] < p[2]}
  BY Zenon DEF OpToRel
<1>3. \A m \in S : ~ (m < n)
  BY <1>1, <1>2
<1> QED
  BY <1>3

StepId == Nat \ {NoId}
Conditions == Known \cup {"none", "other"}

\* A validated step; a condition the validator knows is kept as it was given.
PlanSteps ==
  {s \in [kind : Kinds, to : References, id : StepId, ref : Nat, from : Nat, when : Conditions,
          named : Nat, askedOf : Nat, asked : Conditions] :
     s.askedOf # NoId /\ s.asked \in Known => s.from = s.askedOf /\ s.when = s.asked}

\* No two steps share an id, and a name is the id of the first step that bears it
\* or of one before.
PlanSound(plan) ==
  /\ plan \in Seq(PlanSteps)
  /\ \A i, j \in 1..Len(plan) : plan[i].id = plan[j].id => i = j
  /\ \A i \in 1..Len(plan) :
       plan[i].named # NoId => \E j \in 1..i : plan[j].id = plan[i].named

\* A step as normalizeRunIf leaves it.
LEMMA NormalizedFits ==
  ASSUME NEW raw \in Actions, NEW id \in StepId
  PROVE  /\ Normalized(raw, id) \in PlanSteps
         /\ Normalized(raw, id).id = id /\ Normalized(raw, id).named = raw.id
<1>1. PICK k \in Kinds, t \in References, n \in Nat, f \in Nat, w \in Conditions, r \in Nat :
        raw = [kind |-> k, to |-> t, id |-> n, from |-> f, when |-> w, ref |-> r]
  BY DEF Actions, Conditions
<1> QED
  BY <1>1 DEF Normalized, PlanSteps, Conditions, NoId, StepId

\* The numbers from a place on cannot all be taken: there are fewer steps.
LEMMA UniqueFits ==
  ASSUME NEW raw \in Nat, NEW index \in StepId, NEW seen \in SUBSET StepId, IsFiniteSet(seen)
  PROVE  /\ UniqueStepId(raw, index, seen) \in StepId \ seen
         /\ raw # NoId => raw \in seen \cup {UniqueStepId(raw, index, seen)}
<1> DEFINE candidate == IF raw = NoId THEN index ELSE raw
           D == index .. index + Cardinality(seen)
           Untaken == {n \in D : n \notin seen}
<1>1. CASE candidate \notin seen
  BY <1>1 DEF UniqueStepId, StepId, NoId
<1>2. CASE candidate \in seen
  <2>1. Cardinality(seen) \in Nat /\ index \in Nat
    BY FS_CardinalityType DEF StepId
  <2>2. Untaken # {}
    <3> SUFFICES ASSUME D \subseteq seen PROVE FALSE
      OBVIOUS
    <3>1. Cardinality(D) <= Cardinality(seen)
      BY FS_Subset
    <3>2. Cardinality(D) = Cardinality(seen) + 1
      BY <2>1, FS_Interval
    <3> QED
      BY <2>1, <3>1, <3>2
  <2>3. Untaken \in SUBSET Nat
    BY <2>1
  <2>4. PICK n \in Untaken : \A m \in Untaken : n <= m
    BY <2>2, <2>3, Least
  <2>5. n \in D /\ n \notin seen /\ \A k \in index .. n - 1 : k \in seen
    BY <2>1, <2>4
  <2> DEFINE u == CHOOSE x \in D : x \notin seen /\ \A k \in index .. x - 1 : k \in seen
  <2>6. u \in D /\ u \notin seen
    BY <2>5
  <2>7. UniqueStepId(raw, index, seen) = u
    BY <1>2 DEF UniqueStepId
  <2> HIDE DEF u
  <2>8. u \in StepId
    <3>1. index # 0 /\ u >= index /\ u \in Nat
      BY <2>1, <2>6 DEF StepId, NoId
    <3> QED
      BY <2>1, <3>1 DEF StepId, NoId
  <2> QED
    BY <1>2, <2>6, <2>7, <2>8
<1> QED
  BY <1>1, <1>2

\* One step more, under an id of its own.
LEMMA WithStepSound ==
  ASSUME NEW done, PlanSound(done), NEW raw \in Actions
  PROVE  PlanSound(WithStep(done, raw)) /\ Len(WithStep(done, raw)) = Len(done) + 1
<1> DEFINE id == UniqueStepId(raw.id, Len(done) + 1, Ids(done))
           s == Normalized(raw, id)
<1>1. /\ done \in Seq(PlanSteps) /\ Len(done) \in Nat /\ DOMAIN done = 1..Len(done)
      /\ \A i \in 1..Len(done) : done[i] \in PlanSteps /\ done[i].id \in StepId
  BY DEF PlanSound, PlanSteps
<1>2. Ids(done) \in SUBSET StepId /\ Ids(done) = {done[i].id : i \in 1..Len(done)}
  BY <1>1 DEF Ids
<1>3. IsFiniteSet(Ids(done))
  <2>1. IsFiniteSet(1..Len(done))
    BY <1>1, FS_Interval
  <2> DEFINE f == [i \in 1..Len(done) |-> done[i].id]
  <2>2. f \in Surjection(1..Len(done), Ids(done))
    BY <1>1, <1>2 DEF Surjection
  <2> QED
    BY <2>1, <2>2, FS_Surjection
<1>4. raw.id \in Nat /\ Len(done) + 1 \in StepId
  BY <1>1 DEF Actions, StepId, NoId
<1>5. id \in StepId /\ id \notin Ids(done) /\ (raw.id # NoId => raw.id \in Ids(done) \cup {id})
  BY <1>2, <1>3, <1>4, UniqueFits
<1>6. s \in PlanSteps /\ s.id = id /\ s.named = raw.id
  BY <1>5, NormalizedFits
<1> HIDE DEF id, s
<1>7. WithStep(done, raw) = Append(done, s)
  BY DEF WithStep, s, id
<1> DEFINE all == Append(done, s)
<1>8. /\ all \in Seq(PlanSteps) /\ Len(all) = Len(done) + 1
      /\ \A i \in 1..Len(done) : all[i] = done[i]
      /\ all[Len(done) + 1] = s
  BY <1>1, <1>6
<1> HIDE DEF all
<1>9. ASSUME NEW i \in 1..Len(all), NEW j \in 1..Len(all), all[i].id = all[j].id PROVE i = j
  <2>1. CASE i <= Len(done) /\ j <= Len(done)
    BY <1>1, <1>8, <1>9, <2>1 DEF PlanSound
  <2>2. CASE i = Len(done) + 1 /\ j <= Len(done)
    BY <1>1, <1>2, <1>5, <1>6, <1>8, <1>9, <2>2
  <2>3. CASE j = Len(done) + 1 /\ i <= Len(done)
    BY <1>1, <1>2, <1>5, <1>6, <1>8, <1>9, <2>3
  <2> QED
    BY <1>1, <1>8, <2>1, <2>2, <2>3
<1>10. ASSUME NEW i \in 1..Len(all), all[i].named # NoId
       PROVE  \E j \in 1..i : all[j].id = all[i].named
  <2>1. CASE i <= Len(done)
    <3>1. PICK j \in 1..i : done[j].id = done[i].named
      BY <1>1, <1>8, <1>10, <2>1 DEF PlanSound
    <3> QED
      BY <1>1, <1>8, <2>1, <3>1
  <2>2. CASE i = Len(done) + 1
    <3>1. raw.id \in Ids(done) \cup {id}
      BY <1>5, <1>6, <1>8, <1>10, <2>2
    <3>2. CASE raw.id = id
      BY <1>1, <1>6, <1>8, <2>2, <3>2
    <3>3. CASE raw.id \in Ids(done)
      <4>1. PICK j \in 1..Len(done) : done[j].id = raw.id
        BY <1>2, <3>3
      <4> QED
        BY <1>1, <1>6, <1>8, <2>2, <4>1
    <3> QED
      BY <3>1, <3>2, <3>3
  <2> QED
    BY <1>1, <1>8, <2>1, <2>2
<1> QED
  BY <1>7, <1>8, <1>9, <1>10 DEF PlanSound, all

\* What normalizeSteps builds, a plan for each number of steps.
Growth(kept, steps) ==
  steps = [n \in 0..Len(kept) |-> IF n = 0 THEN <<>> ELSE WithStep(steps[n - 1], kept[n])]
Grown(kept, steps, k) ==
  steps = [n \in 0..k |-> IF n = 0 THEN <<>> ELSE WithStep(steps[n - 1], kept[n])]

\* There is such a function: a shortest stretch without one would have one.
LEMMA GrowthExists ==
  ASSUME NEW kept, Len(kept) \in Nat
  PROVE  \E steps : Growth(kept, steps)
<1> DEFINE Bad == {k \in 0..Len(kept) : ~ \E steps : Grown(kept, steps, k)}
<1>1. ASSUME Bad # {} PROVE FALSE
  <2> Bad \in SUBSET Nat
    OBVIOUS
  <2> HIDE DEF Bad
  <2>1. PICK k \in Bad : \A m \in Bad : k <= m
    BY <1>1, Least
  <2> USE DEF Bad
  <2>2. CASE k = 0
    <3>1. Grown(kept, [n \in 0..0 |-> <<>>], 0)
      BY DEF Grown
    <3> QED
      BY <2>1, <2>2, <3>1
  <2>3. CASE k # 0
    <3>1. k - 1 \in 0..Len(kept) /\ k - 1 \notin Bad /\ k \in Nat
      BY <2>1, <2>3
    <3>2. PICK g : Grown(kept, g, k - 1)
      BY <3>1
    <3> DEFINE h == [n \in 0..k |-> IF n = k THEN WithStep(g[k - 1], kept[k]) ELSE g[n]]
    <3>3. \A n \in 0..(k - 1) : g[n] = IF n = 0 THEN <<>> ELSE WithStep(g[n - 1], kept[n])
      BY <3>2 DEF Grown
    <3>4. \A n \in 0..k : h[n] = IF n = 0 THEN <<>> ELSE WithStep(h[n - 1], kept[n])
      <4> TAKE n \in 0..k
      <4>1. CASE n = k
        BY <2>3, <3>1, <4>1
      <4>2. CASE n # k /\ n = 0
        BY <3>1, <3>3, <4>2
      <4>3. CASE n # k /\ n # 0
        <5>1. n - 1 \in 0..k /\ n - 1 # k /\ n \in 0..(k - 1)
          BY <3>1, <4>3
        <5>2. h[n] = g[n] /\ h[n - 1] = g[n - 1]
          BY <4>3, <5>1
        <5> QED
          BY <3>3, <4>3, <5>1, <5>2
      <4> QED
        BY <4>1, <4>2, <4>3
    <3>5. Grown(kept, h, k)
      BY <3>4 DEF Grown
    <3> QED
      BY <2>1, <3>5
  <2> QED
    BY <2>2, <2>3
<1> QED
  BY <1>1 DEF Growth, Grown

\* Step by step it stays sound.
LEMMA NormalizeStepsSound ==
  ASSUME NEW kept \in Seq(Actions)
  PROVE  PlanSound(NormalizeSteps(kept)) /\ Len(NormalizeSteps(kept)) = Len(kept)
<1> DEFINE steps == CHOOSE f : Growth(kept, f)
<1>1. Len(kept) \in Nat /\ \A n \in 1..Len(kept) : kept[n] \in Actions
  OBVIOUS
<1>2. Growth(kept, steps)
  BY <1>1, GrowthExists
<1>3. NormalizeSteps(kept) = steps[Len(kept)]
  BY DEF NormalizeSteps, Growth
<1> HIDE DEF steps
<1>4. \A n \in 0..Len(kept) : steps[n] = IF n = 0 THEN <<>> ELSE WithStep(steps[n - 1], kept[n])
  BY <1>2 DEF Growth
<1> DEFINE Bad == {n \in 0..Len(kept) : ~(PlanSound(steps[n]) /\ Len(steps[n]) = n)}
<1>5. ASSUME Bad # {} PROVE FALSE
  <2> Bad \in SUBSET Nat
    OBVIOUS
  <2> HIDE DEF Bad
  <2>1. PICK n \in Bad : \A m \in Bad : n <= m
    BY <1>5, Least
  <2> USE DEF Bad
  <2>2. CASE n = 0
    <3>1. steps[0] = <<>>
      BY <1>1, <1>4
    <3>2. PlanSound(<<>>) /\ Len(<<>>) = 0
      BY DEF PlanSound
    <3> QED
      BY <2>1, <2>2, <3>1, <3>2
  <2>3. CASE n # 0
    <3>1. n - 1 \in 0..Len(kept) /\ n - 1 \notin Bad /\ n \in 1..Len(kept)
      BY <1>1, <2>1, <2>3
    <3>2. PlanSound(steps[n - 1]) /\ Len(steps[n - 1]) = n - 1
      BY <3>1
    <3>3. steps[n] = WithStep(steps[n - 1], kept[n])
      BY <1>4, <3>1
    <3>4. kept[n] \in Actions
      BY <1>1, <3>1
    <3>5. PlanSound(steps[n]) /\ Len(steps[n]) = (n - 1) + 1
      BY <3>2, <3>3, <3>4, WithStepSound
    <3> QED
      BY <1>1, <2>1, <3>5
  <2> QED
    BY <2>2, <2>3
<1>6. Len(kept) \notin Bad
  BY <1>5
<1> QED
  BY <1>1, <1>3, <1>6

\* Whatever a planner returns, the plan that is run has steps, each under an id of its
\* own.
LEMMA ValidPlan ==
  ASSUME NEW raw \in Seq(Actions)
  PROVE  PlanSound(ValidatePlan(raw)) /\ Len(ValidatePlan(raw)) \in Nat \ {0}
<1> DEFINE kept == SubSeq(raw, 1, IF Len(raw) > MaxSteps THEN MaxSteps ELSE Len(raw))
<1>1. kept \in Seq(Actions)
  BY TurnAssumption
<1>2. CASE kept = <<>> \/ \E i \in DOMAIN kept : kept[i].kind = "malformed"
  <2>1. ValidatePlan(raw) = <<Normalized(Direct, 1)>>
    BY <1>2 DEF ValidatePlan
  <2>2. Direct \in Actions /\ 1 \in StepId
    BY DEF Direct, Action, Actions, Kinds, References, NoId, StepId
  <2>3. Normalized(Direct, 1) \in PlanSteps /\ Normalized(Direct, 1).named = NoId
    BY <2>2, NormalizedFits DEF Direct, Action
  <2> QED
    BY <2>1, <2>3 DEF PlanSound
<1>3. CASE ~(kept = <<>> \/ \E i \in DOMAIN kept : kept[i].kind = "malformed")
  <2>1. ValidatePlan(raw) = NormalizeSteps(kept)
    BY <1>3 DEF ValidatePlan
  <2>2. Len(kept) \in Nat \ {0}
    BY <1>1, <1>3
  <2> QED
    BY <1>1, <2>1, <2>2, NormalizeStepsSound
<1> QED
  BY <1>2, <1>3

-----------------------------------------------------------------------------
\* The stand-in plans with what a planner may return.
LEMMA StubFits ==
  ASSUME NEW message \in Messages
  PROVE  Stub(message) \in Seq(Actions) /\ Availability(message.person) \in Seq(Actions)
<1> DEFINE segments == message.segments
           n == Len(segments)
           numbered == [i \in DOMAIN segments |-> [segments[i] EXCEPT !.id = i]]
<1>1. segments \in Seq(Actions) /\ message.person \in References
  BY TurnAssumption
<1>2. n \in Nat /\ DOMAIN segments = 1..n /\ \A i \in 1..n : segments[i] \in Actions
  BY <1>1
<1>3. Availability(message.person) \in Seq(Actions)
  <2>1. Action("read", NoRef, 1, NoId, "none", NoId) \in Actions
    BY DEF Action, Actions, Kinds, Google, References, NoId
  <2>2. Action("peer", message.person, 2, NoId, "none", 1) \in Actions
    BY <1>1 DEF Action, Actions, Kinds, NoId
  <2> QED
    BY <2>1, <2>2 DEF Availability
<1>4. \A i \in 1..n : [segments[i] EXCEPT !.id = i] \in Actions
  BY <1>2 DEF Actions
<1>5. numbered \in [1..n -> Actions]
  BY <1>2, <1>4
<1> HIDE DEF numbered
<1>6. Threaded(numbered) \in [1..n -> Actions]
  <2>1. DOMAIN numbered = 1..n
    BY <1>5
  <2>2. ASSUME NEW i \in 1..n
        PROVE  numbered[i] \in Actions /\ (i > 1 => [numbered[i] EXCEPT !.ref = i - 1] \in Actions)
    <3>1. numbered[i] \in Actions
      BY <1>5
    <3>2. i > 1 => i - 1 \in Nat
      BY <1>2
    <3> QED
      BY <3>1, <3>2 DEF Actions
  <2> QED
    BY <2>1, <2>2 DEF Threaded
<1> HIDE DEF segments
<1>7. Threaded(numbered) \in Seq(Actions)
  BY <1>2, <1>6
<1> QED
  BY <1>1, <1>3, <1>7 DEF Stub, segments, numbered

\* The plan of a turn, whoever made it.
LEMMA PlanOfTurn ==
  ASSUME NEW message \in Messages, NEW raw \in message.plans \cup {NoPlan}
  PROVE  /\ PlanSound(Repaired(message, PlanRequest(raw, message)))
         /\ Len(Repaired(message, PlanRequest(raw, message))) \in Nat \ {0}
<1>1. raw \in Seq(Actions)
  <2>1. message.plans \in SUBSET Seq(Actions)
    BY TurnAssumption
  <2>2. NoPlan \in Seq(Actions)
    BY DEF NoPlan
  <2> QED
    BY <2>1, <2>2
<1>2. Stub(message) \in Seq(Actions) /\ Availability(message.person) \in Seq(Actions)
  BY StubFits
<1>3. PlanSound(PlanRequest(raw, message)) /\ Len(PlanRequest(raw, message)) \in Nat \ {0}
  BY <1>1, <1>2, ValidPlan DEF PlanRequest
<1> QED
  BY <1>2, <1>3, ValidPlan DEF Repaired

-----------------------------------------------------------------------------
\* What a step may come to.
Classes == {"satisfied", "soft-miss", "hard-fail", "throws", "skipped", "confirm", "pick",
            "choose", "info"}
Hows == {"none", "stub", "live", "free", "busy", "text", "failed"}
Results == [class : Classes, made : BOOLEAN, how : Hows]

\* Every outcome is a result.
LEMMA OutcomesFit ==
  ASSUME NEW o, NEW dir, NEW step, NEW tool
  PROVE  Outcomes(o, dir, step) \subseteq Results /\ ConfirmedWrite(dir, tool) \subseteq Results
<1>1. \A class \in Classes : Quietly(class) \in Results
  BY DEF Quietly, Came, Results, Hows
<1>2. Runner \subseteq Results /\ Throws \in Results
  <2>1. Throws \in Results
    BY <1>1 DEF Throws, Classes
  <2>2. Came("satisfied", TRUE, "stub") \in Results /\ Came("satisfied", TRUE, "live") \in Results
    BY DEF Came, Results, Classes, Hows
  <2> QED
    BY <2>1, <2>2 DEF Runner
<1>3. UseRead(o) \subseteq Results
  <2>1. \A how \in {"free", "busy", "text", "failed"} : Came("satisfied", TRUE, how) \in Results
    BY DEF Came, Results, Classes, Hows
  <2>2. Quietly("satisfied") \in Results
    BY <1>1 DEF Classes
  <2>3. CASE MustConnect(o)
    BY <2>2, <2>3 DEF UseRead
  <2>4. CASE ~MustConnect(o)
    <3> SUFFICES ASSUME NEW c \in UseRead(o) PROVE c \in Results
      OBVIOUS
    <3>1. PICK r \in Runner : c \in IF r.how # "live" THEN {r}
             ELSE {Came("satisfied", TRUE, how) : how \in {"free", "busy", "text", "failed"}}
      BY <2>4 DEF UseRead
    <3> QED
      BY <1>2, <2>1, <3>1
  <2> QED
    BY <2>3, <2>4
<1>4. \A t : Asks(t) \subseteq Results
  BY <1>1 DEF Asks, Classes
<1>5. UseDraft(o) \subseteq Results
  BY <1>1, <1>2, <1>4 DEF UseDraft, Classes
<1>6. RunWrite \subseteq Results
  <2>1. \A r \in Results : Came("hard-fail", TRUE, r.how) \in Results
    BY DEF Came, Results, Classes
  <2> QED
    BY <1>2, <2>1 DEF RunWrite
<1>7. \A t : UseWrite(o, dir, t) \subseteq Results
  BY <1>1, <1>4, <1>6 DEF UseWrite, Classes
<1>8. \A to : UsePeer(o, to) \subseteq Results
  BY <1>1, <1>2 DEF UsePeer, Classes
<1>9. UseSpecialist \subseteq Results
  BY <1>1, <1>2 DEF UseSpecialist, Came, Results, Classes, Hows
<1>10. Outcomes(o, dir, step) \subseteq Results
  BY <1>1, <1>3, <1>5, <1>7, <1>8, <1>9 DEF Outcomes, Classes
<1>11. ConfirmedWrite(dir, tool) \subseteq Results
  BY <1>1, <1>6 DEF ConfirmedWrite, Classes
<1> QED
  BY <1>10, <1>11

Entries == [id : StepId, class : Classes, made : BOOLEAN, how : Hows,
            said : {"free", "busy", "other"}]

\* What is put down of a step.
LEMMA EntryFits ==
  ASSUME NEW step \in PlanSteps, NEW r \in Results
  PROVE  /\ Entry(step, r) \in Entries /\ Entry(step, r).id = step.id
         /\ Entry(step, r).made = r.made
  BY DEF Entry, Entries, Said, PlanSteps, Results

-----------------------------------------------------------------------------
(***************************************************************************)
(* What a ledger says of a plan.                                           *)
(***************************************************************************)

\* A step before the i-th, under the id it asks for, ended the way it asks.
Opened(plan, ledger, i) ==
  plan[i].from # NoId =>
    \E k \in 1 .. i - 1 :
      plan[k].id = plan[i].from /\ plan[i].when \in {ledger[k].class, ledger[k].how}

Follows(plan, ledger, alone) ==
  /\ ledger \in Seq(Entries) /\ Len(ledger) <= Len(plan)
  /\ \A i \in 1..Len(ledger) :
       /\ ledger[i].id = plan[i].id
       /\ ledger[i].made /\ ~alone => Opened(plan, ledger, i)

\* One entry more, of the next step.
LEMMA OneEntryMore ==
  ASSUME NEW plan, PlanSound(plan), NEW ledger, NEW alone, Follows(plan, ledger, alone),
         Len(ledger) < Len(plan), NEW entry \in Entries, entry.id = plan[Len(ledger) + 1].id,
         entry.made /\ ~alone => Opened(plan, ledger, Len(ledger) + 1)
  PROVE  /\ Follows(plan, Append(ledger, entry), alone)
         /\ Len(Append(ledger, entry)) = Len(ledger) + 1
<1> DEFINE n == Len(ledger)
           all == Append(ledger, entry)
<1>1. ledger \in Seq(Entries) /\ n \in Nat /\ plan \in Seq(PlanSteps) /\ Len(plan) \in Nat
  BY DEF Follows, PlanSound
<1>2. /\ all \in Seq(Entries) /\ Len(all) = n + 1
      /\ \A i \in 1..n : all[i] = ledger[i]
      /\ all[n + 1] = entry
  BY <1>1
<1> HIDE DEF all
<1>3. ASSUME NEW i \in 1 .. n + 1, Opened(plan, ledger, i) PROVE Opened(plan, all, i)
  <2>1. \A k \in 1 .. i - 1 : all[k] = ledger[k]
    BY <1>1, <1>2
  <2> QED
    BY <1>3, <2>1 DEF Opened
<1>4. ASSUME NEW i \in 1 .. n + 1
      PROVE  all[i].id = plan[i].id /\ (all[i].made /\ ~alone => Opened(plan, all, i))
  <2>1. CASE i <= n
    BY <1>1, <1>2, <1>3, <2>1 DEF Follows
  <2>2. CASE i = n + 1
    BY <1>1, <1>2, <1>3, <2>2
  <2> QED
    BY <1>1, <2>1, <2>2
<1>5. Follows(plan, all, alone)
  BY <1>1, <1>2, <1>4 DEF Follows
<1> QED
  BY <1>2, <1>5 DEF all

-----------------------------------------------------------------------------
(***************************************************************************)
(* The invariant: a turn, and a plan that waits for a token, has come as   *)
(* far in its plan as its ledger says; a write waits for its token only    *)
(* where its guard was met.                                                *)
(***************************************************************************)

TurnFits(t) ==
  /\ t \in [pc : {"idle", "exec", "told", "complete", "error"}, owner : Tenants \cup {NoRef},
            home : Tenants \cup {NoRef}, plan : Seq(PlanSteps), cursor : Nat, ledger : Seq(Entries),
            alone : BOOLEAN]
  /\ t.owner = t.home
  /\ t.plan = NoPlan => t.cursor = 0 /\ t.ledger = <<>> /\ t.pc \in {"idle", "told", "error"}
  /\ t.plan # NoPlan =>
       /\ PlanSound(t.plan) /\ Follows(t.plan, t.ledger, t.alone)
       /\ t.cursor \in 1 .. Len(t.plan) + 1
       /\ t.alone => Len(t.plan) = 1
  /\ t.pc = "exec" => t.owner \in Tenants /\ Len(t.ledger) = t.cursor - 1
  /\ t.pc = "complete" => Len(t.ledger) = Len(t.plan)

WaitsFit(o, w) ==
  /\ w.home = o
  /\ PlanSound(w.plan) /\ Follows(w.plan, w.ledger, FALSE)
  /\ w.cursor \in 1 .. Len(w.plan) /\ Len(w.ledger) = w.cursor - 1
  /\ w.token[1] # "resume" => Opened(w.plan, w.ledger, w.cursor)

PlanInv ==
  /\ TurnFits(turn)
  /\ DOMAIN waiting = Tenants
  /\ \A o \in Tenants : \A w \in waiting[o] : WaitsFit(o, w)
  /\ connected \subseteq Tenants
  /\ turns \in 0 .. MaxTurns /\ restarts \in 0 .. MaxRestarts /\ edits \in 0 .. MaxEdits

\* The step a turn has come to has no entry yet, and its guard looks at the steps
\* before it.
LEMMA AtCursor ==
  ASSUME TurnFits(turn), turn.pc = "exec", turn.cursor <= Len(turn.plan)
  PROVE  /\ turn.plan # NoPlan /\ turn.cursor \in 1..Len(turn.plan)
         /\ turn.plan[turn.cursor] \in PlanSteps
         /\ Recorded(turn.plan[turn.cursor].id) = {}
         /\ GuardMet(turn.plan[turn.cursor]) => Opened(turn.plan, turn.ledger, turn.cursor)
<1> DEFINE plan == turn.plan
           ledger == turn.ledger
           c == turn.cursor
<1>1. /\ plan \in Seq(PlanSteps) /\ ledger \in Seq(Entries) /\ c \in Nat
      /\ Len(ledger) = c - 1 /\ DOMAIN ledger = 1..Len(ledger)
  BY DEF TurnFits
<1>2. plan # NoPlan
  BY DEF TurnFits
<1>3. PlanSound(plan) /\ Follows(plan, ledger, turn.alone) /\ c \in 1..Len(plan)
  BY <1>2 DEF TurnFits
<1> HIDE DEF plan, ledger, c
<1>4. plan[c] \in PlanSteps
  BY <1>1, <1>3
<1>5. ASSUME NEW k \in 1..Len(ledger)
      PROVE  ledger[k].id = plan[k].id /\ k \in 1 .. c - 1 /\ k \in 1..Len(plan)
  BY <1>1, <1>3 DEF Follows
<1>6. \A k \in 1..Len(ledger) : ledger[k].id # plan[c].id
  BY <1>1, <1>3, <1>5 DEF PlanSound
<1>7. Recorded(plan[c].id) = {}
  BY <1>1, <1>6 DEF Recorded, ledger
<1>8. GuardMet(plan[c]) => Opened(plan, ledger, c)
  BY <1>1, <1>5 DEF GuardMet, Recorded, Opened, ledger
<1> QED
  BY <1>2, <1>3, <1>4, <1>7, <1>8 DEF plan, ledger, c

-----------------------------------------------------------------------------
\* A turn is a record.
LEMMA TurnRecord ==
  ASSUME NEW t, TurnFits(t)
  PROVE  \E phase, owner, home, plan, cursor, ledger, alone :
           t = [pc |-> phase, owner |-> owner, home |-> home, plan |-> plan, cursor |-> cursor,
                ledger |-> ledger, alone |-> alone]
  BY DEF TurnFits

\* A turn that puts down what its step came to, and ends there or goes on.
LEMMA MovesOn ==
  ASSUME NEW t, TurnFits(t), t.pc = "exec", t.cursor <= Len(t.plan),
         NEW entry \in Entries, entry.id = t.plan[t.cursor].id,
         entry.made /\ ~t.alone => Opened(t.plan, t.ledger, t.cursor),
         NEW phase, NEW cursor,
         \/ phase \in {"told", "error"} /\ cursor = t.cursor
         \/ phase = "exec" /\ cursor = t.cursor + 1
  PROVE  TurnFits([t EXCEPT !.ledger = Append(t.ledger, entry), !.pc = phase, !.cursor = cursor])
<1> DEFINE u == [t EXCEPT !.ledger = Append(t.ledger, entry), !.pc = phase, !.cursor = cursor]
<1>1. /\ t.plan \in Seq(PlanSteps) /\ t.ledger \in Seq(Entries) /\ t.cursor \in Nat
      /\ t.owner \in Tenants /\ t.home = t.owner /\ t.alone \in BOOLEAN /\ Len(t.ledger) = t.cursor - 1
  BY DEF TurnFits
<1>2. t.plan # NoPlan
  BY DEF TurnFits
<1>3. /\ PlanSound(t.plan) /\ Follows(t.plan, t.ledger, t.alone) /\ t.cursor \in 1..Len(t.plan)
      /\ t.alone => Len(t.plan) = 1
  BY <1>2 DEF TurnFits
<1>4. /\ Len(t.ledger) < Len(t.plan) /\ t.cursor = Len(t.ledger) + 1 /\ Len(t.plan) \in Nat
      /\ Len(t.ledger) \in Nat
  BY <1>1, <1>3
<1>5. /\ Follows(t.plan, Append(t.ledger, entry), t.alone)
      /\ Len(Append(t.ledger, entry)) = Len(t.ledger) + 1
      /\ Append(t.ledger, entry) \in Seq(Entries)
  <2>1. Append(t.ledger, entry) \in Seq(Entries)
    BY <1>1
  <2> QED
    BY <1>3, <1>4, <2>1, OneEntryMore
<1>6. u = [pc |-> phase, owner |-> t.owner, home |-> t.home, plan |-> t.plan, cursor |-> cursor,
           ledger |-> Append(t.ledger, entry), alone |-> t.alone]
  <2>1. PICK p, o, h, l, c, e, a :
          t = [pc |-> p, owner |-> o, home |-> h, plan |-> l, cursor |-> c, ledger |-> e, alone |-> a]
    BY TurnRecord
  <2>2. u = [t EXCEPT !.ledger = Append(t.ledger, entry), !.pc = phase, !.cursor = cursor]
    OBVIOUS
  <2> HIDE DEF u
  <2> QED
    BY <2>1, <2>2
<1> HIDE DEF u
<1>7. /\ cursor \in Nat /\ cursor \in 1 .. Len(t.plan) + 1
      /\ phase \in {"idle", "exec", "told", "complete", "error"} /\ phase # "complete"
      /\ phase = "exec" => Len(Append(t.ledger, entry)) = cursor - 1
  <2>1. cursor \in {t.cursor, t.cursor + 1}
    OBVIOUS
  <2>2. cursor \in Nat /\ cursor \in 1 .. Len(t.plan) + 1
    BY <1>3, <1>4, <2>1
  <2>3. phase \in {"exec", "told", "error"}
    OBVIOUS
  <2>4. phase = "exec" => cursor = t.cursor + 1
    OBVIOUS
  <2> QED
    BY <1>4, <1>5, <2>2, <2>3, <2>4
<1> HIDE DEF u
<1>8. u \in [pc : {"idle", "exec", "told", "complete", "error"}, owner : Tenants \cup {NoRef},
             home : Tenants \cup {NoRef}, plan : Seq(PlanSteps), cursor : Nat, ledger : Seq(Entries),
             alone : BOOLEAN]
  BY <1>1, <1>5, <1>6, <1>7
<1>9. TurnFits(u)
  BY <1>1, <1>2, <1>3, <1>5, <1>6, <1>7, <1>8 DEF TurnFits
<1> QED
  BY <1>9 DEF u

\* A turn that stops at its step.
LEMMA StopsThere ==
  ASSUME NEW t, TurnFits(t), t.pc = "exec", NEW phase \in {"told", "error"}
  PROVE  TurnFits([t EXCEPT !.pc = phase])
<1>1. [t EXCEPT !.pc = phase] =
        [pc |-> phase, owner |-> t.owner, home |-> t.home, plan |-> t.plan, cursor |-> t.cursor,
         ledger |-> t.ledger, alone |-> t.alone]
  BY TurnRecord
<1> QED
  BY <1>1 DEF TurnFits

\* A plan that waited goes on where it stopped.
LEMMA GoesOn ==
  ASSUME NEW o \in Tenants, NEW w, WaitsFit(o, w), NEW plan, PlanSound(plan), Len(plan) = Len(w.plan),
         Follows(plan, w.ledger, FALSE)
  PROVE  TurnFits([Resumed(w, plan, w.ledger, w.cursor) EXCEPT !.owner = o])
<1>1. /\ plan \in Seq(PlanSteps) /\ w.ledger \in Seq(Entries) /\ w.home = o /\ Len(plan) \in Nat
      /\ w.cursor \in 1..Len(plan) /\ Len(w.ledger) = w.cursor - 1 /\ plan # NoPlan /\ w.cursor \in Nat
  BY DEF WaitsFit, Follows, PlanSound, NoPlan
<1> DEFINE ledger == w.ledger
           cursor == w.cursor
           t == [pc |-> "exec", owner |-> o, home |-> o, plan |-> plan, cursor |-> cursor,
                 ledger |-> ledger, alone |-> FALSE]
<1>2. [Resumed(w, plan, ledger, cursor) EXCEPT !.owner = o] = t
  <2> DEFINE r == Resumed(w, plan, ledger, cursor)
             u == [r EXCEPT !.owner = o]
  <2>1. r = [pc |-> "exec", owner |-> w.home, home |-> w.home, plan |-> plan, cursor |-> cursor,
             ledger |-> ledger, alone |-> FALSE]
    BY DEF Resumed
  <2>2. u = [r EXCEPT !.owner = o]
    OBVIOUS
  <2> HIDE DEF ledger, cursor, r, u
  <2>3. u = t
    BY <1>1, <2>1, <2>2
  <2> QED
    BY <2>3 DEF u, r
<1>3. ledger \in Seq(Entries) /\ Len(ledger) = cursor - 1 /\ Follows(plan, ledger, FALSE)
  BY <1>1
<1>4. cursor \in Nat /\ cursor \in 1 .. Len(plan) + 1
  BY <1>1
<1> HIDE DEF ledger, cursor
<1>5. /\ t.pc = "exec" /\ t.owner = o /\ t.home = o /\ t.plan = plan /\ t.cursor = cursor
      /\ t.ledger = ledger /\ t.alone = FALSE
  OBVIOUS
<1>6. t \in [pc : {"idle", "exec", "told", "complete", "error"}, owner : Tenants \cup {NoRef},
             home : Tenants \cup {NoRef}, plan : Seq(PlanSteps), cursor : Nat, ledger : Seq(Entries),
             alone : BOOLEAN]
  BY <1>1, <1>3, <1>4
<1> HIDE DEF t
<1>7. TurnFits(t)
  BY <1>1, <1>3, <1>4, <1>5, <1>6 DEF TurnFits
<1> QED
  BY <1>2, <1>7 DEF ledger, cursor

\* The assistant the owner picked changes no more of the plan.
LEMMA PickedPlan ==
  ASSUME NEW plan, PlanSound(plan), NEW c \in 1..Len(plan), NEW h \in Assistants,
         NEW ledger, Follows(plan, ledger, FALSE)
  PROVE  LET picked == [plan EXCEPT ![c].to = h]
         IN  PlanSound(picked) /\ Len(picked) = Len(plan) /\ Follows(picked, ledger, FALSE)
<1> DEFINE picked == [plan EXCEPT ![c].to = h]
<1>1. plan \in Seq(PlanSteps) /\ Len(plan) \in Nat
  BY DEF PlanSound
<1>2. ASSUME NEW s \in PlanSteps
      PROVE  /\ [s EXCEPT !.to = h] \in PlanSteps /\ [s EXCEPT !.to = h].id = s.id
             /\ [s EXCEPT !.to = h].named = s.named
             /\ [s EXCEPT !.to = h].from = s.from /\ [s EXCEPT !.to = h].when = s.when
  BY DEF PlanSteps, References
<1>3. /\ picked \in Seq(PlanSteps) /\ Len(picked) = Len(plan)
      /\ \A i \in 1..Len(plan) : picked[i] = IF i = c THEN [plan[i] EXCEPT !.to = h] ELSE plan[i]
  BY <1>1, <1>2
<1> HIDE DEF picked
<1>4. \A i \in 1..Len(plan) : /\ picked[i].id = plan[i].id /\ picked[i].named = plan[i].named
                              /\ picked[i].from = plan[i].from /\ picked[i].when = plan[i].when
  <2> TAKE i \in 1..Len(plan)
  <2>1. plan[i] \in PlanSteps
    BY <1>1
  <2> QED
    BY <1>2, <1>3, <2>1
<1>5. PlanSound(picked)
  BY <1>1, <1>3, <1>4 DEF PlanSound
<1>6. \A i \in 1..Len(ledger) : Opened(plan, ledger, i) => Opened(picked, ledger, i)
  <2> SUFFICES ASSUME NEW i \in 1..Len(ledger), Opened(plan, ledger, i) PROVE Opened(picked, ledger, i)
    OBVIOUS
  <2>1. i \in 1..Len(plan) /\ \A k \in 1 .. i - 1 : k \in 1..Len(plan)
    BY <1>1 DEF Follows
  <2> QED
    BY <1>4, <2>1 DEF Opened
<1>7. Follows(picked, ledger, FALSE)
  <2>1. \A i \in 1..Len(ledger) : i \in 1..Len(plan)
    BY <1>1 DEF Follows
  <2> QED
    BY <1>3, <1>4, <1>6, <2>1 DEF Follows
<1> QED
  BY <1>3, <1>5, <1>7 DEF picked

-----------------------------------------------------------------------------
LEMMA PlanStarts == TurnInit => PlanInv
<1> SUFFICES ASSUME TurnInit PROVE PlanInv
  OBVIOUS
<1>1. TurnFits(turn)
  BY DEF TurnInit, NoTurn, TurnFits, NoPlan
<1> QED
  BY <1>1, TurnAssumption DEF TurnInit, PlanInv

LEMMA RunStepFits ==
  ASSUME PlanInv, RunStep
  PROVE  PlanInv'
<1> DEFINE o == turn.owner
           step == turn.plan[turn.cursor]
<1>1. TurnFits(turn) /\ turn.pc = "exec" /\ turn.cursor <= Len(turn.plan) /\ o \in Tenants
  BY DEF PlanInv, RunStep, TurnFits
<1>2. /\ turn.plan # NoPlan /\ turn.cursor \in 1..Len(turn.plan) /\ step \in PlanSteps
      /\ ~turn.alone => Opened(turn.plan, turn.ledger, turn.cursor)
  BY <1>1, AtCursor DEF RunStep
<1>3. PICK r \in Outcomes(o, Dir(o), step) :
        /\ IF r.class \in Pauses THEN Park(step, r.class) ELSE UNCHANGED waiting
        /\ turn' = CASE r.class = "throws" -> [turn EXCEPT !.pc = "error"]
                     [] r.class \in Pauses -> [turn EXCEPT !.pc = "told"]
                     [] r.class = "hard-fail" ->
                          [turn EXCEPT !.ledger = Append(@, Entry(step, r)),
                                       !.pc = IF turn.alone /\ step.kind = "specialist"
                                                THEN "error" ELSE "told"]
                     [] OTHER -> [turn EXCEPT !.ledger = Append(@, Entry(step, r)),
                                              !.cursor = @ + 1]
  BY DEF RunStep
<1>4. r \in Results
  BY OutcomesFit
<1>5. Entry(step, r) \in Entries /\ Entry(step, r).id = step.id /\ Entry(step, r).made = r.made
  BY <1>2, <1>4, EntryFits
<1>6. UNCHANGED <<connected, turns, restarts, edits>>
  BY DEF RunStep, outside
<1> DEFINE entry == Entry(step, r)
           moved(phase, cursor) ==
             [turn EXCEPT !.ledger = Append(turn.ledger, entry), !.pc = phase, !.cursor = cursor]
<1>7. TurnFits(turn')
  <2>1. CASE r.class = "throws"
    BY <1>1, <1>3, <2>1, StopsThere
  <2>2. CASE r.class \in Pauses
    <3>1. turn' = [turn EXCEPT !.pc = "told"]
      BY <1>3, <2>2 DEF Pauses
    <3> QED
      BY <1>1, <3>1, StopsThere
  <2>3. CASE r.class = "hard-fail"
    <3>1. PICK phase \in {"told", "error"} :
            turn' = [turn EXCEPT !.ledger = Append(@, entry), !.pc = phase]
      BY <1>3, <2>3 DEF Pauses
    <3>2. turn' = moved(phase, turn.cursor)
      BY <1>1, <3>1, TurnRecord
    <3>3. TurnFits(moved(phase, turn.cursor))
      BY <1>1, <1>2, <1>5, MovesOn
    <3> QED
      BY <3>2, <3>3
  <2>4. CASE r.class \notin Pauses \cup {"throws", "hard-fail"}
    <3>1. turn' = [turn EXCEPT !.ledger = Append(@, entry), !.cursor = @ + 1]
      BY <1>3, <2>4
    <3>2. turn' = moved("exec", turn.cursor + 1)
      BY <1>1, <3>1, TurnRecord
    <3>3. TurnFits(moved("exec", turn.cursor + 1))
      BY <1>1, <1>2, <1>5, MovesOn
    <3> QED
      BY <3>2, <3>3
  <2> QED
    BY <2>1, <2>2, <2>3, <2>4
<1>8. DOMAIN waiting' = Tenants /\ \A p \in Tenants : \A w \in waiting'[p] : WaitsFit(p, w)
  <2>1. CASE UNCHANGED waiting
    BY <2>1 DEF PlanInv
  <2>2. CASE r.class \in Pauses /\ ~(turn.alone /\ r.class # "pick")
    <3> DEFINE w == [token |-> Token(step, r.class), home |-> turn.owner, plan |-> turn.plan,
                     cursor |-> turn.cursor, ledger |-> turn.ledger,
                     reason |-> IF r.class \in {"pick", "choose"} THEN "disambiguation" ELSE r.class]
    <3>1. waiting' = [waiting EXCEPT ![o] = Without(o, Token(step, r.class)) \cup {w}]
      BY <1>3, <2>2 DEF Park, Dir
    <3>2. /\ PlanSound(turn.plan) /\ Follows(turn.plan, turn.ledger, turn.alone)
          /\ Len(turn.ledger) = turn.cursor - 1
          /\ turn.alone => Len(turn.plan) = 1
          /\ turn.alone \in BOOLEAN
      BY <1>1, <1>2 DEF TurnFits
    <3>3. Follows(turn.plan, turn.ledger, FALSE)
      <4>1. CASE ~turn.alone
        BY <3>2, <4>1 DEF Follows
      <4>2. CASE turn.alone
        <5>1. Len(turn.ledger) = 0
          BY <1>2, <3>2, <4>2
        <5> QED
          BY <3>2, <5>1 DEF Follows
      <4> QED
        BY <4>1, <4>2
    <3>4. w.token[1] # "resume" => Opened(turn.plan, turn.ledger, turn.cursor)
      <4>1. CASE r.class = "confirm"
        BY <1>2, <2>2, <4>1
      <4>2. CASE r.class # "confirm"
        BY <4>2 DEF Token
      <4> QED
        BY <4>1, <4>2
    <3>5. WaitsFit(o, w)
      BY <1>2, <3>2, <3>3, <3>4 DEF WaitsFit
    <3> HIDE DEF w
    <3>6. Without(o, Token(step, r.class)) \subseteq waiting[o]
      BY DEF Without
    <3> QED
      BY <1>1, <3>1, <3>5, <3>6 DEF PlanInv
  <2> QED
    BY <1>3, <2>1, <2>2 DEF Park
<1> QED
  BY <1>6, <1>7, <1>8 DEF PlanInv

LEMMA PassStepFits ==
  ASSUME PlanInv, PassStep
  PROVE  TurnFits(turn')
<1> DEFINE step == turn.plan[turn.cursor]
           entry == Entry(step, Quietly("skipped"))
<1>1. TurnFits(turn) /\ turn.pc = "exec" /\ turn.cursor <= Len(turn.plan)
  BY DEF PlanInv, PassStep
<1>2. step \in PlanSteps /\ Recorded(step.id) = {}
  BY <1>1, AtCursor
<1>3. turn' = [turn EXCEPT !.ledger = Append(@, entry), !.cursor = @ + 1]
  BY <1>2 DEF PassStep
<1>4. Quietly("skipped") \in Results /\ ~Quietly("skipped").made
  BY DEF Quietly, Came, Results, Classes, Hows
<1>5. entry \in Entries /\ entry.id = step.id /\ ~entry.made
  BY <1>2, <1>4, EntryFits
<1>6. turn' = [turn EXCEPT !.ledger = Append(turn.ledger, entry), !.pc = "exec",
                           !.cursor = turn.cursor + 1]
  BY <1>1, <1>3, TurnRecord
<1> HIDE DEF entry
<1> QED
  BY <1>1, <1>5, <1>6, MovesOn

LEMMA FinishFits ==
  ASSUME PlanInv, FinishTurn
  PROVE  TurnFits(turn')
<1>1. TurnFits(turn) /\ turn.pc = "exec" /\ turn.cursor > Len(turn.plan)
  BY DEF PlanInv, FinishTurn
<1>2. /\ turn.plan \in Seq(PlanSteps) /\ Len(turn.plan) \in Nat /\ turn.cursor \in Nat
      /\ Len(turn.ledger) = turn.cursor - 1
  BY <1>1 DEF TurnFits
<1>3. turn.plan # NoPlan
  BY <1>1 DEF TurnFits
<1>4. Len(turn.ledger) = Len(turn.plan)
  BY <1>1, <1>2, <1>3 DEF TurnFits
<1>5. turn' = [pc |-> "complete", owner |-> turn.owner, home |-> turn.home, plan |-> turn.plan,
               cursor |-> turn.cursor, ledger |-> turn.ledger, alone |-> turn.alone]
  BY <1>1, TurnRecord DEF FinishTurn
<1> QED
  BY <1>1, <1>3, <1>4, <1>5 DEF TurnFits

LEMMA AskFits ==
  ASSUME PlanInv, NEW o \in Tenants, NEW message \in Messages,
         NEW raw \in message.plans \cup {NoPlan}, Ask(o, message, raw)
  PROVE  TurnFits(turn')
<1> DEFINE plan == Repaired(message, PlanRequest(raw, message))
<1>1. PlanSound(plan) /\ Len(plan) \in Nat \ {0}
  BY PlanOfTurn
<1>2. turn' = [pc |-> "exec", owner |-> o, home |-> o, plan |-> plan, cursor |-> 1,
               ledger |-> <<>>, alone |-> Len(plan) = 1]
  BY DEF Ask
<1> HIDE DEF plan
<1>3. plan \in Seq(PlanSteps) /\ plan # NoPlan /\ <<>> \in Seq(Entries) /\ Len(<<>>) = 0
  BY <1>1 DEF PlanSound, NoPlan
<1>4. PICK alone \in BOOLEAN : alone <=> Len(plan) = 1
  OBVIOUS
<1>5. Follows(plan, <<>>, alone)
  BY <1>1, <1>3 DEF Follows
<1>6. turn' = [pc |-> "exec", owner |-> o, home |-> o, plan |-> plan, cursor |-> 1,
               ledger |-> <<>>, alone |-> alone]
  BY <1>2, <1>4
<1> QED
  BY <1>1, <1>3, <1>4, <1>5, <1>6 DEF TurnFits

LEMMA ConfirmFits ==
  ASSUME PlanInv, NEW o \in Tenants, NEW tool \in Writes, Confirm(o, tool)
  PROVE  TurnFits(turn') /\ (UNCHANGED waiting \/ \E S : waiting' = [waiting EXCEPT ![o] = @ \ S])
<1> DEFINE pending == {w \in waiting[o] : w.token = <<tool, 0>>}
           told == [NoTurn EXCEPT !.pc = "told", !.owner = o, !.home = o]
<1>1. PICK r \in ConfirmedWrite(o, tool) :
        IF pending = {}
          THEN turn' = (IF r.class = "throws" THEN [told EXCEPT !.pc = "error"] ELSE told)
               /\ UNCHANGED waiting
        ELSE LET w == CHOOSE w \in pending : TRUE
                 back == [Resumed(w, w.plan, w.ledger, w.cursor) EXCEPT !.owner = o]
                 entry == Entry(w.plan[w.cursor], r)
             IN  IF r.class = "throws"
                   THEN turn' = [back EXCEPT !.pc = "error"] /\ UNCHANGED waiting
                 ELSE /\ waiting' = [waiting EXCEPT ![o] = @ \ pending]
                      /\ turn' = [back EXCEPT !.ledger = Append(@, entry),
                                              !.pc = IF r.class = "hard-fail" THEN "told" ELSE @,
                                              !.cursor = IF r.class = "hard-fail" THEN @ ELSE @ + 1]
  BY DEF Confirm, Dir
<1>2. r \in Results
  BY OutcomesFit
<1>3. CASE pending = {}
  <2>1. PICK phase \in {"told", "error"} :
          turn' = [pc |-> phase, owner |-> o, home |-> o, plan |-> NoPlan, cursor |-> 0, ledger |-> <<>>,
                   alone |-> FALSE]
    BY <1>1, <1>3 DEF NoTurn
  <2> QED
    BY <1>1, <1>3, <2>1 DEF TurnFits, NoPlan
<1>4. CASE pending # {}
  <2> DEFINE w == CHOOSE x \in pending : TRUE
             back == [Resumed(w, w.plan, w.ledger, w.cursor) EXCEPT !.owner = o]
             step == w.plan[w.cursor]
             entry == Entry(step, r)
  <2>1. w \in waiting[o] /\ w.token = <<tool, 0>>
    BY <1>4
  <2>2. IF r.class = "throws"
          THEN turn' = [back EXCEPT !.pc = "error"] /\ UNCHANGED waiting
        ELSE /\ waiting' = [waiting EXCEPT ![o] = @ \ pending]
             /\ turn' = [back EXCEPT !.ledger = Append(@, entry),
                                     !.pc = IF r.class = "hard-fail" THEN "told" ELSE @,
                                     !.cursor = IF r.class = "hard-fail" THEN @ ELSE @ + 1]
    BY <1>1, <1>4
  <2> HIDE DEF w
  <2>3. WaitsFit(o, w)
    BY <2>1 DEF PlanInv
  <2>4. PlanSound(w.plan) /\ Follows(w.plan, w.ledger, FALSE) /\ w.cursor \in 1..Len(w.plan)
    BY <2>3 DEF WaitsFit
  <2>5. Opened(w.plan, w.ledger, w.cursor)
    BY <2>1, <2>3 DEF WaitsFit, Writes
  <2>6. TurnFits(back)
    BY <2>3, <2>4, GoesOn
  <2>7. /\ back.pc = "exec" /\ back.plan = w.plan /\ back.ledger = w.ledger /\ back.cursor = w.cursor
        /\ back.alone = FALSE
    BY DEF Resumed
  <2>8. step \in PlanSteps /\ w.cursor <= Len(w.plan)
    BY <2>4 DEF PlanSound
  <2>9. entry \in Entries /\ entry.id = step.id
    BY <1>2, <2>8, EntryFits
  <2> HIDE DEF back, entry
  <2>10. CASE r.class = "throws"
    BY <2>2, <2>6, <2>7, <2>10, StopsThere
  <2>11. CASE r.class # "throws"
    <3> DEFINE phase == IF r.class = "hard-fail" THEN "told" ELSE "exec"
               cursor == IF r.class = "hard-fail" THEN back.cursor ELSE back.cursor + 1
               moved == [back EXCEPT !.ledger = Append(back.ledger, entry), !.pc = phase, !.cursor = cursor]
    <3>1. turn' = moved /\ waiting' = [waiting EXCEPT ![o] = @ \ pending]
      BY <2>2, <2>7, <2>11
    <3>2. \/ phase \in {"told", "error"} /\ cursor = back.cursor
          \/ phase = "exec" /\ cursor = back.cursor + 1
      OBVIOUS
    <3> HIDE DEF phase, cursor
    <3>3. TurnFits(moved)
      BY <2>5, <2>6, <2>7, <2>8, <2>9, <3>2, MovesOn
    <3> QED
      BY <3>1, <3>3
  <2> QED
    BY <2>10, <2>11
<1> QED
  BY <1>3, <1>4

LEMMA PickFits ==
  ASSUME PlanInv, NEW o \in Tenants, NEW w, NEW h \in Assistants, PickPeer(o, w, h)
  PROVE  TurnFits(turn') /\ \E S : waiting' = [waiting EXCEPT ![o] = @ \ S]
<1>1. w \in waiting[o] /\ waiting' = [waiting EXCEPT ![o] = @ \ {w}]
  BY DEF PickPeer, Dir
<1>2. WaitsFit(o, w)
  BY <1>1 DEF PlanInv
<1>3. PlanSound(w.plan) /\ Follows(w.plan, w.ledger, FALSE) /\ w.cursor \in 1..Len(w.plan)
  BY <1>2 DEF WaitsFit
<1> DEFINE picked == [w.plan EXCEPT ![w.cursor].to = h]
           plan == IF w.plan[w.cursor].kind = "peer" THEN picked ELSE w.plan
<1>4. PlanSound(picked) /\ Len(picked) = Len(w.plan) /\ Follows(picked, w.ledger, FALSE)
  BY <1>3, PickedPlan
<1>5. turn' = [Resumed(w, plan, w.ledger, w.cursor) EXCEPT !.owner = o]
  BY DEF PickPeer
<1> HIDE DEF picked
<1>6. PlanSound(plan) /\ Len(plan) = Len(w.plan) /\ Follows(plan, w.ledger, FALSE)
  BY <1>3, <1>4
<1> HIDE DEF plan
<1>7. TurnFits(turn')
  BY <1>2, <1>5, <1>6, GoesOn
<1> QED
  BY <1>1, <1>7

LEMMA PlanStep == PlanInv /\ [TurnNext]_turnVars => PlanInv'
<1> SUFFICES ASSUME PlanInv, [TurnNext]_turnVars PROVE PlanInv'
  OBVIOUS
<1> USE DEF Dir
<1>1. MaxTurns \in Nat /\ MaxRestarts \in Nat /\ MaxEdits \in Nat
  BY TurnAssumption
<1>2. CASE RunStep
  BY <1>2, RunStepFits
<1>3. CASE PassStep
  <2>1. UNCHANGED <<waiting, connected, turns, restarts, edits>>
    BY <1>3 DEF PassStep, outside
  <2> QED
    BY <1>3, <2>1, PassStepFits DEF PlanInv
<1>4. CASE FinishTurn
  <2>1. UNCHANGED <<waiting, connected, turns, restarts, edits>>
    BY <1>4 DEF FinishTurn, outside
  <2> QED
    BY <1>4, <2>1, FinishFits DEF PlanInv
<1>5. CASE Restart
  BY <1>1, <1>5 DEF Restart, PlanInv
<1>6. ASSUME NEW o \in Tenants, AnswerAtOnce(o) PROVE PlanInv'
  <2>1. /\ UNCHANGED <<waiting, connected, restarts, edits>> /\ turns' \in 0 .. MaxTurns
    BY <1>1, <1>6 DEF AnswerAtOnce, NewTurn, outside, PlanInv
  <2>2. turn' = [pc |-> "told", owner |-> o, home |-> o, plan |-> NoPlan, cursor |-> 0, ledger |-> <<>>,
                 alone |-> FALSE]
    BY <1>6 DEF AnswerAtOnce, NoTurn
  <2>3. TurnFits(turn')
    BY <2>2 DEF TurnFits, NoPlan
  <2> QED
    BY <2>1, <2>3 DEF PlanInv
<1>7. ASSUME NEW o \in Tenants, ConnectAccount(o) PROVE PlanInv'
  BY <1>1, <1>7 DEF ConnectAccount, PlanInv
<1>8. ASSUME NEW o \in Tenants, NEW message \in Messages, NEW raw \in message.plans \cup {NoPlan},
             Ask(o, message, raw)
      PROVE  PlanInv'
  <2>1. /\ UNCHANGED <<waiting, connected, restarts, edits>> /\ turns' \in 0 .. MaxTurns
    BY <1>1, <1>8 DEF Ask, NewTurn, outside, PlanInv
  <2> QED
    BY <1>8, <2>1, AskFits DEF PlanInv
<1>9. ASSUME NEW o \in Tenants, NEW tool \in Writes, Confirm(o, tool) PROVE PlanInv'
  <2> NewTurn /\ UNCHANGED outside
    BY <1>9 DEF Confirm
  <2>1. /\ UNCHANGED <<connected, restarts, edits>> /\ turns' \in 0 .. MaxTurns
    BY <1>1 DEF NewTurn, outside, PlanInv
  <2>2. TurnFits(turn') /\ (UNCHANGED waiting \/ \E S : waiting' = [waiting EXCEPT ![o] = @ \ S])
    BY <1>9, ConfirmFits
  <2> QED
    BY <2>1, <2>2 DEF PlanInv
<1>10. ASSUME NEW o \in Tenants, NEW w \in waiting[Dir(o)], NEW h \in Assistants, PickPeer(o, w, h)
       PROVE  PlanInv'
  <2>1. /\ UNCHANGED <<connected, restarts, edits>> /\ turns' \in 0 .. MaxTurns
    BY <1>1, <1>10 DEF PickPeer, NewTurn, outside, PlanInv
  <2>2. TurnFits(turn') /\ \E S : waiting' = [waiting EXCEPT ![o] = @ \ S]
    BY <1>10, PickFits
  <2> QED
    BY <2>1, <2>2 DEF PlanInv
<1>11. ASSUME NEW o \in Tenants, NEW h \in Assistants, EditRoster(o, h) PROVE PlanInv'
  BY <1>1, <1>11 DEF EditRoster, PlanInv
<1>12. CASE UNCHANGED turnVars
  BY <1>12 DEF turnVars, PlanInv
<1> QED
  BY <1>2, <1>3, <1>4, <1>5, <1>6, <1>7, <1>8, <1>9, <1>10, <1>11, <1>12 DEF TurnNext, TurnStep

-----------------------------------------------------------------------------
\* Ids are shared by nobody, so the entry a guard looked at is that of the step its
\* condition names, or the id is shadowed.
LEMMA NamedAsMeant ==
  ASSUME NEW plan, PlanSound(plan), NEW k \in 1..Len(plan)
  PROVE  k \in Meant(plan, plan[k].id) \/ Shadowed(plan, plan[k].id)
<1> DEFINE id == plan[k].id
           named == Called(plan, id)
<1>1. /\ plan \in Seq(PlanSteps) /\ DOMAIN plan = 1..Len(plan) /\ Len(plan) \in Nat
      /\ id \in StepId
  BY DEF PlanSound, PlanSteps
<1>2. CASE k \in named
  <2>1. ASSUME NEW j \in named PROVE k <= j
    <3>1. j \in 1..Len(plan) /\ plan[j].named = id /\ id # NoId
      BY <1>1 DEF Called, StepId
    <3>2. PICK i \in 1..j : plan[i].id = id
      BY <3>1 DEF PlanSound
    <3>3. i = k
      BY <1>1, <3>1, <3>2 DEF PlanSound
    <3> QED
      BY <1>1, <3>1, <3>2, <3>3
  <2> QED
    BY <1>2, <2>1 DEF Meant
<1>3. CASE k \notin named /\ (k # id \/ named # {})
  BY <1>1, <1>3 DEF Shadowed
<1>4. CASE k = id /\ named = {}
  BY <1>1, <1>4 DEF Meant
<1> QED
  BY <1>2, <1>3, <1>4

LEMMA ConditionsFit == PlanInv => ConditionsHold
<1> SUFFICES ASSUME PlanInv, ~turn.alone, NEW i \in DOMAIN turn.ledger, turn.ledger[i].made,
                    turn.plan[i].askedOf # NoId, turn.plan[i].asked \in Known
             PROVE  \E k \in 1 .. i - 1 :
                      LET step == turn.plan[i] IN
                      /\ turn.plan[k].id = step.askedOf
                      /\ k \in Meant(turn.plan, step.askedOf) \/ Shadowed(turn.plan, step.askedOf)
                      /\ step.asked \in {"satisfied", "soft-miss"} => turn.ledger[k].class = step.asked
                      /\ step.asked \in {"free", "busy"} => turn.ledger[k].how = step.asked
  BY DEF ConditionsHold
<1> DEFINE plan == turn.plan
           ledger == turn.ledger
           step == plan[i]
<1>1. TurnFits(turn) /\ ledger \in Seq(Entries) /\ i \in 1..Len(ledger) /\ Len(ledger) \in Nat
  BY DEF PlanInv, TurnFits
<1>2. plan # NoPlan
  BY <1>1 DEF TurnFits
<1>3. PlanSound(plan) /\ Follows(plan, ledger, turn.alone) /\ Len(plan) \in Nat
  BY <1>1, <1>2 DEF TurnFits, PlanSound
<1>4. step \in PlanSteps /\ i \in 1..Len(plan)
  BY <1>1, <1>3 DEF PlanSound, Follows
<1>5. step.from = step.askedOf /\ step.when = step.asked
  BY <1>4 DEF PlanSteps
<1>6. PICK k \in 1 .. i - 1 : plan[k].id = step.from /\ step.when \in {ledger[k].class, ledger[k].how}
  BY <1>1, <1>3, <1>5 DEF Follows, Opened
<1>7. k \in 1..Len(plan) /\ ledger[k] \in Entries
  BY <1>1, <1>4
<1>8. k \in Meant(plan, step.askedOf) \/ Shadowed(plan, step.askedOf)
  BY <1>3, <1>5, <1>6, <1>7, NamedAsMeant
<1>9. /\ step.asked \in {"satisfied", "soft-miss"} => ledger[k].class = step.asked
      /\ step.asked \in {"free", "busy"} => ledger[k].how = step.asked
  <2>1. ledger[k].class \in Classes /\ ledger[k].how \in Hows
    BY <1>7 DEF Entries
  <2> HIDE DEF step, ledger
  <2> QED
    BY <1>5, <1>6, <2>1 DEF Classes, Hows
<1> QED
  BY <1>5, <1>6, <1>8, <1>9

LEMMA NothingLost == PlanInv => NoStepLost
<1> SUFFICES ASSUME PlanInv, turn.plan # NoPlan PROVE NoStepLost
  BY DEF NoStepLost
<1>1. /\ Follows(turn.plan, turn.ledger, turn.alone)
      /\ turn.pc = "complete" => Len(turn.ledger) = Len(turn.plan)
  BY DEF PlanInv, TurnFits
<1> QED
  BY <1>1 DEF NoStepLost, Follows

\* Whatever the planner returned and whatever was asked, picked, confirmed or restarted
\* since, the plan's steps are run in order and none is lost, the plan is its owner's,
\* and a step with a condition reached the world only on the word of the step it names
\* (plan-schema.ts; executePlanFrom, runIfSatisfied, resumePlan).
THEOREM PlansFollowed == TurnSpec => []PlanFollowed
<1>1. PlanInv /\ CallInv => TurnTypeOK
  <2> SUFFICES ASSUME PlanInv, CallInv PROVE TurnTypeOK
    OBVIOUS
  <2>1. /\ turn.cursor \in 0 .. Len(turn.plan) + 1
        /\ turn.pc \in {"idle", "exec", "told", "complete", "error"}
    <3>1. TurnFits(turn) /\ Len(turn.plan) \in Nat /\ turn.cursor \in Nat
      BY DEF PlanInv, TurnFits
    <3>2. CASE turn.plan = NoPlan
      BY <3>1, <3>2 DEF TurnFits
    <3>3. CASE turn.plan # NoPlan
      BY <3>1, <3>3 DEF TurnFits
    <3> QED
      BY <3>2, <3>3
  <2>2. ASSUME NEW o \in Tenants, NEW w \in waiting[o] PROVE w.cursor \in DOMAIN w.plan
    <3>1. w.plan \in Seq(PlanSteps) /\ w.cursor \in 1..Len(w.plan)
      BY DEF PlanInv, WaitsFit, PlanSound
    <3>2. DOMAIN w.plan = 1..Len(w.plan)
      BY <3>1
    <3> QED
      BY <3>1, <3>2
  <2> QED
    BY <2>1, <2>2 DEF PlanInv, CallInv, AuditInv, TurnTypeOK
<1>2. PlanInv => PlansStayHome
  BY DEF PlanInv, TurnFits, PlansStayHome
<1>3. PlanInv /\ CallInv => PlanFollowed
  BY <1>1, <1>2, ConditionsFit, NothingLost DEF PlanFollowed
<1>4. TurnSpec => []PlanInv
  BY PlanStarts, PlanStep, PTL DEF TurnSpec
<1> QED
  BY <1>3, <1>4, CallsHold, PTL

-----------------------------------------------------------------------------
(***************************************************************************)
(* BridgeRequests: the rate limit.                                         *)
(***************************************************************************)

\* What a rate limit keeps of a client.
Bucket == [start : Nat, count : Nat \ {0}]

\* The times at which a client was let in, each in a window (by its start) of at most
\* Limit of them.
Laid(times, w, now) ==
  /\ w \in [1..Len(times) -> Nat]
  /\ \A n \in 1..Len(times) : w[n] <= times[n] /\ times[n] < w[n] + Window /\ times[n] <= now
  /\ \A n \in 1..(Len(times) - Limit) : w[n] + Window <= w[n + Limit]

\* All but the last count of them, and all but the last Limit, are of windows that
\* were over when this one began.
Before(times, w, start, count) ==
  \A n \in 1..Len(times) :
    /\ w[n] <= start
    /\ n <= Len(times) - count \/ n <= Len(times) - Limit => w[n] + Window <= start

\* All of them are of windows that are over.
Over(times, w, now) == \A n \in 1..Len(times) : w[n] + Window <= now

\* What is known of a client, by its bucket or from not having one.
Accounted(times, table, client, now) ==
  \E w : /\ Laid(times, w, now)
         /\ client \in DOMAIN table => Before(times, w, table[client].start, table[client].count)
         /\ client \notin DOMAIN table => Over(times, w, now)

\* The invariant.
LimitInv ==
  /\ clock \in Nat
  /\ buckets \in [DOMAIN buckets -> Bucket]
  /\ \A client \in DOMAIN buckets : buckets[client].start <= clock
  /\ \A client \in DOMAIN admitted : admitted[client] \in Seq(Nat) /\ Accounted(admitted[client], buckets, client, clock)

LEMMA LimitStarts == RequestsInit => LimitInv
<1> SUFFICES ASSUME RequestsInit PROVE LimitInv
  OBVIOUS
<1>1. clock = 0 /\ DOMAIN buckets = {} /\ DOMAIN admitted = {}
  BY DEF RequestsInit
<1>2. buckets \in [DOMAIN buckets -> Bucket]
  BY <1>1 DEF RequestsInit
<1> QED
  BY <1>1, <1>2 DEF LimitInv

\* Letting one more in.
LEMMA Longer ==
  ASSUME NEW times \in Seq(Nat), NEW w, NEW now \in Nat, NEW start \in Nat, NEW count \in Nat \ {0},
         start <= now, now < start + Window, count <= Limit,
         Laid(times, w, now), Before(times, w, start, count - 1)
  PROVE  \E v : Laid(Append(times, now), v, now) /\ Before(Append(times, now), v, start, count)
<1> DEFINE more == Append(times, now)
           v == [n \in 1..(Len(times) + 1) |-> IF n <= Len(times) THEN w[n] ELSE start]
<1>1. /\ Limit \in Nat /\ Window \in Nat /\ Limit # 0 /\ Len(times) \in Nat
  BY RequestAssumption
<1>2. /\ Len(more) = Len(times) + 1 /\ more[Len(times) + 1] = now
      /\ \A n \in 1..Len(times) : more[n] = times[n] /\ times[n] \in Nat
  BY ElementOfSeq
<1>3. /\ w \in [1..Len(times) -> Nat]
      /\ \A n \in 1..Len(times) : w[n] <= times[n] /\ times[n] < w[n] + Window /\ times[n] <= now
      /\ \A n \in 1..(Len(times) - Limit) : w[n] + Window <= w[n + Limit]
  BY DEF Laid
<1>4. \A n \in 1..Len(times) :
        /\ w[n] <= start
        /\ n <= Len(times) - (count - 1) \/ n <= Len(times) - Limit => w[n] + Window <= start
  BY DEF Before
<1>5. /\ v \in [1..Len(more) -> Nat] /\ v[Len(times) + 1] = start
      /\ \A n \in 1..Len(times) : v[n] = w[n]
  BY <1>1, <1>2, <1>3
<1> HIDE DEF more, v
<1>6. \A n \in 1..Len(more) : v[n] <= more[n] /\ more[n] < v[n] + Window /\ more[n] <= now
  <2> TAKE n \in 1..Len(more)
  <2>1. CASE n \in 1..Len(times)
    <3>1. w[n] \in Nat /\ v[n] = w[n] /\ more[n] = times[n] /\ times[n] \in Nat
      BY <1>2, <1>3, <1>5, <2>1
    <3> QED
      BY <1>1, <1>3, <2>1, <3>1
  <2>2. CASE n = Len(times) + 1
    <3>1. v[n] = start /\ more[n] = now
      BY <1>2, <1>5, <2>2
    <3> QED
      BY <1>1, <3>1
  <2> QED
    BY <1>1, <1>2, <2>1, <2>2
<1>7. \A n \in 1..(Len(more) - Limit) : v[n] + Window <= v[n + Limit]
  <2> TAKE n \in 1..(Len(more) - Limit)
  <2>1. n \in 1..Len(times) /\ n + Limit \in 1..(Len(times) + 1)
    BY <1>1, <1>2
  <2>2. CASE n + Limit = Len(times) + 1
    <3>1. n <= Len(times) - (count - 1)
      BY <1>1, <2>1, <2>2
    <3> QED
      BY <1>4, <1>5, <2>1, <2>2, <3>1
  <2>3. CASE n + Limit # Len(times) + 1
    <3>1. n \in 1..(Len(times) - Limit) /\ n + Limit \in 1..Len(times)
      BY <1>1, <2>1, <2>3
    <3> QED
      BY <1>3, <1>5, <2>1, <3>1
  <2> QED
    BY <2>2, <2>3
<1>8. Before(more, v, start, count)
  <2> SUFFICES ASSUME NEW n \in 1..Len(more)
               PROVE  /\ v[n] <= start
                      /\ n <= Len(more) - count \/ n <= Len(more) - Limit => v[n] + Window <= start
    BY DEF Before
  <2>1. CASE n \in 1..Len(times)
    <3>1. w[n] \in Nat /\ v[n] = w[n] /\ Len(more) = Len(times) + 1
      BY <1>2, <1>3, <1>5, <2>1
    <3> QED
      BY <1>1, <1>4, <2>1, <3>1
  <2>2. CASE n = Len(times) + 1
    BY <1>1, <1>2, <1>5, <2>2
  <2> QED
    BY <1>1, <1>2, <2>1, <2>2
<1>9. Laid(more, v, now)
  BY <1>5, <1>6, <1>7 DEF Laid
<1> QED
  BY <1>8, <1>9 DEF more

\* Time passing.
LEMMA LaterOn ==
  ASSUME NEW times \in Seq(Nat), NEW w, NEW now \in Nat, NEW later \in Nat, now <= later, Laid(times, w, now)
  PROVE  Laid(times, w, later) /\ (Over(times, w, now) => Over(times, w, later))
<1>1. Window \in Nat /\ \A n \in 1..Len(times) : times[n] \in Nat
  BY RequestAssumption, ElementOfSeq
<1>2. \A n \in 1..Len(times) : w[n] \in Nat /\ times[n] <= now
  BY DEF Laid
<1>3. \A n \in 1..Len(times) : times[n] <= later
  BY <1>1, <1>2
<1>4. Laid(times, w, later)
  BY <1>3 DEF Laid
<1>5. Over(times, w, now) => Over(times, w, later)
  BY <1>1, <1>2 DEF Over
<1> QED
  BY <1>4, <1>5

\* Pruning drops only windows that are over.
LEMMA PruneKeeps ==
  ASSUME NEW table, table \in [DOMAIN table -> Bucket]
  PROVE  /\ Prune(table) \in [DOMAIN Prune(table) -> Bucket]
         /\ DOMAIN Prune(table) \subseteq DOMAIN table
         /\ \A x \in DOMAIN Prune(table) : Prune(table)[x] = table[x]
         /\ \A x \in DOMAIN table \ DOMAIN Prune(table) : ~(clock - table[x].start < Window)
<1>1. CASE Cardinality(DOMAIN table) < MaxBuckets
  BY <1>1 DEF Prune
<1>2. CASE ~(Cardinality(DOMAIN table) < MaxBuckets)
  <2> DEFINE kept == {x \in DOMAIN table : clock - table[x].start < Window}
  <2>1. Prune(table) = [client \in kept |-> table[client]]
    BY <1>2 DEF Prune
  <2>2. \A x \in kept : table[x] \in Bucket
    OBVIOUS
  <2> QED
    BY <2>1, <2>2
<1> QED
  BY <1>1, <1>2

\* What a request's charge leaves.
LEMMA ChargedLeaves ==
  ASSUME LimitInv, NEW client, NEW table, table = Charged(client)
  PROVE  /\ table \in [DOMAIN table -> Bucket] /\ client \in DOMAIN table
         /\ table[client].start <= clock /\ clock < table[client].start + Window
         /\ \A x \in DOMAIN table \ {client} : x \in DOMAIN buckets /\ table[x] = buckets[x]
         /\ \A x \in DOMAIN buckets \ DOMAIN table : buckets[x].start + Window <= clock
         /\ \/ /\ client \in DOMAIN buckets
               /\ table[client].start = buckets[client].start /\ table[client].count = buckets[client].count + 1
            \/ /\ client \in DOMAIN buckets => buckets[client].start + Window <= clock
               /\ table[client].start = clock /\ table[client].count = 1
<1>1. /\ clock \in Nat /\ buckets \in [DOMAIN buckets -> Bucket]
      /\ \A x \in DOMAIN buckets : buckets[x].start <= clock /\ buckets[x].start \in Nat /\ buckets[x].count \in Nat \ {0}
  BY DEF LimitInv, Bucket
<1>2. Window \in Nat \ {0}
  BY RequestAssumption
<1>3. CASE client \in DOMAIN buckets /\ clock - buckets[client].start < Window
  <2>1. table = [buckets EXCEPT ![client].count = @ + 1]
    BY <1>3 DEF Charged
  <2>2. DOMAIN table = DOMAIN buckets /\ \A x \in DOMAIN buckets \ {client} : table[x] = buckets[x]
    BY <1>1, <2>1
  <2>3. table[client] = [start |-> buckets[client].start, count |-> buckets[client].count + 1]
    BY <1>1, <1>3, <2>1 DEF Bucket
  <2>4. table[client] \in Bucket
    BY <1>1, <1>3, <2>3 DEF Bucket
  <2>5. table \in [DOMAIN table -> Bucket]
    BY <1>1, <1>3, <2>1, <2>2, <2>4
  <2> QED
    BY <1>1, <1>2, <1>3, <2>2, <2>3, <2>5
<1>4. CASE ~(client \in DOMAIN buckets /\ clock - buckets[client].start < Window)
  <2> DEFINE full == [x \in DOMAIN buckets \cup {client} |->
                        IF x = client THEN [start |-> clock, count |-> 1] ELSE buckets[x]]
  <2>1. table = Prune(full)
    BY <1>4 DEF Charged
  <2>2. full \in [DOMAIN full -> Bucket]
    BY <1>1 DEF Bucket
  <2>3. full[client] = [start |-> clock, count |-> 1] /\ DOMAIN full = DOMAIN buckets \cup {client}
        /\ \A x \in DOMAIN buckets \ {client} : full[x] = buckets[x]
    OBVIOUS
  <2> HIDE DEF full
  <2>4. /\ table \in [DOMAIN table -> Bucket]
        /\ DOMAIN table \subseteq DOMAIN full
        /\ \A x \in DOMAIN table : table[x] = full[x]
        /\ \A x \in DOMAIN full \ DOMAIN table : ~(clock - full[x].start < Window)
    BY <2>1, <2>2, PruneKeeps
  <2>5. client \in DOMAIN table
    BY <1>1, <1>2, <2>3, <2>4
  <2>6. table[client].start = clock /\ table[client].count = 1
    BY <2>3, <2>4, <2>5
  <2>7. \A x \in DOMAIN table \ {client} : x \in DOMAIN buckets /\ table[x] = buckets[x]
    BY <2>3, <2>4
  <2>8. \A x \in DOMAIN buckets \ DOMAIN table : buckets[x].start + Window <= clock
    BY <1>1, <1>2, <2>3, <2>4, <2>5
  <2>9. client \in DOMAIN buckets => buckets[client].start + Window <= clock
    BY <1>1, <1>2, <1>4
  <2> QED
    BY <1>1, <1>2, <2>4, <2>5, <2>6, <2>7, <2>8, <2>9
<1> QED
  BY <1>3, <1>4

\* What the charge means for the other keys, and for its own when it is refused.
LEMMA ChargeAccounted ==
  ASSUME LimitInv, NEW client, NEW table, table = Charged(client), NEW x \in DOMAIN admitted,
         x # client \/ (Limit # 0 /\ table[client].count > Limit)
  PROVE  Accounted(admitted[x], table, x, clock)
<1> DEFINE times == admitted[x]
<1>1. PICK w : /\ Laid(times, w, clock)
               /\ x \in DOMAIN buckets => Before(times, w, buckets[x].start, buckets[x].count)
               /\ x \notin DOMAIN buckets => Over(times, w, clock)
  BY DEF LimitInv, Accounted
<1>2. /\ clock \in Nat /\ Window \in Nat /\ Limit \in Nat /\ times \in Seq(Nat) /\ Len(times) \in Nat
      /\ \A y \in DOMAIN buckets : buckets[y].start \in Nat /\ buckets[y].count \in Nat
  BY RequestAssumption DEF LimitInv, Bucket
<1> HIDE DEF times
<1>3. \A n \in 1..Len(times) : w[n] \in Nat
  BY <1>1 DEF Laid
<1>4. /\ \A y \in DOMAIN table \ {client} : y \in DOMAIN buckets /\ table[y] = buckets[y]
      /\ \A y \in DOMAIN buckets \ DOMAIN table : buckets[y].start + Window <= clock
      /\ client \in DOMAIN table
  BY ChargedLeaves
<1>5. CASE x # client /\ x \in DOMAIN table
  BY <1>1, <1>4, <1>5 DEF Accounted, times
<1>6. CASE x # client /\ x \notin DOMAIN table
  <2>1. CASE x \in DOMAIN buckets
    <3>1. \A n \in 1..Len(times) : w[n] <= buckets[x].start
      BY <1>1, <2>1 DEF Before
    <3>2. Over(times, w, clock)
      BY <1>2, <1>3, <1>4, <1>6, <2>1, <3>1 DEF Over
    <3> QED
      BY <1>1, <1>6, <3>2 DEF Accounted, times
  <2>2. CASE x \notin DOMAIN buckets
    BY <1>1, <1>6, <2>2 DEF Accounted, times
  <2> QED
    BY <2>1, <2>2
<1>7. CASE x = client /\ Limit # 0 /\ table[client].count > Limit
  <2>1. /\ client \in DOMAIN buckets
        /\ table[client].start = buckets[client].start /\ table[client].count = buckets[client].count + 1
    BY <1>2, <1>7, ChargedLeaves
  <2>2. \A n \in 1..Len(times) :
          /\ w[n] <= buckets[client].start
          /\ n <= Len(times) - buckets[client].count \/ n <= Len(times) - Limit =>
               w[n] + Window <= buckets[client].start
    BY <1>1, <1>7, <2>1 DEF Before
  <2>3. Before(times, w, table[client].start, table[client].count)
    <3> SUFFICES ASSUME NEW n \in 1..Len(times)
                 PROVE  /\ w[n] <= table[client].start
                        /\ n <= Len(times) - table[client].count \/ n <= Len(times) - Limit =>
                             w[n] + Window <= table[client].start
      BY DEF Before
    <3>1. n <= Len(times) - (buckets[client].count + 1) => n <= Len(times) - buckets[client].count
      BY <1>2, <2>1
    <3> QED
      BY <2>1, <2>2, <3>1
  <2> QED
    BY <1>1, <1>4, <1>7, <2>3 DEF Accounted, times
<1> QED
  BY <1>5, <1>6, <1>7

\* What it means for its own when it is let in.
LEMMA LetIn ==
  ASSUME LimitInv, NEW client, NEW table, table = Charged(client), ~(table[client].count > Limit),
         NEW times, times = IF client \in DOMAIN admitted THEN admitted[client] ELSE <<>>
  PROVE  times \in Seq(Nat) /\ Accounted(Append(times, clock), table, client, clock)
<1>1. /\ clock \in Nat /\ Window \in Nat /\ Limit \in Nat
      /\ \A y \in DOMAIN buckets : buckets[y].start \in Nat /\ buckets[y].count \in Nat
  BY RequestAssumption DEF LimitInv, Bucket
<1>2. /\ table[client].start \in Nat /\ table[client].count \in Nat \ {0} /\ client \in DOMAIN table
      /\ table[client].start <= clock /\ clock < table[client].start + Window
      /\ \/ /\ client \in DOMAIN buckets
            /\ table[client].start = buckets[client].start /\ table[client].count = buckets[client].count + 1
         \/ /\ client \in DOMAIN buckets => buckets[client].start + Window <= clock
            /\ table[client].start = clock /\ table[client].count = 1
  BY ChargedLeaves DEF Bucket
<1>3. times \in Seq(Nat)
  BY DEF LimitInv
<1>4. \E w : /\ Laid(times, w, clock)
             /\ client \in DOMAIN buckets => Before(times, w, buckets[client].start, buckets[client].count)
             /\ client \notin DOMAIN buckets => Over(times, w, clock)
  <2>1. CASE client \in DOMAIN admitted
    BY <2>1 DEF LimitInv, Accounted
  <2>2. CASE client \notin DOMAIN admitted
    <3> DEFINE w == [n \in 1..Len(times) |-> 0]
    <3>1. Len(times) = 0
      BY <2>2
    <3>2. Laid(times, w, clock)
      BY <1>1, <3>1 DEF Laid
    <3>3. Over(times, w, clock)
      BY <3>1 DEF Over
    <3>4. client \in DOMAIN buckets => Before(times, w, buckets[client].start, buckets[client].count)
      BY <3>1 DEF Before
    <3> QED
      BY <3>2, <3>3, <3>4
  <2> QED
    BY <2>1, <2>2
<1>5. PICK w : /\ Laid(times, w, clock)
               /\ client \in DOMAIN buckets => Before(times, w, buckets[client].start, buckets[client].count)
               /\ client \notin DOMAIN buckets => Over(times, w, clock)
  BY <1>4
<1>6. \A n \in 1..Len(times) : w[n] \in Nat
  BY <1>5 DEF Laid
<1>7. Before(times, w, table[client].start, table[client].count - 1)
  <2>1. CASE /\ client \in DOMAIN buckets
             /\ table[client].start = buckets[client].start /\ table[client].count = buckets[client].count + 1
    <3>1. table[client].count - 1 = buckets[client].count
      BY <1>1, <2>1
    <3> QED
      BY <1>5, <2>1, <3>1
  <2>2. CASE /\ client \in DOMAIN buckets => buckets[client].start + Window <= clock
             /\ table[client].start = clock /\ table[client].count = 1
    <3>1. CASE client \in DOMAIN buckets
      <4>1. \A n \in 1..Len(times) : w[n] <= buckets[client].start
        BY <1>5, <3>1 DEF Before
      <4> QED
        BY <1>1, <1>6, <2>2, <3>1, <4>1 DEF Before
    <3>2. CASE client \notin DOMAIN buckets
      BY <1>1, <1>5, <1>6, <2>2, <3>2 DEF Before, Over
    <3> QED
      BY <3>1, <3>2
  <2> QED
    BY <1>2, <2>1, <2>2
<1>8. table[client].count <= Limit
  BY <1>1, <1>2
<1>9. \E v : Laid(Append(times, clock), v, clock) /\ Before(Append(times, clock), v, table[client].start, table[client].count)
  BY <1>1, <1>2, <1>3, <1>5, <1>7, <1>8, Longer
<1> QED
  BY <1>2, <1>3, <1>9 DEF Accounted

LEMMA LimitArrives ==
  ASSUME LimitInv, NEW s \in Slots, NEW r \in Requests, Arrive(s, r)
  PROVE  LimitInv'
<1>1. clock' = clock /\ clock \in Nat
  BY DEF Arrive, LimitInv
<1>2. CASE UNCHANGED <<buckets, admitted>>
  BY <1>1, <1>2 DEF LimitInv, Accounted, Laid, Before, Over, Bucket
<1>3. CASE ~UNCHANGED <<buckets, admitted>>
  <2> DEFINE client == ClientKey(r)
  <2>1. /\ buckets' = Charged(client) /\ Limit # 0
        /\ IF client \in DOMAIN buckets' /\ buckets'[client].count > Limit
             THEN UNCHANGED admitted
             ELSE admitted' = [x \in DOMAIN admitted \cup {client} |->
                            (IF x \in DOMAIN admitted THEN admitted[x] ELSE <<>>)
                              \o (IF x = client THEN <<clock>> ELSE <<>>)]
    BY <1>3 DEF Arrive
  <2> HIDE DEF client
  <2>2. PICK table : table = Charged(client)
    OBVIOUS
  <2>3. /\ table \in [DOMAIN table -> Bucket] /\ client \in DOMAIN table
        /\ \A x \in DOMAIN table : table[x].start <= clock
    <3>1. /\ table \in [DOMAIN table -> Bucket] /\ client \in DOMAIN table
          /\ table[client].start <= clock
          /\ \A x \in DOMAIN table \ {client} : x \in DOMAIN buckets /\ table[x] = buckets[x]
      BY <2>2, ChargedLeaves
    <3> QED
      BY <3>1 DEF LimitInv
  <2>4. CASE table[client].count > Limit
    <3>1. admitted' = admitted
      BY <2>1, <2>2, <2>3, <2>4
    <3>2. \A x \in DOMAIN admitted : admitted[x] \in Seq(Nat) /\ Accounted(admitted[x], table, x, clock)
      BY <2>1, <2>2, <2>4, ChargeAccounted DEF LimitInv
    <3>3. \A x \in DOMAIN admitted' : admitted'[x] \in Seq(Nat) /\ Accounted(admitted'[x], buckets', x, clock')
      BY <1>1, <2>1, <2>2, <3>1, <3>2
    <3>4. ASSUME NEW x \in DOMAIN admitted'
          PROVE  (admitted[x] \in Seq(Nat) /\ Accounted(admitted[x], buckets, x, clock))'
      BY <3>3 DEF Accounted, Laid, Before, Over
    <3>5. buckets' \in [DOMAIN buckets' -> Bucket] /\ \A x \in DOMAIN buckets' : buckets'[x].start <= clock'
      BY <1>1, <2>1, <2>2, <2>3
    <3> QED
      BY <1>1, <3>4, <3>5 DEF LimitInv, Bucket
  <2>5. CASE ~(table[client].count > Limit)
    <3>1. admitted' = [x \in DOMAIN admitted \cup {client} |->
                            (IF x \in DOMAIN admitted THEN admitted[x] ELSE <<>>)
                              \o (IF x = client THEN <<clock>> ELSE <<>>)]
      BY <2>1, <2>2, <2>5
    <3>2. PICK times : times = IF client \in DOMAIN admitted THEN admitted[client] ELSE <<>>
      OBVIOUS
    <3>3. times \in Seq(Nat) /\ Accounted(Append(times, clock), table, client, clock)
      BY <2>2, <2>5, <3>2, LetIn
    <3>4. admitted'[client] = Append(times, clock)
      <4>1. admitted'[client] = times \o <<clock>>
        BY <3>1, <3>2
      <4> QED
        BY <1>1, <3>3, <4>1, AppendIsConcat
    <3>5. \A x \in DOMAIN admitted' \ {client} :
            x \in DOMAIN admitted /\ admitted'[x] = admitted[x] /\ admitted[x] \in Seq(Nat)
      <4> SUFFICES ASSUME NEW x \in DOMAIN admitted' \ {client}
                   PROVE  x \in DOMAIN admitted /\ admitted'[x] = admitted[x] /\ admitted[x] \in Seq(Nat)
        OBVIOUS
      <4>1. x \in DOMAIN admitted /\ admitted'[x] = admitted[x] \o <<>>
        BY <3>1
      <4>2. admitted[x] \in Seq(Nat)
        BY <4>1 DEF LimitInv
      <4> QED
        BY <4>1, <4>2, ConcatEmptySeq
    <3>6. \A x \in DOMAIN admitted \ {client} : Accounted(admitted[x], table, x, clock)
      BY <2>2, ChargeAccounted
    <3>7. \A x \in DOMAIN admitted' : admitted'[x] \in Seq(Nat) /\ Accounted(admitted'[x], table, x, clock)
      <4>1. Append(times, clock) \in Seq(Nat)
        BY <1>1, <3>3
      <4> QED
        BY <3>3, <3>4, <3>5, <3>6, <4>1
    <3>8. \A x \in DOMAIN admitted' : admitted'[x] \in Seq(Nat) /\ Accounted(admitted'[x], buckets', x, clock')
      BY <1>1, <2>1, <2>2, <3>7
    <3>9. buckets' \in [DOMAIN buckets' -> Bucket] /\ \A x \in DOMAIN buckets' : buckets'[x].start <= clock'
      BY <1>1, <2>1, <2>2, <2>3
    <3>10. ASSUME NEW x \in DOMAIN admitted'
           PROVE  (admitted[x] \in Seq(Nat) /\ Accounted(admitted[x], buckets, x, clock))'
      BY <3>8 DEF Accounted, Laid, Before, Over
    <3> QED
      BY <1>1, <3>9, <3>10 DEF LimitInv, Bucket
  <2> QED
    BY <2>4, <2>5
<1> QED
  BY <1>2, <1>3

LEMMA LimitStep == LimitInv /\ [RequestsNext]_requestVars => LimitInv'
<1> SUFFICES ASSUME LimitInv, [RequestsNext]_requestVars PROVE LimitInv'
  OBVIOUS
<1>1. CASE UNCHANGED <<clock, buckets, admitted>>
  BY <1>1 DEF LimitInv, Accounted, Laid, Before, Over, Bucket
<1>2. ASSUME NEW s \in Slots, Handle(s) PROVE UNCHANGED <<clock, buckets, admitted>>
  BY <1>2 DEF Handle, Kept, Check, StepFails, Touch, Act, Report, Open, Discover, Hire, Close, TellIdentity, Reply
<1>3. ASSUME NEW s \in Slots, NEW r \in Requests, Arrive(s, r) PROVE LimitInv'
  BY <1>3, LimitArrives
<1>4. CASE Tick
  <2>1. clock \in Nat /\ clock' = clock + 1 /\ UNCHANGED <<buckets, admitted>>
    BY <1>4 DEF Tick, LimitInv
  <2>2. \A x \in DOMAIN buckets : buckets[x].start <= clock'
    BY <2>1 DEF LimitInv, Bucket
  <2>3. \A x \in DOMAIN admitted : Accounted(admitted[x], buckets, x, clock')
    <3> SUFFICES ASSUME NEW x \in DOMAIN admitted PROVE Accounted(admitted[x], buckets, x, clock')
      OBVIOUS
    <3>1. admitted[x] \in Seq(Nat) /\ Accounted(admitted[x], buckets, x, clock)
      BY DEF LimitInv
    <3>2. clock' \in Nat /\ clock <= clock'
      BY <2>1
    <3> QED
      BY <2>1, <3>1, <3>2, LaterOn DEF Accounted
  <2> QED
    BY <2>1, <2>2, <2>3 DEF LimitInv, Accounted, Laid, Before, Over, Bucket
<1>5. CASE EditStanding
  BY <1>1, <1>5 DEF EditStanding
<1> QED
  BY <1>1, <1>2, <1>3, <1>4, <1>5 DEF RequestsNext, requestVars

LEMMA LimitFits == LimitInv => WithinLimit
<1> SUFFICES ASSUME LimitInv, NEW client \in DOMAIN admitted
             PROVE  LET times == admitted[client]
                    IN /\ \A n \in 1..(Len(times) - 2 * Limit) : times[n + 2 * Limit] - times[n] >= Window
                       /\ client \in DOMAIN buckets =>
                            \A n \in 1..(Len(times) - Limit) : times[n] < buckets[client].start
  BY DEF WithinLimit
<1> DEFINE times == admitted[client]
<1>1. PICK w : /\ Laid(times, w, clock)
               /\ client \in DOMAIN buckets => Before(times, w, buckets[client].start, buckets[client].count)
  BY DEF LimitInv, Accounted
<1>2. Limit \in Nat /\ Window \in Nat /\ times \in Seq(Nat) /\ Len(times) \in Nat
  BY RequestAssumption DEF LimitInv
<1> HIDE DEF times
<1>3. /\ \A n \in 1..Len(times) : w[n] \in Nat /\ times[n] \in Nat /\ w[n] <= times[n] /\ times[n] < w[n] + Window
      /\ \A n \in 1..(Len(times) - Limit) : w[n] + Window <= w[n + Limit]
  BY <1>1, <1>2, ElementOfSeq DEF Laid
<1>4. ASSUME NEW n \in 1..(Len(times) - 2 * Limit) PROVE times[n + 2 * Limit] - times[n] >= Window
  <2>1. /\ n \in 1..Len(times) /\ n + Limit \in 1..Len(times) /\ n + 2 * Limit \in 1..Len(times)
        /\ n \in 1..(Len(times) - Limit) /\ n + Limit \in 1..(Len(times) - Limit)
        /\ (n + Limit) + Limit = n + 2 * Limit
    BY <1>2
  <2>2. w[n] + Window <= w[n + Limit] /\ w[n + Limit] + Window <= w[n + 2 * Limit]
    BY <1>3, <2>1
  <2>3. /\ w[n] \in Nat /\ w[n + Limit] \in Nat /\ w[n + 2 * Limit] \in Nat
        /\ times[n] \in Nat /\ times[n + 2 * Limit] \in Nat
        /\ times[n] < w[n] + Window /\ w[n + 2 * Limit] <= times[n + 2 * Limit]
    BY <1>3, <2>1
  <2>4. PICK b : b = w[n + Limit]
    OBVIOUS
  <2>5. PICK c : c = w[n + 2 * Limit]
    OBVIOUS
  <2>6. PICK late : late = times[n + 2 * Limit]
    OBVIOUS
  <2>7. PICK a : a = w[n]
    OBVIOUS
  <2>8. PICK early : early = times[n]
    OBVIOUS
  <2>9. /\ a \in Nat /\ b \in Nat /\ c \in Nat /\ early \in Nat /\ late \in Nat
        /\ a + Window <= b /\ b + Window <= c /\ c <= late /\ early < a + Window
    <3>1. w[n + 2 * Limit] \in Nat
      BY <1>3, <2>1
    <3> QED
      BY <2>2, <2>3, <2>4, <2>5, <2>6, <2>7, <2>8, <3>1
  <2>10. late - early >= Window
    BY ONLY <1>2, <2>9
  <2> QED
    BY <2>6, <2>8, <2>10
<1>5. ASSUME client \in DOMAIN buckets, NEW n \in 1..(Len(times) - Limit) PROVE times[n] < buckets[client].start
  <2>1. n \in 1..Len(times) /\ n <= Len(times) - Limit
    BY <1>2
  <2>2. w[n] + Window <= buckets[client].start
    BY <1>1, <1>5, <2>1 DEF Before
  <2>3. buckets[client].start \in Nat
    BY <1>5 DEF LimitInv, Bucket
  <2> QED
    BY <1>2, <1>3, <2>1, <2>2, <2>3
<1> QED
  BY <1>4, <1>5 DEF times

-----------------------------------------------------------------------------
(***************************************************************************)
(* BridgeRequests: what a request touches and how it is answered.          *)
(***************************************************************************)

\* A step comes before place i of a handler's program.
Past(list, i, step) == \E j \in 1..(i - 1) : list[j] = step

\* What the handlers' programs have in common.
WellOrdered(list) ==
  /\ Len(list) \in Nat \ {0}
  /\ \A i \in 1..Len(list) :
       /\ list[i] \in {"json", "final", "chunks", "notFound"} <=> i = Len(list)
       /\ list[i] = "head" => ~Past(list, i, "head")
       /\ Past(list, i, "try") => Past(list, i, "head")
       /\ Past(list, i, "head") => Past(list, i, "try") \/ list[i] = "try"
       /\ list[i] = "json" => ~Past(list, i, "head")
       /\ list[i] \in {"final", "chunks"} => Past(list, i, "try")
       /\ list[i] = "open" => ~Past(list, i, "open")
       /\ list[i] = "close" => ~Past(list, i, "close")
       /\ Past(list, i, "close") => Past(list, i, "open")
       /\ i = Len(list) => (Past(list, i, "open") <=> Past(list, i, "close"))
       /\ list[i] \in {"turn", "write"} =>
            Past(list, i, "enabled") /\ (Past(list, i, "owner") \/ Past(list, i, "ownerIfAny"))

LEMMA StepsOrdered ==
  ASSUME NEW route
  PROVE  WellOrdered(Steps(route))
<1>1. CASE route = "run"
  BY ONLY <1>1, SMTT(30) DEF Steps, Introductions, StreamSteps, HireSteps, WellOrdered, Past
<1>2. CASE route = "stream"
  BY ONLY <1>2, SMTT(30) DEF Steps, Introductions, StreamSteps, HireSteps, WellOrdered, Past
<1>3. CASE route = "create"
  BY ONLY <1>3, SMTT(30) DEF Steps, Introductions, StreamSteps, HireSteps, WellOrdered, Past
<1>4. CASE route \in Introductions
  BY ONLY <1>4, SMTT(30) DEF Steps, Introductions, StreamSteps, HireSteps, WellOrdered, Past
<1>5. CASE route = "contacts"
  BY ONLY <1>5, SMTT(30) DEF Steps, Introductions, StreamSteps, HireSteps, WellOrdered, Past
<1>6. CASE route = "look"
  BY ONLY <1>6, SMTT(30) DEF Steps, Introductions, StreamSteps, HireSteps, WellOrdered, Past
<1>7. CASE route \in {"transcribe", "call"}
  BY ONLY <1>7, SMTT(30) DEF Steps, Introductions, StreamSteps, HireSteps, WellOrdered, Past
<1>8. CASE route = "image"
  BY ONLY <1>8, SMTT(30) DEF Steps, Introductions, StreamSteps, HireSteps, WellOrdered, Past
<1>9. CASE route = "route"
  BY ONLY <1>9, SMTT(30) DEF Steps, Introductions, StreamSteps, HireSteps, WellOrdered, Past
<1>10. CASE route = "chat"
  BY ONLY <1>10, SMTT(30) DEF Steps, Introductions, StreamSteps, HireSteps, WellOrdered, Past
<1>11. CASE route = "identity"
  BY ONLY <1>11, SMTT(30) DEF Steps, Introductions, StreamSteps, HireSteps, WellOrdered, Past
<1>12. CASE route \notin {"run", "stream", "create", "invite", "membership", "revoke", "contacts", "look",
                      "transcribe", "call", "image", "route", "chat", "identity"}
  <2>1. Steps(route) = <<"notFound">>
    BY ONLY <1>12 DEF Steps, Introductions
  <2> QED
    BY ONLY <2>1 DEF WellOrdered, Past
<1> QED
  BY ONLY <1>1, <1>2, <1>3, <1>4, <1>5, <1>6, <1>7, <1>8, <1>9, <1>10, <1>11, <1>12 DEF Introductions

\* A streamed turn ends with an outcome.
LEMMA StreamEnds ==
  \A i \in 1..Len(Steps("stream")) : Steps("stream")[i] \notin {"json", "chunks"}
BY DEF Steps, StreamSteps, Introductions

LEMMA PastNext ==
  ASSUME NEW list, NEW i \in Nat \ {0}, NEW step
  PROVE  Past(list, i + 1, step) <=> Past(list, i, step) \/ list[i] = step
BY DEF Past

-----------------------------------------------------------------------------
\* What a request has been sent: once its answer has begun, and when it has ended,
\* with an outcome or without.
Events == {"head", "status", "final", "error", "chunk", "end"}
Began(out) ==
  out \in Seq(Events) /\ Len(out) \in 1..2 /\ out[1] = "head" /\ (Len(out) = 2 => out[2] = "status")
Ending(out) ==
  /\ out \in Seq(Events) /\ Len(out) \in 2..4 /\ out[1] = "head" /\ out[Len(out)] = "end"
  /\ \A n \in 2..(Len(out) - 1) : out[n] \in {"status", "final", "error", "chunk"}
Outcome(out) ==
  \E k \in 2..(Len(out) - 1) :
    out[k] \in {"final", "error"} /\ \A n \in 1..Len(out) : n # k => out[n] \notin {"final", "error"}

LEMMA BeganOpen == \A out : out = <<>> \/ Began(out) => "end" \notin ToSet(out)
<1> SUFFICES ASSUME NEW out, out = <<>> \/ Began(out), NEW n \in DOMAIN out PROVE out[n] # "end"
  BY DEF ToSet
<1>1. CASE out = <<>>
  BY <1>1
<1>2. CASE Began(out)
  <2>1. n \in 1..2
    BY <1>2 DEF Began
  <2> QED
    BY <1>2, <2>1 DEF Began
<1> QED
  BY <1>1, <1>2

LEMMA EndingEnds == \A out : Ending(out) => "end" \in ToSet(out)
<1> SUFFICES ASSUME NEW out, Ending(out) PROVE \E n \in DOMAIN out : out[n] = "end"
  BY DEF ToSet
<1>1. Len(out) \in DOMAIN out
  BY DEF Ending
<1> QED
  BY <1>1 DEF Ending

\* How an event is counted.
Count(out, event) == Cardinality({n \in 1..Len(out) : out[n] = event})

LEMMA None ==
  ASSUME NEW out, NEW event, \A n \in 1..Len(out) : out[n] # event
  PROVE  Count(out, event) = 0
<1>1. {n \in 1..Len(out) : out[n] = event} = {}
  OBVIOUS
<1> QED
  BY <1>1, FS_EmptySet DEF Count

LEMMA One ==
  ASSUME NEW out, NEW event, NEW k \in 1..Len(out), \A n \in 1..Len(out) : out[n] = event <=> n = k
  PROVE  Count(out, event) = 1
<1>1. {n \in 1..Len(out) : out[n] = event} = {k}
  OBVIOUS
<1> QED
  BY <1>1, FS_Singleton DEF Count

LEMMA BeganCounts ==
  ASSUME NEW out, out = <<>> \/ Began(out)
  PROVE  Count(out, "head") <= 1 /\ Count(out, "end") <= 1 /\ (out # <<>> => out[1] = "head")
<1>1. CASE out = <<>>
  <2>1. \A n \in 1..Len(out) : out[n] # "head" /\ out[n] # "end"
    BY <1>1
  <2>2. Count(out, "head") = 0 /\ Count(out, "end") = 0
    BY <2>1, None
  <2> QED
    BY <1>1, <2>2
<1>2. CASE Began(out)
  <2>1. Len(out) \in 1..2 /\ out[1] = "head" /\ (Len(out) = 2 => out[2] = "status")
    BY <1>2 DEF Began
  <2>2. 1 \in 1..Len(out) /\ \A n \in 1..Len(out) : out[n] = "head" <=> n = 1
    BY <2>1
  <2>3. \A n \in 1..Len(out) : out[n] # "end"
    BY <2>1
  <2>4. Count(out, "head") = 1
    BY <2>2, One
  <2>5. Count(out, "end") = 0
    BY <2>3, None
  <2> QED
    BY <2>1, <2>4, <2>5
<1> QED
  BY <1>1, <1>2

LEMMA EndingCounts ==
  ASSUME NEW out, Ending(out)
  PROVE  Count(out, "head") = 1 /\ Count(out, "end") = 1 /\ out # <<>>
<1>1. /\ Len(out) \in 2..4 /\ out[1] = "head" /\ out[Len(out)] = "end"
      /\ \A n \in 2..(Len(out) - 1) : out[n] \in {"status", "final", "error", "chunk"}
  BY DEF Ending
<1>2. 1 \in 1..Len(out) /\ \A n \in 1..Len(out) : out[n] = "head" <=> n = 1
  BY <1>1
<1>3. Len(out) \in 1..Len(out) /\ \A n \in 1..Len(out) : out[n] = "end" <=> n = Len(out)
  BY <1>1
<1>4. Count(out, "head") = 1
  BY <1>2, One
<1>5. Count(out, "end") = 1
  BY <1>3, One
<1> QED
  BY <1>1, <1>4, <1>5

LEMMA OutcomeCounts ==
  ASSUME NEW out, Ending(out), Outcome(out)
  PROVE  Count(out, "final") + Count(out, "error") = 1
<1>1. PICK k \in 2..(Len(out) - 1) :
        out[k] \in {"final", "error"} /\ \A n \in 1..Len(out) : n # k => out[n] \notin {"final", "error"}
  BY DEF Outcome
<1>2. k \in 1..Len(out)
  BY DEF Ending
<1>3. CASE out[k] = "final"
  <2>1. Count(out, "final") = 1
    BY <1>1, <1>2, <1>3, One
  <2>2. \A n \in 1..Len(out) : out[n] # "error"
    BY <1>1, <1>3
  <2>3. Count(out, "error") = 0
    BY <2>2, None
  <2> QED
    BY <2>1, <2>3
<1>4. CASE out[k] = "error"
  <2>1. Count(out, "error") = 1
    BY <1>1, <1>2, <1>4, One
  <2>2. \A n \in 1..Len(out) : out[n] # "final"
    BY <1>1, <1>4
  <2>3. Count(out, "final") = 0
    BY <2>2, None
  <2> QED
    BY <2>1, <2>3
<1> QED
  BY <1>1, <1>3, <1>4

\* How what was sent grows.
LEMMA ByOne ==
  ASSUME NEW E, NEW out \in Seq(E), NEW a \in E, NEW more, more = Append(out, a)
  PROVE  /\ more \in Seq(E) /\ Len(more) = Len(out) + 1
         /\ \A n \in 1..Len(out) : more[n] = out[n]
         /\ more[Len(out) + 1] = a
BY AppendProperties

LEMMA ByTwo ==
  ASSUME NEW E, NEW out \in Seq(E), NEW a \in E, NEW b \in E, NEW more, more = out \o <<a, b>>
  PROVE  /\ more \in Seq(E) /\ Len(more) = Len(out) + 2
         /\ \A n \in 1..Len(out) : more[n] = out[n]
         /\ more[Len(out) + 1] = a /\ more[Len(out) + 2] = b
<1>1. PICK pair : pair = <<a, b>>
  OBVIOUS
<1>2. pair \in Seq(E) /\ Len(pair) = 2 /\ pair[1] = a /\ pair[2] = b /\ Len(out) \in Nat
  BY <1>1
<1>3. /\ more \in Seq(E) /\ Len(more) = Len(out) + Len(pair)
      /\ \A i \in 1..(Len(out) + Len(pair)) :
           more[i] = IF i <= Len(out) THEN out[i] ELSE pair[i - Len(out)]
  BY <1>1, <1>2, ConcatProperties
<1>4. \A n \in 1..Len(out) : more[n] = out[n]
  BY <1>2, <1>3
<1>5. more[Len(out) + 1] = pair[1] /\ more[Len(out) + 2] = pair[2]
  BY <1>2, <1>3
<1> QED
  BY <1>2, <1>3, <1>4, <1>5

LEMMA EndsAtOnce ==
  ASSUME NEW more, more = <<>> \o <<"head", "end">>
  PROVE  Ending(more)
<1>1. PICK a \in Events, b \in Events : a = "head" /\ b = "end"
  BY DEF Events
<1>2. more = <<>> \o <<a, b>> /\ <<>> \in Seq(Events) /\ Len(<<>>) = 0
  BY <1>1
<1>3. more \in Seq(Events) /\ Len(more) = 2 /\ more[1] = a /\ more[2] = b
  BY <1>2, ByTwo
<1> QED
  BY <1>1, <1>3 DEF Ending

LEMMA EndsOpened ==
  ASSUME NEW out, Began(out), NEW what \in Events, what \in {"final", "error", "chunk"},
         NEW more, more = out \o <<what, "end">>
  PROVE  Ending(more) /\ (what # "chunk" => Outcome(more))
<1>1. PICK b \in Events : b = "end"
  BY DEF Events
<1>2. out \in Seq(Events) /\ more = out \o <<what, b>>
  BY <1>1 DEF Began
<1>3. /\ more \in Seq(Events) /\ Len(more) = Len(out) + 2
      /\ \A n \in 1..Len(out) : more[n] = out[n]
      /\ more[Len(out) + 1] = what /\ more[Len(out) + 2] = b
  BY ONLY <1>1, <1>2, ByTwo
<1>4. Len(out) \in 1..2 /\ out[1] = "head" /\ (Len(out) = 2 => out[2] = "status")
  BY DEF Began
<1>5. Len(more) \in 2..4 /\ more[Len(more)] = b /\ more[1] = out[1]
  <2>1. Len(more) \in 3..4 /\ Len(more) = Len(out) + 2
    BY ONLY <1>3, <1>4
  <2>2. more[Len(more)] = b
    BY ONLY <1>3, <2>1
  <2>3. 1 \in 1..Len(out)
    BY ONLY <1>4
  <2>4. more[1] = out[1]
    BY ONLY <1>3, <2>3
  <2> QED
    BY ONLY <2>1, <2>2, <2>4
<1>6. \A n \in 2..(Len(more) - 1) : (n = Len(out) + 1 /\ more[n] = what) \/ (n = 2 /\ Len(out) = 2 /\ more[n] = out[2])
  <2> TAKE n \in 2..(Len(more) - 1)
  <2>1. n = Len(out) + 1 \/ (n = 2 /\ Len(out) = 2)
    BY <1>3, <1>4
  <2>2. Len(out) = 2 => more[2] = out[2]
    BY <1>3
  <2> QED
    BY <1>3, <2>1, <2>2
<1>7. \A n \in 2..(Len(more) - 1) : more[n] \in {"status", "final", "error", "chunk"}
  <2> TAKE n \in 2..(Len(more) - 1)
  <2>1. CASE more[n] = what
    BY <2>1
  <2>2. CASE more[n] = out[2] /\ Len(out) = 2
    BY <1>4, <2>2
  <2> QED
    BY <1>6, <2>1, <2>2
<1>8. Ending(more)
  BY <1>1, <1>3, <1>4, <1>5, <1>7 DEF Ending
<1>9. ASSUME what # "chunk" PROVE Outcome(more)
  <2>1. Len(out) + 1 \in 2..(Len(more) - 1)
    BY <1>3, <1>4
  <2>2. ASSUME NEW n \in 1..Len(more), n # Len(out) + 1 PROVE more[n] \notin {"final", "error"}
    <3>1. \/ n = 1 /\ more[n] = out[1]
          \/ n = 2 /\ Len(out) = 2 /\ more[n] = out[2]
          \/ more[n] = b
      BY <1>3, <1>4, <2>2
    <3> QED
      BY <1>1, <1>4, <3>1
  <2> QED
    BY <1>3, <1>9, <2>1, <2>2 DEF Outcome
<1> QED
  BY <1>8, <1>9

LEMMA EndsAbruptly ==
  ASSUME NEW out, Began(out), NEW more, more = Append(out, "end")
  PROVE  Ending(more)
<1>1. PICK b \in Events : b = "end"
  BY DEF Events
<1>2. out \in Seq(Events) /\ more = Append(out, b)
  BY <1>1 DEF Began
<1>3. /\ more \in Seq(Events) /\ Len(more) = Len(out) + 1
      /\ \A n \in 1..Len(out) : more[n] = out[n]
      /\ more[Len(out) + 1] = b
  BY ONLY <1>1, <1>2, ByOne
<1>4. Len(out) \in 1..2 /\ out[1] = "head" /\ (Len(out) = 2 => out[2] = "status")
  BY DEF Began
<1>5. /\ Len(more) \in 2..4 /\ more[Len(more)] = b /\ more[1] = out[1]
      /\ \A n \in 2..(Len(more) - 1) : n = 2 /\ Len(out) = 2 /\ more[n] = out[2]
  BY <1>3, <1>4
<1> QED
  BY <1>1, <1>3, <1>4, <1>5 DEF Ending

LEMMA Begins ==
  ASSUME NEW out, NEW more, out = <<>>, more = Append(out, "head")
  PROVE  Began(more)
<1>1. PICK a \in Events : a = "head"
  BY DEF Events
<1>2. out \in Seq(Events) /\ Len(out) = 0 /\ more = Append(out, a)
  BY <1>1
<1>3. more \in Seq(Events) /\ Len(more) = 1 /\ more[1] = a
  BY ONLY <1>1, <1>2, ByOne
<1> QED
  BY <1>1, <1>3 DEF Began

LEMMA Reports ==
  ASSUME NEW out, NEW more, Began(out), "status" \notin ToSet(out), more = Append(out, "status")
  PROVE  Began(more)
<1>1. Len(out) \in 1..2 /\ out[1] = "head" /\ (Len(out) = 2 => out[2] = "status") /\ DOMAIN out = 1..Len(out)
  BY DEF Began
<1>2. Len(out) = 1
  <2>1. \A n \in 1..Len(out) : out[n] # "status"
    BY <1>1 DEF ToSet
  <2> QED
    BY <1>1, <2>1
<1>3. PICK a \in Events : a = "status"
  BY DEF Events
<1>4. out \in Seq(Events) /\ more = Append(out, a)
  BY <1>3 DEF Began
<1>5. /\ more \in Seq(Events) /\ Len(more) = Len(out) + 1
      /\ \A n \in 1..Len(out) : more[n] = out[n]
      /\ more[Len(out) + 1] = a
  BY ONLY <1>3, <1>4, ByOne
<1>6. Len(more) = 2 /\ more[1] = out[1] /\ more[2] = a
  BY <1>2, <1>5
<1> QED
  BY <1>1, <1>3, <1>5, <1>6 DEF Began

-----------------------------------------------------------------------------
\* Whom the roster's bindings name.
Owns(entries) == {entries[n][1] : n \in 1..Len(entries)}

LEMMA BoundOwner ==
  ASSUME NEW entries, Len(entries) \in Nat, NEW h \in DOMAIN Bindings(entries).owner
  PROVE  Bindings(entries).owner[h] \in Bindings(entries).owners
<1> DEFINE last(n) == entries[n][2] = h /\ \A later \in (n + 1)..Len(entries) : entries[later][2] # h
           S == {m \in 0..Len(entries) : \E n \in 1..Len(entries) : m = Len(entries) - n /\ entries[n][2] = h}
           At == CHOOSE n \in 1..Len(entries) : last(n)
<1>1. \E n \in 1..Len(entries) : entries[n][2] = h
  BY DEF Bindings
<1>2. S \in SUBSET Nat /\ S # {}
  <2>1. PICK n \in 1..Len(entries) : entries[n][2] = h
    BY <1>1
  <2>2. Len(entries) - n \in S
    BY <2>1
  <2> QED
    BY <2>2
<1>3. \E n \in 1..Len(entries) : last(n)
  <2>1. PICK m \in S : \A k \in S : m <= k
    BY <1>2, Least
  <2>2. PICK n \in 1..Len(entries) : m = Len(entries) - n /\ entries[n][2] = h
    BY <2>1
  <2>3. ASSUME NEW later \in (n + 1)..Len(entries), entries[later][2] = h PROVE FALSE
    <3>1. Len(entries) - later \in S
      <4>1. later \in 1..Len(entries) /\ Len(entries) - later \in 0..Len(entries)
        BY <2>2, <2>3
      <4> QED
        BY <2>3, <4>1
    <3>2. m <= Len(entries) - later
      BY <2>1, <3>1
    <3> HIDE DEF S
    <3> QED
      BY <2>2, <2>3, <3>2
  <2> QED
    BY <2>2, <2>3
<1>4. At \in 1..Len(entries)
  <2> HIDE DEF last
  <2> QED
    BY <1>3
<1>5. Bindings(entries).owner[h] = entries[At][1]
  BY DEF Bindings
<1>6. Bindings(entries).owners = Owns(entries)
  BY DEF Bindings, Owns
<1> HIDE DEF At
<1> QED
  BY <1>4, <1>5, <1>6 DEF Owns

-----------------------------------------------------------------------------
\* The records of a slot.
Touchable == UNION {{r.owner, r.claim, r.peer, "shared"} : r \in Requests}
Names ==
  {r.owner : r \in Requests} \cup {"key", Preferred} \cup UNION {Bindings(roster).owners : roster \in Rosters}
SlotRecord ==
  [request : Requests \cup {NoOwner}, at : Nat, out : Seq(Events), status : Nat,
   opened : Nat, closed : Nat, touched : SUBSET Touchable,
   told : {NoOwner} \cup (Names \X Rosters), hired : {"one", "none", "many"}]

\* The owner's checks let a request pass that is the owner's own.
Lawful(r, auth) == auth => r.token /\ r.owner # NoOwner /\ r.claim \in {NoOwner, r.owner}

\* Whose request it is, and who else an introduction reaches.
WhoseFor(r, auth) == IF auth THEN r.owner ELSE r.claim
Further(r) == IF r.route \in Introductions THEN {r.peer, "shared"} ELSE {}

\* A request that is served, at its place in its handler's program.
Going(e, on) ==
  LET list == Steps(e.request.route)
  IN /\ e.request # NoOwner
     /\ e.at \in 1..Len(list)
     /\ e.out = <<>> \/ Began(e.out)
     /\ e.out = <<>> <=> ~Past(list, e.at, "head")
     /\ e.opened = IF Past(list, e.at, "open") THEN 1 ELSE 0
     /\ e.closed = IF Past(list, e.at, "close") THEN 1 ELSE 0
     /\ Past(list, e.at, "enabled") => on.enabled
     /\ Past(list, e.at, "owner") \/ Past(list, e.at, "ownerIfAny") => Lawful(e.request, on.auth)

\* A request that has ended.
Gone(e) ==
  /\ e.request # NoOwner /\ Ending(e.out) /\ e.opened = e.closed
  /\ e.request.route = "stream" /\ e.status = 200 => Outcome(e.out)

\* What a request touched is its owner's, or the other side of an introduction, and
\* whom it was told is an owner.
Rightful(e, on) ==
  /\ e.touched # {} =>
       /\ on.enabled /\ Lawful(e.request, on.auth)
       /\ e.touched \subseteq {WhoseFor(e.request, on.auth)} \cup Further(e.request)
       /\ "shared" \in e.touched => ~on.auth \/ e.request.peer = NoOwner
  /\ e.told # NoOwner /\ ~on.auth /\ e.told[1] # "key" => e.told[1] \in Bindings(e.told[2]).owners

Sound(e, on) ==
  /\ e \in SlotRecord
  /\ (e.request = NoOwner /\ e.out = <<>>) \/ Going(e, on) \/ Gone(e)
  /\ Rightful(e, on)

\* The invariant.
RequestInv ==
  /\ slot \in [Slots -> SlotRecord]
  /\ \A s \in Slots : Sound(slot[s], site)
  /\ standing \in Rosters
  /\ cache.bindings = Bindings(cache.text)

LEMMA FreeFits == Free \in SlotRecord
BY DEF Free, SlotRecord, Events

LEMMA RequestStarts == RequestsInit => RequestInv
<1> SUFFICES ASSUME RequestsInit PROVE RequestInv
  OBVIOUS
<1>1. Free \in SlotRecord
  BY FreeFits
<1>2. Free.request = NoOwner /\ Free.out = <<>> /\ Free.touched = {} /\ Free.told = NoOwner
  BY DEF Free
<1>3. Sound(Free, site)
  BY <1>1, <1>2 DEF Sound, Rightful
<1>4. slot = [s \in Slots |-> Free] /\ standing \in Rosters /\ cache = [text |-> <<>>, bindings |-> Bindings(<<>>)]
  BY DEF RequestsInit
<1> QED
  BY <1>1, <1>3, <1>4 DEF RequestInv

\* A step of a served request that goes on to the next.
LEMMA Advance ==
  ASSUME NEW on, NEW e, Going(e, on), NEW f, f.request = e.request, f.at = e.at + 1,
         NEW step, step = Steps(e.request.route)[e.at],
         step \notin {"json", "final", "chunks", "notFound"},
         IF step = "head" THEN Began(f.out) ELSE f.out = e.out,
         f.opened = IF step = "open" THEN e.opened + 1 ELSE e.opened,
         f.closed = IF step = "close" THEN e.closed + 1 ELSE e.closed,
         step = "enabled" => on.enabled,
         step \in {"owner", "ownerIfAny"} => Lawful(e.request, on.auth)
  PROVE  Going(f, on)
<1> DEFINE list == Steps(e.request.route)
           i == e.at
<1>1. WellOrdered(list)
  BY StepsOrdered
<1>2. /\ e.request # NoOwner /\ i \in 1..Len(list) /\ step = list[i]
      /\ e.out = <<>> \/ Began(e.out)
      /\ e.out = <<>> <=> ~Past(list, i, "head")
      /\ e.opened = IF Past(list, i, "open") THEN 1 ELSE 0
      /\ e.closed = IF Past(list, i, "close") THEN 1 ELSE 0
      /\ Past(list, i, "enabled") => on.enabled
      /\ Past(list, i, "owner") \/ Past(list, i, "ownerIfAny") => Lawful(e.request, on.auth)
  BY DEF Going
<1> HIDE DEF list
<1>3. /\ Len(list) \in Nat /\ i \in Nat \ {0}
      /\ step \in {"json", "final", "chunks", "notFound"} <=> i = Len(list)
      /\ step = "open" => ~Past(list, i, "open")
      /\ step = "close" => ~Past(list, i, "close")
  BY <1>1, <1>2 DEF WellOrdered
<1>4. i + 1 \in 1..Len(list)
  BY <1>2, <1>3
<1>5. \A x : Past(list, i + 1, x) <=> Past(list, i, x) \/ step = x
  BY <1>2, <1>3, PastNext
<1>6. \A out : Began(out) => out # <<>>
  BY DEF Began
<1>7. f.out = <<>> \/ Began(f.out)
  BY <1>2
<1>8. f.out = <<>> <=> ~Past(list, i + 1, "head")
  BY <1>2, <1>5, <1>6
<1>9. f.opened = IF Past(list, i + 1, "open") THEN 1 ELSE 0
  BY <1>2, <1>3, <1>5
<1>10. f.closed = IF Past(list, i + 1, "close") THEN 1 ELSE 0
  BY <1>2, <1>3, <1>5
<1>11. /\ Past(list, i + 1, "enabled") => on.enabled
       /\ Past(list, i + 1, "owner") \/ Past(list, i + 1, "ownerIfAny") => Lawful(e.request, on.auth)
  BY <1>2, <1>5
<1> QED
  BY <1>2, <1>4, <1>7, <1>8, <1>9, <1>10, <1>11 DEF Going, list

\* A slot that changes soundly.
LEMMA Changed ==
  ASSUME RequestInv, NEW s \in Slots, NEW f, Sound(f, site), Becomes(s, f),
         UNCHANGED <<site, standing>>, cache'.bindings = Bindings(cache'.text)
  PROVE  RequestInv'
<1>1. slot' = [slot EXCEPT ![s] = f] /\ slot \in [Slots -> SlotRecord] /\ f \in SlotRecord
  BY DEF Becomes, RequestInv, Sound
<1>2. slot' \in [Slots -> SlotRecord]
  BY <1>1
<1>3. \A x \in Slots : Sound(slot'[x], site')
  BY <1>1 DEF RequestInv
<1>4. ASSUME NEW x \in Slots PROVE Sound(slot[x], site)'
  BY <1>3 DEF Sound, Going, Gone, Rightful, Lawful
<1> QED
  BY <1>2, <1>4 DEF RequestInv, SlotRecord

\* A request that is served is under way.
LEMMA UnderWay ==
  ASSUME RequestInv, NEW s \in Slots, Served(s)
  PROVE  /\ slot[s] \in SlotRecord /\ Going(slot[s], site) /\ Rightful(slot[s], site)
         /\ Step(s) = Steps(slot[s].request.route)[slot[s].at]
         /\ InTry(s) <=> Past(Steps(slot[s].request.route), slot[s].at, "try")
<1>1. Sound(slot[s], site)
  BY DEF RequestInv
<1>2. ~Gone(slot[s])
  BY EndingEnds DEF Gone, Served
<1> QED
  BY <1>1, <1>2 DEF Sound, Served, Step, InTry, Past

\* A step that refuses or fails ends the request.
LEMMA Failing ==
  ASSUME RequestInv, NEW s \in Slots, Served(s), Step(s) # "try", NEW status \in Nat, status # 200,
         Fail(s, status)
  PROVE  \E f : Sound(f, site) /\ Becomes(s, f)
<1> DEFINE e == slot[s]
           list == Steps(e.request.route)
           now == [e EXCEPT !.closed = e.opened]
<1>1. /\ e \in SlotRecord /\ Going(e, site) /\ Rightful(e, site)
      /\ Step(s) = list[e.at] /\ (InTry(s) <=> Past(list, e.at, "try"))
  BY UnderWay
<1>2. /\ e.request # NoOwner /\ e.at \in 1..Len(list)
      /\ e.out = <<>> \/ Began(e.out)
      /\ e.out = <<>> <=> ~Past(list, e.at, "head")
  BY <1>1 DEF Going
<1>3. Past(list, e.at, "head") <=> InTry(s)
  <2> HIDE DEF list
  <2>1. WellOrdered(list)
    BY StepsOrdered DEF list
  <2> QED
    BY <1>1, <1>2, <2>1 DEF WellOrdered
<1>4. CASE ~InTry(s)
  <2> DEFINE f == [now EXCEPT !.out = @ \o <<"head", "end">>, !.status = status]
  <2>1. Becomes(s, f)
    BY <1>4 DEF Fail
  <2>2. e.out = <<>> /\ f.out = e.out \o <<"head", "end">>
    BY <1>1, <1>2, <1>3, <1>4 DEF SlotRecord
  <2>3. Ending(f.out)
    BY <2>2, EndsAtOnce
  <2>4. /\ f.request = e.request /\ f.status = status /\ f.opened = e.opened /\ f.closed = e.opened
        /\ f.touched = e.touched /\ f.told = e.told
    BY <1>1 DEF SlotRecord
  <2>5. f \in SlotRecord
    BY <1>1, <2>3 DEF SlotRecord, Ending
  <2> HIDE DEF f
  <2>6. Gone(f) /\ Rightful(f, site)
    BY <1>1, <1>2, <2>3, <2>4 DEF Gone, Rightful
  <2> QED
    BY <2>1, <2>5, <2>6 DEF Sound
<1>5. CASE InTry(s) /\ e.request.route = "stream"
  <2> DEFINE f == [now EXCEPT !.out = @ \o <<"error", "end">>]
  <2>1. Becomes(s, f)
    BY <1>5 DEF Fail
  <2>2. Began(e.out) /\ f.out = e.out \o <<"error", "end">>
    BY <1>1, <1>2, <1>3, <1>5 DEF SlotRecord
  <2>3. Ending(f.out) /\ Outcome(f.out)
    <3>1. PICK what \in Events : what = "error"
      BY DEF Events
    <3> QED
      BY <2>2, <3>1, EndsOpened
  <2>4. /\ f.request = e.request /\ f.opened = e.opened /\ f.closed = e.opened
        /\ f.touched = e.touched /\ f.told = e.told
    BY <1>1 DEF SlotRecord
  <2>5. f \in SlotRecord
    BY <1>1, <2>3 DEF SlotRecord, Ending
  <2> HIDE DEF f
  <2>6. Gone(f) /\ Rightful(f, site)
    BY <1>1, <1>2, <2>3, <2>4 DEF Gone, Rightful
  <2> QED
    BY <2>1, <2>5, <2>6 DEF Sound
<1>6. CASE InTry(s) /\ e.request.route # "stream"
  <2> DEFINE f == [now EXCEPT !.out = Append(@, "end")]
  <2>1. Becomes(s, f)
    BY <1>6 DEF Fail
  <2>2. Began(e.out) /\ f.out = Append(e.out, "end")
    BY <1>1, <1>2, <1>3, <1>6 DEF SlotRecord
  <2>3. Ending(f.out)
    BY <2>2, EndsAbruptly
  <2>4. /\ f.request = e.request /\ f.opened = e.opened /\ f.closed = e.opened
        /\ f.touched = e.touched /\ f.told = e.told
    BY <1>1 DEF SlotRecord
  <2>5. f \in SlotRecord
    BY <1>1, <2>3 DEF SlotRecord, Ending
  <2> HIDE DEF f
  <2>6. Gone(f) /\ Rightful(f, site)
    BY <1>1, <1>2, <1>6, <2>3, <2>4 DEF Gone, Rightful
  <2> QED
    BY <2>1, <2>5, <2>6 DEF Sound
<1> QED
  BY <1>4, <1>5, <1>6

\* The last step of a handler answers.
LEMMA Finishing ==
  ASSUME RequestInv, NEW s \in Slots, Served(s), NEW step, step = Step(s),
         step \in {"json", "final", "chunks"},
         NEW f, f \in SlotRecord, f.request = slot[s].request,
         f.out = slot[s].out \o (IF step = "json" THEN <<"head", "end">>
                                 ELSE IF step = "final" THEN <<"final", "end">> ELSE <<"chunk", "end">>),
         f.opened = slot[s].opened, f.closed = slot[s].closed,
         f.touched = slot[s].touched, f.told = slot[s].told
  PROVE  Sound(f, site)
<1> DEFINE e == slot[s]
           list == Steps(e.request.route)
<1>1. /\ e \in SlotRecord /\ Going(e, site) /\ Rightful(e, site) /\ step = list[e.at]
  BY UnderWay
<1>2. /\ e.request # NoOwner /\ e.at \in 1..Len(list)
      /\ e.out = <<>> \/ Began(e.out)
      /\ e.out = <<>> <=> ~Past(list, e.at, "head")
      /\ e.opened = IF Past(list, e.at, "open") THEN 1 ELSE 0
      /\ e.closed = IF Past(list, e.at, "close") THEN 1 ELSE 0
  BY <1>1 DEF Going
<1>3. /\ step = "json" => ~Past(list, e.at, "head")
      /\ step \in {"final", "chunks"} => Past(list, e.at, "head")
      /\ Past(list, e.at, "open") <=> Past(list, e.at, "close")
  <2> HIDE DEF list
  <2>1. WellOrdered(list)
    BY StepsOrdered DEF list
  <2> QED
    BY <1>1, <1>2, <2>1 DEF WellOrdered
<1>4. e.request.route = "stream" => step \notin {"json", "chunks"}
  BY <1>1, <1>2, StreamEnds
<1>5. Ending(f.out) /\ (step = "final" => Outcome(f.out))
  <2>1. CASE step = "json"
    BY <1>2, <1>3, <2>1, EndsAtOnce
  <2>2. CASE step = "final"
    <3>1. PICK what \in Events : what = "final"
      BY DEF Events
    <3>2. Began(e.out) /\ f.out = e.out \o <<what, "end">>
      BY <1>2, <1>3, <2>2, <3>1
    <3> QED
      BY <3>1, <3>2, EndsOpened
  <2>3. CASE step = "chunks"
    <3>1. PICK what \in Events : what = "chunk"
      BY DEF Events
    <3>2. Began(e.out) /\ f.out = e.out \o <<what, "end">>
      BY <1>2, <1>3, <2>3, <3>1
    <3> QED
      BY <2>3, <3>1, <3>2, EndsOpened
  <2> QED
    BY <2>1, <2>2, <2>3
<1>6. Gone(f)
  BY <1>2, <1>3, <1>4, <1>5 DEF Gone
<1>7. Rightful(f, site)
  BY <1>1 DEF Rightful
<1> QED
  BY <1>6, <1>7 DEF Sound

-----------------------------------------------------------------------------
LEMMA Arriving ==
  ASSUME RequestInv, NEW s \in Slots, NEW r \in Requests, Arrive(s, r)
  PROVE  RequestInv'
<1>1. UNCHANGED <<site, standing, cache>> /\ (Accepted(s, r) \/ Answered(s, r, 204) \/ Answered(s, r, 429))
  <2>1. UNCHANGED <<site, standing, cache>>
    BY DEF Arrive
  <2>2. CASE r.route = "options"
    BY <2>1, <2>2 DEF Arrive
  <2>3. CASE r.route # "options" /\ (~RateLimited(r.route) \/ Limit = 0)
    BY <2>1, <2>3 DEF Arrive
  <2>4. CASE r.route # "options" /\ ~(~RateLimited(r.route) \/ Limit = 0)
    BY <2>1, <2>4 DEF Arrive
  <2> QED
    BY <2>2, <2>3, <2>4
<1>2. r # NoOwner
  BY RequestAssumption
<1>3. ASSUME Accepted(s, r) PROVE RequestInv'
  <2> DEFINE f == [Free EXCEPT !.request = r, !.at = 1]
             list == Steps(r.route)
  <2>1. Becomes(s, f)
    BY <1>3 DEF Accepted, Becomes
  <2>2. /\ f.request = r /\ f.at = 1 /\ f.out = <<>> /\ f.opened = 0 /\ f.closed = 0
        /\ f.touched = {} /\ f.told = NoOwner
    BY DEF Free
  <2>3. f \in SlotRecord
    BY FreeFits DEF SlotRecord
  <2> HIDE DEF f, list
  <2>4. 1 \in 1..Len(list)
    BY StepsOrdered DEF WellOrdered, list
  <2>5. \A x : ~Past(list, 1, x)
    BY DEF Past
  <2>6. Going(f, site) /\ Rightful(f, site)
    BY <1>2, <2>2, <2>4, <2>5 DEF Going, Rightful, list
  <2>7. Sound(f, site)
    BY <2>3, <2>6 DEF Sound
  <2> QED
    BY <1>1, <2>1, <2>7, Changed DEF RequestInv
<1>4. ASSUME NEW status \in Nat, Answered(s, r, status), status # 200 PROVE RequestInv'
  <2> DEFINE f == [Free EXCEPT !.request = r, !.status = status, !.out = <<"head", "end">>]
  <2>1. Becomes(s, f)
    BY <1>4 DEF Answered, Becomes
  <2>2. /\ f.request = r /\ f.status = status /\ f.out = <<"head", "end">> /\ f.opened = 0 /\ f.closed = 0
        /\ f.touched = {} /\ f.told = NoOwner
    BY DEF Free
  <2>3. Ending(f.out)
    <3>1. <<"head", "end">> = <<>> \o <<"head", "end">>
      OBVIOUS
    <3> QED
      BY <2>2, <3>1, EndsAtOnce
  <2>4. f \in SlotRecord
    <3>1. <<"head", "end">> \in Seq(Events)
      BY <2>2, <2>3 DEF Ending
    <3> QED
      BY <1>4, <3>1 DEF Free, SlotRecord
  <2> HIDE DEF f
  <2>5. Gone(f) /\ Rightful(f, site)
    BY <1>2, <1>4, <2>2, <2>3 DEF Gone, Rightful
  <2>6. Sound(f, site)
    BY <2>4, <2>5 DEF Sound
  <2> QED
    BY <1>1, <2>1, <2>6, Changed DEF RequestInv
<1> QED
  BY <1>1, <1>3, <1>4

LEMMA Checking ==
  ASSUME RequestInv, NEW s \in Slots, Check(s)
  PROVE  RequestInv'
<1> DEFINE e == slot[s]
           refusal == Refusals(e.request)[Step(s)]
<1>1. /\ Served(s) /\ Step(s) \in Checks
      /\ IF refusal = 0 THEN Becomes(s, Next1(s)) ELSE Fail(s, refusal)
      /\ UNCHANGED <<site, standing, cache>>
  BY DEF Check, Kept
<1>2. e \in SlotRecord /\ Going(e, site) /\ Rightful(e, site) /\ Step(s) = Steps(e.request.route)[e.at]
  BY <1>1, UnderWay
<1>3. /\ Step(s) = "enabled" => refusal = IF site.enabled THEN 0 ELSE 403
      /\ Step(s) = "owner" =>
           refusal = OwnerRefusal(e.request, FALSE) /\ refusal \in {0, 400, 401, 403}
      /\ Step(s) = "ownerIfAny" =>
           refusal = OwnerRefusal(e.request, TRUE) /\ refusal \in {0, 400, 401, 403}
      /\ Step(s) = "notFound" => refusal = 404
      /\ Step(s) \in {"body", "text", "key", "gateway"} => refusal \in {0, 400, 401, 413}
  <2>1. CASE Step(s) = "enabled"
    BY <2>1 DEF Refusals
  <2>2. CASE Step(s) = "owner"
    BY <2>2 DEF Refusals, OwnerRefusal
  <2>3. CASE Step(s) = "ownerIfAny"
    BY <2>3 DEF Refusals, OwnerRefusal
  <2>4. CASE Step(s) = "notFound"
    BY <2>4 DEF Refusals
  <2>5. CASE Step(s) = "body"
    BY <2>5 DEF Refusals
  <2>6. CASE Step(s) = "text"
    BY <2>6 DEF Refusals
  <2>7. CASE Step(s) = "key"
    BY <2>7 DEF Refusals
  <2>8. CASE Step(s) = "gateway"
    BY <2>8 DEF Refusals
  <2> QED
    BY <1>1, <2>1, <2>2, <2>3, <2>4, <2>5, <2>6, <2>7, <2>8 DEF Checks
<1>5. refusal \in {0, 400, 401, 403, 404, 413}
  <2> HIDE DEF refusal
  <2> QED
    BY <1>1, <1>3 DEF Checks
<1>6. CASE refusal # 0
  <2>1. Step(s) # "try" /\ refusal \in Nat /\ refusal # 200
    <3> HIDE DEF refusal
    <3>1. Step(s) # "try"
      BY ONLY <1>1 DEF Checks
    <3> QED
      BY ONLY <1>5, <3>1
  <2>2. \E f : Sound(f, site) /\ Becomes(s, f)
    BY <1>1, <1>6, <2>1, Failing
  <2> QED
    BY <1>1, <2>2, Changed DEF RequestInv
<1>7. CASE refusal = 0
  <2> DEFINE f == [e EXCEPT !.at = @ + 1]
  <2>1. Becomes(s, f)
    BY <1>1, <1>7 DEF Next1
  <2>2. /\ f \in SlotRecord
        /\ f.request = e.request /\ f.at = e.at + 1 /\ f.out = e.out /\ f.opened = e.opened /\ f.closed = e.closed
        /\ f.touched = e.touched /\ f.told = e.told
    BY <1>2 DEF SlotRecord
  <2> HIDE DEF f
  <2>3. Step(s) \notin {"json", "final", "chunks", "notFound", "head", "open", "close"}
    BY <1>1, <1>3, <1>7 DEF Checks
  <2>4. Step(s) = "enabled" => site.enabled
    BY <1>3, <1>7
  <2>5. Step(s) \in {"owner", "ownerIfAny"} => Lawful(e.request, site.auth)
    BY <1>3, <1>7 DEF OwnerRefusal, Lawful
  <2>6. Going(f, site)
    BY <1>2, <2>2, <2>3, <2>4, <2>5, Advance
  <2>7. Sound(f, site)
    BY <1>2, <2>2, <2>6 DEF Sound, Rightful
  <2> QED
    BY <1>1, <2>1, <2>7, Changed DEF RequestInv
<1> QED
  BY <1>6, <1>7

LEMMA StepFailing ==
  ASSUME RequestInv, NEW s \in Slots, StepFails(s)
  PROVE  RequestInv'
<1>1. PICK status \in Failures(Step(s), slot[s].request.route) : Fail(s, status)
  BY DEF StepFails
<1>2. Served(s) /\ UNCHANGED <<site, standing, cache>>
  BY DEF StepFails, Kept
<1>3. Step(s) # "try" /\ status \in Nat /\ status # 200
  BY <1>1 DEF Failures
<1>4. \E f : Sound(f, site) /\ Becomes(s, f)
  BY <1>1, <1>2, <1>3, Failing
<1> QED
  BY <1>2, <1>4, Changed DEF RequestInv

\* A step that changes nothing of what the client was sent.
LEMMA Moving ==
  ASSUME RequestInv, NEW s \in Slots, Served(s), NEW step, step = Step(s),
         step \notin {"json", "final", "chunks", "notFound", "enabled", "owner", "ownerIfAny"},
         NEW f \in SlotRecord, f.request = slot[s].request, f.at = slot[s].at + 1,
         IF step = "head" THEN Began(f.out) ELSE f.out = slot[s].out,
         f.opened = IF step = "open" THEN slot[s].opened + 1 ELSE slot[s].opened,
         f.closed = IF step = "close" THEN slot[s].closed + 1 ELSE slot[s].closed,
         Rightful(f, site), Becomes(s, f), UNCHANGED <<site, standing>>,
         cache'.bindings = Bindings(cache'.text)
  PROVE  RequestInv'
<1>1. Going(slot[s], site) /\ Step(s) = Steps(slot[s].request.route)[slot[s].at]
  BY UnderWay
<1>2. Going(f, site)
  BY <1>1, Advance
<1>3. Sound(f, site)
  BY <1>2 DEF Sound
<1> QED
  BY <1>3, Changed

\* The record with its place moved on.
LEMMA MovedOn ==
  ASSUME NEW e \in SlotRecord, NEW h, h = [e EXCEPT !.at = @ + 1]
  PROVE  /\ h \in SlotRecord
         /\ h.request = e.request /\ h.at = e.at + 1 /\ h.out = e.out /\ h.opened = e.opened /\ h.closed = e.closed
         /\ h.touched = e.touched /\ h.told = e.told
BY DEF SlotRecord

LEMMA Acting ==
  ASSUME RequestInv, NEW s \in Slots, Act(s)
  PROVE  RequestInv'
<1> DEFINE e == slot[s]
<1>1. Served(s) /\ Step(s) \in {"turn", "write"} /\ UNCHANGED <<site, standing, cache>>
  BY DEF Act, Kept
<1>2. PICK h : h = [e EXCEPT !.at = @ + 1] /\ Becomes(s, h)
  BY DEF Act, Next1
<1>3. e \in SlotRecord /\ Rightful(e, site)
  BY <1>1, UnderWay
<1>4. /\ h \in SlotRecord
      /\ h.request = e.request /\ h.at = e.at + 1 /\ h.out = e.out /\ h.opened = e.opened /\ h.closed = e.closed
      /\ h.touched = e.touched /\ h.told = e.told
  BY <1>2, <1>3, MovedOn
<1>5. Rightful(h, site)
  BY <1>3, <1>4 DEF Rightful
<1> QED
  BY <1>1, <1>2, <1>4, <1>5, Moving DEF RequestInv

\* Whose records a request may touch.
LEMMA RecordsFit ==
  ASSUME NEW r \in Requests
  PROVE  /\ Records(r) \in SUBSET Touchable
         /\ Records(r) \subseteq {WhoseFor(r, site.auth)} \cup Further(r)
         /\ "shared" \in Records(r) /\ Lawful(r, site.auth) =>
              ~site.auth \/ r.peer = NoOwner \/ OwnerOf(r) = NoOwner
<1>1. "shared" \notin {NoOwner, r.owner, r.claim, r.peer}
  BY RequestAssumption
<1>2. OwnerOf(r) = WhoseFor(r, site.auth) /\ OwnerOf(r) \in {r.owner, r.claim}
  BY DEF OwnerOf, WhoseFor
<1>3. RosterDirs(r) \subseteq {OwnerOf(r), r.peer, "shared"}
  BY DEF RosterDirs
<1>4. "shared" \in RosterDirs(r) => OwnerOf(r) = NoOwner \/ r.peer = NoOwner
  BY <1>1, <1>2 DEF RosterDirs
<1>5. Records(r) \subseteq {OwnerOf(r)} \cup (IF r.route \in Introductions THEN RosterDirs(r) ELSE {})
  BY DEF Records
<1>6. Records(r) \in SUBSET Touchable
  BY <1>2, <1>3, <1>5 DEF Touchable
<1>7. Records(r) \subseteq {WhoseFor(r, site.auth)} \cup Further(r)
  BY <1>2, <1>3, <1>5 DEF Further
<1> QED
  BY <1>1, <1>2, <1>4, <1>5, <1>6, <1>7

\* A record is touched by a request that passed its checks.
LEMMA Touching ==
  ASSUME RequestInv, NEW s \in Slots, Touch(s)
  PROVE  RequestInv'
<1> DEFINE e == slot[s]
           r == e.request
           list == Steps(r.route)
<1>1. Served(s) /\ Step(s) \in {"turn", "write"} /\ UNCHANGED <<site, standing, cache>>
  BY DEF Touch, Kept
<1>2. e \in SlotRecord /\ Going(e, site) /\ Rightful(e, site) /\ Step(s) = list[e.at]
  BY <1>1, UnderWay
<1>3. r # NoOwner /\ r \in Requests
  BY <1>2 DEF Going, SlotRecord
<1>4. PICK whose \in Records(r) : Becomes(s, [e EXCEPT !.touched = @ \cup {whose}])
  BY DEF Touch
<1>5. PICK acted : acted = e.touched \cup {whose}
  OBVIOUS
<1>6. PICK f : f = [e EXCEPT !.touched = acted] /\ Becomes(s, f)
  <2>1. [e EXCEPT !.touched = @ \cup {whose}] = [e EXCEPT !.touched = acted]
    BY <1>5
  <2> QED
    BY <1>4, <2>1
<1>7. acted \in SUBSET Touchable
  BY <1>2, <1>3, <1>5, RecordsFit DEF SlotRecord
<1>8. /\ f \in SlotRecord
      /\ f.request = e.request /\ f.at = e.at /\ f.out = e.out /\ f.opened = e.opened /\ f.closed = e.closed
      /\ f.touched = acted /\ f.told = e.told
  BY <1>2, <1>6, <1>7 DEF SlotRecord
<1>9. site.enabled /\ Lawful(r, site.auth) /\ (site.auth => OwnerOf(r) # NoOwner)
  <2>1. /\ e.at \in 1..Len(list)
        /\ Past(list, e.at, "enabled") => site.enabled
        /\ Past(list, e.at, "owner") \/ Past(list, e.at, "ownerIfAny") => Lawful(r, site.auth)
    BY <1>2 DEF Going
  <2>2. WellOrdered(list)
    BY StepsOrdered
  <2>3. list[e.at] \in {"turn", "write"}
    BY <1>1, <1>2
  <2> HIDE DEF list
  <2>4. site.enabled /\ Lawful(r, site.auth)
    BY <2>1, <2>2, <2>3 DEF WellOrdered
  <2> QED
    BY <2>4 DEF Lawful, OwnerOf
<1>10. /\ acted \subseteq {WhoseFor(r, site.auth)} \cup Further(r)
       /\ "shared" \in acted => ~site.auth \/ r.peer = NoOwner
  <2>1. /\ whose \in {WhoseFor(r, site.auth)} \cup Further(r)
        /\ whose = "shared" => ~site.auth \/ r.peer = NoOwner
    BY <1>3, <1>4, <1>9, RecordsFit
  <2>2. /\ e.touched \subseteq {WhoseFor(r, site.auth)} \cup Further(r)
        /\ "shared" \in e.touched => ~site.auth \/ r.peer = NoOwner
    BY <1>2 DEF Rightful
  <2> QED
    BY <1>5, <2>1, <2>2
<1>11. Rightful(f, site)
  BY <1>2, <1>8, <1>9, <1>10 DEF Rightful
<1>12. Going(f, site)
  BY <1>2, <1>8 DEF Going
<1>13. Sound(f, site)
  BY <1>8, <1>11, <1>12 DEF Sound
<1> QED
  BY <1>1, <1>6, <1>13, Changed DEF RequestInv

\* A streamed turn is under way once the head is sent.
LEMMA StreamTurns ==
  \A i \in 1..Len(Steps("stream")) : Steps("stream")[i] = "turn" => Past(Steps("stream"), i, "head")
BY DEF Steps, StreamSteps, Introductions, Past

\* An event and the end.
LEMMA TailIn ==
  ASSUME NEW what \in Events
  PROVE  <<what, "end">> \in Seq(Events)
<1>1. PICK b \in Events : b = "end"
  BY DEF Events
<1>2. PICK pair : pair = <<what, b>>
  OBVIOUS
<1>3. pair \in Seq(Events)
  BY ONLY <1>2, what \in Events, b \in Events
<1> QED
  BY <1>1, <1>2, <1>3

LEMMA Reporting ==
  ASSUME RequestInv, NEW s \in Slots, Report(s)
  PROVE  RequestInv'
<1> DEFINE e == slot[s]
           f == [e EXCEPT !.out = Append(@, "status")]
           list == Steps(e.request.route)
<1>1. /\ Served(s) /\ Step(s) = "turn" /\ e.request.route = "stream" /\ "status" \notin ToSet(e.out)
      /\ Becomes(s, f) /\ UNCHANGED <<site, standing, cache>>
  BY DEF Report, Kept
<1>2. e \in SlotRecord /\ Going(e, site) /\ Rightful(e, site) /\ Step(s) = list[e.at]
  BY <1>1, UnderWay
<1>3. Past(list, e.at, "head")
  <2>1. list = Steps("stream") /\ e.at \in 1..Len(list) /\ list[e.at] = "turn"
    BY <1>1, <1>2 DEF Going
  <2> QED
    BY <2>1, StreamTurns
<1>4. Began(e.out)
  BY <1>2, <1>3 DEF Going
<1>5. f.out = Append(e.out, "status")
  BY <1>2 DEF SlotRecord
<1>6. Began(f.out)
  BY <1>1, <1>4, <1>5, Reports
<1>7. /\ f \in SlotRecord
      /\ f.request = e.request /\ f.at = e.at /\ f.opened = e.opened /\ f.closed = e.closed
      /\ f.touched = e.touched /\ f.told = e.told
  BY <1>2, <1>6 DEF SlotRecord, Began
<1> HIDE DEF f
<1>8. f.out # <<>>
  BY <1>6 DEF Began
<1>9. Sound(f, site)
  BY <1>2, <1>3, <1>6, <1>7, <1>8 DEF Sound, Going, Rightful
<1> QED
  BY <1>1, <1>9, Changed DEF RequestInv

LEMMA Opening ==
  ASSUME RequestInv, NEW s \in Slots, Open(s)
  PROVE  RequestInv'
<1>1. /\ Served(s) /\ Step(s) = "open" /\ UNCHANGED <<site, standing, cache>>
      /\ Becomes(s, [Next1(s) EXCEPT !.opened = @ + 1])
  BY DEF Open, Kept
<1>2. slot[s] \in SlotRecord /\ Rightful(slot[s], site)
  BY <1>1, UnderWay
<1>3. PICK h : h = [slot[s] EXCEPT !.at = @ + 1]
  OBVIOUS
<1>4. PICK f : f = [h EXCEPT !.opened = @ + 1]
  OBVIOUS
<1>5. Becomes(s, f)
  BY <1>1, <1>3, <1>4 DEF Next1
<1>6. /\ h \in SlotRecord
      /\ h.request = slot[s].request /\ h.at = slot[s].at + 1 /\ h.out = slot[s].out
      /\ h.opened = slot[s].opened /\ h.closed = slot[s].closed
      /\ h.touched = slot[s].touched /\ h.told = slot[s].told
  BY <1>2, <1>3, MovedOn
<1>7. /\ f \in SlotRecord
      /\ f.request = h.request /\ f.at = h.at /\ f.out = h.out /\ f.opened = h.opened + 1 /\ f.closed = h.closed
      /\ f.touched = h.touched /\ f.told = h.told
  BY ONLY <1>4, <1>6 DEF SlotRecord
<1>8. Rightful(f, site)
  BY <1>2, <1>6, <1>7 DEF Rightful
<1> QED
  BY <1>1, <1>5, <1>6, <1>7, <1>8, Moving DEF RequestInv

LEMMA Closing ==
  ASSUME RequestInv, NEW s \in Slots, Close(s)
  PROVE  RequestInv'
<1>1. /\ Served(s) /\ Step(s) = "close" /\ UNCHANGED <<site, standing, cache>>
      /\ Becomes(s, [Next1(s) EXCEPT !.closed = @ + 1])
  BY DEF Close, Kept
<1>2. slot[s] \in SlotRecord /\ Rightful(slot[s], site)
  BY <1>1, UnderWay
<1>3. PICK h : h = [slot[s] EXCEPT !.at = @ + 1]
  OBVIOUS
<1>4. PICK f : f = [h EXCEPT !.closed = @ + 1]
  OBVIOUS
<1>5. Becomes(s, f)
  BY <1>1, <1>3, <1>4 DEF Next1
<1>6. /\ h \in SlotRecord
      /\ h.request = slot[s].request /\ h.at = slot[s].at + 1 /\ h.out = slot[s].out
      /\ h.opened = slot[s].opened /\ h.closed = slot[s].closed
      /\ h.touched = slot[s].touched /\ h.told = slot[s].told
  BY <1>2, <1>3, MovedOn
<1>7. /\ f \in SlotRecord
      /\ f.request = h.request /\ f.at = h.at /\ f.out = h.out /\ f.opened = h.opened /\ f.closed = h.closed + 1
      /\ f.touched = h.touched /\ f.told = h.told
  BY ONLY <1>4, <1>6 DEF SlotRecord
<1>8. Rightful(f, site)
  BY <1>2, <1>6, <1>7 DEF Rightful
<1> QED
  BY <1>1, <1>5, <1>6, <1>7, <1>8, Moving DEF RequestInv

LEMMA Discovering ==
  ASSUME RequestInv, NEW s \in Slots, Discover(s)
  PROVE  RequestInv'
<1>1. /\ Served(s) /\ Step(s) = "discover" /\ UNCHANGED <<site, standing, cache>>
  BY DEF Discover, Kept
<1>2. PICK hired \in {"one", "none", "many"} : Becomes(s, [Next1(s) EXCEPT !.hired = hired])
  BY DEF Discover
<1>3. slot[s] \in SlotRecord /\ Rightful(slot[s], site)
  BY <1>1, UnderWay
<1>4. PICK h : h = [slot[s] EXCEPT !.at = @ + 1]
  OBVIOUS
<1>5. PICK f : f = [h EXCEPT !.hired = hired]
  OBVIOUS
<1>6. Becomes(s, f)
  BY <1>2, <1>4, <1>5 DEF Next1
<1>7. /\ h \in SlotRecord
      /\ h.request = slot[s].request /\ h.at = slot[s].at + 1 /\ h.out = slot[s].out
      /\ h.opened = slot[s].opened /\ h.closed = slot[s].closed
      /\ h.touched = slot[s].touched /\ h.told = slot[s].told
  BY <1>3, <1>4, MovedOn
<1>8. /\ f \in SlotRecord
      /\ f.request = h.request /\ f.at = h.at /\ f.out = h.out /\ f.opened = h.opened /\ f.closed = h.closed
      /\ f.touched = h.touched /\ f.told = h.told
  BY <1>5, <1>7 DEF SlotRecord
<1>9. Rightful(f, site)
  BY <1>3, <1>7, <1>8 DEF Rightful
<1> QED
  BY <1>1, <1>6, <1>7, <1>8, <1>9, Moving DEF RequestInv

LEMMA Hiring ==
  ASSUME RequestInv, NEW s \in Slots, Served(s), Step(s) \in {"hire", "work", "try", "fetch"},
         Becomes(s, Next1(s)), UNCHANGED <<site, standing, cache>>
  PROVE  RequestInv'
<1>1. slot[s] \in SlotRecord /\ Rightful(slot[s], site)
  BY UnderWay
<1>2. PICK h : h = [slot[s] EXCEPT !.at = @ + 1]
  OBVIOUS
<1>3. Becomes(s, h)
  BY <1>2 DEF Next1
<1>4. /\ h \in SlotRecord
      /\ h.request = slot[s].request /\ h.at = slot[s].at + 1 /\ h.out = slot[s].out
      /\ h.opened = slot[s].opened /\ h.closed = slot[s].closed
      /\ h.touched = slot[s].touched /\ h.told = slot[s].told
  BY <1>1, <1>2, MovedOn
<1>5. Rightful(h, site)
  BY <1>1, <1>4 DEF Rightful
<1> QED
  BY <1>3, <1>4, <1>5, Moving DEF RequestInv

LEMMA Replying ==
  ASSUME RequestInv, NEW s \in Slots, Reply(s)
  PROVE  RequestInv'
<1> DEFINE e == slot[s]
<1>1. Served(s) /\ UNCHANGED <<site, standing, cache>>
  BY DEF Reply, Kept
<1>2. /\ e \in SlotRecord /\ Going(e, site) /\ Rightful(e, site)
      /\ Step(s) = Steps(e.request.route)[e.at] /\ e.out \in Seq(Events)
  BY <1>1, UnderWay DEF SlotRecord
<1>3. CASE Step(s) \in {"try", "fetch"} /\ Becomes(s, Next1(s))
  BY <1>1, <1>3, Hiring
<1>4. CASE Step(s) = "head" /\ Becomes(s, [Next1(s) EXCEPT !.out = Append(@, "head"), !.status = 200])
  <2>1. PICK h : h = [e EXCEPT !.at = @ + 1]
    OBVIOUS
  <2>2. /\ h \in SlotRecord
        /\ h.request = e.request /\ h.at = e.at + 1 /\ h.out = e.out /\ h.opened = e.opened /\ h.closed = e.closed
        /\ h.touched = e.touched /\ h.told = e.told
    BY <1>2, <2>1, MovedOn
  <2>3. e.out = <<>>
    <3> DEFINE list == Steps(e.request.route)
    <3>1. WellOrdered(list)
      BY StepsOrdered
    <3>2. e.at \in 1..Len(list) /\ list[e.at] = "head" /\ (e.out = <<>> <=> ~Past(list, e.at, "head"))
      BY <1>2, <1>4 DEF Going
    <3> HIDE DEF list
    <3> QED
      BY <3>1, <3>2 DEF WellOrdered
  <2>4. PICK begun : begun = Append(e.out, "head")
    OBVIOUS
  <2>5. Began(begun) /\ begun \in Seq(Events)
    BY <2>3, <2>4, Begins DEF Began
  <2>6. PICK f : f = [h EXCEPT !.out = begun, !.status = 200]
    OBVIOUS
  <2>7. /\ f \in SlotRecord
        /\ f.request = h.request /\ f.at = h.at /\ f.out = begun /\ f.opened = h.opened /\ f.closed = h.closed
        /\ f.touched = h.touched /\ f.told = h.told
    <3>1. PICK g : g = [h EXCEPT !.out = begun]
      OBVIOUS
    <3>2. /\ g \in SlotRecord
          /\ g.request = h.request /\ g.at = h.at /\ g.out = begun /\ g.opened = h.opened /\ g.closed = h.closed
          /\ g.touched = h.touched /\ g.told = h.told
      BY ONLY <2>2, <2>5, <3>1 DEF SlotRecord
    <3>3. PICK code : code = 200
      OBVIOUS
    <3>4. f = [g EXCEPT !.status = code] /\ code \in Nat
      BY <2>6, <3>1, <3>3
    <3> QED
      BY ONLY <3>2, <3>4 DEF SlotRecord
  <2>8. Becomes(s, f)
    BY <1>4, <2>1, <2>2, <2>4, <2>6 DEF Next1
  <2>9. Rightful(f, site)
    BY <1>2, <2>2, <2>7 DEF Rightful
  <2> QED
    BY <1>1, <1>4, <2>2, <2>5, <2>7, <2>8, <2>9, Moving DEF RequestInv
<1>5. CASE Step(s) = "json" /\ Becomes(s, [e EXCEPT !.out = @ \o <<"head", "end">>, !.status = 200])
  <2>1. PICK tail \in Seq(Events) : tail = <<"head", "end">>
    <3>1. PICK what \in Events : what = "head"
      BY DEF Events
    <3> QED
      BY <3>1, TailIn
  <2>2. PICK f : f = [e EXCEPT !.out = @ \o tail, !.status = 200]
    OBVIOUS
  <2>3. Becomes(s, f)
    BY <1>5, <2>1, <2>2
  <2>4. e.out \o tail \in Seq(Events)
    BY <1>2, ConcatProperties
  <2>5. /\ f \in SlotRecord
        /\ f.request = e.request /\ f.out = e.out \o tail /\ f.opened = e.opened /\ f.closed = e.closed
        /\ f.touched = e.touched /\ f.told = e.told
    <3>1. PICK out : out = e.out \o tail
      OBVIOUS
    <3>2. PICK g : g = [e EXCEPT !.out = out]
      OBVIOUS
    <3>3. /\ g \in SlotRecord
          /\ g.request = e.request /\ g.at = e.at /\ g.out = out /\ g.opened = e.opened /\ g.closed = e.closed
          /\ g.touched = e.touched /\ g.told = e.told
      BY ONLY <1>2, <2>4, <3>1, <3>2 DEF SlotRecord
    <3>4. PICK code : code = 200
      OBVIOUS
    <3>5. f = [g EXCEPT !.status = code] /\ code \in Nat
      BY <2>2, <3>1, <3>2, <3>4
    <3>6. /\ f \in SlotRecord
          /\ f.request = g.request /\ f.at = g.at /\ f.out = g.out /\ f.opened = g.opened /\ f.closed = g.closed
          /\ f.touched = g.touched /\ f.told = g.told
      BY ONLY <3>3, <3>5 DEF SlotRecord
    <3> QED
      BY <3>1, <3>3, <3>6
  <2>6. Sound(f, site)
    BY <1>1, <1>5, <2>1, <2>5, Finishing
  <2> QED
    BY <1>1, <2>3, <2>6, Changed DEF RequestInv
<1>6. CASE Step(s) = "final" /\ Becomes(s, [e EXCEPT !.out = @ \o <<"final", "end">>])
  <2>1. PICK tail \in Seq(Events) : tail = <<"final", "end">>
    <3>1. PICK what \in Events : what = "final"
      BY DEF Events
    <3> QED
      BY <3>1, TailIn
  <2>2. PICK f : f = [e EXCEPT !.out = @ \o tail]
    OBVIOUS
  <2>3. Becomes(s, f)
    BY <1>6, <2>1, <2>2
  <2>4. e.out \o tail \in Seq(Events)
    BY <1>2, ConcatProperties
  <2>5. /\ f \in SlotRecord
        /\ f.request = e.request /\ f.out = e.out \o tail /\ f.opened = e.opened /\ f.closed = e.closed
        /\ f.touched = e.touched /\ f.told = e.told
    BY ONLY <1>2, <2>2, <2>4 DEF SlotRecord
  <2>6. Sound(f, site)
    BY <1>1, <1>6, <2>1, <2>5, Finishing
  <2> QED
    BY <1>1, <2>3, <2>6, Changed DEF RequestInv
<1>7. CASE Step(s) = "chunks" /\ Becomes(s, [e EXCEPT !.out = @ \o <<"chunk", "end">>])
  <2>1. PICK tail \in Seq(Events) : tail = <<"chunk", "end">>
    <3>1. PICK what \in Events : what = "chunk"
      BY DEF Events
    <3> QED
      BY <3>1, TailIn
  <2>2. PICK f : f = [e EXCEPT !.out = @ \o tail]
    OBVIOUS
  <2>3. Becomes(s, f)
    BY <1>7, <2>1, <2>2
  <2>4. e.out \o tail \in Seq(Events)
    BY <1>2, ConcatProperties
  <2>5. /\ f \in SlotRecord
        /\ f.request = e.request /\ f.out = e.out \o tail /\ f.opened = e.opened /\ f.closed = e.closed
        /\ f.touched = e.touched /\ f.told = e.told
    BY ONLY <1>2, <2>2, <2>4 DEF SlotRecord
  <2>6. Sound(f, site)
    BY <1>1, <1>7, <2>1, <2>5, Finishing
  <2> QED
    BY <1>1, <2>3, <2>6, Changed DEF RequestInv
<1> QED
  BY <1>3, <1>4, <1>5, <1>6, <1>7 DEF Reply

\* Whom identity names, where the bridge authenticates nobody.
LEMMA IdentityNames ==
  ASSUME NEW r \in Requests, Standing = Bindings(standing), standing \in Rosters
  PROVE  /\ Identity(r) \in Names
         /\ ~site.auth /\ Identity(r) # "key" => Identity(r) \in Bindings(standing).owners
<1> DEFINE owners == {standing[n][1] : n \in 1..Len(standing)}
<1>1. Len(standing) \in Nat
  BY RequestAssumption
<1>2. Bindings(standing).owners = owners
  BY DEF Bindings
<1>3. IsFiniteSet(owners)
  <2> DEFINE f == [n \in 1..Len(standing) |-> standing[n][1]]
  <2>1. f \in Surjection(1..Len(standing), owners)
    BY DEF Surjection
  <2>2. IsFiniteSet(1..Len(standing))
    BY <1>1, FS_Interval
  <2> QED
    BY ONLY <2>1, <2>2, FS_Surjection
<1> HIDE DEF owners
<1>4. CASE site.auth
  BY <1>4 DEF Identity, Names
<1>5. CASE ~site.auth /\ r.host \in DOMAIN Standing.owner
  <2>1. Identity(r) = Bindings(standing).owner[r.host]
    BY <1>5 DEF Identity
  <2>2. Identity(r) \in Bindings(standing).owners
    BY <1>1, <1>5, <2>1, BoundOwner
  <2> QED
    BY <2>2 DEF Names
<1>6. CASE ~site.auth /\ r.host \notin DOMAIN Standing.owner /\ Preferred \in Standing.owners
  BY <1>6 DEF Identity, Names
<1>7. CASE /\ ~site.auth /\ r.host \notin DOMAIN Standing.owner /\ Preferred \notin Standing.owners
           /\ Cardinality(Standing.owners) = 1
  <2>1. PICK o : Standing.owners = {o}
    BY <1>2, <1>3, <1>7, FS_Singleton
  <2>2. Identity(r) = CHOOSE x \in Standing.owners : TRUE
    BY <1>7 DEF Identity
  <2>3. Identity(r) \in Bindings(standing).owners
    BY <2>1, <2>2
  <2> QED
    BY <1>7, <2>3 DEF Names
<1>8. CASE /\ ~site.auth /\ r.host \notin DOMAIN Standing.owner /\ Preferred \notin Standing.owners
           /\ Cardinality(Standing.owners) # 1
  <2>1. Identity(r) = "key"
    BY <1>8 DEF Identity
  <2> QED
    BY <2>1 DEF Names
<1> QED
  BY <1>4, <1>5, <1>6, <1>7, <1>8

\* What the file said is parsed again when it changed.
LEMMA Reading ==
  ASSUME RequestInv
  PROVE  Standing = Bindings(standing) /\ (cache' = Remembered => cache'.bindings = Bindings(cache'.text))
BY DEF RequestInv, Standing, Remembered

LEMMA Telling ==
  ASSUME RequestInv, NEW s \in Slots, TellIdentity(s)
  PROVE  RequestInv'
<1> DEFINE e == slot[s]
           r == e.request
           refusal == Refusals(r).identity
<1>1. /\ Served(s) /\ Step(s) = "identity" /\ UNCHANGED <<site, standing>> /\ cache' = Remembered
      /\ IF refusal = 0 THEN Becomes(s, [Next1(s) EXCEPT !.told = <<Identity(r), standing>>])
         ELSE Fail(s, refusal)
  BY DEF TellIdentity, Kept
<1>2. e \in SlotRecord /\ Going(e, site) /\ Rightful(e, site) /\ standing \in Rosters
  BY <1>1, UnderWay DEF RequestInv
<1>3. r \in Requests
  BY <1>2 DEF Going, SlotRecord
<1>4. Standing = Bindings(standing) /\ cache'.bindings = Bindings(cache'.text)
  BY <1>1, Reading
<1>5. refusal \in {0, 401}
  BY DEF Refusals
<1>6. CASE refusal # 0
  <2>1. Step(s) # "try" /\ refusal \in Nat /\ refusal # 200
    BY <1>1, <1>5, <1>6
  <2>2. \E f : Sound(f, site) /\ Becomes(s, f)
    BY <1>1, <1>6, <2>1, Failing
  <2> QED
    BY <1>1, <1>4, <2>2, Changed
<1>7. CASE refusal = 0
  <2>1. PICK who \in Names : who = Identity(r)
    BY <1>2, <1>3, <1>4, IdentityNames
  <2>2. PICK told \in Names \X Rosters : told = <<who, standing>>
    BY <1>2
  <2>3. PICK h : h = [e EXCEPT !.at = @ + 1]
    OBVIOUS
  <2>4. /\ h \in SlotRecord
        /\ h.request = e.request /\ h.at = e.at + 1 /\ h.out = e.out /\ h.opened = e.opened /\ h.closed = e.closed
        /\ h.touched = e.touched
    BY <1>2, <2>3, MovedOn
  <2>5. PICK f : f = [h EXCEPT !.told = told]
    OBVIOUS
  <2>6. Becomes(s, f)
    <3>1. Next1(s) = h
      BY <2>3 DEF Next1
    <3> QED
      BY <1>1, <1>7, <2>1, <2>2, <2>5, <3>1
  <2>7. /\ f \in SlotRecord
        /\ f.request = h.request /\ f.at = h.at /\ f.out = h.out /\ f.opened = h.opened /\ f.closed = h.closed
        /\ f.touched = h.touched /\ f.told = told
    BY ONLY <2>2, <2>4, <2>5 DEF SlotRecord
  <2>8. f.told[1] = Identity(r) /\ f.told[2] = standing
    BY <2>1, <2>2, <2>7
  <2>9. ~site.auth /\ f.told[1] # "key" => f.told[1] \in Bindings(f.told[2]).owners
    BY <1>2, <1>3, <1>4, <2>8, IdentityNames
  <2>10. Rightful(f, site)
    BY <1>2, <2>4, <2>7, <2>9 DEF Rightful
  <2> QED
    BY <1>1, <1>4, <2>4, <2>6, <2>7, <2>10, Moving
<1> QED
  BY <1>6, <1>7

LEMMA RequestStep == RequestInv /\ [RequestsNext]_requestVars => RequestInv'
<1> SUFFICES ASSUME RequestInv, [RequestsNext]_requestVars PROVE RequestInv'
  OBVIOUS
<1>1. ASSUME NEW s \in Slots, Handle(s) PROVE RequestInv'
  <2>1. CASE Hire(s)
    BY <2>1, Hiring DEF Hire, Kept
  <2> QED
    BY <1>1, <2>1, Checking, StepFailing, Touching, Acting, Reporting, Opening, Discovering, Closing, Telling, Replying
       DEF Handle
<1>2. ASSUME NEW s \in Slots, NEW r \in Requests, Arrive(s, r) PROVE RequestInv'
  BY <1>2, Arriving
<1>3. ASSUME UNCHANGED <<site, slot, cache>>, standing' \in Rosters PROVE RequestInv'
  <2>1. ASSUME NEW x \in Slots PROVE Sound(slot[x], site)'
    BY <1>3 DEF RequestInv, Sound, Going, Gone, Rightful, Lawful
  <2> QED
    BY <1>3, <2>1 DEF RequestInv, SlotRecord
<1>4. CASE Tick
  BY <1>3, <1>4 DEF Tick, RequestInv
<1>5. CASE EditStanding
  BY <1>3, <1>5 DEF EditStanding
<1>6. CASE UNCHANGED requestVars
  BY <1>3, <1>6 DEF requestVars, RequestInv
<1> QED
  BY <1>1, <1>2, <1>4, <1>5, <1>6 DEF RequestsNext

LEMMA AnswersFit == RequestInv => AnsweredOnce
<1> SUFFICES ASSUME RequestInv, NEW s \in Slots
             PROVE  /\ Times(s, "head") <= 1 /\ Times(s, "end") <= 1
                    /\ slot[s].out # <<>> => slot[s].out[1] = "head"
                    /\ Ended(s) =>
                         /\ Last(slot[s].out) = "end" /\ slot[s].opened = slot[s].closed
                         /\ slot[s].request.route = "stream" /\ slot[s].status = 200 =>
                              Times(s, "final") + Times(s, "error") = 1
  BY DEF AnsweredOnce
<1> DEFINE e == slot[s]
<1>1. \A x : Times(s, x) = Count(e.out, x)
  BY DEF Times, Count
<1>2. Sound(e, site)
  BY DEF RequestInv
<1>3. CASE Gone(e)
  <2>1. Ending(e.out) /\ e.opened = e.closed /\ (e.request.route = "stream" /\ e.status = 200 => Outcome(e.out))
    BY <1>3 DEF Gone
  <2>2. Last(e.out) = "end" /\ e.out[1] = "head"
    BY <2>1 DEF Ending, Last
  <2>3. Count(e.out, "head") = 1 /\ Count(e.out, "end") = 1
    BY <2>1, EndingCounts
  <2>4. Outcome(e.out) => Count(e.out, "final") + Count(e.out, "error") = 1
    BY <2>1, OutcomeCounts
  <2> QED
    BY <1>1, <2>1, <2>2, <2>3, <2>4
<1>4. CASE ~Gone(e)
  <2>1. (e.request = NoOwner /\ e.out = <<>>) \/ Going(e, site)
    BY <1>2, <1>4 DEF Sound
  <2>2. e.out = <<>> \/ Began(e.out)
    BY <2>1 DEF Going
  <2>3. Count(e.out, "head") <= 1 /\ Count(e.out, "end") <= 1 /\ (e.out # <<>> => e.out[1] = "head")
    BY <2>2, BeganCounts
  <2>4. ~Ended(s)
    BY <2>1, <2>2, BeganOpen DEF Ended, Served
  <2> QED
    BY <1>1, <2>3, <2>4
<1> QED
  BY <1>3, <1>4

LEMMA OwnersFit == RequestInv => ActsForTheOwner
BY DEF RequestInv, Sound, Rightful, Lawful, WhoseFor, Further, OwnerOf, ActsForTheOwner

-----------------------------------------------------------------------------
\* Every request is answered once, with a head first and an end last, a streamed
\* turn with one outcome, and with its session closed: for any number of clients, any
\* settings of the bridge and any failures.
THEOREM RequestsAnsweredOnce == RequestsInit /\ [][RequestsNext]_requestVars => []AnsweredOnce
BY RequestStarts, RequestStep, AnswersFit, PTL

\* A client gets at most twice its limit through in any stretch of one window's length,
\* and what a request touches is its owner's, or the other side of an introduction as
\* its body names it: for every limit, window and table size.
THEOREM RequestsLimited == RequestsInit /\ [][RequestsNext]_requestVars => []LimitHolds
<1>1. LimitInv /\ RequestInv => LimitHolds
  BY LimitFits, OwnersFit DEF LimitHolds
<1> QED
  BY <1>1, LimitStarts, LimitStep, RequestStarts, RequestStep, PTL

-----------------------------------------------------------------------------
(***************************************************************************)
(* IntentRouting.                                                          *)
(***************************************************************************)

\* A classification within the taxonomy.
Proper(c) == <<c.intent, c.route, c.tag>> \in Taxonomy

\* A classification of an intent is in the taxonomy.
LEMMA ClassifiedFits ==
  ASSUME NEW i \in Intents, NEW p, NEW k, NEW c, c = Classified(i, p, k)
  PROVE  /\ Proper(c) /\ c.intent = i /\ c.route = IntentRoute(i)
         /\ c.person = p /\ c.confidence = k
<1>1. Proper(c)
  BY DEF Classified, Proper, Taxonomy
<1>2. c.intent = i /\ c.route = IntentRoute(i)
  BY DEF Classified
<1>3. c.person = p /\ c.confidence = k
  BY DEF Classified
<1> QED
  BY <1>1, <1>2, <1>3

\* So is a certain one.
LEMMA CertainFits ==
  ASSUME NEW i \in Intents, NEW p, NEW c, c = Classified(i, p, 10)
  PROVE  /\ Proper(c) /\ c.intent = i /\ c.route = IntentRoute(i)
         /\ c.person = p /\ c.confidence = 10
<1>1. Proper(c)
  BY DEF Classified, Proper, Taxonomy
<1>2. c.intent = i /\ c.route = IntentRoute(i)
  BY DEF Classified
<1>3. c.person = p /\ c.confidence = 10
  BY DEF Classified
<1> QED
  BY <1>1, <1>2, <1>3

\* The intents a path's list may end in.
Listing(route) ==
  IF route = "gateway" THEN {"summarize", "chat"}
  ELSE IF route = "specialist" THEN {"use-specialist", "tone-analysis", "catalog-discovery"}
  ELSE {"coordinate-meeting", "create-image", "describe-image", "identity", "transcribe-audio",
        "narrate-text", "draft-email", "read-email", "book-event", "check-availability"}

\* They take that path.
LEMMA ListingFits ==
  ASSUME NEW route \in {"gateway", "specialist", "assistant"}, NEW intent \in Listing(route)
  PROVE  intent \in Intents /\ IntentRoute(intent) = route
BY DEF Listing, IntentRoute, Intents, AssistantIntents, SpecialistIntents, GatewayIntents

LEMMA OrderFits ==
  ASSUME NEW route \in {"gateway", "specialist", "assistant"}
  PROVE  /\ Len(Order(route)) \in Nat \ {0}
         /\ \A n \in 1 .. Len(Order(route)) : Order(route)[n][2] \in Listing(route)
<1>1. CASE route = "gateway"
  <2>1. Len(Order(route)) = 2
    BY <1>1 DEF Order
  <2>2. \A n \in 1 .. 2 : Order(route)[n][2] \in Listing(route)
    BY <1>1 DEF Order, Listing
  <2> QED
    BY <2>1, <2>2
<1>2. CASE route = "specialist"
  <2>1. Len(Order(route)) = 3
    BY <1>2 DEF Order
  <2>2. \A n \in 1 .. 3 : Order(route)[n][2] \in Listing(route)
    BY <1>2 DEF Order, Listing
  <2> QED
    BY <2>1, <2>2
<1>3. CASE route = "assistant"
  <2>1. Len(Order(route)) = 12
    BY <1>3 DEF Order
  <2>2. \A n \in 1 .. 12 : Order(route)[n][2] \in Listing(route)
    BY <1>3 DEF Order, Listing
  <2> QED
    BY <2>1, <2>2
<1> QED
  BY <1>1, <1>2, <1>3

\* What the detectors say is a classification on the path they choose.
LEMMA MirrorIs ==
  ASSUME NEW text, NEW context
  PROVE  \E intent \in Intents :
           /\ Mirror(text, context) = Classified(intent, Reference(text), 10)
           /\ IntentRoute(intent) = TurnRoute(text)
<1> DEFINE route == TurnRoute(text)
           list == Order(route)
           heard == text \cup (IF context.image THEN {"image"} ELSE {})
           fits(n) == /\ list[n][1] \cap heard # {} \/ n = Len(list)
                      /\ \A b \in 1..(n - 1) : list[b][1] \cap heard = {}
           S == {n \in 1 .. Len(list) : list[n][1] \cap heard # {} \/ n = Len(list)}
<1>1. route \in {"gateway", "specialist", "assistant"}
  BY DEF TurnRoute
<1>2. Len(list) \in Nat \ {0}
  BY <1>1, OrderFits
<1>3. \E n \in 1 .. Len(list) : fits(n)
  <2> HIDE DEF list, heard
  <2>1. S \subseteq Nat /\ Len(list) \in S
    BY <1>2
  <2>2. PICK n \in S : \A m \in S : n <= m
    BY <2>1, Least
  <2>3. \A b \in 1 .. (n - 1) : b \notin S
    BY <2>1, <2>2
  <2> QED
    BY <1>2, <2>2, <2>3
<1> DEFINE first == CHOOSE n \in 1 .. Len(list) : fits(n)
<1>4. first \in 1 .. Len(list)
  <2> HIDE DEF fits, list
  <2> QED
    BY <1>3
<1>5. DeterministicIntent(text, route, context) = list[first][2]
  BY DEF DeterministicIntent
<1>6. list[first][2] \in Intents /\ IntentRoute(list[first][2]) = route
  <2> HIDE DEF first
  <2> QED
    <3> DEFINE intent == list[first][2]
    <3>1. intent \in Listing(route)
      BY <1>1, <1>4, OrderFits
    <3> QED
      BY <1>1, <3>1, ListingFits
<1>7. PICK intent \in Intents :
        /\ Mirror(text, context) = Classified(intent, Reference(text), 10)
        /\ IntentRoute(intent) = route
  <2> HIDE DEF first, list
  <2> QED
    BY <1>5, <1>6 DEF Mirror
<1> QED
  BY <1>7

LEMMA MirrorFits ==
  ASSUME NEW text, NEW context, NEW c, c = Mirror(text, context)
  PROVE  /\ Proper(c) /\ c.route = TurnRoute(text)
         /\ c.person = Reference(text) /\ c.confidence = 10
<1>1. PICK intent \in Intents :
        c = Classified(intent, Reference(text), 10) /\ IntentRoute(intent) = TurnRoute(text)
  BY MirrorIs
<1>2. Proper(c) /\ c.route = IntentRoute(intent) /\ c.person = Reference(text) /\ c.confidence = 10
  BY <1>1, CertainFits
<1> QED
  BY <1>1, <1>2


\* The invariant: what is settled is as told, and the model is only asked where no
\* fact decides.
RoutingInv ==
  /\ RoutedAsTold
  /\ stage \in {"new", "asked", "settled"}
  /\ stage = "asked" \/ calling = TRUE => Shortcuts(words, facts) = {}
  /\ calling = TRUE => stage # "new"
  /\ calling \in BOOLEAN

\* The classification c, got this way, is as told.
Told(c, how) ==
  /\ Proper(c)
  /\ c.confidence \in MinConfidence .. 10
  /\ how # "model" => c.person \in {"", Reference(words)}
  /\ c.person = "handle" => how # "model" /\ {"coordinate", "pa"} \subseteq words
  /\ how = "deterministic" => c.route = TurnRoute(words)
  /\ "token" \in words => c.route = "assistant"
  /\ facts.pick /\ "token" \notin words => c.intent = "use-specialist"
  /\ how = "model" => Shortcuts(words, facts) = {}

LEMMA SettledAsTold ==
  ASSUME NEW c, NEW how, Told(c, how), Settle(c, how), UNCHANGED <<words, facts>>
  PROVE  RoutedAsTold'
<1>1. Told(said', source')
  BY DEF Settle
<1>2. /\ <<said'.intent, said'.route, said'.tag>> \in Taxonomy
      /\ said'.confidence \in MinConfidence .. 10
      /\ source' # "model" => said'.person \in {"", Reference(words)}
      /\ said'.person = "handle" => source' # "model" /\ {"coordinate", "pa"} \subseteq words
  BY <1>1 DEF Told, Proper
<1>6. Reference(words)' = Reference(words)
  BY DEF Reference
<1>3. source' = "deterministic" => said'.route = TurnRoute(words')
  BY <1>1 DEF Told
<1>4. /\ "token" \in words' => said'.route = "assistant"
      /\ facts'.pick /\ "token" \notin words' => said'.intent = "use-specialist"
  BY <1>1 DEF Told
<1>5. source' = "model" => Shortcuts(words', facts') = {}
  BY <1>1 DEF Told
<1> QED
  BY <1>2, <1>3, <1>4, <1>5, <1>6 DEF RoutedAsTold

LEMMA RoutingStarts == RoutingInit => RoutingInv
BY DEF RoutingInit, RoutingInv, RoutedAsTold

\* A handle among the typed words.
LEMMA HandleTyped ==
  ASSUME Reference(words) = "handle"
  PROVE  {"coordinate", "pa"} \subseteq words
BY DEF Reference

\* A turn settled by the detectors.
LEMMA SettledByWords ==
  ASSUME RoutingInv, Settle(Mirror(words, facts), "deterministic"), UNCHANGED <<words, facts>>,
         Shortcuts(words, facts) = {}
  PROVE  RoutedAsTold'
<1>1. "token" \notin words /\ ~facts.pick
  BY DEF Shortcuts
<1>2. PICK c : c = Mirror(words, facts)
  OBVIOUS
<1>3. /\ Proper(c) /\ c.route = TurnRoute(words)
      /\ c.person = Reference(words) /\ c.confidence = 10
  BY <1>2, MirrorFits
<1>4. c.confidence \in MinConfidence .. 10
  BY ONLY <1>3 DEF MinConfidence
<1>5. Told(c, "deterministic")
  BY <1>1, <1>3, <1>4, HandleTyped DEF Told
<1> QED
  BY <1>2, <1>5, SettledAsTold

\* Whom an exact fact names: nobody.
Unnamed == {""}

LEMMA SettledByFacts ==
  ASSUME RoutingInv, TakeShortcut
  PROVE  RoutingInv'
<1>1. PICK c \in Shortcuts(words, facts) : Settle(c, "shortcut")
  BY DEF TakeShortcut
<1>3. {"use-specialist", "describe-image", "transcribe-audio"} \subseteq Intents
  BY DEF Intents, AssistantIntents, SpecialistIntents
<1>4. /\ Proper(c) /\ c.person \in {"", Reference(words)} /\ c.confidence = 10
      /\ "token" \in words => c.route = "assistant"
      /\ facts.pick /\ "token" \notin words => c.intent = "use-specialist"
  <2>1. CASE "token" \in words
    <3>1. c = Mirror(words, facts)
      BY <2>1 DEF Shortcuts
    <3>2. /\ Proper(c) /\ c.route = TurnRoute(words)
          /\ c.person = Reference(words) /\ c.confidence = 10
      BY <3>1, MirrorFits
    <3>3. TurnRoute(words) = "assistant"
      BY <2>1 DEF TurnRoute
    <3> QED
      BY <2>1, <3>2, <3>3
  <2>2. CASE "token" \notin words
    <3>1. PICK intent \in {"use-specialist", "describe-image", "transcribe-audio"}, person \in Unnamed :
            c = Classified(intent, person, 10) /\ (facts.pick => intent = "use-specialist")
      BY <2>2 DEF Shortcuts, Unnamed
    <3>2. Proper(c) /\ c.intent = intent /\ c.person = person /\ c.confidence = 10
      BY <1>3, <3>1, CertainFits
    <3>3. person \in {"", Reference(words)}
      BY ONLY <3>1, Zenon DEF Unnamed
    <3> QED
      BY <2>2, <3>1, <3>2, <3>3
  <2> QED
    BY <2>1, <2>2
<1>5. stage' = "settled" /\ said' = c /\ source' = "shortcut" /\ UNCHANGED <<words, facts, calling>>
  BY <1>1 DEF TakeShortcut, Settle
<1>6. RoutedAsTold'
  <2>1. c.confidence \in MinConfidence .. 10
    <3>1. c.confidence = 10
      BY ONLY <1>4, Zenon
    <3> QED
      BY ONLY <3>1 DEF MinConfidence
  <2>2. c.person = "handle" => {"coordinate", "pa"} \subseteq words
    <3>1. c.person = "handle" => Reference(words) = "handle"
      BY ONLY <1>4, Zenon
    <3> QED
      BY ONLY <3>1, HandleTyped, Zenon
  <2>3. Told(c, "shortcut")
    BY <1>4, <2>1, <2>2 DEF Told
  <2> QED
    BY <1>1, <1>5, <2>3, SettledAsTold
<1> QED
  BY <1>5, <1>6 DEF RoutingInv, TakeShortcut

\* A turn settled by the model.
LEMMA SettledByModel ==
  ASSUME RoutingInv, NEW reply \in Replies, NEW c \in Validated(reply), c.confidence >= MinConfidence,
         Settle(c, "model"), UNCHANGED <<words, facts>>, Shortcuts(words, facts) = {}
  PROVE  RoutedAsTold'
<1>1. "token" \notin words /\ ~facts.pick
  BY DEF Shortcuts
<1>2. reply.intent \in Intents /\ reply.confidence \in Nat
  BY RoutingAssumption DEF Validated
<1>3. c = Classified(reply.intent, IF reply.person = "handle" THEN "" ELSE reply.person,
                     IF reply.confidence > 10 THEN 10 ELSE reply.confidence)
  BY DEF Validated
<1>4. /\ Proper(c) /\ c.person # "handle"
      /\ c.confidence \in MinConfidence .. 10
  <2> DEFINE person == IF reply.person = "handle" THEN "" ELSE reply.person
             confidence == IF reply.confidence > 10 THEN 10 ELSE reply.confidence
  <2>1. reply.intent \in Intents /\ person # "handle" /\ confidence \in Nat /\ confidence <= 10
    BY <1>2
  <2>2. c = Classified(reply.intent, person, confidence)
    BY <1>3
  <2> HIDE DEF person, confidence
  <2>3. Proper(c)
    BY ONLY <2>1, <2>2, ClassifiedFits
  <2>4. c.person = person
    BY ONLY <2>2 DEF Classified
  <2>5. c.confidence = confidence
    BY ONLY <2>2 DEF Classified
  <2>6. c.person # "handle"
    BY <2>1, <2>4
  <2>7. confidence >= MinConfidence
    BY <2>5
  <2>8. confidence \in MinConfidence .. 10
    <3>1. confidence \in Nat /\ confidence <= 10
      BY <2>1
    <3>2. MinConfidence = 5
      BY DEF MinConfidence
    <3> QED
      BY ONLY <2>7, <3>1, <3>2
  <2>9. c.confidence \in MinConfidence .. 10
    BY ONLY <2>5, <2>8
  <2> QED
    BY <2>3, <2>6, <2>9
<1>5. Told(c, "model")
  BY <1>1, <1>4 DEF Told
<1> QED
  BY <1>5, SettledAsTold

LEMMA RoutingStep == RoutingInv /\ [RoutingNext]_routingVars => RoutingInv'
<1> SUFFICES ASSUME RoutingInv, [RoutingNext]_routingVars PROVE RoutingInv'
  OBVIOUS
<1>1. CASE TakeShortcut
  BY <1>1, SettledByFacts
<1>2. CASE AnswerOffline
  BY <1>2, SettledByWords DEF AnswerOffline, Settle, RoutingInv
<1>3. CASE AskModel
  BY <1>3 DEF AskModel, RoutingInv, RoutedAsTold
<1>4. CASE ModelReplies
  <2>1. PICK reply \in Replies :
          IF stage = "settled" THEN UNCHANGED <<stage, said, source>>
          ELSE IF \E c \in Validated(reply) : c.confidence >= MinConfidence
            THEN \E c \in Validated(reply) : Settle(c, "model")
            ELSE Settle(Mirror(words, facts), "deterministic")
    BY <1>4 DEF ModelReplies
  <2>2. calling = TRUE /\ calling' = FALSE /\ UNCHANGED <<words, facts>> /\ Shortcuts(words, facts) = {}
    BY <1>4 DEF ModelReplies, RoutingInv
  <2>3. CASE stage = "settled"
    BY <2>1, <2>2, <2>3 DEF RoutingInv, RoutedAsTold
  <2>4. CASE stage # "settled" /\ \E c \in Validated(reply) : c.confidence >= MinConfidence
    <3>1. PICK c \in Validated(reply) : Settle(c, "model")
      BY <2>1, <2>4
    <3>2. c.confidence >= MinConfidence
      BY <2>4 DEF Validated
    <3> QED
      BY <2>2, <3>1, <3>2, SettledByModel DEF Settle, RoutingInv
  <2>5. CASE stage # "settled" /\ ~ \E c \in Validated(reply) : c.confidence >= MinConfidence
    BY <2>1, <2>2, <2>5, SettledByWords DEF Settle, RoutingInv
  <2> QED
    BY <2>3, <2>4, <2>5
<1>5. CASE CallFails
  <2>1. calling = TRUE /\ calling' = FALSE /\ UNCHANGED <<words, facts>> /\ Shortcuts(words, facts) = {}
    BY <1>5 DEF CallFails, RoutingInv
  <2>2. CASE stage = "settled"
    BY <1>5, <2>1, <2>2 DEF CallFails, RoutingInv, RoutedAsTold
  <2>3. CASE stage # "settled"
    BY <1>5, <2>1, <2>3, SettledByWords DEF CallFails, Settle, RoutingInv
  <2> QED
    BY <2>2, <2>3
<1>6. CASE BudgetSpent
  BY <1>6, SettledByWords DEF BudgetSpent, Settle, RoutingInv
<1>7. CASE UNCHANGED routingVars
  BY <1>7 DEF routingVars, RoutingInv, RoutedAsTold
<1> QED
  BY <1>1, <1>2, <1>3, <1>4, <1>5, <1>6, <1>7 DEF RoutingNext

\* Whatever a text says and the model returns, and however late, a turn takes the one
\* path of its intent (classify.ts).
THEOREM TurnsRoutedAsTold == RoutingInit /\ [][RoutingNext]_routingVars => []RoutedAsTold
<1>1. RoutingInv => RoutedAsTold
  BY DEF RoutingInv
<1> QED
  BY <1>1, RoutingStarts, RoutingStep, PTL
=============================================================================
