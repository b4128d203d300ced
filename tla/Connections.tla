---------------------------- MODULE Connections ----------------------------
(***************************************************************************)
(* How an owner's Google account gets to a calendar or mail call: consent  *)
(* and callback (agent/src/integrations/integration-oauth.ts), the record  *)
(* and the token file of each owner (integration-store.ts), and the MCP    *)
(* server a live call starts with them (assistant-runtime.ts,              *)
(* calendar-mcp.ts, gmail-mcp.ts).                                         *)
(*                                                                         *)
(* Every file is written by truncating it first, and a file read in        *)
(* between counts as none; of two writes that overlap, the shorter one     *)
(* leaves the end of the longer one behind, which no reader can parse.  A  *)
(* consent stands for the token Google gives in return for its code.       *)
(* Owners have different file names.                                       *)
(***************************************************************************)
EXTENDS Naturals, FiniteSets

CONSTANTS
  Owners,
  Consents,     \* visits to Google's consent page
  Calls,        \* calendar and mail calls of live turns, confirmations and meetings
  MaxRestarts,
  Nothing, Torn, \* a file that is not there, or cannot be parsed
  Ambient       \* what the bridge's own environment points to

ASSUME ConnectionAssumption ==
  /\ {Nothing, Torn, Ambient} \cap Consents = {} /\ Nothing \notin Owners
  /\ Nothing # Torn /\ Nothing # Ambient /\ Torn # Ambient

VARIABLES
  consent,   \* [stage, owner, secret]
  secret,    \* oauthStateSecret of the running bridge
  restarts,
  stored,    \* <owner>.json: the consent whose token it holds
  opened,    \* consents that truncated a record nobody wrote since
  tokenFile, \* <owner>.google.token.json, what MCP servers read
  emptied,   \* calls that truncated a token file nobody wrote since
  call,      \* [stage, way, owner, token]
  saves,     \* history: how many records were written, and
  saved,     \* history: which of them each consent's was, 0 if none
  used,      \* history: what the server of each call found
  floor,     \* history: the record a call found when it began
  shared,    \* history: calls that held a token while another one of the owner did
  disturbed, \* history: calls that began before and resolved after the record was damaged
  damaged    \* history: owners whose record a restart or overlapping writes left unreadable

callVars == <<tokenFile, emptied, call, used, floor, shared>>
connectionVars == <<consent, secret, restarts, stored, opened, callVars, saves, saved,
                    disturbed, damaged>>

NoCall == [stage |-> "idle", way |-> "none", owner |-> Nothing, token |-> Nothing]
Holding == {"resolved", "writing", "written"}

ConnectionInit ==
  /\ consent = [c \in Consents |-> [stage |-> "none", owner |-> Nothing, secret |-> 0]]
  /\ secret = 1 /\ restarts = 0
  /\ stored = [o \in Owners |-> Nothing] /\ tokenFile = [o \in Owners |-> Nothing]
  /\ opened = {} /\ emptied = {}
  /\ call = [k \in Calls |-> NoCall]
  /\ saves = 0 /\ saved = [c \in Consents |-> 0]
  /\ used = [k \in Calls |-> Nothing] /\ floor = [k \in Calls |-> Nothing]
  /\ shared = {} /\ disturbed = {} /\ damaged = {}

-----------------------------------------------------------------------------
\* apiGoogleOAuthStart: the state that Google hands back is signed.
Start(c, o) ==
  /\ consent[c].stage = "none"
  /\ consent' = [consent EXCEPT ![c] = [stage |-> "asked", owner |-> o, secret |-> secret]]
  /\ UNCHANGED <<secret, restarts, stored, opened, callVars, saves, saved, disturbed, damaged>>

\* apiGoogleOAuthCallback.  A state signed before the secret changed is
\* refused, and the exchange of the code may fail.
Callback(c, o) ==
  /\ consent[c].stage = "asked" /\ consent[c].owner = o
  /\ \E stage \in IF consent[c].secret = secret THEN {"exchanged", "failed"} ELSE {"failed"} :
       consent' = [consent EXCEPT ![c].stage = stage]
  /\ UNCHANGED <<secret, restarts, stored, opened, callVars, saves, saved, disturbed, damaged>>

StateOwner(c) == consent[c].owner

\* Calls that have begun and not yet read the record they will use.
Waiting(o) == {k \in Calls : call[k].owner = o /\ call[k].stage = "begun"}

\* saveIntegration: there is one provider, so nothing of the old record stays.
Truncate(c) ==
  LET o == StateOwner(c) IN
  /\ consent[c].stage = "exchanged"
  /\ consent' = [consent EXCEPT ![c].stage = "saving"]
  /\ stored' = [stored EXCEPT ![o] = Torn] /\ opened' = opened \cup {c}
  /\ disturbed' = disturbed \cup Waiting(o)
  /\ UNCHANGED <<secret, restarts, callVars, saves, saved, damaged>>

\* Whoever writes first after a truncation leaves its record, anybody later its
\* record or a mixture.
Save(c) ==
  LET o == StateOwner(c) IN
  /\ consent[c].stage = "saving"
  /\ consent' = [consent EXCEPT ![c].stage = "connected"]
  /\ \E record \in {c} \cup (IF c \in opened THEN {} ELSE {Torn}) :
       /\ stored' = [stored EXCEPT ![o] = record]
       /\ damaged' = IF record = Torn THEN damaged \cup {o} ELSE damaged \ {o}
       /\ disturbed' = IF record = Torn THEN disturbed \cup Waiting(o) ELSE disturbed
  /\ opened' = {d \in opened : StateOwner(d) # o}
  /\ saves' = saves + 1 /\ saved' = [saved EXCEPT ![c] = saves + 1]
  /\ UNCHANGED <<secret, restarts, callVars>>

-----------------------------------------------------------------------------
Enter(k, o, way, stage) ==
  /\ call[k].stage = "idle"
  /\ call' = [call EXCEPT ![k] = [stage |-> stage, way |-> way, owner |-> o, token |-> Nothing]]
  /\ floor' = [floor EXCEPT ![k] = stored[o]]
  /\ UNCHANGED <<consent, secret, restarts, stored, opened, tokenFile, emptied, saves, saved, used,
                 shared, disturbed, damaged>>

\* runUseIntegration: without a record the owner is asked to connect.
Gate(k, o) == Enter(k, o, "turn", IF stored[o] \in Consents THEN "begun" ELSE "refused")

\* A write the owner confirmed (runConfirmedWrite), or one of a meeting both owners
\* accepted (meetingBookingSide), is made without asking again.
Ungated(k, o) == Enter(k, o, "agreed", "begun")

\* resolveDefaultIntegration reads the record again; without one the call goes
\* on with the bridge's own environment.
Resolve(k) ==
  LET o == call[k].owner IN
  /\ call[k].stage = "begun"
  /\ call' = [call EXCEPT ![k].stage = IF stored[o] \in Consents THEN "resolved" ELSE "ambient",
                         ![k].token = IF stored[o] \in Consents THEN stored[o] ELSE Ambient]
  /\ LET others == {j \in Calls : call[j].owner = o /\ call[j].stage \in Holding}
     IN  shared' = IF stored[o] \in Consents /\ others # {} THEN shared \cup others \cup {k} ELSE shared
  /\ UNCHANGED <<consent, secret, restarts, stored, opened, tokenFile, emptied, saves, saved, used,
                 floor, disturbed, damaged>>

\* resolveIntegrationTokenPath writes the token out for the server, each time.
KeepToken(k) == \* mutant: a token file that is there already is kept
  /\ call[k].stage = "resolved"
  /\ call' = [call EXCEPT ![k].stage = IF tokenFile[call[k].owner] = Nothing THEN "writing" ELSE "written"]
  /\ UNCHANGED <<consent, secret, restarts, stored, opened, tokenFile, emptied, saves, saved, used,
                 floor, shared, disturbed, damaged>>
TruncateToken(k) ==
  /\ call[k].stage = "resolved"
  /\ call' = [call EXCEPT ![k].stage = "writing"]
  /\ tokenFile' = [tokenFile EXCEPT ![call[k].owner] = Torn] /\ emptied' = emptied \cup {k}
  /\ UNCHANGED <<consent, secret, restarts, stored, opened, saves, saved, used, floor, shared,
                 disturbed, damaged>>
WriteToken(k) ==
  LET o == call[k].owner IN
  /\ call[k].stage = "writing"
  /\ call' = [call EXCEPT ![k].stage = "written"]
  /\ \E file \in {call[k].token} \cup (IF k \in emptied THEN {} ELSE {Torn}) :
       tokenFile' = [tokenFile EXCEPT ![o] = file]
  /\ emptied' = {j \in emptied : call[j].owner # o}
  /\ UNCHANGED <<consent, secret, restarts, stored, opened, saves, saved, used, floor, shared,
                 disturbed, damaged>>

\* The runner connects: a server is started and reads its token.
Connect(k) ==
  /\ call[k].stage \in {"written", "ambient"}
  /\ used' = [used EXCEPT ![k] = IF call[k].stage = "ambient" THEN Ambient ELSE tokenFile[call[k].owner]]
  /\ call' = [call EXCEPT ![k].stage = "connected"]
  /\ UNCHANGED <<consent, secret, restarts, stored, opened, tokenFile, emptied, saves, saved, floor,
                 shared, disturbed, damaged>>

\* What is under way is gone, half-written files stay, the secret may be new.
Restart ==
  /\ restarts < MaxRestarts /\ restarts' = restarts + 1
  /\ secret' \in {secret, secret + 1}
  /\ consent' = [c \in Consents |-> IF consent[c].stage \in {"exchanged", "saving"}
                                      THEN [consent[c] EXCEPT !.stage = "failed"] ELSE consent[c]]
  /\ call' = [k \in Calls |-> IF call[k].stage \in Holding \cup {"begun", "ambient"}
                                THEN [call[k] EXCEPT !.stage = "lost"] ELSE call[k]]
  /\ damaged' = damaged \cup {o \in Owners : stored[o] = Torn}
  /\ opened' = {} /\ emptied' = {}
  /\ UNCHANGED <<stored, tokenFile, saves, saved, used, floor, shared, disturbed>>

ConnectionNext ==
  \/ \E c \in Consents, o \in Owners : Start(c, o) \/ Callback(c, o)
  \/ \E c \in Consents : Truncate(c) \/ Save(c)
  \/ \E k \in Calls, o \in Owners : Gate(k, o) \/ Ungated(k, o)
  \/ \E k \in Calls :
       \/ Resolve(k) \/ TruncateToken(k) \/ WriteToken(k) \/ Connect(k)
  \/ Restart

ConnectionSpec == ConnectionInit /\ [][ConnectionNext]_connectionVars

-----------------------------------------------------------------------------
File == Consents \cup {Nothing, Torn}
ConnectionTypes ==
  /\ consent \in [Consents -> [stage : {"none", "asked", "exchanged", "saving", "connected", "failed"},
                              owner : Owners \cup {Nothing}, secret : Nat]]
  /\ secret \in Nat /\ restarts \in Nat
  /\ stored \in [Owners -> File] /\ tokenFile \in [Owners -> File]
  /\ opened \subseteq Consents /\ emptied \subseteq Calls
  /\ call \in [Calls -> [stage : {"idle", "begun", "refused", "ambient", "connected", "lost"} \cup Holding,
                        way : {"none", "turn", "agreed"},
                        owner : Owners \cup {Nothing}, token : Consents \cup {Nothing, Ambient}]]
  /\ saves \in Nat /\ saved \in [Consents -> Nat]
  /\ used \in [Calls -> File \cup {Ambient}] /\ floor \in [Calls -> File]
  /\ shared \subseteq Calls /\ disturbed \subseteq Calls /\ damaged \subseteq Owners

\* A call works with an account its owner consented to.  It finds half a token
\* only if another call of the owner was writing it out, and goes on with the
\* bridge's own account only if the record was damaged after it began, or if it was
\* agreed on before and began without one.
AccountIsOwners ==
  \A k \in Calls :
    \/ used[k] = Nothing
    \/ used[k] = Ambient /\ (k \in disturbed \/ (call[k].way = "agreed" /\ floor[k] \notin Consents))
    \/ used[k] = Torn /\ k \in shared
    \/ used[k] \in Consents /\ consent[used[k]].owner = call[k].owner

\* After an owner has connected another account, no call that begins works
\* with the one before; unless an older call of theirs was still under way,
\* which writes the same token file.
AccountIsFresh ==
  \A k \in Calls :
    used[k] \in Consents /\ floor[k] \in Consents /\ k \notin shared => saved[used[k]] >= saved[floor[k]]

\* An owner who came back from Google as connected is connected: the record is
\* there, unless it is being replaced, or was when the bridge stopped or another
\* visit of theirs was stored at the same time.
ConnectedIsStored ==
  \A c \in Consents :
    LET o == consent[c].owner IN
    consent[c].stage = "connected" =>
      \/ stored[o] \in Consents
      \/ stored[o] = Torn /\ (o \in damaged \/ \E d \in Consents : consent[d].stage = "saving" /\ consent[d].owner = o)

\* A call works with an account its owner connected, the last one they connected,
\* and an owner who was told so is connected.  With the bridge's own environment goes
\* only a call the gate let by before the record was damaged, or one without a gate:
\* a confirmed write or a meeting's booking of an owner who had no record.
AccountIsRight == ConnectionTypes /\ AccountIsOwners /\ AccountIsFresh /\ ConnectedIsStored
=============================================================================
