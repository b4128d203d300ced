------------------------------- MODULE Roster -------------------------------
(***************************************************************************)
(* Who may talk to whom: the roster files of                               *)
(* agent/src/assistant/assistant-roster.ts and the bridge endpoints that   *)
(* edit them in pairs - invite, revoke and membership of                   *)
(* agent/src/server/dashboard.ts.  An edit loads rosters, changes them in  *)
(* memory and rewrites the files whole, without a lock.                    *)
(*                                                                         *)
(* An assistant stands for one roster file: the one of its owner's         *)
(* directory, or of the shared directory for edits that name no owners.    *)
(* The contact cards an invite stores afterwards are in other files.       *)
(*                                                                         *)
(* A step is one file access.  writeFile truncates and then writes:        *)
(* whoever reads in between finds a file that does not parse.              *)
(***************************************************************************)
EXTENDS Naturals, FiniteSets

CONSTANTS
  Assistants,
  Calls,       \* edits, each made at most once
  MaxInFlight, \* how many edits may overlap
  MaxMishaps   \* how often a file access may fail or the process die

ASSUME RosterAssumption ==
  MaxInFlight \in Nat /\ MaxMishaps \in Nat

\* What a roster says of an assistant: nothing, that it is a peer, or that it
\* is one the owner shares the calendar with.  The recorded membership decides
\* nothing here; what matters is that recording it rewrites the roster.
Entry == {"stranger", "peer", "sharing"}
Peers == [Assistants -> Entry]

\* "empty" and "garbage" files do not parse.
File == [state : {"whole", "empty", "garbage"}, peers : Peers]

Side == {"self", "peer"}
Stage == {"idle", "load peer", "open self", "write self", "open peer", "write peer",
          "over"}

VARIABLES
  file,
  pc,
  edit,    \* what each call was asked to do, and about which two assistants
  mem,     \* the rosters each call is about to save
  mishaps,
  damaged, \* history: files two edits used at once, misread, or left half-written
  half,    \* history: pairs an edit changed on one side only
  said,    \* history: the peers of each file by the last invite or revoke saved
  offered  \* history: whom each owner offered to share with

vars == <<file, pc, edit, mem, mishaps, damaged, half, said, offered>>

\* An invite may offer to share; a membership may be recorded on both sides.
Edit == [kind : {"invite", "sharing invite", "revoke", "membership", "mutual membership"},
         who : [Side -> Assistants]]

-----------------------------------------------------------------------------
NoPeers == [a \in Assistants |-> "stranger"]
NoMemory == [s \in Side |-> NoPeers]
NoEdit == [kind |-> "none"]
Pair(a, b) == [s \in Side |-> IF s = "self" THEN a ELSE b]
AnEdit(kind, a, b) == [kind |-> kind, who |-> Pair(a, b)]

InFlight == {c \in Calls : pc[c] \notin {"idle", "over"}}
Other(side) == IF side = "self" THEN "peer" ELSE "self"

\* Invites and revokes load both rosters before they save either; a
\* membership is recorded on one side and then on the other.
IsInvite(e) == e.kind \in {"invite", "sharing invite"}
Paired(e) == IsInvite(e) \/ e.kind = "revoke"

\* The call has loaded this side's roster and will still save it.
Uses(c, side) ==
  CASE side = "self" -> \/ pc[c] \in {"open self", "write self"}
                        \/ pc[c] = "load peer" /\ Paired(edit[c])
    [] side = "peer" -> \/ pc[c] \in {"open peer", "write peer"}
                        \/ pc[c] \in {"open self", "write self"} /\ Paired(edit[c])
InUse(c, a) == \E s \in Side : Uses(c, s) /\ edit[c].who[s] = a

Init ==
  /\ file = [a \in Assistants |-> [state |-> "whole", peers |-> NoPeers]]
  /\ pc = [c \in Calls |-> "idle"]
  /\ edit = [c \in Calls |-> NoEdit]
  /\ mem = [c \in Calls |-> NoMemory]
  /\ mishaps = 0
  /\ damaged = {} /\ half = {}
  /\ said = [a \in Assistants |-> {}]
  /\ offered = [a \in Assistants |-> {}]

-----------------------------------------------------------------------------
(***************************************************************************)
(* What an edit makes of a roster.                                         *)
(***************************************************************************)
\* Mutants of Edited: an invite starts a new list; it shares both ways.
EditedAnew(e, side, peers) ==
  LET other == e.who[Other(side)]
      shares == e.kind = "sharing invite" /\ side = "self"
  IN CASE IsInvite(e) ->
            [NoPeers EXCEPT ![other] = IF shares THEN "sharing" ELSE "peer"]
       [] e.kind = "revoke" -> [peers EXCEPT ![other] = "stranger"]
       [] OTHER -> peers
EditedBothWays(e, side, peers) ==
  LET other == e.who[Other(side)]
      shares == e.kind = "sharing invite"
  IN CASE IsInvite(e) ->
            [peers EXCEPT ![other] = IF shares THEN "sharing" ELSE "peer"]
       [] e.kind = "revoke" -> [peers EXCEPT ![other] = "stranger"]
       [] OTHER -> peers

\* addPeer replaces the entry, so a repeated invite takes back what the other
\* owner had offered; removePeer; setPeerMembership.
Edited(e, side, peers) ==
  LET other == e.who[Other(side)]
      shares == e.kind = "sharing invite" /\ side = "self"
  IN CASE IsInvite(e) ->
            [peers EXCEPT ![other] = IF shares THEN "sharing" ELSE "peer"]
       [] e.kind = "revoke" -> [peers EXCEPT ![other] = "stranger"]
       [] OTHER -> peers

\* loadRoster: whatever cannot be read or parsed is an empty roster.
Loaded(a, readable) ==
  IF readable /\ file[a].state = "whole" THEN file[a].peers ELSE NoPeers

\* Call c goes on with edit e at a stage, with `saves` still to be saved.
Goto(c, e, stage, saves) ==
  /\ pc' = [pc EXCEPT ![c] = stage]
  /\ edit' = [edit EXCEPT ![c] = IF stage = "over" THEN NoEdit ELSE e]
  /\ mem' = [mem EXCEPT ![c] = IF stage = "over" THEN NoMemory ELSE saves]

\* Load one side's roster for edit e.  recordPeerMembership throws when the
\* other is not a peer.
Load(c, e, side, readable, next) ==
  LET a == e.who[side]
      peers == Loaded(a, readable)
  IN
  /\ ~readable => mishaps < MaxMishaps
  /\ mishaps' = IF readable THEN mishaps ELSE mishaps + 1
  /\ IF ~Paired(e) /\ peers[e.who[Other(side)]] = "stranger"
       THEN /\ Goto(c, e, "over", NoMemory)
            /\ UNCHANGED damaged
       ELSE /\ Goto(c, e, next, [mem[c] EXCEPT ![side] = Edited(e, side, peers)])
            /\ damaged' = damaged \cup
                 {f \in {a} : ~readable \/ \E d \in Calls \ {c} : InUse(d, f)}

(***************************************************************************)
(* apiAssistantInvite, apiAssistantRevoke and apiAssistantMembership, up   *)
(* to the first load.                                                      *)
(***************************************************************************)
Start(c, e, readable) ==
  /\ pc[c] = "idle"
  /\ Cardinality(InFlight) < MaxInFlight
  /\ Load(c, e, "self", readable, IF Paired(e) THEN "load peer" ELSE "open self")
  /\ UNCHANGED <<file, half, said>>

MayInvite(a, b) == a # b

Invite(c, a, b, shares, readable) ==
  /\ MayInvite(a, b)
  /\ Start(c, AnEdit(IF shares THEN "sharing invite" ELSE "invite", a, b), readable)
  /\ offered' = IF shares THEN [offered EXCEPT ![a] = @ \cup {b}] ELSE offered

Revoke(c, a, b, readable) ==
  /\ Start(c, AnEdit("revoke", a, b), readable)
  /\ UNCHANGED offered

Record(c, a, b, mutual, readable) ==
  /\ Start(c, AnEdit(IF mutual THEN "mutual membership" ELSE "membership", a, b), readable)
  /\ UNCHANGED offered

LoadPeer(c, readable) ==
  /\ pc[c] = "load peer"
  /\ Load(c, edit[c], "peer", readable,
          IF Paired(edit[c]) THEN "open self" ELSE "open peer")
  /\ UNCHANGED <<file, half, said, offered>>

-----------------------------------------------------------------------------
OpenStage(side) == IF side = "self" THEN "open self" ELSE "open peer"
WriteStage(side) == IF side = "self" THEN "write self" ELSE "write peer"

\* saveRoster: writeFile truncates the file ...
Open(c, side) ==
  /\ pc[c] = OpenStage(side)
  /\ file' = [file EXCEPT ![edit[c].who[side]] = [state |-> "empty", peers |-> NoPeers]]
  /\ Goto(c, edit[c], WriteStage(side), mem[c])
  /\ UNCHANGED <<mishaps, damaged, half, said, offered>>

\* Mutant of AfterSelf: the revoke of an unknown peer is done after one side.
AfterSelfOnly(e) ==
  IF e.kind = "mutual membership" THEN "load peer" ELSE "over"
AfterSelf(e) ==
  IF Paired(e) THEN "open peer" ELSE IF e.kind = "mutual membership" THEN "load peer" ELSE "over"

\* The peers an edit leaves of some, one of which it is about.
Says(S, e, b) == CASE IsInvite(e) -> S \cup {b} [] e.kind = "revoke" -> S \ {b} [] OTHER -> S

\* ... and writes it from the start.  Over the text of another write the rest
\* of a longer one may remain.
Write(c, side) ==
  LET a == edit[c].who[side]
      b == edit[c].who[Other(side)]
      next == IF side = "self" THEN AfterSelf(edit[c]) ELSE "over"
  IN
  /\ pc[c] = WriteStage(side)
  /\ \/ file' = [file EXCEPT ![a] = [state |-> "whole", peers |-> mem[c][side]]]
     \/ /\ file[a].state # "empty"
        /\ file' = [file EXCEPT ![a] = [state |-> "garbage", peers |-> NoPeers]]
  /\ Goto(c, edit[c], next, [mem[c] EXCEPT ![side] = NoPeers])
  /\ said' = [said EXCEPT ![a] = Says(@, edit[c], b)]
  /\ UNCHANGED <<mishaps, damaged, half, offered>>

\* What calls that end at once leave behind: a truncated file, or one side of
\* a pair that is not like the other.
Abandon(C) ==
  /\ damaged' = damaged \cup
       {a \in Assistants : \E c \in C, s \in Side : pc[c] = WriteStage(s) /\ edit[c].who[s] = a}
  /\ half' = half \cup
       {edit[c].who : c \in {d \in C : Paired(edit[d]) /\ pc[d] = "open peer"}}

\* A save throws, and with it the endpoint.
SaveFails(c) ==
  /\ mishaps < MaxMishaps
  /\ \E s \in Side : pc[c] \in {OpenStage(s), WriteStage(s)}
  /\ mishaps' = mishaps + 1
  /\ Goto(c, edit[c], "over", NoMemory)
  /\ Abandon({c})
  /\ UNCHANGED <<file, said, offered>>

Crash ==
  /\ mishaps < MaxMishaps
  /\ InFlight # {}
  /\ mishaps' = mishaps + 1
  /\ pc' = [c \in Calls |-> IF c \in InFlight THEN "over" ELSE pc[c]]
  /\ edit' = [c \in Calls |-> NoEdit]
  /\ mem' = [c \in Calls |-> NoMemory]
  /\ Abandon(InFlight)
  /\ UNCHANGED <<file, said, offered>>

Next ==
  \/ \E c \in Calls, a, b \in Assistants, readable \in BOOLEAN :
       \/ \E shares \in BOOLEAN : Invite(c, a, b, shares, readable)
       \/ Revoke(c, a, b, readable)
       \/ \E mutual \in BOOLEAN : Record(c, a, b, mutual, readable)
  \/ \E c \in Calls, readable \in BOOLEAN : LoadPeer(c, readable)
  \/ \E c \in Calls, side \in Side : Open(c, side) \/ Write(c, side)
  \/ \E c \in Calls : SaveFails(c)
  \/ Crash

Spec == Init /\ [][Next]_vars

-----------------------------------------------------------------------------
(***************************************************************************)
(* Properties.                                                             *)
(***************************************************************************)

\* The types, and that no assistant is a peer of its own.
TypeOK ==
  /\ file \in [Assistants -> File]
  /\ pc \in [Calls -> Stage]
  /\ edit \in [Calls -> Edit \cup {NoEdit}]
  /\ mem \in [Calls -> [Side -> Peers]]
  /\ mishaps \in Nat
  /\ damaged \subseteq Assistants
  /\ half \subseteq [Side -> Assistants]
  /\ said \in [Assistants -> SUBSET Assistants]
  /\ offered \in [Assistants -> SUBSET Assistants]
  /\ \A c \in InFlight : edit[c] \in Edit
  /\ \A a \in Assistants : file[a].peers[a] = "stranger"

Knows(a, b) == Loaded(a, TRUE)[b] # "stranger"
Halved(a, b) == Pair(a, b) \in half \/ Pair(b, a) \in half

\* Trust is mutual: once no edit is at work, of two assistants either both are
\* on each other's roster or neither is - whatever edits overlapped, as long as
\* none met another in one of the two files and none ended half-way
\* ("Remove a peer relationship from BOTH rosters", assistant-roster.ts).
MutualUnlessDamaged ==
  InFlight = {} =>
    \A a, b \in Assistants :
      Halved(a, b) \/ a \in damaged \/ b \in damaged \/ (Knows(a, b) <=> Knows(b, a))

\* A roster that no two edits used at once holds exactly the peers that the
\* invites and revokes saved to it leave: no edit of one peer, and no
\* membership, drops another peer or brings a revoked one back.
EditsTakeEffect ==
  \A a \in Assistants :
    a \notin damaged /\ file[a].state = "whole" =>
      {b \in Assistants : Knows(a, b)} = said[a]

\* A roster never shares an owner's calendar with a peer that owner did not
\* offer it to - even after lost updates, torn files and crashes ("the peer's
\* side gets the default (share nothing) until that owner opts in").
SharesOnlyOffered ==
  \A a, b \in Assistants : Loaded(a, TRUE)[b] = "sharing" => b \in offered[a]
=============================================================================
