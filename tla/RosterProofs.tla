---------------------------- MODULE RosterProofs ----------------------------
(***************************************************************************)
(* What holds of the rosters for any assistants, edits, overlap, failing   *)
(* file accesses and crashes.                                              *)
(***************************************************************************)
EXTENDS Roster, TLAPS

\* The peers in a file's roster, and in one about to be saved.
Known(a) == {b \in Assistants : file[a].peers[b] # "stranger"}
Saves(c, s) == {b \in Assistants : mem[c][s][b] # "stranger"}

\* Every call is about two different assistants when it invites, and saves
\* nobody as its own peer.
Sound ==
  /\ \A c \in InFlight :
       /\ IsInvite(edit[c]) => edit[c].who["self"] # edit[c].who["peer"]
       /\ \A s \in Side : mem[c][s][edit[c].who[s]] = "stranger"
  /\ \A c \in Calls \ InFlight : mem[c] = NoMemory /\ edit[c] = NoEdit
  /\ \A a \in Assistants : file[a].state # "whole" => file[a].peers = NoPeers

\* What is shared, or about to be, was offered.
Offers ==
  /\ \A a, b \in Assistants : file[a].peers[b] = "sharing" => b \in offered[a]
  /\ \A c \in InFlight :
       /\ edit[c].kind = "sharing invite" => edit[c].who["peer"] \in offered[edit[c].who["self"]]
       /\ \A s \in Side, b \in Assistants :
            mem[c][s][b] = "sharing" => b \in offered[edit[c].who[s]]

Writing(c, s, a) == pc[c] = WriteStage(s) /\ edit[c].who[s] = a

\* A file in use is as good as locked, or it is damaged; it is truncated
\* exactly while a call writes it.
Locked ==
  /\ \A a \in Assistants : \A c, d \in Calls :
       c # d /\ InUse(c, a) /\ InUse(d, a) => a \in damaged
  /\ \A a \in Assistants : a \notin damaged /\ file[a].state # "whole" =>
       \E c \in Calls, s \in Side : Writing(c, s, a)
  /\ \A c \in Calls, s \in Side, a \in Assistants :
       a \notin damaged /\ Writing(c, s, a) => file[a].state = "empty"

\* So what an edit saves is what the file says, edited.
Effects ==
  \A a \in Assistants : a \notin damaged =>
    /\ file[a].state = "whole" => Known(a) = said[a]
    /\ \A c \in Calls, s \in Side :
         Uses(c, s) /\ edit[c].who[s] = a =>
           Saves(c, s) = Says(said[a], edit[c], edit[c].who[Other(s)])

\* A call that has saved one side of a pair, and still has to save the other.
Halfway(c, a, b) ==
  /\ pc[c] \in {"open peer", "write peer"}
  /\ Paired(edit[c])
  /\ edit[c].who["self"] = a /\ edit[c].who["peer"] = b

Exempt(a, b) == Halved(a, b) \/ a \in damaged \/ b \in damaged

\* Both sides of a pair are said to be the same except half-way through the
\* one edit that changes it.
Agreement ==
  \A a, b \in Assistants : ~Exempt(a, b) =>
    /\ \/ b \in said[a] <=> a \in said[b]
       \/ \E c \in Calls : Halfway(c, a, b) \/ Halfway(c, b, a)
    /\ \A c \in Calls : Halfway(c, a, b) =>
         /\ b \in said[a] <=> IsInvite(edit[c])
         /\ \A d \in Calls : Halfway(d, a, b) \/ Halfway(d, b, a) => d = c

IInv == TypeOK /\ Sound /\ Offers /\ Locked /\ Effects /\ Agreement

-----------------------------------------------------------------------------
(***************************************************************************)
(* Facts about the operators.                                              *)
(***************************************************************************)

\* An edit is about two assistants, one per side.
LEMMA EditFacts ==
  ASSUME NEW e \in Edit
  PROVE  /\ e.who["self"] \in Assistants /\ e.who["peer"] \in Assistants
         /\ \A s \in Side : e.who[s] \in Assistants /\ e.who[Other(s)] \in Assistants
         /\ e.who = Pair(e.who["self"], e.who["peer"])
<1>1. e.who \in [Side -> Assistants]
  BY DEF Edit
<1>2. \A s \in Side : Other(s) \in Side
  BY DEF Side, Other
<1>3. "self" \in Side /\ "peer" \in Side
  BY DEF Side
<1>4. e.who = Pair(e.who["self"], e.who["peer"])
  BY <1>1 DEF Pair, Side
<1> QED
  BY <1>1, <1>2, <1>3, <1>4

\* An edit touches the entry of the other side alone, and shares it only when
\* the inviter offered to.
LEMMA EditedFacts ==
  ASSUME NEW e \in Edit, NEW side \in Side, NEW peers \in Peers
  PROVE  /\ Edited(e, side, peers) \in Peers
         /\ {b \in Assistants : Edited(e, side, peers)[b] # "stranger"}
              = Says({b \in Assistants : peers[b] # "stranger"}, e, e.who[Other(side)])
         /\ \A a \in Assistants :
              peers[a] = "stranger" /\ (IsInvite(e) => e.who[Other(side)] # a)
                => Edited(e, side, peers)[a] = "stranger"
         /\ \A b \in Assistants : Edited(e, side, peers)[b] = "sharing" =>
              \/ peers[b] = "sharing"
              \/ e.kind = "sharing invite" /\ side = "self" /\ b = e.who["peer"]
<1> DEFINE other == e.who[Other(side)]
<1>1. other \in Assistants
  BY EditFacts
<1>2. peers \in [Assistants -> Entry] /\ Entry = {"stranger", "peer", "sharing"}
  BY DEF Peers, Entry
<1>3. side = "self" => other = e.who["peer"]
  BY DEF Other
<1>4. CASE IsInvite(e)
  <2> DEFINE new == IF e.kind = "sharing invite" /\ side = "self" THEN "sharing" ELSE "peer"
  <2>1. Edited(e, side, peers) = [peers EXCEPT ![other] = new]
    BY <1>4 DEF Edited, IsInvite
  <2>2. Says({b \in Assistants : peers[b] # "stranger"}, e, other)
          = {b \in Assistants : peers[b] # "stranger"} \cup {other}
    BY <1>4 DEF Says, IsInvite
  <2>3. new \in Entry /\ new # "stranger"
    BY <1>2
  <2>4. /\ [peers EXCEPT ![other] = new] \in [Assistants -> Entry]
        /\ \A b \in Assistants : [peers EXCEPT ![other] = new][b] = IF b = other THEN new ELSE peers[b]
    BY <1>1, <1>2, <2>3
  <2>5. new = "sharing" => e.kind = "sharing invite" /\ side = "self"
    OBVIOUS
  <2>6. Edited(e, side, peers) \in Peers
    BY <2>1, <2>4 DEF Peers
  <2>7. \A b \in Assistants : Edited(e, side, peers)[b] = IF b = other THEN new ELSE peers[b]
    BY <2>1, <2>4
  <2> HIDE DEF new, other
  <2>8. {b \in Assistants : Edited(e, side, peers)[b] # "stranger"}
          = {b \in Assistants : peers[b] # "stranger"} \cup {other}
    BY <1>1, <2>3, <2>7
  <2>9. \A a \in Assistants : peers[a] = "stranger" /\ other # a
                               => Edited(e, side, peers)[a] = "stranger"
    BY <2>7
  <2>10. \A b \in Assistants : Edited(e, side, peers)[b] = "sharing" =>
           peers[b] = "sharing" \/ (b = other /\ new = "sharing")
    BY <2>7
  <2> QED
    BY <1>3, <1>4, <2>2, <2>5, <2>6, <2>8, <2>9, <2>10 DEF other
<1>5. CASE e.kind = "revoke"
  <2>1. Edited(e, side, peers) = [peers EXCEPT ![other] = "stranger"]
    BY <1>5 DEF Edited, IsInvite
  <2>2. Says({b \in Assistants : peers[b] # "stranger"}, e, other)
          = {b \in Assistants : peers[b] # "stranger"} \ {other}
    BY <1>5 DEF Says, IsInvite
  <2>3. /\ [peers EXCEPT ![other] = "stranger"] \in [Assistants -> Entry]
        /\ \A b \in Assistants :
             [peers EXCEPT ![other] = "stranger"][b] = IF b = other THEN "stranger" ELSE peers[b]
    BY <1>1, <1>2
  <2> HIDE DEF other
  <2> QED
    BY <1>1, <2>1, <2>2, <2>3 DEF Peers, other
<1>6. CASE ~IsInvite(e) /\ e.kind # "revoke"
  <2>1. Edited(e, side, peers) = peers
    BY <1>6 DEF Edited, IsInvite
  <2>2. Says({b \in Assistants : peers[b] # "stranger"}, e, other)
          = {b \in Assistants : peers[b] # "stranger"}
    BY <1>6 DEF Says, IsInvite
  <2> QED
    BY <2>1, <2>2
<1> QED
  BY <1>4, <1>5, <1>6

-----------------------------------------------------------------------------
(***************************************************************************)
(* Loading: what the first step of an edit and the load of the other       *)
(* side's roster have in common.                                           *)
(***************************************************************************)
NextStage(e, side) ==
  IF side = "self" THEN IF Paired(e) THEN "load peer" ELSE "open self"
  ELSE IF Paired(e) THEN "open self" ELSE "open peer"

Loading(c, e, side, readable) ==
  /\ e \in Edit /\ side \in Side /\ readable \in BOOLEAN
  /\ \/ side = "self" /\ pc[c] = "idle"
     \/ side = "peer" /\ pc[c] = "load peer" /\ e = edit[c]
  /\ IsInvite(e) => e.who["self"] # e.who["peer"]
  /\ e.kind = "sharing invite" => e.who["peer"] \in offered'[e.who["self"]]
  /\ Load(c, e, side, readable, NextStage(e, side))
  /\ offered' \in [Assistants -> SUBSET Assistants]
  /\ \A a \in Assistants : offered[a] \subseteq offered'[a]
  /\ ~Paired(e) => offered' = offered
  /\ UNCHANGED <<file, half, said>>

\* An invite starts by reading the first roster.
LEMMA InviteLoads ==
  ASSUME IInv, NEW c \in Calls, NEW a \in Assistants, NEW b \in Assistants,
         NEW shares \in BOOLEAN, NEW readable \in BOOLEAN, Invite(c, a, b, shares, readable)
  PROVE  \E e : Loading(c, e, "self", readable)
<1> DEFINE e == AnEdit(IF shares THEN "sharing invite" ELSE "invite", a, b)
<1>1. e \in Edit /\ e.who["self"] = a /\ e.who["peer"] = b
  BY DEF AnEdit, Edit, Pair, Side
<1>2. e.kind = IF shares THEN "sharing invite" ELSE "invite"
  BY DEF AnEdit
<1>3. Start(c, e, readable) /\ a # b
  BY DEF Invite, MayInvite
<1>4. offered \in [Assistants -> SUBSET Assistants]
  BY DEF IInv, TypeOK
<1>5. /\ offered' \in [Assistants -> SUBSET Assistants]
      /\ \A x \in Assistants : offered[x] \subseteq offered'[x]
      /\ shares => b \in offered'[a]
  BY <1>4 DEF Invite
<1> HIDE DEF e
<1>6. Loading(c, e, "self", readable)
  BY <1>1, <1>2, <1>3, <1>5 DEF Loading, Start, NextStage, Side, Paired, IsInvite
<1> QED
  BY <1>6

\* So does a revoke.
LEMMA RevokeLoads ==
  ASSUME IInv, NEW c \in Calls, NEW a \in Assistants, NEW b \in Assistants,
         NEW readable \in BOOLEAN, Revoke(c, a, b, readable)
  PROVE  \E e : Loading(c, e, "self", readable)
<1> DEFINE e == AnEdit("revoke", a, b)
<1>1. e \in Edit /\ e.kind = "revoke"
  BY DEF AnEdit, Edit, Pair, Side
<1>2. Start(c, e, readable) /\ offered' = offered
  BY DEF Revoke
<1>3. offered \in [Assistants -> SUBSET Assistants]
  BY DEF IInv, TypeOK
<1> HIDE DEF e
<1>4. Loading(c, e, "self", readable)
  BY <1>1, <1>2, <1>3 DEF Loading, Start, NextStage, Side, IsInvite
<1> QED
  BY <1>4

\* So does recording a membership.
LEMMA RecordLoads ==
  ASSUME IInv, NEW c \in Calls, NEW a \in Assistants, NEW b \in Assistants,
         NEW mutual \in BOOLEAN, NEW readable \in BOOLEAN, Record(c, a, b, mutual, readable)
  PROVE  \E e : Loading(c, e, "self", readable)
<1> DEFINE e == AnEdit(IF mutual THEN "mutual membership" ELSE "membership", a, b)
<1>1. e \in Edit /\ e.kind \in {"membership", "mutual membership"}
  BY DEF AnEdit, Edit, Pair, Side
<1>2. Start(c, e, readable) /\ offered' = offered
  BY DEF Record
<1>3. offered \in [Assistants -> SUBSET Assistants]
  BY DEF IInv, TypeOK
<1> HIDE DEF e
<1>4. Loading(c, e, "self", readable)
  BY <1>1, <1>2, <1>3 DEF Loading, Start, NextStage, Side, IsInvite
<1> QED
  BY <1>4

\* The second roster is read after the first.
LEMMA LoadPeerLoads ==
  ASSUME IInv, NEW c \in Calls, NEW readable \in BOOLEAN, LoadPeer(c, readable)
  PROVE  \E e : Loading(c, e, "peer", readable)
<1>1. PICK e : e = edit[c]
  OBVIOUS
<1>2. c \in InFlight
  BY DEF LoadPeer, InFlight
<1>3. /\ e \in Edit
      /\ offered \in [Assistants -> SUBSET Assistants]
  BY <1>1, <1>2 DEF IInv, TypeOK
<1>4. /\ IsInvite(e) => e.who["self"] # e.who["peer"]
      /\ e.kind = "sharing invite" => e.who["peer"] \in offered[e.who["self"]]
  BY <1>1, <1>2 DEF IInv, Sound, Offers
<1>5. Loading(c, e, "peer", readable)
  BY <1>1, <1>3, <1>4 DEF Loading, LoadPeer, NextStage, Side
<1> QED
  BY <1>5

-----------------------------------------------------------------------------
(***************************************************************************)
(* A step of some calls leaves what the others do alone.                   *)
(***************************************************************************)
LEMMA OthersSame ==
  ASSUME NEW d, pc'[d] = pc[d], edit'[d] = edit[d]
  PROVE  /\ \A s \in Side : Uses(d, s)' <=> Uses(d, s)
         /\ \A a : InUse(d, a)' <=> InUse(d, a)
         /\ \A s \in Side : \A a : Writing(d, s, a)' <=> Writing(d, s, a)
         /\ \A a, b : Halfway(d, a, b)' <=> Halfway(d, a, b)
<1>1. \A s \in Side : Uses(d, s)' <=> Uses(d, s)
  BY DEF Uses, Side
<1>2. \A a : InUse(d, a)' <=> InUse(d, a)
  BY <1>1 DEF InUse
<1>3. \A s \in Side : \A a : Writing(d, s, a)' <=> Writing(d, s, a)
  BY DEF Writing
<1>4. \A a, b : Halfway(d, a, b)' <=> Halfway(d, a, b)
  BY DEF Halfway
<1> QED
  BY <1>1, <1>2, <1>3, <1>4

\* A call that is not at work holds no file and is in the middle of nothing.
LEMMA AtRest ==
  ASSUME NEW d, pc[d] \in {"idle", "over"}
  PROVE  /\ \A s \in Side : ~Uses(d, s)
         /\ \A a : ~InUse(d, a)
         /\ \A s \in Side : \A a : ~Writing(d, s, a)
         /\ \A a, b : ~Halfway(d, a, b)
BY DEF Uses, InUse, Writing, WriteStage, Halfway, Side

\* One that writes a file, or is half-way, uses the file it has yet to save.
LEMMA AtWork ==
  ASSUME NEW d
  PROVE  /\ \A s \in Side : \A a : Writing(d, s, a) => InUse(d, a)
         /\ \A a, b : Halfway(d, a, b) => Uses(d, "peer") /\ InUse(d, b)
         /\ \A s \in Side : pc[d] = OpenStage(s) \/ pc[d] = WriteStage(s)
              => Uses(d, s) /\ InUse(d, edit[d].who[s])
<1>1. \A s \in Side : pc[d] = OpenStage(s) \/ pc[d] = WriteStage(s) => Uses(d, s)
  BY DEF Uses, OpenStage, WriteStage, Side
<1>2. \A a, b : Halfway(d, a, b) => Uses(d, "peer") /\ edit[d].who["peer"] = b
  BY DEF Halfway, Uses
<1>3. "peer" \in Side
  BY DEF Side
<1> QED
  BY <1>1, <1>2, <1>3 DEF Writing, InUse

-----------------------------------------------------------------------------
(***************************************************************************)
(* Calls that end: refused, failed to save, or cut off by a crash.         *)
(***************************************************************************)
Ending(C) ==
  /\ C \subseteq Calls
  /\ pc' = [d \in Calls |-> IF d \in C THEN "over" ELSE pc[d]]
  /\ edit' = [d \in Calls |-> IF d \in C THEN NoEdit ELSE edit[d]]
  /\ mem' = [d \in Calls |-> IF d \in C THEN NoMemory ELSE mem[d]]
  /\ mishaps' \in Nat
  /\ Abandon(C)
  /\ UNCHANGED <<file, said, offered>>

\* An edit that ends keeps the invariant.
LEMMA EndingKeeps ==
  ASSUME IInv, NEW C, Ending(C)
  PROVE  IInv'
<1>1. /\ \A d \in C : pc'[d] = "over" /\ edit'[d] = NoEdit /\ mem'[d] = NoMemory /\ d \in Calls
      /\ \A d \in Calls \ C : pc'[d] = pc[d] /\ edit'[d] = edit[d] /\ mem'[d] = mem[d]
  BY DEF Ending
<1>2. /\ \A d \in InFlight' : /\ d \in Calls /\ d \notin C /\ d \in InFlight
                               /\ edit'[d] = edit[d] /\ mem'[d] = mem[d]
      /\ \A d \in Calls : d \notin InFlight' => d \in C \/ d \notin InFlight
  BY <1>1 DEF InFlight
<1>3. damaged \subseteq damaged' /\ half \subseteq half'
  BY DEF Ending, Abandon
<1>4. NoMemory \in [Side -> Peers]
  BY DEF NoMemory, NoPeers, Peers, Entry
<1>5. TypeOK'
  <2>1. \A c \in C : pc[c] = "open peer" => c \in InFlight
    BY DEF InFlight, Ending
  <2>2. \A c \in InFlight : edit[c].who \in [Side -> Assistants]
    BY DEF IInv, TypeOK, Edit
  <2>3. damaged' \subseteq Assistants
    BY DEF Ending, Abandon, IInv, TypeOK
  <2>4. half' \subseteq [Side -> Assistants]
    <3>1. half \subseteq [Side -> Assistants]
      BY DEF IInv, TypeOK
    <3>2. \A d \in C : pc[d] = "open peer" => edit[d].who \in [Side -> Assistants]
      BY <2>1, <2>2
    <3> QED
      BY <3>1, <3>2 DEF Ending, Abandon
  <2>5. /\ pc' \in [Calls -> Stage]
        /\ edit' \in [Calls -> Edit \cup {NoEdit}]
        /\ mem' \in [Calls -> [Side -> Peers]]
    BY <1>4 DEF Ending, IInv, TypeOK, Stage
  <2> QED
    BY <1>2, <2>3, <2>5, <2>4 DEF Ending, IInv, TypeOK
<1>6. Sound'
  <2>1. \A c \in InFlight' :
          /\ IsInvite(edit'[c]) => edit'[c].who["self"] # edit'[c].who["peer"]
          /\ \A s \in Side : mem'[c][s][edit'[c].who[s]] = "stranger"
    BY <1>2 DEF IInv, Sound
  <2>2. \A c \in Calls : c \notin InFlight' => mem'[c] = NoMemory /\ edit'[c] = NoEdit
    BY <1>1, <1>2 DEF IInv, Sound
  <2>3. file' = file
    BY DEF Ending
  <2> QED
    BY <2>1, <2>2, <2>3 DEF IInv, Sound, NoPeers, NoMemory, NoEdit
<1>7. Offers'
  BY <1>1, <1>2 DEF IInv, Offers, Ending
<1>8. /\ \A d \in Calls, s \in Side : Uses(d, s)' => d \notin C /\ Uses(d, s)
      /\ \A d \in Calls, a \in Assistants : InUse(d, a)' => InUse(d, a)
      /\ \A d \in Calls, s \in Side, a \in Assistants : Writing(d, s, a)' => Writing(d, s, a)
      /\ \A d \in Calls, a, b \in Assistants : Halfway(d, a, b)' => d \notin C /\ Halfway(d, a, b)
      /\ \A d \in Calls \ C, s \in Side, a \in Assistants : Writing(d, s, a) => Writing(d, s, a)'
      /\ \A d \in Calls \ C, a, b \in Assistants : Halfway(d, a, b) => Halfway(d, a, b)'
  <2>1. ASSUME NEW d \in C
        PROVE  /\ \A s \in Side : ~Uses(d, s)'
               /\ \A a : ~InUse(d, a)'
               /\ \A s \in Side : \A a : ~Writing(d, s, a)'
               /\ \A a, b : ~Halfway(d, a, b)'
    BY <1>1 DEF Uses, InUse, Writing, WriteStage, Halfway, Side
  <2> QED
    BY <1>1, <2>1, OthersSame
<1>9. \A d \in C, s \in Side, a \in Assistants : Writing(d, s, a) => a \in damaged'
  BY DEF Ending, Abandon, Writing
<1>10. Locked'
  BY <1>3, <1>8, <1>9 DEF IInv, Locked, Ending
<1>11. Effects'
  <2>1. \A a : Known(a)' = Known(a)
    BY DEF Known, Ending
  <2>2. \A d \in Calls \ C : \A s : Saves(d, s)' = Saves(d, s)
    BY <1>1 DEF Saves
  <2> QED
    BY <1>1, <1>3, <1>8, <2>1, <2>2 DEF IInv, Effects, Ending
<1>12. Agreement'
  <2>1. \A a, b \in Assistants : Exempt(a, b) => Exempt(a, b)'
    BY <1>3 DEF Exempt, Halved
  <2>2. ASSUME NEW a \in Assistants, NEW b \in Assistants, NEW d \in C, Halfway(d, a, b)
        PROVE  Exempt(a, b)' /\ Exempt(b, a)'
    <3>1. CASE pc[d] = "write peer"
      <4>1. Writing(d, "peer", b)
        BY <3>1, <2>2 DEF Writing, WriteStage, Halfway
      <4> QED
        BY <4>1, <1>9 DEF Exempt, Side
    <3>2. CASE pc[d] = "open peer"
      <4>1. d \in InFlight
        BY <3>2, <1>1 DEF InFlight
      <4>2. edit[d].who = Pair(a, b)
        BY <4>1, <2>2, EditFacts DEF Halfway, IInv, TypeOK
      <4>3. edit[d].who \in half'
        BY <3>2, <2>2 DEF Ending, Abandon, Halfway
      <4> QED
        BY <4>2, <4>3 DEF Exempt, Halved
    <3> QED
      BY <2>2, <3>1, <3>2 DEF Halfway
  <2>3. ASSUME NEW a \in Assistants, NEW b \in Assistants, ~Exempt(a, b)'
        PROVE  \A d \in Calls : /\ Halfway(d, a, b)' <=> Halfway(d, a, b)
                                /\ Halfway(d, b, a)' <=> Halfway(d, b, a)
                                /\ Halfway(d, a, b) => edit'[d] = edit[d]
    BY <1>1, <1>8, <2>2, <2>3
  <2>4. said' = said
    BY DEF Ending
  <2> QED
    BY <2>1, <2>3, <2>4 DEF IInv, Agreement
<1> QED
  BY <1>5, <1>6, <1>7, <1>10, <1>11, <1>12 DEF IInv

-----------------------------------------------------------------------------
(***************************************************************************)
(* Saving, first half: the file is truncated.                              *)
(***************************************************************************)
LEMMA OpenKeeps ==
  ASSUME IInv, NEW c \in Calls, NEW side \in Side, Open(c, side)
  PROVE  IInv'
<1> DEFINE f == edit[c].who[side]
<1>1. pc[c] = OpenStage(side) /\ WriteStage(side) # "over" /\ c \in InFlight
  BY DEF Open, OpenStage, WriteStage, InFlight, Side
<1>2. /\ edit \in [Calls -> Edit \cup {NoEdit}] /\ mem \in [Calls -> [Side -> Peers]]
      /\ pc \in [Calls -> Stage] /\ file \in [Assistants -> File]
  BY DEF IInv, TypeOK
<1>3. f \in Assistants
  BY <1>1, EditFacts DEF IInv, TypeOK
<1>4. edit' = edit /\ mem' = mem /\ pc' = [pc EXCEPT ![c] = WriteStage(side)]
  BY <1>1, <1>2 DEF Open, Goto
<1>5. /\ file'[f] = [state |-> "empty", peers |-> NoPeers]
      /\ \A a \in Assistants : a # f => file'[a] = file[a]
      /\ file' = [file EXCEPT ![f] = [state |-> "empty", peers |-> NoPeers]]
  BY <1>2, <1>3 DEF Open
<1>6. UNCHANGED <<mishaps, damaged, half, said, offered>>
  BY DEF Open
<1>7. pc'[c] = WriteStage(side) /\ \A d \in Calls : d # c => pc'[d] = pc[d]
  BY <1>2, <1>4
<1>8. \/ side = "self" /\ pc[c] = "open self" /\ pc'[c] = "write self"
      \/ side = "peer" /\ pc[c] = "open peer" /\ pc'[c] = "write peer"
  BY <1>1, <1>7 DEF OpenStage, WriteStage, Side
<1>9. InFlight' = InFlight
  <2>1. \A d \in Calls : pc'[d] \notin {"idle", "over"} <=> pc[d] \notin {"idle", "over"}
    BY <1>7, <1>8
  <2> QED
    BY <2>1 DEF InFlight
<1>10. \A b \in Assistants : NoPeers[b] = "stranger"
  BY DEF NoPeers
<1> HIDE DEF f
<1>11. TypeOK'
  <2>1. [state |-> "empty", peers |-> NoPeers] \in File
    BY DEF File, Peers, NoPeers, Entry
  <2>2. file' \in [Assistants -> File]
    BY <1>2, <1>5, <2>1
  <2>3. pc' \in [Calls -> Stage]
    BY <1>2, <1>4 DEF Stage, WriteStage
  <2>4. \A a \in Assistants : file'[a].peers[a] = "stranger"
    BY <1>5, <1>10 DEF IInv, TypeOK
  <2> QED
    BY <1>4, <1>6, <1>9, <2>2, <2>3, <2>4 DEF IInv, TypeOK
<1>12. Sound'
  BY <1>4, <1>5, <1>9 DEF IInv, Sound
<1>13. Offers'
  <2>1. file'[f].peers = NoPeers
    BY <1>5
  <2>2. \A a, b \in Assistants : file'[a].peers[b] = "sharing" => b \in offered[a]
    BY <1>5, <1>10, <2>1 DEF IInv, Offers
  <2> QED
    BY <1>4, <1>6, <1>9, <2>2 DEF IInv, Offers
<1>14. /\ \A d \in Calls, s \in Side : Uses(d, s)' <=> Uses(d, s)
       /\ \A d \in Calls, a \in Assistants : InUse(d, a)' <=> InUse(d, a)
       /\ \A d \in Calls, a, b \in Assistants : Halfway(d, a, b)' <=> Halfway(d, a, b)
       /\ \A d \in Calls, s \in Side, a \in Assistants : d # c => (Writing(d, s, a)' <=> Writing(d, s, a))
       /\ \A s \in Side, a \in Assistants : ~Writing(c, s, a) /\ (Writing(c, s, a)' <=> s = side /\ a = f)
  <2>1. \A s \in Side : Uses(c, s)' <=> Uses(c, s)
    BY <1>4, <1>8 DEF Uses, Side
  <2>2. \A a \in Assistants : InUse(c, a)' <=> InUse(c, a)
    BY <1>4, <2>1 DEF InUse
  <2>3. \A a, b \in Assistants : Halfway(c, a, b)' <=> Halfway(c, a, b)
    BY <1>4, <1>8 DEF Halfway
  <2>4. \A s \in Side, a \in Assistants : ~Writing(c, s, a) /\ (Writing(c, s, a)' <=> s = side /\ a = f)
    <3>1. WriteStage("self") = "write self" /\ WriteStage("peer") = "write peer"
      BY DEF WriteStage
    <3>2. \A s \in Side : pc[c] # WriteStage(s) /\ (pc'[c] = WriteStage(s) <=> s = side)
      BY <1>8, <3>1 DEF Side
    <3>3. f = edit'[c].who[side]
      BY <1>4 DEF f
    <3> QED
      BY <3>2, <3>3 DEF Writing
  <2>5. \A d \in Calls : d # c => pc'[d] = pc[d] /\ edit'[d] = edit[d]
    BY <1>4, <1>7
  <2> QED
    BY <2>1, <2>2, <2>3, <2>4, <2>5, OthersSame
<1>15. Locked'
  <2>1. InUse(c, f)
    BY <1>1, AtWork DEF f
  <2>2. \A d \in Calls, s \in Side : d # c /\ Writing(d, s, f) => f \in damaged
    BY <1>3, <2>1, AtWork DEF IInv, Locked
  <2> QED
    BY <1>3, <1>5, <1>6, <1>14, <2>2 DEF IInv, Locked
<1>16. Effects'
  <2>1. \A a \in Assistants : a # f => Known(a)' = Known(a)
    BY <1>5 DEF Known
  <2>2. \A d \in Calls : \A s : Saves(d, s)' = Saves(d, s)
    BY <1>4 DEF Saves
  <2> QED
    BY <1>4, <1>5, <1>6, <1>14, <2>1, <2>2 DEF IInv, Effects
<1>17. Agreement'
  <2>1. \A a, b : Exempt(a, b)' <=> Exempt(a, b)
    BY <1>6 DEF Exempt, Halved
  <2> QED
    BY <1>4, <1>6, <1>14, <2>1 DEF IInv, Agreement
<1> QED
  BY <1>11, <1>12, <1>13, <1>15, <1>16, <1>17 DEF IInv

-----------------------------------------------------------------------------
(***************************************************************************)
(* A load that is refused ends the call; one that is not leaves the call   *)
(* with the roster to save.                                                *)
(***************************************************************************)
Refused(e, side, readable) ==
  ~Paired(e) /\ Loaded(e.who[side], readable)[e.who[Other(side)]] = "stranger"

\* A refused edit only ends.
LEMMA RefusedEnds ==
  ASSUME IInv, NEW c \in Calls, NEW e, NEW side, NEW readable,
         Loading(c, e, side, readable), Refused(e, side, readable)
  PROVE  Ending({c})
<1>1. Goto(c, e, "over", NoMemory) /\ damaged' = damaged
  BY DEF Loading, Refused, Load
<1>2. pc \in [Calls -> Stage] /\ edit \in [Calls -> Edit \cup {NoEdit}] /\ mem \in [Calls -> [Side -> Peers]]
  BY DEF IInv, TypeOK
<1>3. /\ pc' = [d \in Calls |-> IF d \in {c} THEN "over" ELSE pc[d]]
      /\ edit' = [d \in Calls |-> IF d \in {c} THEN NoEdit ELSE edit[d]]
      /\ mem' = [d \in Calls |-> IF d \in {c} THEN NoMemory ELSE mem[d]]
  BY <1>1, <1>2 DEF Goto
<1>4. pc[c] \in {"idle", "load peer"}
  BY DEF Loading
<1>5. Abandon({c})
  BY <1>1, <1>4 DEF Abandon, WriteStage, Side, Loading
<1>6. mishaps' \in Nat
  <2>1. mishaps \in Nat
    BY DEF IInv, TypeOK
  <2>2. mishaps' = IF readable THEN mishaps ELSE mishaps + 1
    BY DEF Loading, Load
  <2> QED
    BY <2>1, <2>2
<1>7. UNCHANGED <<file, said, offered>>
  BY DEF Loading, Refused
<1> QED
  BY <1>3, <1>5, <1>6, <1>7 DEF Ending

\* An edit that goes on to read keeps the invariant.
LEMMA LoadingKeeps ==
  ASSUME IInv, NEW c \in Calls, NEW e, NEW side, NEW readable,
         Loading(c, e, side, readable), ~Refused(e, side, readable)
  PROVE  IInv'
<1> DEFINE f == e.who[side]
           o == e.who[Other(side)]
           old == Loaded(f, readable)
           new == Edited(e, side, old)
           next == NextStage(e, side)
<1>1. e \in Edit /\ side \in Side /\ readable \in BOOLEAN
  BY DEF Loading
<1>2. f \in Assistants /\ o \in Assistants
  BY <1>1, EditFacts
<1>3. /\ edit \in [Calls -> Edit \cup {NoEdit}] /\ mem \in [Calls -> [Side -> Peers]]
      /\ pc \in [Calls -> Stage] /\ file \in [Assistants -> File] /\ mishaps \in Nat
      /\ damaged \subseteq Assistants
  BY DEF IInv, TypeOK
<1>4. old \in Peers /\ old[f] = "stranger"
  <2>1. NoPeers \in Peers /\ NoPeers[f] = "stranger"
    BY <1>2 DEF NoPeers, Peers, Entry
  <2>2. file[f].peers \in Peers /\ file[f].peers[f] = "stranger"
    BY <1>2, <1>3 DEF IInv, TypeOK, File
  <2> QED
    BY <2>1, <2>2 DEF Loaded
<1>5. \A b \in Assistants : old[b] = "sharing" => b \in offered[f]
  BY <1>2 DEF Loaded, NoPeers, IInv, Offers
<1>6. /\ \/ side = "self" /\ pc[c] = "idle"
         \/ side = "peer" /\ pc[c] = "load peer" /\ e = edit[c]
      /\ IsInvite(e) => e.who["self"] # e.who["peer"]
      /\ e.kind = "sharing invite" => e.who["peer"] \in offered'[e.who["self"]]
      /\ \A a \in Assistants : offered[a] \subseteq offered'[a]
      /\ offered' \in [Assistants -> SUBSET Assistants]
      /\ UNCHANGED <<file, half, said>>
  BY DEF Loading
<1>7. /\ Goto(c, e, next, [mem[c] EXCEPT ![side] = new])
      /\ damaged' = damaged \cup {g \in {f} : ~readable \/ \E d \in Calls \ {c} : InUse(d, g)}
      /\ mishaps' = IF readable THEN mishaps ELSE mishaps + 1
  BY DEF Loading, Refused, Load
<1>8. next \in {"load peer", "open self", "open peer"} /\ next \in Stage
  BY DEF NextStage, Stage
<1>9. /\ new \in Peers
      /\ {b \in Assistants : new[b] # "stranger"}
            = Says({b \in Assistants : old[b] # "stranger"}, e, o)
      /\ new[f] = "stranger"
      /\ \A b \in Assistants : new[b] = "sharing" => b \in offered'[f]
  <2> HIDE DEF old
  <2>1. /\ Edited(e, side, old) \in Peers
        /\ {b \in Assistants : Edited(e, side, old)[b] # "stranger"}
             = Says({b \in Assistants : old[b] # "stranger"}, e, e.who[Other(side)])
        /\ \A a \in Assistants :
             old[a] = "stranger" /\ (IsInvite(e) => e.who[Other(side)] # a)
               => Edited(e, side, old)[a] = "stranger"
        /\ \A b \in Assistants : Edited(e, side, old)[b] = "sharing" =>
             \/ old[b] = "sharing"
             \/ e.kind = "sharing invite" /\ side = "self" /\ b = e.who["peer"]
    <3> HIDE DEF f, o, new, next
    <3> QED
      BY <1>1, <1>4, EditedFacts
  <2>2. IsInvite(e) => o # f
    BY <1>1, <1>6 DEF Other, Side
  <2>3. new[f] = "stranger"
    BY <1>2, <1>4, <2>1, <2>2
  <2>4. ASSUME NEW b \in Assistants, new[b] = "sharing"
        PROVE  b \in offered'[f]
    <3>1. old[b] = "sharing" \/ (e.kind = "sharing invite" /\ side = "self" /\ b = e.who["peer"])
      BY <2>1, <2>4
    <3> QED
      BY <1>2, <1>5, <1>6, <3>1
  <2> QED
    BY <2>1, <2>3, <2>4
<1> HIDE DEF f, o, old, new, next
<1>10. /\ pc' = [pc EXCEPT ![c] = next] /\ edit' = [edit EXCEPT ![c] = e]
       /\ mem' = [mem EXCEPT ![c] = [mem[c] EXCEPT ![side] = new]]
  BY <1>7, <1>8 DEF Goto
<1>11. /\ pc'[c] = next /\ edit'[c] = e
       /\ mem'[c][side] = new /\ \A s \in Side : s # side => mem'[c][s] = mem[c][s]
       /\ \A d \in Calls : d # c => pc'[d] = pc[d] /\ edit'[d] = edit[d] /\ mem'[d] = mem[d]
  BY <1>1, <1>3, <1>10
<1>12. /\ c \in InFlight'
       /\ \A d \in Calls : d # c => (d \in InFlight' <=> d \in InFlight)
  BY <1>8, <1>11 DEF InFlight
<1>13. TypeOK'
  <2>1. mem' \in [Calls -> [Side -> Peers]]
    BY <1>1, <1>3, <1>9, <1>10
  <2>2. pc' \in [Calls -> Stage] /\ edit' \in [Calls -> Edit \cup {NoEdit}]
    BY <1>1, <1>3, <1>8, <1>10
  <2>3. mishaps' \in Nat /\ damaged' \subseteq Assistants
    BY <1>2, <1>3, <1>7
  <2>4. \A d \in InFlight' : edit'[d] \in Edit
    BY <1>1, <1>11, <1>12 DEF IInv, TypeOK, InFlight
  <2> QED
    BY <1>6, <2>1, <2>2, <2>3, <2>4 DEF IInv, TypeOK
<1>14. \A s \in Side : s # side => mem[c][s][e.who[s]] = "stranger"
  <2>1. CASE pc[c] = "idle"
    <3>1. mem[c] = NoMemory
      BY <2>1 DEF IInv, Sound, InFlight
    <3> QED
      BY <1>1, <3>1, EditFacts DEF NoMemory, NoPeers
  <2>2. CASE pc[c] = "load peer" /\ e = edit[c]
    BY <2>2 DEF IInv, Sound, InFlight
  <2> QED
    BY <1>6, <2>1, <2>2
<1>15. Sound'
  <2>1. \A s \in Side : mem'[c][s][edit'[c].who[s]] = "stranger"
    BY <1>9, <1>11, <1>14 DEF f
  <2>2. ASSUME NEW d \in InFlight'
        PROVE  /\ IsInvite(edit'[d]) => edit'[d].who["self"] # edit'[d].who["peer"]
               /\ \A s \in Side : mem'[d][s][edit'[d].who[s]] = "stranger"
    <3>1. CASE d = c
      BY <1>6, <1>11, <2>1, <3>1
    <3>2. CASE d # c
      <4>1. d \in InFlight /\ edit'[d] = edit[d] /\ mem'[d] = mem[d]
        BY <1>11, <1>12, <3>2 DEF InFlight
      <4> QED
        BY <4>1 DEF IInv, Sound
    <3> QED
      BY <3>1, <3>2
  <2>3. \A d \in Calls : d \notin InFlight' => mem'[d] = NoMemory /\ edit'[d] = NoEdit
    BY <1>11, <1>12 DEF IInv, Sound
  <2> QED
    BY <1>6, <2>2, <2>3 DEF IInv, Sound, NoMemory, NoPeers, NoEdit
<1>16. Offers'
  <2>1. \A s \in Side, b \in Assistants : s # side => mem[c][s][b] # "sharing" \/ b \in offered[e.who[s]]
    <3>1. CASE pc[c] = "idle"
      <4>1. mem[c] = NoMemory
        BY <3>1 DEF IInv, Sound, InFlight
      <4> QED
        BY <4>1 DEF NoMemory, NoPeers
    <3>2. CASE pc[c] = "load peer" /\ e = edit[c]
      BY <3>2 DEF IInv, Offers, InFlight
    <3> QED
      BY <1>6, <3>1, <3>2
  <2>2. \A s \in Side, b \in Assistants : mem'[c][s][b] = "sharing" => b \in offered'[e.who[s]]
    BY <1>1, <1>6, <1>9, <1>11, <2>1, EditFacts DEF f
  <2>3. ASSUME NEW d \in InFlight', d # c
        PROVE  /\ edit'[d].kind = "sharing invite" => edit'[d].who["peer"] \in offered'[edit'[d].who["self"]]
               /\ \A s \in Side, b \in Assistants :
                    mem'[d][s][b] = "sharing" => b \in offered'[edit'[d].who[s]]
    <3>1. d \in InFlight /\ d \in Calls /\ edit'[d] = edit[d] /\ mem'[d] = mem[d]
      BY <1>11, <1>12, <2>3 DEF InFlight
    <3>2. /\ edit[d].kind = "sharing invite" => edit[d].who["peer"] \in offered[edit[d].who["self"]]
          /\ \A s \in Side, b \in Assistants :
               mem[d][s][b] = "sharing" => b \in offered[edit[d].who[s]]
      BY <3>1 DEF IInv, Offers
    <3>3. edit[d] \in Edit
      BY <3>1 DEF IInv, TypeOK
    <3> QED
      BY <1>6, <3>1, <3>2, <3>3, EditFacts
  <2>4. \A a, b \in Assistants : file'[a].peers[b] = "sharing" => b \in offered'[a]
    BY <1>6 DEF IInv, Offers
  <2> QED
    BY <1>6, <1>11, <2>2, <2>3, <2>4 DEF Offers
<1>17. /\ \A s \in Side : Uses(c, s)' => s = side \/ (Uses(c, s) /\ e = edit[c])
       /\ \A s \in Side : \A a : ~Writing(c, s, a) /\ ~Writing(c, s, a)'
       /\ \A a, b : ~Halfway(c, a, b) /\ ~Halfway(c, a, b)'
  <2>1. \/ side = "self" /\ pc[c] = "idle" /\ pc'[c] = IF Paired(e) THEN "load peer" ELSE "open self"
        \/ /\ side = "peer" /\ pc[c] = "load peer" /\ e = edit[c]
           /\ pc'[c] = IF Paired(e) THEN "open self" ELSE "open peer"
    BY <1>6, <1>11 DEF next, NextStage
  <2>2. \A s \in Side : Uses(c, s)' => s = side \/ (Uses(c, s) /\ e = edit[c])
    BY <1>11, <2>1 DEF Uses, Side
  <2>3. \A s \in Side : \A a : ~Writing(c, s, a) /\ ~Writing(c, s, a)'
    BY <2>1 DEF Writing, WriteStage, Side
  <2>4. \A a, b : ~Halfway(c, a, b) /\ ~Halfway(c, a, b)'
    BY <1>11, <2>1 DEF Halfway
  <2> QED
    BY <2>2, <2>3, <2>4
<1>18. \A d \in Calls : d # c =>
         /\ \A s \in Side : Uses(d, s)' <=> Uses(d, s)
         /\ \A a : InUse(d, a)' <=> InUse(d, a)
         /\ \A s \in Side : \A a : Writing(d, s, a)' <=> Writing(d, s, a)
         /\ \A a, b : Halfway(d, a, b)' <=> Halfway(d, a, b)
  BY <1>11, OthersSame
<1>19. \A a : InUse(c, a)' => a = f \/ InUse(c, a)
  BY <1>11, <1>17 DEF InUse, f
<1>20. /\ damaged \subseteq damaged'
       /\ f \notin damaged' => readable /\ \A d \in Calls : d # c => ~InUse(d, f)
  BY <1>7
<1>21. Locked'
  <2>1. ASSUME NEW a \in Assistants, NEW d \in Calls, d # c, InUse(c, a)', InUse(d, a)
        PROVE  a \in damaged'
    BY <1>19, <1>20, <2>1 DEF IInv, Locked
  <2>2. \A a \in Assistants : \A d1, d2 \in Calls :
          d1 # d2 /\ InUse(d1, a)' /\ InUse(d2, a)' => a \in damaged'
    BY <1>18, <1>20, <2>1 DEF IInv, Locked
  <2>3. \A d \in Calls, s \in Side, a \in Assistants : Writing(d, s, a)' <=> Writing(d, s, a)
    BY <1>17, <1>18
  <2> QED
    BY <1>6, <1>20, <2>2, <2>3 DEF IInv, Locked
<1>22. Effects'
  <2>1. ASSUME f \notin damaged'
        PROVE  new \in Peers /\ {b \in Assistants : new[b] # "stranger"} = Says(said[f], e, o)
    <3>1. file[f].state = "whole"
      <4>1. SUFFICES ASSUME file[f].state # "whole" PROVE FALSE
        OBVIOUS
      <4>2. PICK d \in Calls, s \in Side : Writing(d, s, f)
        BY <1>2, <1>20, <2>1, <4>1 DEF IInv, Locked
      <4>3. InUse(d, f) /\ d # c
        BY <1>17, <4>2, AtWork
      <4> QED
        BY <1>20, <2>1, <4>3
    <3>2. old = file[f].peers
      BY <1>20, <2>1, <3>1 DEF old, Loaded
    <3>3. Known(f) = said[f]
      BY <1>2, <1>20, <2>1, <3>1 DEF IInv, Effects
    <3> QED
      BY <1>9, <3>2, <3>3 DEF Known
  <2>2. \A a : Known(a)' = Known(a)
    BY <1>6 DEF Known
  <2>3. \A d \in Calls : \A s : d # c => Saves(d, s)' = Saves(d, s)
    BY <1>11 DEF Saves
  <2>4. Saves(c, side)' = {b \in Assistants : new[b] # "stranger"}
    BY <1>11 DEF Saves
  <2>5. \A s \in Side : s # side => Saves(c, s)' = Saves(c, s)
    BY <1>11 DEF Saves
  <2>6. \A a \in Assistants : a \notin damaged' /\ file'[a].state = "whole" => Known(a)' = said'[a]
    BY <1>6, <1>20, <2>2 DEF IInv, Effects
  <2>7. ASSUME NEW a \in Assistants, a \notin damaged', NEW d \in Calls, NEW s \in Side,
               Uses(d, s)', edit'[d].who[s] = a
        PROVE  Saves(d, s)' = Says(said'[a], edit'[d], edit'[d].who[Other(s)])
    <3>1. CASE d # c
      BY <1>6, <1>11, <1>18, <1>20, <2>3, <2>7, <3>1 DEF IInv, Effects
    <3>2. CASE d = c /\ s = side
      BY <1>6, <1>11, <2>1, <2>4, <2>7, <3>2 DEF f, o
    <3>3. CASE d = c /\ s # side
      <4>1. Uses(c, s) /\ e = edit[c] /\ edit'[c] = edit[c]
        BY <1>11, <1>17, <2>7, <3>3
      <4>2. Saves(c, s) = Says(said[a], edit[c], edit[c].who[Other(s)])
        BY <1>20, <2>7, <3>3, <4>1 DEF IInv, Effects
      <4> QED
        BY <1>6, <2>5, <3>3, <4>1, <4>2
    <3> QED
      BY <3>1, <3>2, <3>3
  <2> QED
    BY <2>6, <2>7 DEF Effects
<1>23. Agreement'
  <2>1. \A a, b : Exempt(a, b) => Exempt(a, b)'
    BY <1>6, <1>20 DEF Exempt, Halved
  <2>2. \A d \in Calls, a, b \in Assistants :
          /\ Halfway(d, a, b)' <=> Halfway(d, a, b)
          /\ Halfway(d, a, b) => edit'[d] = edit[d]
    BY <1>11, <1>17, <1>18
  <2>3. said' = said
    BY <1>6
  <2> QED
    BY <2>1, <2>2, <2>3 DEF IInv, Agreement
<1> QED
  BY <1>13, <1>15, <1>16, <1>21, <1>22, <1>23 DEF IInv

-----------------------------------------------------------------------------
(***************************************************************************)
(* Saving, second half: the roster is written, and the call goes on to the *)
(* other side or ends.                                                     *)
(***************************************************************************)
LEMMA WriteKeeps ==
  ASSUME IInv, NEW c \in Calls, NEW side \in Side, Write(c, side)
  PROVE  IInv'
<1>e. PICK e, f, o : e = edit[c] /\ f = e.who[side] /\ o = e.who[Other(side)]
  OBVIOUS
<1> DEFINE next == IF side = "self" THEN AfterSelf(e) ELSE "over"
<1>1. /\ \/ side = "self" /\ pc[c] = "write self"
         \/ side = "peer" /\ pc[c] = "write peer"
      /\ c \in InFlight
  BY DEF Write, WriteStage, InFlight, Side
<1>2. /\ edit \in [Calls -> Edit \cup {NoEdit}] /\ mem \in [Calls -> [Side -> Peers]]
      /\ pc \in [Calls -> Stage] /\ file \in [Assistants -> File]
      /\ said \in [Assistants -> SUBSET Assistants]
  BY DEF IInv, TypeOK
<1>3. e \in Edit
  BY <1>e, <1>1 DEF IInv, TypeOK
<1>4. f \in Assistants /\ o \in Assistants
  BY <1>e, <1>1, <1>3, EditFacts DEF Side
<1>5. /\ side = "self" /\ Paired(e) => next = "open peer"
      /\ ~(side = "self" /\ Paired(e)) => next \in {"over", "load peer"}
      /\ next = "load peer" => ~Paired(e)
  BY DEF AfterSelf
<1>6. /\ \/ file' = [file EXCEPT ![f] = [state |-> "whole", peers |-> mem[c][side]]]
         \/ /\ file[f].state # "empty"
            /\ file' = [file EXCEPT ![f] = [state |-> "garbage", peers |-> NoPeers]]
      /\ Goto(c, e, next, [mem[c] EXCEPT ![side] = NoPeers])
      /\ said' = [said EXCEPT ![f] = Says(said[f], e, o)]
      /\ UNCHANGED <<mishaps, damaged, half, offered>>
  BY <1>e DEF Write
<1>7. mem[c][side] \in Peers /\ mem[c][side][f] = "stranger"
  BY <1>e, <1>1, <1>2 DEF IInv, Sound
<1>8. NoPeers \in Peers /\ \A b \in Assistants : NoPeers[b] = "stranger"
  BY DEF NoPeers, Peers, Entry
<1> HIDE DEF next
<1>9. /\ pc' = [pc EXCEPT ![c] = next]
      /\ edit' = [edit EXCEPT ![c] = IF next = "over" THEN NoEdit ELSE e]
      /\ mem' = [mem EXCEPT ![c] = IF next = "over" THEN NoMemory ELSE [mem[c] EXCEPT ![side] = NoPeers]]
  BY <1>6 DEF Goto
<1>10. /\ pc'[c] = next
       /\ edit'[c] = IF next = "over" THEN NoEdit ELSE e
       /\ mem'[c] = IF next = "over" THEN NoMemory ELSE [mem[c] EXCEPT ![side] = NoPeers]
       /\ \A d \in Calls : d # c => pc'[d] = pc[d] /\ edit'[d] = edit[d] /\ mem'[d] = mem[d]
  BY <1>2, <1>9
<1>11. /\ mem[c] \in [Side -> Peers]
       /\ next # "over" => mem'[c][side] = NoPeers /\ \A s \in Side : s # side => mem'[c][s] = mem[c][s]
  BY <1>2, <1>10
<1>12. /\ \A d \in Calls : d # c => (d \in InFlight' <=> d \in InFlight)
       /\ c \in InFlight' <=> next # "over"
  BY <1>5, <1>10 DEF InFlight
<1>13. \A a \in Assistants : a # f => file'[a] = file[a] /\ said'[a] = said[a]
  BY <1>2, <1>6
<1>14. /\ \/ file'[f] = [state |-> "whole", peers |-> mem[c][side]]
          \/ file[f].state # "empty" /\ file'[f] = [state |-> "garbage", peers |-> NoPeers]
       /\ said'[f] = Says(said[f], e, o)
  BY <1>2, <1>4, <1>6
<1>15. /\ file'[f].peers \in {mem[c][side], NoPeers}
       /\ file'[f].state \in {"whole", "garbage"}
       /\ file'[f].state = "whole" => file'[f].peers = mem[c][side]
       /\ file'[f].state = "garbage" => file'[f].peers = NoPeers /\ file[f].state # "empty"
  BY <1>14
<1>16. TypeOK'
  <2>1. file' \in [Assistants -> File]
    <3>1. /\ [state |-> "whole", peers |-> mem[c][side]] \in File
          /\ [state |-> "garbage", peers |-> NoPeers] \in File
      BY <1>7, <1>8 DEF File
    <3> QED
      BY <1>2, <1>4, <1>6, <3>1
  <2>2. pc' \in [Calls -> Stage]
    BY <1>2, <1>5, <1>9 DEF Stage
  <2>3. edit' \in [Calls -> Edit \cup {NoEdit}]
    BY <1>2, <1>3, <1>9
  <2>4. mem' \in [Calls -> [Side -> Peers]]
    BY <1>2, <1>8, <1>9 DEF NoMemory
  <2>5. said' \in [Assistants -> SUBSET Assistants]
    <3>1. Says(said[f], e, o) \subseteq Assistants
      BY <1>2, <1>4 DEF Says
    <3> QED
      BY <1>2, <1>6, <3>1
  <2>6. \A d \in InFlight' : edit'[d] \in Edit
    BY <1>3, <1>10, <1>12 DEF IInv, TypeOK, InFlight
  <2>7. \A a \in Assistants : file'[a].peers[a] = "stranger"
    BY <1>7, <1>8, <1>13, <1>15 DEF IInv, TypeOK
  <2> QED
    BY <1>6, <2>1, <2>2, <2>3, <2>4, <2>5, <2>6, <2>7 DEF IInv, TypeOK
<1>17. Sound'
  <2>1. ASSUME NEW d \in InFlight'
        PROVE  /\ IsInvite(edit'[d]) => edit'[d].who["self"] # edit'[d].who["peer"]
               /\ \A s \in Side : mem'[d][s][edit'[d].who[s]] = "stranger"
    <3>1. CASE d = c
      <4>1. edit'[c] = edit[c] /\ next # "over"
        BY <1>e, <1>10, <1>12, <2>1, <3>1
      <4>2. \A s \in Side : edit[c].who[s] \in Assistants
        BY <1>e, <1>3, EditFacts
      <4>3. \A s \in Side : mem[c][s][edit[c].who[s]] = "stranger"
        BY <1>1 DEF IInv, Sound
      <4>4. \A s \in Side : mem'[c][s][edit[c].who[s]] = "stranger"
        BY <1>8, <1>11, <4>1, <4>2, <4>3
      <4> QED
        BY <1>1, <3>1, <4>1, <4>4 DEF IInv, Sound
    <3>2. CASE d # c
      <4>1. d \in InFlight /\ edit'[d] = edit[d] /\ mem'[d] = mem[d]
        BY <1>10, <1>12, <3>2 DEF InFlight
      <4> QED
        BY <4>1 DEF IInv, Sound
    <3> QED
      BY <3>1, <3>2
  <2>2. \A d \in Calls : d \notin InFlight' => mem'[d] = NoMemory /\ edit'[d] = NoEdit
    BY <1>10, <1>12 DEF IInv, Sound
  <2>3. \A a \in Assistants : file'[a].state # "whole" => file'[a].peers = NoPeers
    BY <1>13, <1>15 DEF IInv, Sound
  <2> QED
    BY <2>1, <2>2, <2>3 DEF Sound, NoMemory, NoPeers, NoEdit
<1>18. Offers'
  <2>1. \A b \in Assistants : mem[c][side][b] = "sharing" => b \in offered[f]
    BY <1>e, <1>1 DEF IInv, Offers
  <2>2. \A a, b \in Assistants : file'[a].peers[b] = "sharing" => b \in offered[a]
    BY <1>8, <1>13, <1>15, <2>1 DEF IInv, Offers
  <2>3. ASSUME NEW d \in InFlight'
        PROVE  /\ edit'[d] = edit[d] /\ d \in InFlight
               /\ \A s \in Side, b \in Assistants : mem'[d][s][b] = "sharing" => mem[d][s][b] = "sharing"
    <3>1. CASE d = c
      BY <1>e, <1>1, <1>8, <1>10, <1>11, <1>12, <2>3, <3>1
    <3>2. CASE d # c
      BY <1>10, <1>12, <3>2 DEF InFlight
    <3> QED
      BY <3>1, <3>2
  <2>4. offered' = offered
    BY <1>6
  <2>5. \A d \in InFlight' :
          edit'[d].kind = "sharing invite" => edit'[d].who["peer"] \in offered[edit'[d].who["self"]]
    BY <2>3 DEF IInv, Offers
  <2>6. ASSUME NEW d \in InFlight', NEW s \in Side, NEW b \in Assistants, mem'[d][s][b] = "sharing"
        PROVE  b \in offered[edit'[d].who[s]]
    <3>1. mem[d][s][b] = "sharing" /\ d \in InFlight /\ edit'[d] = edit[d]
      BY <2>3, <2>6
    <3> QED
      BY <3>1 DEF IInv, Offers
  <2> QED
    BY <2>2, <2>4, <2>5, <2>6 DEF Offers
<1>19. /\ Uses(c, side) /\ InUse(c, f)
       /\ \A s \in Side : Uses(c, s)' => /\ s = "peer" /\ side = "self" /\ Paired(e)
                                         /\ Uses(c, s) /\ edit'[c] = e /\ mem'[c][s] = mem[c][s]
       /\ \A s \in Side : \A a : ~Writing(c, s, a)' /\ (Writing(c, s, a) => a = f)
       /\ \A a, b : Halfway(c, a, b)' => side = "self" /\ Paired(e) /\ a = f /\ b = o
       /\ side = "self" /\ Paired(e) => Halfway(c, f, o)'
       /\ \A a, b : Halfway(c, a, b) => side = "peer" /\ a = o /\ b = f
       /\ side = "peer" /\ Paired(e) => Halfway(c, o, f)
  <2>1. /\ side = "self" => f = e.who["self"] /\ o = e.who["peer"]
        /\ side = "peer" => f = e.who["peer"] /\ o = e.who["self"]
    BY <1>e DEF Other
  <2>2. Uses(c, side) /\ InUse(c, f)
    BY <1>e, <1>1 DEF Uses, InUse, Side
  <2>3. ASSUME NEW s \in Side, Uses(c, s)'
        PROVE  /\ s = "peer" /\ side = "self" /\ Paired(e)
               /\ Uses(c, s) /\ edit'[c] = e /\ mem'[c][s] = mem[c][s]
    <3>1. pc'[c] = "open peer" /\ s = "peer" /\ side = "self" /\ Paired(e)
      BY <1>1, <1>5, <1>10, <2>3 DEF Uses, Side
    <3>2. next # "over"
      BY <1>10, <3>1
    <3> QED
      BY <1>e, <1>1, <1>10, <1>11, <3>1, <3>2 DEF Uses
  <2>4. \A s \in Side : \A a : ~Writing(c, s, a)'
    BY <1>5, <1>10 DEF Writing, WriteStage
  <2>5. \A s \in Side : \A a : Writing(c, s, a) => a = f
    BY <1>e, <1>1 DEF Writing, WriteStage, Side
  <2>6. \A a, b : Halfway(c, a, b)' => side = "self" /\ Paired(e) /\ a = f /\ b = o
    BY <1>1, <1>5, <1>10, <2>1 DEF Halfway
  <2>7. side = "self" /\ Paired(e) => Halfway(c, f, o)'
    BY <1>5, <1>10, <2>1 DEF Halfway
  <2>8. \A a, b : Halfway(c, a, b) => side = "peer" /\ a = o /\ b = f
    BY <1>e, <1>1, <2>1 DEF Halfway
  <2>9. side = "peer" /\ Paired(e) => Halfway(c, o, f)
    BY <1>e, <1>1, <2>1 DEF Halfway
  <2> QED
    BY <2>2, <2>3, <2>4, <2>5, <2>6, <2>7, <2>8, <2>9
<1>20. \A d \in Calls : d # c =>
         /\ \A s \in Side : Uses(d, s)' <=> Uses(d, s)
         /\ \A a : InUse(d, a)' <=> InUse(d, a)
         /\ \A s \in Side : \A a : Writing(d, s, a)' <=> Writing(d, s, a)
         /\ \A a, b : Halfway(d, a, b)' <=> Halfway(d, a, b)
  BY <1>10, OthersSame
<1>21. \A a \in Assistants : InUse(c, a)' => InUse(c, a)
  BY <1>e, <1>19 DEF InUse
<1>22. f \notin damaged => \A d \in Calls : d # c => ~InUse(d, f)
  BY <1>4, <1>19 DEF IInv, Locked
<1>23. Locked'
  <2>1. \A a \in Assistants : \A d1, d2 \in Calls :
          d1 # d2 /\ InUse(d1, a)' /\ InUse(d2, a)' => a \in damaged'
    BY <1>6, <1>20, <1>21 DEF IInv, Locked
  <2>2. ASSUME NEW a \in Assistants, a \notin damaged, file'[a].state # "whole"
        PROVE  \E d \in Calls, s \in Side : Writing(d, s, a)'
    <3>1. CASE a = f
      <4>1. Writing(c, side, f)
        BY <1>e, <1>1 DEF Writing, WriteStage
      <4>2. file[f].state = "empty"
        BY <1>4, <2>2, <3>1, <4>1 DEF IInv, Locked
      <4> QED
        BY <1>15, <2>2, <3>1, <4>2
    <3>2. CASE a # f
      <4>1. PICK d \in Calls, s \in Side : Writing(d, s, a)
        BY <1>13, <2>2, <3>2 DEF IInv, Locked
      <4> QED
        BY <1>19, <1>20, <3>2, <4>1
    <3> QED
      BY <3>1, <3>2
  <2>3. ASSUME NEW d \in Calls, NEW s \in Side, NEW a \in Assistants,
               a \notin damaged, Writing(d, s, a)'
        PROVE  file'[a].state = "empty"
    <3>1. d # c /\ Writing(d, s, a)
      BY <1>19, <1>20, <2>3
    <3>2. a # f
      BY <1>22, <2>3, <3>1, AtWork
    <3> QED
      BY <1>13, <2>3, <3>1, <3>2 DEF IInv, Locked
  <2> QED
    BY <1>6, <2>1, <2>2, <2>3 DEF Locked
<1>24. Effects'
  <2>1. f \notin damaged => Saves(c, side) = said'[f]
    BY <1>e, <1>4, <1>14, <1>19 DEF IInv, Effects
  <2>2. \A a \in Assistants : a # f => Known(a)' = Known(a)
    BY <1>13 DEF Known
  <2>3. file'[f].state = "whole" => Known(f)' = Saves(c, side)
    BY <1>15 DEF Known, Saves
  <2>4. ASSUME NEW a \in Assistants, a \notin damaged, file'[a].state = "whole"
        PROVE  Known(a)' = said'[a]
    BY <1>13, <2>1, <2>2, <2>3, <2>4 DEF IInv, Effects
  <2>5. ASSUME NEW a \in Assistants, a \notin damaged, NEW d \in Calls, NEW s \in Side,
               Uses(d, s)', edit'[d].who[s] = a
        PROVE  Saves(d, s)' = Says(said'[a], edit'[d], edit'[d].who[Other(s)])
    <3>1. CASE d # c
      <4>1. Uses(d, s) /\ edit'[d] = edit[d] /\ Saves(d, s)' = Saves(d, s)
        BY <1>10, <1>20, <2>5, <3>1 DEF Saves
      <4>2. a # f
        BY <1>22, <2>5, <3>1, <4>1 DEF InUse
      <4> QED
        BY <1>13, <2>5, <4>1, <4>2 DEF IInv, Effects
    <3>2. CASE d = c
      <4>1. Uses(c, s) /\ edit'[c] = edit[c] /\ Saves(c, s)' = Saves(c, s) /\ s = "peer" /\ side = "self"
        BY <1>e, <1>19, <2>5, <3>2 DEF Saves
      <4>2. Saves(c, s) = Says(said[a], edit[c], edit[c].who[Other(s)])
        BY <2>5, <3>2, <4>1 DEF IInv, Effects
      <4>3. CASE a # f
        BY <1>13, <3>2, <4>1, <4>2, <4>3
      <4>4. CASE a = f
        <5>1. o = f /\ edit[c].who[Other(s)] = f
          BY <1>e, <2>5, <3>2, <4>1, <4>4 DEF Other
        <5>2. said'[f] = Says(said[f], edit[c], f)
          BY <1>e, <1>14, <5>1
        <5>3. Says(Says(said[f], edit[c], f), edit[c], f) = Says(said[f], edit[c], f)
          BY DEF Says
        <5> QED
          BY <3>2, <4>1, <4>2, <4>4, <5>1, <5>2, <5>3
      <4> QED
        BY <4>3, <4>4
    <3> QED
      BY <3>1, <3>2
  <2> QED
    BY <1>6, <2>4, <2>5 DEF Effects
<1>25. Agreement'
  <2>1. \A a, b : Exempt(a, b)' <=> Exempt(a, b)
    BY <1>6 DEF Exempt, Halved
  <2>2. \A d \in Calls : \A a, b : Halfway(d, a, b) => edit'[d] = edit[d] \/ d = c
    BY <1>10
  <2>3. IsInvite(e) => Paired(e)
    BY DEF Paired
  <2>4. ~Paired(e) => said'[f] = said[f]
    BY <1>14 DEF Says, Paired
  <2>5. Paired(e) => (o \in said'[f] <=> IsInvite(e))
    BY <1>4, <1>14 DEF Says, Paired, IsInvite
  <2>6. \A x \in Assistants : x # o => (x \in said'[f] <=> x \in said[f])
    BY <1>14 DEF Says
  \* A pair this write says nothing of.
  <2>7. ASSUME NEW a \in Assistants, NEW b \in Assistants, ~Exempt(a, b),
               ~Paired(e) \/ ~((a = f /\ b = o) \/ (a = o /\ b = f))
        PROVE  /\ (b \in said'[a] <=> b \in said[a]) /\ (a \in said'[b] <=> a \in said[b])
               /\ \A d \in Calls : /\ Halfway(d, a, b)' <=> Halfway(d, a, b)
                                   /\ Halfway(d, b, a)' <=> Halfway(d, b, a)
                                   /\ Halfway(d, a, b) => d # c
    <3>1. (b \in said'[a] <=> b \in said[a]) /\ (a \in said'[b] <=> a \in said[b])
      BY <1>13, <2>4, <2>6, <2>7
    <3>2. \A x, y : Halfway(c, x, y) => Paired(e)
      BY <1>e DEF Halfway
    <3>3. \A x, y \in {a, b} : Halfway(c, x, y) \/ Halfway(c, x, y)' => x = y
      BY <1>19, <2>7, <3>2
    <3>4. ~Halfway(c, a, b) /\ ~Halfway(c, a, b)' /\ ~Halfway(c, b, a) /\ ~Halfway(c, b, a)'
      BY <1>19, <2>7, <3>2
    <3> QED
      BY <1>20, <3>1, <3>4
  \* The pair it is about.
  <2>8. ASSUME Paired(e), ~Exempt(f, o), NEW d \in Calls, d # c
        PROVE  ~Halfway(d, f, o) /\ ~Halfway(d, o, f)
    <3>1. f \notin damaged /\ o \notin damaged
      BY <2>8 DEF Exempt
    <3>2. ~Halfway(d, o, f)
      BY <1>22, <2>8, <3>1, AtWork
    <3>3. ~Halfway(d, f, o)
      <4>1. CASE side = "self"
        <5>1. InUse(c, o)
          BY <1>e, <1>1, <2>8, <4>1 DEF InUse, Uses, Side, Other
        <5>2. ~InUse(d, o)
          BY <1>4, <2>8, <3>1, <5>1 DEF IInv, Locked
        <5> QED
          BY <5>2, AtWork
      <4>2. CASE side = "peer"
        <5>1. Halfway(c, o, f) /\ ~Exempt(o, f)
          BY <1>19, <2>8, <4>2 DEF Exempt, Halved
        <5> QED
          BY <1>4, <2>8, <5>1 DEF IInv, Agreement
      <4> QED
        BY <1>1, <4>1, <4>2
    <3> QED
      BY <3>2, <3>3
  <2>9. ASSUME Paired(e), ~Exempt(f, o), side = "self"
        PROVE  /\ \A d \in Calls : Halfway(d, f, o)' \/ Halfway(d, o, f)' => d = c
               /\ Halfway(c, f, o)' /\ edit'[c] = e
               /\ Halfway(c, o, f)' => o = f
    BY <1>5, <1>10, <1>19, <1>20, <2>8, <2>9
  <2>10. ASSUME Paired(e), ~Exempt(f, o), side = "peer"
         PROVE  /\ \A d \in Calls : ~Halfway(d, f, o)' /\ ~Halfway(d, o, f)'
                /\ o \in said'[f] <=> f \in said'[o]
    <3>1. \A d \in Calls : ~Halfway(d, f, o)' /\ ~Halfway(d, o, f)'
      BY <1>19, <1>20, <2>8, <2>10
    <3>2. Halfway(c, o, f) /\ ~Exempt(o, f)
      BY <1>19, <2>10 DEF Exempt, Halved
    <3>3. f \in said[o] <=> IsInvite(e)
      BY <1>e, <1>4, <3>2 DEF IInv, Agreement
    <3> QED
      BY <1>4, <1>13, <2>5, <2>10, <3>1, <3>3
  <2>11. ASSUME NEW a \in Assistants, NEW b \in Assistants, ~Exempt(a, b)
         PROVE  /\ \/ b \in said'[a] <=> a \in said'[b]
                   \/ \E d \in Calls : Halfway(d, a, b)' \/ Halfway(d, b, a)'
                /\ \A d \in Calls : Halfway(d, a, b)' =>
                     /\ b \in said'[a] <=> IsInvite(edit'[d])
                     /\ \A d2 \in Calls : Halfway(d2, a, b)' \/ Halfway(d2, b, a)' => d2 = d
    <3>1. CASE ~Paired(e) \/ ~((a = f /\ b = o) \/ (a = o /\ b = f))
      BY <2>2, <2>7, <2>11, <3>1 DEF IInv, Agreement
    <3>2. CASE Paired(e) /\ ((a = f /\ b = o) \/ (a = o /\ b = f)) /\ side = "self"
      <4>1. ~Exempt(f, o)
        BY <2>11, <3>2 DEF Exempt, Halved
      <4> QED
        BY <2>5, <2>9, <3>2, <4>1
    <3>3. CASE Paired(e) /\ ((a = f /\ b = o) \/ (a = o /\ b = f)) /\ side = "peer"
      <4>1. ~Exempt(f, o)
        BY <2>11, <3>3 DEF Exempt, Halved
      <4> QED
        BY <2>10, <3>3, <4>1
    <3> QED
      BY <1>1, <3>1, <3>2, <3>3
  <2> QED
    BY <2>1, <2>11 DEF Agreement
<1> QED
  BY <1>16, <1>17, <1>18, <1>23, <1>24, <1>25 DEF IInv

-----------------------------------------------------------------------------
(***************************************************************************)
(* The invariant and what follows from it.                                 *)
(***************************************************************************)
LEMMA InitInvariant == Init => IInv
<1> SUFFICES ASSUME Init PROVE IInv
  OBVIOUS
<1>1. NoPeers \in Peers /\ \A b \in Assistants : NoPeers[b] = "stranger"
  BY DEF NoPeers, Peers, Entry
<1>2. InFlight = {} /\ \A c \in Calls : pc[c] = "idle"
  BY DEF Init, InFlight
<1>3. \A c \in Calls : /\ \A s \in Side : ~Uses(c, s)
                       /\ \A a : ~InUse(c, a)
                       /\ \A s \in Side : \A a : ~Writing(c, s, a)
                       /\ \A a, b : ~Halfway(c, a, b)
  BY <1>2, AtRest
<1>4. TypeOK
  BY <1>1, <1>2 DEF Init, TypeOK, File, Stage, NoMemory
<1>5. Sound
  BY <1>2 DEF Init, Sound, NoMemory, NoEdit
<1>6. Offers
  BY <1>1, <1>2 DEF Init, Offers
<1>7. Locked
  BY <1>3 DEF Init, Locked
<1>8. Effects
  <2>1. \A a \in Assistants : Known(a) = {} /\ said[a] = {}
    BY <1>1 DEF Init, Known
  <2> QED
    BY <1>3, <2>1 DEF Effects
<1>9. Agreement
  BY <1>3 DEF Init, Agreement
<1> QED
  BY <1>4, <1>5, <1>6, <1>7, <1>8, <1>9 DEF IInv

\* Reading a roster keeps the invariant.
LEMMA LoadKeeps ==
  ASSUME IInv, NEW c \in Calls, NEW e, NEW side, NEW readable, Loading(c, e, side, readable)
  PROVE  IInv'
<1>1. CASE Refused(e, side, readable)
  <2>1. Ending({c})
    BY <1>1, RefusedEnds
  <2> QED
    BY <2>1, EndingKeeps
<1>2. CASE ~Refused(e, side, readable)
  BY <1>2, LoadingKeeps
<1> QED
  BY <1>1, <1>2

\* A save that fails ends its edit.
LEMMA SaveFailsEnds ==
  ASSUME IInv, NEW c \in Calls, SaveFails(c)
  PROVE  Ending({c})
<1>1. Goto(c, edit[c], "over", NoMemory) /\ Abandon({c}) /\ UNCHANGED <<file, said, offered>>
  BY DEF SaveFails
<1>2. pc \in [Calls -> Stage] /\ edit \in [Calls -> Edit \cup {NoEdit}] /\ mem \in [Calls -> [Side -> Peers]]
  BY DEF IInv, TypeOK
<1>3. /\ pc' = [d \in Calls |-> IF d \in {c} THEN "over" ELSE pc[d]]
      /\ edit' = [d \in Calls |-> IF d \in {c} THEN NoEdit ELSE edit[d]]
      /\ mem' = [d \in Calls |-> IF d \in {c} THEN NoMemory ELSE mem[d]]
  BY <1>1, <1>2 DEF Goto
<1>4. mishaps' \in Nat
  BY DEF SaveFails, IInv, TypeOK
<1> QED
  BY <1>1, <1>3, <1>4 DEF Ending

\* A crash ends every edit.
LEMMA CrashEnds ==
  ASSUME IInv, Crash
  PROVE  Ending(InFlight)
<1>1. InFlight \subseteq Calls /\ \A d \in Calls \ InFlight : edit[d] = NoEdit /\ mem[d] = NoMemory
  BY DEF InFlight, IInv, Sound
<1>2. /\ pc' = [d \in Calls |-> IF d \in InFlight THEN "over" ELSE pc[d]]
      /\ edit' = [d \in Calls |-> IF d \in InFlight THEN NoEdit ELSE edit[d]]
      /\ mem' = [d \in Calls |-> IF d \in InFlight THEN NoMemory ELSE mem[d]]
  BY <1>1 DEF Crash
<1>3. mishaps' \in Nat
  BY DEF Crash, IInv, TypeOK
<1> QED
  BY <1>1, <1>2, <1>3 DEF Ending, Crash

\* Every step keeps the invariant.
LEMMA NextInvariant == IInv /\ [Next]_vars => IInv'
<1> SUFFICES ASSUME IInv, [Next]_vars PROVE IInv'
  OBVIOUS
<1>1. ASSUME NEW c \in Calls, NEW a \in Assistants, NEW b \in Assistants, NEW shares \in BOOLEAN,
             NEW readable \in BOOLEAN, Invite(c, a, b, shares, readable)
      PROVE  IInv'
  BY <1>1, InviteLoads, LoadKeeps
<1>2. ASSUME NEW c \in Calls, NEW a \in Assistants, NEW b \in Assistants, NEW readable \in BOOLEAN,
             Revoke(c, a, b, readable)
      PROVE  IInv'
  BY <1>2, RevokeLoads, LoadKeeps
<1>3. ASSUME NEW c \in Calls, NEW a \in Assistants, NEW b \in Assistants, NEW mutual \in BOOLEAN,
             NEW readable \in BOOLEAN, Record(c, a, b, mutual, readable)
      PROVE  IInv'
  BY <1>3, RecordLoads, LoadKeeps
<1>4. ASSUME NEW c \in Calls, NEW readable \in BOOLEAN, LoadPeer(c, readable)
      PROVE  IInv'
  BY <1>4, LoadPeerLoads, LoadKeeps
<1>5. ASSUME NEW c \in Calls, NEW side \in Side, Open(c, side)
      PROVE  IInv'
  BY <1>5, OpenKeeps
<1>6. ASSUME NEW c \in Calls, NEW side \in Side, Write(c, side)
      PROVE  IInv'
  BY <1>6, WriteKeeps
<1>7. ASSUME NEW c \in Calls, SaveFails(c)
      PROVE  IInv'
  BY <1>7, SaveFailsEnds, EndingKeeps
<1>8. ASSUME Crash
      PROVE  IInv'
  <2>1. PICK C : C = InFlight
    OBVIOUS
  <2>2. Ending(C)
    BY <1>8, <2>1, CrashEnds
  <2> QED
    BY <2>2, EndingKeeps
<1>9. CASE UNCHANGED vars
  <2>1. Ending({})
    <3>1. /\ pc' = [d \in Calls |-> IF d \in {} THEN "over" ELSE pc[d]]
          /\ edit' = [d \in Calls |-> IF d \in {} THEN NoEdit ELSE edit[d]]
          /\ mem' = [d \in Calls |-> IF d \in {} THEN NoMemory ELSE mem[d]]
      BY <1>9 DEF vars, IInv, TypeOK
    <3> QED
      BY <1>9, <3>1 DEF Ending, Abandon, vars, IInv, TypeOK
  <2> QED
    BY <2>1, EndingKeeps
<1> QED
  BY <1>1, <1>2, <1>3, <1>4, <1>5, <1>6, <1>7, <1>8, <1>9 DEF Next

\* The invariant always holds.
LEMMA Invariance == Spec => []IInv
BY InitInvariant, NextInvariant, PTL DEF Spec

\* The rosters stay well typed, and nobody becomes a peer of its own
\* (invitePeer refuses it; addPeer would not).
THEOREM RosterTypes == Spec => []TypeOK
<1>1. IInv => TypeOK
  BY DEF IInv
<1> QED
  BY <1>1, Invariance, PTL

\* A roster that no two edits used at once, that was never misread and never
\* left half-written says what the invites and revokes saved to it say.
THEOREM EditsApply == Spec => []EditsTakeEffect
<1>1. IInv => EditsTakeEffect
  <2> SUFFICES ASSUME IInv, NEW a \in Assistants, a \notin damaged, file[a].state = "whole"
               PROVE  {b \in Assistants : Knows(a, b)} = said[a]
    BY DEF EditsTakeEffect
  <2>1. Known(a) = said[a]
    BY DEF IInv, Effects
  <2> QED
    BY <2>1 DEF Known, Knows, Loaded
<1> QED
  BY <1>1, Invariance, PTL

\* Once no edit is at work, two assistants trust each other or neither does,
\* unless an edit of the two ended half-way or one of the files was damaged.
THEOREM MutualTrust == Spec => []MutualUnlessDamaged
<1>1. IInv => MutualUnlessDamaged
  <2> SUFFICES ASSUME IInv, InFlight = {}, NEW a \in Assistants, NEW b \in Assistants,
                      ~Halved(a, b), a \notin damaged, b \notin damaged
               PROVE  Knows(a, b) <=> Knows(b, a)
    BY DEF MutualUnlessDamaged
  <2>1. \A c \in Calls : pc[c] \in {"idle", "over"}
    BY DEF InFlight
  <2>2. \A x \in {a, b} : file[x].state = "whole"
    BY <2>1, AtRest DEF IInv, Locked
  <2>3. \A x \in {a, b} : Known(x) = said[x]
    BY <2>2 DEF IInv, Effects
  <2>4. b \in said[a] <=> a \in said[b]
    BY <2>1, AtRest DEF IInv, Agreement, Exempt
  <2> QED
    BY <2>2, <2>3, <2>4 DEF Known, Knows, Loaded
<1> QED
  BY <1>1, Invariance, PTL

\* Sharing is the owner's word alone: whatever edits overlap, fail or are cut
\* off, a roster shares with a peer only what that owner once offered it.
THEOREM SharingOffered == Spec => []SharesOnlyOffered
<1>1. IInv => SharesOnlyOffered
  <2> SUFFICES ASSUME IInv, NEW a \in Assistants, NEW b \in Assistants, Loaded(a, TRUE)[b] = "sharing"
               PROVE  b \in offered[a]
    BY DEF SharesOnlyOffered
  <2>1. file[a].peers[b] = "sharing"
    BY DEF Loaded, NoPeers
  <2> QED
    BY <2>1 DEF IInv, Offers
<1> QED
  BY <1>1, Invariance, PTL
=============================================================================
