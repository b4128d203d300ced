------------------------------ MODULE Contacts ------------------------------
(***************************************************************************)
(* One owner's contact book (agent/src/assistant/contacts-store.ts), what  *)
(* an invitation brings into it (dashboard.ts, from the inviter's profile  *)
(* of owner-profile.ts), and the mail that is addressed with it            *)
(* (assistant-runtime.ts).                                                 *)
(*                                                                         *)
(* The book is one file.  A change loads it, truncates it and writes it;   *)
(* between those awaits another request may do the same, and a file that   *)
(* is read while truncated counts as an empty book.                        *)
(***************************************************************************)
EXTENDS Naturals, FiniteSets

CONSTANTS
  People,     \* names of contacts
  Nick,       \* an alias that any of them may be given
  Addresses,
  Edits,      \* handlers of requests that change the book, one request each at a time
  MaxEdits,   \* such requests of a behaviour
  Mails,      \* conversations in which the owner asks for a mail, again and again
  MaxStops,   \* restarts of the bridge
  Peer,       \* the handle of an assistant that invites the owner, also as a reference
  Ids,        \* idempotency ids that a planner may write into the arguments of a mail
  Nobody

ASSUME ContactAssumption == Peer # Nobody /\ Nobody \notin Ids

References == People \cup {Nick, Peer}
NoAddress == "none"

VARIABLES
  book,       \* the entries of the file
  torn,       \* edits that have truncated the file and not yet written it
  profile,    \* the inviter's name and address, Nobody if there is none
  edit,       \* [op, stage, entry, next]; next is the book to be written
  mail,       \* [stage, id, about, to]: about is the reference that was resolved
  proposed,   \* 'proposed' audit entries: [token, to]
  written,    \* tokens of the 'written' audit entries
  begun,      \* counts up to MaxEdits
  stops,
  kept,       \* history: names the owner saved last and nobody took away since
  overlapped, \* history: two edits were under way at the same time, or one was cut off
  brought,    \* history: the peer's address, as last invited or as the owner linked it
  doubled,    \* history: the owner linked a second name to the peer, and both stayed
  shown,      \* history: what the owner was shown of each mail
  named       \* history: [id, to] of the mails for which a planner gave an id

mailVars == <<mail, proposed, written, shown, named>>
contactVars == <<book, torn, profile, edit, mailVars, begun, stops, kept, overlapped,
                brought, doubled>>

Entry(name, address, aliases, handle) ==
  [name |-> name, address |-> address, aliases |-> aliases, handle |-> handle]
NoEdit == [op |-> "none", stage |-> "idle", entry |-> Nobody, next |-> {}]
Loaded == IF torn = {} THEN book ELSE {}
Busy == {e \in Edits : edit[e].stage \in {"load", "truncate", "write"}}

ContactInit ==
  /\ book = {} /\ torn = {} /\ profile = Nobody
  /\ edit = [e \in Edits |-> NoEdit]
  /\ mail = [m \in Mails |-> [stage |-> "idle", id |-> Nobody, about |-> Nobody, to |-> NoAddress]]
  /\ proposed = {} /\ written = {} /\ begun = 0 /\ stops = 0
  /\ kept = {} /\ overlapped = FALSE /\ brought = NoAddress /\ doubled = FALSE
  /\ shown = [m \in Mails |-> NoAddress] /\ named = {}

-----------------------------------------------------------------------------
\* saveContact takes the place of an entry of that name; removeContact.
Without(entries, name) == {c \in entries : c.name # name}

\* contactFromPeer: without an address there is nothing to save.
FromPeer(card) == Entry(card.name, card.address, {Peer}, Peer)

Begin(e, op, entry) ==
  /\ edit[e].stage = "idle" /\ begun < MaxEdits /\ begun' = begun + 1
  /\ edit' = [edit EXCEPT ![e] = [op |-> op, stage |-> "load", entry |-> entry, next |-> {}]]
  /\ overlapped' = (overlapped \/ Busy # {})
  /\ brought' = IF entry.handle = Peer THEN entry.address ELSE brought
  /\ UNCHANGED <<book, torn, profile, stops, kept, doubled, mailVars>>

\* apiContactsSave, which may link the entry to a peer, apiContactsRemove, and the
\* invitation of apiAssistantInvite with the card of the inviter's profile.
SaveContact(e, name, address, aliases, handle) ==
  Begin(e, "save", Entry(name, address, aliases, handle))
RemoveContact(e, name) == Begin(e, "remove", Entry(name, NoAddress, {}, Nobody))
Invite(e) ==
  /\ profile # Nobody /\ profile.address # NoAddress
  /\ Begin(e, "invite", FromPeer(profile))

\* upsertPeerContact looks for the handle, then for the name, and takes the first
\* entry there is (the order of the file is left open).
MatchByAddress(entries, entry) == {c \in entries : c.address = entry.address} \* mutant: the address counts
Match(entries, entry) ==
  LET same == {c \in entries : c.handle = entry.handle}
  IN  IF same # {} THEN same ELSE {c \in entries : c.name = entry.name}
\* Refresh the matched entry, which keeps its aliases.
Refresh(entry, match) == [entry EXCEPT !.aliases = @ \cup match.aliases]

\* One loading of the file: the two of a renamed peer come one after the other.
Load(e) ==
  LET entry == edit[e].entry
      found == Match(Loaded, entry)
      goes == [edit[e] EXCEPT !.stage = "truncate"]
  IN  /\ edit[e].stage = "load"
      /\ \/ /\ edit[e].op = "save"
            /\ edit' = [edit EXCEPT ![e] = [goes EXCEPT !.next = Without(Loaded, entry.name) \cup {entry}]]
         \/ /\ edit[e].op = "remove"
            /\ edit' = [edit EXCEPT ![e] = [goes EXCEPT !.next = Without(Loaded, entry.name)]]
         \/ /\ edit[e].op = "invite" /\ found = {}
            /\ edit' = [edit EXCEPT ![e].op = "refresh"]
         \/ /\ edit[e].op = "invite"
            /\ \E match \in found :
                 edit' = [edit EXCEPT ![e] =
                   IF match.name = entry.name
                     THEN [@ EXCEPT !.op = "refresh", !.entry = Refresh(entry, match)]
                     ELSE [goes EXCEPT !.op = "rename", !.entry = Refresh(entry, match),
                                       !.next = Without(Loaded, match.name)]]
         \/ /\ edit[e].op = "refresh"
            /\ edit' = [edit EXCEPT ![e] = [goes EXCEPT !.next = Without(Loaded, entry.name) \cup {entry}]]
      /\ kept' = IF edit[e].op = "invite" /\ edit'[e].op = "rename"
                   THEN kept \ {c.name : c \in Loaded \ edit'[e].next} ELSE kept
      /\ UNCHANGED <<book, torn, profile, begun, stops, overlapped, brought, doubled, mailVars>>

TruncateBook(e) ==
  /\ edit[e].stage = "truncate"
  /\ edit' = [edit EXCEPT ![e].stage = "write"]
  /\ torn' = torn \cup {e}
  /\ UNCHANGED <<book, profile, begun, stops, kept, overlapped, brought, doubled, mailVars>>

\* Whoever writes after somebody else wrote since their truncation may leave
\* the end of a longer book behind, which then reads as empty.  Once the old
\* entry of a renamed peer is gone, load again, and save.
Write(e) ==
  LET entry == edit[e].entry IN
  /\ edit[e].stage = "write"
  /\ book' \in IF e \in torn THEN {edit[e].next} ELSE {edit[e].next, {}}
  /\ torn' = {}
  /\ edit' = [edit EXCEPT ![e] = IF @.op = "rename" THEN [@ EXCEPT !.op = "refresh", !.stage = "load"]
                                                    ELSE NoEdit]
  /\ kept' = CASE edit[e].op = "save" -> kept \cup {entry.name}
               [] edit[e].op \in {"remove", "refresh"} -> kept \ {entry.name}
               [] OTHER -> kept
  /\ doubled' = IF edit[e].op \in {"save", "refresh"} /\ entry.handle = Peer
                   THEN /\ edit[e].op = "save" \/ doubled
                        /\ \E c \in book' : c.handle = Peer /\ c # entry
                   ELSE doubled
  /\ UNCHANGED <<profile, begun, stops, overlapped, brought, mailVars>>

\* saveOwnerProfile replaces the profile as a whole, whatever was left out.
SaveProfile(card) ==
  /\ profile' = card
  /\ UNCHANGED <<book, torn, edit, begun, stops, kept, overlapped, brought, doubled, mailVars>>

\* The bridge stops and starts: what was truncated reads as an empty book.
CutOff ==
  /\ Busy # {} /\ stops < MaxStops /\ stops' = stops + 1
  /\ overlapped' = TRUE
  /\ book' = Loaded /\ torn' = {}
  /\ edit' = [e \in Edits |-> NoEdit]
  /\ UNCHANGED <<profile, begun, kept, brought, doubled, mailVars>>

-----------------------------------------------------------------------------
\* contactMatches, of the name and the aliases.
Knows(c, reference) == c.name = reference \/ reference \in c.aliases

\* The id of a write, of which its token is a hash: what the planner wrote into the
\* arguments, or a hash of them, the address included.
TokenOfRequest(id, about, to) == \* mutant: a hash of the arguments as planned
  IF id = Nobody THEN [id |-> Nobody, about |-> about, to |-> Nobody]
                 ELSE [id |-> id, about |-> Nobody, to |-> Nobody]
Token(id, about, to) ==
  IF id = Nobody THEN [id |-> Nobody, about |-> about, to |-> to]
                 ELSE [id |-> id, about |-> Nobody, to |-> Nobody]

\* resolveEmailRecipientArgs: a reference that one entry matches becomes its
\* address, any other is asked about.
Asked(m, stage, about) ==
  /\ mail' = [mail EXCEPT ![m] = [stage |-> stage, id |-> Nobody, about |-> about, to |-> NoAddress]]
  /\ UNCHANGED <<proposed, written, shown, named>>

\* runWriteIntegration: what was written under the id is reported as done, what was
\* proposed under it stays as it is, and the reply shows the arguments of now.
Show(m, id, about, to) ==
  LET token == Token(id, about, to) IN
  /\ named' = IF id = Nobody THEN named ELSE named \cup {[id |-> id, to |-> to]}
  /\ \/ /\ token \in written
        /\ mail' = [mail EXCEPT ![m] = [stage |-> "done", id |-> id, about |-> about, to |-> to]]
        /\ UNCHANGED <<proposed, shown>>
     \/ /\ token \notin written
        /\ mail' = [mail EXCEPT ![m] = [stage |-> "shown", id |-> id, about |-> about, to |-> to]]
        /\ shown' = [shown EXCEPT ![m] = to]
        /\ proposed' = IF \E p \in proposed : p.token = token THEN proposed
                         ELSE proposed \cup {[token |-> token, to |-> to]}
  /\ UNCHANGED written

Propose(m, id, about) ==
  LET found == {c \in Loaded : Knows(c, about)}
  IN  /\ \/ Cardinality(found) = 1 /\ Show(m, id, about, (CHOOSE c \in found : TRUE).address)
         \/ found = {} /\ Asked(m, "unknown", about)
         \/ Cardinality(found) > 1 /\ Asked(m, "ambiguous", about)
      /\ UNCHANGED <<book, torn, profile, edit, begun, stops, kept, overlapped, brought, doubled>>

\* runConfirmedWrite sends what the proposal under the token says, once.
ConfirmMail(m) ==
  LET token == Token(mail[m].id, mail[m].about, mail[m].to) IN
  /\ mail[m].stage = "shown"
  /\ \/ token \in written /\ mail' = [mail EXCEPT ![m].stage = "done"]
     \/ /\ token \notin written
        /\ \E p \in proposed :
             p.token = token /\ mail' = [mail EXCEPT ![m].stage = "sent", ![m].to = p.to]
  /\ written' = written \cup {token}
  /\ UNCHANGED <<book, torn, profile, edit, proposed, begun, stops, kept, overlapped, brought,
                 doubled, shown, named>>

ContactNext ==
  \/ \E e \in Edits :
       \/ \E name \in People, address \in Addresses, aliases \in {{}, {Nick}}, handle \in {Nobody, Peer} :
            SaveContact(e, name, address, aliases, handle)
       \/ \E name \in People : RemoveContact(e, name)
       \/ Invite(e) \/ Load(e) \/ TruncateBook(e) \/ Write(e)
  \/ \E name \in People, address \in Addresses \cup {NoAddress} :
       SaveProfile([name |-> name, address |-> address])
  \/ CutOff
  \/ \E m \in Mails, id \in Ids \cup {Nobody}, about \in References : Propose(m, id, about)
  \/ \E m \in Mails : ConfirmMail(m)

-----------------------------------------------------------------------------
\* A name stands for one entry, however edits overlap.
NamesAreUnique == \A c, d \in book : c.name = d.name => c = d

\* An assistant that invited the owner, perhaps more than once and under
\* different names, is one contact; unless the owner linked a second name to it
\* by hand, for as long as both are there.
PeerIsOne == overlapped \/ doubled \/ Cardinality({c \in book : c.handle = Peer}) <= 1

\* What the owner saved is in the book until it is removed or an invitation
\* takes its place: a renamed peer, removed and saved again in two writes,
\* costs nobody else, as long as no two edits overlap and none is cut off.
NothingForgotten == overlapped \/ \A name \in kept : \E c \in book : c.name = name

\* The entry of the peer has the address its last invitation brought, or the owner
\* gave it since.
CardArrives ==
  overlapped \/ doubled \/ Busy # {} \/ \A c \in book : c.handle = Peer => c.address = brought

\* The contacts of an owner, through changes that overlap and are cut off: a name
\* is one entry, a peer is one entry with the address it came with last, and
\* nobody else is forgotten for it.
BookIsKept == NamesAreUnique /\ PeerIsOne /\ CardArrives /\ NothingForgotten

\* A mail goes where the owner was shown it would go when they confirmed it,
\* although the book may have changed between; unless its planner gave one id to
\* mails of different addresses, of which the first is what is kept.
OneIdOneMail(id) == \A x, y \in named : x.id = id /\ y.id = id => x.to = y.to
SentAsShown ==
  \A m \in Mails :
    mail[m].stage = "sent" /\ OneIdOneMail(mail[m].id) => mail[m].to = shown[m]
=============================================================================
