------------------------------ MODULE Notices -------------------------------
(***************************************************************************)
(* How both owners of one meeting request see its state: the owner-scoped  *)
(* channels of agent/src/server/dashboard.ts, subscribeMeetingRequests of  *)
(* agent/web/chat/js/lib.jsx and MeetingRequestsPanel of components.jsx.   *)
(* What races two responses can run is a matter of MeetingRequest; here a  *)
(* response is one step, with the booking of the second acceptance as the  *)
(* next.  A page that connects is given the current state first, which is  *)
(* read from a file while notices of changes may already be on their way.  *)
(***************************************************************************)
EXTENDS Naturals, Sequences, FiniteSets

CONSTANTS
  Watched,    \* owners with a page open or to be opened; the other answers elsewhere
  MaxEvents,  \* clicks and broken connections of a behaviour
  NoNote

Owner == {"initiator", "peer"}
Decision == {"accept", "decline"}

VARIABLES
  record,    \* the newest snapshot: its number, status and acceptances
  asked,     \* the decision of each owner the bridge has not answered
  booking,   \* owners whose acceptance is being turned into a booking
  page,      \* "off", "listing": subscribed, the file not read; "read"; "live"; "cut"
  listed,    \* what the page's replay read
  wire,      \* notices on their way to each page
  card,      \* byThread: the notice each panel shows
  happened,  \* counts up to MaxEvents
  overtaken  \* history: pages that were told of a change before the older replay

noticeVars == <<record, asked, booking, page, listed, wire, card, happened, overtaken>>

NoRecord == [n |-> 0, status |-> "none", accepted |-> {}]

\* buildNotification: the token comes with it as long as the owner can accept.
NoteFor(o, r) ==
  [to |-> o, n |-> r.n, status |-> r.status,
   actionable |-> r.status = "pending-both" /\ o \notin r.accepted]
Subscribed(o) == page[o] \in {"listing", "read", "live"}

NoticeInit ==
  /\ record = NoRecord /\ asked = [o \in Owner |-> "nothing"] /\ booking = {}
  /\ page = [o \in Owner |-> "off"] /\ listed = [o \in Owner |-> NoRecord]
  /\ wire = [o \in Owner |-> <<>>] /\ card = [o \in Owner |-> NoNote]
  /\ happened = 0 /\ overtaken = {}

-----------------------------------------------------------------------------
\* Tell whoever is subscribed, before anything else runs: pushOwnerNotification is
\* called with the notice of each owner and picks the channels by toOwnerId.
Channel(o, to) == Subscribed(o) /\ o = to
Notice(o, to, r) == IF Channel(o, to) THEN <<NoteFor(to, r)>> ELSE <<>>
Tell(r) ==
  /\ record' = r
  /\ wire' = [o \in Owner |-> wire[o] \o Notice(o, "initiator", r) \o Notice(o, "peer", r)]
  /\ overtaken' = overtaken \cup {o \in Owner : page[o] = "read" /\ listed[o].n < r.n}
Snapshot(status, accepted) == [n |-> record.n + 1, status |-> status, accepted |-> accepted]

\* parkInitiatorMeetingRequest.
Propose ==
  /\ record.status = "none" /\ Tell(Snapshot("pending-both", {}))
  /\ UNCHANGED <<asked, booking, page, listed, card, happened>>

\* The owner clicks: the buttons are on an actionable card, one at a time.
Click(o, d) ==
  /\ asked[o] = "nothing" /\ record.n > 0
  /\ o \in Watched => card[o] # NoNote /\ card[o].actionable
  /\ asked' = [asked EXCEPT ![o] = d]
  /\ happened < MaxEvents /\ happened' = happened + 1
  /\ UNCHANGED <<record, booking, page, listed, wire, card, overtaken>>

Answered(o) == asked' = [asked EXCEPT ![o] = "nothing"]

\* The bridge's answer.  The snapshot between the second acceptance and the
\* booking is told to nobody; a request that is settled answers with an error.
Open == record.status \in {"pending-both", "both-accepted"}
Accept(o) ==
  /\ asked[o] = "accept" /\ o \notin booking
  /\ LET accepted == record.accepted \cup {o}
     IN  \/ /\ ~Open /\ Answered(o)
            /\ UNCHANGED <<record, wire, overtaken, booking>>
         \/ Open /\ Tell(Snapshot("expired", record.accepted)) /\ Answered(o) /\ UNCHANGED booking
         \/ /\ Open /\ accepted # Owner /\ Answered(o)
            /\ Tell(IF o \in record.accepted THEN record ELSE Snapshot("pending-both", accepted))
            /\ UNCHANGED booking
         \/ /\ Open /\ accepted = Owner
            /\ record' = IF o \in record.accepted THEN record ELSE Snapshot("both-accepted", accepted)
            /\ booking' = booking \cup {o}
            /\ UNCHANGED <<asked, wire, overtaken>>
  /\ UNCHANGED <<page, listed, card, happened>>

\* mutant: a request declined during the booking is left without an answer
CommitIfBoth(o) ==
  /\ o \in booking /\ record.status = "both-accepted"
  /\ booking' = booking \ {o} /\ Answered(o)
  /\ \E s \in {"committed", "commit-failed"} : Tell(Snapshot(s, Owner))
  /\ UNCHANGED <<page, listed, card, happened>>
Commit(o) ==
  /\ o \in booking /\ booking' = booking \ {o} /\ Answered(o)
  /\ IF record.status = "both-accepted"
       THEN \E s \in {"committed", "commit-failed"} : Tell(Snapshot(s, Owner))
       ELSE Tell(record)
  /\ UNCHANGED <<page, listed, card, happened>>

Decline(o) ==
  /\ asked[o] = "decline" /\ Answered(o)
  /\ IF record.status \in {"committed", "declined"}
       THEN UNCHANGED <<record, wire, overtaken>>
       ELSE Tell(Snapshot("declined", record.accepted))
  /\ UNCHANGED <<booking, page, listed, card, happened>>

-----------------------------------------------------------------------------
\* A panel is mounted, or its page loaded again: it starts empty, subscribes,
\* and the bridge reads the file for it.
Connect(o) ==
  /\ o \in Watched /\ page[o] \in {"off", "cut"}
  /\ page' = [page EXCEPT ![o] = "listing"]
  /\ card' = [card EXCEPT ![o] = NoNote]
  /\ overtaken' = overtaken \ {o}
  /\ UNCHANGED <<record, asked, booking, listed, wire, happened>>

ReadList(o) ==
  /\ page[o] = "listing"
  /\ page' = [page EXCEPT ![o] = "read"]
  /\ listed' = [listed EXCEPT ![o] = record]
  /\ UNCHANGED <<record, asked, booking, wire, card, happened, overtaken>>

\* mutant: only what is pending is replayed
ReplayOpenOnly(o) ==
  /\ page[o] = "read"
  /\ page' = [page EXCEPT ![o] = "live"]
  /\ wire' = [wire EXCEPT ![o] = IF listed[o].status = "pending-both" THEN Append(@, NoteFor(o, listed[o])) ELSE @]
  /\ listed' = [listed EXCEPT ![o] = NoRecord]
  /\ UNCHANGED <<record, asked, booking, card, happened, overtaken>>
Replay(o) ==
  /\ page[o] = "read"
  /\ page' = [page EXCEPT ![o] = "live"]
  /\ wire' = [wire EXCEPT ![o] = IF listed[o].n = 0 THEN @ ELSE Append(@, NoteFor(o, listed[o]))]
  /\ listed' = [listed EXCEPT ![o] = NoRecord]
  /\ UNCHANGED <<record, asked, booking, card, happened, overtaken>>

\* onMeetingRequest: the notice that came last is shown.
Receive(o) ==
  /\ wire[o] # <<>>
  /\ card' = [card EXCEPT ![o] = Head(wire[o])]
  /\ wire' = [wire EXCEPT ![o] = Tail(@)]
  /\ UNCHANGED <<record, asked, booking, page, listed, happened, overtaken>>

\* The stream ends: the page's read loop ends with it and nothing connects it
\* again; the card stays.
Cut(o) ==
  /\ Subscribed(o) /\ happened < MaxEvents
  /\ happened' = happened + 1
  /\ page' = [page EXCEPT ![o] = "cut"]
  /\ wire' = [wire EXCEPT ![o] = <<>>]
  /\ listed' = [listed EXCEPT ![o] = NoRecord]
  /\ UNCHANGED <<record, asked, booking, card, overtaken>>

Respond(o) == Accept(o) \/ Commit(o) \/ Decline(o)
NoticeNext ==
  \/ Propose
  \/ \E o \in Owner : Respond(o) \/ Connect(o) \/ ReadList(o) \/ Replay(o) \/ Receive(o) \/ Cut(o)
  \/ \E o \in Owner, d \in Decision : Click(o, d)

-----------------------------------------------------------------------------
\* A panel whose connection stands shows, once every notice has arrived, the
\* request as it is, with the buttons exactly if the owner can still use them;
\* unless a change was told while the older state waited to be replayed.  The
\* snapshot between acceptance and booking is not told.
ShowsTheNewest ==
  \A o \in Owner :
    page[o] = "live" /\ wire[o] = <<>> /\ booking = {} /\ o \notin overtaken /\ record.n > 0
      => card[o] = NoteFor(o, record)

\* An owner is only ever told of a request by a notice of their own: the token
\* that accepts is the other's in the other's.
TokenIsOwn ==
  \A o \in Owner : \A m \in {card[o]} \cup {wire[o][i] : i \in 1 .. Len(wire[o])} : m = NoNote \/ m.to = o

\* Once every notice has arrived each owner's panel shows the request as it is, and
\* never with the other's token.
PanelCatchesUp == ShowsTheNewest /\ TokenIsOwn

\* Every click is answered, so the buttons of a card come back.
Served(o) == asked[o] = "nothing"
=============================================================================
