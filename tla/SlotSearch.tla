----------------------------- MODULE SlotSearch -----------------------------
(***************************************************************************)
(* The slot a meeting is proposed for: mutualAvailabilitySuggestion of     *)
(* agent/src/assistant/assistant-runtime.ts with workingHourWindows,       *)
(* pickWorkingHoursSlot and firstFreeSlot, loop by loop, and the guard     *)
(* bookingWithinWorkingHours that a write passes later.                    *)
(*                                                                         *)
(* Instants are integers.  A zone changes its offset once, as a zone does  *)
(* at a daylight-saving change; a wall-clock time is a day and a clock.    *)
(***************************************************************************)
EXTENDS Integers, Sequences, FiniteSets

CONSTANTS
  DayLength,   \* instants of a day
  Windows,     \* the windows a free/busy answer may be about
  BusyLists,   \* the sets of intervals it may report as busy
  Durations,   \* meeting lengths
  HoursOf,     \* working hours: ownerWorkingHours never yields malformed ones
  Zones,       \* [change, before, after]: offsets before and from an instant on
  LastDay      \* how many days the day loop looks at (366)

\* A stretch of time, end excluded.
Interval == [start : Int, end : Int]

ASSUME SlotAssumption ==
  /\ DayLength \in Nat \ {0}
  /\ Windows \subseteq Interval
  /\ BusyLists \subseteq SUBSET Interval
  /\ Durations \subseteq Nat \ {0}
  /\ HoursOf \subseteq [open : 0..(DayLength - 1), close : 0..(DayLength - 1)]
  /\ Zones \subseteq [change : Int, before : Int, after : Int]

VARIABLES
  pc,
  own, peer,   \* the two answers: window and busy intervals; "none" from a
               \* peer that parked the request or shares no calendar
  explicit,    \* the owner named a clock time
  duration, hours, zone,
  from, to,    \* the window both answers cover
  busy,
  day,         \* day loop of workingHourWindows
  windows,     \* what it has found
  k,           \* window being searched by pickWorkingHoursSlot
  todo,        \* intervals firstFreeSlot has not looked at
  cursor,
  found, slot  \* whether a start was found, and which

inputs == <<own, peer, explicit, duration, hours, zone>>
vars == <<pc, inputs, from, to, busy, day, windows, k, todo, cursor, found, slot>>

-----------------------------------------------------------------------------
(***************************************************************************)
(* Wall clocks (wallPartsOf, ianaOffsetMs, wallToMs).                      *)
(***************************************************************************)
Offset(t) == IF t < zone.change THEN zone.before ELSE zone.after
WallDay(t) == (t + Offset(t)) \div DayLength
WallClock(t) == (t + Offset(t)) % DayLength

\* The offset at the guess, corrected by the offset at the result.
Instant(d, clock) ==
  LET guess == d * DayLength + clock
  IN  guess - Offset(guess - Offset(guess))

Later(a, b) == IF a > b THEN a ELSE b
Earlier(a, b) == IF a < b THEN a ELSE b

\* bookingWithinWorkingHours: ends on the day it starts, between open and close.
WithinHours(start, end) ==
  /\ WallClock(start) >= hours.open
  /\ WallDay(end) = WallDay(start)
  /\ WallClock(end) <= hours.close

-----------------------------------------------------------------------------
NoShare == [window |-> [start |-> 0, end |-> 0], busy |-> {}, shares |-> FALSE]
Share == [window : Windows, busy : BusyLists, shares : {TRUE}]

\* calendarAvailabilityFromPayload, busyIntervals: both sides' intervals; an
\* empty or reversed one is dropped.
Reported == own.busy \cup peer.busy
Proper(intervals) == {iv \in intervals : iv.end > iv.start}

Init ==
  /\ own \in Share
  /\ peer \in Share \cup {NoShare}
  /\ explicit \in BOOLEAN
  /\ duration \in Durations
  /\ hours \in HoursOf
  /\ zone \in Zones
  /\ pc = "suggest"
  /\ from = 0 /\ to = 0
  /\ busy = {}
  /\ day = 0
  /\ windows = <<>>
  /\ k = 1
  /\ todo = {}
  /\ cursor = 0
  /\ found = FALSE /\ slot = 0

\* The two windows, intersected when the peer shared one.
Suggest ==
  /\ pc = "suggest"
  /\ from' = IF peer.shares THEN Later(own.window.start, peer.window.start) ELSE own.window.start
  /\ to' = IF peer.shares THEN Earlier(own.window.end, peer.window.end) ELSE own.window.end
  /\ busy' = Proper(Reported)
  /\ pc' = IF to' <= from' THEN "done" ELSE IF explicit THEN "raw" ELSE "days"
  /\ day' = WallDay(from')
  /\ UNCHANGED <<inputs, windows, k, todo, cursor, found, slot>>

\* An explicit time is honoured: the whole window, unclamped.
RawWindow ==
  /\ pc = "raw"
  /\ windows' = <<[start |-> from, end |-> to]>>
  /\ pc' = "pick"
  /\ UNCHANGED <<inputs, from, to, busy, day, k, todo, cursor, found, slot>>

\* One round of workingHourWindows, one local day.
Clamped == [start |-> Later(Instant(day, hours.open), from),
            end |-> Earlier(Instant(day, hours.close), to)]
Spanned == Instant(day, 0) <= to /\ day - WallDay(from) < LastDay

DayWindow ==
  /\ pc = "days"
  /\ Spanned
  /\ windows' = IF Clamped.end > Clamped.start THEN Append(windows, Clamped) ELSE windows
  /\ day' = day + 1
  /\ UNCHANGED <<pc, inputs, from, to, busy, k, todo, cursor, found, slot>>

DaysDone ==
  /\ pc = "days"
  /\ ~Spanned
  /\ pc' = "pick"
  /\ UNCHANGED <<inputs, from, to, busy, day, windows, k, todo, cursor, found, slot>>

\* firstFreeSlot looks at the intervals that touch the window, by their start.
Touching(w) == {iv \in busy : iv.end > w.start /\ iv.start < w.end}

PickWindow ==
  /\ pc = "pick"
  /\ k <= Len(windows)
  /\ cursor' = windows[k].start
  /\ todo' = Touching(windows[k])
  /\ pc' = "scan"
  /\ UNCHANGED <<inputs, from, to, busy, day, windows, k, found, slot>>

NoWindowLeft ==
  /\ pc = "pick"
  /\ k > Len(windows)
  /\ pc' = "done"
  /\ UNCHANGED <<inputs, from, to, busy, day, windows, k, todo, cursor, found, slot>>

Found ==
  /\ found' = TRUE /\ slot' = cursor
  /\ pc' = "done"
  /\ UNCHANGED <<inputs, from, to, busy, day, windows, k, todo, cursor>>

NextWindow ==
  /\ k' = k + 1
  /\ pc' = "pick"
  /\ todo' = {}
  /\ UNCHANGED <<inputs, from, to, busy, day, windows, found, slot>>

First(iv) == iv \in todo /\ \A other \in todo : iv.start <= other.start

\* The meeting fits before the next interval.
GapStrict(iv) == iv.start > cursor /\ cursor + duration < iv.start \* mutant: an exact fit is passed
Gap(iv) == iv.start > cursor /\ cursor + duration <= iv.start

FoundGap == pc = "scan" /\ \E iv \in todo : First(iv) /\ Gap(iv) /\ Found

Past(iv) == Later(cursor, iv.end)

SkipInterval ==
  /\ pc = "scan"
  /\ \E iv \in todo :
       /\ First(iv) /\ ~Gap(iv)
       /\ cursor' = Past(iv)
       /\ IF cursor' >= windows[k].end
            THEN NextWindow
            ELSE /\ todo' = todo \ {iv}
                 /\ UNCHANGED <<pc, inputs, from, to, busy, day, windows, k, found, slot>>

\* All intervals passed: what is left of the window.
FoundTail ==
  /\ pc = "scan" /\ todo = {}
  /\ cursor + duration <= windows[k].end
  /\ Found

TailTooShort ==
  /\ pc = "scan" /\ todo = {}
  /\ cursor + duration > windows[k].end
  /\ NextWindow /\ UNCHANGED cursor

Next ==
  \/ Suggest \/ RawWindow \/ DayWindow \/ DaysDone
  \/ PickWindow \/ NoWindowLeft \/ FoundGap \/ SkipInterval \/ FoundTail \/ TailTooShort

Spec == Init /\ [][Next]_vars
FairSpec == Spec /\ WF_vars(Next)

-----------------------------------------------------------------------------
(***************************************************************************)
(* Properties.                                                             *)
(***************************************************************************)
Blocked(s) == \E iv \in busy : s < iv.end /\ iv.start < s + duration
Fits(s, w) == w.start <= s /\ s + duration <= w.end

\* The slot found lies in both windows and meets no interval either side
\* reported (mutualAvailabilitySuggestion intersects and merges them).
SlotIsFree ==
  found =>
    /\ Fits(slot, own.window)
    /\ peer.shares => Fits(slot, peer.window)
    /\ \A iv \in Proper(Reported) : iv.end <= slot \/ slot + duration <= iv.start

\* It is the earliest one: no free start in a window already searched, nor
\* before the slot in its own window; and none at all when none was found
\* (pickWorkingHoursSlot: "the earliest free slot").
NoneIn(w) == \A s \in w.start..w.end : Fits(s, w) => Blocked(s)
NoneBefore(w, t) == \A s \in w.start..w.end : Fits(s, w) /\ s < t => Blocked(s)
SlotIsEarliest ==
  pc = "done" =>
    /\ \A i \in 1..(k - 1) : NoneIn(windows[i])
    /\ ~found => k > Len(windows)
    /\ found => k <= Len(windows) /\ NoneBefore(windows[k], slot)

EarliestFreeSlot == SlotIsFree /\ SlotIsEarliest

\* What is proposed passes the guard that refuses a write outside working
\* hours, whatever the zone does, as long as it does not skip or repeat a
\* clock time of theirs ("so a bad LLM extraction can't quietly book 9pm").
ChangesAtWork ==
  \E c \in Earlier(zone.before, zone.after)..Later(zone.before, zone.after) :
    (zone.change + c) % DayLength \in Earlier(hours.open, hours.close)..Later(hours.open, hours.close)
ProposedPassesGuard ==
  found /\ ~explicit /\ ~ChangesAtWork => WithinHours(slot, slot + duration)
=============================================================================
