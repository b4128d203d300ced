-------------------------- MODULE SlotSearchProofs --------------------------
(***************************************************************************)
(* What is searched for, read and hired.  For every window, busy list,     *)
(* meeting length, zone and working hours: the slot SlotSearch finds is    *)
(* free, lies in both windows and in the working hours, and is the         *)
(* earliest one.  For every message: what OwnerCalendar books of it is     *)
(* what it asked the calendar about.  For every set of agents, quorum and  *)
(* number of attempts: a fan-out of Fanout answers as its mode promises,   *)
(* and calls nobody once its session is closed.  For every history of the  *)
(* registry and any calls that overlap: the snapshots of Catalog are       *)
(* current, without repetition, and whole or said not to be.  For every    *)
(* catalog and whatever is asked of it: the answers of CatalogSearch       *)
(* depend on its agents alone, and are whole and true.                     *)
(***************************************************************************)
EXTENDS OwnerCalendar, Fanout, Catalog, CatalogQueries, FiniteSetTheorems, SequenceTheorems, TLAPS

Stages == {"suggest", "raw", "days", "pick", "scan", "done"}

TypeOK ==
  /\ pc \in Stages
  /\ own \in Share
  /\ peer \in Share \cup {NoShare}
  /\ duration \in Nat \ {0}
  /\ hours \in [open : Nat, close : Nat]
  /\ zone \in [change : Int, before : Int, after : Int]
  /\ from \in Int /\ to \in Int /\ day \in Int /\ cursor \in Int /\ slot \in Int
  /\ busy \in SUBSET Interval
  /\ windows \in Seq(Interval)
  /\ k \in Nat \ {0}
  /\ todo \subseteq busy
  /\ found \in BOOLEAN

\* What Suggest settles.
Asked ==
  IF pc = "suggest"
    THEN windows = <<>> /\ k = 1 /\ ~found /\ todo = {}
    ELSE /\ busy = Proper(Reported)
         /\ own.window.start <= from /\ to <= own.window.end
         /\ peer.shares => peer.window.start <= from /\ to <= peer.window.end

Inside == \A i \in 1..Len(windows) : from <= windows[i].start /\ windows[i].end <= to

\* Windows before the k-th are exhausted.
Searched ==
  /\ k - 1 <= Len(windows)
  /\ \A i \in 1..(k - 1) : NoneIn(windows[i])
  /\ pc \in {"raw", "days"} => k = 1 /\ ~found

\* Inside the k-th window: intervals already looked at end before the cursor,
\* and no start before the cursor is free.
Scanned ==
  pc = "scan" =>
    /\ k <= Len(windows)
    /\ windows[k].start <= cursor
    /\ todo \subseteq Touching(windows[k])
    /\ \A iv \in Touching(windows[k]) \ todo : iv.end <= cursor
    /\ NoneBefore(windows[k], cursor)

FreeAt(s) == \A iv \in busy : iv.end <= s \/ s + duration <= iv.start

Outcome ==
  /\ found => /\ pc = "done"
              /\ k <= Len(windows)
              /\ Fits(slot, windows[k])
              /\ NoneBefore(windows[k], slot)
              /\ FreeAt(slot)
  /\ pc = "done" /\ ~found => k > Len(windows)

IInv == TypeOK /\ Asked /\ Inside /\ Searched /\ Scanned /\ Outcome

-----------------------------------------------------------------------------
\* Init establishes the invariant.
LEMMA InitHolds == Init => IInv
<1> SUFFICES ASSUME Init PROVE IInv
  OBVIOUS
<1> USE SlotAssumption DEF SlotAssumption
<1>1. TypeOK
  <2>1. own \in Share /\ peer \in Share \cup {NoShare}
    BY DEF Init
  <2>2. hours \in [open : Nat, close : Nat] /\ duration \in Nat \ {0}
    BY DEF Init
  <2>3. zone \in [change : Int, before : Int, after : Int]
    BY DEF Init
  <2>4. windows \in Seq(Interval)
    BY DEF Init
  <2>5. /\ from \in Int /\ to \in Int /\ day \in Int /\ cursor \in Int /\ slot \in Int
        /\ k \in Nat \ {0} /\ found \in BOOLEAN /\ pc \in Stages
    <3>1. found \in BOOLEAN
      BY DEF Init
    <3>2. pc \in Stages
      BY DEF Init, Stages
    <3>3. from = 0 /\ to = 0 /\ day = 0 /\ cursor = 0 /\ slot = 0 /\ k = 1
      BY DEF Init
    <3>4. QED
      BY <3>1, <3>2, <3>3
  <2>6. busy \in SUBSET Interval /\ todo \subseteq busy
    BY DEF Init
  <2>7. QED
    BY <2>1, <2>2, <2>3, <2>4, <2>5, <2>6 DEF TypeOK
<1>2. Asked /\ Inside /\ Searched /\ Scanned /\ Outcome
  BY DEF Init, Asked, Inside, Searched, Scanned, Outcome
<1>3. QED
  BY <1>1, <1>2 DEF IInv

\* The windows of the two answers are windows of instants.
LEMMA AnswersTyped ==
  ASSUME TypeOK
  PROVE  /\ own.window \in Interval /\ peer.window \in Interval
         /\ own.busy \subseteq Interval /\ peer.busy \subseteq Interval
         /\ peer.shares \in BOOLEAN
<1> USE SlotAssumption DEF SlotAssumption
<1>1. own.window \in Interval /\ own.busy \subseteq Interval
  BY DEF TypeOK, Share
<1>2. CASE peer \in Share
  BY <1>1, <1>2 DEF Share
<1>3. CASE peer = NoShare
  BY <1>1, <1>3 DEF NoShare, Interval
<1>4. QED
  BY <1>2, <1>3 DEF TypeOK

\* Wall-clock arithmetic stays within the integers.
LEMMA InstantsAreIntegers ==
  ASSUME TypeOK, NEW d \in Int, NEW c \in Int
  PROVE  Instant(d, c) \in Int
<1>1. \A t \in Int : Offset(t) \in Int
  BY DEF TypeOK, Offset
<1>2. d * DayLength + c \in Int
  BY SlotAssumption DEF SlotAssumption
<1>3. QED
  BY <1>1, <1>2 DEF Instant

\* Days and their hours are numbers.
LEMMA DaysAreIntegers ==
  ASSUME TypeOK, NEW t \in Int
  PROVE  WallDay(t) \in Int
<1>1. Offset(t) \in Int
  BY DEF TypeOK, Offset
<1>2. QED
  BY <1>1, SlotAssumption DEF SlotAssumption, WallDay

-----------------------------------------------------------------------------
\* Intersecting the windows.
LEMMA SuggestStep == IInv /\ Suggest => IInv'
<1> SUFFICES ASSUME IInv, Suggest PROVE IInv'
  OBVIOUS
<1> USE DEF IInv
<1>1. from' \in Int /\ to' \in Int
  BY AnswersTyped DEF Suggest, Later, Earlier, Interval
<1>3. day' \in Int
  BY <1>1, DaysAreIntegers DEF Suggest
<1>4. busy' \subseteq Interval
  BY AnswersTyped DEF Suggest, Proper, Reported
<1>5. TypeOK'
  <2>1. todo' = {}
    BY DEF Suggest, Asked
  <2>2. QED
    BY <1>1, <1>3, <1>4, <2>1 DEF TypeOK, Suggest, inputs, Stages
<1>6. Asked'
  BY <1>1, AnswersTyped DEF Suggest, Asked, inputs, Later, Earlier, Proper, Reported, Interval
<1>7. Inside' /\ Searched' /\ Scanned' /\ Outcome'
  BY DEF Suggest, Asked, Inside, Searched, Scanned, Outcome
<1>8. QED
  BY <1>5, <1>6, <1>7

\* The whole window of an explicit time.
LEMMA RawWindowStep == IInv /\ RawWindow => IInv'
<1> SUFFICES ASSUME IInv, RawWindow PROVE IInv'
  OBVIOUS
<1> USE DEF IInv
<1>1. TypeOK'
  <2>1. [start |-> from, end |-> to] \in Interval
    BY DEF TypeOK, Interval
  <2>2. QED
    BY <2>1 DEF TypeOK, RawWindow, inputs, Stages
<1>2. Inside'
  BY DEF RawWindow, Inside, TypeOK
<1>3. Asked' /\ Searched' /\ Scanned' /\ Outcome'
  BY DEF RawWindow, Asked, Searched, Scanned, Outcome, inputs, Proper, Reported, TypeOK
<1>4. QED
  BY <1>1, <1>2, <1>3

\* One more day: the clamped hours lie inside the window.
LEMMA DayWindowStep == IInv /\ DayWindow => IInv'
<1> SUFFICES ASSUME IInv, DayWindow PROVE IInv'
  OBVIOUS
<1> USE DEF IInv
<1>1. Clamped \in Interval /\ from <= Clamped.start /\ Clamped.end <= to
  <2>1. hours.open \in Int /\ hours.close \in Int /\ day \in Int
    BY DEF TypeOK
  <2> HIDE DEF IInv
  <2>3. Instant(day, hours.open) \in Int /\ Instant(day, hours.close) \in Int
    BY <2>1, InstantsAreIntegers DEF IInv
  <2>2. QED
    BY <2>3 DEF Clamped, Interval, Later, Earlier, IInv, TypeOK
<1> HIDE DEF Clamped
<1>2. TypeOK'
  BY <1>1 DEF TypeOK, DayWindow, inputs, Stages
<1>3. Inside'
  BY <1>1 DEF DayWindow, Inside, TypeOK
<1>4. Asked' /\ Searched' /\ Scanned' /\ Outcome'
  BY <1>1 DEF DayWindow, Asked, Searched, Scanned, Outcome, inputs, Proper, Reported, TypeOK
<1>5. QED
  BY <1>2, <1>3, <1>4

\* Running out of days keeps the invariant.
LEMMA DaysDoneStep == IInv /\ DaysDone => IInv'
<1> SUFFICES ASSUME IInv, DaysDone PROVE IInv'
  OBVIOUS
<1> USE DEF IInv
<1>1. TypeOK'
  BY DEF TypeOK, DaysDone, inputs, Stages
<1>2. Asked' /\ Inside' /\ Searched' /\ Scanned' /\ Outcome'
  BY DEF DaysDone, Asked, Inside, Searched, Scanned, Outcome, inputs, Proper, Reported, NoneIn, Fits, Blocked
<1>3. QED
  BY <1>1, <1>2

\* The cursor starts at the window: there is no start before it.
LEMMA PickWindowStep == IInv /\ PickWindow => IInv'
<1> SUFFICES ASSUME IInv, PickWindow PROVE IInv'
  OBVIOUS
<1> USE DEF IInv
<1>1. windows[k] \in Interval
  BY DEF PickWindow, TypeOK
<1>2. TypeOK'
  BY <1>1 DEF TypeOK, PickWindow, Touching, inputs, Stages, Interval
<1>3. Asked' /\ Inside' /\ Searched' /\ Outcome'
  BY DEF PickWindow, Asked, Inside, Searched, Outcome, inputs, Proper, Reported, NoneIn, Fits, Blocked
<1>4. Scanned'
  BY <1>1 DEF PickWindow, Scanned, Touching, NoneBefore, Fits, Blocked, Interval, inputs
<1>5. QED
  BY <1>2, <1>3, <1>4

\* So does a day whose window is over,
LEMMA NoWindowLeftStep == IInv /\ NoWindowLeft => IInv'
<1> SUFFICES ASSUME IInv, NoWindowLeft PROVE IInv'
  OBVIOUS
<1> USE DEF IInv
<1>1. TypeOK'
  BY DEF TypeOK, NoWindowLeft, inputs, Stages
<1>2. Asked' /\ Inside' /\ Searched' /\ Scanned' /\ Outcome'
  BY DEF NoWindowLeft, Asked, Inside, Searched, Scanned, Outcome, inputs, Proper, Reported, NoneIn, Fits, Blocked
<1>3. QED
  BY <1>1, <1>2

-----------------------------------------------------------------------------
\* A cursor that fits before every interval left, and behind every one looked
\* at, is free.
LEMMA FoundStep ==
  ASSUME IInv, pc = "scan", Found,
         cursor + duration <= windows[k].end,
         \A iv \in todo : cursor + duration <= iv.start
  PROVE  IInv'
<1> USE DEF IInv
<1>1. windows[k] \in Interval /\ k <= Len(windows)
  BY DEF TypeOK, Scanned
<1>2. TypeOK'
  BY DEF TypeOK, Found, inputs, Stages
<1>3. \A iv \in busy : iv.end <= cursor \/ cursor + duration <= iv.start
  <2> SUFFICES ASSUME NEW iv \in busy PROVE iv.end <= cursor \/ cursor + duration <= iv.start
    OBVIOUS
  <2>1. iv \in Interval
    BY DEF TypeOK
  <2>2. CASE iv \in todo
    BY <2>2
  <2>3. CASE iv \in Touching(windows[k]) \ todo
    BY <2>3 DEF Scanned
  <2>4. CASE iv \notin Touching(windows[k])
    BY <1>1, <2>1, <2>4 DEF Scanned, Touching, Interval, TypeOK
  <2>5. QED
    BY <2>2, <2>3, <2>4
<1>4. Asked' /\ Inside' /\ Searched' /\ Scanned'
  BY DEF Found, Asked, Inside, Searched, Scanned, inputs, Proper, Reported, NoneIn, Fits, Blocked
<1>5. Outcome'
  BY <1>1, <1>3 DEF Found, Outcome, Scanned, FreeAt, Fits, NoneBefore, Blocked, inputs
<1>6. QED
  BY <1>2, <1>4, <1>5

\* Leaving a window without a slot: no start of it is free.
LEMMA NextWindowStep ==
  ASSUME IInv, pc = "scan", NextWindow, cursor' \in Int, NoneIn(windows[k])
  PROVE  IInv'
<1> USE DEF IInv
<1>1. k <= Len(windows)
  BY DEF Scanned
<1>2. TypeOK'
  BY DEF TypeOK, NextWindow, inputs, Stages
<1>3. Asked' /\ Inside' /\ Scanned' /\ Outcome'
  BY DEF NextWindow, Asked, Inside, Scanned, Outcome, inputs, Proper, Reported
<1>4. Searched'
  <2>1. k' = k + 1 /\ k \in Nat /\ windows' = windows /\ Len(windows) \in Nat
    BY DEF NextWindow, TypeOK
  <2>2. \A i \in 1..k : NoneIn(windows[i])
    BY <2>1 DEF Searched
  <2>3. ASSUME NEW i \in 1..(k' - 1) PROVE NoneIn(windows[i])'
    <3>1. i \in 1..k
      BY <2>1
    <3>2. NoneIn(windows[i])
      BY <2>2, <3>1
    <3>3. windows' = windows /\ busy' = busy /\ duration' = duration
      BY DEF NextWindow, inputs
    <3>4. QED
      BY <3>2, <3>3 DEF NoneIn, Fits, Blocked
  <2>4. QED
    BY <1>1, <2>1, <2>3 DEF NextWindow, Searched
<1>5. QED
  BY <1>2, <1>3, <1>4

\* a gap that is long enough,
LEMMA FoundGapStep == IInv /\ FoundGap => IInv'
<1> SUFFICES ASSUME IInv, FoundGap PROVE IInv'
  OBVIOUS
<1>1. PICK iv \in todo : First(iv) /\ Gap(iv) /\ Found
  BY DEF FoundGap
<1>2. pc = "scan" /\ windows[k] \in Interval /\ iv \in Interval /\ iv \in Touching(windows[k])
  BY DEF FoundGap, IInv, Scanned, TypeOK
<1>3. cursor + duration <= windows[k].end
  <2>1. cursor \in Int /\ duration \in Int /\ iv.start \in Int /\ windows[k].end \in Int
    BY <1>2 DEF IInv, TypeOK, Interval
  <2>2. cursor + duration <= iv.start /\ iv.start < windows[k].end
    BY <1>1, <1>2 DEF Gap, Touching
  <2>3. QED
    BY ONLY <2>1, <2>2
<1>4. \A other \in todo : cursor + duration <= other.start
  BY <1>1, <1>2 DEF Gap, First, IInv, TypeOK, Interval
<1>5. QED
  BY <1>1, <1>2, <1>3, <1>4, FoundStep

\* a tail that is long enough,
LEMMA FoundTailStep == IInv /\ FoundTail => IInv'
<1> SUFFICES ASSUME IInv, FoundTail PROVE IInv'
  OBVIOUS
<1>1. QED
  BY FoundStep DEF FoundTail

\* a tail that is not,
LEMMA TailTooShortStep == IInv /\ TailTooShort => IInv'
<1> SUFFICES ASSUME IInv, TailTooShort PROVE IInv'
  OBVIOUS
<1>1. windows[k] \in Interval /\ cursor \in Int /\ duration \in Nat
  BY DEF TailTooShort, IInv, Scanned, TypeOK
<1>2. NoneIn(windows[k])
  BY <1>1 DEF TailTooShort, IInv, Scanned, NoneBefore, NoneIn, Fits, Interval
<1>3. QED
  BY <1>1, <1>2, NextWindowStep DEF TailTooShort

\* Skipping the first interval left blocks every start up to its end.
LEMMA SkipIntervalStep == IInv /\ SkipInterval => IInv'
<1> SUFFICES ASSUME IInv, SkipInterval PROVE IInv'
  OBVIOUS
<1>1. PICK iv \in todo :
        /\ First(iv) /\ ~Gap(iv)
        /\ cursor' = Past(iv)
        /\ IF cursor' >= windows[k].end
             THEN NextWindow
             ELSE /\ todo' = todo \ {iv}
                  /\ UNCHANGED <<pc, inputs, from, to, busy, day, windows, k, found, slot>>
  BY DEF SkipInterval
<1>2. /\ pc = "scan" /\ windows[k] \in Interval /\ iv \in Interval /\ iv \in busy
      /\ cursor \in Int /\ duration \in Nat \ {0} /\ k <= Len(windows)
  BY DEF SkipInterval, IInv, Scanned, TypeOK
<1>3. cursor' \in Int /\ cursor' >= cursor /\ cursor' >= iv.end
  BY <1>1, <1>2 DEF Past, Later, Interval
<1>4. NoneBefore(windows[k], cursor')
  <2> SUFFICES ASSUME NEW s \in windows[k].start..windows[k].end,
                      Fits(s, windows[k]), s < cursor'
               PROVE  Blocked(s)
    BY DEF NoneBefore
  <2>1. CASE s < cursor
    BY <1>2, <2>1 DEF IInv, Scanned, NoneBefore
  <2>2. CASE s >= cursor
    <3>1. s < iv.end
      BY <1>1, <1>2, <2>2 DEF Past, Later, Interval
    <3>2. iv.start < s + duration
      BY <1>1, <1>2, <2>2 DEF Gap, Interval
    <3>3. QED
      BY <1>2, <3>1, <3>2 DEF Blocked
  <2>3. QED
    BY <1>2, <2>1, <2>2 DEF Interval
<1>5. CASE cursor' >= windows[k].end
  <2>1. NoneIn(windows[k])
    BY <1>2, <1>3, <1>4, <1>5 DEF NoneBefore, NoneIn, Fits, Interval
  <2>2. QED
    BY <1>1, <1>2, <1>3, <1>5, <2>1, NextWindowStep
<1>6. CASE ~(cursor' >= windows[k].end)
  <2>1. /\ todo' = todo \ {iv}
        /\ UNCHANGED <<pc, inputs, from, to, busy, day, windows, k, found, slot>>
    BY <1>1, <1>6
  <2>2. TypeOK'
    BY <1>3, <2>1 DEF IInv, TypeOK, inputs
  <2>3. Asked' /\ Inside' /\ Searched' /\ Outcome'
    BY <1>2, <2>1 DEF IInv, Asked, Inside, Searched, Outcome, inputs, Proper, Reported, NoneIn, Fits, Blocked
  <2>4. \A other \in Touching(windows[k]) \ todo' : other.end <= cursor'
    <3> SUFFICES ASSUME NEW other \in Touching(windows[k]) \ todo' PROVE other.end <= cursor'
      OBVIOUS
    <3>1. other \in Interval
      BY DEF IInv, TypeOK, Touching
    <3>2. other = iv \/ other.end <= cursor
      BY <1>2, <2>1 DEF IInv, Scanned
    <3>3. QED
      BY <1>2, <1>3, <3>1, <3>2 DEF Interval
  <2>5. Scanned'
    <3>1. windows' = windows /\ k' = k /\ busy' = busy /\ duration' = duration
      BY <2>1 DEF inputs
    <3>2. windows[k].start <= cursor' /\ todo' \subseteq Touching(windows[k])
      BY <1>2, <1>3, <2>1 DEF IInv, Scanned, Interval
    <3>3. NoneBefore(windows[k], cursor)'
      BY <1>4, <3>1 DEF NoneBefore, Fits, Blocked
    <3>4. Touching(windows[k])' = Touching(windows[k])
      BY <3>1 DEF Touching
    <3>5. QED
      BY <1>2, <2>4, <3>1, <3>2, <3>3, <3>4 DEF Scanned
  <2>6. QED
    BY <2>2, <2>3, <2>5 DEF IInv
<1>7. QED
  BY <1>5, <1>6

-----------------------------------------------------------------------------
\* and a step that changes nothing.
LEMMA StutterStep == IInv /\ UNCHANGED vars => IInv'
<1> SUFFICES ASSUME IInv, UNCHANGED vars PROVE IInv'
  OBVIOUS
<1> USE DEF IInv, vars, inputs
<1>1. TypeOK'
  BY DEF TypeOK
<1>2. Asked' /\ Inside' /\ Searched' /\ Scanned' /\ Outcome'
  BY DEF Asked, Inside, Searched, Scanned, Outcome, Proper, Reported, NoneIn,
         NoneBefore, Fits, Blocked, FreeAt, Touching
<1>3. QED
  BY <1>1, <1>2

\* The inductive invariant holds in every state of every search.
THEOREM Invariance == Spec => []IInv
<1>1. IInv /\ [Next]_vars => IInv'
  BY SuggestStep, RawWindowStep, DayWindowStep, DaysDoneStep, PickWindowStep,
     NoWindowLeftStep, FoundGapStep, SkipIntervalStep, FoundTailStep,
     TailTooShortStep, StutterStep DEF Next
<1>2. QED
  BY <1>1, InitHolds, PTL DEF Spec

\* A slot that is proposed is free on both sides and inside both windows
\* (mutualAvailabilitySuggestion).
THEOREM SlotFree == Spec => []SlotIsFree
<1>1. IInv => SlotIsFree
  <2> SUFFICES ASSUME IInv, found PROVE SlotIsFree
    BY DEF SlotIsFree
  <2>1. /\ pc = "done" /\ k \in 1..Len(windows) /\ windows[k] \in Interval
        /\ Fits(slot, windows[k]) /\ FreeAt(slot)
    BY DEF IInv, Outcome, TypeOK
  <2>2. from <= slot /\ slot + duration <= to
    <3>1. from <= windows[k].start /\ windows[k].end <= to
      BY <2>1 DEF IInv, Inside
    <3>2. /\ slot \in Int /\ duration \in Int /\ from \in Int /\ to \in Int
          /\ windows[k].start \in Int /\ windows[k].end \in Int
      BY <2>1 DEF IInv, TypeOK, Interval
    <3>3. QED
      BY <2>1, <3>1, <3>2 DEF Fits
  <2>3. Fits(slot, own.window) /\ (peer.shares => Fits(slot, peer.window))
    <3>1. /\ slot \in Int /\ duration \in Int /\ from \in Int /\ to \in Int
          /\ own.window \in Interval /\ peer.window \in Interval
      BY AnswersTyped DEF IInv, TypeOK
    <3>2. /\ own.window.start <= from /\ to <= own.window.end
          /\ peer.shares => peer.window.start <= from /\ to <= peer.window.end
      BY <2>1 DEF IInv, Asked
    <3>3. QED
      BY <2>2, <3>1, <3>2 DEF Fits, Interval
  <2>4. QED
    BY <2>1, <2>3 DEF IInv, Asked, FreeAt, SlotIsFree
<1>2. QED
  BY <1>1, Invariance, PTL

\* No earlier start is free, and when no slot is found there is none in any of
\* the windows (pickWorkingHoursSlot, firstFreeSlot).
THEOREM SlotEarliest == Spec => []SlotIsEarliest
<1>1. IInv => SlotIsEarliest
  BY DEF IInv, Searched, Outcome, SlotIsEarliest
<1>2. QED
  BY <1>1, Invariance, PTL

\* Both together: what is offered is the earliest time free on both sides
\* (mutualAvailabilitySuggestion).
THEOREM EarliestSlot == Spec => []EarliestFreeSlot
<1>1. SlotIsFree /\ SlotIsEarliest => EarliestFreeSlot
  BY DEF EarliestFreeSlot
<1>2. QED
  BY <1>1, SlotFree, SlotEarliest, PTL

-----------------------------------------------------------------------------
(* Working hours *)

\* Days and clocks name a time in one way only.
LEMMA Division ==
  ASSUME NEW l \in Nat \ {0}, NEW d \in Int, NEW c \in 0..(l - 1)
  PROVE  (d * l + c) \div l = d /\ (d * l + c) % l = c
<1>1. d * l + c \in Int
  OBVIOUS
<1>2. PICK n \in Int : n = d * l + c
  BY <1>1
<1>3. PICK q \in Int, r \in Int : q = n \div l /\ r = n % l
  OBVIOUS
<1>4. n = l * q + r /\ 0 <= r /\ r < l
  BY <1>2, <1>3
<1>5. (q - d) * l = c - r
  BY <1>2, <1>4
<1>6. -l < c - r /\ c - r < l
  BY <1>4
<1>7. q - d = 0
  <2>1. CASE q - d >= 1
    <3>1. (q - d) * l >= l
      BY <2>1
    <3> QED
      BY <1>5, <1>6, <3>1
  <2>2. CASE q - d <= -1
    <3>1. (q - d) * l <= -l
      BY <2>2
    <3> QED
      BY <1>5, <1>6, <3>1
  <2> QED
    BY <2>1, <2>2
<1> QED
  BY <1>2, <1>3, <1>5, <1>7

Clocked ==
  /\ DayLength \in Nat \ {0}
  /\ hours \in [open : 0..(DayLength - 1), close : 0..(DayLength - 1)]
  /\ zone \in [change : Int, before : Int, after : Int]

AtWork == Earlier(hours.open, hours.close)..Later(hours.open, hours.close)

\* No time of the working hours is skipped or repeated.
LEMMA WorkIsUntouched ==
  ASSUME Clocked, ~ChangesAtWork, NEW d \in Int, NEW c \in AtWork,
         NEW g, g = d * DayLength + c
  PROVE  /\ g \in Int
         /\ g < zone.change + Earlier(zone.before, zone.after)
            \/ zone.change + Later(zone.before, zone.after) < g
<1>1. c \in 0..(DayLength - 1) /\ c \in Int
  BY DEF Clocked, AtWork, Earlier, Later
<1>2. PICK l \in Nat \ {0} : l = DayLength
  BY DEF Clocked
<1>3. g \in Int /\ g % DayLength = c
  BY ONLY <1>1, <1>2, Division, g = d * DayLength + c
<1>4. PICK t \in Int, a \in Int, b \in Int : t = zone.change /\ a = Earlier(zone.before, zone.after)
                                             /\ b = Later(zone.before, zone.after)
  BY DEF Clocked, Earlier, Later
<1>5. \A x \in a..b : (t + x) % DayLength # c
  BY <1>4 DEF ChangesAtWork, AtWork
<1>6. g - t \notin a..b
  <2>1. SUFFICES ASSUME g - t \in a..b PROVE FALSE
    OBVIOUS
  <2>2. t + (g - t) = g
    BY <1>3, <1>4
  <2> QED
    BY <1>3, <1>5, <2>1, <2>2
<1> QED
  BY ONLY <1>3, <1>4, <1>6

\* The instant of a clock time in the working hours shows that time.
LEMMA ClockIsExact ==
  ASSUME Clocked, ~ChangesAtWork, NEW d \in Int, NEW c \in AtWork,
         NEW t, t = Instant(d, c)
  PROVE  t \in Int /\ t + Offset(t) = d * DayLength + c
<1>1. PICK g : g = d * DayLength + c
  OBVIOUS
<1>2. PICK z \in Int, a \in Int, b \in Int : z = zone.change /\ a = zone.before /\ b = zone.after
  BY DEF Clocked
<1>3. g \in Int /\ (g < z + Earlier(a, b) \/ z + Later(a, b) < g)
  BY <1>1, <1>2, WorkIsUntouched
<1>4. (g < z + a /\ g < z + b) \/ (z + a < g /\ z + b < g)
  BY ONLY <1>2, <1>3 DEF Earlier, Later
<1>5. \A s : Offset(s) = IF s < z THEN a ELSE b
  BY <1>2 DEF Offset
<1>6. t = g - Offset(g - Offset(g))
  BY <1>1 DEF Instant
<1>7. PICK o \in Int : o = Offset(g) /\ o \in {a, b}
  BY <1>2, <1>5
<1>8. Offset(g - o) = IF g < z + a THEN a ELSE b
  <2>1. Offset(g - o) = IF g - o < z THEN a ELSE b
    BY <1>5
  <2> QED
    BY <1>2, <1>3, <1>4, <1>7, <2>1
<1>9. PICK p \in Int : p = IF g < z + a THEN a ELSE b
  BY <1>2
<1>10. t = g - p
  BY <1>6, <1>7, <1>8, <1>9
<1>11. Offset(t) = p
  <2>1. Offset(t) = IF t < z THEN a ELSE b
    BY <1>5
  <2> QED
    BY <1>2, <1>3, <1>4, <1>9, <1>10, <2>1
<1> QED
  BY <1>1, <1>3, <1>9, <1>10, <1>11

\* From the hour the owner starts to the hour they stop, a zone that changes
\* outside them keeps one offset.
LEMMA DayHoldsSlot ==
  ASSUME Clocked, ~ChangesAtWork, NEW d \in Int, NEW s \in Int, NEW e \in Int, s < e,
         Instant(d, hours.open) <= s, e <= Instant(d, hours.close)
  PROVE  WithinHours(s, e)
<1>1. PICK f : f = Instant(d, hours.open)
  OBVIOUS
<1>2. PICK u : u = Instant(d, hours.close)
  OBVIOUS
<1>3. PICK z \in Int, a \in Int, b \in Int : z = zone.change /\ a = zone.before /\ b = zone.after
  BY DEF Clocked
<1>4. PICK m \in Int, n \in Int : m = hours.open /\ n = hours.close
  BY DEF Clocked
<1>5. m \in AtWork /\ n \in AtWork /\ m \in 0..(DayLength - 1) /\ n \in 0..(DayLength - 1)
  BY <1>4 DEF AtWork, Clocked, Earlier, Later
<1>6. PICK l \in Nat \ {0} : l = DayLength
  BY DEF Clocked
<1>7. PICK base \in Int : base = d * DayLength
  BY <1>6
<1>8. /\ f \in Int /\ f + Offset(f) = base + m
      /\ u \in Int /\ u + Offset(u) = base + n
  BY <1>1, <1>2, <1>4, <1>5, <1>7, ClockIsExact
<1>9. \A x : Offset(x) = IF x < z THEN a ELSE b
  BY <1>3 DEF Offset
<1>10. f <= s /\ s < e /\ e <= u
  BY <1>1, <1>2
<1>11. f < z <=> u < z
  <2>1. ASSUME NEW c \in AtWork
        PROVE  (base + c < z + a /\ base + c < z + b) \/ (z + a < base + c /\ z + b < base + c)
    <3>1. c \in Int
      BY <1>4 DEF AtWork, Earlier, Later
    <3>2. base + c < z + Earlier(a, b) \/ z + Later(a, b) < base + c
      BY <1>3, <1>7, <2>1, WorkIsUntouched
    <3> QED
      BY ONLY <1>3, <1>7, <3>1, <3>2 DEF Earlier, Later
  <2>2. SUFFICES ASSUME f < z, z <= u PROVE FALSE
    BY <1>3, <1>8, <1>10
  <2>3. f + a = base + m /\ u + b = base + n
    BY <1>3, <1>8, <1>9, <2>2
  <2>4. (base + m < z + a /\ base + m < z + b) \/ (z + a < base + m /\ z + b < base + m)
    BY <1>5, <2>1
  <2>5. (base + n < z + a /\ base + n < z + b) \/ (z + a < base + n /\ z + b < base + n)
    BY <1>5, <2>1
  <2>6. base + m < z + a /\ base + m < z + b /\ z + a < base + n /\ z + b < base + n
    BY ONLY <1>3, <1>4, <1>7, <1>8, <2>2, <2>3, <2>4, <2>5
  <2>7. PICK c \in Int : c = z + a - base
    BY <1>3, <1>7
  <2>8. c \in m..n
    BY ONLY <1>3, <1>4, <1>7, <2>6, <2>7
  <2>9. c \in AtWork
    BY <1>4, <2>8 DEF AtWork, Earlier, Later
  <2>10. base + c < z + a \/ z + a < base + c
    BY <2>1, <2>9
  <2> QED
    BY ONLY <1>3, <1>7, <2>7, <2>10
<1>12. PICK o \in Int : o = Offset(s)
  BY <1>3, <1>9
<1>13. Offset(f) = o /\ Offset(u) = o /\ Offset(e) = o
  <2>1. f < z <=> s < z
    BY <1>3, <1>8, <1>10, <1>11
  <2>2. e < z <=> s < z
    BY <1>3, <1>8, <1>10, <1>11
  <2> QED
    BY <1>9, <1>11, <1>12, <2>1, <2>2
<1>14. PICK x \in Int, y \in Int : x = s + o - base /\ y = e + o - base
  BY <1>7, <1>12
<1>15. m <= x /\ x < y /\ y <= n
  BY ONLY <1>4, <1>7, <1>8, <1>10, <1>12, <1>13, <1>14
<1>16. x \in 0..(DayLength - 1) /\ y \in 0..(DayLength - 1)
  BY <1>5, <1>6, <1>15
<1>17. s + Offset(s) = d * DayLength + x /\ e + Offset(e) = d * DayLength + y
  BY <1>7, <1>12, <1>13, <1>14
<1>18. /\ WallDay(s) = d /\ WallClock(s) = x
       /\ WallDay(e) = d /\ WallClock(e) = y
  <2>1. /\ (d * DayLength + x) \div DayLength = d /\ (d * DayLength + x) % DayLength = x
        /\ (d * DayLength + y) \div DayLength = d /\ (d * DayLength + y) % DayLength = y
    BY <1>6, <1>16, Division
  <2> QED
    BY ONLY <1>17, <2>1 DEF WallDay, WallClock
<1> QED
  BY <1>4, <1>15, <1>18 DEF WithinHours

WorkWindow(w) ==
  \E d \in Int : Instant(d, hours.open) <= w.start /\ w.end <= Instant(d, hours.close)

\* Only for an explicit time is there a window that is no stretch of a working day.
DayInv ==
  /\ Clocked
  /\ pc = "raw" => explicit
  /\ ~explicit => \A i \in 1..Len(windows) : WorkWindow(windows[i])

\* It holds before a day was looked at,
LEMMA DaysBegin == Init => DayInv
<1> SUFFICES ASSUME Init PROVE DayInv
  OBVIOUS
<1>1. Clocked
  BY SlotAssumption DEF SlotAssumption, Clocked, Init
<1>2. pc # "raw" /\ Len(windows) = 0
  BY DEF Init
<1> QED
  BY <1>1, <1>2 DEF DayInv

\* and a day's window is a stretch of that day.
LEMMA DaysStep == IInv /\ DayInv /\ [Next]_vars => DayInv'
<1> SUFFICES ASSUME IInv, DayInv, [Next]_vars PROVE DayInv'
  OBVIOUS
<1>1. UNCHANGED inputs
  BY DEF Next, vars, Suggest, RawWindow, DayWindow, DaysDone, PickWindow, NoWindowLeft, FoundGap, SkipInterval,
         FoundTail, TailTooShort, Found, NextWindow
<1>2. hours' = hours /\ zone' = zone /\ explicit' = explicit
  BY <1>1 DEF inputs
<1>3. Clocked'
  BY <1>2 DEF DayInv, Clocked
<1>4. ASSUME NEW w, WorkWindow(w) PROVE WorkWindow(w)'
  BY <1>2, <1>4 DEF WorkWindow, Instant, Offset
<1>5. CASE DayWindow
  <2>1. pc' # "raw"
    BY <1>5 DEF DayWindow
  <2>2. day \in Int /\ windows \in Seq(Interval) /\ Clamped \in Interval
    <3>1. Instant(day, hours.open) \in Int /\ Instant(day, hours.close) \in Int
      <4>1. day \in Int /\ hours.open \in Int /\ hours.close \in Int
        BY DEF IInv, TypeOK
      <4> QED
        BY <4>1, InstantsAreIntegers DEF IInv
    <3> QED
      BY <3>1 DEF Clamped, Interval, Later, Earlier, IInv, TypeOK
  <2>3. WorkWindow(Clamped)
    <3>1. PICK p \in Int, q \in Int : p = Instant(day, hours.open) /\ q = Instant(day, hours.close)
      <4>1. day \in Int /\ hours.open \in Int /\ hours.close \in Int
        BY DEF IInv, TypeOK
      <4> QED
        BY <4>1, InstantsAreIntegers DEF IInv
    <3>2. Clamped.start = Later(p, from) /\ Clamped.end = Earlier(q, to)
      BY <3>1 DEF Clamped
    <3>3. p <= Clamped.start /\ Clamped.end <= q
      BY <3>1, <3>2 DEF Later, Earlier, IInv, TypeOK
    <3> QED
      BY <2>2, <3>1, <3>3 DEF WorkWindow
  <2>4. windows' = windows \/ windows' = Append(windows, Clamped)
    BY <1>5 DEF DayWindow
  <2>5. \A i \in 1..Len(windows') : \/ i \in 1..Len(windows) /\ windows'[i] = windows[i]
                                    \/ windows'[i] = Clamped
    BY <2>2, <2>4
  <2>6. ~explicit => \A i \in 1..Len(windows') : WorkWindow(windows'[i])
    BY <2>3, <2>5 DEF DayInv
  <2>7. ~explicit' => \A i \in 1..Len(windows') : WorkWindow(windows[i])'
    BY <1>2, <1>4, <2>6 DEF WorkWindow, Instant, Offset
  <2> QED
    BY <1>3, <2>1, <2>7 DEF DayInv
<1>6. CASE ~DayWindow
  <2>1. windows' = windows \/ explicit
    BY <1>6 DEF Next, vars, Suggest, RawWindow, DaysDone, PickWindow, NoWindowLeft, FoundGap, SkipInterval,
         FoundTail, TailTooShort, Found, NextWindow, DayInv
  <2>2. pc' = "raw" => explicit
    BY <1>6 DEF Next, vars, Suggest, RawWindow, DaysDone, PickWindow, NoWindowLeft, FoundGap, SkipInterval,
         FoundTail, TailTooShort, Found, NextWindow, DayInv
  <2>3. ~explicit => \A i \in 1..Len(windows') : WorkWindow(windows'[i])
    BY <2>1 DEF DayInv
  <2>4. ~explicit' => \A i \in 1..Len(windows') : WorkWindow(windows[i])'
    BY <1>2, <2>3 DEF WorkWindow, Instant, Offset
  <2> QED
    BY <1>2, <1>3, <2>2, <2>4 DEF DayInv
<1> QED
  BY <1>5, <1>6

\* So what was found passes the guard of the write.
LEMMA SlotInHours == IInv /\ DayInv => ProposedPassesGuard
<1> SUFFICES ASSUME IInv, DayInv, found, ~explicit, ~ChangesAtWork PROVE WithinHours(slot, slot + duration)
  BY DEF ProposedPassesGuard
<1>1. k \in 1..Len(windows) /\ Fits(slot, windows[k]) /\ windows[k] \in Interval
  BY DEF IInv, TypeOK, Outcome
<1>2. PICK d \in Int : Instant(d, hours.open) <= windows[k].start /\ windows[k].end <= Instant(d, hours.close)
  BY <1>1 DEF DayInv, WorkWindow
<1>3. PICK a \in Int, b \in Int : a = Instant(d, hours.open) /\ b = Instant(d, hours.close)
  <2>1. hours.open \in Int /\ hours.close \in Int
    BY DEF IInv, TypeOK
  <2> QED
    BY <2>1, InstantsAreIntegers DEF IInv
<1>4. slot \in Int /\ slot + duration \in Int /\ slot < slot + duration
  BY DEF IInv, TypeOK
<1>5. a <= slot /\ slot + duration <= b
  BY <1>1, <1>2, <1>3, <1>4 DEF Fits, Interval
<1> QED
  BY <1>2, <1>3, <1>4, <1>5, DayHoldsSlot DEF DayInv

\* What is proposed when nobody named a clock time passes the guard that refuses a
\* write outside working hours (workingHourWindows, bookingWithinWorkingHours), in
\* every zone whose change skips and repeats no working hour.
LEMMA ProposalsPass == Spec => []ProposedPassesGuard
<1>1. Init => IInv /\ DayInv
  BY InitHolds, DaysBegin
<1>2. IInv /\ DayInv /\ [Next]_vars => DayInv'
  BY DaysStep
<1>3. IInv /\ DayInv => ProposedPassesGuard
  BY SlotInHours
<1> QED
  BY <1>1, <1>2, <1>3, Invariance, PTL DEF Spec

-----------------------------------------------------------------------------
(* What an owner says *)

\* Nothing is no number and none of the words.
LEMMA NoneIsNothing ==
  /\ None \notin Int
  /\ None # "iso" /\ None # "today" /\ None # "tomorrow" /\ None # "next" /\ None # "this" /\ None # "coming"
  /\ None # "bare" /\ None # "month" /\ None # "morning" /\ None # "afternoon" /\ None # "evening"
  /\ None # "single" /\ None # "range" /\ None # "till"
  BY MessageAssumption DEF MessageAssumption, DateKinds, TimeKinds

\* A message is one the parsers can get,
LEMMA MessageTyped ==
  ASSUME NEW m \in Messages
  PROVE  /\ Dated(m.date) /\ Timed(m.time) /\ m.first \in {"date", "time"}
         /\ m.now \in Int /\ m.offset \in Int /\ Today(m) \in ThisCentury
  BY MessageAssumption DEF MessageAssumption

\* with working hours that are numbers.
LEMMA HoursTyped ==
  ASSUME NEW m \in Messages
  PROVE  \E a \in Int, b \in Int : a = m.hours.start /\ b = m.hours.end
<1>1. PICK h \in [start : MinuteOfDay, end : MinuteOfDay] : h = m.hours
  BY MessageAssumption DEF MessageAssumption
<1>2. PICK a \in MinuteOfDay, b \in MinuteOfDay : a = h.start /\ b = h.end
  OBVIOUS
<1>3. a \in Int /\ b \in Int
  BY DEF MinuteOfDay
<1>4. m.hours.start = a /\ m.hours.end = b
  BY <1>1, <1>2
<1>5. \E y \in Int : y = m.hours.end
  BY <1>3, <1>4, Zenon
<1> QED
  BY <1>3, <1>4, <1>5, Zenon

\* What a part of the day comes to, beside a date that is not taken for hours.
LEMMA InferredRange ==
  ASSUME NEW said, Dated(said.date), Timed(said.time), ~W!NamesClock(said), ~W!ReadAsHours(said.date)
  PROVE  LET range == W!NaturalTimeRange(said) IN
         \/ range = None
         \/ /\ range.start \in Int /\ range.end \in Int /\ range.start < range.end /\ ~range.explicit
            /\ range # None
<1>1. PICK first : first = W!FirstRange(said, {"range"})
  OBVIOUS
<1>2. PICK part : part = said.time[1]
  OBVIOUS
<1>3. part \in {"morning", "afternoon", "evening", None}
  BY <1>2 DEF Timed, TimeKinds, W!NamesClock
<1>4. ~(first[1] # None /\ first[2] <= 23 /\ first[5] <= 23)
  <2>1. CASE said.date[1] = "iso"
    <3>1. PICK month \in 1..12, dom \in 1..31 : month = said.date[3] /\ dom = said.date[4]
      BY <2>1 DEF Dated
    <3>2. first = <<"range", month, 0, "", dom, 0, "">>
      BY <1>1, <1>2, <1>3, <2>1, <3>1, NoneIsNothing DEF W!FirstRange
    <3>3. first[5] = dom
      BY <3>2
    <3> QED
      BY <2>1, <3>1, <3>3 DEF W!ReadAsHours
  <2>2. CASE said.date[1] # "iso"
    <3>1. first = <<None>>
      BY <1>1, <1>2, <1>3, <2>2, NoneIsNothing DEF W!FirstRange
    <3> QED
      BY <3>1
  <2> QED
    BY <2>1, <2>2
<1>5. W!FirstClock(said.time) = None
  BY <1>2, <1>3, NoneIsNothing DEF W!FirstClock
<1>6. PICK range : range = W!NaturalTimeRange(said)
  OBVIOUS
<1>7. range = W!PartOfDay(part)
  BY <1>1, <1>2, <1>4, <1>5, <1>6 DEF W!NaturalTimeRange
<1>8. \/ range = None
      \/ range = [start |-> 540, end |-> 720, explicit |-> FALSE]
      \/ range = [start |-> 720, end |-> 1020, explicit |-> FALSE]
      \/ range = [start |-> 1020, end |-> 1260, explicit |-> FALSE]
  BY <1>3, <1>7, NoneIsNothing DEF W!PartOfDay, W!Range, W!MinutesOf
<1> QED
  BY <1>6, <1>8

\* resolveWindow: a part of the day is clamped, and no time at all is the whole of the
\* working hours.
LEMMA WindowsInHours ==
  ASSUME NEW m \in Messages
  PROVE  W!InferredWindowInHours(m, m.now, m.offset, m.hours)
<1>1. PICK w : w = W!ResolveNaturalWindow(m, m.now, m.offset, m.hours)
  OBVIOUS
<1>2. SUFFICES ASSUME w # None, W!KnownHours(m.hours), ~W!NamesClock(m), ~W!ReadAsHours(m.date)
               PROVE  m.hours.start <= w.start /\ w.start < w.end /\ w.end <= m.hours.end
  BY <1>1 DEF W!InferredWindowInHours
<1>3. PICK range : range = W!NaturalTimeRange(m)
  OBVIOUS
<1>4. PICK e : e = W!EffectiveRange(range, m.hours)
  OBVIOUS
<1>5. w.start = e.start /\ w.end = e.end
  BY <1>1, <1>2, <1>3, <1>4 DEF W!ResolveNaturalWindow
<1>6. PICK a \in Int, b \in Int : a = m.hours.start /\ b = m.hours.end
  BY HoursTyped
<1>7. a < b
  BY <1>2, <1>6 DEF W!KnownHours
<1>8. CASE range = None
  BY <1>2, <1>4, <1>5, <1>6, <1>7, <1>8 DEF W!EffectiveRange
<1>9. CASE range # None
  <2>1. PICK c \in Int, d \in Int : c = range.start /\ d = range.end /\ c < d /\ ~range.explicit
    BY <1>2, <1>3, <1>9, InferredRange, MessageTyped
  <2>2. e = W!ClampRangeToWorkingHours(range, m.hours)
    BY <1>2, <1>4, <1>9, <2>1 DEF W!EffectiveRange
  <2>3. \/ e.start = a /\ e.end = b
        \/ e.start = W!Later(c, a) /\ e.end = W!Earlier(d, b) /\ ~(e.start >= e.end)
    BY <1>6, <2>1, <2>2 DEF W!ClampRangeToWorkingHours
  <2> QED
    BY <1>5, <1>6, <1>7, <2>1, <2>3 DEF W!Later, W!Earlier
<1> QED
  BY <1>8, <1>9

\* guardWriteWorkingHours: an extraction outside the hours asks the owner instead.
LEMMA EventsInHours ==
  ASSUME NEW m \in Messages, NEW x \in Extractions
  PROVE  W!InferredEventInHours(m, x, m.now, m.offset, m.hours)
<1>1. PICK event : event = W!PrepareEvent(m, None, x, m.now, m.offset, m.hours)
  OBVIOUS
<1>2. SUFFICES ASSUME event # None, ~W!NamesClock(m)
               PROVE  m.hours.start <= event.start /\ event.end <= m.hours.end
  BY <1>1 DEF W!InferredEventInHours
<1>3. /\ W!GuardWriteWorkingHours(m, event, m.hours)
      /\ event = IF x # None THEN x ELSE W!ParseCalendarBookingQuery(m, m.now, m.offset)
  BY <1>1, <1>2 DEF W!PrepareEvent
<1>4. ~W!MentionsExplicitTime(m)
  BY <1>2 DEF W!MentionsExplicitTime, W!NamesClock
<1>5. event = x
  <2>1. W!BookingTimeRange(m) = None
    <3>1. PICK first : first = W!FirstRange(m, {"range", "till"})
      OBVIOUS
    <3>2. first[1] = None \/ first[7] = ""
      BY <1>2, <3>1 DEF W!FirstRange, W!NamesClock
    <3> QED
      BY <3>1, <3>2 DEF W!BookingTimeRange
  <2>2. W!ParseCalendarBookingQuery(m, m.now, m.offset) = None
    BY <2>1 DEF W!ParseCalendarBookingQuery
  <2> QED
    BY <1>2, <1>3, <2>2
<1> QED
  BY <1>3, <1>4 DEF W!GuardWriteWorkingHours

\* A range is not nothing.
LEMMA RangeIsSomething ==
  ASSUME NEW a \in Int, NEW b \in Int, NEW c \in BOOLEAN
  PROVE  W!Range(a, b, c) # None
  BY MessageAssumption DEF MessageAssumption, W!Range

\* Whatever suffix is taken over, an hour stays an hour of the day.
LEMMA ClockOfDay ==
  ASSUME NEW h \in Hour, NEW n \in Minute, NEW s
  PROVE  W!ToClock(h, n, s) \in MinuteOfDay
<1>1. PICK x \in 0..23 : x = CASE s = "pm" /\ h < 12 -> h + 12
                               [] s = "am" /\ h = 12 -> 0
                               [] OTHER -> h
  BY DEF Hour
<1>2. W!ToClock(h, n, s) = 60 * x + n
  BY <1>1 DEF W!ToClock, W!MinutesOf
<1> QED
  BY <1>2 DEF Minute, MinuteOfDay

\* The minutes of a day are numbers.
LEMMA MinutesAreNumbers == MinuteOfDay \subseteq Int
  BY DEF MinuteOfDay

\* So is the one that a single clock time stands for, with the hour after it.
LEMMA NamedClock ==
  ASSUME NEW h \in Hour, NEW n \in Minute, NEW s, NEW range, range = W!AnHour(W!ToClock(h, n, s))
  PROVE  range.start \in MinuteOfDay /\ range.explicit /\ range # None
<1>1. PICK c \in MinuteOfDay : c = W!ToClock(h, n, s)
  BY ClockOfDay
<1>2. range = W!Range(c, W!AddHourClock(c), TRUE)
  BY <1>1 DEF W!AnHour
<1>3. W!AddHourClock(c) \in Int
  BY DEF MinuteOfDay, W!AddHourClock, W!EndOfDay
<1>4. range # None
  BY <1>2, <1>3, MinutesAreNumbers, RangeIsSomething
<1> QED
  BY <1>1, <1>2, <1>4 DEF W!Range

\* A clock time somebody named is a minute of the day, where no date stands before it.
LEMMA NamedRange ==
  ASSUME NEW said, Timed(said.time), W!NamesClock(said),
         said.date[1] # "iso" \/ (said.first # "date" /\ said.time[1] = "range")
  PROVE  LET range == W!NaturalTimeRange(said)
             time == said.time
         IN
         /\ range = None \/ (range.start \in MinuteOfDay /\ range.explicit)
         /\ time[1] = "range" =>
              /\ range # None
              /\ range.start = W!ToClock(time[2], time[3], W!Suffix(time[4], time[7]))
              /\ range.end = W!ToClock(time[5], time[6], W!Suffix(time[7], time[4]))
<1>1. PICK range : range = W!NaturalTimeRange(said)
  OBVIOUS
<1>2. PICK time : time = said.time
  OBVIOUS
<1>3. PICK first : first = W!FirstRange(said, {"range"})
  OBVIOUS
<1>4. CASE time[1] = "range"
  <2>1. first = time
    BY <1>2, <1>3, <1>4 DEF W!FirstRange
  <2>2. time[2] \in Hour /\ time[3] \in Minute /\ time[5] \in Hour /\ time[6] \in Minute
    BY <1>2, <1>4 DEF Timed
  <2>3. first[1] # None /\ first[2] <= 23 /\ first[5] <= 23
    BY <1>4, <2>1, <2>2, NoneIsNothing DEF Hour
  <2>4. range = W!Range(W!ToClock(time[2], time[3], W!Suffix(time[4], time[7])),
                        W!ToClock(time[5], time[6], W!Suffix(time[7], time[4])), TRUE)
    BY <1>1, <1>3, <2>1, <2>3 DEF W!NaturalTimeRange
  <2>5. W!ToClock(time[2], time[3], W!Suffix(time[4], time[7])) \in MinuteOfDay
    BY <2>2, ClockOfDay
  <2>6. /\ range.start = W!ToClock(time[2], time[3], W!Suffix(time[4], time[7]))
        /\ range.end = W!ToClock(time[5], time[6], W!Suffix(time[7], time[4]))
        /\ range.explicit
    BY <2>4 DEF W!Range
  <2>7. range # None
    <3>1. W!ToClock(time[5], time[6], W!Suffix(time[7], time[4])) \in MinuteOfDay
      BY <2>2, ClockOfDay
    <3> QED
      BY <2>4, <2>5, <3>1, MinutesAreNumbers, RangeIsSomething
  <2> QED
    BY <1>1, <1>2, <2>5, <2>6, <2>7
<1>5. CASE time[1] # "range"
  <2>1. ~(first[1] # None /\ first[2] <= 23 /\ first[5] <= 23)
    <3>1. first = <<None>>
      BY <1>2, <1>3, <1>5 DEF W!FirstRange
    <3>2. first[1] = None
      BY <3>1
    <3> QED
      BY <3>2
  <2>2. time[1] \in {"single", "till"}
    BY <1>2, <1>5 DEF W!NamesClock
  <2>3. /\ time[2] \in Hour /\ time[3] \in Minute
        /\ time[1] = "till" => time[5] \in Hour /\ time[6] \in Minute
    BY <1>2, <2>2 DEF Timed
  <2>4. PICK named : named = W!FirstClock(time)
    OBVIOUS
  <2>5. CASE named = None
    <3>1. range = W!PartOfDay(time[1])
      BY <1>1, <1>2, <1>3, <2>1, <2>4, <2>5 DEF W!NaturalTimeRange
    <3>2. W!PartOfDay(time[1]) = None
      BY <2>2 DEF W!PartOfDay
    <3> QED
      BY <1>1, <1>2, <1>5, <3>1, <3>2
  <2>6. CASE named # None
    <3>1. PICK h \in Hour, n \in Minute : \E suffix : named = <<h, n, suffix>>
      BY <2>2, <2>3, <2>4, <2>6 DEF W!FirstClock
    <3>2. PICK s : named = <<h, n, s>>
      BY <3>1
    <3>3. range = W!AnHour(W!ToClock(named[1], named[2], named[3]))
      BY <1>1, <1>2, <1>3, <2>1, <2>4, <2>6 DEF W!NaturalTimeRange
    <3>4. range = W!AnHour(W!ToClock(h, n, s))
      BY <3>2, <3>3
    <3> QED
      BY <1>1, <1>2, <1>5, <3>4, NamedClock
  <2> QED
    BY <2>5, <2>6
<1> QED
  BY <1>4, <1>5

\* defaultDateForTime: today if it is still ahead, else tomorrow.
LEMMA TimeIsAhead ==
  ASSUME NEW m \in Messages
  PROVE  W!DatelessTimeIsAhead(m, m.now, m.offset, m.hours)
<1>1. PICK w : w = W!ResolveNaturalWindow(m, m.now, m.offset, m.hours)
  OBVIOUS
<1>2. SUFFICES ASSUME m.date = <<None>>, W!NamesClock(m), w # None
               PROVE  /\ m.now < 1440 * w.day + w.start - m.offset
                      /\ 1440 * w.day + w.start - m.offset <= m.now + 1440
  BY <1>1 DEF W!DatelessTimeIsAhead
<1>3. PICK range : range = W!NaturalTimeRange(m)
  OBVIOUS
<1>5. W!NaturalDate(m.date, W!DayInZone(m.now, m.offset)) = None
  <2>1. PICK date : date = m.date
    OBVIOUS
  <2>2. date[1] = None
    BY <1>2, <2>1
  <2> QED
    BY <2>1, <2>2, NoneIsNothing DEF W!NaturalDate
<1>4. PICK s \in MinuteOfDay : s = range.start /\ range.explicit /\ range # None
  <2>1. range # None
    BY <1>1, <1>2, <1>3, <1>5 DEF W!ResolveNaturalWindow
  <2>2. m.date[1] # "iso"
    <3>1. PICK date : date = m.date /\ date = <<None>>
      BY <1>2
    <3>2. date[1] = None
      BY <3>1
    <3> QED
      BY <3>1, <3>2, NoneIsNothing
  <2> QED
    BY <1>2, <1>3, <2>1, <2>2, NamedRange, MessageTyped
<1>6. w.start = s /\ w.day = W!DefaultDateForTime(range, m.now, m.offset)
  <2>1. W!EffectiveRange(range, m.hours).start = s
    BY <1>4 DEF W!EffectiveRange
  <2> QED
    BY <1>1, <1>3, <1>4, <1>5, <2>1 DEF W!ResolveNaturalWindow
<1>7. PICK now \in Int, offset \in Int : now = m.now /\ offset = m.offset
  BY MessageTyped
<1>8. PICK t \in Int, c \in Int : t = (now + offset) \div 1440 /\ c = (now + offset) % 1440
  BY <1>7
<1>9. now + offset = 1440 * t + c /\ 0 <= c /\ c < 1440
  BY <1>7, <1>8
<1>10. w.day = IF s > c THEN t ELSE t + 1
  BY <1>4, <1>6, <1>7, <1>8 DEF W!DefaultDateForTime, W!DayInZone, W!ClockInZone
<1>11. PICK at \in Int : at = w.day
  BY <1>8, <1>10
<1>12. s \in Int /\ 0 <= s /\ s < 1440 /\ w.start = s
  <2>1. s \in Int /\ 0 <= s /\ s < 1440
    BY DEF MinuteOfDay
  <2> QED
    BY <1>6, <2>1
<1>13. now < 1440 * at + s - offset /\ 1440 * at + s - offset <= now + 1440
  BY ONLY <1>7, <1>8, <1>9, <1>10, <1>11, <1>12
<1> QED
  BY <1>7, <1>11, <1>12, <1>13

\* What a booking needs, the calendar read takes for the same clock times.
LEMMA SameClock ==
  ASSUME NEW h \in Hour, NEW n \in Minute, NEW s \in {"am", "pm"}, W!Clock24(h, n, s) # None
  PROVE  W!ToClock(h, n, s) = W!Clock24(h, n, s)
<1>1. h \in 1..12
  BY DEF W!Clock24
<1>2. W!Clock24(h, n, s) = 60 * ((h % 12) + (IF s = "pm" THEN 12 ELSE 0)) + n
  BY <1>1 DEF W!Clock24, W!MinutesOf
<1>3. h % 12 = IF h = 12 THEN 0 ELSE h
  BY <1>1
<1>4. PICK x \in 0..23 : x = CASE s = "pm" /\ h < 12 -> h + 12
                               [] s = "am" /\ h = 12 -> 0
                               [] OTHER -> h
  BY DEF Hour
<1>5. W!ToClock(h, n, s) = 60 * x + n
  BY <1>4 DEF W!ToClock, W!MinutesOf
<1>6. x = (h % 12) + (IF s = "pm" THEN 12 ELSE 0)
  <2>1. CASE s = "pm"
    BY <1>1, <1>3, <1>4, <2>1
  <2>2. CASE s = "am"
    BY <1>1, <1>3, <1>4, <2>2
  <2> QED
    BY <2>1, <2>2
<1> QED
  BY <1>2, <1>5, <1>6

\* So one message is read and booked as the same stretch of the same day.
LEMMA SameWindow ==
  ASSUME NEW m \in Messages
  PROVE  W!BooksWhatWasRead(m, m.now, m.offset, m.hours)
<1>1. PICK read : read = W!ResolveNaturalWindow(m, m.now, m.offset, m.hours)
  OBVIOUS
<1>2. PICK event : event = W!ParseCalendarBookingQuery(m, m.now, m.offset)
  OBVIOUS
<1>3. SUFFICES ASSUME event # None, m.date[1] \notin {"coming", "month"}, m.time[1] # "till"
               PROVE  read = event
  BY <1>1, <1>2 DEF W!BooksWhatWasRead
<1>4. PICK time : time = m.time
  OBVIOUS
<1>5. PICK booked : booked = W!BookingTimeRange(m)
  OBVIOUS
<1>6. PICK range : range = W!NaturalTimeRange(m)
  OBVIOUS
<1>7. PICK today : today = W!DayInZone(m.now, m.offset)
  OBVIOUS
<1>8. PICK date : date = W!BookingDay(m.date, today)
  OBVIOUS
<1>9. date # None /\ booked # None /\ event = [day |-> date, start |-> booked.start, end |-> booked.end]
  BY <1>2, <1>3, <1>4, <1>5, <1>7, <1>8 DEF W!ParseCalendarBookingQuery
<1>10. date = W!NaturalDate(m.date, today)
  <2>1. Dated(m.date)
    BY MessageTyped
  <2> QED
    BY <1>3, <1>8, <1>9, <2>1 DEF Dated, DateKinds, W!BookingDay, W!NaturalDate
<1>11. /\ time[1] = "range" /\ time[7] # "" /\ W!FirstRange(m, {"range", "till"}) = time
       /\ m.date[1] # "iso" \/ m.first # "date"
  <2>1. PICK first : first = W!FirstRange(m, {"range", "till"})
    OBVIOUS
  <2>2. first[1] # None /\ first[7] # ""
    BY <1>5, <1>9, <2>1 DEF W!BookingTimeRange
  <2>3. ~(m.date[1] = "iso" /\ (m.first = "date" \/ m.time[1] \notin {"range", "till"}))
    <3>1. SUFFICES ASSUME first = <<"range", m.date[3], 0, "", m.date[4], 0, "">> PROVE FALSE
      BY <2>1 DEF W!FirstRange
    <3> QED
      BY <2>2, <3>1
  <2>4. m.time[1] \in {"range", "till"} /\ first = m.time
    <3>1. first = IF m.time[1] \in {"range", "till"} THEN m.time ELSE <<None>>
      BY <2>1, <2>3 DEF W!FirstRange
    <3> QED
      BY <2>2, <3>1
  <2> QED
    BY <1>3, <1>4, <2>1, <2>2, <2>3, <2>4
<1>12. Timed(time)
  BY <1>4, MessageTyped
<1>13. /\ time[2] \in Hour /\ time[3] \in Minute /\ time[5] \in Hour /\ time[6] \in Minute
       /\ time[4] \in Meridiems /\ time[7] \in {"am", "pm"}
  BY <1>11, <1>12 DEF Timed, Meridiems
<1>14. W!Suffix(time[4], time[7]) \in {"am", "pm"} /\ W!Suffix(time[7], time[4]) = time[7]
  BY <1>13 DEF W!Suffix, Meridiems
<1>15. PICK start, end : /\ start = W!Clock24(time[2], time[3], W!Suffix(time[4], time[7]))
                         /\ end = W!Clock24(time[5], time[6], time[7])
  OBVIOUS
<1>16. start # None /\ end # None /\ booked.start = start /\ booked.end = end
  BY <1>5, <1>9, <1>11, <1>15, NoneIsNothing DEF W!BookingTimeRange
<1>17. range.start = start /\ range.end = end /\ range.explicit /\ range # None
  <2>1. /\ range.explicit /\ range # None
        /\ range.start = W!ToClock(time[2], time[3], W!Suffix(time[4], time[7]))
        /\ range.end = W!ToClock(time[5], time[6], W!Suffix(time[7], time[4]))
    BY <1>4, <1>6, <1>11, <1>12, NamedRange DEF W!NamesClock
  <2>2. range.start = start
    BY <1>13, <1>14, <1>15, <1>16, <2>1, SameClock
  <2>3. range.end = end
    BY <1>13, <1>14, <1>15, <1>16, <2>1, SameClock
  <2> QED
    BY <2>1, <2>2, <2>3
<1>18. read = [day |-> date, start |-> range.start, end |-> range.end]
  <2>1. W!EffectiveRange(range, m.hours) = [start |-> range.start, end |-> range.end]
    BY <1>17 DEF W!EffectiveRange
  <2> QED
    BY <1>1, <1>4, <1>6, <1>7, <1>9, <1>10, <1>17, <2>1 DEF W!ResolveNaturalWindow
<1> QED
  BY <1>9, <1>16, <1>17, <1>18

\* New year's days, in closed form.
LEMMA NewYears ==
  ASSUME NEW y \in Int
  PROVE  W!NewYear(y) = 365 * (y - 2000) + (y - 1997) \div 4 + 1
<1>1. W!BeforeMonth[1] = 0
  BY DEF W!BeforeMonth
<1> QED
  BY <1>1 DEF W!NewYear, W!DayNumber

\* Every day of the calendar is in one year.
LEMMA YearBegins ==
  ASSUME NEW n \in Int, W!NewYear(2000) <= n, n < W!NewYear(2099)
  PROVE  \E y \in 2000..2098 : W!NewYear(y) <= n /\ n < W!NewYear(y + 1)
<1>1. W!NewYear(2000) = 1 /\ W!NewYear(2099) = 365 * 99 + 26
  BY NewYears
<1>2. PICK q \in Int : q = (4 * (n - 1)) \div 1461
  OBVIOUS
<1>3. 1461 * q <= 4 * (n - 1) /\ 4 * (n - 1) < 1461 * q + 1461
  BY <1>2
<1>4. PICK r \in Int : r = (q + 3) \div 4
  OBVIOUS
<1>5. 4 * r <= q + 3 /\ q + 3 < 4 * r + 4
  BY <1>4
<1>6. PICK s \in Int : s = (q + 4) \div 4
  OBVIOUS
<1>7. 4 * s <= q + 4 /\ q + 4 < 4 * s + 4
  BY <1>6
<1>8. 0 <= q /\ q <= 98
  BY <1>1, <1>3
<1>9. W!NewYear(2000 + q) = 365 * q + r + 1 /\ W!NewYear(2000 + q + 1) = 365 * (q + 1) + s + 1
  <2>1. W!NewYear(2000 + q) = 365 * (2000 + q - 2000) + (2000 + q - 1997) \div 4 + 1
    BY NewYears
  <2>2. W!NewYear(2000 + q + 1) = 365 * (2000 + q + 1 - 2000) + (2000 + q + 1 - 1997) \div 4 + 1
    BY NewYears
  <2>3. 2000 + q - 1997 = q + 3 /\ 2000 + q + 1 - 1997 = q + 4
    OBVIOUS
  <2> QED
    BY <1>4, <1>6, <2>1, <2>2, <2>3
<1>10. 365 * q + r + 1 <= n
  BY ONLY <1>3, <1>5
<1>11. n < 365 * (q + 1) + s + 1
  BY ONLY <1>3, <1>7
<1> QED
  BY <1>8, <1>9, <1>10, <1>11

\* Years begin one after the other,
LEMMA YearsInOrder ==
  ASSUME NEW y \in Int, NEW z \in Int, y <= z
  PROVE  W!NewYear(y) \in Int /\ W!NewYear(y) <= W!NewYear(z) /\ (y < z => W!NewYear(y + 1) <= W!NewYear(z))
<1>1. \A x \in Int : W!NewYear(x) = 365 * (x - 2000) + (x - 1997) \div 4 + 1
  BY NewYears
<1>2. \A x \in Int : 4 * ((x - 1997) \div 4) <= x - 1997 /\ x - 1997 < 4 * ((x - 1997) \div 4) + 4
  OBVIOUS
<1>3. PICK a \in Int : a = (y - 1997) \div 4
  OBVIOUS
<1>4. PICK b \in Int : b = (z - 1997) \div 4
  OBVIOUS
<1>5. PICK c \in Int : c = (y + 1 - 1997) \div 4
  OBVIOUS
<1>6. /\ 4 * a <= y - 1997 /\ y - 1997 < 4 * a + 4
      /\ 4 * b <= z - 1997 /\ z - 1997 < 4 * b + 4
      /\ 4 * c <= y + 1 - 1997 /\ y + 1 - 1997 < 4 * c + 4
  BY <1>3, <1>4, <1>5
<1>7. W!NewYear(y) = 365 * (y - 2000) + a + 1 /\ W!NewYear(z) = 365 * (z - 2000) + b + 1
  BY <1>1, <1>3, <1>4
<1>8. W!NewYear(y + 1) = 365 * (y + 1 - 2000) + c + 1
  BY <1>1, <1>5
<1> QED
  BY ONLY <1>6, <1>7, <1>8, y <= z

\* so the year of a day is the one it lies in.
LEMMA YearFound ==
  ASSUME NEW n \in Int, NEW y \in 2000..2098, W!NewYear(y) <= n, n < W!NewYear(y + 1)
  PROVE  W!YearOf(n) = y
<1>1. \A z \in 2000..2098 : W!NewYear(z) <= n /\ n < W!NewYear(z + 1) => z = y
  <2>1. SUFFICES ASSUME NEW z \in Int, W!NewYear(z) <= n, n < W!NewYear(z + 1), z # y PROVE FALSE
    OBVIOUS
  <2>2. y \in Int /\ y + 1 \in Int /\ z + 1 \in Int
    BY <2>1
  <2>3. /\ W!NewYear(y) \in Int /\ W!NewYear(z) \in Int /\ W!NewYear(y + 1) \in Int /\ W!NewYear(z + 1) \in Int
    BY <2>2, YearsInOrder
  <2>4. CASE z < y
    BY <2>1, <2>2, <2>3, <2>4, YearsInOrder
  <2>5. CASE y < z
    BY <2>1, <2>2, <2>3, <2>5, YearsInOrder
  <2> QED
    BY <2>1, <2>2, <2>4, <2>5
<1> QED
  BY <1>1 DEF W!YearOf

\* A leap year puts off the next one by a day.
LEMMA LeapYears ==
  ASSUME NEW y \in Int
  PROVE  (y + 1 - 1997) \div 4 = (y - 1997) \div 4 + (IF W!Leap(y) THEN 1 ELSE 0)
<1>1. PICK r \in Int, q \in Int : q = (y - 1997) \div 4 /\ r = (y - 1997) % 4
  OBVIOUS
<1>2. y - 1997 = 4 * q + r /\ 0 <= r /\ r < 4
  BY <1>1
<1>3. W!Leap(y) <=> r = 3
  BY <1>2 DEF W!Leap
<1>4. (y + 1 - 1997) \div 4 = IF r = 3 THEN q + 1 ELSE q
  BY <1>2
<1> QED
  BY <1>1, <1>3, <1>4

\* A date of a year is a day of that year.
LEMMA DatesInYear ==
  ASSUME NEW y \in Int, NEW m \in 1..12, NEW d \in Int, d \in 1..W!DaysIn(y, m)
  PROVE  /\ W!DayNumber(y, m, d) \in Int
         /\ W!NewYear(y) <= W!DayNumber(y, m, d) /\ W!DayNumber(y, m, d) < W!NewYear(y + 1)
<1>1. PICK f \in Int : f = 365 * (y - 2000) + (y - 1997) \div 4
  OBVIOUS
<1>2. PICK leap \in 0..1 : leap = IF W!Leap(y) THEN 1 ELSE 0
  OBVIOUS
<1>3. W!NewYear(y) = f + 1 /\ W!NewYear(y + 1) = f + 366 + leap
  <2>1. PICK a \in Int, b \in Int : a = (y - 1997) \div 4 /\ b = (y + 1 - 1997) \div 4
    OBVIOUS
  <2>2. b = a + leap
    BY <1>2, <2>1, LeapYears
  <2>3. W!NewYear(y) = 365 * (y - 2000) + a + 1 /\ W!NewYear(y + 1) = 365 * (y + 1 - 2000) + b + 1
    BY <2>1, NewYears
  <2> QED
    BY <1>1, <2>1, <2>2, <2>3
<1>4. W!DayNumber(y, m, d) = f + W!BeforeMonth[m] + (IF W!Leap(y) /\ m > 2 THEN 1 ELSE 0) + d
  BY <1>1 DEF W!DayNumber
<1>5. PICK b \in Int, l \in Int : /\ b = W!BeforeMonth[m] + (IF W!Leap(y) /\ m > 2 THEN 1 ELSE 0)
                                 /\ l = W!DaysIn(y, m)
                                 /\ 0 <= b /\ b + l <= 365 + leap
  <2>1. m = 1 \/ m = 2 \/ m = 3 \/ m = 4 \/ m = 5 \/ m = 6 \/ m = 7 \/ m = 8 \/ m = 9 \/ m = 10 \/ m = 11 \/ m = 12
    OBVIOUS
  <2> QED
    BY <1>2, <2>1 DEF W!BeforeMonth, W!DaysIn
<1>6. W!DayNumber(y, m, d) = f + b + d
  BY <1>4, <1>5 DEF W!BeforeMonth
<1>7. 1 <= d /\ d <= l
  BY <1>5
<1> QED
  BY ONLY <1>1, <1>2, <1>3, <1>5, <1>6, <1>7

\* So is a date that validDate lets through.
LEMMA DateOfYear ==
  ASSUME NEW y \in Int, NEW m \in 1..12, NEW d \in Int, W!ValidDate(y, m, d) # None
  PROVE  /\ W!ValidDate(y, m, d) \in Int
         /\ W!NewYear(y) <= W!ValidDate(y, m, d) /\ W!ValidDate(y, m, d) < W!NewYear(y + 1)
  BY DatesInYear DEF W!ValidDate

\* inferYear: a date that has passed this year is next year's, and of the one to come
\* there is none before.
LEMMA NextDate ==
  ASSUME NEW m \in Messages
  PROVE  W!DateComesNext(m, m.now, m.offset)
<1>1. PICK today : today = W!DayInZone(m.now, m.offset)
  OBVIOUS
<1>2. PICK d : d = W!BookingDay(m.date, today)
  OBVIOUS
<1>3. SUFFICES ASSUME m.date[1] = "month", m.date[2] = None, d # None
               PROVE  /\ today <= d
                      /\ \A y \in W!YearOf(today)..W!YearOf(d) :
                           W!ValidDate(y, m.date[3], m.date[4]) \notin today..(d - 1)
  BY <1>1, <1>2 DEF W!DateComesNext
<1>4. today \in Int /\ W!NewYear(2000) <= today /\ today < W!NewYear(2098)
  <2>1. today = Today(m) /\ today \in ThisCentury
    BY <1>1, MessageTyped DEF Today
  <2>2. W!NewYear(2000) \in Int /\ W!NewYear(2098) \in Int
    BY YearsInOrder
  <2> QED
    BY <2>1, <2>2 DEF ThisCentury
<1>5. PICK y \in 2000..2097 : W!NewYear(y) <= today /\ today < W!NewYear(y + 1)
  <2>1. W!NewYear(2098) <= W!NewYear(2099) /\ W!NewYear(2098) \in Int /\ W!NewYear(2099) \in Int
    BY YearsInOrder
  <2>2. PICK y \in 2000..2098 : W!NewYear(y) <= today /\ today < W!NewYear(y + 1)
    BY <1>4, <2>1, YearBegins
  <2>3. y # 2098
    BY <1>4, <2>1, <2>2
  <2> QED
    BY <2>2, <2>3
<1>6. W!YearOf(today) = y
  BY <1>4, <1>5, YearFound
<1>7. PICK month \in 1..12, n \in Int : month = m.date[3] /\ n = m.date[4]
  <2>1. m.date[3] \in 1..12 /\ m.date[4] \in 1..31
    BY <1>3, MessageTyped DEF Dated
  <2> QED
    BY <2>1
<1>8. PICK candidate : candidate = W!ValidDate(y, month, n)
  OBVIOUS
<1>9. candidate # None => candidate \in Int /\ W!NewYear(y) <= candidate /\ candidate < W!NewYear(y + 1)
  BY <1>8, DateOfYear
<1>10. d = W!ValidDate(W!InferredYear(today, month, n), month, n)
  BY <1>2, <1>3, <1>7 DEF W!BookingDay, W!CalendarDate
<1>11. CASE candidate # None /\ candidate < today
  <2>1. d = W!ValidDate(y + 1, month, n)
    BY <1>6, <1>8, <1>10, <1>11 DEF W!InferredYear
  <2>2. d \in Int /\ W!NewYear(y + 1) <= d /\ d < W!NewYear(y + 2)
    BY <1>3, <2>1, DateOfYear
  <2>3. W!YearOf(d) = y + 1
    BY <2>2, YearFound
  <2>4. today <= d
    BY <1>4, <1>5, <2>2, YearsInOrder
  <2>5. ASSUME NEW z \in y..(y + 1) PROVE W!ValidDate(z, month, n) \notin today..(d - 1)
    BY <1>4, <1>8, <1>9, <1>11, <2>1, <2>2
  <2> QED
    BY <1>6, <1>7, <2>3, <2>4, <2>5
<1>12. CASE ~(candidate # None /\ candidate < today)
  <2>1. d = candidate
    BY <1>6, <1>8, <1>10, <1>12 DEF W!InferredYear
  <2>2. d \in Int /\ W!NewYear(y) <= d /\ d < W!NewYear(y + 1) /\ today <= d
    BY <1>3, <1>4, <1>9, <1>12, <2>1
  <2>3. W!YearOf(d) = y
    BY <2>2, YearFound
  <2> QED
    BY <1>6, <1>7, <1>8, <2>1, <2>2, <2>3
<1> QED
  BY <1>11, <1>12

\* A message is one of the messages, for good.
LEMMA WordsStay == CalendarSpec => Spec /\ [](words \in Messages)
<1>1. CalendarInit => Init /\ words \in Messages
  BY DEF CalendarInit
<1>2. [CalendarNext]_<<vars, words>> => [Next]_vars /\ words' = words
  BY DEF CalendarNext
<1>3. words \in Messages /\ [CalendarNext]_<<vars, words>> => (words \in Messages)'
  BY <1>2
<1> QED
  BY <1>1, <1>2, <1>3, PTL DEF CalendarSpec, Spec

\* Nothing nobody named a time for is proposed, read or written outside the owner's
\* working hours (workingHourWindows, clampRangeToWorkingHours,
\* guardWriteWorkingHours), for all hours, zones, messages and extractions.
THEOREM HoursKept == CalendarSpec => []WorkingHoursKept
<1>1. ProposedPassesGuard /\ words \in Messages => WorkingHoursKept
  BY WindowsInHours, EventsInHours DEF WorkingHoursKept
<1> QED
  BY <1>1, WordsStay, ProposalsPass, PTL

\* A clock time without a date is ahead, a date without a year comes next, and what is
\* booked from a message is what the same message asked the calendar about
\* (resolveWindow, parseCalendarBookingQuery), for every message of every day of the
\* calendar.
THEOREM ReadAndBooked == CalendarSpec => []BooksWhatWasRead
<1>1. words \in Messages => BooksWhatWasRead
  BY TimeIsAhead, NextDate, SameWindow DEF BooksWhatWasRead
<1> QED
  BY <1>1, WordsStay, PTL

-----------------------------------------------------------------------------
(* Hiring *)

States == {"idle", "calling", "sleeping", "ok", "failed"}
Modes == {"all", "race", "quorum", "best", "chain", "single", "random", "selected"}
Prices == {"no", "free", "paid"}

FanoutShape ==
  /\ FanoutTypes /\ mode \in Modes /\ closed \in BOOLEAN /\ image \in BOOLEAN
  /\ quorum \in Nat /\ seen \in [Agents -> Prices] /\ hasImage \in [Agents -> BOOLEAN]
  /\ paid \in [Agents -> BOOLEAN]

\* Nobody is called before there are targets.
NotBegun ==
  stage \in {"discover", "targets"} =>
    /\ \A a \in Agents : st[a] = "idle" /\ attempt[a] = 0 /\ outcome[a] = "none"
    /\ targets = {} /\ ~closed /\ winner = 0
    /\ stage = "discover" => offered = Agents

\* Only targets are called, and a call that waits to be tried again has an attempt left.
OnlyTargets ==
  \A a \in Agents :
    /\ a \notin targets => st[a] = "idle" /\ attempt[a] = 0 /\ outcome[a] = "none"
    /\ attempt[a] <= MaxAttempts
    /\ st[a] = "idle" => attempt[a] = 0
    /\ st[a] = "sleeping" => attempt[a] < MaxAttempts

\* What was collected is what the call came to; it is all of it until the decision.
Collected ==
  \A a \in Agents : outcome[a] # "none" => outcome[a] = st[a]

\* A session is closed when its request is answered, and the judge is not asked before.
ClosedAtTheEnd ==
  /\ closed => Ended
  /\ winner # 0 => mode = "best" /\ stage \in {"done", "failed"} /\ winner \in Successes(outcome)

\* What was decided stays so.
StaysDecided ==
  /\ stage \in {"judge", "done"} /\ targets # {} =>
       /\ AllSettled(outcome) \/ Cardinality(Successes(outcome)) >= Need
       /\ mode \in {"all", "best", "chain", "single"} => AllSettled(outcome)
       /\ mode = "chain" => Successes(outcome) = targets
  /\ stage = "judge" => mode = "best" /\ Successes(outcome) # {}
  /\ stage = "done" /\ mode = "best" /\ Successes(outcome) # {} => winner # 0

\* No target asked for money when this session found it, but a selected one and a
\* random one that there is no free choice but.
FreeTargets ==
  online /\ ~consent =>
    \A a \in targets : seen[a] = "paid" =>
      \/ mode = "selected"
      \/ mode = "random" /\ \A b \in Agents : seen[b] # "free"

\* Only an image request discovers first, and a route is none.
TurnsAreOpen == (mode \in Turns => offered = Agents /\ ~image) /\ (stage = "discover" => image)

FanoutInv ==
  /\ TurnsAreOpen /\ FanoutShape /\ NotBegun /\ OnlyTargets /\ Collected /\ ClosedAtTheEnd /\ StaysDecided /\ FreeTargets

-----------------------------------------------------------------------------
LEMMA FanoutStarts == FanoutInit => FanoutInv
<1> SUFFICES ASSUME FanoutInit PROVE FanoutInv
  OBVIOUS
<1>1. /\ mode \in Modes /\ closed = FALSE /\ image \in BOOLEAN /\ stage \in {"discover", "targets"}
      /\ offered = Agents /\ targets = {} /\ winner = 0 /\ paid \in [Agents -> BOOLEAN]
      /\ \A a \in Agents : st[a] = "idle" /\ attempt[a] = 0 /\ outcome[a] = "none"
  BY DEF FanoutInit, Modes, Turns
<1>2. quorum \in Nat
  BY FanoutAssumption DEF FanoutInit
<1>3. /\ st \in [Agents -> States] /\ outcome \in [Agents -> {"none", "ok", "failed"}]
      /\ seen \in [Agents -> Prices] /\ hasImage \in [Agents -> BOOLEAN]
  BY DEF FanoutInit, States, Prices
<1>4. attempt \in [Agents -> 0 .. Tries + 1]
  BY FanoutAssumption DEF FanoutInit
<1>5. FanoutShape
  BY <1>1, <1>2, <1>3, <1>4 DEF FanoutShape, FanoutTypes, States
<1>6. MaxAttempts \in Nat
  BY FanoutAssumption DEF MaxAttempts
<1>7. NotBegun /\ Collected /\ FreeTargets
  BY <1>1 DEF NotBegun, Collected, FreeTargets
<1>8. OnlyTargets
  BY <1>1, <1>6 DEF OnlyTargets
<1>9. ClosedAtTheEnd /\ StaysDecided
  BY <1>1 DEF ClosedAtTheEnd, StaysDecided
<1>10. TurnsAreOpen
  BY <1>1 DEF FanoutInit, TurnsAreOpen, Turns
<1> QED
  BY <1>5, <1>7, <1>8, <1>9, <1>10 DEF FanoutInv

LEMMA SomeAttempts ==
  FanoutInv => MaxAttempts \in 1 .. Tries
  BY FanoutAssumption DEF MaxAttempts

\* All targets of a finite set succeeded if as many did.
LEMMA AllOfThem ==
  ASSUME NEW o, NEW all \in SUBSET Agents, NEW some \in SUBSET all, Cardinality(some) >= Cardinality(all)
  PROVE  some = all
<1>1. IsFiniteSet(all)
  BY FanoutAssumption, FS_Subset
<1>2. IsFiniteSet(some) /\ Cardinality(some) <= Cardinality(all)
      /\ (Cardinality(some) = Cardinality(all) => some = all)
  BY <1>1, FS_Subset
<1>3. Cardinality(some) \in Nat /\ Cardinality(all) \in Nat
  BY <1>1, <1>2, FS_CardinalityType
<1> QED
  BY <1>2, <1>3

-----------------------------------------------------------------------------
\* Steps before the first call.
LEMMA BeforeCalls ==
  ASSUME FanoutInv, stage \in {"discover", "targets"}, UNCHANGED <<image, st, attempt, outcome, hasImage, winner>>,
         FanoutShape', FreeTargets', TurnsAreOpen', MaxAttempts' \in Nat, stage' # "judge", closed' => Ended',
         stage' = "done" => targets' = {},
         stage' \in {"discover", "targets"} => targets' = {} /\ ~closed',
         stage' = "discover" => offered' = Agents
  PROVE  FanoutInv'
<1>1. /\ \A a \in Agents : st[a] = "idle" /\ attempt[a] = 0 /\ outcome[a] = "none"
      /\ winner = 0
  BY DEF FanoutInv, NotBegun
<1>2. NotBegun'
  BY <1>1 DEF NotBegun
<1>3. OnlyTargets'
  BY <1>1 DEF OnlyTargets
<1>4. Collected' /\ ClosedAtTheEnd'
  BY <1>1 DEF Collected, ClosedAtTheEnd
<1>5. \A a \in Agents : outcome'[a] # "ok"
  BY <1>1
<1>6. (Successes(outcome))' = {}
  BY <1>5 DEF Successes, FanoutShape, FanoutTypes
<1>7. StaysDecided'
  BY <1>6 DEF StaysDecided
<1> QED
  BY <1>2, <1>3, <1>4, <1>7 DEF FanoutInv

\* What a session finds.
LEMMA SeenPrices ==
  ASSUME NEW pool \in SUBSET Agents
  PROVE  /\ Seen(pool) \in [Agents -> Prices]
         /\ \A a \in Agents : (Seen(pool)[a] = "paid" => paid[a]) /\ (Seen(pool)[a] = "free" => a \in Free(pool))
  BY DEF Seen, Prices, Free

LEMMA Discovering ==
  ASSUME FanoutInv, DiscoverImage
  PROVE  FanoutInv'
<1>1. /\ stage = "discover" /\ targets = {} /\ ~closed /\ offered = Agents
      /\ UNCHANGED <<quorum, image, online, consent, paid, st, attempt, outcome, hasImage, winner>>
  BY DEF DiscoverImage, FanoutInv, NotBegun, request
<1>2. PICK pool \in SUBSET Agents :
        LET free == Affordable(Discovered(pool))
        IN  /\ seen' = Seen(pool)
            /\ \/ /\ free = {} /\ closed' = TRUE
                  /\ stage' = IF Discovered(pool) = {} THEN "failed" ELSE "refused"
                  /\ UNCHANGED <<mode, offered, targets>>
               \/ /\ free # {} /\ (mode = "single" \/ Cardinality(free) = 1)
                  /\ mode' = "single" /\ stage' = "calls"
                  /\ \E a \in free : targets' = {a}
                  /\ UNCHANGED <<offered, closed>>
               \/ /\ Cardinality(free) > 1 /\ mode # "single"
                  /\ offered' = free /\ stage' = "targets"
                  /\ UNCHANGED <<mode, targets, closed>>
  BY DEF DiscoverImage
<1>3. PICK free \in SUBSET Agents :
        /\ online /\ ~consent => \A a \in free : ~paid[a]
        /\ \/ closed' = TRUE /\ stage' \in {"failed", "refused"} /\ UNCHANGED <<mode, offered, targets>>
           \/ mode' = "single" /\ stage' = "calls" /\ UNCHANGED <<offered, closed>> /\ \E a \in free : targets' = {a}
           \/ offered' = free /\ stage' = "targets" /\ UNCHANGED <<mode, targets, closed>>
  <2>1. Affordable(Discovered(pool)) \in SUBSET Agents
        /\ (online /\ ~consent => \A a \in Affordable(Discovered(pool)) : ~paid[a])
    BY DEF Affordable, Discovered, Free
  <2> QED
    BY <1>2, <2>1
<1>4. seen' = Seen(pool)
  BY <1>2
<1>5. FanoutShape'
  <2>1. offered' \subseteq Agents /\ targets' \subseteq offered' /\ mode' \in Modes /\ closed' \in BOOLEAN
    BY <1>1, <1>3 DEF FanoutInv, FanoutShape, FanoutTypes, Modes
  <2>2. stage' \in {"discover", "targets", "calls", "judge", "done", "failed", "refused"}
    BY <1>3
  <2>3. seen' \in [Agents -> Prices]
    BY <1>4, SeenPrices
  <2> QED
    BY <1>1, <2>1, <2>2, <2>3 DEF FanoutInv, FanoutShape, FanoutTypes
<1>6. FreeTargets'
  <2>1. \A a \in Agents : ~paid[a] => seen'[a] # "paid"
    BY <1>4, SeenPrices
  <2>2. online /\ ~consent => \A a \in targets' : ~paid[a] /\ a \in Agents
    BY <1>1, <1>3
  <2> QED
    BY <1>1, <2>1, <2>2 DEF FreeTargets
<1>7. MaxAttempts' \in Nat
  BY FanoutAssumption DEF MaxAttempts
<1>8. closed' => Ended'
  BY <1>1, <1>3 DEF Ended
<1>9. TurnsAreOpen'
  <2>1. image /\ mode \notin Turns
    BY <1>1 DEF FanoutInv, TurnsAreOpen
  <2>2. mode' \notin Turns
    BY <1>3, <2>1 DEF Turns
  <2> QED
    BY <1>1, <2>1, <2>2 DEF TurnsAreOpen
<1> QED
  BY <1>1, <1>3, <1>5, <1>6, <1>7, <1>8, <1>9, BeforeCalls

LEMMA Resolving ==
  ASSUME FanoutInv, ResolveTargets
  PROVE  FanoutInv'
<1>1. /\ stage = "targets" /\ closed' = (targets' = {})
      /\ stage' = IF targets' # {} THEN "calls" ELSE IF image \/ mode = "chain" THEN "failed" ELSE "done"
      /\ UNCHANGED <<mode, quorum, image, online, consent, paid, offered, st, attempt, outcome, hasImage, winner>>
  BY DEF ResolveTargets, request
<1>2. PICK pool \in SUBSET Agents :
        /\ targets' = FirstOf(Candidates(pool), Limit)
        /\ seen' = Seen(pool)
  BY DEF ResolveTargets
<1>3. /\ targets' \subseteq Candidates(pool) /\ targets' \subseteq offered
      /\ mode \notin Turns /\ online => \A a \in targets' : ~paid[a]
  <2>1. targets' \subseteq Candidates(pool)
    BY <1>2 DEF FirstOf
  <2>2. CASE mode \in Turns
    <3>1. offered = Agents
      BY <1>1, <2>2 DEF FanoutInv, TurnsAreOpen
    <3> QED
      BY <2>1, <2>2, <3>1 DEF Candidates, Turns, Free
  <2>3. CASE mode \notin Turns
    <3>1. Candidates(pool) = Discovered(pool) \cap offered
      BY <2>3 DEF Candidates, Turns
    <3> QED
      BY <2>1, <2>3, <3>1 DEF Discovered, Free
  <2> QED
    BY <2>2, <2>3
<1>4. FanoutShape'
  <2>1. seen' \in [Agents -> Prices]
    BY <1>2, SeenPrices
  <2>2. stage' \in {"discover", "targets", "calls", "judge", "done", "failed", "refused"} /\ closed' \in BOOLEAN
    BY <1>1
  <2> QED
    BY <1>1, <1>3, <2>1, <2>2 DEF FanoutInv, FanoutShape, FanoutTypes
<1>5. FreeTargets'
  <2>1. SUFFICES ASSUME online, NEW a \in targets', seen'[a] = "paid"
                 PROVE  mode = "selected" \/ (mode = "random" /\ \A b \in Agents : seen'[b] # "free")
    BY <1>1 DEF FreeTargets
  <2>2. a \in Agents /\ paid[a]
    BY <1>2, <1>3, <2>1, SeenPrices DEF FanoutInv, FanoutShape, FanoutTypes
  <2>3. mode \in Turns
    BY <1>3, <2>1, <2>2
  <2>4. CASE mode = "random"
    <3>1. Free(pool) = {}
      BY <1>3, <2>1, <2>2, <2>4 DEF Candidates, Free
    <3> QED
      BY <1>2, <2>4, <3>1, SeenPrices
  <2> QED
    BY <2>3, <2>4 DEF Turns
<1>6. MaxAttempts' \in Nat
  BY FanoutAssumption DEF MaxAttempts
<1>7. closed' => Ended'
  BY <1>1 DEF Ended
<1>8. stage' \notin {"discover", "targets", "judge"} /\ (stage' = "done" => targets' = {})
  BY <1>1
<1>9. TurnsAreOpen'
  BY <1>1, <1>8 DEF FanoutInv, TurnsAreOpen
<1> QED
  BY <1>1, <1>4, <1>5, <1>6, <1>7, <1>8, <1>9, BeforeCalls

LEMMA Repricing ==
  ASSUME FanoutInv, Reprice
  PROVE  FanoutInv'
<1>1. /\ stage = "targets"
      /\ UNCHANGED <<mode, quorum, image, online, consent, stage, offered, targets, seen, st, attempt,
                     outcome, hasImage, closed, winner>>
  BY DEF Reprice, request
<1>2. paid' \in [Agents -> BOOLEAN]
  BY DEF Reprice, FanoutInv, FanoutShape
<1>3. FanoutShape'
  BY <1>1, <1>2 DEF FanoutInv, FanoutShape, FanoutTypes
<1>4. FreeTargets'
  BY <1>1 DEF FanoutInv, FreeTargets
<1>5. MaxAttempts' \in Nat
  BY FanoutAssumption DEF MaxAttempts
<1>6. targets = {} /\ ~closed
  BY <1>1 DEF FanoutInv, NotBegun
<1>7. TurnsAreOpen'
  BY <1>1 DEF FanoutInv, TurnsAreOpen
<1> QED
  BY <1>1, <1>3, <1>4, <1>5, <1>6, <1>7, BeforeCalls

-----------------------------------------------------------------------------
\* Steps of a call that settle nothing.
LEMMA CallGoesOn ==
  ASSUME FanoutInv, NEW a \in targets, NEW s \in {"calling", "sleeping"}, NEW n \in Nat,
         st[a] \in {"idle", "calling", "sleeping"}, stage \notin {"discover", "targets"},
         st' = [st EXCEPT ![a] = s], attempt' = [attempt EXCEPT ![a] = n],
         n <= MaxAttempts, s = "sleeping" => n < MaxAttempts,
         UNCHANGED <<mode, quorum, image, online, consent, paid, stage, offered, targets, seen,
                     outcome, hasImage, closed, winner>>
  PROVE  FanoutInv'
<1>1. a \in Agents /\ st \in [Agents -> States] /\ attempt \in [Agents -> 0 .. Tries + 1]
  BY DEF FanoutInv, FanoutShape, FanoutTypes, States
<1>2. MaxAttempts \in 1 .. Tries /\ Tries \in Nat
  BY SomeAttempts, FanoutAssumption
<1>3. /\ st' \in [Agents -> States] /\ st'[a] = s /\ \A b \in Agents \ {a} : st'[b] = st[b]
  BY <1>1 DEF States
<1>4. /\ attempt' \in [Agents -> 0 .. Tries + 1] /\ attempt'[a] = n
      /\ \A b \in Agents \ {a} : attempt'[b] = attempt[b]
  <2>1. n \in 0 .. Tries + 1
    BY <1>2
  <2> QED
    BY <1>1, <2>1
<1>5. FanoutShape'
  BY <1>3, <1>4 DEF FanoutInv, FanoutShape, FanoutTypes, States
<1>6. NotBegun'
  BY DEF NotBegun
<1>7. MaxAttempts' = MaxAttempts
  BY DEF MaxAttempts
<1>8. OnlyTargets'
  BY <1>3, <1>4, <1>7 DEF FanoutInv, OnlyTargets
<1>9. outcome[a] = "none"
  <2>1. outcome[a] \in {"none", "ok", "failed"}
    BY <1>1 DEF FanoutInv, FanoutShape, FanoutTypes
  <2> QED
    BY <1>1, <2>1 DEF FanoutInv, Collected
<1>10. Collected'
  BY <1>3, <1>9 DEF FanoutInv, Collected
<1>11. ClosedAtTheEnd' /\ FreeTargets'
  BY DEF FanoutInv, ClosedAtTheEnd, FreeTargets, Ended, Successes
<1>12. (Successes(outcome))' = Successes(outcome) /\ (AllSettled(outcome))' = AllSettled(outcome) /\ Need' = Need
  BY DEF Successes, AllSettled, Need
<1>13. StaysDecided'
  BY <1>12 DEF FanoutInv, StaysDecided
<1>14. TurnsAreOpen'
  BY DEF FanoutInv, TurnsAreOpen
<1> QED
  BY <1>5, <1>6, <1>8, <1>10, <1>11, <1>13, <1>14 DEF FanoutInv

\* Once the outcomes decide, what the mode promises holds of them.
LEMMA DecidedKeepsMode ==
  ASSUME FanoutInv, NEW o \in [Agents -> {"none", "ok", "failed"}], Decided(o), NEW next,
         next \in {"judge", "done"},
         next = "done" => ~(mode = "chain" /\ Successes(o) # targets),
         next = "judge" => mode = "best"
  PROVE  /\ AllSettled(o) \/ Cardinality(Successes(o)) >= Need
         /\ mode \in {"all", "best", "chain", "single"} => AllSettled(o)
         /\ mode = "chain" => Successes(o) = targets
<1>1. mode = "chain" => Successes(o) = targets
  OBVIOUS
<1>2. mode # "chain" => AllSettled(o) \/ Cardinality(Successes(o)) >= Need
  BY DEF Decided
<1>3. Successes(o) = targets => AllSettled(o)
  BY DEF Successes, AllSettled
<1>4. ASSUME mode \in {"all", "best", "single"}, Cardinality(Successes(o)) >= Need PROVE AllSettled(o)
  <2>1. Need = Cardinality(targets)
    BY <1>4 DEF Need, Turns
  <2>2. targets \in SUBSET Agents /\ Successes(o) \in SUBSET targets
    BY DEF FanoutInv, FanoutShape, FanoutTypes, Successes
  <2>3. Cardinality(Successes(o)) >= Cardinality(targets)
    BY <1>4, <2>1
  <2>4. Successes(o) = targets
    BY <2>2, <2>3, AllOfThem
  <2> QED
    BY <1>3, <2>4
<1> QED
  BY <1>1, <1>2, <1>3, <1>4

\* A call that settles.
LEMMA Settling ==
  ASSUME FanoutInv, NEW a \in targets, NEW o \in {"ok", "failed"}, NEW n \in Nat,
         st[a] \in {"idle", "calling", "sleeping"}, stage \notin {"discover", "targets"}, Settle(a, o),
         attempt' = [attempt EXCEPT ![a] = n], n <= MaxAttempts, hasImage' \in [Agents -> BOOLEAN],
         UNCHANGED <<mode, quorum, image, online, consent, paid, offered, targets, seen, winner>>
  PROVE  FanoutInv'
<1>1. /\ a \in Agents /\ st \in [Agents -> States] /\ attempt \in [Agents -> 0 .. Tries + 1]
      /\ outcome \in [Agents -> {"none", "ok", "failed"}]
  BY DEF FanoutInv, FanoutShape, FanoutTypes, States
<1>2. PICK new \in [Agents -> {"none", "ok", "failed"}] : new = [outcome EXCEPT ![a] = o]
  BY <1>1
<1>3. /\ st' = [st EXCEPT ![a] = o] /\ outcome' = IF stage = "calls" THEN new ELSE outcome
      /\ IF stage = "calls" /\ Decided(new)
         THEN stage' = After(new) /\ closed' = (After(new) # "judge")
         ELSE UNCHANGED <<stage, closed>>
  BY <1>2 DEF Settle
<1>4. MaxAttempts \in 1 .. Tries /\ Tries \in Nat
  BY SomeAttempts, FanoutAssumption
<1>5. st' \in [Agents -> States] /\ st'[a] = o /\ \A b \in Agents \ {a} : st'[b] = st[b]
  <2>1. o \in States
    BY DEF States
  <2> QED
    BY ONLY <1>1, <1>3, <2>1
<1>6. /\ attempt' \in [Agents -> 0 .. Tries + 1] /\ attempt'[a] = n
      /\ \A b \in Agents \ {a} : attempt'[b] = attempt[b]
  <2>1. n \in 0 .. Tries + 1
    BY <1>4
  <2> QED
    BY <1>1, <2>1
<1>7. /\ outcome' \in [Agents -> {"none", "ok", "failed"}]
      /\ new[a] = o /\ \A b \in Agents \ {a} : new[b] = outcome[b] /\ outcome'[b] = outcome[b]
  BY <1>1, <1>2, <1>3
<1>8. PICK next : next = After(new)
  OBVIOUS
<1>9. /\ next \in {"judge", "done", "failed"}
      /\ next = "judge" => mode = "best" /\ Successes(new) # {}
      /\ next = "done" => ~(mode = "best" /\ Successes(new) # {}) /\ ~(mode = "chain" /\ Successes(new) # targets)
  BY <1>8 DEF After
<1>10. /\ stage = "calls" /\ Decided(new) => stage' = next /\ closed' = (next # "judge")
       /\ ~(stage = "calls" /\ Decided(new)) => UNCHANGED <<stage, closed>>
  BY <1>3, <1>8
<1>11. FanoutShape'
  <2>1. stage' \in {"discover", "targets", "calls", "judge", "done", "failed", "refused"} /\ closed' \in BOOLEAN
    BY <1>9, <1>10 DEF FanoutInv, FanoutShape, FanoutTypes
  <2> QED
    BY <1>5, <1>6, <1>7, <2>1 DEF FanoutInv, FanoutShape, FanoutTypes, States
<1>12. NotBegun'
  BY <1>9, <1>10 DEF NotBegun
<1>13. MaxAttempts' = MaxAttempts
  BY DEF MaxAttempts
<1>14. OnlyTargets'
  <2>1. ASSUME NEW b \in Agents, b # a
        PROVE  /\ b \notin targets => st'[b] = "idle" /\ attempt'[b] = 0 /\ outcome'[b] = "none"
               /\ attempt'[b] <= MaxAttempts
               /\ st'[b] = "idle" => attempt'[b] = 0
               /\ st'[b] = "sleeping" => attempt'[b] < MaxAttempts
    BY <1>5, <1>6, <1>7, <2>1 DEF FanoutInv, OnlyTargets
  <2> QED
    BY <1>5, <1>6, <1>13, <2>1 DEF OnlyTargets
<1>15. outcome[a] = "none"
  BY <1>1 DEF FanoutInv, Collected
<1>16. Collected'
  <2>1. outcome'[a] \in {"none", o}
    BY <1>3, <1>7, <1>15
  <2> QED
    BY <1>5, <1>7, <2>1 DEF FanoutInv, Collected
<1>17. (Successes(outcome))' = Successes(outcome') /\ (AllSettled(outcome))' = AllSettled(outcome') /\ Need' = Need
  BY DEF Successes, AllSettled, Need
<1>18. stage # "calls" => outcome' = outcome /\ stage' = stage /\ closed' = closed
  BY <1>3
<1>19. ClosedAtTheEnd'
  <2>1. closed' => Ended'
    BY <1>9, <1>10 DEF FanoutInv, ClosedAtTheEnd, Ended
  <2>2. winner # 0 => stage # "calls"
    BY DEF FanoutInv, ClosedAtTheEnd
  <2> QED
    BY <1>17, <1>18, <2>1, <2>2 DEF FanoutInv, ClosedAtTheEnd
<1>20. StaysDecided'
  <2>1. CASE stage # "calls"
    BY <1>17, <1>18, <2>1 DEF FanoutInv, StaysDecided
  <2>2. CASE stage = "calls" /\ ~Decided(new)
    BY <1>10, <2>2 DEF StaysDecided
  <2>3. CASE stage = "calls" /\ Decided(new)
    <3>1. stage' = next /\ outcome' = new
      BY <1>3, <1>10, <2>3
    <3>2. ASSUME next \in {"judge", "done"}
          PROVE  /\ AllSettled(new) \/ Cardinality(Successes(new)) >= Need
                 /\ mode \in {"all", "best", "chain", "single"} => AllSettled(new)
                 /\ mode = "chain" => Successes(new) = targets
      BY <1>9, <2>3, <3>2, DecidedKeepsMode
    <3> QED
      BY <1>9, <1>17, <3>1, <3>2 DEF StaysDecided
  <2> QED
    BY <2>1, <2>2, <2>3
<1>21. FreeTargets'
  BY DEF FanoutInv, FreeTargets
<1>22. TurnsAreOpen'
  <2>1. stage' # "discover"
    BY <1>9, <1>10
  <2> QED
    BY <2>1 DEF FanoutInv, TurnsAreOpen
<1> QED
  BY <1>11, <1>12, <1>14, <1>16, <1>19, <1>20, <1>21, <1>22 DEF FanoutInv

\* Who is called was a target, and there were targets before.
LEMMA CalledIsTarget ==
  ASSUME FanoutInv, NEW a \in Agents, st[a] # "idle" \/ a \in targets
  PROVE  a \in targets /\ stage \notin {"discover", "targets"}
BY DEF FanoutInv, OnlyTargets, NotBegun

LEMMA Attempting ==
  ASSUME FanoutInv, NEW a \in Agents, Attempt(a)
  PROVE  FanoutInv'
<1>1. /\ a \in targets /\ st[a] \in {"idle", "sleeping"} /\ attempt' = [attempt EXCEPT ![a] = attempt[a] + 1]
      /\ UNCHANGED <<mode, quorum, image, online, consent, paid, offered, targets, seen, winner>>
  BY DEF Attempt, request
<1>2. stage \notin {"discover", "targets"}
  BY <1>1, CalledIsTarget
<1>3. attempt[a] \in Nat /\ MaxAttempts \in 1 .. Tries
  <2>1. attempt[a] \in 0 .. Tries + 1
    BY DEF FanoutInv, FanoutShape, FanoutTypes
  <2> QED
    BY <2>1, SomeAttempts
<1>4. attempt[a] + 1 \in Nat /\ attempt[a] + 1 <= MaxAttempts
  BY <1>1, <1>3 DEF FanoutInv, OnlyTargets
<1>5. CASE st' = [st EXCEPT ![a] = "calling"] /\ UNCHANGED <<outcome, stage, closed, hasImage>>
  BY <1>1, <1>2, <1>4, <1>5, CallGoesOn
<1>6. CASE UNCHANGED hasImage /\ Settle(a, "failed")
  <2>1. hasImage' \in [Agents -> BOOLEAN]
    BY <1>6 DEF FanoutInv, FanoutShape
  <2> QED
    BY <1>1, <1>2, <1>4, <1>6, <2>1, Settling
<1> QED
  BY <1>5, <1>6 DEF Attempt, Call

LEMMA CallEnds ==
  ASSUME FanoutInv, NEW a \in Agents, Answer(a) \/ Fail(a) \/ TimeOut(a)
  PROVE  FanoutInv'
<1>1. /\ st[a] = "calling"
      /\ UNCHANGED <<mode, quorum, image, online, consent, paid, offered, targets, seen, attempt, winner>>
  BY DEF Answer, Fail, TimeOut, request
<1>2. a \in targets /\ stage \notin {"discover", "targets"}
  BY <1>1, CalledIsTarget
<1>3. attempt \in [Agents -> 0 .. Tries + 1] /\ attempt[a] \in Nat /\ attempt[a] <= MaxAttempts
  BY DEF FanoutInv, FanoutShape, FanoutTypes, OnlyTargets
<1>4. attempt' = [attempt EXCEPT ![a] = attempt[a]]
  BY <1>1, <1>3
<1>5. CASE Answer(a)
  <2>1. hasImage' \in [Agents -> BOOLEAN]
    <3>1. PICK img \in BOOLEAN : hasImage' = [hasImage EXCEPT ![a] = img]
      BY <1>5 DEF Answer
    <3> QED
      BY <3>1 DEF FanoutInv, FanoutShape
  <2>2. Settle(a, "ok")
    BY <1>5 DEF Answer
  <2> QED
    BY <1>1, <1>2, <1>3, <1>4, <2>1, <2>2, Settling
<1>6. CASE Retry(a) /\ UNCHANGED hasImage
  <2>1. attempt[a] < MaxAttempts /\ st' = [st EXCEPT ![a] = "sleeping"] /\ UNCHANGED <<outcome, stage, closed>>
    BY <1>6 DEF Retry
  <2> QED
    BY <1>1, <1>2, <1>3, <1>4, <1>6, <2>1, CallGoesOn
<1>7. CASE Settle(a, "failed") /\ UNCHANGED hasImage
  <2>1. hasImage' \in [Agents -> BOOLEAN]
    BY <1>7 DEF FanoutInv, FanoutShape
  <2> QED
    BY <1>1, <1>2, <1>3, <1>4, <1>7, <2>1, Settling
<1> QED
  BY <1>5, <1>6, <1>7 DEF Fail, TimeOut

LEMMA Judging ==
  ASSUME FanoutInv, Judge
  PROVE  FanoutInv'
<1>1. /\ stage = "judge" /\ closed' = TRUE
      /\ UNCHANGED <<mode, quorum, image, online, consent, paid, offered, targets, seen, st, attempt,
                     outcome, hasImage>>
  BY DEF Judge, request
<1>2. PICK w \in Agents \cup {0} :
        LET valid == w \in Successes(outcome)
        IN  /\ winner' = IF valid THEN w ELSE 0
            /\ stage' = IF ~valid \/ (image /\ ~\E a \in Successes(outcome) : hasImage[a])
                        THEN "failed" ELSE "done"
  BY DEF Judge
<1>3. /\ winner' \in Agents \cup {0} /\ stage' \in {"failed", "done"}
      /\ stage' = "done" => winner' = w /\ w \in Successes(outcome)
      /\ winner' # 0 => winner' \in Successes(outcome)
  BY <1>2
<1>4. Successes(outcome) \subseteq Agents /\ 0 \notin Agents
  BY FanoutAssumption DEF Successes, FanoutInv, FanoutShape, FanoutTypes
<1>5. mode = "best" /\ targets # {}
  BY <1>1 DEF FanoutInv, StaysDecided, Successes
<1>6. FanoutShape'
  BY <1>1, <1>3 DEF FanoutInv, FanoutShape, FanoutTypes
<1>7. MaxAttempts' = MaxAttempts
  BY <1>1 DEF MaxAttempts
<1>8. NotBegun' /\ OnlyTargets' /\ Collected' /\ FreeTargets'
  BY <1>1, <1>3, <1>7 DEF FanoutInv, NotBegun, OnlyTargets, Collected, FreeTargets
<1>9. (Successes(outcome))' = Successes(outcome) /\ (AllSettled(outcome))' = AllSettled(outcome) /\ Need' = Need
  BY <1>1 DEF Successes, AllSettled, Need
<1>10. StaysDecided'
  BY <1>1, <1>3, <1>4, <1>9 DEF FanoutInv, StaysDecided
<1>11. ClosedAtTheEnd'
  BY <1>1, <1>3, <1>5, <1>9 DEF ClosedAtTheEnd, Ended
<1>12. TurnsAreOpen'
  BY <1>1, <1>3 DEF FanoutInv, TurnsAreOpen
<1> QED
  BY <1>6, <1>8, <1>10, <1>11, <1>12 DEF FanoutInv

\* Every step of a hire keeps the invariant.
LEMMA FanoutStep ==
  ASSUME FanoutInv, [FanoutNext]_fvars
  PROVE  FanoutInv'
<1>1. CASE DiscoverImage
  BY <1>1, Discovering
<1>2. CASE ResolveTargets
  BY <1>2, Resolving
<1>3. CASE Reprice
  BY <1>3, Repricing
<1>4. CASE Judge
  BY <1>4, Judging
<1>5. ASSUME NEW a \in Agents, Attempt(a) \/ Answer(a) \/ Fail(a) \/ TimeOut(a)
      PROVE  FanoutInv'
  BY <1>5, Attempting, CallEnds
<1>6. CASE UNCHANGED fvars
  BY <1>6 DEF fvars, request, FanoutInv, FanoutShape, FanoutTypes, NotBegun, OnlyTargets, MaxAttempts,
              Collected, ClosedAtTheEnd, Ended, Successes, StaysDecided, AllSettled, Need, FreeTargets,
              TurnsAreOpen
<1> QED
  BY <1>1, <1>2, <1>3, <1>4, <1>5, <1>6 DEF FanoutNext

LEMMA HiringStaysSo == FanoutSpec => []FanoutInv
<1>1. FanoutInv /\ [FanoutNext]_fvars => FanoutInv'
  BY FanoutStep
<1> QED
  BY <1>1, FanoutStarts, PTL DEF FanoutSpec

\* However the agents answer, fail and run into their limits, a fan-out answers
\* as its mode promises, shows the judge's winner and pays nobody unasked: for
\* every number of agents, of attempts and every quorum (pipeline/fanout.ts and
\* the routes of the bridge over it).
THEOREM ModesKept == FanoutSpec => []FanoutKeepsMode
<1>1. FanoutInv => FanoutKeepsMode
  <2> SUFFICES ASSUME FanoutInv PROVE FanoutKeepsMode
    OBVIOUS
  <2>1. FanoutTypes
    BY DEF FanoutInv, FanoutShape
  <2>2. AnswersItsMode
    <3>1. winner # 0 => winner \in Successes(outcome)
      BY DEF FanoutInv, ClosedAtTheEnd
    <3>2. \A a \in targets : outcome[a] # "none" => outcome[a] = st[a]
      BY <2>1 DEF FanoutInv, Collected, FanoutTypes
    <3> QED
      BY <3>1, <3>2 DEF AnswersItsMode, FanoutInv, StaysDecided
  <2>3. WinnerIsShown
    BY DEF WinnerIsShown, FanoutInv, ClosedAtTheEnd, Entries, Primary
  <2>4. PaidOnlyIfChosen
    <3>1. \A a \in Agents : attempt[a] > 0 => a \in targets
      BY DEF FanoutInv, OnlyTargets
    <3> QED
      BY <3>1 DEF PaidOnlyIfChosen, FanoutInv, FreeTargets
  <2> QED
    BY <2>1, <2>2, <2>3, <2>4 DEF FanoutKeepsMode
<1> QED
  BY <1>1, HiringStaysSo, PTL

\* What a step does to the calls it does not begin.
LEMMA SettlingStartsNone ==
  ASSUME FanoutInv, NEW a \in Agents, NEW s \in States, s # "calling", st' = [st EXCEPT ![a] = s]
  PROVE  \A b \in Agents : ~Starts(b)
BY DEF FanoutInv, FanoutShape, FanoutTypes, Starts

\* No agent is called once the session is closed: a target that sleeps before its
\* next attempt finds the session closed and gives up (BlocksSession.call).
THEOREM NobodyCalledLate == FanoutSpec => NoCallAfterClose
<1>1. FanoutInv /\ [FanoutNext]_fvars => [closed => \A a \in Agents : ~Starts(a)]_fvars
  <2> SUFFICES ASSUME FanoutInv, FanoutNext, closed, NEW b \in Agents
               PROVE  ~Starts(b)
    OBVIOUS
  <2>1. CASE UNCHANGED st
    BY <2>1 DEF Starts
  <2>2. "ok" \in States /\ "failed" \in States /\ "sleeping" \in States
    BY DEF States
  <2>3. CASE \E a \in Agents : st' = [st EXCEPT ![a] = "ok"]
    BY <2>2, <2>3, SettlingStartsNone
  <2>4. CASE \E a \in Agents : st' = [st EXCEPT ![a] = "failed"]
    BY <2>2, <2>4, SettlingStartsNone
  <2>5. CASE \E a \in Agents : st' = [st EXCEPT ![a] = "sleeping"]
    BY <2>2, <2>5, SettlingStartsNone
  <2>6. ASSUME NEW a \in Agents, Attempt(a)
        PROVE  st' = [st EXCEPT ![a] = "failed"]
    BY <2>6 DEF Attempt, Call, Settle
  <2>7. ASSUME NEW a \in Agents, Answer(a)
        PROVE  st' = [st EXCEPT ![a] = "ok"]
    BY <2>7 DEF Answer, Settle
  <2>8. ASSUME NEW a \in Agents, Fail(a) \/ TimeOut(a)
        PROVE  st' = [st EXCEPT ![a] = "sleeping"] \/ st' = [st EXCEPT ![a] = "failed"]
    BY <2>8 DEF Fail, TimeOut, Retry, Settle
  <2>9. CASE DiscoverImage \/ ResolveTargets \/ Reprice \/ Judge
    BY <2>1, <2>9 DEF DiscoverImage, ResolveTargets, Reprice, Judge
  <2> QED
    BY <2>3, <2>4, <2>5, <2>6, <2>7, <2>8, <2>9 DEF FanoutNext
<1> QED
  BY <1>1, HiringStaysSo, PTL DEF FanoutSpec, NoCallAfterClose

-----------------------------------------------------------------------------
(* The catalog *)

Phases == {"idle", "join", "walk", "done", "failed"}

\* One flight at a time: whoever walks is the flight, its walk is the newest one
\* begun, and whoever joined it asked for nothing newer.
OneFlight ==
  /\ DOMAIN walk = Calls /\ newest <= walks
  /\ inflight # NoCall => phase[inflight] = "walk"
  /\ \A c \in Calls :
       /\ phase[c] = "walk" => inflight = c /\ walk[c].nr = walks /\ newest < walks
       /\ phase[c] = "join" => inflight # NoCall
       /\ phase[c] \in {"walk", "join"} => floor[c] <= walks
  /\ cache # NoSnapshot => cache.nr = newest

FlightInv == CatalogTypes /\ OneFlight /\ NeverOlder

LEMMA FirstListing == Listings[1] \in Seq(Entry) /\ 1 \in DOMAIN Listings
  BY CatalogAssumption, EmptySeq DEF CatalogAssumption

\* What a call or a landing touches keeps its type.
LEMMA TypesKept ==
  ASSUME CatalogTypes, UNCHANGED <<mock, reports, version, clock>>,
         inflight' \in Calls \cup {NoCall},
         phase' \in [Calls -> {"idle", "join", "walk", "done", "failed"}],
         walks' \in Nat, newest' \in Nat,
         servedBy' \in [Calls -> Nat], floor' \in [Calls -> Nat]
  PROVE  CatalogTypes'
BY DEF CatalogTypes

LEMMA FlightStarts == CatalogInit => FlightInv
<1> SUFFICES ASSUME CatalogInit PROVE FlightInv
  OBVIOUS
<1>1. CatalogTypes
  BY FirstListing DEF CatalogInit, CatalogTypes
<1>2. OneFlight
  BY DEF CatalogInit, OneFlight
<1>3. NeverOlder
  BY DEF CatalogInit, NeverOlder
<1> QED
  BY <1>1, <1>2, <1>3 DEF FlightInv

\* A call hits, joins or starts.
LEMMA LoadsInFlight ==
  ASSUME FlightInv, NEW c \in Calls, Load(c)
  PROVE  FlightInv'
<1> USE CatalogAssumption DEF CatalogAssumption, FlightInv, CatalogTypes
<1>1. PICK refresh \in BOOLEAN :
        /\ Hit(c, refresh) \/ Join(c, refresh) \/ Start(c, refresh)
        /\ floor' = [floor EXCEPT ![c] = IF refresh THEN newest + 1 ELSE newest]
  BY DEF Load
<1>2. phase[c] = "idle" /\ UNCHANGED <<mock, reports, version, clock, cache, newest>>
  BY DEF Load
<1>types. /\ CatalogTypes /\ inflight \in Calls \cup {NoCall}
          /\ phase \in [Calls -> {"idle", "join", "walk", "done", "failed"}]
          /\ walks \in Nat /\ newest \in Nat /\ newest' = newest
          /\ servedBy \in [Calls -> Nat] /\ floor \in [Calls -> Nat]
  BY <1>2
<1>floor. floor' \in [Calls -> Nat]
  <2>1. newest \in Nat /\ newest + 1 \in Nat
    BY ONLY <1>types
  <2> QED
    BY ONLY <1>1, <1>types, <2>1
<1>phase. \A ph \in {"join", "walk", "done"} :
            [phase EXCEPT ![c] = ph] \in [Calls -> {"idle", "join", "walk", "done", "failed"}]
  BY ONLY <1>types
<1>3. CASE Hit(c, refresh)
  <2>1. /\ ~refresh /\ cache # NoSnapshot /\ UNCHANGED <<inflight, walk, walks>>
        /\ servedBy' = [servedBy EXCEPT ![c] = cache.nr] /\ phase' = [phase EXCEPT ![c] = "done"]
    BY <1>3 DEF Hit, Fresh
  <2>2. cache.nr = newest
    BY <2>1 DEF OneFlight
  <2>3. CatalogTypes'
    <3>1. servedBy' \in [Calls -> Nat]
      BY ONLY <1>types, <2>1, <2>2
    <3>2. phase' \in [Calls -> {"idle", "join", "walk", "done", "failed"}]
      BY ONLY <1>phase, <2>1
    <3>3. inflight' = inflight /\ walks' = walks
      BY ONLY <2>1
    <3> QED
      BY ONLY <1>2, <1>types, <1>floor, <3>1, <3>2, <3>3, TypesKept
  <2>4. OneFlight'
    BY <1>1, <1>2, <2>1, <2>2 DEF OneFlight
  <2>5. NeverOlder'
    BY <1>1, <1>2, <2>1, <2>2 DEF NeverOlder
  <2> QED
    BY <2>3, <2>4, <2>5
<1>4. CASE Join(c, refresh)
  <2>1. /\ inflight # NoCall /\ UNCHANGED <<inflight, walk, servedBy, walks>>
        /\ phase' = [phase EXCEPT ![c] = "join"]
    BY <1>4 DEF Join
  <2>2. newest < walks
    BY <2>1 DEF OneFlight
  <2>3. CatalogTypes'
    <3>1. phase' \in [Calls -> {"idle", "join", "walk", "done", "failed"}]
      BY ONLY <1>phase, <2>1
    <3>2. inflight' = inflight /\ walks' = walks /\ servedBy' = servedBy
      BY ONLY <2>1
    <3> QED
      BY ONLY <1>2, <1>types, <1>floor, <3>1, <3>2, TypesKept
  <2>4. OneFlight'
    BY <1>1, <1>2, <2>1, <2>2 DEF OneFlight
  <2>5. NeverOlder'
    BY <1>1, <1>2, <2>1 DEF NeverOlder
  <2> QED
    BY <2>3, <2>4, <2>5
<1>5. CASE Start(c, refresh)
  <2>1. /\ inflight = NoCall /\ inflight' = c /\ walks' = walks + 1 /\ UNCHANGED servedBy
        /\ phase' = [phase EXCEPT ![c] = "walk"]
    BY <1>5 DEF Start
  <2>2. \A d \in Calls : phase[d] \notin {"walk", "join"}
    BY <2>1 DEF OneFlight
  <2>3. CatalogTypes'
    <3>1. phase' \in [Calls -> {"idle", "join", "walk", "done", "failed"}]
      BY ONLY <1>phase, <2>1
    <3>2. walks' \in Nat /\ inflight' = c /\ servedBy' = servedBy
      BY ONLY <1>types, <2>1
    <3> QED
      BY ONLY <1>2, <1>types, <1>floor, <3>1, <3>2, TypesKept, c \in Calls
  <2>4. OneFlight'
    <3>1. walk' = [walk EXCEPT ![c] = NewWalk(walks + 1)]
      BY <1>5 DEF Start
    <3>2. NewWalk(walks + 1).nr = walks + 1
      BY DEF NewWalk
    <3>3. DOMAIN walk' = Calls /\ walk'[c].nr = walks'
      BY <3>1, <3>2, <2>1 DEF OneFlight
    <3> QED
      BY <1>1, <1>2, <2>1, <2>2, <3>3 DEF OneFlight
  <2>5. NeverOlder'
    BY <1>1, <1>2, <2>1 DEF NeverOlder
  <2> QED
    BY <2>3, <2>4, <2>5
<1> QED
  BY <1>1, <1>3, <1>4, <1>5

\* A walk that lands answers everybody who waits, with the newest number.
LEMMA LandsInFlight ==
  ASSUME FlightInv, NEW c \in Calls, phase[c] = "walk",
         NEW w, w.nr = walk[c].nr, NEW truncated, Land(c, w, truncated),
         UNCHANGED <<mock, reports, version, clock, floor, walks>>
  PROVE  FlightInv'
<1> USE CatalogAssumption DEF CatalogAssumption, FlightInv, CatalogTypes
<1>1. inflight = c /\ w.nr = walks /\ newest < walks
  BY DEF OneFlight
<1>2. inflight' = NoCall /\ newest' = walks
  BY <1>1 DEF Land
<1>3. cache'.nr = walks
  BY <1>1 DEF Land, Snapshot
<1>4. Served(c) = {d \in Calls : phase[d] \in {"walk", "join"}}
  BY <1>1 DEF Served, OneFlight
<1>5. /\ servedBy' = [d \in Calls |-> IF d \in Served(c) THEN walks ELSE servedBy[d]]
      /\ phase' = [d \in Calls |-> IF d \in Served(c) THEN "done" ELSE phase[d]]
  BY <1>1 DEF Land
<1>6. CatalogTypes'
  <2>1. /\ CatalogTypes /\ walks \in Nat
        /\ phase \in [Calls -> {"idle", "join", "walk", "done", "failed"}]
        /\ servedBy \in [Calls -> Nat] /\ floor \in [Calls -> Nat]
    OBVIOUS
  <2>2. /\ phase' \in [Calls -> {"idle", "join", "walk", "done", "failed"}]
        /\ servedBy' \in [Calls -> Nat]
    BY ONLY <1>5, <2>1
  <2> QED
    BY <1>2, <2>1, <2>2, TypesKept
<1>7. OneFlight'
  <2>1. DOMAIN walk' = Calls
    BY DEF Land, OneFlight
  <2> QED
    BY <1>2, <1>3, <1>4, <1>5, <2>1 DEF OneFlight
<1>8. NeverOlder'
  BY <1>1, <1>4, <1>5 DEF OneFlight, NeverOlder
<1> QED
  BY <1>6, <1>7, <1>8

LEMMA PagesInFlight ==
  ASSUME FlightInv, NEW c \in Calls, Page(c)
  PROVE  FlightInv'
<1>1. phase[c] = "walk" /\ UNCHANGED <<mock, reports, version, clock, floor, walks>>
  BY DEF Page
<1>2. PICK next \in NextCursors(walk[c].cursor) :
        \/ \E t \in BOOLEAN : Land(c, WithPage(walk[c], PageAt(walk[c].cursor), next), t)
        \/ /\ walk' = [walk EXCEPT ![c] = [WithPage(walk[c], PageAt(walk[c].cursor), next)
                                             EXCEPT !.seen = @ \cup {next}, !.cursor = next]]
           /\ UNCHANGED <<cache, inflight, servedBy, newest, phase>>
  <2>1. \A w, next : MoreLeft(w, next) \in BOOLEAN
    BY DEF MoreLeft
  <2> QED
    BY <2>1 DEF Page
<1>3. PICK w : w = WithPage(walk[c], PageAt(walk[c].cursor), next)
  OBVIOUS
<1>4. w.nr = walk[c].nr
  BY <1>3 DEF WithPage
<1>5. CASE \E t \in BOOLEAN : Land(c, w, t)
  BY <1>1, <1>4, <1>5, LandsInFlight
<1>6. CASE /\ walk' = [walk EXCEPT ![c] = [w EXCEPT !.seen = @ \cup {next}, !.cursor = next]]
           /\ UNCHANGED <<cache, inflight, servedBy, newest, phase>>
  <2>1. CatalogTypes'
    BY <1>1, <1>6 DEF FlightInv, CatalogTypes
  <2>2. [w EXCEPT !.seen = @ \cup {next}, !.cursor = next].nr = w.nr
    OBVIOUS
  <2>3. DOMAIN walk' = Calls /\ walk'[c].nr = walk[c].nr
    BY <1>4, <1>6, <2>2 DEF FlightInv, OneFlight
  <2>4. \A d \in Calls : d # c => phase[d] # "walk"
    BY <1>1 DEF FlightInv, OneFlight
  <2> QED
    BY <1>1, <1>6, <2>1, <2>3, <2>4 DEF FlightInv, OneFlight, NeverOlder
<1> QED
  BY <1>2, <1>3, <1>5, <1>6

LEMMA MocksInFlight ==
  ASSUME FlightInv, NEW c \in Calls, ScanMock(c)
  PROVE  FlightInv'
<1>1. phase[c] = "walk" /\ UNCHANGED <<mock, reports, version, clock, floor, walks>>
  BY DEF ScanMock
<1>2. PICK w, t : w.nr = walk[c].nr /\ Land(c, w, t)
  <2> DEFINE kept == Slice(Listings[1], 0, Cap)
             w == [walk[c] EXCEPT !.items = kept, !.scanned = Len(kept), !.total = Len(Listings[1])]
  <2>1. Land(c, w, Len(Listings[1]) > Len(kept))
    BY DEF ScanMock
  <2>2. w.nr = walk[c].nr
    OBVIOUS
  <2> HIDE DEF w, kept
  <2> QED
    BY <2>1, <2>2
<1> QED
  BY <1>1, <1>2, LandsInFlight

\* A walk that fails fails everybody who waits.
LEMMA FailsInFlight ==
  ASSUME FlightInv, NEW c \in Calls, FetchFails(c)
  PROVE  FlightInv'
<1> USE CatalogAssumption DEF CatalogAssumption, FlightInv, CatalogTypes
<1>1. /\ phase[c] = "walk" /\ UNCHANGED <<mock, reports, version, clock, cache, servedBy, newest, floor, walks>>
      /\ phase' = [d \in Calls |-> IF d \in Served(c) THEN "failed" ELSE phase[d]]
  BY DEF FetchFails
<1>2. inflight = c
  BY <1>1 DEF OneFlight
<1>3. inflight' = NoCall
  BY <1>2 DEF FetchFails
<1>4. Served(c) = {d \in Calls : phase[d] \in {"walk", "join"}}
  BY <1>1, <1>2 DEF Served, OneFlight
<1>5. CatalogTypes'
  <2>1. /\ CatalogTypes /\ walks \in Nat /\ newest \in Nat
        /\ phase \in [Calls -> {"idle", "join", "walk", "done", "failed"}]
        /\ servedBy \in [Calls -> Nat] /\ floor \in [Calls -> Nat]
    OBVIOUS
  <2>2. phase' \in [Calls -> {"idle", "join", "walk", "done", "failed"}]
    BY ONLY <1>1, <2>1
  <2> QED
    BY <1>1, <1>3, <2>1, <2>2, TypesKept
<1>6. OneFlight'
  <2>1. DOMAIN walk' = Calls
    BY DEF FetchFails, OneFlight
  <2> QED
    BY <1>1, <1>3, <1>4, <2>1 DEF OneFlight
<1>7. NeverOlder'
  BY <1>1 DEF NeverOlder
<1> QED
  BY <1>5, <1>6, <1>7

LEMMA EditsInFlight == FlightInv /\ (Edit \/ Tick) => FlightInv'
<1> SUFFICES ASSUME FlightInv, Edit \/ Tick PROVE FlightInv'
  OBVIOUS
<1>1. UNCHANGED <<mock, reports, cache, inflight, phase, walk, servedBy, newest, floor, walks>>
  BY DEF Edit, Tick
<1>2. version' \in DOMAIN Listings /\ clock' \in Nat
  <2>1. DOMAIN Listings = 1..Len(Listings) /\ Len(Listings) \in Nat
    <3>1. Listings \in Seq(Seq(Entry))
      BY CatalogAssumption DEF CatalogAssumption
    <3> QED
      BY ONLY <3>1, LenProperties
  <2>2. version \in DOMAIN Listings /\ clock \in Nat
    BY DEF FlightInv, CatalogTypes
  <2>3. \/ version < Len(Listings) /\ version' = version + 1 /\ clock' = clock
        \/ version' = version /\ clock' = clock + 1
    BY DEF Edit, Tick
  <2> QED
    BY ONLY <2>1, <2>2, <2>3
<1>3. CatalogTypes'
  BY <1>1, <1>2 DEF FlightInv, CatalogTypes
<1>4. OneFlight' /\ NeverOlder'
  BY <1>1 DEF FlightInv, OneFlight, NeverOlder
<1> QED
  BY <1>3, <1>4 DEF FlightInv

LEMMA FlightStep == FlightInv /\ [CatalogNext]_cvars => FlightInv'
<1> SUFFICES ASSUME FlightInv, [CatalogNext]_cvars PROVE FlightInv'
  OBVIOUS
<1>1. CASE UNCHANGED cvars
  BY <1>1 DEF cvars, FlightInv, CatalogTypes, OneFlight, NeverOlder
<1> QED
  BY <1>1, LoadsInFlight, PagesInFlight, MocksInFlight, FailsInFlight, EditsInFlight DEF CatalogNext

Begins(items, listing) ==
  Len(items) <= Len(listing) /\ \A i \in 1..Len(items) : items[i] = listing[i]

\* A walk has what the registry listed up to its cursor, if the registry held
\* still, and no cursor it has seen is ahead of it.
Walked(w) ==
  /\ w.items \in Seq(Entry) /\ w.scanned = Len(w.items) /\ Len(w.items) < Cap
  /\ w.from \in DOMAIN Listings /\ w.from <= version
  /\ w.seen \subseteq Nat /\ w.cursor \in Nat /\ (w.cursor > 0 => w.cursor \in w.seen)
  /\ w.from = version => w.steady
  /\ w.steady => /\ w.cursor = Len(w.items) /\ Begins(w.items, Listings[w.from])
                 /\ \A n \in w.seen : n <= w.cursor

Source(v) == IF mock THEN Listings[1] ELSE Listings[v]

Stored(s) ==
  /\ s.items \in Seq(Entry) /\ s.from \in DOMAIN Listings /\ s.from <= version
  /\ s.from = version => Begins(s.items, Source(s.from))
  /\ s.steady /\ s.scanned <= Cap /\ ~s.truncated => s.items = Source(s.from)

PagesInv ==
  /\ \A c \in Calls : phase[c] = "walk" => Walked(walk[c])
  /\ cache # NoSnapshot => Stored(cache)

CatalogInv == FlightInv /\ PagesInv

LEMMA SliceOf ==
  ASSUME NEW S, NEW s \in Seq(S), NEW n \in Nat, NEW m \in Nat \ {0}
  PROVE  /\ Slice(s, n, m) \in Seq(S)
         /\ Len(Slice(s, n, m)) = IF n + m < Len(s) THEN m ELSE IF n < Len(s) THEN Len(s) - n ELSE 0
         /\ \A i \in 1..Len(Slice(s, n, m)) : Slice(s, n, m)[i] = s[n + i]
<1> DEFINE last == IF n + m < Len(s) THEN n + m ELSE Len(s)
<1>1. last \in Nat /\ last <= Len(s)
  OBVIOUS
<1>2. \A i \in n + 1..last : s[i] \in S
  BY <1>1, ElementOfSeq
<1>3. n + 1 \in Int /\ last \in Int
  BY <1>1
<1> HIDE DEF last
<1>4. /\ SubSeq(s, n + 1, last) \in Seq(S)
      /\ Len(SubSeq(s, n + 1, last)) = IF n + 1 <= last THEN last - (n + 1) + 1 ELSE 0
      /\ \A i \in 1..(last - (n + 1) + 1) : SubSeq(s, n + 1, last)[i] = s[n + 1 + i - 1]
  BY <1>2, <1>3, SubSeqProperties
<1>5. Slice(s, n, m) = SubSeq(s, n + 1, last)
  BY DEF Slice, last
<1> QED
  BY <1>1, <1>4, <1>5 DEF last

\* The first Cap entries of a beginning are a beginning; all of them when it
\* is no longer than that.
LEMMA ClipBegins ==
  ASSUME NEW items \in Seq(Entry), NEW listing \in Seq(Entry)
  PROVE  /\ Slice(items, 0, Cap) \in Seq(Entry)
         /\ Begins(items, listing) => Begins(Slice(items, 0, Cap), listing)
         /\ Len(items) <= Cap => Slice(items, 0, Cap) = items
<1>1. Cap \in Nat \ {0} /\ 0 \in Nat
  BY CatalogAssumption DEF CatalogAssumption
<1>2. PICK kept : kept = Slice(items, 0, Cap)
  OBVIOUS
<1>3. /\ kept \in Seq(Entry)
      /\ Len(kept) = IF 0 + Cap < Len(items) THEN Cap ELSE IF 0 < Len(items) THEN Len(items) - 0 ELSE 0
      /\ \A i \in 1..Len(kept) : kept[i] = items[0 + i]
  BY <1>1, <1>2, SliceOf
<1>4. Len(kept) <= Len(items) /\ Len(items) \in Nat /\ Len(kept) \in Nat
  BY <1>1, <1>3, LenProperties
<1>5. \A i \in 1..Len(kept) : kept[i] = items[i]
  BY <1>3, <1>4
<1>6. Len(items) <= Cap => kept = items
  BY <1>1, <1>3, <1>4, <1>5, SeqEqual
<1>7. Len(listing) \in Nat
  BY LenProperties
<1> QED
  BY <1>2, <1>3, <1>4, <1>5, <1>6, <1>7 DEF Begins

LEMMA AllListed ==
  ASSUME NEW items \in Seq(Entry), NEW listing \in Seq(Entry), Begins(items, listing), Len(items) = Len(listing)
  PROVE  items = listing
  BY SeqEqual DEF Begins

\* A page after what a walk has, and what it has then.
LEMMA PageBegins ==
  ASSUME NEW items \in Seq(Entry), NEW listing \in Seq(Entry), NEW n \in Nat
  PROVE  LET page == Slice(listing, n, PageSize)
         IN  /\ page \in Seq(Entry) /\ items \o page \in Seq(Entry)
             /\ Len(items \o page) = Len(items) + Len(page)
             /\ Begins(items, listing) /\ n = Len(items) =>
                  /\ Begins(items \o page, listing)
                  /\ page = <<>> \/ Len(listing) <= n + PageSize => Len(items \o page) = Len(listing)
                  /\ n + PageSize < Len(listing) => Len(items \o page) = n + PageSize
<1>1. PageSize \in Nat \ {0}
  BY CatalogAssumption DEF CatalogAssumption
<1>2. PICK page : page = Slice(listing, n, PageSize)
  OBVIOUS
<1>3. /\ page \in Seq(Entry)
      /\ Len(page) = IF n + PageSize < Len(listing) THEN PageSize
                     ELSE IF n < Len(listing) THEN Len(listing) - n ELSE 0
      /\ \A i \in 1..Len(page) : page[i] = listing[n + i]
  BY <1>1, <1>2, SliceOf
<1>4. PICK all : all = items \o page
  OBVIOUS
<1>5. /\ all \in Seq(Entry) /\ Len(all) = Len(items) + Len(page)
      /\ \A i \in 1..(Len(items) + Len(page)) : all[i] = IF i <= Len(items) THEN items[i] ELSE page[i - Len(items)]
  BY <1>3, <1>4, ConcatProperties
<1>6. Len(items) \in Nat /\ Len(page) \in Nat /\ Len(listing) \in Nat /\ Len(all) \in Nat
  BY <1>3, <1>5, LenProperties
<1>7. page = <<>> => Len(page) = 0
  OBVIOUS
<1>8. ASSUME Begins(items, listing), n = Len(items)
      PROVE  /\ Begins(all, listing)
             /\ page = <<>> \/ Len(listing) <= n + PageSize => Len(all) = Len(listing)
             /\ n + PageSize < Len(listing) => Len(all) = n + PageSize
  <2>1. n <= Len(listing)
    BY <1>8 DEF Begins
  <2>2. Len(all) <= Len(listing)
    BY <1>1, <1>3, <1>5, <1>6, <1>8, <2>1
  <2>3. ASSUME NEW i \in 1..Len(all) PROVE all[i] = listing[i]
    <3>1. CASE i <= Len(items)
      BY <1>5, <1>6, <1>8, <3>1 DEF Begins
    <3>2. CASE i > Len(items)
      <4>1. i - Len(items) \in 1..Len(page)
        BY <1>5, <1>6, <3>2
      <4>2. all[i] = page[i - Len(items)]
        BY <1>5, <1>6, <3>2
      <4>3. page[i - Len(items)] = listing[n + (i - Len(items))]
        BY <1>3, <4>1
      <4> QED
        BY <1>6, <1>8, <4>2, <4>3
    <3> QED
      BY <1>6, <3>1, <3>2
  <2>4. page = <<>> \/ Len(listing) <= n + PageSize => Len(all) = Len(listing)
    BY <1>1, <1>3, <1>5, <1>6, <1>7, <1>8, <2>1
  <2>5. n + PageSize < Len(listing) => Len(all) = n + PageSize
    BY <1>1, <1>3, <1>5, <1>6, <1>8
  <2> QED
    BY <2>2, <2>3, <2>4, <2>5 DEF Begins
<1> QED
  BY <1>2, <1>3, <1>4, <1>5, <1>8

\* A walk that lands leaves a snapshot of the listing it went through.
LEMMA LandsPages ==
  ASSUME CatalogInv, NEW c \in Calls, phase[c] = "walk", NEW w, NEW truncated, Land(c, w, truncated),
         UNCHANGED <<mock, version>>,
         w.items \in Seq(Entry), w.from \in DOMAIN Listings, w.from <= version,
         w.from = version => Begins(w.items, Source(w.from)),
         w.steady /\ w.scanned <= Cap /\ ~truncated => w.items = Source(w.from) /\ Len(w.items) <= Cap
  PROVE  PagesInv'
<1>1. PICK s : s = Snapshot(w, truncated)
  OBVIOUS
<1>2. /\ s.items = Slice(w.items, 0, Cap) /\ s.scanned = w.scanned /\ s.truncated = truncated
      /\ s.from = w.from /\ s.steady = w.steady
  BY <1>1 DEF Snapshot
<1>3. Source(w.from) \in Seq(Entry)
  BY CatalogAssumption, FirstListing, ElementOfSeq DEF CatalogAssumption, Source
<1>4. /\ s.items \in Seq(Entry)
      /\ Begins(w.items, Source(w.from)) => Begins(s.items, Source(w.from))
      /\ Len(w.items) <= Cap => s.items = w.items
  BY <1>2, <1>3, ClipBegins
<1>5. Stored(s)
  BY <1>2, <1>4 DEF Stored
<1>6. Stored(s)'
  BY <1>5 DEF Stored, Source
<1>7. cache' = s
  BY <1>1 DEF Land
<1>8. \A d \in Calls : phase'[d] # "walk"
  <2>1. inflight = c /\ \A d \in Calls : phase[d] = "walk" => d = c
    BY DEF CatalogInv, FlightInv, OneFlight
  <2> QED
    BY <2>1 DEF Land, Served
<1> QED
  BY <1>6, <1>7, <1>8 DEF PagesInv

LEMMA PagesKept ==
  ASSUME CatalogInv, NEW c \in Calls, Page(c)
  PROVE  PagesInv'
<1>1. phase[c] = "walk" /\ ~mock /\ UNCHANGED <<mock, reports, version, clock, floor, walks>>
  BY DEF Page
<1>2. PICK v : v = walk[c]
  OBVIOUS
<1>3. Walked(v)
  BY <1>1, <1>2 DEF CatalogInv, PagesInv
<1>4. PICK page : page = PageAt(v.cursor)
  OBVIOUS
<1>5. PICK next \in NextCursors(v.cursor) :
        LET w == WithPage(v, page, next)
        IN  \/ page = <<>> /\ Land(c, w, FALSE)
            \/ page # <<>> /\ Len(w.items) >= Cap /\ Land(c, w, MoreLeft(w, next))
            \/ /\ page # <<>> /\ Len(w.items) < Cap /\ (next = LastPage \/ Repeated(w, next))
               /\ Land(c, w, FALSE)
            \/ /\ page # <<>> /\ Len(w.items) < Cap /\ next # LastPage /\ ~Repeated(w, next)
               /\ walk' = [walk EXCEPT ![c] = [w EXCEPT !.seen = @ \cup {next}, !.cursor = next]]
               /\ UNCHANGED <<cache, inflight, servedBy, newest, phase>>
  BY <1>2, <1>4 DEF Page
<1>6. PICK w : w = WithPage(v, page, next)
  OBVIOUS
<1>7. /\ w.items = v.items \o page /\ w.scanned = v.scanned + Len(page) /\ w.from = v.from /\ w.seen = v.seen
      /\ w.cursor = v.cursor
      /\ w.steady = (v.steady /\ Honest(v.cursor, next) /\ v.from = version)
  BY <1>6 DEF WithPage
<1>8. PICK listing : listing = Registry
  OBVIOUS
<1>9. listing \in Seq(Entry) /\ Len(listing) \in Nat
  BY <1>8, CatalogAssumption, ElementOfSeq, LenProperties DEF CatalogAssumption, Registry, CatalogInv, FlightInv, CatalogTypes
<1>10. page = Slice(listing, v.cursor, PageSize) /\ v.cursor \in Nat /\ v.items \in Seq(Entry)
  BY <1>3, <1>4, <1>8 DEF PageAt, Walked
<1>11. /\ w.items \in Seq(Entry) /\ Len(w.items) = Len(v.items) + Len(page)
       /\ Begins(v.items, listing) /\ v.cursor = Len(v.items) =>
            /\ Begins(w.items, listing)
            /\ (page = <<>> \/ Len(listing) <= v.cursor + PageSize) => Len(w.items) = Len(listing)
            /\ v.cursor + PageSize < Len(listing) => Len(w.items) = v.cursor + PageSize
  <2>1. PICK all : all = v.items \o page
    OBVIOUS
  <2>2. /\ all \in Seq(Entry) /\ Len(all) = Len(v.items) + Len(page)
        /\ Begins(v.items, listing) /\ v.cursor = Len(v.items) =>
             /\ Begins(all, listing)
             /\ page = <<>> \/ Len(listing) <= v.cursor + PageSize => Len(all) = Len(listing)
             /\ v.cursor + PageSize < Len(listing) => Len(all) = v.cursor + PageSize
    BY <1>9, <1>10, <2>1, PageBegins
  <2>3. w.items = all
    BY <1>7, <2>1
  <2> QED
    BY <2>2, <2>3
<1>12. w.scanned = Len(w.items)
  BY <1>3, <1>7, <1>11 DEF Walked
<1>13. w.from = version => v.steady /\ Begins(v.items, listing) /\ v.cursor = Len(v.items)
  BY <1>3, <1>7, <1>8 DEF Walked, Registry
<1>14. w.steady => w.from = version /\ next # v.cursor
  BY <1>7 DEF Honest
<1>15. PageSize \in Nat \ {0} /\ Cap \in Nat \ {0}
  BY CatalogAssumption DEF CatalogAssumption
<1>16. \/ next = v.cursor + PageSize /\ v.cursor + PageSize < Len(listing)
       \/ next = LastPage /\ ~(v.cursor + PageSize < Len(listing))
       \/ next = v.cursor /\ v.cursor > 0
  BY <1>5, <1>8 DEF NextCursors
<1>17. Source(w.from) = Listings[w.from]
  BY <1>1 DEF Source
<1>18. w.from \in DOMAIN Listings /\ w.from <= version
  BY <1>3, <1>7 DEF Walked
<1>19. w.from = version => Source(w.from) = listing /\ Begins(w.items, listing)
  BY <1>8, <1>11, <1>13, <1>17 DEF Registry
<1>20. ASSUME w.steady, page = <<>> \/ Len(listing) <= v.cursor + PageSize
       PROVE  w.items = listing
  <2>1. Len(w.items) = Len(listing) /\ Begins(w.items, listing)
    BY <1>11, <1>13, <1>14, <1>20
  <2> QED
    BY <1>9, <1>11, <2>1, AllListed
<1>21. ASSUME NEW truncated, Land(c, w, truncated),
              w.steady /\ w.scanned <= Cap /\ ~truncated => page = <<>> \/ Len(listing) <= v.cursor + PageSize
       PROVE  PagesInv'
  <2>1. w.steady /\ w.scanned <= Cap /\ ~truncated => w.items = Source(w.from) /\ Len(w.items) <= Cap
    BY <1>12, <1>14, <1>19, <1>20, <1>21
  <2> QED
    BY <1>1, <1>11, <1>18, <1>19, <1>21, <2>1, LandsPages
<1>22. LastPage = -1 /\ v.cursor \in Nat
  BY <1>10 DEF LastPage
<1>23. next = LastPage => Len(listing) <= v.cursor + PageSize
  BY <1>9, <1>15, <1>16, <1>22
<1>24. CASE page = <<>> /\ Land(c, w, FALSE)
  BY <1>21, <1>24
<1>25. CASE Len(w.items) >= Cap /\ Land(c, w, MoreLeft(w, next))
  <2>1. ~MoreLeft(w, next) => next = LastPage
    BY DEF MoreLeft
  <2> QED
    BY <1>21, <1>23, <1>25, <2>1
<1>26. CASE (next = LastPage \/ Repeated(w, next)) /\ Land(c, w, FALSE)
  <2>1. w.steady /\ Repeated(w, next) => next <= v.cursor
    BY <1>3, <1>7 DEF Repeated, Walked
  <2>2. w.steady => next = LastPage
    BY <1>14, <1>15, <1>16, <1>22, <1>26, <2>1
  <2> QED
    BY <1>21, <1>23, <1>26, <2>2
<1>27. CASE /\ Len(w.items) < Cap /\ next # LastPage /\ ~Repeated(w, next)
            /\ walk' = [walk EXCEPT ![c] = [w EXCEPT !.seen = @ \cup {next}, !.cursor = next]]
            /\ UNCHANGED <<cache, inflight, servedBy, newest, phase>>
  <2>1. PICK m : m = [w EXCEPT !.seen = @ \cup {next}, !.cursor = next]
    OBVIOUS
  <2>2. /\ m.items = w.items /\ m.scanned = w.scanned /\ m.from = w.from /\ m.steady = w.steady
        /\ m.seen = w.seen \cup {next} /\ m.cursor = next
    BY <1>6, <2>1 DEF WithPage
  <2>3. next = v.cursor + PageSize /\ v.cursor + PageSize < Len(listing)
    <3>1. v.cursor > 0 => v.cursor \in w.seen
      BY <1>3, <1>7 DEF Walked
    <3> QED
      BY <1>16, <1>27, <3>1 DEF Repeated
  <2>4. next \in Nat /\ next > v.cursor
    BY <1>15, <1>22, <2>3
  <2>5. w.from = version => w.steady
    <3>1. next # v.cursor
      BY <1>22, <2>4
    <3>2. w.from = v.from
      BY <1>7
    <3>3. w.steady = (v.steady /\ next # v.cursor /\ v.from = version)
      BY <1>7 DEF Honest
    <3> QED
      BY ONLY <1>13, <3>1, <3>2, <3>3, Zenon
  <2>6. w.steady => /\ next = Len(w.items) /\ Begins(w.items, Listings[w.from])
                    /\ \A n \in w.seen \cup {next} : n <= next
    <3>1. SUFFICES ASSUME w.steady PROVE /\ next = Len(w.items) /\ Begins(w.items, Listings[w.from])
                                         /\ \A n \in w.seen \cup {next} : n <= next
      OBVIOUS
    <3>2. \A n \in w.seen : n <= v.cursor
      BY <1>3, <1>7, <3>1 DEF Walked
    <3>3. next = Len(w.items) /\ Begins(w.items, Listings[w.from])
      BY <1>11, <1>13, <1>14, <1>17, <1>19, <2>3, <3>1
    <3>4. w.seen \subseteq Nat
      BY <1>3, <1>7 DEF Walked
    <3> QED
      BY <1>22, <2>4, <3>2, <3>3, <3>4
  <2>7. Walked(m)
    <3>1. w.seen \subseteq Nat
      BY <1>3, <1>7 DEF Walked
    <3>2. m.seen \subseteq Nat /\ m.cursor \in Nat /\ m.cursor \in m.seen
      BY <2>2, <2>4, <3>1
    <3>3. m.items \in Seq(Entry) /\ m.scanned = Len(m.items) /\ Len(m.items) < Cap
      BY <1>11, <1>12, <1>27, <2>2
    <3> QED
      BY <1>18, <2>2, <2>5, <2>6, <3>2, <3>3 DEF Walked
  <2>8. Walked(m)'
    BY <1>1, <2>7 DEF Walked
  <2>9. \A d \in Calls : phase'[d] = "walk" => d = c
    BY <1>1, <1>27 DEF CatalogInv, FlightInv, OneFlight
  <2>10. walk'[c] = m
    BY <1>27, <2>1 DEF CatalogInv, FlightInv, OneFlight
  <2>11. cache' # NoSnapshot => Stored(cache)'
    BY <1>1, <1>27 DEF CatalogInv, PagesInv, Stored, Source
  <2> QED
    BY <2>8, <2>9, <2>10, <2>11 DEF PagesInv
<1> QED
  BY <1>5, <1>6, <1>24, <1>25, <1>26, <1>27

LEMMA MocksKept ==
  ASSUME CatalogInv, NEW c \in Calls, ScanMock(c)
  PROVE  PagesInv'
<1>1. phase[c] = "walk" /\ mock /\ UNCHANGED <<mock, reports, version, clock, floor, walks>>
  BY DEF ScanMock
<1>2. PICK v : v = walk[c]
  OBVIOUS
<1>3. Walked(v)
  BY <1>1, <1>2 DEF CatalogInv, PagesInv
<1>4. PICK listing : listing = Listings[1]
  OBVIOUS
<1>5. listing \in Seq(Entry) /\ Len(listing) \in Nat
  BY <1>4, FirstListing, LenProperties
<1>6. PICK kept : kept = Slice(listing, 0, Cap)
  OBVIOUS
<1>7. PICK w : w = [v EXCEPT !.items = kept, !.scanned = Len(kept), !.total = Len(listing)]
  OBVIOUS
<1>8. Land(c, w, Len(listing) > Len(kept))
  BY <1>2, <1>4, <1>6, <1>7 DEF ScanMock
<1>9. w.items = kept /\ w.scanned = Len(kept) /\ w.from = v.from
  BY <1>7
<1>10. w.from \in DOMAIN Listings /\ w.from <= version /\ Source(w.from) = listing
  BY <1>1, <1>3, <1>4, <1>9 DEF Walked, Source
<1>11. Cap \in Nat \ {0} /\ 0 \in Nat
  BY CatalogAssumption DEF CatalogAssumption
<1>12. /\ kept \in Seq(Entry)
       /\ Len(kept) = IF 0 + Cap < Len(listing) THEN Cap ELSE IF 0 < Len(listing) THEN Len(listing) - 0 ELSE 0
       /\ \A i \in 1..Len(kept) : kept[i] = listing[0 + i]
  <2>1. LET first == Slice(listing, 0, Cap) IN
        /\ first \in Seq(Entry)
        /\ Len(first) = IF 0 + Cap < Len(listing) THEN Cap ELSE IF 0 < Len(listing) THEN Len(listing) - 0 ELSE 0
        /\ \A i \in 1..Len(first) : first[i] = listing[0 + i]
    BY ONLY <1>5, <1>11, SliceOf
  <2> QED
    BY ONLY <1>6, <2>1
<1>13. Len(kept) <= Cap /\ Len(kept) <= Len(listing) /\ Len(kept) \in Nat
  <2>1. PICK l \in Nat, n \in Nat, ceiling \in Nat \ {0} : l = Len(listing) /\ ceiling = Cap /\ n = Len(kept)
    BY ONLY <1>5, <1>11, <1>12, LenProperties
  <2>2. n = IF 0 + ceiling < l THEN ceiling ELSE IF 0 < l THEN l - 0 ELSE 0
    BY ONLY <1>12, <2>1
  <2>3. n <= ceiling /\ n <= l
    BY ONLY <2>1, <2>2
  <2> QED
    BY ONLY <2>1, <2>3
<1>14. \A i \in 1..Len(kept) : kept[i] = listing[i]
  BY <1>12, <1>13
<1>15. Begins(kept, listing)
  BY <1>13, <1>14 DEF Begins
<1>16. ~(Len(listing) > Len(kept)) => kept = listing
  BY <1>5, <1>12, <1>13, <1>15, AllListed
<1>17. w.from = version => Begins(w.items, Source(w.from))
  BY <1>9, <1>10, <1>15
<1>18. w.steady /\ w.scanned <= Cap /\ ~(Len(listing) > Len(kept)) => w.items = Source(w.from) /\ Len(w.items) <= Cap
  BY <1>9, <1>10, <1>13, <1>16
<1>19. w.items \in Seq(Entry)
  BY <1>9, <1>12
<1> QED
  BY <1>1, <1>8, <1>10, <1>17, <1>18, <1>19, LandsPages

LEMMA LoadsKeep ==
  ASSUME CatalogInv, NEW c \in Calls, Load(c)
  PROVE  PagesInv'
<1>1. UNCHANGED <<mock, version, cache>>
  BY DEF Load
<1>2. cache' # NoSnapshot => Stored(cache)'
  BY <1>1 DEF CatalogInv, PagesInv, Stored, Source
<1>3. ASSUME UNCHANGED walk, \A d \in Calls : phase'[d] = "walk" => phase[d] = "walk"
      PROVE  \A d \in Calls : phase'[d] = "walk" => Walked(walk[d])'
  BY <1>1, <1>3 DEF CatalogInv, PagesInv, Walked
<1>4. PICK refresh \in BOOLEAN : Hit(c, refresh) \/ Join(c, refresh) \/ Start(c, refresh)
  BY DEF Load
<1>5. CASE Hit(c, refresh) \/ Join(c, refresh)
  <2>1. phase' = [phase EXCEPT ![c] = "done"] \/ phase' = [phase EXCEPT ![c] = "join"]
    BY <1>5 DEF Hit, Join
  <2>2. UNCHANGED walk /\ \A d \in Calls : phase'[d] = "walk" => phase[d] = "walk"
    BY <1>5, <2>1 DEF Hit, Join, CatalogInv, FlightInv, CatalogTypes
  <2> QED
    BY <1>2, <1>3, <2>2 DEF PagesInv
<1>6. CASE Start(c, refresh)
  <2>1. PICK w : w = NewWalk(walks + 1)
    OBVIOUS
  <2>2. /\ inflight = NoCall /\ walk' = [walk EXCEPT ![c] = w] /\ phase' = [phase EXCEPT ![c] = "walk"]
    BY <1>6, <2>1 DEF Start
  <2>3. walk'[c] = w /\ \A d \in Calls : phase'[d] = "walk" => d = c
    <3>1. DOMAIN walk = Calls
      BY DEF CatalogInv, FlightInv, OneFlight
    <3>2. walk'[c] = w
      BY <2>2, <3>1
    <3>3. \A d \in Calls : phase[d] # "walk"
      BY <2>2, CatalogAssumption DEF CatalogAssumption, CatalogInv, FlightInv, OneFlight
    <3>4. \A d \in Calls : d # c => phase'[d] = phase[d]
      BY <2>2 DEF CatalogInv, FlightInv, CatalogTypes
    <3> QED
      BY <3>2, <3>3, <3>4
  <2>4. Walked(w)
    <3>1. /\ w.items = <<>> /\ w.scanned = 0 /\ w.from = version /\ w.cursor = 0 /\ w.seen = {} /\ w.steady
      BY <2>1 DEF NewWalk
    <3>2. <<>> \in Seq(Entry) /\ Len(<<>>) = 0
      BY EmptySeq
    <3>3. Cap \in Nat \ {0}
      BY CatalogAssumption DEF CatalogAssumption
    <3>4. version \in DOMAIN Listings /\ version \in Nat /\ Listings[version] \in Seq(Entry)
      BY CatalogAssumption, ElementOfSeq DEF CatalogAssumption, CatalogInv, FlightInv, CatalogTypes
    <3>5. Begins(<<>>, Listings[version])
      BY <3>2, <3>4, LenProperties DEF Begins
    <3> QED
      BY <3>1, <3>2, <3>3, <3>4, <3>5 DEF Walked
  <2>5. Walked(w)'
    BY <1>1, <2>4 DEF Walked
  <2> QED
    BY <1>2, <2>3, <2>5 DEF PagesInv
<1> QED
  BY <1>4, <1>5, <1>6

LEMMA FailsKeep ==
  ASSUME CatalogInv, NEW c \in Calls, FetchFails(c)
  PROVE  PagesInv'
<1>1. UNCHANGED <<mock, version, cache>> /\ phase[c] = "walk"
  BY DEF FetchFails
<1>2. cache' # NoSnapshot => Stored(cache)'
  BY <1>1 DEF CatalogInv, PagesInv, Stored, Source
<1>3. inflight = c /\ \A d \in Calls : phase[d] = "walk" => d = c
  BY <1>1 DEF CatalogInv, FlightInv, OneFlight
<1>4. \A d \in Calls : phase'[d] # "walk"
  BY <1>3 DEF FetchFails, Served
<1> QED
  BY <1>2, <1>4 DEF PagesInv

\* The registry moves on: nothing that is stored or under way is of it then.
LEMMA EditsKeep == CatalogInv /\ (Edit \/ Tick) => PagesInv'
<1> SUFFICES ASSUME CatalogInv, Edit \/ Tick PROVE PagesInv'
  OBVIOUS
<1>1. UNCHANGED <<mock, cache, phase, walk>>
  BY DEF Edit, Tick
<1>2. version \in Nat /\ (version' = version \/ version' = version + 1)
  BY CatalogAssumption DEF CatalogAssumption, Edit, Tick, CatalogInv, FlightInv, CatalogTypes
<1>3. \A n \in DOMAIN Listings : n \in Nat
  BY CatalogAssumption DEF CatalogAssumption
<1>4. ASSUME NEW n \in DOMAIN Listings, n <= version
      PROVE  n <= version' /\ (n = version' => n = version)
  BY <1>2, <1>3, <1>4
<1>5. ASSUME NEW w, Walked(w) PROVE Walked(w)'
  BY <1>4, <1>5 DEF Walked
<1>6. ASSUME NEW s, Stored(s) PROVE Stored(s)'
  BY <1>1, <1>4, <1>6 DEF Stored, Source
<1> QED
  BY <1>1, <1>5, <1>6 DEF CatalogInv, PagesInv

LEMMA CatalogStep == CatalogInv /\ [CatalogNext]_cvars => CatalogInv'
<1> SUFFICES ASSUME CatalogInv, [CatalogNext]_cvars PROVE CatalogInv'
  OBVIOUS
<1>1. FlightInv'
  BY FlightStep DEF CatalogInv
<1>2. CASE UNCHANGED cvars
  <2>1. UNCHANGED <<mock, version, cache, phase, walk>>
    BY <1>2 DEF cvars
  <2>2. ASSUME NEW w, Walked(w) PROVE Walked(w)'
    BY <2>1, <2>2 DEF Walked
  <2>3. ASSUME NEW s, Stored(s) PROVE Stored(s)'
    BY <2>1, <2>3 DEF Stored, Source
  <2>4. PagesInv'
    BY <2>1, <2>2, <2>3 DEF CatalogInv, PagesInv
  <2> QED
    BY <1>1, <2>4 DEF CatalogInv
<1>3. CASE CatalogNext
  <2>1. CASE Edit \/ Tick
    BY <1>1, <2>1, EditsKeep DEF CatalogInv
  <2>2. CASE \E c \in Calls : Load(c) \/ Page(c) \/ ScanMock(c) \/ FetchFails(c)
    <3>1. PICK c \in Calls : Load(c) \/ Page(c) \/ ScanMock(c) \/ FetchFails(c)
      BY <2>2
    <3>2. PagesInv'
      BY <3>1, LoadsKeep, PagesKept, MocksKept, FailsKeep
    <3> QED
      BY <1>1, <3>2 DEF CatalogInv
  <2> QED
    BY <1>3, <2>1, <2>2 DEF CatalogNext
<1> QED
  BY <1>2, <1>3

LEMMA CatalogStarts == CatalogInit => CatalogInv
  BY FlightStarts DEF CatalogInit, CatalogInv, PagesInv

LEMMA CatalogStaysSo == CatalogSpec => []CatalogInv
<1>1. CatalogInit => CatalogInv
  BY CatalogStarts
<1>2. CatalogInv /\ [CatalogNext]_cvars => CatalogInv'
  BY CatalogStep
<1> QED
  BY <1>1, <1>2, PTL DEF CatalogSpec

\* Whatever the registry lists and hands out, and however calls overlap: the
\* catalog a call is answered with is no older than one that was there when it was
\* made (or, for a refresh, than the call), a registry that held still gives nobody
\* twice, and what is not said to be a prefix is the whole of it.
THEOREM CatalogCurrent == CatalogSpec => []CatalogIsCurrent
<1>1. CatalogInv => CatalogIsCurrent
  <2> SUFFICES ASSUME CatalogInv PROVE CatalogIsCurrent
    OBVIOUS
  <2>1. CatalogTypes /\ NeverOlder
    BY DEF CatalogInv, FlightInv
  <2>2. cache # NoSnapshot => Stored(cache)
    BY DEF CatalogInv, PagesInv
  <2>3. NoDuplicates
    <3>1. SUFFICES ASSUME cache # NoSnapshot, cache.from = version,
                          NEW i \in Public(cache), NEW j \in Public(cache), cache.items[i] = cache.items[j]
                   PROVE  i = j
      BY DEF NoDuplicates
    <3>2. PICK listing : listing = Source(cache.from)
      OBVIOUS
    <3>3. Begins(cache.items, listing) /\ cache.items \in Seq(Entry)
      BY <2>2, <3>1, <3>2 DEF Stored
    <3>4. \A m, n \in DOMAIN listing : listing[m].agent = listing[n].agent => m = n
      <4>1. PICK v : v \in DOMAIN Listings /\ listing = Listings[v]
        BY <2>2, <3>1, <3>2, FirstListing DEF Stored, Source
      <4> QED
        BY <4>1, CatalogAssumption DEF CatalogAssumption
    <3>5. listing \in Seq(Entry)
      BY <2>2, <3>1, <3>2, FirstListing, CatalogAssumption, ElementOfSeq DEF CatalogAssumption, Stored, Source
    <3>6. i \in 1..Len(cache.items) /\ j \in 1..Len(cache.items)
      BY <3>3 DEF Public
    <3>7. i \in DOMAIN listing /\ j \in DOMAIN listing
      BY <3>3, <3>5, <3>6, LenProperties DEF Begins
    <3>8. listing[i] = listing[j]
      BY <3>1, <3>3, <3>6 DEF Begins
    <3> QED
      BY <3>4, <3>7, <3>8
  <2>4. WholeOrSaidSo
    <3>1. SUFFICES ASSUME cache # NoSnapshot, cache.steady, cache.scanned <= Cap, ~cache.truncated
                   PROVE  LET listing == IF mock THEN Listings[1] ELSE Listings[cache.from]
                          IN  {cache.items[i] : i \in Public(cache)}
                                = {e \in {listing[i] : i \in DOMAIN listing} : e.public}
      BY DEF WholeOrSaidSo
    <3>2. PICK listing : listing = IF mock THEN Listings[1] ELSE Listings[cache.from]
      OBVIOUS
    <3>3. cache.items = listing
      BY <2>2, <3>1, <3>2 DEF Stored, Source
    <3>4. Public(cache) = {i \in DOMAIN listing : listing[i].public}
      BY <3>3 DEF Public
    <3>5. {listing[i] : i \in {j \in DOMAIN listing : listing[j].public}}
            = {e \in {listing[i] : i \in DOMAIN listing} : e.public}
      OBVIOUS
    <3> QED
      BY <3>2, <3>3, <3>4, <3>5
  <2> QED
    BY <2>1, <2>3, <2>4 DEF CatalogIsCurrent
<1> QED
  BY <1>1, CatalogStaysSo, PTL

-----------------------------------------------------------------------------
(***************************************************************************)
(* CatalogQueries: what is searched for in the catalog (catalog-index.ts). *)
(***************************************************************************)

\* A set that lacks a member of a finite one it is part of is smaller.
LEMMA Smaller ==
  ASSUME NEW S, IsFiniteSet(S), NEW T \in SUBSET S, NEW x \in S, x \notin T
  PROVE  IsFiniteSet(T) /\ Cardinality(T) \in Nat /\ Cardinality(S) \in Nat
           /\ Cardinality(T) < Cardinality(S)
<1>1. IsFiniteSet(T) /\ Cardinality(T) <= Cardinality(S) /\ (Cardinality(S) = Cardinality(T) => S = T)
  BY FS_Subset
<1>2. Cardinality(T) \in Nat /\ Cardinality(S) \in Nat
  BY <1>1, FS_CardinalityType
<1> QED
  BY <1>1, <1>2

\* The members of a finite set that is strictly ordered, R giving for each those
\* before it, are told apart by how many come before them, from none to all but one.
LEMMA Ranks ==
  ASSUME NEW D, IsFiniteSet(D), NEW R \in [D -> SUBSET D],
         \A i \in D : i \notin R[i],
         \A i, j \in D : i # j => i \in R[j] \/ j \in R[i],
         \A i, j \in D : j \in R[i] => R[j] \subseteq R[i]
  PROVE  /\ Cardinality(D) \in Nat
         /\ \A i \in D : Cardinality(R[i]) + 1 \in 1..Cardinality(D)
         /\ \A i, j \in D : Cardinality(R[i]) = Cardinality(R[j]) => i = j
         /\ \A n \in 1..Cardinality(D) : \E i \in D : Cardinality(R[i]) = n - 1
<1> DEFINE N == Cardinality(D)
<1>1. N \in Nat
  BY FS_CardinalityType
<1>2. \A i \in D : IsFiniteSet(R[i]) /\ Cardinality(R[i]) \in Nat /\ Cardinality(R[i]) < N
  <2> SUFFICES ASSUME NEW i \in D
               PROVE  IsFiniteSet(R[i]) /\ Cardinality(R[i]) \in Nat /\ Cardinality(R[i]) < N
    OBVIOUS
  <2>1. R[i] \in SUBSET D
    OBVIOUS
  <2> QED
    BY <2>1, Smaller
<1>3. \A i, j \in D : j \in R[i] => Cardinality(R[j]) < Cardinality(R[i])
  <2> SUFFICES ASSUME NEW i \in D, NEW j \in D, j \in R[i]
               PROVE  Cardinality(R[j]) < Cardinality(R[i])
    OBVIOUS
  <2>1. R[j] \in SUBSET R[i] /\ j \notin R[j]
    OBVIOUS
  <2> QED
    BY <1>2, <2>1, Smaller
<1>4. \A i, j \in D : Cardinality(R[i]) = Cardinality(R[j]) => i = j
  BY <1>2, <1>3
<1>5. \A n \in 1..N : \E i \in D : Cardinality(R[i]) = n - 1
  <2> SUFFICES ASSUME NEW n \in 1..N, \A i \in D : Cardinality(R[i]) # n - 1
               PROVE  FALSE
    OBVIOUS
  <2> DEFINE all == 0..(N - 1)
             T == all \ {n - 1}
             f == [i \in D |-> Cardinality(R[i])]
  <2>1. IsFiniteSet(all) /\ Cardinality(all) = N
    <3>1. N - 1 \in Int /\ 0 \in Int
      BY <1>1
    <3>2. IsFiniteSet(0..(N - 1)) /\ Cardinality(0..(N - 1)) = IF 0 > N - 1 THEN 0 ELSE (N - 1) - 0 + 1
      BY ONLY <3>1, FS_Interval
    <3> HIDE DEF N
    <3> QED BY <1>1, <3>2
  <2>2. n - 1 \in all
    BY <1>1
  <2> HIDE DEF all
  <2>3. IsFiniteSet(T) /\ Cardinality(T) = N - 1
    BY <2>1, <2>2, FS_RemoveElement
  <2>4. \A i \in D : Cardinality(R[i]) \in T
    BY <1>1, <1>2 DEF all
  <2>5. f \in [D -> T]
    BY <2>4
  <2> HIDE DEF T, N
  <2>6. Cardinality(T) < N
    BY <1>1, <2>3
  <2>7. \E x, y \in D : x # y /\ f[x] = f[y]
    <3> HIDE DEF f
    <3> QED BY <2>3, <2>5, <2>6, FS_PigeonHole DEF N
  <2> QED
    BY <1>4, <2>7
<1> QED
  BY <1>1, <1>2, <1>4, <1>5

\* No entry twice.
Once(s) == \A i, j \in DOMAIN s : s[i] = s[j] => i = j

\* A sequence with no entry twice is as long as the set of its entries.
LEMMA OnceLength ==
  ASSUME NEW S, NEW s \in Seq(S), Once(s)
  PROVE  /\ IsFiniteSet(ToSet(s)) /\ Cardinality(ToSet(s)) = Len(s)
<1> DEFINE T == ToSet(s)
<1>1. Len(s) \in Nat /\ DOMAIN s = 1..Len(s) /\ s \in [1..Len(s) -> T]
  BY LenProperties DEF ToSet
<1>2. IsFiniteSet(1..Len(s)) /\ Cardinality(1..Len(s)) = Len(s)
  BY <1>1, FS_Interval
<1>3. s \in Surjection(1..Len(s), T)
  BY <1>1 DEF ToSet, Surjection
<1>4. s \in Injection(1..Len(s), T)
  BY <1>1 DEF Once, Injection, IsInjective
<1>5. s \in Bijection(1..Len(s), T)
  BY <1>3, <1>4 DEF Bijection
<1> QED
  BY <1>2, <1>5, FS_Bijection DEF ExistsBijection

\* The selection Only makes: its members, in a sequence, none of them twice unless it was.
LEMMA Selects ==
  ASSUME NEW S, NEW s \in Seq(S), NEW T
  PROVE  /\ Only(s, T) \in Seq(S)
         /\ ToSet(Only(s, T)) = ToSet(s) \cap T
         /\ Once(s) => Once(Only(s, T))
<1> DEFINE at == {i \in DOMAIN s : s[i] \in T}
           R == [i \in at |-> {j \in at : j < i}]
           pick(n) == CHOOSE i \in at : Cardinality({j \in at : j < i}) = n - 1
<1>1. Len(s) \in Nat /\ DOMAIN s = 1..Len(s) /\ \A i \in DOMAIN s : s[i] \in S
  BY LenProperties
<1>2. at \subseteq Int /\ at \subseteq 1..Len(s)
  BY <1>1
<1>3. IsFiniteSet(at)
  <2>1. IsFiniteSet(1..Len(s))
    BY <1>1, FS_Interval
  <2>2. at \in SUBSET (1..Len(s))
    BY <1>2
  <2> QED BY ONLY <2>1, <2>2, FS_Subset
<1>4. Only(s, T) = [n \in 1..Cardinality(at) |-> s[pick(n)]]
  BY DEF Only
<1>5. \A i \in at : s[i] \in S /\ s[i] \in T /\ s[i] \in ToSet(s)
  BY <1>1 DEF ToSet
<1>6. \A x \in ToSet(s) \cap T : \E i \in at : s[i] = x
  BY DEF ToSet
<1>7. at \subseteq DOMAIN s
  OBVIOUS
<1> HIDE DEF at
<1>8. R \in [at -> SUBSET at] /\ \A i \in at : R[i] = {j \in at : j < i}
  OBVIOUS
<1> HIDE DEF R
<1>9. /\ \A i \in at : i \notin R[i]
      /\ \A i, j \in at : i # j => i \in R[j] \/ j \in R[i]
      /\ \A i, j \in at : j \in R[i] => R[j] \subseteq R[i]
  <2>1. \A i, j \in at : (j \in R[i]) = (j < i)
    BY <1>8
  <2>2. \A i, j, n \in at : j < i /\ n < j => n < i
    BY <1>2
  <2>3. \A i, j \in at : (i # j => i < j \/ j < i) /\ ~(i < i)
    BY <1>2
  <2>4. \A i \in at : R[i] \subseteq at
    BY <1>8
  <2> QED
    BY <2>1, <2>2, <2>3, <2>4
<1>10. /\ Cardinality(at) \in Nat
       /\ \A i \in at : Cardinality(R[i]) + 1 \in 1..Cardinality(at)
       /\ \A i, j \in at : Cardinality(R[i]) = Cardinality(R[j]) => i = j
       /\ \A n \in 1..Cardinality(at) : \E i \in at : Cardinality(R[i]) = n - 1
  BY ONLY <1>3, <1>8, <1>9, Ranks
<1>11. \A n : pick(n) = CHOOSE i \in at : Cardinality(R[i]) = n - 1
  BY <1>8
<1> HIDE DEF pick
<1>12. \A n \in 1..Cardinality(at) : pick(n) \in at /\ Cardinality(R[pick(n)]) = n - 1
  BY <1>10, <1>11
<1>13. \A i \in at : \E n \in 1..Cardinality(at) : pick(n) = i
  <2> SUFFICES ASSUME NEW i \in at
               PROVE  \E n \in 1..Cardinality(at) : pick(n) = i
    OBVIOUS
  <2> DEFINE c == Cardinality(R[i])
  <2>1. c + 1 \in 1..Cardinality(at) /\ c \in Int
    BY <1>10, <1>8, <1>3, FS_Subset, FS_CardinalityType
  <2>2. pick(c + 1) \in at /\ Cardinality(R[pick(c + 1)]) = (c + 1) - 1
    BY <1>12, <2>1
  <2>3. (c + 1) - 1 = c
    BY <2>1
  <2> QED
    BY <1>10, <2>1, <2>2, <2>3
<1>14. \A n, m \in 1..Cardinality(at) : pick(n) = pick(m) => n = m
  BY <1>10, <1>12
<1>15. Only(s, T) \in Seq(S)
  <2> DEFINE e(n) == s[pick(n)]
  <2>1. \A n \in 1..Cardinality(at) : e(n) \in S
    BY <1>5, <1>12
  <2> HIDE DEF e
  <2>2. [n \in 1..Cardinality(at) |-> e(n)] \in Seq(S)
    BY ONLY <1>10, <2>1, IsASeq
  <2> QED
    BY <1>4, <2>2 DEF e
<1>16. ToSet(Only(s, T)) = ToSet(s) \cap T
  <2>1. \A x \in ToSet(Only(s, T)) : x \in ToSet(s) \cap T
    BY <1>4, <1>5, <1>12 DEF ToSet
  <2>2. \A x \in ToSet(s) \cap T : x \in ToSet(Only(s, T))
    <3> SUFFICES ASSUME NEW x \in ToSet(s) \cap T
                 PROVE  x \in ToSet(Only(s, T))
      OBVIOUS
    <3>1. PICK i \in at : s[i] = x
      BY <1>6
    <3>2. PICK n \in 1..Cardinality(at) : pick(n) = i
      BY <1>13
    <3>3. n \in DOMAIN Only(s, T) /\ Only(s, T)[n] = x
      BY <1>4, <3>1, <3>2
    <3> QED
      BY <3>3 DEF ToSet
  <2> QED
    BY <2>1, <2>2
<1>17. Once(s) => Once(Only(s, T))
  BY <1>4, <1>7, <1>12, <1>14 DEF Once
<1> QED
  BY <1>15, <1>16, <1>17

\* What compareRanked compares.
Rankable(R) ==
  \A x \in R : x.score \in Int /\ x.agent.handle \in Int /\ x.agent.price \in Int \cup {NoPrice}
OfOthers(R) == \A x, y \in R : x.agent.handle = y.agent.handle => x = y

\* compareRanked is a strict order in which those that are level with one another are
\* level with the same others; of two results of different handles one comes first.
LEMMA BeforeOrders ==
  ASSUME NEW R, Rankable(R)
  PROVE  /\ \A x \in R : ~Before(x, x)
         /\ \A x, y \in R : ~(Before(x, y) /\ Before(y, x))
         /\ \A x, y, z \in R : Before(x, y) /\ Before(y, z) => Before(x, z)
         /\ \A x, y, z \in R : Before(x, z) => Before(x, y) \/ Before(y, z)
         /\ OfOthers(R) => \A x, y \in R : x # y => Before(x, y) \/ Before(y, x)
<1> USE QueryAssumption
<1>1. \A x \in R : x.score \in Int /\ x.agent.handle \in Int /\ x.agent.price \in Int \cup {NoPrice}
  BY DEF Rankable
<1>2. \A x \in R : ~Before(x, x)
  BY <1>1 DEF Before, Cheaper
<1>3. \A x, y \in R : ~(Before(x, y) /\ Before(y, x))
  BY <1>1 DEF Before, Cheaper
<1>4. \A x, y, z \in R : Before(x, y) /\ Before(y, z) => Before(x, z)
  BY <1>1 DEF Before, Cheaper
<1>5. \A x, y, z \in R : Before(x, z) => Before(x, y) \/ Before(y, z)
  BY <1>1 DEF Before, Cheaper
<1>6. ASSUME OfOthers(R), NEW x \in R, NEW y \in R, x # y
      PROVE  Before(x, y) \/ Before(y, x)
  <2>1. x.agent.handle # y.agent.handle
    BY <1>6 DEF OfOthers
  <2> QED
    BY <1>1, <2>1 DEF Before, Cheaper
<1> QED
  BY <1>2, <1>3, <1>4, <1>5, <1>6

\* Sorting moves every result to a place of its own: one for each place, and told by
\* how many are put ahead of it.
LEMMA SortedPlaces ==
  ASSUME NEW R, Rankable(R), NEW s \in Seq(R)
  PROVE  /\ Sorted(s) \in Seq(ToSet(s))
         /\ Len(Sorted(s)) = Len(s)
         /\ \A n \in 1..Len(s) : \E i \in DOMAIN s :
              Sorted(s)[n] = s[i] /\ Cardinality(Ahead(s, i)) = n - 1
         /\ Sorted(s) = [n \in 1..Len(s) |-> Sorted(s)[n]]
<1> DEFINE D == DOMAIN s
           B == [i \in D |-> Ahead(s, i)]
<1>1. Len(s) \in Nat /\ D = 1..Len(s) /\ \A i \in D : s[i] \in R /\ s[i] \in ToSet(s)
  BY LenProperties DEF ToSet
<1>2. B \in [D -> SUBSET D] /\ \A i \in D : B[i] = Ahead(s, i)
  BY DEF Ahead
<1>3. \A i, j \in D : j \in B[i] <=> Before(s[j], s[i]) \/ (~Before(s[i], s[j]) /\ j < i)
  BY <1>2 DEF Ahead
<1> HIDE DEF B, D
<1>4. \A i, j \in D : i \in Int /\ j \in Int
  BY <1>1
<1>5. \A i \in D : i \notin B[i]
  BY <1>1, <1>3, <1>4, BeforeOrders
<1>6. \A i, j \in D : i # j => i \in B[j] \/ j \in B[i]
  <2>1. \A i, j \in D : i # j => i < j \/ j < i
    BY <1>4
  <2> QED
    BY <1>3, <2>1
<1>7. \A i, j \in D : j \in B[i] => B[j] \subseteq B[i]
  <2> SUFFICES ASSUME NEW i \in D, NEW j \in D, j \in B[i], NEW m \in B[j]
               PROVE  m \in B[i]
    OBVIOUS
  <2>1. m \in D
    BY <1>2
  <2>2. s[i] \in R /\ s[j] \in R /\ s[m] \in R
    BY <1>1, <2>1
  <2>3. Before(s[j], s[i]) \/ (~Before(s[i], s[j]) /\ j < i)
    BY <1>3
  <2>4. Before(s[m], s[j]) \/ (~Before(s[j], s[m]) /\ m < j)
    BY <1>3, <2>1
  <2>5. j < i /\ m < j => m < i
    BY <1>4, <2>1
  <2>6. Before(s[m], s[i]) \/ (~Before(s[i], s[m]) /\ m < i)
    BY <2>2, <2>3, <2>4, <2>5, BeforeOrders
  <2> QED
    BY <1>3, <2>1, <2>6
<1>8. IsFiniteSet(D) /\ Cardinality(D) = Len(s)
  <2>1. 1 \in Int /\ Len(s) \in Int
    BY <1>1
  <2>2. IsFiniteSet(1..Len(s)) /\ Cardinality(1..Len(s)) = IF 1 > Len(s) THEN 0 ELSE Len(s) - 1 + 1
    BY ONLY <2>1, FS_Interval
  <2> QED
    BY <1>1, <2>2
<1>9. \A n \in 1..Len(s) : \E i \in D : Cardinality(B[i]) = n - 1
  BY ONLY <1>2, <1>5, <1>6, <1>7, <1>8, Ranks
<1>10. \A n \in 1..Len(s) : \E i \in D : Sorted(s)[n] = s[i] /\ Cardinality(Ahead(s, i)) = n - 1
  <2> SUFFICES ASSUME NEW n \in 1..Len(s)
               PROVE  \E i \in D : Sorted(s)[n] = s[i] /\ Cardinality(Ahead(s, i)) = n - 1
    OBVIOUS
  <2> DEFINE p == CHOOSE i \in D : Cardinality(Ahead(s, i)) = n - 1
  <2>1. p \in D /\ Cardinality(Ahead(s, p)) = n - 1
    BY <1>2, <1>9
  <2>2. Sorted(s)[n] = s[p]
    BY <1>1 DEF Sorted, D
  <2> HIDE DEF p
  <2> QED
    BY <2>1, <2>2
<1>11. Sorted(s) = [n \in 1..Len(s) |-> Sorted(s)[n]]
  BY <1>1 DEF Sorted, D
<1>12. Sorted(s) \in Seq(ToSet(s)) /\ Len(Sorted(s)) = Len(s)
  <2> DEFINE e(n) == Sorted(s)[n]
             T == ToSet(s)
  <2>1. \A n \in 1..Len(s) : e(n) \in T
    BY <1>1, <1>10
  <2> HIDE DEF e, T
  <2>2. [n \in 1..Len(s) |-> e(n)] \in Seq(T)
    BY ONLY <1>1, <2>1, IsASeq
  <2>3. Sorted(s) = [n \in 1..Len(s) |-> e(n)]
    BY <1>11 DEF e
  <2> QED
    BY <1>1, <2>2, <2>3, LenProperties DEF T
<1> QED
  BY <1>10, <1>11, <1>12 DEF D

\* The members of T, each at the place that says how many come before it.
InOrder(T) ==
  [n \in 1..Cardinality(T) |-> CHOOSE x \in T : Cardinality({y \in T : Before(y, x)}) = n - 1]

\* Results of different handles are put into an order that has nothing to do with the
\* one they were in.
LEMMA SortedInOrder ==
  ASSUME NEW R, Rankable(R), OfOthers(R), NEW s \in Seq(R), Once(s)
  PROVE  Sorted(s) = InOrder(ToSet(s))
<1> DEFINE T == ToSet(s)
           B == [x \in T |-> {y \in T : Before(y, x)}]
<1>1. Len(s) \in Nat /\ DOMAIN s = 1..Len(s) /\ \A i \in DOMAIN s : s[i] \in R /\ s[i] \in T
  BY LenProperties DEF ToSet
<1>2. T \subseteq R
  BY <1>1 DEF ToSet
<1>3. IsFiniteSet(T) /\ Cardinality(T) = Len(s)
  BY OnceLength
<1>4. \A x \in T : \E i \in DOMAIN s : s[i] = x
  BY DEF ToSet
<1> HIDE DEF T
<1>5. B \in [T -> SUBSET T] /\ \A x \in T : B[x] = {y \in T : Before(y, x)}
  OBVIOUS
<1> HIDE DEF B
<1>6. /\ \A x \in T : x \notin B[x]
      /\ \A x, y \in T : x # y => x \in B[y] \/ y \in B[x]
      /\ \A x, y \in T : y \in B[x] => B[y] \subseteq B[x]
  <2>1. \A x, y \in T : y \in B[x] <=> Before(y, x)
    BY <1>5
  <2>2. \A x \in T : B[x] \subseteq T
    BY <1>5
  <2> QED
    BY <1>2, <2>1, <2>2, BeforeOrders
<1>7. /\ \A x, y \in T : Cardinality(B[x]) = Cardinality(B[y]) => x = y
      /\ \A n \in 1..Len(s) : \E x \in T : Cardinality(B[x]) = n - 1
  BY ONLY <1>3, <1>5, <1>6, Ranks
<1>8. \A i \in DOMAIN s : Cardinality(Ahead(s, i)) = Cardinality(B[s[i]])
  <2> SUFFICES ASSUME NEW i \in DOMAIN s
               PROVE  Cardinality(Ahead(s, i)) = Cardinality(B[s[i]])
    OBVIOUS
  <2> DEFINE A == Ahead(s, i)
             f == [j \in A |-> s[j]]
  <2>1. \A j \in DOMAIN s : j \in A <=> Before(s[j], s[i])
    <3> SUFFICES ASSUME NEW j \in DOMAIN s
                 PROVE  j \in A <=> Before(s[j], s[i])
      OBVIOUS
    <3>1. j \in A <=> Before(s[j], s[i]) \/ (~Before(s[i], s[j]) /\ j < i)
      BY DEF Ahead
    <3>2. j < i => s[j] # s[i]
      BY <1>1 DEF Once
    <3> QED
      BY <1>1, <3>1, <3>2, BeforeOrders
  <2>2. A \subseteq DOMAIN s
    BY DEF Ahead
  <2> HIDE DEF A
  <2>3. IsFiniteSet(A)
    <3>1. IsFiniteSet(1..Len(s))
      BY <1>1, FS_Interval
    <3>2. A \in SUBSET (1..Len(s))
      BY <1>1, <2>2
    <3> QED BY ONLY <3>1, <3>2, FS_Subset
  <2>4. f \in [A -> B[s[i]]]
    BY <1>1, <1>5, <2>1, <2>2
  <2>5. \A y \in B[s[i]] : \E j \in A : f[j] = y
    BY <1>1, <1>4, <1>5, <2>1
  <2>6. \A j, m \in A : f[j] = f[m] => j = m
    BY <2>2 DEF Once
  <2>7. f \in Bijection(A, B[s[i]])
    BY <2>4, <2>5, <2>6 DEF Bijection, Injection, IsInjective, Surjection
  <2> QED
    BY <2>3, <2>7, FS_Bijection DEF ExistsBijection, A
<1>9. \A n \in 1..Len(s) : Sorted(s)[n] = InOrder(T)[n]
  <2> SUFFICES ASSUME NEW n \in 1..Len(s)
               PROVE  Sorted(s)[n] = InOrder(T)[n]
    OBVIOUS
  <2> DEFINE p == CHOOSE x \in T : Cardinality(B[x]) = n - 1
  <2>1. PICK i \in DOMAIN s : Sorted(s)[n] = s[i] /\ Cardinality(Ahead(s, i)) = n - 1
    BY SortedPlaces
  <2>2. s[i] \in T /\ Cardinality(B[s[i]]) = n - 1
    BY <1>1, <1>8, <2>1
  <2>3. p \in T /\ Cardinality(B[p]) = n - 1
    BY <1>7
  <2>4. InOrder(T)[n] = p
    BY <1>3, <1>5 DEF InOrder
  <2> HIDE DEF p
  <2> QED
    BY <1>7, <2>1, <2>2, <2>3, <2>4
<1>10. Sorted(s) = [n \in 1..Len(s) |-> Sorted(s)[n]]
  BY SortedPlaces
<1>11. InOrder(T) = [n \in 1..Len(s) |-> InOrder(T)[n]]
  <2> DEFINE e(n) == CHOOSE x \in T : Cardinality({y \in T : Before(y, x)}) = n - 1
  <2>1. InOrder(T) = [n \in 1..Len(s) |-> e(n)]
    BY <1>3 DEF InOrder
  <2> HIDE DEF e
  <2> QED
    BY <2>1
<1> QED
  BY <1>9, <1>10, <1>11 DEF T

\* A set of numbers has a least one.
LEMMA Least ==
  ASSUME NEW S \in SUBSET Nat, S # {}
  PROVE  \E n \in S : \A m \in S : n <= m
<1>1. PICK n \in S : \A m \in S : ~ (<<m, n>> \in OpToRel(<, Nat))
  BY WFMin, NatLessThanWellFounded
<1>2. OpToRel(<, Nat) = {p \in Nat \X Nat : p[1] < p[2]}
  BY Zenon DEF OpToRel
<1>3. \A m \in S : ~ (m < n)
  BY <1>1, <1>2
<1> QED
  BY <1>3

Points(h) == Weight[Fields[h[2]]]

LEMMA FieldsWeigh ==
  /\ DOMAIN Fields = 1..5
  /\ Weight[Fields[1]] = 6 /\ Weight[Fields[2]] = 5 /\ Weight[Fields[3]] = 2
  /\ Weight[Fields[4]] = 1 /\ Weight[Fields[5]] = 4 /\ Weight["capability"] = 4
  /\ \A n \in 1..5 : Weight[Fields[n]] \in 1..6
<1>1. DOMAIN Fields = 1..5
  BY DEF Fields
<1>2. /\ Weight[Fields[1]] = 6 /\ Weight[Fields[2]] = 5 /\ Weight[Fields[3]] = 2
      /\ Weight[Fields[4]] = 1 /\ Weight[Fields[5]] = 4 /\ Weight["capability"] = 4
  BY DEF Fields, Weight
<1>3. \A n \in 1..5 : n = 1 \/ n = 2 \/ n = 3 \/ n = 4 \/ n = 5
  OBVIOUS
<1> HIDE DEF Weight, Fields
<1> QED
  BY <1>1, <1>2, <1>3

\* There are finitely many hits, so a score is a number.
LEMMA HitsCounted ==
  ASSUME NEW V, NEW terms \in Seq(V), NEW a
  PROVE  /\ IsFiniteSet(Hits(a, terms))
         /\ \A h \in Hits(a, terms) : h[1] \in Nat /\ h[2] \in 1..5 /\ h = <<h[1], h[2]>>
<1>1. Len(terms) \in Nat /\ DOMAIN terms = 1..Len(terms)
  BY LenProperties
<1>2. IsFiniteSet(1..Len(terms)) /\ IsFiniteSet(1..5)
  <2>1. 1 \in Int /\ 5 \in Int /\ Len(terms) \in Int
    BY <1>1
  <2> QED BY ONLY <2>1, FS_Interval
<1>3. IsFiniteSet((1..Len(terms)) \X (1..5))
  BY <1>2, FS_Product
<1>4. Hits(a, terms) \in SUBSET ((1..Len(terms)) \X (1..5))
  BY <1>1, FieldsWeigh DEF Hits
<1>5. IsFiniteSet(Hits(a, terms))
  BY <1>3, <1>4, FS_Subset
<1> QED
  BY <1>1, <1>4, <1>5

LEMMA ScoreCounts ==
  ASSUME NEW V, NEW terms \in Seq(V), NEW a, NEW wanted
  PROVE  Score(a, terms, wanted) \in Nat
<1> DEFINE of(n) == Cardinality({h \in Hits(a, terms) : h[2] = n})
<1>1. \A n : of(n) \in Nat
  <2> SUFFICES ASSUME NEW n
               PROVE  of(n) \in Nat
    OBVIOUS
  <2> DEFINE H == {h \in Hits(a, terms) : h[2] = n}
  <2>1. H \in SUBSET Hits(a, terms)
    OBVIOUS
  <2> HIDE DEF H
  <2>2. IsFiniteSet(H)
    BY <2>1, HitsCounted, FS_Subset
  <2>3. Cardinality(H) \in Nat
    BY <2>2, FS_CardinalityType
  <2> QED
    BY <2>3 DEF H
<1>2. Score(a, terms, wanted) =
        Weight[Fields[1]] * of(1) + Weight[Fields[2]] * of(2) + Weight[Fields[3]] * of(3)
          + Weight[Fields[4]] * of(4) + Weight[Fields[5]] * of(5)
          + (IF Aligned(a, wanted) THEN Weight["capability"] ELSE 0)
  BY DEF Score
<1>3. Score(a, terms, wanted) =
        6 * of(1) + 5 * of(2) + 2 * of(3) + 1 * of(4) + 4 * of(5) + (IF Aligned(a, wanted) THEN 4 ELSE 0)
  BY <1>2, FieldsWeigh
<1>4. of(1) \in Nat /\ of(2) \in Nat /\ of(3) \in Nat /\ of(4) \in Nat /\ of(5) \in Nat
  BY <1>1
<1> HIDE DEF of
<1> DEFINE shared == IF Aligned(a, wanted) THEN 4 ELSE 0
<1>5. shared \in Nat
  OBVIOUS
<1>6. Score(a, terms, wanted) = 6 * of(1) + 5 * of(2) + 2 * of(3) + 1 * of(4) + 4 * of(5) + shared
  BY <1>3
<1> HIDE DEF shared
<1>7. ASSUME NEW m \in Nat, NEW n \in Nat, NEW i \in Nat, NEW j \in Nat, NEW h \in Nat, NEW g \in Nat
      PROVE  6 * m + 5 * n + 2 * i + 1 * j + 4 * h + g \in Nat
  OBVIOUS
<1>8. 6 * of(1) + 5 * of(2) + 2 * of(3) + 1 * of(4) + 4 * of(5) + shared \in Nat
  BY ONLY <1>4, <1>5, <1>7
<1> QED
  BY ONLY <1>6, <1>8

\* Of the hits one is the weightiest, and the first of those.
LEMMA OneExplains ==
  ASSUME NEW V, NEW terms \in Seq(V), NEW a, Hits(a, terms) # {}
  PROVE  \E h \in Hits(a, terms) : Explains(h, Hits(a, terms))
<1> DEFINE H == Hits(a, terms)
<1>1. \A h \in H : h[1] \in Nat /\ h[2] \in 1..5 /\ Points(h) \in 1..6
  BY HitsCounted, FieldsWeigh DEF Points
<1>2. H # {}
  OBVIOUS
<1> HIDE DEF H
<1> DEFINE light == {6 - Points(h) : h \in H}
<1>3. PICK n \in light : \A m \in light : n <= m
  <2>1. light \in SUBSET Nat /\ light # {}
    BY <1>1, <1>2
  <2> HIDE DEF light
  <2> QED
    BY <2>1, Least
<1>4. PICK g \in H : n = 6 - Points(g)
  BY <1>3
<1>5. \A h \in H : Points(h) <= Points(g)
  <2> SUFFICES ASSUME NEW h \in H
               PROVE  Points(h) <= Points(g)
    OBVIOUS
  <2>1. n <= 6 - Points(h)
    BY <1>3
  <2>2. Points(h) \in Int /\ Points(g) \in Int
    BY <1>1, <1>4
  <2> QED
    BY <1>4, <2>1, <2>2
<1> DEFINE top == {h \in H : Points(h) = Points(g)}
           places == {h[1] : h \in top}
<1>6. PICK i \in places : \A m \in places : i <= m
  <2>1. places \in SUBSET Nat /\ places # {}
    BY <1>1, <1>4
  <2> HIDE DEF places
  <2> QED
    BY <2>1, Least
<1> DEFINE fields == {h[2] : h \in {x \in top : x[1] = i}}
<1>7. PICK f \in fields : \A m \in fields : f <= m
  <2>1. fields \in SUBSET Nat /\ fields # {}
    BY <1>1, <1>6
  <2> HIDE DEF fields
  <2> QED
    BY <2>1, Least
<1>8. PICK h \in top : h[1] = i /\ h[2] = f
  BY <1>7
<1>9. Explains(h, H)
  <2> SUFFICES ASSUME NEW x \in H
               PROVE  \/ Points(h) > Points(x)
                      \/ Points(h) = Points(x) /\ (h[1] < x[1] \/ (h[1] = x[1] /\ h[2] <= x[2]))
    BY DEF Explains, Points
  <2>1. Points(x) <= Points(h) /\ h \in H
    BY <1>5, <1>8
  <2>2. CASE x \notin top
    BY <1>1, <1>8, <2>1, <2>2
  <2>3. CASE x \in top
    <3>1. Points(h) = Points(x)
      BY <1>8, <2>3
    <3>2. h[1] <= x[1]
      BY <1>6, <1>8, <2>3
    <3>3. x[1] = h[1] => h[2] <= x[2]
      BY <1>7, <1>8, <2>3
    <3> QED
      BY <1>1, <2>1, <3>1, <3>2, <3>3
  <2> QED
    BY <2>2, <2>3
<1> QED
  BY <1>8, <1>9 DEF H

LEMMA TermsListed ==
  ASSUME NEW q, q \in Seq(ToSet(q))
  PROVE  QueryTerms(q) \in Seq(ToSet(q))
BY Selects DEF QueryTerms

\* What a search for q says of an agent.
Result(a, q) ==
  [agent |-> a, score |-> Score(a, QueryTerms(q), QueryCategories(QueryTerms(q))),
   why |-> Why(a, QueryTerms(q), QueryCategories(QueryTerms(q)))]

\* The results a search of a set of agents keeps.
Kept(A, q, facets) ==
  {r \in {Result(a, q) : a \in {x \in A : InFacets(x, facets)}} : QueryTerms(q) = <<>> \/ r.score > 0}

LEMMA KeptRankable ==
  ASSUME NEW c, IsCatalog(c), NEW q, q \in Seq(ToSet(q))
  PROVE  /\ Rankable({Result(a, q) : a \in ToSet(c)})
         /\ NamesEachOnce(c) => OfOthers({Result(a, q) : a \in ToSet(c)})
<1>1. \A a \in ToSet(c) : a.handle \in Int /\ a.price \in Int \cup {NoPrice}
  BY DEF IsCatalog, ToSet
<1>2. NamesEachOnce(c) => \A a, b \in ToSet(c) : a.handle = b.handle => a = b
  BY DEF NamesEachOnce, ToSet
<1>3. \A a : Result(a, q).agent = a /\ Result(a, q).score \in Int
  <2>1. \A a : Score(a, QueryTerms(q), QueryCategories(QueryTerms(q))) \in Nat
    BY TermsListed, ScoreCounts
  <2> QED
    BY <2>1 DEF Result
<1>4. Rankable({Result(a, q) : a \in ToSet(c)})
  BY <1>1, <1>3 DEF Rankable
<1>5. NamesEachOnce(c) => OfOthers({Result(a, q) : a \in ToSet(c)})
  BY <1>2, <1>3 DEF OfOthers
<1> QED
  BY <1>4, <1>5

\* A search returns what it keeps, in the order of compareRanked when the catalog
\* names each agent once, and its note is about the agents it looked at.
LEMMA SearchKeeps ==
  ASSUME NEW c, IsCatalog(c), NEW q, q \in Seq(ToSet(q)), NEW facets
  PROVE  /\ NamesEachOnce(c) =>
              SearchCatalog(c, q, facets).results = InOrder(Kept(ToSet(c), q, facets))
         /\ SearchCatalog(c, q, facets).results \in Seq(Kept(ToSet(c), q, facets))
         /\ SearchCatalog(c, q, facets).note =>
              \A a \in ToSet(c) : InFacets(a, facets) => ~ModelMatches(a, ModelAsked(q))
<1> DEFINE A == ToSet(c)
           R == {Result(a, q) : a \in A}
           terms == QueryTerms(q)
           inside == {a \in A : InFacets(a, facets)}
           uni == Only(c, inside)
           ranked == [i \in DOMAIN uni |-> Result(uni[i], q)]
           kept == IF terms = <<>> THEN ranked ELSE Only(ranked, {r \in ToSet(ranked) : r.score > 0})
<1>1. /\ SearchCatalog(c, q, facets).results = Sorted(kept)
      /\ SearchCatalog(c, q, facets).note =>
           \A a \in ToSet(uni) : ~ModelMatches(a, ModelAsked(q))
  BY DEF SearchCatalog, Result
<1>2. c \in Seq(A) /\ (NamesEachOnce(c) => Once(c))
  BY DEF IsCatalog, NamesEachOnce, Once
<1>3. uni \in Seq(A) /\ ToSet(uni) = A \cap inside /\ (Once(c) => Once(uni))
  BY ONLY <1>2, Selects
<1>4. ToSet(uni) = inside
  BY <1>3
<1>5. Rankable(R) /\ (NamesEachOnce(c) => OfOthers(R))
  BY KeptRankable
<1>6. \A a : Result(a, q).agent = a
  BY DEF Result
<1>7. Len(uni) \in Nat /\ DOMAIN uni = 1..Len(uni) /\ \A i \in DOMAIN uni : uni[i] \in A
  BY ONLY <1>3, LenProperties
<1>8. ranked \in Seq(R) /\ (Once(uni) => Once(ranked)) /\ ToSet(ranked) = {Result(a, q) : a \in inside}
  <2> DEFINE e(n) == Result(uni[n], q)
  <2>1. \A n \in 1..Len(uni) : e(n) \in R
    BY <1>7
  <2>2. ranked = [n \in 1..Len(uni) |-> e(n)]
    BY <1>7
  <2> HIDE DEF e, R
  <2>3. [n \in 1..Len(uni) |-> e(n)] \in Seq(R)
    BY ONLY <1>7, <2>1, IsASeq
  <2>4. ranked \in Seq(R)
    BY <2>2, <2>3
  <2> HIDE DEF uni
  <2>5. Once(uni) => Once(ranked)
    BY <1>6 DEF Once
  <2> HIDE DEF inside
  <2>6. ToSet(ranked) = {Result(a, q) : a \in inside}
    BY <1>4 DEF ToSet
  <2> QED
    BY <2>4, <2>5, <2>6
<1> DEFINE K == Kept(A, q, facets)
<1>9. K = {r \in {Result(a, q) : a \in inside} : terms = <<>> \/ r.score > 0}
  BY DEF Kept
<1> HIDE DEF ranked, R, inside, uni
<1>10. kept \in Seq(R) /\ (Once(ranked) => Once(kept)) /\ ToSet(kept) = K
  <2>1. CASE terms = <<>>
    BY <1>8, <1>9, <2>1
  <2>2. CASE terms # <<>>
    <3> DEFINE P == {r \in ToSet(ranked) : r.score > 0}
    <3>1. /\ Only(ranked, P) \in Seq(R) /\ ToSet(Only(ranked, P)) = ToSet(ranked) \cap P
          /\ Once(ranked) => Once(Only(ranked, P))
      BY ONLY <1>8, Selects
    <3>2. ToSet(ranked) \cap P = K
      BY <1>8, <1>9, <2>2
    <3> QED
      BY <2>2, <3>1, <3>2
  <2> QED
    BY <2>1, <2>2
<1> HIDE DEF kept, K
<1>11. Sorted(kept) \in Seq(K)
  BY <1>5, <1>10, SortedPlaces
<1>12. ASSUME NamesEachOnce(c)
       PROVE  Sorted(kept) = InOrder(K)
  <2>1. Once(kept)
    BY <1>2, <1>3, <1>8, <1>10, <1>12
  <2> QED
    BY <1>5, <1>10, <1>12, <2>1, SortedInOrder
<1>13. \A a \in A : InFacets(a, facets) => a \in ToSet(uni)
  BY <1>4 DEF inside
<1> QED
  BY <1>1, <1>11, <1>12, <1>13 DEF K

\* The order of a result is that of the agents, never of the scan.
LEMMA OrderKept ==
  ASSUME NEW c, IsCatalog(c), NEW q, q \in Seq(ToSet(q))
  PROVE  RankingIgnoresScanOrder(c, q)
<1> DEFINE A == ToSet(c)
<1> SUFFICES ASSUME NamesEachOnce(c), NEW d \in SetToSeqs(A)
             PROVE  /\ SearchCatalog(d, q, NoFacets).results = SearchCatalog(c, q, NoFacets).results
                    /\ \/ SearchCatalog(c, q, NoFacets).results = <<>>
                       \/ ChooseSpecialist(d, q, <<>>) = ChooseSpecialist(c, q, <<>>)
  BY DEF RankingIgnoresScanOrder
<1>1. Once(c)
  BY DEF NamesEachOnce, Once
<1>2. c \in Seq(A)
  BY DEF IsCatalog
<1>3. IsFiniteSet(A) /\ Cardinality(A) \in Nat
  BY <1>1, <1>2, OnceLength, FS_CardinalityType
<1> HIDE DEF A
<1>4. d \in [1..Cardinality(A) -> A] /\ \A i, j \in 1..Cardinality(A) : i # j => d[i] # d[j]
  BY DEF SetToSeqs
<1>5. ToSet(d) = A
  <2>1. \A x \in A : \E i \in 1..Cardinality(A) : d[i] = x
    <3> DEFINE N == Cardinality(A)
    <3>1. IsFiniteSet(1..N) /\ Cardinality(1..N) = N
      BY <1>3, FS_Interval
    <3>2. d \in Injection(1..N, A)
      BY <1>4 DEF Injection, IsInjective
    <3>3. d \in Surjection(1..N, A)
      BY <1>3, <3>1, <3>2, FS_Injection
    <3> QED
      BY <3>3 DEF Surjection
  <2> QED
    BY <1>4, <2>1 DEF ToSet
<1>6. IsCatalog(d) /\ NamesEachOnce(d)
  <2>1. d \in Seq(A)
    <3> DEFINE e(n) == d[n]
    <3>1. \A n \in 1..Cardinality(A) : e(n) \in A
      BY <1>4
    <3>2. d = [n \in 1..Cardinality(A) |-> e(n)]
      BY <1>4
    <3> HIDE DEF e
    <3>3. [n \in 1..Cardinality(A) |-> e(n)] \in Seq(A)
      BY ONLY <1>3, <3>1, IsASeq
    <3> QED
      BY <3>2, <3>3
  <2>2. DOMAIN d = 1..Cardinality(A)
    BY <1>4
  <2>3. \A x \in A : x.handle \in Int /\ x.price \in Int \cup {NoPrice}
    BY DEF A, IsCatalog, ToSet
  <2>4. \A x, y \in A : x.handle = y.handle => x = y
    BY DEF A, NamesEachOnce, ToSet
  <2> QED
    BY <1>4, <1>5, <2>1, <2>2, <2>3, <2>4 DEF IsCatalog, NamesEachOnce
<1>7. SearchCatalog(d, q, NoFacets).results = SearchCatalog(c, q, NoFacets).results
  BY <1>5, <1>6, SearchKeeps DEF A
<1>8. ASSUME SearchCatalog(c, q, NoFacets).results # <<>>
      PROVE  ChooseSpecialist(d, q, <<>>) = ChooseSpecialist(c, q, <<>>)
  <2>1. q \o <<>> = q
    BY ConcatEmptySeq
  <2>2. A # {}
    <3> SUFFICES ASSUME A = {}
                 PROVE  FALSE
      OBVIOUS
    <3>1. Kept({}, q, NoFacets) = {}
      BY DEF Kept
    <3>2. SearchCatalog(c, q, NoFacets).results \in Seq({})
      BY <3>1, SearchKeeps DEF A
    <3> QED
      BY <1>8, <3>2
  <2>3. c # <<>> /\ d # <<>>
    <3>1. ToSet(<<>>) = {}
      BY DEF ToSet
    <3> QED
      BY <1>5, <2>2, <3>1 DEF A
  <2> QED
    BY <1>7, <1>8, <2>1, <2>3 DEF ChooseSpecialist
<1> QED
  BY <1>7, <1>8

\* A reply that says the model cannot be told explains no result by it.
LEMMA NoteHonest ==
  ASSUME NEW c, IsCatalog(c), NEW q, q \in Seq(ToSet(q)), NEW facets
  PROVE  ModelNoteIsHonest(c, q, facets)
<1> DEFINE result == SearchCatalog(c, q, facets)
           terms == QueryTerms(q)
           K == Kept(ToSet(c), q, facets)
<1> SUFFICES ASSUME result.note, NEW r \in ToSet(result.results),
                    r.why.field = "model", r.why.term = ModelAsked(q)
             PROVE  FALSE
  BY DEF ModelNoteIsHonest
<1>1. r \in K
  <2>1. result.results \in Seq(K)
    BY SearchKeeps
  <2> HIDE DEF result, K
  <2> QED
    BY <2>1, LenProperties DEF ToSet
<1>2. PICK a \in ToSet(c) : InFacets(a, facets) /\ r = Result(a, q)
  BY <1>1 DEF Kept
<1>3. ~ModelMatches(a, ModelAsked(q))
  BY <1>2, SearchKeeps
<1> HIDE DEF result, K
<1> DEFINE wanted == QueryCategories(terms)
           hits == Hits(a, terms)
           best == CHOOSE h \in hits : Explains(h, hits)
<1>4. r.why = Why(a, terms, wanted)
  BY <1>2 DEF Result
<1>5. hits # {} /\ r.why = [field |-> Fields[best[2]], term |-> terms[best[1]]]
  <2>1. CASE hits # {} /\ ~(Aligned(a, wanted) /\ Weight[Fields[best[2]]] < Weight["capability"])
    BY <1>4, <2>1 DEF Why
  <2>2. CASE ~(hits # {} /\ ~(Aligned(a, wanted) /\ Weight[Fields[best[2]]] < Weight["capability"]))
    <3>1. r.why = [field |-> IF Aligned(a, wanted) THEN "capability" ELSE "listed", term |-> <<>>]
      BY <1>4, <2>2 DEF Why
    <3>2. r.why.field \in {"capability", "listed"}
      BY <3>1
    <3> QED
      BY <3>2
  <2> QED
    BY <2>1, <2>2
<1>6. best \in hits
  <2>1. \E h \in hits : Explains(h, hits)
    BY <1>5, TermsListed, OneExplains
  <2> QED
    BY <2>1
<1> HIDE DEF best
<1>7. TermHits(FieldText(a)[Fields[best[2]]], terms[best[1]])
  BY <1>6 DEF Hits
<1>8. Fields[best[2]] = "model" /\ terms[best[1]] = ModelAsked(q)
  BY <1>5
<1>9. TermHits(FieldText(a)["model"], ModelAsked(q))
  BY <1>7, <1>8
<1>10. FieldText(a)["model"] = IF a.model = NoModel THEN {} ELSE a.model
  BY DEF FieldText
<1>11. a.model # NoModel
  BY <1>9, <1>10 DEF TermHits
<1> QED
  BY <1>3, <1>9, <1>10, <1>11 DEF ModelMatches

\* The categories of an agent: those its tags name if any, else those its
\* description names, else "other".
LEMMA Categories ==
  ASSUME NEW a
  PROVE  /\ ToSet(Categorize(a)) # {}
         /\ ToSet(Categorize(a)) \subseteq ToSet(Taxonomy) \cup {"other"}
         /\ TagCategories(a) # {} => ToSet(Categorize(a)) = TagCategories(a)
<1>1. TagCategories(a) \subseteq ToSet(Taxonomy) /\ FoundCategories(a) \subseteq ToSet(Taxonomy)
  BY DEF TagCategories, DescCategories, FoundCategories
<1>2. TagCategories(a) # {} => FoundCategories(a) = TagCategories(a)
  BY DEF FoundCategories
<1>3. CASE FoundCategories(a) = {}
  <2>1. Categorize(a) = <<"other">>
    BY <1>3 DEF Categorize
  <2>2. ToSet(<<"other">>) = {"other"}
    BY DEF ToSet
  <2> QED
    BY <1>2, <1>3, <2>1, <2>2
<1>4. CASE FoundCategories(a) # {}
  <2>1. Categorize(a) = Only(Taxonomy, FoundCategories(a))
    BY <1>4 DEF Categorize
  <2>2. ToSet(Categorize(a)) = ToSet(Taxonomy) \cap FoundCategories(a)
    BY <2>1, QueryAssumption, Selects
  <2> QED
    BY <1>1, <1>2, <1>4, <2>2
<1> QED
  BY <1>3, <1>4

\* The overview files every agent, and under its tags' categories when they name any.
LEMMA AllFiled ==
  ASSUME NEW c, IsCatalog(c)
  PROVE  OverviewCovers(c)
<1> DEFINE A == ToSet(c)
           heads == Append(Taxonomy, "other")
           bucket == [i \in DOMAIN heads |-> Bucket(c, heads[i])]
           some == {b \in ToSet(bucket) : b.handles # <<>>}
<1>1. c \in Seq(A)
  BY DEF IsCatalog
<1>2. heads \in Seq(ToSet(Taxonomy) \cup {"other"})
  <2>1. Taxonomy \in Seq(ToSet(Taxonomy))
    BY QueryAssumption
  <2>2. Taxonomy \in Seq(ToSet(Taxonomy) \cup {"other"})
    BY <2>1, SeqMonotonic
  <2> QED
    BY <2>2
<1>3. ToSet(heads) = ToSet(Taxonomy) \cup {"other"}
  <2>1. Len(Taxonomy) \in Nat /\ DOMAIN Taxonomy = 1..Len(Taxonomy)
    BY QueryAssumption, LenProperties
  <2>2. /\ DOMAIN heads = 1..(Len(Taxonomy) + 1)
        /\ \A i \in 1..Len(Taxonomy) : heads[i] = Taxonomy[i]
        /\ heads[Len(Taxonomy) + 1] = "other"
    <3>1. Taxonomy \in Seq(ToSet(Taxonomy))
      BY QueryAssumption
    <3> QED
      BY <2>1, <3>1
  <2> HIDE DEF heads
  <2>3. \A x \in ToSet(heads) : x \in ToSet(Taxonomy) \cup {"other"}
    BY <2>1, <2>2 DEF ToSet
  <2>4. \A x \in ToSet(Taxonomy) : x \in ToSet(heads)
    BY <2>1, <2>2 DEF ToSet
  <2>5. "other" \in ToSet(heads)
    BY <2>1, <2>2 DEF ToSet
  <2> QED
    BY <2>3, <2>4, <2>5
<1> HIDE DEF heads
<1>4. \A n : LET in == Only(c, {a \in A : n \in ToSet(Categorize(a))})
             IN  /\ Bucket(c, n) = [category |-> n, handles |-> [i \in DOMAIN in |-> in[i].handle]]
                 /\ ToSet(in) = {a \in A : n \in ToSet(Categorize(a))}
  <2> SUFFICES ASSUME NEW n
               PROVE  LET in == Only(c, {a \in A : n \in ToSet(Categorize(a))})
                      IN  /\ Bucket(c, n) = [category |-> n, handles |-> [i \in DOMAIN in |-> in[i].handle]]
                          /\ ToSet(in) = {a \in A : n \in ToSet(Categorize(a))}
    OBVIOUS
  <2> DEFINE members == {a \in A : n \in ToSet(Categorize(a))}
  <2>1. ToSet(Only(c, members)) = A \cap members
    BY ONLY <1>1, Selects
  <2>2. A \cap members = members
    OBVIOUS
  <2> QED
    BY <2>1, <2>2 DEF Bucket
<1>5. \A n, a : a \in A =>
        /\ n \in ToSet(Categorize(a)) => a.handle \in ToSet(Bucket(c, n).handles)
        /\ NamesEachOnce(c) /\ a.handle \in ToSet(Bucket(c, n).handles) => n \in ToSet(Categorize(a))
  <2> SUFFICES ASSUME NEW n, NEW a \in A
               PROVE  /\ n \in ToSet(Categorize(a)) => a.handle \in ToSet(Bucket(c, n).handles)
                      /\ NamesEachOnce(c) /\ a.handle \in ToSet(Bucket(c, n).handles) => n \in ToSet(Categorize(a))
    OBVIOUS
  <2> DEFINE members == {x \in A : n \in ToSet(Categorize(x))}
             in == Only(c, members)
  <2>1. Bucket(c, n).handles = [i \in DOMAIN in |-> in[i].handle] /\ ToSet(in) = members
    BY <1>4
  <2> HIDE DEF in
  <2>2. a.handle \in ToSet(Bucket(c, n).handles) <=> \E x \in ToSet(in) : x.handle = a.handle
    BY <2>1 DEF ToSet
  <2>3. NamesEachOnce(c) => \A x \in A : x.handle = a.handle => x = a
    BY DEF NamesEachOnce, ToSet
  <2> QED
    BY <2>1, <2>2, <2>3
<1>6. \A n : Bucket(c, n).category = n
  BY DEF Bucket
<1>7. bucket \in Seq(ToSet(bucket)) /\ ToSet(bucket) = {Bucket(c, n) : n \in ToSet(heads)}
  <2>1. Len(heads) \in Nat /\ DOMAIN heads = 1..Len(heads)
    BY <1>2, LenProperties
  <2> DEFINE e(n) == Bucket(c, heads[n])
             set == ToSet(bucket)
  <2>2. bucket = [n \in 1..Len(heads) |-> e(n)]
    BY <2>1
  <2>3. \A n \in 1..Len(heads) : e(n) \in set
    BY <2>1 DEF ToSet
  <2>4. ToSet(bucket) = {Bucket(c, n) : n \in ToSet(heads)}
    BY DEF ToSet
  <2> HIDE DEF e, set
  <2>5. [n \in 1..Len(heads) |-> e(n)] \in Seq(set)
    BY ONLY <2>1, <2>3, IsASeq
  <2> HIDE DEF bucket
  <2> QED
    BY <2>2, <2>4, <2>5 DEF set
<1>8. CategorizeCatalog(c) = Only(bucket, some)
  BY DEF CategorizeCatalog, heads
<1> HIDE DEF bucket
<1>9. ToSet(CategorizeCatalog(c)) = some
  <2> HIDE DEF some
  <2>1. ToSet(Only(bucket, some)) = ToSet(bucket) \cap some
    BY ONLY <1>7, Selects
  <2> QED
    BY <1>8, <2>1 DEF some
<1>10. \A x : x \in some <=> \E n \in ToSet(heads) : x = Bucket(c, n) /\ Bucket(c, n).handles # <<>>
  BY <1>7
<1> HIDE DEF some
<1> SUFFICES ASSUME NEW a \in A
             PROVE  LET filed == {b.category : b \in {x \in ToSet(CategorizeCatalog(c)) : a.handle \in ToSet(x.handles)}}
                    IN  /\ filed # {}
                        /\ NamesEachOnce(c) /\ TagCategories(a) # {} => filed = TagCategories(a)
  BY DEF OverviewCovers
<1> DEFINE filed == {b.category : b \in {x \in ToSet(CategorizeCatalog(c)) : a.handle \in ToSet(x.handles)}}
<1>11. ToSet(<<>>) = {}
  BY DEF ToSet
<1>12. \A n : /\ n \in ToSet(Categorize(a)) => n \in filed
              /\ NamesEachOnce(c) /\ n \in filed => n \in ToSet(Categorize(a))
  <2> SUFFICES ASSUME NEW n
               PROVE  /\ n \in ToSet(Categorize(a)) => n \in filed
                      /\ NamesEachOnce(c) /\ n \in filed => n \in ToSet(Categorize(a))
    OBVIOUS
  <2>1. NamesEachOnce(c) /\ n \in filed => n \in ToSet(Categorize(a))
    BY <1>5, <1>6, <1>9, <1>10
  <2>2. ASSUME n \in ToSet(Categorize(a))
        PROVE  n \in filed
    <3>1. n \in ToSet(heads)
      BY <1>3, <2>2, Categories
    <3>2. a.handle \in ToSet(Bucket(c, n).handles)
      BY <1>5, <2>2
    <3>3. Bucket(c, n).handles # <<>>
      BY <1>11, <3>2
    <3>4. Bucket(c, n) \in ToSet(CategorizeCatalog(c))
      BY <1>9, <1>10, <3>1, <3>3
    <3> QED
      BY <1>6, <3>2, <3>4
  <2> QED
    BY <2>1, <2>2
<1> HIDE DEF filed
<1>13. filed # {}
  <2>1. PICK n : n \in ToSet(Categorize(a))
    BY Categories
  <2>2. n \in filed
    BY <1>12, <2>1
  <2> QED
    BY <2>2
<1>14. ASSUME NamesEachOnce(c)
       PROVE  filed = ToSet(Categorize(a))
  <2>1. \A n : n \in filed <=> n \in ToSet(Categorize(a))
    BY <1>12, <1>14
  <2> QED
    BY <2>1
<1> QED
  BY <1>13, <1>14, Categories DEF filed

\* The first m of a sequence, or all of it.
Upto(s, m) == SubSeq(s, 1, IF m < Len(s) THEN m ELSE Len(s))
\* The page of some length that begins after the first m.
PageAfter(s, m, size) == SubSeq(s, m + 1, IF m + size < Len(s) THEN m + size ELSE Len(s))

LEMMA PageGlued ==
  ASSUME NEW V, NEW s \in Seq(V), NEW m \in Nat, NEW size \in Nat \ {0}
  PROVE  /\ Upto(s, m) \in Seq(V)
         /\ Upto(s, m) \o PageAfter(s, m, size) = Upto(s, m + size)
<1> DEFINE last == IF m + size < Len(s) THEN m + size ELSE Len(s)
<1>1. Len(s) \in Nat /\ SubSeq(s, 1, Len(s)) = s
  BY LenProperties, SubSeqFull
<1>2. CASE m <= Len(s)
  <2>1. Upto(s, m) = SubSeq(s, 1, m)
    <3> DEFINE n == Len(s)
    <3>1. n \in Nat /\ m <= n
      BY <1>1, <1>2
    <3> HIDE DEF n, last
    <3>2. m < n \/ m = n
      BY ONLY m \in Nat, <3>1
    <3> QED
      BY <3>2 DEF Upto, n
  <2>2. SubSeq(s, 1, m) \in Seq(V)
    BY <1>1, <1>2
  <2>3. 1 \in 1..(Len(s) + 1) /\ m \in (1 - 1)..Len(s) /\ last \in m..Len(s)
    BY <1>1, <1>2
  <2> HIDE DEF last
  <2>4. SubSeq(s, 1, m) \o SubSeq(s, m + 1, last) = SubSeq(s, 1, last)
    BY ONLY s \in Seq(V), <2>3, ConcatAdjacentSubSeq
  <2>5. Upto(s, m + size) = SubSeq(s, 1, last) /\ PageAfter(s, m, size) = SubSeq(s, m + 1, last)
    BY DEF Upto, PageAfter, last
  <2> QED
    BY <2>1, <2>2, <2>4, <2>5
<1>3. CASE m > Len(s)
  <2>1. Upto(s, m) = s /\ Upto(s, m + size) = s
    <3>1. ~(m < Len(s)) /\ ~(m + size < Len(s))
      BY <1>1, <1>3
    <3> QED
      BY <1>1, <3>1 DEF Upto
  <2>2. PageAfter(s, m, size) = SubSeq(s, m + 1, Len(s))
    BY <1>1, <1>3 DEF PageAfter
  <2>3. SubSeq(s, m + 1, Len(s)) = <<>>
    BY <1>1, <1>3, SubSeqEmpty
  <2> QED
    BY <2>1, <2>2, <2>3, ConcatEmptySeq
<1> QED
  BY <1>1, <1>2, <1>3

\* One page after the other, up to one that begins past the end, is the whole.
LEMMA PagesGlued ==
  ASSUME NEW V, NEW s \in Seq(V), NEW size \in Nat \ {0},
         NEW pages, pages = [n \in 1..(Len(s) + 1) |-> PageAfter(s, (n - 1) * size, size)]
  PROVE  FlattenSeq(pages) = s
<1> DEFINE N == Len(s) + 1
           g == [i \in 1..N |-> Upto(s, i * size)]
           F(h) == [i \in 1..N |-> IF i = 1 THEN pages[i] ELSE h[i - 1] \o pages[i]]
           f == CHOOSE h : h = F(h)
<1>1. Len(s) \in Nat /\ N \in Nat /\ N >= 1 /\ SubSeq(s, 1, Len(s)) = s
  BY LenProperties, SubSeqFull
<1>2. Len(pages) = N
  <2> DEFINE e(n) == PageAfter(s, (n - 1) * size, size)
  <2>1. pages = [n \in 1..N |-> e(n)]
    OBVIOUS
  <2> HIDE DEF e, N
  <2> QED
    BY <1>1, <2>1
<1>3. \A i \in 1..N : pages[i] = PageAfter(s, (i - 1) * size, size)
  OBVIOUS
<1>4. FlattenSeq(pages) = f[N]
  <2>1. Len(pages) # 0
    BY <1>1, <1>2
  <2> HIDE DEF N
  <2> QED
    BY <1>2, <2>1 DEF FlattenSeq
<1>5. \A i \in 1..N : (i - 1) * size \in Nat /\ (i - 1) * size + size = i * size /\ i * size >= i
  <2> SUFFICES ASSUME NEW i \in 1..N
               PROVE  (i - 1) * size \in Nat /\ (i - 1) * size + size = i * size /\ i * size >= i
    OBVIOUS
  <2>1. i \in Nat /\ i >= 1
    BY <1>1
  <2>2. (i - 1) * size \in Nat
    BY <2>1
  <2>3. (i - 1) * size + size = i * size
    BY <2>1
  <2>4. i * size >= i
    BY <2>1
  <2> QED
    BY <2>2, <2>3, <2>4
<1>6. pages[1] = Upto(s, 1 * size)
  <2>1. pages[1] = PageAfter(s, (1 - 1) * size, size)
    BY <1>1, <1>3
  <2>2. (1 - 1) * size = 0 /\ 0 + 1 = 1 /\ 0 + size = size /\ 1 * size = size
    OBVIOUS
  <2> QED
    BY <2>1, <2>2 DEF PageAfter, Upto
<1>7. \A i \in 1..N : i # 1 => Upto(s, (i - 1) * size) \o pages[i] = Upto(s, i * size)
  <2> SUFFICES ASSUME NEW i \in 1..N
               PROVE  Upto(s, (i - 1) * size) \o pages[i] = Upto(s, i * size)
    OBVIOUS
  <2> DEFINE m == (i - 1) * size
  <2>1. m \in Nat /\ m + size = i * size /\ pages[i] = PageAfter(s, m, size)
    BY <1>3, <1>5
  <2> HIDE DEF m
  <2>2. Upto(s, m) \o PageAfter(s, m, size) = Upto(s, m + size)
    BY ONLY s \in Seq(V), size \in Nat \ {0}, <2>1, PageGlued
  <2> QED
    BY <2>1, <2>2 DEF m
<1>8. \A i \in 1..N : i # 1 => i - 1 \in 1..N
  BY <1>1
<1>9. \A i \in 1..N : g[i] = Upto(s, i * size)
  OBVIOUS
<1> HIDE DEF N
<1>10. \A i \in 1..N : g[i] = IF i = 1 THEN pages[i] ELSE g[i - 1] \o pages[i]
  <2> HIDE DEF g
  <2> QED
    BY <1>6, <1>7, <1>8, <1>9
<1>11. g = F(g)
  <2> DEFINE e(i) == IF i = 1 THEN pages[i] ELSE g[i - 1] \o pages[i]
  <2>1. F(g) = [i \in 1..N |-> e(i)]
    OBVIOUS
  <2>2. \A i \in 1..N : g[i] = e(i)
    BY <1>10
  <2>3. g = [i \in 1..N |-> g[i]]
    OBVIOUS
  <2> HIDE DEF e, g, F
  <2> QED
    BY <2>1, <2>2, <2>3
<1>12. f = F(f)
  <2> HIDE DEF g, F
  <2> QED
    BY <1>11
<1> HIDE DEF f, g
<1>13. \A i \in 1..N : f[i] = IF i = 1 THEN pages[i] ELSE f[i - 1] \o pages[i]
  BY <1>12
<1>14. \A i \in 1..N : f[i] = g[i]
  <2> DEFINE wrong == {i \in 1..N : f[i] # g[i]}
  <2> SUFFICES ASSUME wrong # {}
               PROVE  FALSE
    OBVIOUS
  <2>1. wrong \in SUBSET Nat
    BY <1>1
  <2> HIDE DEF wrong
  <2>2. PICK i \in wrong : \A j \in wrong : i <= j
    BY <2>1, Least
  <2>3. i \in 1..N /\ f[i] # g[i]
    BY DEF wrong
  <2>4. CASE i = 1
    BY <1>10, <1>13, <2>3, <2>4
  <2>5. CASE i # 1
    <3>1. i - 1 \in 1..N /\ i - 1 < i /\ ~(i <= i - 1)
      BY <1>1, <1>8, <2>3, <2>5
    <3>2. f[i - 1] = g[i - 1]
      BY <2>2, <3>1 DEF wrong
    <3> QED
      BY ONLY <1>10, <1>13, <2>3, <2>5, <3>2
  <2> QED
    BY <2>4, <2>5
<1>15. N \in 1..N /\ N * size >= N
  BY <1>1, <1>5
<1>16. g[N] = s
  <2>1. g[N] = Upto(s, N * size)
    BY <1>9, <1>15
  <2>2. N * size \in Int /\ ~(N * size < Len(s))
    BY <1>1, <1>15 DEF N
  <2> QED
    BY <1>1, <2>1, <2>2 DEF Upto
<1> QED
  BY <1>4, <1>14, <1>15, <1>16

LEMMA TaggedCatalog ==
  ASSUME NEW c, IsCatalog(c), NEW tag
  PROVE  IsCatalog(Tagged(c, tag))
<1>1. CASE tag = Nothing
  BY <1>1 DEF Tagged
<1>2. CASE tag # Nothing
  <2> DEFINE members == {a \in ToSet(c) : tag \in a.tags}
             d == Only(c, members)
  <2>1. c \in Seq(ToSet(c))
    BY DEF IsCatalog
  <2>2. d \in Seq(ToSet(c))
    BY ONLY <2>1, Selects
  <2>3. Tagged(c, tag) = d
    BY <1>2 DEF Tagged
  <2> HIDE DEF d
  <2>4. Len(d) \in Nat /\ DOMAIN d = 1..Len(d) /\ \A i \in DOMAIN d : d[i] \in ToSet(c)
    BY ONLY <2>2, LenProperties
  <2>5. d \in Seq(ToSet(d))
    <3> DEFINE e(n) == d[n]
               set == ToSet(d)
    <3>1. \A n \in 1..Len(d) : e(n) \in set
      BY <2>4 DEF ToSet
    <3>2. d = [n \in 1..Len(d) |-> e(n)]
      BY <2>2, LenProperties
    <3> HIDE DEF e, set
    <3>3. [n \in 1..Len(d) |-> e(n)] \in Seq(set)
      BY ONLY <2>4, <3>1, IsASeq
    <3> QED
      BY <3>2, <3>3 DEF set
  <2>6. \A a \in ToSet(c) : a.handle \in Int /\ a.price \in Int \cup {NoPrice}
    BY DEF IsCatalog, ToSet
  <2> QED
    BY <2>3, <2>4, <2>5, <2>6 DEF IsCatalog
<1> QED
  BY <1>1, <1>2

\* Page after page a browser sees every match once, in order.
LEMMA PagesMakeWhole ==
  ASSUME NEW c, IsCatalog(c), NEW q, q \in Seq(ToSet(q)), NEW tag, NEW limit \in Int \cup {Nothing}
  PROVE  PagesPartition(c, q, tag, limit, PageDefault, PageMost)
<1> DEFINE K == Kept(ToSet(Tagged(c, tag)), q, NoFacets)
           all == SearchCatalog(Tagged(c, tag), q, NoFacets).results
           size == PageLimit(limit, PageDefault, PageMost)
           pages == [n \in 1..(Len(all) + 1) |->
                       BrowseCatalog(c, q, tag, (n - 1) * size, limit, PageDefault, PageMost).agents]
<1>1. all \in Seq(K)
  BY TaggedCatalog, SearchKeeps
<1>2. size \in Nat \ {0}
  <2>1. Nothing \notin Int /\ PageDefault \in Nat \ {0} /\ PageMost \in Nat \ {0}
    BY QueryAssumption
  <2> QED
    BY <2>1 DEF PageLimit, Clamp
<1>3. \A m \in Nat : BrowseCatalog(c, q, tag, m, limit, PageDefault, PageMost).agents = PageAfter(all, m, size)
  <2> SUFFICES ASSUME NEW m \in Nat
               PROVE  BrowseCatalog(c, q, tag, m, limit, PageDefault, PageMost).agents = PageAfter(all, m, size)
    OBVIOUS
  <2>1. ~(m = Nothing \/ m < 0)
    BY QueryAssumption
  <2> QED
    BY <2>1 DEF BrowseCatalog, PageAfter
<1>4. PagesPartition(c, q, tag, limit, PageDefault, PageMost) <=> FlattenSeq(pages) = all
  BY DEF PagesPartition
<1> HIDE DEF all, size, K
<1>5. Len(all) \in Nat
  BY <1>1, LenProperties
<1>6. pages = [n \in 1..(Len(all) + 1) |-> PageAfter(all, (n - 1) * size, size)]
  <2>1. \A n \in 1..(Len(all) + 1) : (n - 1) * size \in Nat
    BY <1>2, <1>5
  <2> QED
    BY <1>3, <2>1
<1> HIDE DEF pages
<1>7. FlattenSeq(pages) = all
  BY ONLY <1>1, <1>2, <1>6, PagesGlued
<1> QED
  BY <1>4, <1>7

\* Whatever agents a catalog holds and whatever is asked of it: what a search answers
\* depends on the agents alone, if each is listed once, pages make up the whole, and
\* what is said of models and categories is true.
THEOREM SearchStable == QuerySpec => []SearchIsStable
<1> DEFINE Given == agents \in Catalogs /\ query \in Queries
<1>1. QueryInit => Given
  BY DEF QueryInit
<1>2. Given /\ [FALSE]_<<agents, query>> => Given'
  OBVIOUS
<1>3. Given => SearchIsStable
  <2> SUFFICES ASSUME Given
               PROVE  SearchIsStable
    OBVIOUS
  <2>1. IsCatalog(agents) /\ query \in Seq(ToSet(query)) /\ Limits \subseteq Int \cup {Nothing}
    BY QueryAssumption
  <2>2. RankingIgnoresScanOrder(agents, query)
    BY <2>1, OrderKept
  <2>3. \A facets \in FacetSets : ModelNoteIsHonest(agents, query, facets)
    BY <2>1, NoteHonest
  <2>4. OverviewCovers(agents)
    BY <2>1, AllFiled
  <2>5. \A tag \in BrowseTags, limit \in Limits :
          PagesPartition(agents, query, tag, limit, PageDefault, PageMost)
    BY <2>1, PagesMakeWhole
  <2> QED
    BY <2>2, <2>3, <2>4, <2>5 DEF SearchIsStable
<1> QED
  BY <1>1, <1>2, <1>3, PTL DEF QuerySpec
=============================================================================
