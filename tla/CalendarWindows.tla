-------------------------- MODULE CalendarWindows ---------------------------
(***************************************************************************)
(* What a date and a time in an owner's words mean, twice over: the window *)
(* a free/busy read asks about (resolveWindow of                           *)
(* agent/src/integrations/calendar-mcp.ts) and the event a booking writes  *)
(* (parseCalendarBookingQuery and prepareWriteArgs of                      *)
(* agent/src/assistant/assistant-runtime.ts).                              *)
(*                                                                         *)
(* A day is its number from 1 January 2000; a clock is a minute of the     *)
(* day, and EndOfDay stands for 23:59:59.  The words of a message are a    *)
(* record: at most one date and one time, which of them stands first, and  *)
(* hours up to 23; a clock time on the hour is written without minutes.    *)
(***************************************************************************)
EXTENDS Integers, Sequences

CONSTANT None  \* undefined, null: nothing said, nothing found

EndOfDay == 1440
MinutesOf(hour, minute) == 60 * hour + minute
Later(a, b) == IF a > b THEN a ELSE b
Earlier(a, b) == IF a < b THEN a ELSE b

(***************************************************************************)
(* The calendar.                                                           *)
(***************************************************************************)
Leap(year) == year % 4 = 0
DaysIn(year, month) ==
  CASE month = 2 -> IF Leap(year) THEN 29 ELSE 28
    [] month \in {4, 6, 9, 11} -> 30
    [] OTHER -> 31
BeforeMonth == <<0, 31, 59, 90, 120, 151, 181, 212, 243, 273, 304, 334>>
DayNumber(year, month, day) ==
  365 * (year - 2000) + (year - 1997) \div 4 + BeforeMonth[month]
    + (IF Leap(year) /\ month > 2 THEN 1 ELSE 0) + day
NewYear(year) == DayNumber(year, 1, 1)
YearOf(n) == CHOOSE y \in 2000..2098 : NewYear(y) <= n /\ n < NewYear(y + 1)
WeekdayOf(n) == (n + 5) % 7

\* The local day and clock of an instant, given in minutes of UTC.
DayInZone(now, offset) == (now + offset) \div 1440
ClockInZone(now, offset) == (now + offset) % 1440

\* nextWeekdayYmd and nextWeekday: the coming one, or today when that counts.
NextWeekday(today, weekday, allowToday) ==
  LET delta == (weekday - WeekdayOf(today)) % 7
  IN  today + IF delta = 0 /\ ~allowToday THEN 7 ELSE delta

-----------------------------------------------------------------------------
(***************************************************************************)
(* The read window.                                                        *)
(***************************************************************************)
\* Dates are <<kind, ...>>: <<"iso", year, month, day>> for 2026-06-15, <<"today">>,
\* <<"tomorrow">>, <<"next" | "this" | "coming" | "bare", weekday>>, and
\* <<"month", year, month, day>> for June 15 or 6/15.
\* A month's name means nothing to resolveNaturalDate.
NaturalDate(date, today) ==
  CASE date[1] = "iso" -> DayNumber(date[2], date[3], date[4])
    [] date[1] = "today" -> today
    [] date[1] = "tomorrow" -> today + 1
    [] date[1] \in {"next", "coming"} -> NextWeekday(today, date[2], FALSE)
    [] date[1] \in {"this", "bare"} -> NextWeekday(today, date[2], TRUE)
    [] OTHER -> None

\* Times are <<kind, ...>>: <<"range" | "till", h, min, am/pm, h, min, am/pm>>, joined
\* by a word that both parsers know or by til or till, <<"single", h, min, am/pm>>
\* with "" for an unwritten suffix, or a part of the day.
NamesClock(words) == words.time[1] \in {"single", "range", "till"}

\* The first two numbers of a message that a pattern takes for a range joined in
\* one of the given ways.  The month and the day of an ISO date, 06-15, are two.
FirstRange(words, joined) ==
  IF words.date[1] = "iso" /\ (words.first = "date" \/ words.time[1] \notin joined)
    THEN <<"range", words.date[3], 0, "", words.date[4], 0, "">>
    ELSE IF words.time[1] \in joined THEN words.time ELSE <<None>>

\* The first clock time of a message that stands for itself: the first with a
\* suffix, or else the first with minutes.
FirstClock(time) ==
  CASE time[1] = "single" -> <<time[2], time[3], time[4]>>
    [] time[1] \in {"range", "till"} ->
         IF time[4] # "" \/ (time[7] = "" /\ time[3] # 0) THEN <<time[2], time[3], time[4]>>
         ELSE IF time[7] # "" \/ time[6] # 0 THEN <<time[5], time[6], time[7]>>
         ELSE None
    [] OTHER -> None
ToClock(hour, minute, suffix) ==
  LET h == CASE suffix = "pm" /\ hour < 12 -> hour + 12
             [] suffix = "am" /\ hour = 12 -> 0
             [] OTHER -> hour
  IN  MinutesOf(h, minute)

AddHourClock(clock) == IF clock \div 60 + 1 > 23 THEN EndOfDay ELSE clock + 60

Range(start, end, explicit) == [start |-> start, end |-> end, explicit |-> explicit]

AnHour(clock) == Range(clock, AddHourClock(clock), TRUE)

\* Each end of a range takes the other's suffix when it has none.
SuffixOwn(own, other) == own \* mutant: no suffix is taken over
Suffix(own, other) == IF own # "" THEN own ELSE other

\* A range, if it has no hour past 23 as the day of an ISO date may be; or a clock
\* time, or a part of the day.
PartOfDay(part) ==
  CASE part = "morning" -> Range(MinutesOf(9, 0), MinutesOf(12, 0), FALSE)
    [] part = "afternoon" -> Range(MinutesOf(12, 0), MinutesOf(17, 0), FALSE)
    [] part = "evening" -> Range(MinutesOf(17, 0), MinutesOf(21, 0), FALSE)
    [] OTHER -> None
NaturalTimeRange(words) ==
  LET range == FirstRange(words, {"range"})
      clock == FirstClock(words.time)
  IN  IF range[1] # None /\ range[2] <= 23 /\ range[5] <= 23
        THEN Range(ToClock(range[2], range[3], Suffix(range[4], range[7])),
                   ToClock(range[5], range[6], Suffix(range[7], range[4])), TRUE)
      ELSE IF clock # None THEN AnHour(ToClock(clock[1], clock[2], clock[3]))
      ELSE PartOfDay(words.time[1])

\* Hours that are reversed do not clamp.
KnownHours(hours) == hours # None /\ hours.start < hours.end

\* A part of the day outside working hours falls back to the working hours.
ClampRangeToWorkingHours(range, working) ==
  LET start == Later(range.start, working.start)
      end == Earlier(range.end, working.end)
  IN  IF start >= end THEN [start |-> working.start, end |-> working.end]
                      ELSE [start |-> start, end |-> end]

EffectiveRange(range, hours) ==
  IF range = None
    THEN IF KnownHours(hours) THEN hours ELSE [start |-> 0, end |-> EndOfDay]
    ELSE IF range.explicit \/ ~KnownHours(hours)
           THEN [start |-> range.start, end |-> range.end]
           ELSE ClampRangeToWorkingHours(range, hours)

\* A time without a day: today if still ahead, else tomorrow.
DefaultDateForTime(range, now, offset) ==
  LET today == DayInZone(now, offset)
  IN  IF range.start > ClockInZone(now, offset) THEN today ELSE today + 1

\* resolveWindow for a message; None: the look-ahead of windowDays from now on.
ResolveNaturalWindow(words, now, offset, hours) ==
  LET date == NaturalDate(words.date, DayInZone(now, offset))
      range == NaturalTimeRange(words)
  IN  IF date = None /\ range = None THEN None
      ELSE [day |-> IF date # None THEN date ELSE DefaultDateForTime(range, now, offset),
            start |-> EffectiveRange(range, hours).start,
            end |-> EffectiveRange(range, hours).end]

-----------------------------------------------------------------------------
(***************************************************************************)
(* The booking.                                                            *)
(***************************************************************************)
ValidDate(year, month, day) ==
  IF day \in 1..DaysIn(year, month) THEN DayNumber(year, month, day) ELSE None

\* The year of a date without one: this year, or the next when it has passed.
InferredYear(today, month, day) ==
  LET candidate == ValidDate(YearOf(today), month, day)
  IN  IF candidate # None /\ candidate < today THEN YearOf(today) + 1 ELSE YearOf(today)

CalendarDate(date, today) ==
  ValidDate(IF date[2] = None THEN InferredYear(today, date[3], date[4]) ELSE date[2],
            date[3], date[4])

\* parseBookingDay, on the server's clock.
BookingDay(date, today) ==
  CASE date[1] = "iso" -> DayNumber(date[2], date[3], date[4])
    [] date[1] = "month" -> CalendarDate(date, today)
    [] date[1] = "today" -> today
    [] date[1] = "tomorrow" -> today + 1
    [] date[1] = "next" -> NextWeekday(today, date[2], FALSE)
    [] date[1] \in {"this", "coming", "bare"} -> NextWeekday(today, date[2], TRUE)
    [] OTHER -> None

Clock24(hour, minute, meridiem) ==
  IF hour \in 1..12 THEN MinutesOf((hour % 12) + (IF meridiem = "pm" THEN 12 ELSE 0), minute) ELSE None

\* A booking needs a range whose end has a meridiem; the start may take it over.
BookingTimeRange(words) ==
  LET range == FirstRange(words, {"range", "till"})
  IN  IF range[1] = None \/ range[7] = "" THEN None
      ELSE LET start == Clock24(range[2], range[3], Suffix(range[4], range[7]))
               end == Clock24(range[5], range[6], range[7])
           IN  IF start = None \/ end = None THEN None ELSE [start |-> start, end |-> end]

ParseCalendarBookingQuery(words, now, serverOffset) ==
  LET day == BookingDay(words.date, DayInZone(now, serverOffset))
      range == BookingTimeRange(words)
  IN  IF day = None \/ range = None THEN None
      ELSE [day |-> day, start |-> range.start, end |-> range.end]

\* queryMentionsExplicitTime.
MentionsExplicitTime(words) ==
  \/ /\ words.time[1] \in {"range", "till"}
     /\ {words.time[4], words.time[7]} # {""} \/ words.time[3] # 0 \/ words.time[6] # 0
  \/ words.time[1] = "single"

\* guardWriteWorkingHours; an extraction may end on another day.
GuardStart(words, event, hours) == \* mutant: only the start is looked at
  MentionsExplicitTime(words) \/ event.start >= hours.start
GuardWriteWorkingHours(words, event, hours) ==
  \/ MentionsExplicitTime(words)
  \/ event.start >= hours.start /\ event.end <= hours.end

\* prepareWriteArgs for an event: times the plan supplies are honoured; the
\* brain's extraction comes before the parser; None: ask the owner instead.
PrepareEvent(words, supplied, extracted, now, serverOffset, hours) ==
  LET event == IF extracted # None THEN extracted
               ELSE ParseCalendarBookingQuery(words, now, serverOffset)
  IN  IF supplied # None THEN supplied
      ELSE IF event # None /\ GuardWriteWorkingHours(words, event, hours) THEN event
      ELSE None

-----------------------------------------------------------------------------
(***************************************************************************)
(* What the two must agree on, for one message.                            *)
(***************************************************************************)
\* A date that the read takes for hours.
ReadAsHours(date) == date[1] = "iso" /\ date[4] <= 23

\* A window nobody named a clock time for is a stretch of the owner's working
\* hours, and never an empty one (calendar-mcp.ts:69: "An INFERRED window (a bare
\* date, ...) is clamped to the owner's working hours"); unless the date is read as
\* hours, of which that line is not true.
InferredWindowInHours(words, now, offset, hours) ==
  LET w == ResolveNaturalWindow(words, now, offset, hours)
  IN  w # None /\ KnownHours(hours) /\ ~NamesClock(words) /\ ~ReadAsHours(words.date) =>
        hours.start <= w.start /\ w.start < w.end /\ w.end <= hours.end

\* A clock time without a date is ahead of the owner, by a day at most.
DatelessTimeIsAhead(words, now, offset, hours) ==
  LET w == ResolveNaturalWindow(words, now, offset, hours)
      start == 1440 * w.day + w.start - offset
  IN  words.date = <<None>> /\ NamesClock(words) /\ w # None =>
        now < start /\ start <= now + 1440

\* A date without a year is never in the past, and no earlier day has that name.
DateComesNext(words, now, serverOffset) ==
  LET today == DayInZone(now, serverOffset)
      d == BookingDay(words.date, today)
  IN  words.date[1] = "month" /\ words.date[2] = None /\ d # None =>
        /\ today <= d
        /\ \A y \in YearOf(today)..YearOf(d) :
             ValidDate(y, words.date[3], words.date[4]) \notin today..(d - 1)

\* What is booked from a message is what the same message asked the calendar
\* about, when the server keeps the owner's time; "coming", a month's name and
\* hours joined by til or till are read differently.
BooksWhatWasRead(words, now, offset, hours) ==
  LET read == ResolveNaturalWindow(words, now, offset, hours)
      event == ParseCalendarBookingQuery(words, now, offset)
  IN  event # None /\ words.date[1] \notin {"coming", "month"} /\ words.time[1] # "till" =>
        read = event

\* An event nobody named a time for stays inside the owner's working hours.
InferredEventInHours(words, extracted, now, serverOffset, hours) ==
  LET event == PrepareEvent(words, None, extracted, now, serverOffset, hours)
  IN  event # None /\ ~NamesClock(words) =>
        hours.start <= event.start /\ event.end <= hours.end
=============================================================================
