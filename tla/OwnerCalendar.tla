--------------------------- MODULE OwnerCalendar ----------------------------
(***************************************************************************)
(* The two ways a time gets from an owner's words into their calendar: the *)
(* slot search of a meeting (SlotSearch) and the windows and events of a   *)
(* message (CalendarWindows).  A message is read and booked as it stands:  *)
(* it takes no step of its own.                                            *)
(***************************************************************************)
EXTENDS SlotSearch

CONSTANTS
  None,
  Messages,     \* [date, time, first, now, offset, hours], as CalendarWindows reads them
  Extractions   \* the events the brain may extract, None among them

VARIABLE words  \* a message, or something else when there is none

W == INSTANCE CalendarWindows

Hour == 0..23
Minute == 0..59
MinuteOfDay == 0..1439

\* What resolveNaturalDate and parseBookingDay tell apart.
DateKinds == {"iso", "today", "tomorrow", "next", "this", "coming", "bare", "month"}
Dated(date) ==
  /\ date[1] \in DateKinds \cup {None}
  /\ date[1] = "iso" => date[2] \in 2000..2099 /\ date[3] \in 1..12 /\ date[4] \in 1..31
  /\ date[1] \in {"next", "this", "coming", "bare"} => date[2] \in 0..6
  /\ date[1] = "month" => date[2] \in Int \cup {None} /\ date[3] \in 1..12 /\ date[4] \in 1..31

Meridiems == {"", "am", "pm"}
\* What resolveNaturalTimeRange and parseBookingTimeRange tell apart.
TimeKinds == {"morning", "afternoon", "evening", "single", "range", "till"}
Timed(time) ==
  /\ time[1] \in TimeKinds \cup {None}
  /\ time[1] \in {"single", "range", "till"} => time[2] \in Hour /\ time[3] \in Minute /\ time[4] \in Meridiems
  /\ time[1] \in {"range", "till"} => time[5] \in Hour /\ time[6] \in Minute /\ time[7] \in Meridiems

\* Today and the year after it are in the years CalendarWindows knows.
Today(m) == W!DayInZone(m.now, m.offset)
ThisCentury == W!NewYear(2000)..(W!NewYear(2098) - 1)

ASSUME MessageAssumption ==
  /\ None \notin Int /\ None \notin DateKinds /\ None \notin TimeKinds
  /\ None \notin [start : Int, end : Int, explicit : BOOLEAN]
  /\ \A m \in Messages :
       /\ Dated(m.date) /\ Timed(m.time) /\ m.first \in {"date", "time"}
       /\ m.now \in Int /\ m.offset \in Int /\ Today(m) \in ThisCentury
       /\ m.hours \in [start : MinuteOfDay, end : MinuteOfDay]
  /\ Extractions \subseteq {None} \cup [day : Int, start : Int, end : Int]

CalendarInit == Init /\ words \in Messages
CalendarNext == Next /\ UNCHANGED words
CalendarSpec == CalendarInit /\ [][CalendarNext]_<<vars, words>>

-----------------------------------------------------------------------------
\* Nothing nobody named a time for is read or booked outside the owner's working
\* hours: not by the slot search, whose proposal passes the guard of the write, and
\* not by the calendar windows of a message; unless its date is in figures whose
\* month and day are taken for hours.
WorkingHoursKept ==
  /\ ProposedPassesGuard
  /\ words \in Messages =>
       /\ W!InferredWindowInHours(words, words.now, words.offset, words.hours)
       /\ \A x \in Extractions :
            W!InferredEventInHours(words, x, words.now, words.offset, words.hours)

\* A time is the next one the owner can mean, and what is booked from a message is
\* what the same message asked the calendar about, in words that both understand.
BooksWhatWasRead ==
  words \in Messages =>
    /\ W!DatelessTimeIsAhead(words, words.now, words.offset, words.hours)
    /\ W!DateComesNext(words, words.now, words.offset)
    /\ W!BooksWhatWasRead(words, words.now, words.offset, words.hours)
=============================================================================
