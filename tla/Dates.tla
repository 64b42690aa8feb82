------------------------------- MODULE Dates -------------------------------
(***************************************************************************)
(* The pure date and clock arithmetic of internal/service/scheduler        *)
(* (dates.go).  A calendar date is a record with a month and a day, a      *)
(* localised instant (time.Time after In(loc)) adds the year and the       *)
(* minute of the day, and an "HH:MM" string is the minute it denotes.      *)
(* Parsing is left out: every stored date and time passed the validators   *)
(* of internal/handlers/validate.go (date and clock), so it parses.        *)
(***************************************************************************)
EXTENDS Integers

Minutes == 0 .. 24*60 - 1

\* A send time that is nil or "" in the code.
NoTime == -1

\* const DefaultSendTime = "09:00"
DefaultSendTime == 9 * 60

isLeapYear(year) == year % 4 = 0 /\ (year % 100 # 0 \/ year % 400 = 0)

DaysIn(year, month) ==
  CASE month = 2 -> IF isLeapYear(year) THEN 29 ELSE 28
    [] month \in {4, 6, 9, 11} -> 30
    [] OTHER -> 31

\* The event recurs on its month and day; 29 February is observed on the
\* 28th of a common year.
DueOn(eventDate, day) ==
  LET leapDay == eventDate.month = 2 /\ eventDate.day = 29
  IN  /\ day.month = eventDate.month
      /\ day.day = IF leapDay /\ ~isLeapYear(day.year) THEN 28 ELSE eventDate.day

\* The contact's own send time, else the general one, else the default.
EffectiveSendTime(own, general) ==
  CASE own # NoTime -> own
    [] own = NoTime /\ general # NoTime -> general
    [] OTHER -> DefaultSendTime

\* Inclusive: the minute of the send time itself has passed.
ClockPassed(sendTime, now) == now.minute >= sendTime

=============================================================================
