----------------------------- MODULE ListingDates -----------------------------
(***************************************************************************)
(* The dates of an FTPS listing (src/ftps/parser.rs).  A LIST line leaves   *)
(* the year out for a file modified near the printer's clock;               *)
(* parse_listing_line rebuilds it against a reference clock.  Dates are     *)
(* records [y, m, d], times minutes of the day.                             *)
(***************************************************************************)
EXTENDS Integers, Sequences, Inputs, Options

CONSTANTS
  DateDays,    \* days since 1970-01-01 the calendar is checked on
  ClockDays,   \* ... and the days the printer's clock may stand at
  MinuteMarks  \* minutes of the day

\* days_in_month
DaysInMonth(m, y) ==
  CASE m \in {1, 3, 5, 7, 8, 10, 12} -> 31
    [] m \in {4, 6, 9, 11} -> 30
    [] m = 2 -> IF (y % 4 = 0 /\ y % 100 # 0) \/ y % 400 = 0 THEN 29 ELSE 28
    [] OTHER -> 31

\* The days of 4, 100 and 400 years from a first of March, and those from the
\* first of March of the year 0 to 1970-01-01.
DaysPerQuad == 4 * 365 + 1
DaysPerCentury == 100 * 365 + 24
DaysPerEra == 400 * 365 + 97
EpochShift == 1969 * 365 + 477 + 306

\* civil_from_days
\* (Mutant: the year is not moved on for January and February.)
CivilFromDaysMutant(days) ==
  LET z == days + EpochShift
      era == z \div DaysPerEra
      doe == z % DaysPerEra
      yoe == (doe - (doe \div (DaysPerQuad - 1)) + (doe \div DaysPerCentury) - (doe \div (DaysPerEra - 1))) \div 365
      doy == doe - (365 * yoe + (yoe \div 4) - (yoe \div 100))
      mp == (5 * doy + 2) \div 153
      m == IF mp < 10 THEN mp + 3 ELSE mp - 9
  IN [y |-> yoe + era * 400, m |-> m, d |-> doy - ((153 * mp + 2) \div 5) + 1]
CivilFromDays(days) ==
  LET z == days + EpochShift
      era == z \div DaysPerEra
      doe == z % DaysPerEra
      yoe == (doe - (doe \div (DaysPerQuad - 1)) + (doe \div DaysPerCentury) - (doe \div (DaysPerEra - 1))) \div 365
      doy == doe - (365 * yoe + (yoe \div 4) - (yoe \div 100))
      mp == (5 * doy + 2) \div 153
      m == IF mp < 10 THEN mp + 3 ELSE mp - 9
  IN [y |-> yoe + era * 400 + (IF m <= 2 THEN 1 ELSE 0), m |-> m,
      d |-> doy - ((153 * mp + 2) \div 5) + 1]

\* days_from_civil
DaysFromCivil(c) ==
  LET y == c.y - (IF c.m <= 2 THEN 1 ELSE 0)
      yoe == y % 400
      doy == ((153 * (IF c.m > 2 THEN c.m - 3 ELSE c.m + 9) + 2) \div 5) + c.d - 1
  IN (y \div 400) * DaysPerEra + yoe * 365 + (yoe \div 4) - (yoe \div 100) + doy - EpochShift

\* minutes_since_epoch
MinutesSinceEpoch(c, minute) == DaysFromCivil(c) * 1440 + minute

\* advance_timestamp, in minutes
AdvanceTimestamp(c, minute, by) ==
  LET total == MinutesSinceEpoch(c, minute) + by
  IN [date |-> CivilFromDays(total \div 1440), minute |-> total % 1440]

(***************************************************************************)
(* parse_listing_line, from the columns on: the year of an entry that gives *)
(* month, day and HH:MM, read against the clock `now`, or None when the     *)
(* line is dropped.                                                         *)
(***************************************************************************)
\* (Mutant: the year is rebuilt as the latest that is not after the clock.)
NearerYearMutant(m, d, minute, now, nowMinute) ==
  IF MinutesSinceEpoch([y |-> now.y, m |-> m, d |-> d], minute) > MinutesSinceEpoch(now, nowMinute)
  THEN now.y - 1 ELSE now.y
NearerYear(m, d, minute, now, nowMinute) ==
  LET reference == MinutesSinceEpoch(now, nowMinute)
      at(y) == MinutesSinceEpoch([y |-> y, m |-> m, d |-> d], minute)
  IN IF reference - at(now.y - 1) < at(now.y) - reference THEN now.y - 1 ELSE now.y

InferYear(m, d, minute, now, nowMinute) ==
  LET year == NearerYear(m, d, minute, now, nowMinute)
  IN IF d <= DaysInMonth(m, year) THEN year
     ELSE IF year = now.y /\ d <= DaysInMonth(m, now.y - 1) THEN now.y - 1
     ELSE None

\* An entry that gives its year instead.
GivenYear(m, d, year) ==
  IF year \in 2000..9999 /\ d <= DaysInMonth(m, year) THEN year ELSE None

(***************************************************************************)
(* PrinterFile::from_ftps: a rebuilt year counts only against a real clock. *)
(***************************************************************************)
FileTimeOf(inferred, hasReference, date) ==
  IF inferred /\ ~hasReference THEN [form |-> "NoYear", m |-> date.m, d |-> date.d]
  ELSE [form |-> "Calendar", date |-> date, yearInferred |-> inferred]

(***************************************************************************)
(* Inputs and properties.                                                   *)
(***************************************************************************)
DateInputs ==
  [of : {"calendar"}, day : DateDays]
    \cup [of : {"listed"}, now : ClockDays, back : -2..184, minute : MinuteMarks, nowMinute : MinuteMarks]

NextDay(c) ==
  IF c.d < DaysInMonth(c.m, c.y) THEN [c EXCEPT !.d = @ + 1]
  ELSE IF c.m < 12 THEN [y |-> c.y, m |-> c.m + 1, d |-> 1]
  ELSE [y |-> c.y + 1, m |-> 1, d |-> 1]

\* The calendar arithmetic is the calendar: days_from_civil inverts
\* civil_from_days, and the day after a date is the next date of
\* days_in_month's calendar, over leap years, century years and year ends.
CalendarIsRight ==
  Given("calendar") =>
    LET c == CivilFromDays(input.day) IN
      /\ DaysFromCivil(c) = input.day
      /\ CivilFromDays(input.day + 1) = NextDay(c)
      /\ c.d \in 1..DaysInMonth(c.m, c.y)

\* A file the printer wrote within 181 days before its clock, or up to
\* two days after it (a P1S lists files 42 h ahead this way), gets back the
\* year it was written in, leap days and December files read in January
\* included; only a file dated into the year after the clock's does not, and
\* it is then taken for one of the clock's own year (parser.rs:472-516).
YearRecovered ==
  Given("listed") =>
    LET now == CivilFromDays(input.now)
        written == CivilFromDays(input.now - input.back)
        year == InferYear(written.m, written.d, input.minute, now, input.nowMinute)
    IN IF input.back \in -2..181 /\ written.y <= now.y THEN year = written.y
       ELSE year \in {now.y - 1, now.y, None}
=============================================================================
