-------------------------------- MODULE CivilTime --------------------------------
(***************************************************************************)
(* Dates, times and RFC 3339 stamps (src/core/time.cpp). A time point is a *)
(* count of clock ticks in a word of fixed width, as that of               *)
(* std::chrono::system_clock; a stamp is the record of its numbers, its    *)
(* punctuation and fraction being left out.                                *)
(***************************************************************************)
EXTENDS Integers

CONSTANTS
  MinuteSeconds, HourSeconds, DaySeconds, \* 60, 3600, 86400
  SecondTicks,                            \* ticks of the clock in a second: 10^9
  TickRange                               \* values of a count of ticks: 2^64

ASSUME TimeAssumption ==
  /\ MinuteSeconds \in Nat \ {0} /\ HourSeconds \in Nat \ {0} /\ DaySeconds \in Nat \ {0}
  /\ HourSeconds % MinuteSeconds = 0 /\ DaySeconds % HourSeconds = 0
  /\ SecondTicks \in Nat \ {0}
  /\ TickRange \in Nat \ {0} /\ TickRange % 2 = 0

-----------------------------------------------------------------------------
(* The reference calendar: what the dates are, said without arithmetic on  *)
(* day numbers.                                                            *)

Leap(y) == y % 4 = 0 /\ (y % 100 # 0 \/ y % 400 = 0)

MonthLength(y, m) ==
  IF m = 2 THEN IF Leap(y) THEN 29 ELSE 28
  ELSE IF m \in {4, 6, 9, 11} THEN 30 ELSE 31

ValidDate(date) ==
  /\ date \in [year: Int, month: 1..12, day: 1..31]
  /\ date.day <= MonthLength(date.year, date.month)

NextDate(date) ==
  IF date.day < MonthLength(date.year, date.month) THEN [date EXCEPT !.day = @ + 1]
  ELSE IF date.month < 12 THEN [date EXCEPT !.month = @ + 1, !.day = 1]
  ELSE [year |-> date.year + 1, month |-> 1, day |-> 1]

-----------------------------------------------------------------------------
(* Day numbers, counted from 1970-01-01; years begin in March.             *)

MonthIndex(m) == IF m > 2 THEN m - 3 ELSE m + 9

DayOfYear(m, d) == (153 * MonthIndex(m) + 2) \div 5 + d - 1

\* The year that a month belongs to, and the number of its first day.
MarchYear(y, m) == IF m <= 2 THEN y - 1 ELSE y

YearStart(y) ==
  LET era == y \div 400
      yoe == y - era * 400
  IN  era * 146097 + yoe * 365 + yoe \div 4 - yoe \div 100 - 719468

DaysFromCivil(date) ==
  YearStart(MarchYear(date.year, date.month)) + DayOfYear(date.month, date.day)

\* Mutant of YearOfEra: the last day of four centuries is not taken care of.
YearOfEraLong(doe) == (doe - doe \div 1460 + doe \div 36524) \div 365

YearOfEra(doe) == (doe - doe \div 1460 + doe \div 36524 - doe \div 146096) \div 365

DayOfEraYear(doe) ==
  LET yoe == YearOfEra(doe) IN doe - (365 * yoe + yoe \div 4 - yoe \div 100)

CivilFromDays(days) ==
  LET z   == days + 719468
      era == z \div 146097
      doe == z - era * 146097
      yoe == YearOfEra(doe)
      doy == DayOfEraYear(doe)
      mp  == (5 * doy + 2) \div 153
      m   == IF mp < 10 THEN mp + 3 ELSE mp - 9
  IN  [year  |-> yoe + era * 400 + (IF m <= 2 THEN 1 ELSE 0),
       month |-> m,
       day   |-> doy - (153 * mp + 2) \div 5 + 1]

-----------------------------------------------------------------------------
(* Time points and stamps.                                                 *)

\* The seconds the clock can count: from_unix_seconds multiplies them into its
\* ticks, and what is past the width of a count comes out elsewhere.
InClock(seconds) ==
  -(TickRange \div 2) <= seconds * SecondTicks /\ seconds * SecondTicks < TickRange \div 2

Wrap(ticks) == ((ticks + TickRange \div 2) % TickRange) - TickRange \div 2

FromUnixSeconds(seconds) == Wrap(seconds * SecondTicks)

\* duration_cast rounds towards zero.
UnixSeconds(ticks) ==
  IF ticks >= 0 THEN ticks \div SecondTicks ELSE -((-ticks) \div SecondTicks)

SecondOfDay(stamp) ==
  stamp.hour * HourSeconds + stamp.minute * MinuteSeconds + stamp.second

\* The seconds a zone is ahead of UTC.
ZoneOffset(zone) == zone.sign * (zone.hour * HourSeconds + zone.minute * MinuteSeconds)
Utc == [sign |-> 1, hour |-> 0, minute |-> 0]

\* The numbers of a stamp are composed without a look at their ranges.
ParseRfc3339(stamp) ==
  Wrap(FromUnixSeconds(DaysFromCivil(stamp.date) * DaySeconds + SecondOfDay(stamp))
         - ZoneOffset(stamp.zone) * SecondTicks)

\* Mutant of FormatRfc3339: a remainder below zero is not carried into the day.
FormatNoCarry(ticks) ==
  LET seconds == UnixSeconds(ticks)
      down(x, n) == IF x >= 0 THEN x \div n ELSE -((-x) \div n)
      days == down(seconds, DaySeconds)
      rest == seconds - days * DaySeconds
  IN  [date   |-> CivilFromDays(days),
       hour   |-> down(rest, HourSeconds),
       minute |-> down(rest - down(rest, HourSeconds) * HourSeconds, MinuteSeconds),
       second |-> (rest % HourSeconds) % MinuteSeconds,
       zone   |-> Utc]

FormatRfc3339(ticks) ==
  LET seconds == UnixSeconds(ticks)
      rest    == seconds % DaySeconds
  IN  [date   |-> CivilFromDays(seconds \div DaySeconds),
       hour   |-> rest \div HourSeconds,
       minute |-> (rest % HourSeconds) \div MinuteSeconds,
       second |-> rest % MinuteSeconds,
       zone   |-> Utc]
=================================================================================
