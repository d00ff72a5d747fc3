------------------------------ MODULE Calendar -----------------------------
(***************************************************************************)
(* src/src/stdlib/time.rs: the homegrown calendar of `time.format` and     *)
(* `time.parse`, from epoch milliseconds to the fields of a UTC date and   *)
(* back, with Rust's division, which rounds towards zero.                  *)
(*                                                                         *)
(* The texts themselves are left out: a format's fields are the numbers it *)
(* prints, a parser's fields the numbers it read.  The epoch days are      *)
(* computed in i128, and those that format sees are milliseconds divided by*)
(* the length of a day, so only the result of parse can leave its width.   *)
(***************************************************************************)
EXTENDS Integers

CONSTANTS MinInt, MaxInt    \* the bounds of i64, which parse's result has to fit

MsPerDay    == 86400000
MsPerHour   == 3600000
MsPerMinute == 60000
MsPerSecond == 1000

(* a / b on Rust integers, for a positive b.                               *)
Quotient(a, b) == IF a >= 0 THEN a \div b ELSE - ((- a) \div b)

IsLeap(year) == year % 400 = 0 \/ (year % 4 = 0 /\ year % 100 # 0)

days_in_month(year, month) ==
  CASE month \in {1, 3, 5, 7, 8, 10, 12} -> 31
    [] month \in {4, 6, 9, 11}           -> 30
    [] month = 2                         -> IF IsLeap(year) THEN 29 ELSE 28

(* Years of the algorithm begin in March, so that a leap day ends its year;*)
(* an era is the 400 years after which the calendar repeats.               *)
DaysBeforeMonth(march_month) == (153 * march_month + 2) \div 5
DaysBeforeYear(year_of_era)  == year_of_era * 365 + year_of_era \div 4 - year_of_era \div 100
EpochDay(era, year_of_era, day_of_year) ==
  era * 146097 + DaysBeforeYear(year_of_era) + day_of_year - 719468

(* The era of a year or a day: a division that rounds down.                *)
Era(a, length) == Quotient(IF a >= 0 THEN a ELSE a - (length - 1), length)

days_from_civil(civil_year, month, day) ==
  LET year           == IF month <= 2 THEN civil_year - 1 ELSE civil_year
      era            == Era(year, 400)
      adjusted_month == IF month > 2 THEN month - 3 ELSE month + 9
  IN  EpochDay(era, year - era * 400, DaysBeforeMonth(adjusted_month) + day - 1)

YearOfEra(doe) == (doe - doe \div 1460 + doe \div 36524 - doe \div 146096) \div 365

DateInYear(y, doy) ==
  LET mp == (5 * doy + 2) \div 153
      m  == IF mp < 10 THEN mp + 3 ELSE mp - 9
  IN  [year |-> IF m <= 2 THEN y + 1 ELSE y, month |-> m, day |-> doy - DaysBeforeMonth(mp) + 1]
DateInEra(era, doe) ==
  LET yoe == YearOfEra(doe)
  IN  DateInYear(yoe + era * 400, doe - DaysBeforeYear(yoe))

civil_from_days(epoch_day) ==
  LET z   == epoch_day + 719468
      era == Era(z, 146097)
  IN  DateInEra(era, z - era * 146097)

(* What format prints of epoch_ms: div_euclid, rem_euclid and quotients.   *)
format(epoch_ms) ==
  LET ms_of_day == epoch_ms % MsPerDay
  IN  [date   |-> civil_from_days(epoch_ms \div MsPerDay),
       hour   |-> ms_of_day \div MsPerHour,
       minute |-> (ms_of_day % MsPerHour) \div MsPerMinute,
       second |-> (ms_of_day % MsPerMinute) \div MsPerSecond]

(* The dates and times parse_civil accepts.                                *)
ValidDate(date) ==
  /\ date.month \in 1 .. 12
  /\ date.day \in 1 .. days_in_month(date.year, date.month)
ValidFields(fields) ==
  /\ ValidDate(fields.date)
  /\ fields.hour \in 0 .. 23 /\ fields.minute \in 0 .. 59 /\ fields.second \in 0 .. 59

Milliseconds(fields) ==
  days_from_civil(fields.date.year, fields.date.month, fields.date.day) * MsPerDay
    + fields.hour * MsPerHour + fields.minute * MsPerMinute + fields.second * MsPerSecond

parse(fields) ==
  IF ValidFields(fields) /\ Milliseconds(fields) \in MinInt .. MaxInt
  THEN [ok |-> TRUE, value |-> Milliseconds(fields)]
  ELSE [ok |-> FALSE]

----------------------------------------------------------------------------
(* The calendar on the wall, for comparison: its dates, and tomorrow.      *)
Dates == {date \in [year : Int, month : Int, day : Int] : ValidDate(date)}
DayOf(date) == days_from_civil(date.year, date.month, date.day)

Tomorrow(date) ==
  IF date.day < days_in_month(date.year, date.month)
  THEN [date EXCEPT !.day = @ + 1]
  ELSE IF date.month < 12
       THEN [year |-> date.year, month |-> date.month + 1, day |-> 1]
       ELSE [year |-> date.year + 1, month |-> 1, day |-> 1]

(* Milliseconds are not printed.                                           *)
WholeSeconds(ms) == ms - (ms % MsPerSecond)
=============================================================================
