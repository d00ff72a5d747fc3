--------------------------- MODULE CalendarProofs --------------------------
(***************************************************************************)
(* Theorems about Calendar, for every integer: it is the Gregorian calendar*)
(* - the first day of 1970 is day 0, and the day after a date has the next *)
(* number - and the conversions of `time.format` and `time.parse` undo each*)
(* other, before 1970 and after.                                           *)
(***************************************************************************)
EXTENDS Calendar, TLAPS

(* Bounds, spelt out: tlapm lists the members of an interval of literals.  *)
Within(a, x, b) == x \in Int /\ a <= x /\ x <= b

(* The division that finds the era, adjusted because Rust's rounds towards *)
(* zero, rounds down.                                                      *)
LEMMA Floors ==
  ASSUME NEW a \in Int
  PROVE  Era(a, 400) = a \div 400 /\ Era(a, 146097) = a \div 146097
BY DEF Era, Quotient

(* Day d of year y of an era, both counted from 0: the year begins with    *)
(* March, and its day 365 is the leap day that ends it.                    *)
MarchDay(y, d) == Within(0, y, 399) /\ Within(0, d, 365) /\ (d = 365 => IsLeap(y + 1))

(* The same year as year r of the four years q of century c, and a day of  *)
(* it: the last years of a century and of an era decide on its leap day.   *)
Parts(c, q, r, d) ==
  /\ Within(0, c, 3) /\ Within(0, q, 24) /\ Within(0, r, 3) /\ Within(0, d, 365)
  /\ d = 365 => r = 3 /\ (q = 24 => c = 3)

(* Such parts make a day of a year, and the sum that numbers it in the     *)
(* era.                                                                    *)
LEMMA YearOfParts ==
  ASSUME NEW c \in Int, NEW q \in Int, NEW r \in Int, NEW d \in Int, Parts(c, q, r, d)
  PROVE  LET y == 100 * c + 4 * q + r IN
         /\ MarchDay(y, d)
         /\ DaysBeforeYear(y) + d = 36524 * c + 1461 * q + 365 * r + d
<1>1. PICK y \in Int : y = 100 * c + 4 * q + r
  BY DEF Parts, Within
<1>2. Within(0, y, 399) /\ y \div 100 = c /\ y \div 4 = 25 * c + q
  <2>1. c >= 0 /\ c <= 3 /\ q >= 0 /\ q <= 24 /\ r >= 0 /\ r <= 3
    BY DEF Parts, Within
  <2>2. Within(0, y, 399)
    BY <1>1, <2>1 DEF Within
  <2>3. y \div 100 = c
    BY <1>1, <2>1
  <2>4. y \div 4 = 25 * c + q
    BY <1>1, <2>1
  <2>5. QED
    BY <2>2, <2>3, <2>4
<1>3. r = 3 /\ (q = 24 => c = 3) => IsLeap(y + 1)
  <2> SUFFICES ASSUME r = 3, q = 24 => c = 3 PROVE IsLeap(y + 1)
    OBVIOUS
  <2>1. c >= 0 /\ c <= 3 /\ q >= 0 /\ q <= 24
    BY DEF Parts, Within
  <2>2. (y + 1) % 4 = 0
    BY <1>1, <2>1
  <2>3. CASE q = 24
    BY <1>1, <2>3 DEF IsLeap
  <2>4. CASE q < 24
    <3>1. (y + 1) % 100 # 0
      BY <1>1, <2>1, <2>4
    <3>2. QED
      BY <2>2, <3>1 DEF IsLeap
  <2>5. QED
    BY <2>1, <2>3, <2>4
<1>4. DaysBeforeYear(y) + d = 36524 * c + 1461 * q + 365 * r + d
  BY <1>1, <1>2 DEF DaysBeforeYear, Parts, Within
<1>5. QED
  BY <1>1, <1>2, <1>3, <1>4 DEF MarchDay, Parts

(* Every day of every year has such parts.                                 *)
LEMMA PartsOfYear ==
  ASSUME NEW y \in Int, NEW d \in Int, MarchDay(y, d)
  PROVE  \E c \in Int, q \in Int, r \in Int : Parts(c, q, r, d) /\ y = 100 * c + 4 * q + r
<1>1. PICK c \in Int, s \in Int : Within(0, c, 3) /\ Within(0, s, 99) /\ y = 100 * c + s
  <2>1. Within(0, y \div 100, 3) /\ Within(0, y - 100 * (y \div 100), 99)
        /\ y = 100 * (y \div 100) + (y - 100 * (y \div 100))
    BY DEF MarchDay, Within
  <2>2. QED
    BY <2>1 DEF Within
<1>2. PICK q \in Int, r \in Int : Within(0, q, 24) /\ Within(0, r, 3) /\ s = 4 * q + r
  <2>1. Within(0, s \div 4, 24) /\ Within(0, s - 4 * (s \div 4), 3)
        /\ s = 4 * (s \div 4) + (s - 4 * (s \div 4))
    BY <1>1 DEF Within
  <2>2. QED
    BY <2>1 DEF Within
<1>3. y = 100 * c + 4 * q + r
  BY <1>1, <1>2 DEF Within
<1>4. IsLeap(y + 1) => r = 3 /\ (q = 24 => c = 3)
  BY <1>1, <1>2, <1>3 DEF IsLeap, Within
<1>5. QED
  BY <1>1, <1>2, <1>3, <1>4 DEF Parts, MarchDay

(* The four quotients by which civil_from_days finds the year of a day of  *)
(* an era cancel out the leap days before it.                              *)
LEMMA YearFound ==
  ASSUME NEW y \in Int, NEW d \in Int, MarchDay(y, d)
  PROVE  /\ Within(0, DaysBeforeYear(y) + d, 146096)
         /\ YearOfEra(DaysBeforeYear(y) + d) = y
<1>1. PICK c \in Int, q \in Int, r \in Int : Parts(c, q, r, d) /\ y = 100 * c + 4 * q + r
  BY PartsOfYear
<1>2. PICK doe \in Int : doe = DaysBeforeYear(y) + d
  BY DEF DaysBeforeYear, MarchDay, Within
<1>3. doe = 36524 * c + 1461 * q + 365 * r + d
  BY <1>1, <1>2, YearOfParts
<1>4. /\ c >= 0 /\ c <= 3 /\ q >= 0 /\ q <= 24 /\ r >= 0 /\ r <= 3 /\ d >= 0 /\ d <= 365
      /\ d = 365 => r = 3 /\ (q = 24 => c = 3)
  BY <1>1 DEF Parts, Within
<1>5. Within(0, doe, 146096) /\ doe \div 36524 = c + doe \div 146096
  <2>1. doe >= 0 /\ doe <= 146096
    BY <1>3, <1>4
  <2>2. doe \div 36524 = c + doe \div 146096
    BY <1>3, <1>4
  <2>3. QED
    BY <2>1, <2>2 DEF Within
<1>6. PICK e \in Int : Within(0, e, 1) /\ doe \div 1460 = 25 * c + q + e /\ Within(0, d - e, 364)
  <2> DEFINE f == 24 * c + q + 365 * r + d
  <2>1. doe = 1460 * (25 * c + q) + f
    BY <1>3
  <2>2. f >= 0 /\ f <= 1556
    BY <1>4
  <2>3. CASE f < 1460
    <3>1. doe \div 1460 = 25 * c + q
      BY <2>1, <2>2, <2>3
    <3>2. d <= 364
      BY <1>4, <2>3
    <3>3. QED
      BY <1>4, <3>1, <3>2 DEF Within
  <2>4. CASE f >= 1460
    <3>1. doe \div 1460 = 25 * c + q + 1
      BY <2>1, <2>2, <2>4
    <3>2. d >= 1
      BY <1>4, <2>4
    <3>3. QED
      BY <1>4, <3>1, <3>2 DEF Within
  <2>5. QED
    BY <2>3, <2>4, <1>4
<1>7. YearOfEra(doe) = y
  <2>1. doe - doe \div 1460 + doe \div 36524 - doe \div 146096 = 365 * y + (d - e)
    BY <1>1, <1>3, <1>5, <1>6
  <2>2. QED
    BY <2>1, <1>6 DEF YearOfEra, Within
<1>8. QED
  BY <1>2, <1>5, <1>7

(* Every day of an era is a day of one of its years.                       *)
LEMMA YearExists ==
  ASSUME NEW doe \in Int, Within(0, doe, 146096)
  PROVE  \E y \in Int, d \in Int : MarchDay(y, d) /\ doe = DaysBeforeYear(y) + d
<1>1. PICK c \in Int, a \in Int :
         Within(0, c, 3) /\ Within(0, a, 36524) /\ doe = 36524 * c + a /\ (a = 36524 => c = 3)
  <2>1. CASE doe = 146096
    <3>1. doe = 36524 * 3 + 36524
      BY <2>1
    <3>2. QED
      BY <3>1 DEF Within
  <2>2. CASE doe < 146096
    <3>1. /\ Within(0, doe \div 36524, 3) /\ Within(0, doe - 36524 * (doe \div 36524), 36523)
          /\ doe = 36524 * (doe \div 36524) + (doe - 36524 * (doe \div 36524))
      BY <2>2 DEF Within
    <3>2. QED
      BY <3>1 DEF Within
  <2>3. QED
    BY <2>1, <2>2 DEF Within
<1>2. PICK q \in Int, b \in Int : Within(0, q, 24) /\ Within(0, b, 1460) /\ a = 1461 * q + b
  <2>1. Within(0, a \div 1461, 24) /\ Within(0, a - 1461 * (a \div 1461), 1460)
        /\ a = 1461 * (a \div 1461) + (a - 1461 * (a \div 1461))
    BY <1>1 DEF Within
  <2>2. QED
    BY <2>1 DEF Within
<1>3. PICK r \in Int, d \in Int :
         Within(0, r, 3) /\ Within(0, d, 365) /\ b = 365 * r + d /\ (d = 365 => r = 3)
  <2>1. CASE b = 1460
    <3>1. b = 365 * 3 + 365
      BY <2>1
    <3>2. QED
      BY <3>1 DEF Within
  <2>2. CASE b < 1460
    <3>1. /\ Within(0, b \div 365, 3) /\ Within(0, b - 365 * (b \div 365), 364)
          /\ b = 365 * (b \div 365) + (b - 365 * (b \div 365))
      BY <1>2, <2>2 DEF Within
    <3>2. QED
      BY <3>1 DEF Within
  <2>3. QED
    BY <2>1, <2>2, <1>2 DEF Within
<1>4. Parts(c, q, r, d)
  BY <1>1, <1>2, <1>3 DEF Parts, Within
<1>5. doe = 36524 * c + 1461 * q + 365 * r + d
  BY <1>1, <1>2, <1>3 DEF Within
<1>6. QED
  BY <1>4, <1>5, YearOfParts

----------------------------------------------------------------------------
(* The days of month mp of a year that begins with March, but for          *)
(* February, which ends it.                                                *)
LengthOf(mp) == DaysBeforeMonth(mp + 1) - DaysBeforeMonth(mp)
(* Day k of month mp of year Y, which is year y of its era, with the day's *)
(* place in the year.                                                      *)
Placed(era, y, Y, mp, k, doy) ==
  /\ Y = y + era * 400 /\ MarchDay(y, doy)
  /\ mp \in 0 .. 11 /\ k \in Nat /\ k < LengthOf(mp)
  /\ doy = DaysBeforeMonth(mp) + k

(* That day as a date: January and February belong to the next year.       *)
MarchDate(year, mp, k) ==
  [year  |-> IF mp < 10 THEN year ELSE year + 1,
   month |-> IF mp < 10 THEN mp + 3 ELSE mp - 9,
   day   |-> k + 1]

(* The quotient by which civil_from_days finds the month of a day of the   *)
(* year is the month's number.                                             *)
LEMMA MonthFound ==
  ASSUME NEW mp \in 0 .. 11, NEW k \in Nat, k < LengthOf(mp)
  PROVE  (5 * (DaysBeforeMonth(mp) + k) + 2) \div 153 = mp
BY DEF LengthOf, DaysBeforeMonth

(* Every day of a year is a day of one of its months.                      *)
LEMMA MonthExists ==
  ASSUME NEW doy \in Int, Within(0, doy, 365)
  PROVE  \E mp \in 0 .. 11, k \in Nat : k < LengthOf(mp) /\ doy = DaysBeforeMonth(mp) + k
<1>1. PICK mp \in Int : mp = (5 * doy + 2) \div 153
  OBVIOUS
<1>2. mp \in 0 .. 11 /\ DaysBeforeMonth(mp) <= doy /\ doy < DaysBeforeMonth(mp + 1)
  BY <1>1 DEF Within, DaysBeforeMonth
<1>3. DaysBeforeMonth(mp) \in Int /\ DaysBeforeMonth(mp + 1) \in Int
  BY DEF DaysBeforeMonth
<1>4. /\ doy - DaysBeforeMonth(mp) \in Nat /\ doy - DaysBeforeMonth(mp) < LengthOf(mp)
      /\ doy = DaysBeforeMonth(mp) + (doy - DaysBeforeMonth(mp))
  BY <1>2, <1>3 DEF LengthOf
<1>5. QED
  BY <1>2, <1>4

(* The months of the conversions are as long as those parse checks a day   *)
(* against, February apart.                                                *)
LEMMA LengthsAgree ==
  ASSUME NEW mp \in 0 .. 10, NEW year \in Int
  PROVE  LengthOf(mp) = days_in_month(year, IF mp < 10 THEN mp + 3 ELSE mp - 9)
<1>1. mp \in {0, 1, 2, 3, 4, 5, 6, 7, 8, 9, 10}
  OBVIOUS
<1>2. QED
  BY <1>1 DEF LengthOf, DaysBeforeMonth, days_in_month

(* The day of a date, counted in years that begin with March.              *)
LEMMA DayCount ==
  ASSUME NEW mp \in 0 .. 11, NEW y \in Int, NEW k \in Int, NEW era \in Int, NEW yoe \in Int,
         NEW doy \in Int,
         y \div 400 = era, y - era * 400 = yoe, doy = DaysBeforeMonth(mp) + k
  PROVE  DayOf(MarchDate(y, mp, k)) = EpochDay(era, yoe, doy)
<1>1. Era(y, 400) = y \div 400
  BY Floors
<1>2. PICK year \in Int, month \in Int :
         /\ year = MarchDate(y, mp, k).year /\ month = MarchDate(y, mp, k).month
         /\ MarchDate(y, mp, k).day = k + 1
         /\ y = (IF month <= 2 THEN year - 1 ELSE year)
         /\ mp = (IF month > 2 THEN month - 3 ELSE month + 9)
  <2>1. CASE mp < 10
    BY <2>1 DEF MarchDate
  <2>2. CASE mp >= 10
    BY <2>2 DEF MarchDate
  <2>3. QED
    BY <2>1, <2>2
<1>3. DaysBeforeMonth(mp) \in Int
  BY DEF DaysBeforeMonth
<1>4. DaysBeforeMonth(mp) + (k + 1) - 1 = doy
  BY <1>3
<1>5. QED
  BY <1>1, <1>2, <1>4 DEF DayOf, days_from_civil

(* A day placed in a year is a date of the calendar, and days_from_civil   *)
(* numbers it by its place.                                                *)
LEMMA MarchIsDate ==
  ASSUME NEW era \in Int, NEW y \in Int, NEW Y \in Int, NEW mp \in Int, NEW k \in Int,
         NEW doy \in Int, Placed(era, y, Y, mp, k, doy)
  PROVE  /\ MarchDate(Y, mp, k) \in Dates
         /\ DayOf(MarchDate(Y, mp, k)) = EpochDay(era, y, doy)
<1>1. /\ mp \in 0 .. 11 /\ k \in Nat /\ k < LengthOf(mp)
      /\ y >= 0 /\ y <= 399 /\ DaysBeforeMonth(mp) + k <= 365
      /\ DaysBeforeMonth(mp) + k = 365 => IsLeap(y + 1)
  BY DEF Placed, MarchDay, Within
<1>2. Y = y + era * 400 /\ doy = DaysBeforeMonth(mp) + k
  BY DEF Placed
<1>3. MarchDate(Y, mp, k) \in [year : Int, month : Int, day : Int]
  BY <1>1 DEF MarchDate
<1>4. ValidDate(MarchDate(Y, mp, k))
  <2>1. CASE mp # 11
    <3>1. k + 1 \in 1 .. LengthOf(mp) /\ mp \in 0 .. 10 /\ LengthOf(mp) \in Int
      BY <1>1, <2>1 DEF LengthOf, DaysBeforeMonth
    <3>2. LengthOf(mp) = days_in_month(MarchDate(Y, mp, k).year, IF mp < 10 THEN mp + 3 ELSE mp - 9)
      BY <1>3, <3>1, LengthsAgree
    <3>3. (IF mp < 10 THEN mp + 3 ELSE mp - 9) \in 1 .. 12
      BY <3>1
    <3>4. /\ MarchDate(Y, mp, k).month = (IF mp < 10 THEN mp + 3 ELSE mp - 9)
          /\ MarchDate(Y, mp, k).day = k + 1
      BY DEF MarchDate
    <3>5. QED
      BY <3>1, <3>2, <3>3, <3>4 DEF ValidDate
  <2>2. CASE mp = 11
    <3>1. MarchDate(Y, mp, k) = [year |-> Y + 1, month |-> 2, day |-> k + 1]
      BY <2>2 DEF MarchDate
    <3>2. IsLeap(Y + 1) <=> IsLeap(y + 1)
      <4>1. Y + 1 = 400 * era + (y + 1)
        BY <1>2
      <4>2. QED
        BY <4>1 DEF IsLeap
    <3>3. k <= 28 /\ (k = 28 => IsLeap(y + 1))
      BY <1>1, <2>2 DEF DaysBeforeMonth
    <3>4. k + 1 \in 1 .. days_in_month(Y + 1, 2)
      BY <1>1, <3>2, <3>3 DEF days_in_month
    <3>5. QED
      BY <3>1, <3>4 DEF ValidDate
  <2>3. QED
    BY <2>1, <2>2
<1>5. Y \div 400 = era
  BY <1>1, <1>2
<1>6. Y - era * 400 = y
  BY <1>2
<1>7. MarchDate(Y, mp, k) \in Dates
  BY <1>3, <1>4 DEF Dates
<1>8. DayOf(MarchDate(Y, mp, k)) = EpochDay(era, y, doy)
  <2>1. mp \in 0 .. 11
    BY <1>1
  <2>2. QED
    BY <2>1, <1>2, <1>5, <1>6, DayCount
<1>9. QED
  BY <1>7, <1>8

(* civil_from_days gives that number back as the date.                     *)
LEMMA MarchFound ==
  ASSUME NEW era \in Int, NEW y \in Int, NEW Y \in Int, NEW mp \in Int, NEW k \in Int,
         NEW doy \in Int, Placed(era, y, Y, mp, k, doy)
  PROVE  civil_from_days(EpochDay(era, y, doy)) = MarchDate(Y, mp, k)
<1>1. doy = DaysBeforeMonth(mp) + k /\ MarchDay(y, doy) /\ mp \in 0 .. 11 /\ Y = y + era * 400
  BY DEF Placed
<1>2. PICK doe \in Int : doe = DaysBeforeYear(y) + doy
  BY DEF DaysBeforeYear
<1>3. Within(0, doe, 146096) /\ YearOfEra(doe) = y
  BY <1>1, <1>2, YearFound
<1>4. civil_from_days(EpochDay(era, y, doy)) = DateInEra(era, doe)
  <2>1. DaysBeforeYear(y) \in Int
    BY DEF DaysBeforeYear
  <2>2. PICK z \in Int : z = EpochDay(era, y, doy) + 719468 /\ z = era * 146097 + doe
    BY <1>2, <2>1 DEF EpochDay
  <2>3. z \div 146097 = era /\ z - era * 146097 = doe
    BY <1>3, <2>2 DEF Within
  <2>4. Era(z, 146097) = z \div 146097
    BY Floors
  <2>5. QED
    BY <2>2, <2>3, <2>4 DEF civil_from_days
<1>5. DateInEra(era, doe) = DateInYear(Y, doy)
  <2>1. doe - DaysBeforeYear(y) = doy
    BY <1>2 DEF DaysBeforeYear
  <2>2. QED
    BY <1>1, <1>3, <2>1 DEF DateInEra
<1>6. DateInYear(Y, doy) = MarchDate(Y, mp, k)
  <2>1. (5 * doy + 2) \div 153 = mp /\ doy - DaysBeforeMonth(mp) + 1 = k + 1
    BY <1>1, MonthFound DEF Placed, DaysBeforeMonth
  <2>2. QED
    BY <1>1, <2>1 DEF DateInYear, MarchDate
<1>7. QED
  BY <1>4, <1>5, <1>6

----------------------------------------------------------------------------
(* A date of the calendar is some day of some month of a March year.       *)
LEMMA DateIsMarch ==
  ASSUME NEW date \in Dates
  PROVE  \E era \in Int, y \in Int, Y \in Int, mp \in Int, k \in Int, doy \in Int :
            Placed(era, y, Y, mp, k, doy) /\ date = MarchDate(Y, mp, k)
<1>1. PICK year \in Int, month \in 1 .. 12, day \in Int :
         /\ date = [year |-> year, month |-> month, day |-> day]
         /\ day \in 1 .. days_in_month(year, month)
  BY DEF Dates, ValidDate
<1>2. PICK Y \in Int, mp \in 0 .. 11, k \in Int :
         /\ year = (IF mp < 10 THEN Y ELSE Y + 1)
         /\ month = (IF mp < 10 THEN mp + 3 ELSE mp - 9)
         /\ k = day - 1
  <2>1. CASE month > 2
    BY <1>1, <2>1
  <2>2. CASE month <= 2
    BY <1>1, <2>2
  <2>3. QED
    BY <2>1, <2>2
<1>3. PICK era \in Int, y \in Int : Y = y + era * 400 /\ Within(0, y, 399)
  <2>1. Y \div 400 \in Int /\ Within(0, Y - (Y \div 400) * 400, 399)
    BY DEF Within
  <2>2. Y = (Y - (Y \div 400) * 400) + (Y \div 400) * 400
    OBVIOUS
  <2>3. QED
    BY <2>1, <2>2 DEF Within
<1>4. date = MarchDate(Y, mp, k)
  BY <1>1, <1>2 DEF MarchDate
<1>5. PICK doy \in Int : doy = DaysBeforeMonth(mp) + k
  BY DEF DaysBeforeMonth
<1>6. Placed(era, y, Y, mp, k, doy)
  <2>1. CASE mp \in 0 .. 10
    <3>1. LengthOf(mp) = days_in_month(year, month)
      BY <1>2, <2>1, LengthsAgree
    <3>2. k \in Nat /\ k < LengthOf(mp)
      BY <1>1, <1>2, <2>1, <3>1 DEF LengthOf, DaysBeforeMonth
    <3>3. doy >= 0 /\ doy <= 364
      BY <1>5, <2>1, <3>2 DEF LengthOf, DaysBeforeMonth
    <3>4. QED
      BY <1>2, <1>3, <1>5, <3>2, <3>3 DEF Placed, MarchDay, Within
  <2>2. CASE mp = 11
    <3>1. year = Y + 1 /\ month = 2
      BY <1>2, <2>2
    <3>2. k \in Nat /\ k <= 28 /\ (k = 28 => IsLeap(Y + 1))
      BY <1>1, <1>2, <3>1 DEF days_in_month
    <3>3. IsLeap(Y + 1) <=> IsLeap(y + 1)
      BY <1>3 DEF IsLeap, Within
    <3>4. DaysBeforeMonth(mp) = 337 /\ LengthOf(mp) = 30
      BY <2>2 DEF LengthOf, DaysBeforeMonth
    <3>5. QED
      BY <1>3, <1>5, <2>2, <3>2, <3>3, <3>4 DEF Placed, MarchDay, Within
  <2>3. QED
    BY <2>1, <2>2
<1>7. QED
  BY <1>4, <1>6

(* So is every number of days since the epoch, before it or after.         *)
LEMMA DayIsMarch ==
  ASSUME NEW z \in Int
  PROVE  \E era \in Int, y \in Int, Y \in Int, mp \in Int, k \in Int, doy \in Int :
            Placed(era, y, Y, mp, k, doy) /\ z = EpochDay(era, y, doy)
<1>1. PICK era \in Int, doe \in Int : Within(0, doe, 146096) /\ z + 719468 = era * 146097 + doe
  <2>1. PICK s \in Int : s = z + 719468
    OBVIOUS
  <2>2. s \div 146097 \in Int /\ Within(0, s - (s \div 146097) * 146097, 146096)
    BY DEF Within
  <2>3. s = (s \div 146097) * 146097 + (s - (s \div 146097) * 146097)
    OBVIOUS
  <2>4. PICK e \in Int, d \in Int : Within(0, d, 146096) /\ s = e * 146097 + d
    BY <2>2, <2>3 DEF Within
  <2>5. QED
    BY <2>1, <2>4
<1>2. PICK y \in Int, doy \in Int : MarchDay(y, doy) /\ doe = DaysBeforeYear(y) + doy
  BY <1>1, YearExists
<1>3. PICK mp \in 0 .. 11, k \in Nat : k < LengthOf(mp) /\ doy = DaysBeforeMonth(mp) + k
  BY <1>2, MonthExists DEF MarchDay
<1>4. PICK Y \in Int : Y = y + era * 400
  OBVIOUS
<1>5. Placed(era, y, Y, mp, k, doy)
  BY <1>2, <1>3, <1>4 DEF Placed
<1>6. z = EpochDay(era, y, doy)
  BY <1>1, <1>2 DEF EpochDay, DaysBeforeYear
<1>7. QED
  BY <1>5, <1>6

(* The date of the day of a date is the date: civil_from_days undoes       *)
(* days_from_civil, for every year, before year 0 too.                     *)
THEOREM CivilRoundTrip ==
  ASSUME NEW date \in Dates
  PROVE  civil_from_days(DayOf(date)) = date
<1>1. PICK era \in Int, y \in Int, Y \in Int, mp \in Int, k \in Int, doy \in Int :
         Placed(era, y, Y, mp, k, doy) /\ date = MarchDate(Y, mp, k)
  BY DateIsMarch
<1>2. QED
  BY <1>1, MarchIsDate, MarchFound

(* Every number of days, before 1970 or after, is the day of a date that   *)
(* exists, and days_from_civil gives the number back.                      *)
THEOREM DaysRoundTrip ==
  ASSUME NEW z \in Int
  PROVE  civil_from_days(z) \in Dates /\ DayOf(civil_from_days(z)) = z
<1>1. PICK era \in Int, y \in Int, Y \in Int, mp \in Int, k \in Int, doy \in Int :
         Placed(era, y, Y, mp, k, doy) /\ z = EpochDay(era, y, doy)
  BY DayIsMarch
<1>2. QED
  BY <1>1, MarchIsDate, MarchFound

(* The number of a day as the leap years before it count it, without eras. *)
FlatDays(Y, mp, k) ==
  365 * Y + Y \div 4 - Y \div 100 + Y \div 400 + DaysBeforeMonth(mp) + k - 719468

(* days_from_civil gives this number.                                      *)
LEMMA FlatDay ==
  ASSUME NEW Y \in Int, NEW mp \in 0 .. 11, NEW k \in Int
  PROVE  DayOf(MarchDate(Y, mp, k)) = FlatDays(Y, mp, k)
<1>1. PICK era \in Int, y \in Int : Y \div 400 = era /\ Y - era * 400 = y
  OBVIOUS
<1>2. PICK doy \in Int : doy = DaysBeforeMonth(mp) + k
  BY DEF DaysBeforeMonth
<1>3. Y \div 4 = 100 * era + y \div 4 /\ Y \div 100 = 4 * era + y \div 100
  BY <1>1
<1>4. DayOf(MarchDate(Y, mp, k)) = EpochDay(era, y, doy)
  BY <1>1, <1>2, DayCount
<1>5. QED
  BY <1>1, <1>2, <1>3, <1>4 DEF FlatDays, EpochDay, DaysBeforeYear, DaysBeforeMonth

(* The day days_from_civil counts from is the first of January 1970.       *)
THEOREM DayZero == days_from_civil(1970, 1, 1) = 0
<1>1. Era(1969, 400) = 4
  BY DEF Era, Quotient
<1>2. QED
  BY <1>1 DEF days_from_civil, EpochDay, DaysBeforeYear, DaysBeforeMonth

(* The day after a date, by the lengths of months that parse checks,       *)
(* exists and has the next number: days_from_civil skips no day and counts *)
(* none twice, over the ends of months, leap years and centuries. With     *)
(* DayZero this makes it the Gregorian calendar, so that the round trips   *)
(* above are not those of some other one.                                  *)
THEOREM NextDay ==
  ASSUME NEW date \in Dates
  PROVE  Tomorrow(date) \in Dates /\ DayOf(Tomorrow(date)) = DayOf(date) + 1
<1>1. PICK Y \in Int, mp \in 0 .. 11, k \in Nat : date = MarchDate(Y, mp, k)
  BY DateIsMarch DEF Placed
<1>a. PICK year \in Int : year = IF mp < 10 THEN Y ELSE Y + 1
  OBVIOUS
<1>b. PICK month \in 1 .. 12 : month = IF mp < 10 THEN mp + 3 ELSE mp - 9
  OBVIOUS
<1>c. PICK last \in Int : last = days_in_month(year, month)
  BY DEF days_in_month
<1>2. date = [year |-> year, month |-> month, day |-> k + 1] /\ k + 1 <= last
  <2>1. date = [year |-> year, month |-> month, day |-> k + 1]
    BY <1>1, <1>a, <1>b DEF MarchDate
  <2>2. QED
    BY <2>1, <1>c DEF Dates, ValidDate
<1>3. CASE k + 1 < last
  <2>1. PICK j \in Nat : j = k + 1
    OBVIOUS
  <2>2. Tomorrow(date) = MarchDate(Y, mp, j)
    BY <1>a, <1>b, <1>c, <1>2, <1>3, <2>1 DEF Tomorrow, MarchDate
  <2>3. Tomorrow(date) \in Dates
    BY <1>2, <1>c, <1>3 DEF Tomorrow, Dates, ValidDate
  <2>4. DayOf(date) = FlatDays(Y, mp, k) /\ DayOf(Tomorrow(date)) = FlatDays(Y, mp, j)
    BY <1>1, <2>1, <2>2, FlatDay
  <2>5. QED
    BY <2>1, <2>3, <2>4 DEF FlatDays, DaysBeforeMonth
<1>4. CASE k + 1 = last /\ mp # 11
  <2>1. PICK m \in 0 .. 11 : m = mp + 1
    BY <1>4
  <2>2. Tomorrow(date) = MarchDate(Y, m, 0)
    <3>1. CASE month < 12
      BY <1>a, <1>b, <1>c, <1>2, <1>4, <2>1, <3>1 DEF Tomorrow, MarchDate
    <3>2. CASE month = 12
      BY <1>a, <1>b, <1>c, <1>2, <1>4, <2>1, <3>2 DEF Tomorrow, MarchDate
    <3>3. QED
      BY <3>1, <3>2
  <2>3. Tomorrow(date) \in Dates
    BY <1>2, <1>c, <1>4 DEF Tomorrow, Dates, ValidDate, days_in_month
  <2>4. DaysBeforeMonth(m) = DaysBeforeMonth(mp) + k + 1
    <3>1. mp \in 0 .. 10
      BY <1>4
    <3>2. LengthOf(mp) = last
      BY <3>1, <1>b, <1>c, LengthsAgree
    <3>3. QED
      BY <1>4, <2>1, <3>1, <3>2 DEF LengthOf, DaysBeforeMonth
  <2>5. DayOf(date) = FlatDays(Y, mp, k) /\ DayOf(Tomorrow(date)) = FlatDays(Y, m, 0)
    BY <1>1, <2>1, <2>2, FlatDay
  <2>6. DaysBeforeMonth(mp) \in Int /\ DaysBeforeMonth(m) \in Int
    BY DEF DaysBeforeMonth
  <2>7. QED
    BY <2>3, <2>4, <2>5, <2>6 DEF FlatDays
<1>5. CASE k + 1 = last /\ mp = 11
  <2>1. PICK Z \in Int : Z = Y + 1
    OBVIOUS
  <2>2. year = Z /\ month = 2
    BY <1>a, <1>b, <1>5, <2>1
  <2>3. Tomorrow(date) = MarchDate(Z, 0, 0)
    BY <1>c, <1>2, <1>5, <2>2 DEF Tomorrow, MarchDate
  <2>4. Tomorrow(date) \in Dates
    BY <1>2, <1>c, <1>5, <2>2 DEF Tomorrow, Dates, ValidDate, days_in_month
  <2>5. k = IF IsLeap(Z) THEN 28 ELSE 27
    BY <1>c, <1>5, <2>2 DEF days_in_month
  <2>6. Z \div 4 - Z \div 100 + Z \div 400
          = Y \div 4 - Y \div 100 + Y \div 400 + (IF IsLeap(Z) THEN 1 ELSE 0)
    BY <2>1 DEF IsLeap
  <2>7. DaysBeforeMonth(0) = 0 /\ DaysBeforeMonth(11) = 337
    BY DEF DaysBeforeMonth
  <2>8. DayOf(date) = FlatDays(Y, 11, k) /\ DayOf(Tomorrow(date)) = FlatDays(Z, 0, 0)
    BY <1>1, <1>5, <2>3, FlatDay
  <2>9. QED
    BY <2>1, <2>4, <2>5, <2>6, <2>7, <2>8 DEF FlatDays
<1>6. QED
  BY <1>2, <1>3, <1>4, <1>5

----------------------------------------------------------------------------
(* A moment of a day, in milliseconds.                                     *)
InMs(days, h, m, s) == days * 86400000 + h * 3600000 + m * 60000 + s * 1000

(* format takes a moment apart into a day and a time of that day.          *)
LEMMA FormatSplits ==
  ASSUME NEW ms \in Int
  PROVE  \E days \in Int, h \in Int, m \in Int, s \in Int :
            /\ format(ms) = [date |-> civil_from_days(days), hour |-> h, minute |-> m, second |-> s]
            /\ Within(0, h, 23) /\ Within(0, m, 59) /\ Within(0, s, 59)
            /\ InMs(days, h, m, s) = WholeSeconds(ms)
<1>1. PICK days \in Int, t \in Int :
         days = ms \div 86400000 /\ t = ms % 86400000 /\ Within(0, t, 86399999)
         /\ ms = days * 86400000 + t
  BY DEF Within
<1>2. PICK h \in Int, u \in Int :
         h = t \div 3600000 /\ u = t % 3600000 /\ Within(0, h, 23) /\ Within(0, u, 3599999)
         /\ t = h * 3600000 + u
  BY <1>1 DEF Within
<1>3. PICK m \in Int, v \in Int :
         m = u \div 60000 /\ v = t % 60000 /\ Within(0, m, 59) /\ Within(0, v, 59999)
         /\ u = m * 60000 + v
  BY <1>1, <1>2 DEF Within
<1>4. PICK s \in Int, w \in Int :
         s = v \div 1000 /\ w = ms % 1000 /\ Within(0, s, 59) /\ v = s * 1000 + w
  BY <1>1, <1>2, <1>3 DEF Within
<1>5. InMs(days, h, m, s) = WholeSeconds(ms)
  BY <1>1, <1>2, <1>3, <1>4 DEF InMs, WholeSeconds, MsPerSecond
<1>6. format(ms) = [date |-> civil_from_days(days), hour |-> h, minute |-> m, second |-> s]
  BY <1>1, <1>2, <1>3, <1>4 DEF format, MsPerDay, MsPerHour, MsPerMinute, MsPerSecond
<1>7. Within(0, h, 23) /\ Within(0, m, 59) /\ Within(0, s, 59)
  BY <1>2, <1>3, <1>4
<1>8. QED
  BY <1>5, <1>6, <1>7, Zenon

(* The fields that format prints are ones parse accepts, before 1970 too,  *)
(* and they are the moment's whole seconds: only the milliseconds are      *)
(* lost, always downwards.                                                 *)
THEOREM FormatKeepsSeconds ==
  ASSUME NEW ms \in Int
  PROVE  ValidFields(format(ms)) /\ Milliseconds(format(ms)) = WholeSeconds(ms)
<1>1. PICK days \in Int, h \in Int, m \in Int, s \in Int :
         /\ format(ms) = [date |-> civil_from_days(days), hour |-> h, minute |-> m, second |-> s]
         /\ Within(0, h, 23) /\ Within(0, m, 59) /\ Within(0, s, 59)
         /\ InMs(days, h, m, s) = WholeSeconds(ms)
  BY FormatSplits
<1>2. PICK date \in Dates : date = civil_from_days(days) /\ DayOf(date) = days
  BY DaysRoundTrip
<1>3. ValidFields(format(ms))
  BY <1>1, <1>2 DEF ValidFields, Dates, Within
<1>4. Milliseconds(format(ms)) = WholeSeconds(ms)
  BY <1>1, <1>2 DEF Milliseconds, InMs, DayOf, MsPerDay, MsPerHour, MsPerMinute, MsPerSecond
<1>5. QED
  BY <1>3, <1>4

(* A date and time that parse accepts is printed back by format, field by  *)
(* field.                                                                  *)
THEOREM ParseThenFormat ==
  ASSUME NEW fields \in [date : Dates, hour : Int, minute : Int, second : Int], ValidFields(fields)
  PROVE  format(Milliseconds(fields)) = fields
<1>1. PICK date \in Dates, h \in Int, m \in Int, s \in Int :
         fields = [date |-> date, hour |-> h, minute |-> m, second |-> s]
  OBVIOUS
<1>2. h >= 0 /\ h <= 23 /\ m >= 0 /\ m <= 59 /\ s >= 0 /\ s <= 59
  BY <1>1 DEF ValidFields
<1>3. PICK days \in Int : days = DayOf(date) /\ civil_from_days(days) = date
  <2>1. DayOf(date) \in Int
    BY DEF Dates, DayOf, days_from_civil, EpochDay, DaysBeforeYear, DaysBeforeMonth, Era, Quotient
  <2>2. QED
    BY <2>1, CivilRoundTrip
<1>4. PICK ms \in Int :
         /\ ms = Milliseconds(fields)
         /\ ms = days * 86400000 + h * 3600000 + m * 60000 + s * 1000
  BY <1>1, <1>3 DEF Milliseconds, DayOf, MsPerDay, MsPerHour, MsPerMinute, MsPerSecond
<1>5. PICK t \in Int, u \in Int, v \in Int :
         t = h * 3600000 + u /\ u = m * 60000 + v /\ v = s * 1000
  OBVIOUS
<1>6. ms \div 86400000 = days /\ ms % 86400000 = t
  BY <1>2, <1>4, <1>5
<1>7. t \div 3600000 = h /\ t % 3600000 = u /\ t % 60000 = v
  BY <1>2, <1>5
<1>8. u \div 60000 = m /\ v \div 1000 = s
  BY <1>2, <1>5
<1>9. format(ms) = [date |-> civil_from_days(days), hour |-> h, minute |-> m, second |-> s]
  BY <1>6, <1>7, <1>8 DEF format, MsPerDay, MsPerHour, MsPerMinute, MsPerSecond
<1>10. QED
  BY <1>1, <1>3, <1>4, <1>9

(* What format prints of an i64, parse reads as the same moment less its   *)
(* milliseconds. The hypothesis leaves out the first second of the range   *)
(* only, whose beginning is below i64's least value: parse refuses what    *)
(* format prints of it.                                                    *)
THEOREM FormatThenParse ==
  ASSUME MinInt \in Int, MaxInt \in Int,
         NEW ms \in MinInt .. MaxInt, WholeSeconds(ms) >= MinInt
  PROVE  parse(format(ms)) = [ok |-> TRUE, value |-> WholeSeconds(ms)]
<1>1. ValidFields(format(ms)) /\ Milliseconds(format(ms)) = WholeSeconds(ms)
  BY FormatKeepsSeconds
<1>2. WholeSeconds(ms) \in MinInt .. MaxInt
  BY DEF WholeSeconds, MsPerSecond
<1>3. QED
  BY <1>1, <1>2 DEF parse

(* The moment that parse returns is the one whose fields it read: no two   *)
(* dates and times are read as the same moment, and no overflow moves one. *)
THEOREM ParseAcceptsOneMoment ==
  ASSUME NEW fields \in [date : Dates, hour : Int, minute : Int, second : Int], parse(fields).ok
  PROVE  format(parse(fields).value) = fields
<1>1. ValidFields(fields) /\ parse(fields).value = Milliseconds(fields)
  BY DEF parse
<1>2. QED
  BY <1>1, ParseThenFormat
=============================================================================
