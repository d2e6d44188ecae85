---------------------------- MODULE CalendarProofs ----------------------------
(***************************************************************************)
(* The two conversions of dashboard.rs undo each other and agree with the  *)
(* calendar on every day from 1970 on, without a bound: a day of an era is *)
(* taken apart into century, four years, year and day of the year          *)
(* (Parsed), which are the ones the divisions find.                        *)
(*                                                                         *)
(* An interval between two numerals is written out by the prover, element  *)
(* by element: long ones are given here by their bounds.                   *)
(***************************************************************************)
EXTENDS Calendar, FiniteSetTheorems, FunctionTheorems, TLAPS

Dates == [y : Nat, m : Nat, d : Nat]

YearOfEra(doe) == (doe - doe \div 1460 + doe \div 36524 - doe \div 146096) \div 365

(* A day of an era by century, four years, year and day of the year.        *)
Parsed(doe, c, q, z, doy) ==
    /\ c \in Nat /\ c <= 3 /\ q \in Nat /\ q <= 24 /\ z \in Nat /\ z <= 3
    /\ doy \in Nat /\ doy <= 365 /\ (doy = 365 => z = 3 /\ (q < 24 \/ c = 3))
    /\ doe = 36524 * c + 1461 * q + 365 * z + doy

LEMMA ParsedDay ==
  ASSUME NEW doe \in Nat, doe <= 146096
  PROVE  \E c, q, z, doy : Parsed(doe, c, q, z, doy)
<1>1. \E c, r \in Nat : c <= 3 /\ r <= 36524 /\ doe = 36524 * c + r /\ (r = 36524 => c = 3)
  <2>1. CASE doe = 146096
    <3>1. doe = 36524 * 3 + 36524
      BY <2>1, SMT
    <3> QED BY <3>1, SMT
  <2>2. CASE doe # 146096
    <3> DEFINE c == doe \div 36524
               r == doe - 36524 * c
    <3>1. c \in Nat /\ c <= 3 /\ r \in Nat /\ r < 36524 /\ doe = 36524 * c + r
      BY <2>2, SMT
    <3> HIDE DEF c, r
    <3> QED BY <3>1, SMT
  <2> QED BY <2>1, <2>2, SMT
<1>2. PICK c \in Nat, r \in Nat : c <= 3 /\ r <= 36524 /\ doe = 36524 * c + r /\ (r = 36524 => c = 3)
  BY <1>1, SMT
<1>3. \E q, s \in Nat : q <= 24 /\ s <= 1460 /\ r = 1461 * q + s /\ (s = 1460 => q < 24 \/ c = 3)
  <2> DEFINE q == r \div 1461
             s == r - 1461 * q
  <2>1. q \in Nat /\ q <= 24 /\ s \in Nat /\ s <= 1460 /\ r = 1461 * q + s
    BY <1>2, SMT
  <2>2. s = 1460 => q < 24 \/ c = 3
    BY <1>2, <2>1, SMT
  <2> HIDE DEF q, s
  <2> QED BY <2>1, <2>2, SMT
<1>4. PICK q \in Nat, s \in Nat : q <= 24 /\ s <= 1460 /\ r = 1461 * q + s /\ (s = 1460 => q < 24 \/ c = 3)
  BY <1>3, SMT
<1>5. \E z, doy \in Nat : z <= 3 /\ doy <= 365 /\ s = 365 * z + doy /\ (doy = 365 => z = 3 /\ s = 1460)
  <2>1. CASE s = 1460
    <3>1. s = 365 * 3 + 365
      BY <2>1, SMT
    <3> QED BY <2>1, <3>1, SMT
  <2>2. CASE s # 1460
    <3> DEFINE z == s \div 365
               doy == s - 365 * z
    <3>1. z \in Nat /\ z <= 3 /\ doy \in Nat /\ doy < 365 /\ s = 365 * z + doy
      BY <1>4, <2>2, SMT
    <3> HIDE DEF z, doy
    <3> QED BY <3>1, SMT
  <2> QED BY <2>1, <2>2, SMT
<1>6. PICK z \in Nat, doy \in Nat : z <= 3 /\ doy <= 365 /\ s = 365 * z + doy /\ (doy = 365 => z = 3 /\ s = 1460)
  BY <1>5, SMT
<1>7. doe = 36524 * c + 1461 * q + 365 * z + doy
  BY <1>2, <1>4, <1>6, SMT
<1>8. doy = 365 => z = 3 /\ (q < 24 \/ c = 3)
  BY <1>4, <1>6, SMT
<1>9. Parsed(doe, c, q, z, doy)
  BY <1>2, <1>4, <1>6, <1>7, <1>8, SMT DEF Parsed
<1> QED BY <1>9

LEMMA YearFound ==
  ASSUME NEW doe, NEW c, NEW q, NEW z, NEW doy, Parsed(doe, c, q, z, doy)
  PROVE  YearOfEra(doe) = 100 * c + 4 * q + z
<1> DEFINE e == IF 24 * c + q + 365 * z + doy < 1460 THEN 0 ELSE 1
<1> USE DEF Parsed
<1>1. doe \div 1460 = 25 * c + q + e
  BY SMT
<1>2. doe \div 36524 - doe \div 146096 = c
  <2>1. CASE doe = 146096
    BY <2>1, SMT
  <2>2. CASE doe # 146096
    <3>1. doe < 36524 * (c + 1) /\ doe >= 36524 * c /\ doe \in Nat /\ doe < 146096
      BY <2>2, SMT
    <3>2. doe \div 36524 = c /\ doe \div 146096 = 0
      BY <3>1, SMT
    <3> QED BY <3>2, SMT
  <2> QED BY <2>1, <2>2, SMT
<1>3. doy - e \in Nat /\ doy - e <= 364
  BY SMT
<1>4. doe \in Nat /\ e \in {0, 1}
  BY SMT
<1> HIDE DEF e
<1>5. doe - doe \div 1460 + doe \div 36524 - doe \div 146096 = 365 * (100 * c + 4 * q + z) + (doy - e)
  BY <1>1, <1>2, <1>4, SMT
<1>6. (365 * (100 * c + 4 * q + z) + (doy - e)) \div 365 = 100 * c + 4 * q + z
  BY <1>3, <1>4, SMT
<1> QED BY <1>5, <1>6, SMT DEF YearOfEra

(* The year and the day found are those of the parsed day.                  *)
LEMMA YearBegins ==
  ASSUME NEW doe, NEW c, NEW q, NEW z, NEW doy, Parsed(doe, c, q, z, doy),
         NEW yoe, yoe = YearOfEra(doe)
  PROVE  /\ yoe = 100 * c + 4 * q + z /\ yoe \in Nat /\ yoe <= 399
         /\ yoe \div 4 = 25 * c + q /\ yoe \div 100 = c
         /\ doy = doe - (365 * yoe + yoe \div 4 - yoe \div 100)
<1>1. yoe = 100 * c + 4 * q + z
  BY YearFound
<1> USE DEF Parsed
<1>2. yoe \in Nat /\ yoe <= 399 /\ 4 * q + z <= 99
  BY <1>1, SMT
<1>3. yoe \div 4 = 25 * c + q /\ yoe \div 100 = c
  BY <1>1, <1>2, SMT
<1>4. doy = doe - (365 * yoe + yoe \div 4 - yoe \div 100)
  BY <1>1, <1>3, SMT
<1> HIDE DEF Parsed
<1> QED BY <1>1, <1>2, <1>3, <1>4, SMT

LEMMA LeapDay ==
  ASSUME NEW doe, NEW c, NEW q, NEW z, NEW era \in Int, Parsed(doe, c, q, z, 365),
         NEW y, y = 100 * c + 4 * q + z + 400 * era + 1
  PROVE  Leap(y)
<1> USE DEF Parsed
<1>1. z = 3 /\ y = 4 * (25 * c + q + 100 * era + 1)
  BY SMT
<1>2. y % 4 = 0
  BY <1>1, SMT
<1>3. CASE q = 24
  <2>1. y = 400 * (era + 1)
    BY <1>1, <1>3, SMT
  <2>2. y % 400 = 0
    BY <2>1, SMT
  <2> QED BY <1>2, <2>2 DEF Leap
<1>4. CASE q < 24
  <2>1. y = 100 * (c + 4 * era) + 4 * (q + 1) /\ 4 * (q + 1) > 0 /\ 4 * (q + 1) < 100
    BY <1>1, <1>4, SMT
  <2>2. y % 100 = 4 * (q + 1)
    BY <2>1, SMT
  <2> QED BY <1>2, <2>1, <2>2, SMT DEF Leap
<1> QED BY <1>3, <1>4, SMT

(* A day of a month by the day of the year, which begins in March.          *)
MonthOf(doy) == (5 * doy + 2) \div 153

LEMMA MonthFound ==
  ASSUME NEW doy \in Nat, doy <= 365
  PROVE  /\ MonthOf(doy) \in Nat /\ MonthOf(doy) <= 11
         /\ doy >= DaysToMonth(MonthOf(doy))
         /\ doy < DaysToMonth(MonthOf(doy) + 1)
BY SMT DEF MonthOf, DaysToMonth

MonthName(mp) == IF mp < 10 THEN mp + 3 ELSE mp - 9

LEMMA DaysInMonth ==
  ASSUME NEW mp \in 0 .. 11, NEW y \in Int
  PROVE  /\ mp # 11 => DaysIn(y, MonthName(mp)) = DaysToMonth(mp + 1) - DaysToMonth(mp)
         /\ mp = 11 => DaysIn(y, MonthName(mp)) = IF Leap(y) THEN 29 ELSE 28
         /\ MonthName(mp) \in 1 .. 12
         /\ (MonthName(mp) <= 2) <=> (mp >= 10)
<1>1. CASE mp = 11
  BY <1>1, SMT DEF DaysIn, MonthName
<1>2. CASE mp # 11
  BY <1>2, SMT DEF DaysIn, MonthName, DaysToMonth
<1> QED BY <1>1, <1>2, SMT

(* A date by the year that begins in March. *)
MarchYear(t) == IF t.m <= 2 THEN t.y - 1 ELSE t.y
MarchMonth(t) == IF t.m > 2 THEN t.m - 3 ELSE t.m + 9
YearStart(yp) == 365 * yp + yp \div 4 - yp \div 100 + yp \div 400

LEMMA YearStartInEra ==
  ASSUME NEW era \in Int, NEW yoe \in Nat, yoe <= 399
  PROVE  /\ (yoe + era * 400) \div 400 = era
         /\ YearStart(yoe + era * 400) = era * DaysPerEra + (yoe * 365 + yoe \div 4 - yoe \div 100)
<1>1. (yoe + era * 400) \div 400 = era
  BY SMT
<1>2. (yoe + era * 400) \div 100 = yoe \div 100 + 4 * era
  BY SMT
<1>3. (yoe + era * 400) \div 4 = yoe \div 4 + 100 * era
  BY SMT
<1> QED BY <1>1, <1>2, <1>3, SMT DEF YearStart, DaysPerEra

LEMMA DaysByParts ==
  ASSUME NEW t, t.y \in Int, t.m \in Int, t.d \in Int
  PROVE  DaysOf(t) = YearStart(MarchYear(t)) + DaysToMonth(MarchMonth(t)) + t.d - 1 - DaysToEpoch
<1> DEFINE yp == MarchYear(t)
           era == yp \div 400
           yoe == yp - era * 400
<1>1. yp \in Int
  BY SMT DEF MarchYear
<1> HIDE DEF yp
<1>2. era \in Int /\ yoe \in Nat /\ yoe <= 399 /\ yp = yoe + era * 400
  BY <1>1, SMT
<1>3. MarchMonth(t) \in Int /\ DaysToMonth(MarchMonth(t)) \in Int /\ DaysToEpoch \in Int
  BY SMT DEF MarchMonth, DaysToMonth, DaysToEpoch
<1>4. DaysOf(t) = era * DaysPerEra
          + (yoe * 365 + yoe \div 4 - yoe \div 100 + DaysToMonth(MarchMonth(t)) + t.d - 1) - DaysToEpoch
  BY Zenon DEF DaysOf, MarchMonth, yp, MarchYear
<1> HIDE DEF era, yoe
<1>5. YearStart(yp) = era * DaysPerEra + (yoe * 365 + yoe \div 4 - yoe \div 100)
  BY <1>2, YearStartInEra, SMT
<1>6. era * DaysPerEra \in Int /\ yoe \div 4 \in Int /\ yoe \div 100 \in Int
  BY <1>2, SMT DEF DaysPerEra
<1> QED BY <1>2, <1>3, <1>4, <1>5, <1>6, SMT DEF yp


Era(n) == (n + DaysToEpoch) \div DaysPerEra
DayOfEra(n) == n + DaysToEpoch - Era(n) * DaysPerEra
YearIn(n) == YearOfEra(DayOfEra(n))
DayOfYear(n) == DayOfEra(n) - (365 * YearIn(n) + YearIn(n) \div 4 - YearIn(n) \div 100)
MonthIn(n) == MonthOf(DayOfYear(n))

LEMMA DateByParts ==
  ASSUME NEW n
  PROVE  DateOf(n) = [y |-> YearIn(n) + Era(n) * 400 + (IF MonthName(MonthIn(n)) <= 2 THEN 1 ELSE 0),
                      m |-> MonthName(MonthIn(n)),
                      d |-> DayOfYear(n) - DaysToMonth(MonthIn(n)) + 1]
BY SMT DEF DateOf, Era, DayOfEra, YearIn, DayOfYear, MonthIn, YearOfEra, MonthOf, MonthName

LEMMA EraFound ==
  ASSUME NEW n \in Nat
  PROVE  /\ Era(n) \in Nat /\ DayOfEra(n) \in Nat /\ DayOfEra(n) <= 146096
         /\ n + DaysToEpoch = Era(n) * DaysPerEra + DayOfEra(n)
BY SMT DEF Era, DayOfEra, DaysPerEra, DaysToEpoch

(* Every day since 1970 is shown with a date that exists, and that date,    *)
(* typed, is the same day (format_ns, parse_date_to_ns).                    *)
THEOREM DateFound ==
  ASSUME NEW n \in Nat
  PROVE  /\ DateOf(n) \in Dates /\ Exists(DateOf(n))
         /\ DaysOf(DateOf(n)) = n
<1> DEFINE era == Era(n)
           doe == DayOfEra(n)
           yoe == YearIn(n)
           doy == DayOfYear(n)
           mp  == MonthIn(n)
           t   == DateOf(n)
<1>1. /\ era \in Nat /\ doe \in Nat /\ doe <= 146096
      /\ n + DaysToEpoch = era * DaysPerEra + doe
  BY EraFound
<1>2. PICK c, q, z, dp : Parsed(doe, c, q, z, dp)
  BY <1>1, ParsedDay
<1>3. /\ yoe = 100 * c + 4 * q + z /\ yoe \in Nat /\ yoe <= 399
      /\ dp = doe - (365 * yoe + yoe \div 4 - yoe \div 100)
  BY <1>2, YearBegins DEF YearIn
<1>4. dp = doy
  BY <1>3, Zenon DEF DayOfYear, YearIn
<1>5. /\ doy \in Nat /\ doy <= 365 /\ c \in Nat /\ q \in Nat /\ z \in Nat
      /\ doe = 365 * yoe + yoe \div 4 - yoe \div 100 + doy
  <2>1. dp \in Nat /\ dp <= 365 /\ c \in Nat /\ q \in Nat /\ z \in Nat
    BY <1>2 DEF Parsed
  <2>2. doe = 365 * yoe + yoe \div 4 - yoe \div 100 + dp
    BY <1>1, <1>3, <2>1, SMT
  <2> QED BY <1>4, <2>1, <2>2
<1>6. /\ mp \in 0 .. 11 /\ doy >= DaysToMonth(mp) /\ doy < DaysToMonth(mp + 1)
  <2>1. mp = MonthOf(doy)
    BY DEF MonthIn
  <2> HIDE DEF mp, doy
  <2>2. mp \in Nat /\ mp <= 11 /\ doy >= DaysToMonth(mp) /\ doy < DaysToMonth(mp + 1)
    BY <1>5, <2>1, MonthFound
  <2> QED BY <2>2, SMT
<1>7. t = [y |-> yoe + era * 400 + (IF MonthName(mp) <= 2 THEN 1 ELSE 0),
           m |-> MonthName(mp), d |-> doy - DaysToMonth(mp) + 1]
  BY DateByParts
<1> HIDE DEF era, doe, yoe, doy, mp, t
<1>8. /\ t.y = yoe + era * 400 + (IF MonthName(mp) <= 2 THEN 1 ELSE 0)
      /\ t.m = MonthName(mp) /\ t.d = doy - DaysToMonth(mp) + 1
  BY <1>7
<1>9. DaysToMonth(mp) \in Int /\ MonthName(mp) \in 1 .. 12 /\ (MonthName(mp) <= 2 <=> mp >= 10)
  BY <1>6, SMT DEF DaysToMonth, MonthName
<1>10. t.y \in Nat /\ t.m \in 1 .. 12 /\ t.d \in Nat /\ t.d >= 1
  BY <1>1, <1>3, <1>5, <1>6, <1>8, <1>9, SMT
<1>11. t.d <= DaysIn(t.y, t.m)
  <2>1. CASE mp # 11
    <3>1. DaysIn(t.y, t.m) = DaysToMonth(mp + 1) - DaysToMonth(mp)
      BY <1>6, <1>8, <1>10, <2>1, DaysInMonth
    <3>2. DaysToMonth(mp + 1) \in Int
      BY <1>6, SMT DEF DaysToMonth
    <3> QED BY <1>5, <1>6, <1>8, <1>9, <3>1, <3>2, SMT
  <2>2. CASE mp = 11
    <3>1. DaysIn(t.y, t.m) = IF Leap(t.y) THEN 29 ELSE 28
      BY <1>6, <1>8, <1>10, <2>2, DaysInMonth
    <3>2. t.d = doy - 336 /\ t.y = yoe + era * 400 + 1
      BY <1>1, <1>3, <1>5, <1>6, <1>8, <1>9, <2>2, SMT DEF DaysToMonth
    <3>3. CASE doy = 365
      <4>1. t.y = 100 * c + 4 * q + z + 400 * era + 1
        BY <1>1, <1>3, <1>5, <3>2, SMT
      <4>2. Leap(t.y)
        BY <1>1, <1>2, <1>4, <3>3, <4>1, LeapDay
      <4> QED BY <3>1, <3>2, <3>3, <4>2, SMT
    <3>4. CASE doy # 365
      BY <1>5, <3>1, <3>2, <3>4, SMT
    <3> QED BY <3>3, <3>4
  <2> QED BY <2>1, <2>2
<1>12. Exists(t)
  BY <1>10, <1>11, SMT DEF Exists
<1>13. DaysOf(t) = n
  <2>1. MarchYear(t) = yoe + era * 400
    BY <1>1, <1>3, <1>8, <1>9, SMT DEF MarchYear
  <2>2. MarchMonth(t) = mp
    BY <1>6, <1>8, SMT DEF MarchMonth, MonthName
  <2>3. YearStart(yoe + era * 400) = era * DaysPerEra + (yoe * 365 + yoe \div 4 - yoe \div 100)
    BY <1>1, <1>3, YearStartInEra
  <2>4. DaysOf(t) = YearStart(yoe + era * 400) + DaysToMonth(mp) + t.d - 1 - DaysToEpoch
    BY <1>10, <2>1, <2>2, DaysByParts
  <2>5. DaysToEpoch \in Int /\ era * DaysPerEra \in Int /\ yoe \div 4 \in Int /\ yoe \div 100 \in Int
    BY <1>1, <1>3, SMT DEF DaysToEpoch, DaysPerEra
  <2> QED BY <1>1, <1>3, <1>5, <1>8, <1>9, <2>3, <2>4, <2>5, SMT
<1>14. t \in Dates
  BY <1>7, <1>8, <1>10, SMT DEF Dates
<1> QED BY <1>12, <1>13, <1>14 DEF t

(* Years follow one another. *)
LEMMA NextYear ==
  ASSUME NEW a \in Int
  PROVE  YearStart(a + 1) = YearStart(a) + 365 + (IF Leap(a + 1) THEN 1 ELSE 0)
<1>1. (a + 1) \div 4 = a \div 4 + (IF (a + 1) % 4 = 0 THEN 1 ELSE 0)
  BY SMT
<1>2. (a + 1) \div 100 = a \div 100 + (IF (a + 1) % 100 = 0 THEN 1 ELSE 0)
  BY SMT
<1>3. (a + 1) \div 400 = a \div 400 + (IF (a + 1) % 400 = 0 THEN 1 ELSE 0)
  BY SMT
<1>4. /\ (a + 1) % 100 = 0 => (a + 1) % 4 = 0
      /\ (a + 1) % 400 = 0 => (a + 1) % 100 = 0
  BY SMT
<1> QED BY <1>1, <1>2, <1>3, <1>4, SMT DEF YearStart, Leap

LEMMA YearsGrow ==
  ASSUME NEW a \in Int, NEW b \in Int, a <= b
  PROVE  YearStart(a) \in Int /\ YearStart(b) \in Int /\ YearStart(a) <= YearStart(b)
BY SMT DEF YearStart

DateLike(t) == t.y \in Int /\ t.m \in 1 .. 12 /\ t.d \in Nat /\ t.d >= 1
DayOfMarchYear(t) == DaysToMonth(MarchMonth(t)) + t.d - 1

LEMMA InMarchYear ==
  ASSUME NEW t, DateLike(t)
  PROVE  /\ MarchYear(t) \in Int /\ MarchMonth(t) \in 0 .. 11
         /\ DayOfMarchYear(t) \in Nat
         /\ DaysOf(t) = YearStart(MarchYear(t)) + DayOfMarchYear(t) - DaysToEpoch
<1>1. MarchYear(t) \in Int /\ MarchMonth(t) \in 0 .. 11
  BY SMT DEF DateLike, MarchYear, MarchMonth
<1>2. DaysToMonth(MarchMonth(t)) \in Nat
  BY <1>1, SMT DEF DaysToMonth
<1>3. DayOfMarchYear(t) \in Nat
  BY <1>2, SMT DEF DateLike, DayOfMarchYear
<1>4. DaysOf(t) = YearStart(MarchYear(t)) + DaysToMonth(MarchMonth(t)) + t.d - 1 - DaysToEpoch
  BY SMT, DaysByParts DEF DateLike
<1>5. YearStart(MarchYear(t)) \in Int /\ DaysToEpoch \in Int
  BY <1>1, SMT DEF YearStart, DaysToEpoch
<1> QED BY <1>1, <1>2, <1>3, <1>4, <1>5, SMT DEF DateLike, DayOfMarchYear

(* A day that exists ends before the next month and the next year.          *)
LEMMA DayFits ==
  ASSUME NEW t, DateLike(t), Exists(t)
  PROVE  /\ DayOfMarchYear(t) <= 364 + (IF Leap(MarchYear(t) + 1) THEN 1 ELSE 0)
         /\ MarchMonth(t) # 11 => DayOfMarchYear(t) < DaysToMonth(MarchMonth(t) + 1)
<1> DEFINE mp == MarchMonth(t)
<1>1. mp \in 0 .. 11 /\ MarchYear(t) \in Int
  BY InMarchYear
<1>2. t.m = MonthName(mp) /\ t.y \in Int /\ t.d \in Nat /\ t.d <= DaysIn(t.y, t.m)
  BY SMT DEF DateLike, Exists, MarchMonth, MonthName
<1>3. mp = 11 => t.y = MarchYear(t) + 1
  BY SMT DEF DateLike, MarchMonth, MarchYear
<1> HIDE DEF mp
<1>4. /\ mp # 11 => DaysIn(t.y, t.m) = DaysToMonth(mp + 1) - DaysToMonth(mp)
      /\ mp = 11 => DaysIn(t.y, t.m) = IF Leap(t.y) THEN 29 ELSE 28
  BY <1>1, <1>2, DaysInMonth
<1>5. CASE mp = 11
  <2>1. DayOfMarchYear(t) = 336 + t.d
    BY <1>2, <1>5, SMT DEF DayOfMarchYear, DaysToMonth, mp
  <2> QED BY <1>2, <1>3, <1>4, <1>5, <2>1, SMT DEF mp
<1>6. CASE mp # 11
  <2>1. DaysToMonth(mp + 1) \in Nat /\ DaysToMonth(mp) \in Nat /\ DaysToMonth(mp + 1) <= 337
    BY <1>1, <1>6, SMT DEF DaysToMonth
  <2>2. DayOfMarchYear(t) = DaysToMonth(mp) + t.d - 1
    BY DEF DayOfMarchYear, mp
  <2>3. DayOfMarchYear(t) < DaysToMonth(mp + 1)
    BY <1>2, <1>4, <1>6, <2>1, <2>2, SMT
  <2> QED BY <1>2, <2>1, <2>2, <2>3, SMT DEF mp
<1> QED BY <1>5, <1>6

(* A day that exists comes before any later date, whether that exists or    *)
(* not (parse_date_to_ns, which takes 31 days of any month).                *)
THEOREM LaterDate ==
  ASSUME NEW u, DateLike(u), Exists(u), NEW t, DateLike(t), ~NotBefore(u, t)
  PROVE  DaysOf(u) < DaysOf(t)
<1>1. /\ MarchYear(u) \in Int /\ MarchMonth(u) \in 0 .. 11 /\ DayOfMarchYear(u) \in Nat
      /\ DaysOf(u) = YearStart(MarchYear(u)) + DayOfMarchYear(u) - DaysToEpoch
      /\ MarchYear(t) \in Int /\ MarchMonth(t) \in 0 .. 11 /\ DayOfMarchYear(t) \in Nat
      /\ DaysOf(t) = YearStart(MarchYear(t)) + DayOfMarchYear(t) - DaysToEpoch
  BY InMarchYear
<1>2. DaysToEpoch \in Int /\ YearStart(MarchYear(u)) \in Int /\ YearStart(MarchYear(t)) \in Int
  BY <1>1, SMT DEF DaysToEpoch, YearStart
<1>3. \/ MarchYear(u) < MarchYear(t)
      \/ MarchYear(u) = MarchYear(t) /\ MarchMonth(u) < MarchMonth(t)
      \/ MarchYear(u) = MarchYear(t) /\ MarchMonth(u) = MarchMonth(t) /\ u.d < t.d
  BY SMT DEF DateLike, NotBefore, MarchYear, MarchMonth
<1>4. CASE MarchYear(u) < MarchYear(t)
  <2>1. YearStart(MarchYear(u) + 1) <= YearStart(MarchYear(t)) /\ YearStart(MarchYear(u) + 1) \in Int
    <3>1. MarchYear(u) + 1 \in Int /\ MarchYear(u) + 1 <= MarchYear(t)
      BY <1>1, <1>4, SMT
    <3> QED BY <1>1, <3>1, YearsGrow
  <2>2. YearStart(MarchYear(u)) + DayOfMarchYear(u) < YearStart(MarchYear(u) + 1)
    <3>1. /\ YearStart(MarchYear(u) + 1)
               = YearStart(MarchYear(u)) + 365 + (IF Leap(MarchYear(u) + 1) THEN 1 ELSE 0)
          /\ DayOfMarchYear(u) <= 364 + (IF Leap(MarchYear(u) + 1) THEN 1 ELSE 0)
      BY <1>1, NextYear, DayFits
    <3> QED BY <1>1, <1>2, <3>1, SMT
  <2> QED BY <1>1, <1>2, <2>1, <2>2, SMT
<1>5. CASE MarchYear(u) = MarchYear(t) /\ MarchMonth(u) < MarchMonth(t)
  <2>1. DayOfMarchYear(u) < DaysToMonth(MarchMonth(u) + 1)
    <3>1. MarchMonth(u) # 11
      BY <1>1, <1>5, SMT
    <3> QED BY <3>1, DayFits
  <2>2. /\ DaysToMonth(MarchMonth(u) + 1) <= DaysToMonth(MarchMonth(t))
        /\ DaysToMonth(MarchMonth(u) + 1) \in Int /\ DaysToMonth(MarchMonth(t)) \in Int
    BY <1>1, <1>5, SMT DEF DaysToMonth
  <2>3. DaysToMonth(MarchMonth(t)) <= DayOfMarchYear(t)
    BY <2>2, SMT DEF DayOfMarchYear, DateLike
  <2> QED BY <1>1, <1>2, <1>5, <2>1, <2>2, <2>3, SMT
<1>6. CASE MarchYear(u) = MarchYear(t) /\ MarchMonth(u) = MarchMonth(t) /\ u.d < t.d
  <2>1. DaysToMonth(MarchMonth(t)) \in Int
    BY <1>1, SMT DEF DaysToMonth
  <2>2. DayOfMarchYear(u) < DayOfMarchYear(t)
    BY <1>6, <2>1, SMT DEF DayOfMarchYear, DateLike
  <2> QED BY <1>1, <1>2, <1>6, <2>2, SMT
<1> QED BY <1>3, <1>4, <1>5, <1>6

(* No day has two dates. *)
LEMMA DateOfItsDay ==
  ASSUME NEW t \in Dates, Exists(t), DaysOf(t) \in Nat
  PROVE  DateOf(DaysOf(t)) = t
<1>1. PICK u \in Dates : u = DateOf(DaysOf(t))
  BY DateFound
<1>2. Exists(u) /\ DaysOf(u) = DaysOf(t)
  BY <1>1, DateFound
<1>3. DateLike(u) /\ DateLike(t)
  BY <1>2, SMT DEF DateLike, Exists, Dates
<1>4. NotBefore(u, t) /\ NotBefore(t, u)
  <2>1. DaysOf(t) \in Int
    OBVIOUS
  <2> QED BY <1>2, <1>3, <2>1, LaterDate, SMT
<1>5. u.y = t.y /\ u.m = t.m /\ u.d = t.d
  BY <1>3, <1>4, SMT DEF NotBefore, DateLike
<1> QED BY <1>1, <1>5 DEF Dates

(* The calendar's next day has the next number (parse_date_to_ns).          *)
THEOREM NextDay ==
  ASSUME NEW t \in Dates, Exists(t)
  PROVE  /\ DayAfter(t) \in Dates /\ Exists(DayAfter(t))
         /\ DaysOf(DayAfter(t)) = DaysOf(t) + 1
<1> DEFINE a == MarchYear(t)
           mp == MarchMonth(t)
<1>0. /\ DateLike(t) /\ t.y \in Int /\ t.m \in 1 .. 12 /\ t.d \in Nat /\ t.d >= 1
      /\ t.d <= DaysIn(t.y, t.m) /\ DaysIn(t.y, t.m) \in 28 .. 31
  BY SMT DEF DateLike, Exists, DaysIn, Dates
<1>1. /\ a \in Int /\ mp \in 0 .. 11
      /\ DaysOf(t) = YearStart(a) + DayOfMarchYear(t) - DaysToEpoch
      /\ DayOfMarchYear(t) = DaysToMonth(mp) + t.d - 1 /\ DaysToMonth(mp) \in Int
      /\ YearStart(a) \in Int /\ DaysToEpoch \in Int
  <2>1. a \in Int /\ mp \in 0 .. 11 /\ DaysOf(t) = YearStart(a) + DayOfMarchYear(t) - DaysToEpoch
    BY <1>0, InMarchYear
  <2> HIDE DEF a
  <2>2. DaysToMonth(mp) \in Int /\ YearStart(a) \in Int /\ DaysToEpoch \in Int
    BY <2>1, SMT DEF DaysToMonth, YearStart, DaysToEpoch
  <2> QED BY <2>1, <2>2 DEF DayOfMarchYear
<1>2. PICK v : v = DayAfter(t)
  OBVIOUS
<1>3. ASSUME v \in Dates, DateLike(v)
      PROVE  DaysOf(v) = YearStart(MarchYear(v)) + (DaysToMonth(MarchMonth(v)) + v.d - 1) - DaysToEpoch
  BY <1>3, InMarchYear DEF DayOfMarchYear
<1>4. CASE t.d < DaysIn(t.y, t.m)
  <2>1. v = [t EXCEPT !.d = t.d + 1]
    BY <1>2, <1>4 DEF DayAfter
  <2>2. v \in Dates /\ v.y = t.y /\ v.m = t.m /\ v.d = t.d + 1
    BY <1>0, <2>1, SMT DEF Dates
  <2>3. DateLike(v) /\ Exists(v)
    BY <1>0, <1>4, <2>2, SMT DEF DateLike, Exists
  <2>4. MarchYear(v) = a /\ MarchMonth(v) = mp
    BY <2>2 DEF MarchYear, MarchMonth
  <2> HIDE DEF a, mp
  <2>5. DaysOf(v) = DaysOf(t) + 1
    BY <1>0, <1>1, <1>3, <2>2, <2>3, <2>4, SMT
  <2> QED BY <1>2, <2>2, <2>3, <2>5
<1>5. CASE t.d = DaysIn(t.y, t.m)
  <2>1. v = IF t.m < 12 THEN [y |-> t.y, m |-> t.m + 1, d |-> 1] ELSE [y |-> t.y + 1, m |-> 1, d |-> 1]
    BY <1>0, <1>2, <1>5, SMT DEF DayAfter
  <2>2. /\ v \in Dates /\ v.d = 1
        /\ v.y = IF t.m < 12 THEN t.y ELSE t.y + 1
        /\ v.m = IF t.m < 12 THEN t.m + 1 ELSE 1
    BY <1>0, <2>1, SMT DEF Dates
  <2>3. DateLike(v) /\ Exists(v)
    BY <1>0, <2>2, SMT DEF DateLike, Exists, DaysIn
  <2>4. t.m = MonthName(mp)
    BY <1>0, SMT DEF MarchMonth, MonthName
  <2>5. /\ mp # 11 => DaysIn(t.y, t.m) = DaysToMonth(mp + 1) - DaysToMonth(mp)
        /\ mp = 11 => DaysIn(t.y, t.m) = IF Leap(t.y) THEN 29 ELSE 28
    BY <1>0, <1>1, <2>4, DaysInMonth
  <2>6. CASE mp # 11
    <3>1. MarchYear(v) = a /\ MarchMonth(v) = mp + 1
      BY <1>0, <2>2, <2>6, SMT DEF MarchYear, MarchMonth
    <3> HIDE DEF a, mp
    <3>2. DaysToMonth(mp + 1) \in Int
      BY <1>1, SMT DEF DaysToMonth
    <3>3. DaysOf(v) = DaysOf(t) + 1
      BY <1>0, <1>1, <1>3, <1>5, <2>2, <2>3, <2>5, <2>6, <3>1, <3>2, SMT
    <3> QED BY <1>2, <2>2, <2>3, <3>3
  <2>7. CASE mp = 11
    <3>1. MarchYear(v) = a + 1 /\ MarchMonth(v) = 0 /\ t.y = a + 1
      BY <1>0, <2>2, <2>7, SMT DEF MarchYear, MarchMonth
    <3> HIDE DEF a, mp
    <3>2. YearStart(a + 1) = YearStart(a) + 365 + (IF Leap(a + 1) THEN 1 ELSE 0)
      BY <1>1, NextYear
    <3>3. DaysToMonth(0) = 0 /\ DaysToMonth(mp) = 337
      BY <2>7, SMT DEF DaysToMonth
    <3>4. DaysOf(v) = DaysOf(t) + 1
      BY <1>0, <1>1, <1>3, <1>5, <2>2, <2>3, <2>5, <2>7, <3>1, <3>2, <3>3, SMT
    <3> QED BY <1>2, <2>2, <2>3, <3>4
  <2> QED BY <2>6, <2>7
<1> QED BY <1>0, <1>4, <1>5, SMT

-----------------------------------------------------------------------------
(* Counting the leap years. *)
Multiples(k, b) == {l \in 1 .. b : l % k = 0}
LeapsUpTo(b) == {l \in 1 .. b : Leap(l)}

LEMMA CountMultiples ==
  ASSUME NEW b \in Nat, NEW k \in {4, 100, 400}
  PROVE  IsFiniteSet(Multiples(k, b)) /\ Cardinality(Multiples(k, b)) = b \div k
<1> DEFINE n == b \div k
           f == [i \in 1 .. n |-> k * i]
           M == Multiples(k, b)
<1>1. n \in Nat
  BY SMT
<1>2. \A i \in 1 .. n : k * i \in M
  <2> SUFFICES ASSUME NEW i \in 1 .. n PROVE k * i \in M
    OBVIOUS
  <2>1. k * i \in 1 .. b /\ (k * i) % k = 0
    <3>1. CASE k = 4
      BY <3>1, SMT
    <3>2. CASE k = 100
      BY <3>2, SMT
    <3>3. CASE k = 400
      BY <3>3, SMT
    <3> QED BY <3>1, <3>2, <3>3
  <2> QED BY <2>1 DEF Multiples
<1>3. \A l \in M : \E i \in 1 .. n : k * i = l
  <2> SUFFICES ASSUME NEW l \in M PROVE \E i \in 1 .. n : k * i = l
    OBVIOUS
  <2>1. l \in Nat /\ 1 <= l /\ l <= b /\ l % k = 0
    BY SMT DEF Multiples
  <2>2. l \div k \in 1 .. n /\ k * (l \div k) = l
    <3>1. CASE k = 4
      BY <2>1, <3>1, SMT
    <3>2. CASE k = 100
      BY <2>1, <3>2, SMT
    <3>3. CASE k = 400
      BY <2>1, <3>3, SMT
    <3> QED BY <3>1, <3>2, <3>3
  <2> QED BY <2>2
<1>4. \A i, j \in 1 .. n : k * i = k * j => i = j
  <2> SUFFICES ASSUME NEW i \in 1 .. n, NEW j \in 1 .. n, k * i = k * j PROVE i = j
    OBVIOUS
  <2>1. CASE k = 4
    BY <2>1, SMT
  <2>2. CASE k = 100
    BY <2>2, SMT
  <2>3. CASE k = 400
    BY <2>3, SMT
  <2> QED BY <2>1, <2>2, <2>3
<1> HIDE DEF n, M
<1>5. f \in Bijection(1 .. n, M)
  <2>1. f \in [1 .. n -> M] /\ \A i \in 1 .. n : f[i] = k * i
    BY <1>2
  <2> HIDE DEF f
  <2> QED BY <1>3, <1>4, <2>1 DEF Bijection, Injection, Surjection, IsInjective
<1>6. Cardinality(M) = n
  BY <1>1, <1>5, FS_CountingElements DEF ExistsBijection
<1>7. IsFiniteSet(M)
  <2>1. IsFiniteSet(1 .. b)
    BY FS_Interval, SMT
  <2>2. M \in SUBSET (1 .. b)
    BY DEF M, Multiples
  <2> QED BY <2>1, <2>2, FS_Subset
<1> QED BY <1>6, <1>7 DEF n, M

LEMMA WithoutPart ==
  ASSUME NEW S, IsFiniteSet(S), NEW T \in SUBSET S
  PROVE  /\ IsFiniteSet(S \ T) /\ IsFiniteSet(T)
         /\ Cardinality(S \ T) = Cardinality(S) - Cardinality(T)
<1>1. S \cap T = T
  OBVIOUS
<1>2. IsFiniteSet(S \ T) /\ Cardinality(S \ T) = Cardinality(S) - Cardinality(S \cap T)
  BY FS_Difference
<1> QED BY <1>1, <1>2, FS_Subset

LEMMA CountLeaps ==
  ASSUME NEW b \in Nat
  PROVE  /\ IsFiniteSet(LeapsUpTo(b))
         /\ Cardinality(LeapsUpTo(b)) = b \div 4 - b \div 100 + b \div 400
<1> DEFINE A == Multiples(4, b)
           B == Multiples(100, b)
           C == Multiples(400, b)
           D == A \ B
<1>1. /\ IsFiniteSet(A) /\ Cardinality(A) = b \div 4
      /\ IsFiniteSet(B) /\ Cardinality(B) = b \div 100
      /\ IsFiniteSet(C) /\ Cardinality(C) = b \div 400
  BY CountMultiples
<1>2. \A l \in 1 .. b : (l % 100 = 0 => l % 4 = 0) /\ (l % 400 = 0 => l % 100 = 0)
  BY SMT
<1>3. LeapsUpTo(b) = D \cup C /\ A \cap B = B /\ D \cap C = {}
  BY <1>2 DEF LeapsUpTo, Leap, Multiples
<1> HIDE DEF A, B, C
<1>4. IsFiniteSet(D) /\ Cardinality(D) = b \div 4 - b \div 100
  <2>1. B \in SUBSET A
    BY <1>3
  <2> QED BY <1>1, <2>1, WithoutPart, SMT
<1> HIDE DEF D
<1>5. IsFiniteSet(D \cup C) /\ Cardinality(D \cup C) = Cardinality(D) + Cardinality(C) - Cardinality(D \cap C)
  BY <1>1, <1>4, FS_Union
<1>6. Cardinality(D \cap C) = 0
  BY <1>3, FS_EmptySet
<1>7. b \div 4 \in Int /\ b \div 100 \in Int /\ b \div 400 \in Int
  BY SMT
<1> QED BY <1>1, <1>3, <1>4, <1>5, <1>6, <1>7

LEMMA LeapsBetween ==
  ASSUME NEW a \in Nat, NEW b \in Nat, a <= b
  PROVE  /\ LeapsUpTo(a) \in SUBSET LeapsUpTo(b)
         /\ LeapsUpTo(b) \ LeapsUpTo(a) = {l \in a + 1 .. b : Leap(l)}
<1>1. \A l : l \in 1 .. b => (l \in 1 .. a <=> ~(l \in a + 1 .. b))
  OBVIOUS
<1>2. 1 .. a \subseteq 1 .. b /\ a + 1 .. b \subseteq 1 .. b
  OBVIOUS
<1> QED BY <1>1, <1>2 DEF LeapsUpTo

LEMMA FirstDayFound ==
  ASSUME NEW y \in Nat, y >= 1970
  PROVE  LET t == [y |-> y, m |-> 1, d |-> 1]
         IN  t \in Dates /\ Exists(t) /\ FirstDay(y) \in Nat /\ DaysOf(t) = FirstDay(y)
<1> DEFINE t == [y |-> y, m |-> 1, d |-> 1]
           b == y - 1
           L == {l \in 1970 .. b : Leap(l)}
<1>1. t \in Dates /\ Exists(t) /\ t.y = y /\ t.m = 1 /\ t.d = 1
  BY SMT DEF Dates, Exists, DaysIn
<1>2. b \in Nat /\ b >= 1969 /\ y = b + 1
  BY SMT
<1> HIDE DEF b
<1>3. Cardinality(L) = b \div 4 - b \div 100 + b \div 400 - 477
  <2>1. 1969 \in Nat /\ (1969 \div 4 - 1969 \div 100 + 1969 \div 400) = 477
    BY SMT
  <2>2. /\ IsFiniteSet(LeapsUpTo(b))
        /\ Cardinality(LeapsUpTo(b)) = b \div 4 - b \div 100 + b \div 400
        /\ Cardinality(LeapsUpTo(1969)) = 477
    BY <1>2, <2>1, CountLeaps, SMT
  <2>3. LeapsUpTo(1969) \in SUBSET LeapsUpTo(b) /\ L = LeapsUpTo(b) \ LeapsUpTo(1969)
    <3>1. PICK a \in Nat : a = 1969 /\ a <= b
      BY <1>2, <2>1, SMT
    <3>2. /\ LeapsUpTo(a) \in SUBSET LeapsUpTo(b)
          /\ LeapsUpTo(b) \ LeapsUpTo(a) = {l \in a + 1 .. b : Leap(l)}
      BY <1>2, <3>1, LeapsBetween
    <3>3. a + 1 = 1970
      BY <3>1, SMT
    <3>4. LeapsUpTo(a) = LeapsUpTo(1969)
      BY <3>1
    <3>5. L = {l \in a + 1 .. b : Leap(l)}
      BY <3>3
    <3> QED BY <3>2, <3>4, <3>5
  <2> HIDE DEF L
  <2>4. Cardinality(L) = Cardinality(LeapsUpTo(b)) - Cardinality(LeapsUpTo(1969))
    BY <2>2, <2>3, WithoutPart, SMT
  <2> QED BY <1>2, <2>2, <2>4, SMT
<1>4. FirstDay(y) = 365 * (y - 1970) + Cardinality(L)
  BY SMT DEF FirstDay, b
<1>5. MarchYear(t) = b /\ DayOfMarchYear(t) = 306
  BY <1>1, <1>2, SMT DEF MarchYear, DayOfMarchYear, MarchMonth, DaysToMonth
<1>6. DaysOf(t) = YearStart(b) + 306 - DaysToEpoch
  <2>1. DateLike(t)
    BY <1>1, SMT DEF DateLike
  <2> QED BY <1>5, <2>1, InMarchYear, SMT
<1> HIDE DEF L, t
<1>7. DaysOf(t) = FirstDay(y) /\ FirstDay(y) \in Nat
  BY <1>2, <1>3, <1>4, <1>6, SMT DEF YearStart, DaysToEpoch
<1> QED BY <1>1, <1>7 DEF t
=============================================================================
