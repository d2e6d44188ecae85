------------------------------ MODULE Calendar ------------------------------
(***************************************************************************)
(* The two conversions between a day's number since 1970-01-01 and its     *)
(* date that dashboard.rs writes out by hand: one for the `since` filter,  *)
(* one for what a page shows (repeated in scoreboard.rs).  A year begins   *)
(* in March there, so that the leap day is its last.                       *)
(***************************************************************************)
EXTENDS Integers, FiniteSets

DaysPerEra == 146097      \* 400 years
DaysToEpoch == 719468     \* 0000-03-01 to 1970-01-01

\* Days from 1 March to the first of the mp-th month after it.
DaysToMonth(mp) == (153 * mp + 2) \div 5

\* Fault: January and February count as the months of their own year.
DaysOf_OwnYear(t) ==
    LET era == t.y \div 400
        yoe == t.y - era * 400
        mp  == IF t.m > 2 THEN t.m - 3 ELSE t.m + 9
        doe == yoe * 365 + yoe \div 4 - yoe \div 100 + DaysToMonth(mp) + t.d - 1
    IN  era * DaysPerEra + doe - DaysToEpoch

\* parse_date_to_ns, in days.
DaysOf(t) ==
    LET yp  == IF t.m <= 2 THEN t.y - 1 ELSE t.y
        era == yp \div 400
        yoe == yp - era * 400
        mp  == IF t.m > 2 THEN t.m - 3 ELSE t.m + 9
        doe == yoe * 365 + yoe \div 4 - yoe \div 100 + DaysToMonth(mp) + t.d - 1
    IN  era * DaysPerEra + doe - DaysToEpoch

\* Fault: the last day of an era is not corrected for.
DateOf_NoEraEnd(n) ==
    LET era == (n + DaysToEpoch) \div DaysPerEra
        doe == n + DaysToEpoch - era * DaysPerEra
        yoe == (doe - doe \div 1460 + doe \div 36524) \div 365
        doy == doe - (365 * yoe + yoe \div 4 - yoe \div 100)
        mp  == (5 * doy + 2) \div 153
        mo  == IF mp < 10 THEN mp + 3 ELSE mp - 9
    IN  [y |-> yoe + era * 400 + (IF mo <= 2 THEN 1 ELSE 0),
         m |-> mo,
         d |-> doy - DaysToMonth(mp) + 1]

\* format_ns, from the day on.
DateOf(n) ==
    LET era == (n + DaysToEpoch) \div DaysPerEra
        doe == n + DaysToEpoch - era * DaysPerEra
        yoe == (doe - doe \div 1460 + doe \div 36524 - doe \div 146096) \div 365
        doy == doe - (365 * yoe + yoe \div 4 - yoe \div 100)
        mp  == (5 * doy + 2) \div 153
        mo  == IF mp < 10 THEN mp + 3 ELSE mp - 9
    IN  [y |-> yoe + era * 400 + (IF mo <= 2 THEN 1 ELSE 0),
         m |-> mo,
         d |-> doy - DaysToMonth(mp) + 1]

-----------------------------------------------------------------------------
(* The calendar as everybody knows it. *)

Leap(y) == y % 4 = 0 /\ (y % 100 # 0 \/ y % 400 = 0)

DaysIn(y, m) ==
    IF m = 2 THEN IF Leap(y) THEN 29 ELSE 28
    ELSE IF m \in {4, 6, 9, 11} THEN 30 ELSE 31

DayAfter(t) ==
    IF t.d < DaysIn(t.y, t.m) THEN [t EXCEPT !.d = @ + 1]
    ELSE IF t.m < 12 THEN [y |-> t.y, m |-> t.m + 1, d |-> 1]
    ELSE [y |-> t.y + 1, m |-> 1, d |-> 1]

\* The first day of year y: 365 days a year, and the leap days.
FirstDay(y) == 365 * (y - 1970) + Cardinality({l \in 1970 .. y - 1 : Leap(l)})

Exists(t) == t.m \in 1 .. 12 /\ t.d \in 1 .. DaysIn(t.y, t.m)

NotBefore(t, u) ==
    \/ t.y > u.y
    \/ t.y = u.y /\ t.m > u.m
    \/ t.y = u.y /\ t.m = u.m /\ t.d >= u.d
=============================================================================
