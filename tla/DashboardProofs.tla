---------------------------- MODULE DashboardProofs ----------------------------
(***************************************************************************)
(* The dashboard's dates and listings, proved for any start, any dates     *)
(* typed, any limit and any number of diffs: what is known of a listing    *)
(* (ListingInv) is said in terms of days, and the lemmas on the calendar   *)
(* turn it into what a client sees.                                        *)
(***************************************************************************)
EXTENDS Dashboard, CalendarProofs, SequenceTheorems

LEMMA Bounds ==
  /\ LastDay \in Nat /\ LastDay <= 106751 /\ Limit \in Nat
  /\ \A y \in FirstYears : y \in Nat /\ y >= 1970 /\ FirstDay(y) <= LastDay
BY DashboardAssumption, SMT

LEMMA DatesTyped ==
  ASSUME NEW t \in Typed
  PROVE  t.y \in Nat /\ t.m \in Nat /\ t.d \in Nat
BY DashboardAssumption, SMT

LEMMA Starts ==
  ASSUME NEW y \in FirstYears, NEW t, t = [y |-> y, m |-> 1, d |-> 1]
  PROVE  /\ t \in Dates /\ Exists(t) /\ DaysOf(t) = FirstDay(y)
         /\ FirstDay(y) \in Nat /\ FirstDay(y) <= LastDay
<1>1. y \in Nat /\ y >= 1970 /\ FirstDay(y) <= LastDay
  BY Bounds, SMT
<1>2. /\ [y |-> y, m |-> 1, d |-> 1] \in Dates /\ Exists([y |-> y, m |-> 1, d |-> 1])
      /\ FirstDay(y) \in Nat /\ DaysOf([y |-> y, m |-> 1, d |-> 1]) = FirstDay(y)
  BY <1>1, FirstDayFound, SMT
<1> QED BY <1>1, <1>2, SMT

(* The clock's day and its date go together.                                *)
DateInv ==
    /\ day \in Nat /\ date \in Dates
    /\ Exists(date) /\ DaysOf(date) = day

LEMMA DateInvHolds == Spec => []DateInv
<1>1. Init => DateInv
  <2> SUFFICES ASSUME Init PROVE DateInv
    OBVIOUS
  <2>1. PICK y \in FirstYears : day = FirstDay(y) /\ date = [y |-> y, m |-> 1, d |-> 1]
    BY DEF Init
  <2>2. date \in Dates /\ Exists(date) /\ FirstDay(y) \in Nat /\ DaysOf(date) = FirstDay(y)
    BY <2>1, Starts
  <2> QED BY <2>1, <2>2 DEF DateInv
<1>2. DateInv /\ [Next]_vars => DateInv'
  <2> SUFFICES ASSUME DateInv, [Next]_vars PROVE DateInv'
    OBVIOUS
  <2>1. CASE Tomorrow
    <3>1. day' = day + 1 /\ date' = DayAfter(date)
      BY <2>1 DEF Tomorrow
    <3>2. DayAfter(date) \in Dates /\ Exists(DayAfter(date)) /\ DaysOf(DayAfter(date)) = DaysOf(date) + 1
      BY NextDay DEF DateInv
    <3> QED BY <3>1, <3>2 DEF DateInv
  <2>2. CASE UNCHANGED <<day, date>>
    BY <2>2 DEF DateInv
  <2> QED BY <2>1, <2>2 DEF Next, Stamp, RecordDiff, ListDiffs, RejectFilter, vars
<1> QED BY <1>1, <1>2, PTL DEF Spec

(* The two conversions agree with the calendar on every day the clock       *)
(* reaches, from whichever year it starts (parse_date_to_ns, format_ns).    *)
THEOREM CalendarIsRight == Spec => []CalendarAgrees
<1>1. DateInv => CalendarAgrees
  BY DateOfItsDay DEF DateInv, CalendarAgrees
<1> QED BY <1>1, DateInvHolds, PTL

-----------------------------------------------------------------------------
LEMMA RecordedRows ==
  ASSUME NEW D \in Seq(Diff), NEW r \in Diff
  PROVE  /\ Append(D, r) \in Seq(Diff) /\ Len(Append(D, r)) = Len(D) + 1
         /\ \A i \in 1 .. Len(D) : Append(D, r)[i] = D[i]
OBVIOUS

(* Every variable keeps its type, and a page lists no more than LIMIT rows, *)
(* all of them in the table when it was made (list_diffs_filtered).         *)
THEOREM DashboardTypeCorrect == Spec => []TypeOK
<1>1. Init => TypeOK
  <2> SUFFICES ASSUME Init PROVE TypeOK
    OBVIOUS
  <2>1. PICK y \in FirstYears : day = FirstDay(y) /\ date = [y |-> y, m |-> 1, d |-> 1]
    BY DEF Init
  <2>2. FirstDay(y) \in Nat /\ FirstDay(y) <= LastDay /\ LastDay \in Nat /\ Limit \in Nat
    BY <2>1, Starts, Bounds, SMT
  <2>3. day \in 0 .. LastDay
    BY <2>1, <2>2, SMT
  <2>4. stamped = {} /\ diffs = <<>> /\ page.status = "none" /\ page.upto = 0 /\ page.rows = {}
    BY DEF Init, NoPage
  <2>5. diffs \in Seq(Diff) /\ Len(diffs) = 0 /\ Cardinality(page.rows) = 0
    BY <2>4, FS_EmptySet
  <2> QED BY <2>2, <2>3, <2>4, <2>5, SMT DEF TypeOK
<1>2. TypeOK /\ [Next]_vars => TypeOK'
  <2> SUFFICES ASSUME TypeOK, [Next]_vars PROVE TypeOK'
    OBVIOUS
  <2>0. /\ Limit \in Nat /\ LastDay \in Nat /\ day \in 0 .. LastDay /\ stamped \subseteq Diff
        /\ diffs \in Seq(Diff) /\ Len(diffs) \in Nat /\ DOMAIN diffs = 1 .. Len(diffs)
        /\ page.upto \in 0 .. Len(diffs)
    <3>1. Limit \in Nat /\ LastDay \in Nat
      BY Bounds, SMT
    <3>2. /\ diffs \in Seq(Diff) /\ day \in 0 .. LastDay /\ stamped \subseteq Diff
          /\ page.upto \in 0 .. Len(diffs)
      BY DEF TypeOK
    <3>3. Len(diffs) \in Nat /\ DOMAIN diffs = 1 .. Len(diffs)
      BY <3>2, LenProperties
    <3> QED BY <3>1, <3>2, <3>3
  <2>1. ASSUME day' \in 0 .. LastDay, UNCHANGED <<stamped, diffs>>,
               page'.status \in {"none", "bad request"}, page'.upto = 0, page'.rows = {}
        PROVE  TypeOK'
    <3>1. Cardinality(page'.rows) = 0
      BY <2>1, FS_EmptySet
    <3>2. page'.upto \in 0 .. Len(diffs')
      <4>1. Len(diffs') = Len(diffs) /\ Len(diffs) \in Nat
        BY <2>0, <2>1
      <4>2. 0 \in 0 .. Len(diffs)
        BY <4>1, SMT
      <4> QED BY <2>1, <4>1, <4>2
    <3>3. Cardinality(page'.rows) <= Limit
      BY <2>0, <3>1
    <3> QED BY <2>0, <2>1, <3>2, <3>3 DEF TypeOK
  <2>2. CASE Tomorrow
    <3>1. day' = day + 1 /\ day < LastDay /\ page' = NoPage /\ UNCHANGED <<stamped, diffs>>
      BY <2>2 DEF Tomorrow
    <3>2. day' \in 0 .. LastDay
      BY <2>0, <3>1, SMT
    <3> QED BY <2>1, <3>1, <3>2 DEF NoPage
  <2>3. CASE Stamp
    <3>1. PICK e \in BOOLEAN, s \in Severities :
             stamped' = stamped \cup {[day |-> day, early |-> e, severity |-> s]}
      BY <2>3 DEF Stamp
    <3>2. stamped' \subseteq Diff
      BY <2>0, <3>1 DEF Diff
    <3> QED BY <2>3, <3>2 DEF Stamp, TypeOK
  <2>4. CASE RecordDiff
    <3>1. PICK r \in stamped : diffs' = Append(diffs, r) /\ stamped' = stamped \ {r}
      BY <2>4 DEF RecordDiff
    <3>2. r \in Diff
      BY <2>0, <3>1
    <3>3. diffs' \in Seq(Diff) /\ Len(diffs') = Len(diffs) + 1
      BY <2>0, <3>1, <3>2, RecordedRows
    <3>4. page.upto \in 0 .. Len(diffs')
      BY <2>0, <3>3, SMT
    <3> QED BY <2>4, <3>1, <3>3, <3>4 DEF RecordDiff, TypeOK
  <2>5. ASSUME NEW sev, NEW t, ListDiffs(sev, t)
        PROVE  TypeOK'
    <3> DEFINE ids == {i \in DOMAIN diffs : Matches(diffs[i], sev, t)}
               n   == IF Cardinality(ids) <= Limit THEN Cardinality(ids) ELSE Limit
    <3>1. PICK rows \in SUBSET ids :
             /\ Cardinality(rows) = n
             /\ page' = [status |-> "ok", severity |-> sev, since |-> t,
                         upto |-> Len(diffs), rows |-> rows]
      BY <2>5 DEF ListDiffs
    <3>2. rows \subseteq 1 .. Len(diffs)
      BY <2>0
    <3> HIDE DEF ids
    <3>3. n <= Limit
      BY <2>0, SMT
    <3>4. UNCHANGED <<day, date, stamped, diffs>>
      BY <2>5 DEF ListDiffs
    <3> HIDE DEF n
    <3>5. /\ page'.status = "ok" /\ page'.upto = Len(diffs) /\ page'.rows = rows
      BY <3>1
    <3>6. Len(diffs) \in 0 .. Len(diffs)
      BY <2>0, SMT
    <3> QED BY <2>0, <3>1, <3>2, <3>3, <3>4, <3>5, <3>6 DEF TypeOK
  <2>6. ASSUME NEW sev, NEW t, RejectFilter(sev, t)
        PROVE  TypeOK'
    <3>1. /\ page'.status = "bad request" /\ page'.upto = 0 /\ page'.rows = {}
          /\ UNCHANGED <<day, date, stamped, diffs>>
      BY <2>6 DEF RejectFilter, NoPage
    <3> QED BY <2>0, <2>1, <3>1
  <2>7. CASE UNCHANGED vars
    BY <2>7 DEF vars, TypeOK
  <2> QED BY <2>2, <2>3, <2>4, <2>5, <2>6, <2>7 DEF Next
<1> QED BY <1>1, <1>2, PTL DEF Spec

-----------------------------------------------------------------------------
Numbers(t) == t.y \in Nat /\ t.m \in Nat /\ t.d \in Nat

(* What a listing is of the table it was made from: the rows that pass both *)
(* filters, or Limit of them of which none left out is newer.               *)
ListingInv ==
    page.status = "ok" =>
        /\ page.since = NoDate \/ (Accepted(page.since) /\ Numbers(page.since))
        /\ \A i \in page.rows : i \in 1 .. page.upto /\ Matches(diffs[i], page.severity, page.since)
        /\ \A i \in 1 .. page.upto :
             \/ i \in page.rows
             \/ ~Matches(diffs[i], page.severity, page.since)
             \/ /\ Cardinality(page.rows) = Limit
                /\ \A k \in page.rows : ~Older(diffs[k], diffs[i])

LEMMA ListingKept ==
  ASSUME TypeOK, ListingInv, UNCHANGED page,
         \A i \in 1 .. Len(diffs) : diffs'[i] = diffs[i]
  PROVE  ListingInv'
<1>1. page.upto \in 0 .. Len(diffs) /\ Len(diffs) \in Nat
  BY LenProperties DEF TypeOK
<1>2. \A i \in 1 .. page.upto : i \in 1 .. Len(diffs) /\ diffs'[i] = diffs[i]
  BY <1>1
<1> SUFFICES ASSUME page.status = "ok" PROVE ListingInv'
  BY DEF ListingInv
<1>3. \A i \in page.rows : i \in 1 .. page.upto /\ Matches(diffs'[i], page.severity, page.since)
  BY <1>2 DEF ListingInv
<1>4. ASSUME NEW i \in 1 .. page.upto
      PROVE  \/ i \in page.rows
             \/ ~Matches(diffs'[i], page.severity, page.since)
             \/ /\ Cardinality(page.rows) = Limit
                /\ \A k \in page.rows : ~Older(diffs'[k], diffs'[i])
  BY <1>2, <1>3 DEF ListingInv
<1> QED BY <1>3, <1>4 DEF ListingInv

LEMMA ListingMade ==
  ASSUME TypeOK, NEW sev, NEW t \in Typed \cup {NoDate}, ListDiffs(sev, t)
  PROVE  ListingInv'
<1> DEFINE ids == {i \in DOMAIN diffs : Matches(diffs[i], sev, t)}
           n   == IF Cardinality(ids) <= Limit THEN Cardinality(ids) ELSE Limit
<1>1. /\ t = NoDate \/ Accepted(t)
      /\ UNCHANGED <<day, date, stamped, diffs>>
  BY DEF ListDiffs, Invalid
<1>2. PICK rows \in SUBSET ids :
         /\ Cardinality(rows) = n /\ Listed(rows, ids)
         /\ page' = [status |-> "ok", severity |-> sev, since |-> t,
                     upto |-> Len(diffs), rows |-> rows]
  BY DEF ListDiffs
<1>3. DOMAIN diffs = 1 .. Len(diffs) /\ Len(diffs) \in Nat
  BY LenProperties DEF TypeOK
<1>4. /\ page'.status = "ok" /\ page'.severity = sev /\ page'.since = t
      /\ page'.upto = Len(diffs) /\ page'.rows = rows
  BY <1>2
<1>5. t = NoDate \/ (Accepted(t) /\ Numbers(t))
  BY <1>1, DatesTyped DEF Numbers
<1>6. \A i \in rows : i \in 1 .. Len(diffs) /\ Matches(diffs[i], sev, t)
  BY <1>3
<1>7. IsFiniteSet(ids)
  <2>1. IsFiniteSet(1 .. Len(diffs))
    BY <1>3, FS_Interval
  <2> QED BY <1>3, <2>1, FS_Subset
<1>8. ASSUME NEW i \in 1 .. Len(diffs), i \notin rows, Matches(diffs[i], sev, t)
      PROVE  Cardinality(rows) = Limit /\ \A k \in rows : ~Older(diffs[k], diffs[i])
  <2>1. i \in ids \ rows
    BY <1>3, <1>8
  <2>2. rows # ids
    BY <2>1
  <2> HIDE DEF ids
  <2>3. Cardinality(rows) # Cardinality(ids)
    BY <1>2, <1>7, <2>2, FS_Subset
  <2> QED BY <1>2, <2>1, <2>3 DEF Listed
<1> HIDE DEF ids, n
<1> QED BY <1>1, <1>4, <1>5, <1>6, <1>8 DEF ListingInv

LEMMA ListingInvHolds == Spec => []ListingInv
<1>1. Init => ListingInv
  BY DEF Init, NoPage, ListingInv
<1>2. TypeOK /\ ListingInv /\ [Next]_vars => ListingInv'
  <2> SUFFICES ASSUME TypeOK, ListingInv, [Next]_vars PROVE ListingInv'
    OBVIOUS
  <2>1. CASE Tomorrow
    BY <2>1 DEF Tomorrow, NoPage, ListingInv
  <2>2. CASE Stamp
    BY <2>2, ListingKept DEF Stamp
  <2>3. CASE RecordDiff
    <3>1. PICK r \in stamped : diffs' = Append(diffs, r) /\ page' = page
      BY <2>3 DEF RecordDiff
    <3>2. r \in Diff /\ diffs \in Seq(Diff)
      BY DEF TypeOK
    <3>3. \A i \in 1 .. Len(diffs) : diffs'[i] = diffs[i]
      BY <3>1, <3>2, RecordedRows
    <3> QED BY <3>1, <3>3, ListingKept
  <2>4. ASSUME NEW sev, NEW t \in Typed \cup {NoDate}, ListDiffs(sev, t)
        PROVE  ListingInv'
    BY <2>4, ListingMade
  <2>5. ASSUME NEW sev, NEW t, RejectFilter(sev, t)
        PROVE  ListingInv'
    BY <2>5 DEF RejectFilter, NoPage, ListingInv
  <2>6. CASE UNCHANGED vars
    BY <2>6, ListingKept DEF vars
  <2> QED BY <2>1, <2>2, <2>3, <2>4, <2>5, <2>6 DEF Next
<1> QED BY <1>1, <1>2, DashboardTypeCorrect, PTL DEF Spec

-----------------------------------------------------------------------------
(* Time stamps end on 2262-04-11.                                           *)
EndDate == [y |-> 2262, m |-> 4, d |-> 11]

LEMMA EndOfTime ==
  /\ DateLike(EndDate) /\ DaysOf(EndDate) = 106751
  /\ EndDate.y = 2262 /\ EndDate.m = 4 /\ EndDate.d = 11
<1>1. EndDate.y = 2262 /\ EndDate.m = 4 /\ EndDate.d = 11
  BY DEF EndDate
<1>2. DateLike(EndDate)
  BY <1>1, SMT DEF DateLike
<1>3. DaysOf(EndDate) = 106751
  BY <1>1, SMT DEF DaysOf, DaysToMonth, DaysPerEra, DaysToEpoch
<1> QED BY <1>1, <1>2, <1>3

LEMMA AcceptedDate ==
  ASSUME NEW t, Accepted(t), Numbers(t)
  PROVE  DateLike(t) /\ DaysOf(t) \in Nat
<1>1. /\ t.y \in Nat /\ t.y >= 1970 /\ t.m \in 1 .. 12 /\ t.d \in Nat /\ t.d >= 1
  BY SMT DEF Accepted, Numbers
<1>2. DateLike(t)
  BY <1>1, SMT DEF DateLike
<1>3. /\ MarchYear(t) \in Int /\ DayOfMarchYear(t) \in Nat
      /\ DaysOf(t) = YearStart(MarchYear(t)) + DayOfMarchYear(t) - DaysToEpoch
  BY <1>2, InMarchYear
<1>4. CASE t.m > 2
  <2>1. MarchYear(t) >= 1970
    BY <1>1, <1>4, SMT DEF MarchYear
  <2>2. YearStart(1970) <= YearStart(MarchYear(t)) /\ YearStart(MarchYear(t)) \in Int
    BY <1>3, <2>1, YearsGrow, SMT
  <2>3. YearStart(1970) = 719527
    BY SMT DEF YearStart
  <2> QED BY <1>2, <1>3, <2>2, <2>3, SMT DEF DaysToEpoch
<1>5. CASE t.m <= 2
  <2>1. MarchYear(t) >= 1969 /\ MarchMonth(t) >= 10 /\ MarchMonth(t) \in Int
    BY <1>1, <1>5, SMT DEF MarchYear, MarchMonth
  <2>2. YearStart(1969) <= YearStart(MarchYear(t)) /\ YearStart(MarchYear(t)) \in Int
    BY <1>3, <2>1, YearsGrow, SMT
  <2>3. YearStart(1969) = 719162
    BY SMT DEF YearStart
  <2>4. DayOfMarchYear(t) >= 306
    BY <1>1, <2>1, SMT DEF DayOfMarchYear, DaysToMonth
  <2> QED BY <1>2, <1>3, <2>2, <2>3, <2>4, SMT DEF DaysToEpoch
<1> QED BY <1>1, <1>4, <1>5, SMT

(* No date up to the end is taken for a day after it.                       *)
LEMMA UpToTheEnd ==
  ASSUME NEW t, Accepted(t), Numbers(t), NotBefore(EndDate, t)
  PROVE  DaysOf(t) <= 106751
<1>1. /\ t.y \in Nat /\ t.m \in 1 .. 12 /\ t.d \in Nat /\ t.d >= 1 /\ t.d <= 31
      /\ DateLike(t)
  BY AcceptedDate, SMT DEF Accepted, Numbers
<1>2. \/ t.y < 2262
      \/ t.y = 2262 /\ t.m < 4
      \/ t.y = 2262 /\ t.m = 4 /\ t.d <= 11
  BY <1>1, EndOfTime, SMT DEF NotBefore
<1>3. /\ MarchYear(t) \in Int /\ MarchMonth(t) \in 0 .. 11 /\ DayOfMarchYear(t) \in Nat
      /\ DaysOf(t) = YearStart(MarchYear(t)) + DayOfMarchYear(t) - DaysToEpoch
  BY <1>1, InMarchYear
<1>4. CASE t.y = 2262 /\ t.m > 2
  <2>1. MarchYear(t) = 2262 /\ MarchMonth(t) = t.m - 3 /\ (t.m = 3 \/ t.m = 4)
    BY <1>1, <1>2, <1>4, SMT DEF MarchYear, MarchMonth
  <2>2. YearStart(2262) = 826178
    BY SMT DEF YearStart
  <2>3. DayOfMarchYear(t) <= 41
    <3>1. DaysToMonth(0) = 0 /\ DaysToMonth(1) = 31
      BY SMT DEF DaysToMonth
    <3>2. CASE t.m = 3
      <4>1. DayOfMarchYear(t) = 0 + t.d - 1
        BY <2>1, <3>1, <3>2, SMT DEF DayOfMarchYear
      <4> QED BY <1>1, <4>1, SMT
    <3>3. CASE t.m = 4
      <4>1. DayOfMarchYear(t) = 31 + t.d - 1
        BY <2>1, <3>1, <3>3, SMT DEF DayOfMarchYear
      <4> QED BY <1>1, <1>2, <1>4, <3>3, <4>1, SMT
    <3> QED BY <2>1, <3>2, <3>3
  <2> QED BY <1>3, <2>1, <2>2, <2>3, SMT DEF DaysToEpoch
<1>5. CASE ~(t.y = 2262 /\ t.m > 2)
  <2>1. MarchYear(t) <= 2261
    BY <1>1, <1>2, <1>5, SMT DEF MarchYear
  <2>2. YearStart(MarchYear(t)) <= YearStart(2261) /\ YearStart(MarchYear(t)) \in Int
    BY <1>3, <2>1, YearsGrow, SMT
  <2>3. YearStart(2261) = 825813
    BY SMT DEF YearStart
  <2>4. DayOfMarchYear(t) <= 367
    BY <1>1, <1>3, SMT DEF DayOfMarchYear, DaysToMonth
  <2> QED BY <1>3, <2>2, <2>3, <2>4, SMT DEF DaysToEpoch
<1> QED BY <1>4, <1>5

(* Of a day a time stamp can be of, the bound does not wrap.                *)
LEMMA BoundKept ==
  ASSUME NEW t, DaysOf(t) \in Nat, DaysOf(t) <= 106751
  PROVE  Wraps(t) = 0 /\ SinceDay(t) = DaysOf(t)
<1>1. Wraps(t) = 0
  BY SMT DEF Wraps
<1> QED BY <1>1, SMT DEF SinceDay

LEMMA ShownDate ==
  ASSUME NEW n \in Nat
  PROVE  /\ DateLike(DateOf(n)) /\ Exists(DateOf(n)) /\ DaysOf(DateOf(n)) = n
         /\ NotBefore(DateOf(n), NoDate)
<1>1. PICK u \in Dates : u = DateOf(n)
  BY DateFound
<1>2. Exists(u) /\ DaysOf(u) = n
  BY <1>1, DateFound
<1>3. u.y \in Nat /\ u.m \in 1 .. 12 /\ u.d \in Nat /\ u.d >= 1
  BY <1>2, SMT DEF Exists, Dates
<1>4. DateLike(u)
  BY <1>3, SMT DEF DateLike
<1>5. NotBefore(u, NoDate)
  <2>1. NoDate.y = 0 /\ NoDate.m = 0 /\ NoDate.d = 0
    BY DEF NoDate
  <2> QED BY <1>3, <2>1, SMT DEF NotBefore
<1> QED BY <1>1, <1>2, <1>4, <1>5

LEMMA Sorted ==
  ASSUME NEW n \in Nat, NEW t, DateLike(t), ~NotBefore(DateOf(n), t)
  PROVE  n < DaysOf(t)
BY ShownDate, LaterDate

LEMMA RowDays ==
  ASSUME TypeOK, NEW i \in 1 .. page.upto
  PROVE  diffs[i].day \in Nat /\ diffs[i].day <= LastDay
<1>1. Len(diffs) \in Nat /\ page.upto \in 0 .. Len(diffs) /\ diffs \in Seq(Diff)
  BY LenProperties DEF TypeOK
<1>2. i \in 1 .. Len(diffs)
  BY <1>1, SMT
<1>3. diffs[i] \in Diff
  BY <1>1, <1>2, ElementOfSeq
<1>4. diffs[i].day \in 0 .. LastDay /\ LastDay \in Nat
  BY <1>3, Bounds DEF Diff
<1> QED BY <1>4, SMT

(* The date typed is an inclusive lower bound of the dates shown, whenever  *)
(* it is not after the last day a time stamp can be of: the list has no     *)
(* earlier diff, even for a date no month has (parse_date_to_ns,            *)
(* list_diffs_filtered, format_ns).                                         *)
THEOREM NothingEarlier == Spec => []SinceIsLowerBound
<1>1. TypeOK /\ ListingInv => SinceIsLowerBound
  <2> SUFFICES ASSUME TypeOK, ListingInv,
                      page.status = "ok", NotBefore(DateOf(LastDay), page.since),
                      NEW i \in page.rows
               PROVE  NotBefore(DateOf(diffs[i].day), page.since)
    BY DEF SinceIsLowerBound
  <2> DEFINE t == page.since
             n == diffs[i].day
  <2>1. i \in 1 .. page.upto /\ Matches(diffs[i], page.severity, t)
    BY DEF ListingInv
  <2>2. n \in Nat
    BY <2>1, RowDays
  <2>3. CASE t = NoDate
    BY <2>2, <2>3, ShownDate
  <2>4. CASE t # NoDate
    <3>1. Accepted(t) /\ Numbers(t) /\ IsSince(diffs[i], t)
      BY <2>1, <2>4 DEF ListingInv, Matches
    <3>2. DateLike(t) /\ DaysOf(t) \in Nat
      BY <3>1, AcceptedDate
    <3>3. DaysOf(t) <= 106751
      <4>1. LastDay \in Nat /\ LastDay <= 106751
        BY Bounds
      <4>2. NotBefore(EndDate, t)
        <5> DEFINE u == DateOf(LastDay)
        <5>1. DateLike(u) /\ DaysOf(u) = LastDay /\ NotBefore(u, t)
          BY <4>1, ShownDate
        <5> HIDE DEF u, t
        <5>2. Exists(EndDate)
          BY EndOfTime, SMT DEF Exists, DaysIn
        <5>3. NotBefore(EndDate, u)
          <6> SUFFICES ASSUME ~NotBefore(EndDate, u) PROVE FALSE
            OBVIOUS
          <6>1. DaysOf(EndDate) < DaysOf(u)
            BY <5>1, <5>2, EndOfTime, LaterDate
          <6> QED BY <4>1, <5>1, <6>1, EndOfTime, SMT
        <5> QED BY <3>2, <5>1, <5>3, EndOfTime, SMT DEF NotBefore, DateLike
      <4> QED BY <3>1, <4>2, UpToTheEnd
    <3>4. SinceDay(t) = DaysOf(t)
      BY <3>2, <3>3, BoundKept
    <3>5. n >= DaysOf(t)
      BY <2>2, <3>1, <3>2, <3>4, SMT DEF IsSince
    <3> QED BY <2>2, <3>2, <3>5, Sorted, SMT
  <2> QED BY <2>3, <2>4
<1> QED BY <1>1, DashboardTypeCorrect, ListingInvHolds, PTL

(* The dashboard hides no diff: in the table when the page was made, of the *)
(* severity asked for and not before the date asked for, it is listed,      *)
(* unless LIMIT diffs that are no older fill the page.                      *)
THEOREM NoDiffHidden == Spec => []NothingHidden
<1>1. TypeOK /\ ListingInv => NothingHidden
  <2> SUFFICES ASSUME TypeOK, ListingInv, page.status = "ok",
                      page.since = NoDate \/ Exists(page.since),
                      NEW i \in 1 .. page.upto,
                      page.severity \in {Any, diffs[i].severity},
                      NotBefore(DateOf(diffs[i].day), page.since)
               PROVE  \/ i \in page.rows
                      \/ /\ Cardinality(page.rows) = Limit
                         /\ \A k \in page.rows : ~Older(diffs[k], diffs[i])
    BY DEF NothingHidden
  <2> DEFINE t == page.since
             n == diffs[i].day
  <2>1. n \in Nat /\ n <= LastDay /\ LastDay \in Nat /\ LastDay <= 106751
    BY RowDays, Bounds
  <2>2. CASE t = NoDate
    BY <2>2 DEF ListingInv, Matches
  <2>3. CASE t # NoDate
    <3>1. Accepted(t) /\ Numbers(t) /\ Exists(t)
      BY <2>3 DEF ListingInv
    <3>2. DateLike(t) /\ DaysOf(t) \in Nat
      BY <3>1, AcceptedDate
    <3>3. DaysOf(t) <= n
      <4> DEFINE u == DateOf(n)
      <4>1. DateLike(u) /\ DaysOf(u) = n /\ NotBefore(u, t)
        BY <2>1, ShownDate
      <4> HIDE DEF n, t, u
      <4>2. CASE NotBefore(t, u)
        <5>1. t.y = u.y /\ t.m = u.m /\ t.d = u.d
          BY <3>2, <4>1, <4>2, SMT DEF NotBefore, DateLike
        <5>2. DaysOf(t) = DaysOf(u)
          BY <5>1 DEF DaysOf
        <5> QED BY <2>1, <4>1, <5>2, SMT
      <4>3. CASE ~NotBefore(t, u)
        <5>1. DaysOf(t) < DaysOf(u)
          BY <3>1, <3>2, <4>1, <4>3, LaterDate
        <5> QED BY <2>1, <3>2, <4>1, <5>1, SMT
      <4> QED BY <4>2, <4>3
    <3>4. DaysOf(t) <= 106751
      BY <2>1, <3>2, <3>3, SMT
    <3>5. Wraps(t) = 0 /\ SinceDay(t) = DaysOf(t)
      BY <3>2, <3>4, BoundKept
    <3>6. IsSince(diffs[i], t)
      <4>1. n > SinceDay(t) \/ n = SinceDay(t)
        BY <2>1, <3>2, <3>3, <3>5, SMT
      <4> QED BY <3>5, <4>1 DEF IsSince
    <3>7. Matches(diffs[i], page.severity, t)
      BY <3>6 DEF Matches
    <3> QED BY <3>7 DEF ListingInv
  <2> QED BY <2>2, <2>3
<1> QED BY <1>1, DashboardTypeCorrect, ListingInvHolds, PTL
=============================================================================
