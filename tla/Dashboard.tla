------------------------------ MODULE Dashboard ------------------------------
(***************************************************************************)
(* The evidence dashboard (dashboard.rs) over the diffs table: while diffs *)
(* are recorded, a client lists them by severity and from a date it types. *)
(* The page shows the date of every diff, so a client can tell whether the *)
(* list is what it asked for.                                              *)
(*                                                                         *)
(* An instant is a day and whether it is early in it.  The order of the    *)
(* rows on the page and its layout are left out.                           *)
(***************************************************************************)
EXTENDS Calendar, Sequences, FiniteSets

CONSTANTS
    FirstYears,   \* years with whose first day the clock may start
    LastDay,      \* the last day a time stamp can be of
    BusyDays,     \* bound: days on which diffs are found and pages asked for
    MaxDiffs,     \* bound: diffs recorded
    Limit,        \* LIMIT of the listing
    Severities,   \* SEVERITIES
    Typed         \* the dates clients type, as [y, m, d]

\* An i64 of nanoseconds ends in the course of day 106751.
ASSUME DashboardAssumption ==
    /\ \A y \in FirstYears : y \in Nat /\ y >= 1970 /\ FirstDay(y) <= LastDay
    /\ LastDay \in Nat /\ LastDay <= 106751 /\ BusyDays \subseteq 0 .. LastDay
    /\ MaxDiffs \in Nat /\ Limit \in Nat
    /\ \A t \in Typed : t.y \in Nat /\ t.m \in Nat /\ t.d \in Nat

VARIABLES
    day,       \* the clock, in days since 1970-01-01
    date,      \* the same day's date, as the calendar has it
    stamped,   \* diffs whose time is taken and whose INSERT is still to come
    diffs,     \* the table: diffs[i] has id i
    page       \* the page a client looks at

vars == <<day, date, stamped, diffs, page>>

Any == "any"       \* a filter that is absent or empty
NoSeverity == "no severity"   \* a filter SEVERITIES does not contain
NoDate == [y |-> 0, m |-> 0, d |-> 0]
Diff == [day : 0 .. LastDay, early : BOOLEAN, severity : Severities]
NoPage == [status |-> "none", severity |-> Any, since |-> NoDate, upto |-> 0, rows |-> {}]

Init ==
    /\ \E y \in FirstYears : day = FirstDay(y) /\ date = [y |-> y, m |-> 1, d |-> 1]
    /\ stamped = {} /\ diffs = <<>>
    /\ page = NoPage

\* Once there are diffs only busy days matter.
Tomorrow ==
    /\ day < LastDay
    /\ (stamped = {} /\ diffs = <<>>) \/ day + 1 \in BusyDays
    /\ day' = day + 1
    /\ date' = DayAfter(date)
    /\ page' = NoPage
    /\ UNCHANGED <<stamped, diffs>>

-----------------------------------------------------------------------------
(* record_diff reads the clock before it has the connection: a row may be   *)
(* older than one inserted before it.                                       *)

Stamp ==
    /\ day \in BusyDays
    /\ Len(diffs) + Cardinality(stamped) < MaxDiffs
    /\ \E e \in BOOLEAN, s \in Severities :
         stamped' = stamped \cup {[day |-> day, early |-> e, severity |-> s]}
    /\ UNCHANGED <<day, date, diffs, page>>

RecordDiff ==
    /\ \E r \in stamped :
         /\ diffs' = Append(diffs, r)
         /\ stamped' = stamped \ {r}
    /\ UNCHANGED <<day, date, page>>

-----------------------------------------------------------------------------
(* The listing. *)

\* parse_date_to_ns takes any day up to 31 of any month.
Accepted(t) == 1970 <= t.y /\ t.y <= 9999 /\ t.m \in 1 .. 12 /\ t.d \in 1 .. 31

\* parse_filters: a severity there is none of, or a date that does not parse.
Invalid(sev, t) ==
    \/ sev \notin Severities \cup {Any}
    \/ t # NoDate /\ ~Accepted(t)

(* The product with the nanoseconds of a day wraps at 2^64 of them (in a    *)
(* release build): 213504 days, less 25 minutes for every time round.       *)
Wraps(t) == (DaysOf(t) + 106752) \div 213504
SinceDay(t) == DaysOf(t) - 213504 * Wraps(t)

\* Fault: the bound itself is left out.
IsSince_Exclusive(r, t) == r.day > SinceDay(t)

\* observed_at_ns >= ?
IsSince(r, t) ==
    \/ r.day > SinceDay(t)
    \/ r.day = SinceDay(t) /\ (r.early => Wraps(t) = 0)

\* Fault: one filter or the other.
Matches_Either(r, sev, t) ==
    \/ sev = Any \/ r.severity = sev
    \/ t = NoDate \/ IsSince(r, t)

\* Both filters, where given.
Matches(r, sev, t) ==
    /\ sev = Any \/ r.severity = sev
    /\ t = NoDate \/ IsSince(r, t)

Older(r, s) == r.day < s.day \/ (r.day = s.day /\ r.early /\ ~s.early)

\* Fault: the oldest rows first.
Listed_Oldest(rows, ids) ==
    \A i \in rows, k \in ids \ rows : ~Older(diffs[k], diffs[i])

\* ORDER BY observed_at_ns DESC: no row left out is newer than one listed.
Listed(rows, ids) ==
    \A i \in rows, k \in ids \ rows : ~Older(diffs[i], diffs[k])

\* GET /diffs and GET /diffs.json, with filters that parse.
ListDiffs(sev, t) ==
    /\ day \in BusyDays
    /\ ~Invalid(sev, t)
    /\ LET ids == {i \in DOMAIN diffs : Matches(diffs[i], sev, t)}
           n   == IF Cardinality(ids) <= Limit THEN Cardinality(ids) ELSE Limit
       IN  \E rows \in SUBSET ids :
             /\ Cardinality(rows) = n
             /\ Listed(rows, ids)
             /\ page' = [status |-> "ok", severity |-> sev, since |-> t,
                         upto |-> Len(diffs), rows |-> rows]
    /\ UNCHANGED <<day, date, stamped, diffs>>

\* Fault: the last listing is kept.
RejectFilter_KeepsRows(sev, t) ==
    /\ day \in BusyDays
    /\ Invalid(sev, t)
    /\ page' = [page EXCEPT !.status = "bad request", !.severity = sev, !.since = t]
    /\ UNCHANGED <<day, date, stamped, diffs>>

\* 400: a filter that does not parse.
RejectFilter(sev, t) ==
    /\ day \in BusyDays
    /\ Invalid(sev, t)
    /\ page' = [NoPage EXCEPT !.status = "bad request", !.severity = sev, !.since = t]
    /\ UNCHANGED <<day, date, stamped, diffs>>

Next ==
    \/ Tomorrow \/ Stamp \/ RecordDiff
    \/ \E sev \in Severities \cup {Any, NoSeverity}, t \in Typed \cup {NoDate} :
         ListDiffs(sev, t) \/ RejectFilter(sev, t)

Spec == Init /\ [][Next]_vars
-----------------------------------------------------------------------------
(* Properties *)

(* Every variable keeps its type, and only listings have rows, LIMIT at     *)
(* most.                                                                    *)
TypeOK ==
    /\ day \in 0 .. LastDay
    /\ stamped \subseteq Diff /\ diffs \in Seq(Diff)
    /\ page.status \in {"none", "ok", "bad request"}
    /\ page.upto \in 0 .. Len(diffs) /\ page.rows \subseteq 1 .. page.upto
    /\ page.status # "ok" => page.rows = {}
    /\ Cardinality(page.rows) <= Limit

(* The two conversions agree with the calendar, and so undo each other, on  *)
(* every day a time stamp can be of.                                        *)
CalendarAgrees == DateOf(day) = date /\ DaysOf(date) = day

(* "UTC date inclusive lower bound" (dashboard.rs): no listed diff shows an *)
(* earlier date than the one asked for.  Dates no month has are taken for   *)
(* days of the next month, so this holds of them too; it fails of the dates *)
(* after the last day a time stamp can be of, at which the bound wraps.     *)
SinceIsLowerBound ==
    page.status = "ok" /\ NotBefore(DateOf(LastDay), page.since) =>
        \A i \in page.rows : NotBefore(DateOf(diffs[i].day), page.since)

(* The dashboard hides no divergence: a diff in the table when the page was *)
(* made, of the severity asked for and showing a date not before the one    *)
(* asked for, is listed, or Limit others that are no older are.             *)
NothingHidden ==
    page.status = "ok" /\ (page.since = NoDate \/ Exists(page.since)) =>
        \A i \in 1 .. page.upto :
            \/ i \in page.rows
            \/ page.severity \notin {Any, diffs[i].severity}
            \/ ~NotBefore(DateOf(diffs[i].day), page.since)
            \/ /\ Cardinality(page.rows) = Limit
               /\ \A k \in page.rows : ~Older(diffs[k], diffs[i])
=============================================================================
