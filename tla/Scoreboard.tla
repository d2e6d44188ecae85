------------------------------ MODULE Scoreboard ------------------------------
(***************************************************************************)
(* The conformance scoreboard: collect (scoreboard.rs) asks the tables a   *)
(* row of questions, each under the connection's mutex for itself, while   *)
(* diffs are recorded and writes come, succeed and are given up in between *)
(* (db.rs), and puts the answers on one page.                              *)
(***************************************************************************)
EXTENDS Integers, Sequences, FiniteSets

CONSTANTS
    Writes,      \* the writes clients send
    PathOf,      \* PathOf[w]: the path of a write
    Findings,    \* severity and path of the diffs that may be recorded
    Windows,     \* WINDOWS: the lengths of the rolling windows
    Day,         \* which of them is the 24h window
    Top,         \* how many paths the leaderboard has
    MaxClock,    \* bound: time
    MaxDiffs,    \* bound: diffs recorded
    MaxTorn      \* bound: moves to failed_writes cut in half

ASSUME BoardAssumption ==
    /\ Windows \in Seq(Nat) /\ Day \in 1 .. Len(Windows)
    /\ Top \in Nat /\ MaxClock \in Nat /\ MaxDiffs \in Nat
    /\ MaxTorn \in Nat

VARIABLES
    clock,
    diffs,       \* the diffs table
    enqueuedAt,  \* the time stamp of each write that was queued
    queue,       \* writes with a row in write_queue
    failed,      \* rows of failed_writes, as <<write, n-th>>
    torn,        \* moves that inserted a row there and deleted none here
    pc,          \* the question collect asks next
    board,       \* the answers it has
    missed       \* the questions whose query failed and that it passed over

tableVars == <<diffs, enqueuedAt, queue, failed, torn>>
vars == <<clock, tableVars, pc, board, missed>>

NotYet == -1
Kinds == {f.severity : f \in Findings}
PathNames == {f.path : f \in Findings} \cup {PathOf[w] : w \in Writes}
NoDiff == [at |-> NotYet, severity |-> "none", path |-> "none"]

EmptyBoard ==
    [now |-> 0, windows |-> <<>>, diffsTotal |-> NotYet, requestsTotal |-> NotYet,
     breakdown |-> [k \in Kinds |-> 0], paths |-> {}, lastCritical |-> NoDiff]

Init ==
    /\ clock = 0
    /\ diffs = <<>>
    /\ enqueuedAt = [w \in Writes |-> NotYet]
    /\ queue = {} /\ failed = {} /\ torn = 0
    /\ pc = "idle" /\ board = EmptyBoard
    /\ missed = {}

-----------------------------------------------------------------------------
(* What the rest of the proxy does to the tables meanwhile. *)

\* A row's time stamp is read before its INSERT has the connection.
Stamps == {t \in {clock - 1, clock} : t >= 0}

Tick ==
    /\ clock < MaxClock
    /\ clock' = clock + 1
    /\ UNCHANGED <<tableVars, pc, board, missed>>

RecordDiff ==
    /\ Len(diffs) < MaxDiffs
    /\ \E t \in Stamps, f \in Findings :
         diffs' = Append(diffs, [at |-> t, severity |-> f.severity, path |-> f.path])
    /\ UNCHANGED <<clock, enqueuedAt, queue, failed, torn, pc, board, missed>>

EnqueueWrite(w) ==
    /\ enqueuedAt[w] = NotYet
    /\ \E t \in Stamps : enqueuedAt' = [enqueuedAt EXCEPT ![w] = t]
    /\ queue' = queue \cup {w}
    /\ UNCHANGED <<clock, diffs, failed, torn, pc, board, missed>>

MarkSucceeded(w) ==
    /\ w \in queue
    /\ queue' = queue \ {w}
    /\ UNCHANGED <<clock, diffs, enqueuedAt, failed, torn, pc, board, missed>>

RowsOf(w) == {f \in failed : f[1] = w}
Inserts(w) == failed' = failed \cup {<<w, Cardinality(RowsOf(w)) + 1>>}

\* move_to_failed keeps the connection from its INSERT to its DELETE.
MoveToFailed(w) ==
    /\ w \in queue
    /\ Inserts(w)
    /\ queue' = queue \ {w}
    /\ UNCHANGED <<clock, diffs, enqueuedAt, torn, pc, board, missed>>

\* Only the INSERT of a move takes effect.
HalfMoves(w) ==
    /\ torn < MaxTorn
    /\ torn' = torn + 1
    /\ w \in queue
    /\ Inserts(w)

\* The DELETE returns an error, which the worker passes over: the write is
\* in both tables, and will be given up again.
MoveFails(w) ==
    /\ HalfMoves(w)
    /\ UNCHANGED <<clock, diffs, enqueuedAt, queue, pc, board, missed>>

\* The page is lost; a move may stop between its INSERT and its DELETE.
CrashRestart ==
    /\ pc' = "idle" /\ board' = EmptyBoard /\ missed' = {}
    /\ UNCHANGED <<failed, torn>> \/ \E w \in Writes : HalfMoves(w)
    /\ UNCHANGED <<clock, diffs, enqueuedAt, queue>>

-----------------------------------------------------------------------------
(* The queries. *)

DiffsSince(since) == {i \in 1 .. Len(diffs) : diffs[i].at >= since}

WritesSince(since) == {w \in Writes : enqueuedAt[w] # NotYet /\ enqueuedAt[w] >= since}

About(P, w) == PathOf[w] \in P

DiffsAbout(since, P) == Cardinality({i \in DiffsSince(since) : diffs[i].path \in P})
QueuedAbout(since, P) == Cardinality({w \in queue \cap WritesSince(since) : About(P, w)})
FailedAbout(since, P) == Cardinality({f \in failed : f[1] \in WritesSince(since) /\ About(P, f[1])})

\* Fault: writes given up are counted whenever they were sent.
Requests_AllFailed(since, P) ==
    DiffsAbout(since, P) + QueuedAbout(since, P) + FailedAbout(0, P)

\* The denominator: diffs, queued writes and writes given up.
Requests(since, P) ==
    DiffsAbout(since, P) + QueuedAbout(since, P) + FailedAbout(since, P)

DiffsOf(since, p) == {i \in DiffsSince(since) : diffs[i].path = p}

\* Every choice of the Top paths with the most diffs, ties as they fall.
Leaders(since) ==
    LET diverging == {p \in PathNames : DiffsOf(since, p) # {}}
        size == IF Cardinality(diverging) < Top THEN Cardinality(diverging) ELSE Top
    IN  {S \in SUBSET diverging :
           /\ Cardinality(S) = size
           /\ \A p \in S, q \in diverging \ S :
                Cardinality(DiffsOf(since, p)) >= Cardinality(DiffsOf(since, q))}

-----------------------------------------------------------------------------
(* collect. *)

\* Fault: every query takes the time anew.
Since_Fresh(window) == clock - window

\* All queries of one page share one now_ns.
Since(window) == board.now - window

Today == Since(Windows[Day])
Asks(question, next) ==
    /\ pc = question
    /\ pc' = next
    /\ UNCHANGED <<clock, tableVars>>

\* A query that fails is passed over.
Swallowed == missed' = missed \cup {pc}

Begin ==
    /\ Asks("idle", "diffs")
    /\ UNCHANGED missed
    /\ board' = [EmptyBoard EXCEPT !.now = clock]

\* The first window not asked about yet.
NextWindow == Windows[Len(board.windows) + 1]

CountDiffs ==
    /\ Asks("diffs", "requests")
    /\ UNCHANGED missed
    /\ board' = [board EXCEPT !.windows =
                   Append(@, [diffs |-> Cardinality(DiffsSince(Since(NextWindow))),
                              requests |-> NotYet])]

\* Fault: the last window is left out.
CountRequests_Short ==
    LET i == Len(board.windows)
    IN  /\ Asks("requests", IF i < Len(Windows) - 1 THEN "diffs" ELSE "total")
        /\ UNCHANGED missed
        /\ board' = [board EXCEPT !.windows[i].requests = Requests(Since(Windows[i]), PathNames)]

CountRequests ==
    LET i == Len(board.windows)
    IN  /\ Asks("requests", IF i < Len(Windows) THEN "diffs" ELSE "total")
        /\ UNCHANGED missed
        /\ board' = [board EXCEPT !.windows[i].requests = Requests(Since(Windows[i]), PathNames)]

CountAllDiffs ==
    /\ Asks("total", "approx")
    /\ UNCHANGED missed
    /\ board' = [board EXCEPT !.diffsTotal = Len(diffs)]

CountAllRequests ==
    /\ Asks("approx", "breakdown")
    /\ UNCHANGED missed
    /\ board' = [board EXCEPT !.requestsTotal = Requests(0, PathNames)]

\* Fault: the bars are for all time.
BreakDown_AllTime ==
    /\ Asks("breakdown", "paths")
    /\ UNCHANGED missed
    /\ board' = [board EXCEPT !.breakdown =
                   [k \in Kinds |-> Cardinality({i \in 1 .. Len(diffs) : diffs[i].severity = k})]]

BreakDown ==
    /\ Asks("breakdown", "paths")
    /\ UNCHANGED missed
    /\ board' = [board EXCEPT !.breakdown =
                   [k \in Kinds |-> Cardinality({i \in DiffsSince(Today) : diffs[i].severity = k})]]

Line(p) ==
    [path |-> p, diffs |-> Cardinality(DiffsOf(Today, p)), requests |-> Requests(Today, {p})]

RankPaths ==
    /\ Asks("paths", "critical")
    /\ UNCHANGED missed
    /\ \E S \in Leaders(Today) : board' = [board EXCEPT !.paths = {Line(p) : p \in S}]

\* A path's line when some of its counts fail: they count as none.
ShortLine(p, noQueued, noFailed) ==
    [Line(p) EXCEPT !.requests = @ - (IF noQueued THEN QueuedAbout(Today, {p}) ELSE 0)
                                   - (IF noFailed THEN FailedAbout(Today, {p}) ELSE 0)]

\* The queued writes of the paths Q, and the failed ones of F, are not counted.
RankPathsShort ==
    /\ Asks("paths", "critical")
    /\ Swallowed
    /\ \E S \in Leaders(Today) : \E Q, F \in SUBSET S :
         board' = [board EXCEPT !.paths = {ShortLine(p, p \in Q, p \in F) : p \in S}]

Criticals == {i \in 1 .. Len(diffs) : diffs[i].severity = "critical"}

\* Fault: the order is ascending.
FindCritical_Oldest ==
    /\ Asks("critical", "shown")
    /\ UNCHANGED missed
    /\ IF Criticals = {}
         THEN UNCHANGED board
         ELSE \E i \in Criticals :
                /\ \A j \in Criticals : diffs[i].at <= diffs[j].at
                /\ board' = [board EXCEPT !.lastCritical = diffs[i]]

\* ORDER BY observed_at_ns DESC LIMIT 1.
FindCritical ==
    /\ Asks("critical", "shown")
    /\ UNCHANGED missed
    /\ IF Criticals = {}
         THEN UNCHANGED board
         ELSE \E i \in Criticals :
                /\ \A j \in Criticals : diffs[i].at >= diffs[j].at
                /\ board' = [board EXCEPT !.lastCritical = diffs[i]]

\* The query fails, as if there were no critical diff.
FindNoCritical ==
    /\ Asks("critical", "shown")
    /\ Swallowed
    /\ UNCHANGED board

\* The page is sent; or a query failed and an error is.
Respond ==
    /\ pc # "idle"
    /\ pc' = "idle" /\ board' = EmptyBoard /\ missed' = {}
    /\ UNCHANGED <<clock, tableVars>>

Collect ==
    \/ Begin \/ CountDiffs \/ CountRequests \/ CountAllDiffs \/ CountAllRequests
    \/ BreakDown \/ RankPaths \/ RankPathsShort \/ FindCritical \/ FindNoCritical \/ Respond

Others ==
    \/ RecordDiff \/ Tick
    \/ \E w \in Writes : EnqueueWrite(w) \/ MarkSucceeded(w) \/ MoveToFailed(w) \/ MoveFails(w)

Next == Collect \/ Others \/ CrashRestart

Safety == Init /\ [][Next]_vars
-----------------------------------------------------------------------------
(* Properties *)

(* Every variable keeps its type; the answers come in the order of collect, *)
(* one window after the other.                                              *)
TypeOK ==
    /\ clock \in 0 .. MaxClock
    /\ diffs \in Seq([at : 0 .. MaxClock, severity : Kinds, path : PathNames])
    /\ queue \subseteq {w \in Writes : enqueuedAt[w] # NotYet}
    /\ torn \in 0 .. MaxTorn
    /\ failed \subseteq Writes \X (1 .. 1 + MaxTorn)
    /\ Len(board.windows) <= Len(Windows)
    /\ pc \notin {"idle", "diffs", "requests"} => Len(board.windows) = Len(Windows)
    /\ board.now <= clock /\ missed \subseteq {"paths", "critical"}

Panels ==
    {board.windows[i] : i \in 1 .. Len(board.windows)}
    \cup {[diffs |-> board.diffsTotal, requests |-> board.requestsTotal]}
    \cup {[diffs |-> l.diffs, requests |-> l.requests] : l \in board.paths}

(* Every rate shown is at most 1 ("in [0.0, 1.0]", WindowStats), although   *)
(* its two numbers are read one after the other while rows come and go.     *)
RatesAreFractions == \A p \in Panels : p.requests = NotYet \/ p.diffs <= p.requests

(* The denominator "overstates divergence rather than hiding it" (db.rs):   *)
(* it never exceeds the reads that diverged and the writes of the window by *)
(* more than the moves that a crash, or an error the worker passes over,    *)
(* cut in half.                                                             *)
HidesNoDivergence ==
    \A i \in 1 .. Len(board.windows) :
        board.windows[i].requests <=
            Cardinality(DiffsSince(Since(Windows[i])))
            + Cardinality(WritesSince(Since(Windows[i]))) + torn

(* The bars of the severity chart add up to no more than the diffs of the   *)
(* window by then, and to no fewer than its card counted before.            *)
BarsMatchCard ==
    LET bars == {b \in Kinds \X (1 .. MaxDiffs) : b[2] <= board.breakdown[b[1]]}
    IN  /\ Cardinality(bars) <= Cardinality(DiffsSince(Today))
        /\ pc \in {"paths", "critical", "shown"} =>
             board.windows[Day].diffs <= Cardinality(bars)

(* When the chart shows a critical diff, the link to the last critical one  *)
(* leads into the same 24 hours; it is missing only if its query failed.    *)
LinkMatchesChart ==
    pc = "shown" /\ "critical" \in Kinds /\ board.breakdown["critical"] > 0 =>
        board.lastCritical.at >= Today \/ (board.lastCritical = NoDiff /\ "critical" \in missed)
=============================================================================
