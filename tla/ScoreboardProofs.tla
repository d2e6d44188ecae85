--------------------------- MODULE ScoreboardProofs ---------------------------
(***************************************************************************)
(* A page's numbers, proved for any tables, windows, number of paths,      *)
(* moves cut in half and failing queries.  Diffs never leave their table, and the    *)
(* window of a page is fixed: what is counted first is no more than the    *)
(* same counted later (BoardInv for the rates, PageInv for the             *)
(* denominators, ChartInv for the bars, LinkInv for the link).             *)
(***************************************************************************)
EXTENDS Scoreboard, SequenceTheorems, FiniteSetTheorems, FunctionTheorems, TLAPS

DiffRow == [at : Nat, severity : Kinds, path : PathNames]
Count == Nat \cup {NotYet}
Panel == [diffs : Nat, requests : Count]
PathLine == [path : PathNames, diffs : Nat, requests : Nat]
Board ==
    [now : Nat, windows : Seq(Panel), diffsTotal : Count, requestsTotal : Count,
     breakdown : [Kinds -> Nat], paths : SUBSET PathLine, lastCritical : DiffRow \cup {NoDiff}]

TablesOK ==
    /\ clock \in Nat /\ diffs \in Seq(DiffRow)
    /\ IsFiniteSet(queue) /\ IsFiniteSet(failed)

(* The panels that are done show fractions.                                 *)
PanelsOK ==
    /\ \A i \in 1 .. Len(board.windows) :
         LET w == board.windows[i]
         IN  w.requests = NotYet \/ w.diffs <= w.requests
    /\ board.requestsTotal = NotYet \/ board.diffsTotal <= board.requestsTotal
    /\ \A l \in board.paths : l.diffs <= l.requests

(* Between the two questions of a panel its diffs are still there.          *)
HalfWay ==
    /\ pc = "requests" =>
         LET i == Len(board.windows)
         IN  i >= 1 /\ board.windows[i].diffs <= Cardinality(DiffsSince(Since(Windows[i])))
    /\ pc \in {"diffs", "requests", "total", "approx"} => board.requestsTotal = NotYet
    /\ pc = "approx" => board.diffsTotal <= Len(diffs)

BoardInv == TablesOK /\ board \in Board /\ PanelsOK /\ HalfWay

-----------------------------------------------------------------------------
(* Counts of rows are natural numbers. *)
LEMMA Interval ==
  ASSUME NEW n \in Nat
  PROVE  IsFiniteSet(1 .. n) /\ Cardinality(1 .. n) = n
<1>1. 1 \in Int /\ n \in Int
  OBVIOUS
<1>2. IsFiniteSet(1 .. n) /\ Cardinality(1 .. n) = IF 1 > n THEN 0 ELSE n - 1 + 1
  BY <1>1, FS_Interval, Zenon
<1>3. (IF 1 > n THEN 0 ELSE n - 1 + 1) = n
  OBVIOUS
<1> QED BY <1>2, <1>3

LEMMA CountType ==
  ASSUME diffs \in Seq(DiffRow), NEW S \in SUBSET (1 .. Len(diffs))
  PROVE  IsFiniteSet(S) /\ Cardinality(S) \in Nat /\ Cardinality(S) <= Len(diffs)
<1>1. Len(diffs) \in Nat
  OBVIOUS
<1>2. IsFiniteSet(1 .. Len(diffs)) /\ Cardinality(1 .. Len(diffs)) = Len(diffs)
  BY <1>1, Interval
<1> QED BY <1>2, FS_Subset, FS_CardinalityType

(* The denominator is no less than the diffs it is about, nor, when any of  *)
(* its two other counts are missing, than those.                            *)
LEMMA RequestsCoverDiffs ==
  ASSUME TablesOK, NEW since, NEW P
  PROVE  /\ DiffsAbout(since, P) \in Nat
         /\ QueuedAbout(since, P) \in Nat /\ FailedAbout(since, P) \in Nat
         /\ Requests(since, P) \in Nat /\ DiffsAbout(since, P) <= Requests(since, P)
         /\ \A q \in {0, QueuedAbout(since, P)}, f \in {0, FailedAbout(since, P)} :
              /\ Requests(since, P) - q - f \in Nat
              /\ DiffsAbout(since, P) <= Requests(since, P) - q - f
<1> DEFINE D == {i \in DiffsSince(since) : diffs[i].path \in P}
           Q == {w \in queue \cap WritesSince(since) : About(P, w)}
           F == {f \in failed : f[1] \in WritesSince(since) /\ About(P, f[1])}
<1>1. Cardinality(D) \in Nat
  <2>1. D \in SUBSET (1 .. Len(diffs))
    BY DEF DiffsSince
  <2> QED BY <2>1, CountType DEF TablesOK
<1>2. Cardinality(Q) \in Nat
  <2>1. IsFiniteSet(queue) /\ Q \in SUBSET queue
    BY DEF TablesOK
  <2> QED BY <2>1, FS_Subset, FS_CardinalityType
<1>3. Cardinality(F) \in Nat
  <2>1. IsFiniteSet(failed) /\ F \in SUBSET failed
    BY DEF TablesOK
  <2> QED BY <2>1, FS_Subset, FS_CardinalityType
<1>4. /\ DiffsAbout(since, P) = Cardinality(D)
      /\ QueuedAbout(since, P) = Cardinality(Q) /\ FailedAbout(since, P) = Cardinality(F)
  BY DEF DiffsAbout, QueuedAbout, FailedAbout
<1>5. Requests(since, P) = DiffsAbout(since, P) + QueuedAbout(since, P) + FailedAbout(since, P)
  BY DEF Requests
<1> QED BY <1>1, <1>2, <1>3, <1>4, <1>5

(* All paths together are about all diffs, and one path about its own.      *)
LEMMA AboutEveryPath ==
  ASSUME TablesOK, NEW since
  PROVE  /\ DiffsAbout(since, PathNames) = Cardinality(DiffsSince(since))
         /\ \A p : DiffsAbout(since, {p}) = Cardinality(DiffsOf(since, p))
         /\ DiffsAbout(0, PathNames) = Len(diffs)
<1>1. /\ diffs \in Seq(DiffRow) /\ Len(diffs) \in Nat
      /\ \A i \in 1 .. Len(diffs) : diffs[i].path \in PathNames /\ diffs[i].at >= 0
  <2>1. \A i \in 1 .. Len(diffs) : diffs[i] \in DiffRow
    BY ElementOfSeq DEF TablesOK
  <2> QED BY <2>1 DEF TablesOK, DiffRow
<1>2. {i \in DiffsSince(since) : diffs[i].path \in PathNames} = DiffsSince(since)
  BY <1>1 DEF DiffsSince
<1>3. \A p : {i \in DiffsSince(since) : diffs[i].path \in {p}} = DiffsOf(since, p)
  BY DEF DiffsOf
<1>4. {i \in DiffsSince(0) : diffs[i].path \in PathNames} = 1 .. Len(diffs)
  BY <1>1 DEF DiffsSince
<1>5. Cardinality(1 .. Len(diffs)) = Len(diffs)
  BY <1>1, Interval
<1> QED BY <1>2, <1>3, <1>4, <1>5 DEF DiffsAbout

(* What the rest of the proxy does leaves the page's numbers true: diffs    *)
(* are only added.                                                          *)
LEMMA TablesMove ==
  ASSUME BoardInv, TablesOK', UNCHANGED <<pc, board>>,
         Len(diffs') >= Len(diffs),
         \A i \in 1 .. Len(diffs) : diffs'[i] = diffs[i]
  PROVE  BoardInv'
<1>1. PanelsOK' /\ board' \in Board
  BY DEF BoardInv, PanelsOK
<1>2. ASSUME pc = "requests"
      PROVE  board.windows[Len(board.windows)].diffs
               <= Cardinality(DiffsSince(Since(Windows[Len(board.windows)])))'
  <2> DEFINE i == Len(board.windows)
             since == board.now - Windows[i]
  <2>1. /\ diffs \in Seq(DiffRow) /\ diffs' \in Seq(DiffRow)
        /\ Len(diffs) \in Nat /\ Len(diffs') \in Nat
    BY DEF BoardInv, TablesOK
  <2>2. /\ DiffsSince(since) \subseteq DiffsSince(since)' /\ DiffsSince(since)' \subseteq 1 .. Len(diffs')
        /\ DiffsSince(since) \subseteq 1 .. Len(diffs)
    BY <2>1 DEF DiffsSince
  <2>3. IsFiniteSet(1 .. Len(diffs')) /\ IsFiniteSet(DiffsSince(since)')
    <3>1. IsFiniteSet(1 .. Len(diffs'))
      BY <2>1, Interval
    <3> QED BY <2>2, <3>1, FS_Subset
  <2>4. /\ Cardinality(DiffsSince(since)) <= Cardinality(DiffsSince(since)')
        /\ Cardinality(DiffsSince(since)') \in Nat
    BY <2>2, <2>3, FS_Subset, FS_CardinalityType
  <2>5. Cardinality(DiffsSince(since)) \in Nat
    BY <2>1, <2>2, CountType
  <2>6. board.windows[i].diffs \in Nat /\ board.windows[i].diffs <= Cardinality(DiffsSince(since))
    <3>1. i \in Nat /\ i >= 1 /\ board.windows[i].diffs <= Cardinality(DiffsSince(since))
      BY <1>2 DEF BoardInv, HalfWay, Since, Board
    <3>2. board.windows[i] \in Panel
      BY <3>1, ElementOfSeq DEF BoardInv, Board
    <3> QED BY <3>1, <3>2 DEF Panel
  <2>7. board.windows[i].diffs <= Cardinality(DiffsSince(since)')
    BY <2>4, <2>5, <2>6
  <2>8. DiffsSince(Since(Windows[i]))' = DiffsSince(since)'
    BY DEF Since
  <2> QED BY <2>7, <2>8
<1>3. ASSUME pc = "approx" PROVE board.diffsTotal <= Len(diffs')
  <2>1. board.diffsTotal \in Int /\ Len(diffs) \in Nat /\ Len(diffs') \in Nat
    BY DEF BoardInv, TablesOK, Board, Count, NotYet
  <2> QED BY <1>3, <2>1 DEF BoardInv, HalfWay
<1>4. HalfWay'
  BY <1>2, <1>3 DEF BoardInv, HalfWay
<1> QED BY <1>1, <1>4 DEF BoardInv
(* The page's fields, one by one. *)
LEMMA BoardFields ==
  ASSUME board \in Board
  PROVE  /\ board.now \in Nat /\ board.windows \in Seq(Panel)
         /\ board.diffsTotal \in Count /\ board.requestsTotal \in Count
         /\ board.breakdown \in [Kinds -> Nat] /\ board.paths \in SUBSET PathLine
         /\ board.lastCritical \in DiffRow \cup {NoDiff}
BY DEF Board

LEMMA EmptyBoardOK ==
  /\ EmptyBoard \in Board /\ Len(EmptyBoard.windows) = 0
  /\ EmptyBoard.requestsTotal = NotYet /\ EmptyBoard.paths = {}
<1>1. <<>> \in Seq(Panel) /\ Len(<<>>) = 0
  OBVIOUS
<1>2. [k \in Kinds |-> 0] \in [Kinds -> Nat]
  OBVIOUS
<1> QED BY <1>1, <1>2 DEF EmptyBoard, Board, Count

(* The page is begun, or is over. *)
LEMMA StartsAnew ==
  ASSUME TablesOK', board'.windows = <<>>, board'.requestsTotal = NotYet, board'.paths = {},
         board' \in Board, pc' \in {"idle", "diffs"}
  PROVE  BoardInv'
<1>1. Len(board'.windows) = 0
  BY DEF Board
<1>2. PanelsOK'
  BY <1>1 DEF PanelsOK
<1>3. HalfWay'
  BY DEF HalfWay
<1> QED BY <1>2, <1>3 DEF BoardInv

(* A question that adds no panel. *)
LEMMA AddsNoPanel ==
  ASSUME BoardInv, TablesOK', board' \in Board,
         board'.windows = board.windows, board'.requestsTotal = board.requestsTotal,
         board'.diffsTotal = board.diffsTotal, board'.paths = board.paths,
         pc' \in {"paths", "shown"}
  PROVE  BoardInv'
<1>1. PanelsOK'
  BY DEF BoardInv, PanelsOK
<1>2. HalfWay'
  BY DEF HalfWay
<1> QED BY <1>1, <1>2 DEF BoardInv

LEMMA WindowOpens ==
  ASSUME BoardInv, CountDiffs
  PROVE  BoardInv'
<1> DEFINE n == Cardinality(DiffsSince(Since(NextWindow)))
           new == [diffs |-> n, requests |-> NotYet]
           k == Len(board.windows)
<1>1. /\ board' = [board EXCEPT !.windows = Append(board.windows, new)]
      /\ pc' = "requests" /\ pc = "diffs" /\ UNCHANGED <<clock, tableVars>>
  BY DEF CountDiffs, Asks
<1>2. TablesOK' /\ TablesOK /\ board \in Board
  BY <1>1 DEF BoardInv, TablesOK, tableVars
<1>3. n \in Nat
  <2>1. DiffsSince(Since(NextWindow)) \in SUBSET (1 .. Len(diffs))
    BY DEF DiffsSince
  <2> QED BY <1>2, <2>1, CountType DEF TablesOK
<1>4. new \in Panel /\ board.windows \in Seq(Panel)
  BY <1>2, <1>3, BoardFields DEF Panel, Count
<1>5. board'.windows = Append(board.windows, new) /\ board' \in Board
      /\ board'.now = board.now /\ board'.requestsTotal = board.requestsTotal
      /\ board'.diffsTotal = board.diffsTotal /\ board'.paths = board.paths
  <2>1. Append(board.windows, new) \in Seq(Panel)
    BY <1>4
  <2> QED BY <1>1, <1>2, <2>1 DEF Board
<1>6. /\ k \in Nat /\ Len(board'.windows) = k + 1 /\ board'.windows[k + 1] = new
      /\ \A i \in 1 .. k : board'.windows[i] = board.windows[i]
  BY <1>4, <1>5
<1>7. PanelsOK'
  BY <1>5, <1>6 DEF BoardInv, PanelsOK
<1>8. HalfWay'
  <2>1. \A j : DiffsSince(Since(Windows[j]))' = DiffsSince(Since(Windows[j]))
    BY <1>1, <1>5 DEF DiffsSince, Since, tableVars
  <2>2. LET i == Len(board'.windows)
        IN  i >= 1 /\ board'.windows[i].diffs <= Cardinality(DiffsSince(Since(Windows[i])))
    BY <1>3, <1>6 DEF NextWindow
  <2>3. board'.requestsTotal = NotYet
    BY <1>1, <1>5 DEF BoardInv, HalfWay
  <2> QED BY <1>1, <1>6, <2>1, <2>2, <2>3 DEF HalfWay
<1> QED BY <1>2, <1>5, <1>7, <1>8 DEF BoardInv

LEMMA WindowCloses ==
  ASSUME BoardInv, CountRequests
  PROVE  BoardInv'
<1> DEFINE i == Len(board.windows)
           n == Requests(Since(Windows[i]), PathNames)
           old == board.windows[i]
           new == [old EXCEPT !.requests = n]
<1>1. /\ board' = [board EXCEPT !.windows[i].requests = n]
      /\ pc' \in {"diffs", "total"} /\ pc = "requests" /\ UNCHANGED <<clock, tableVars>>
  BY DEF CountRequests, Asks
<1>2. TablesOK' /\ TablesOK /\ board \in Board
  BY <1>1 DEF BoardInv, TablesOK, tableVars
<1>3. /\ board.windows \in Seq(Panel) /\ i \in Nat /\ i >= 1 /\ i \in 1 .. Len(board.windows)
      /\ old.diffs <= Cardinality(DiffsSince(Since(Windows[i])))
  BY <1>1, <1>2, BoardFields DEF BoardInv, HalfWay
<1>4. n \in Nat /\ Cardinality(DiffsSince(Since(Windows[i]))) <= n
      /\ Cardinality(DiffsSince(Since(Windows[i]))) \in Nat
  BY <1>2, RequestsCoverDiffs, AboutEveryPath
<1>5. old \in Panel
  BY <1>3, ElementOfSeq
<1> HIDE DEF n
<1>6. new \in Panel /\ new.requests = n /\ new.diffs = old.diffs /\ new.diffs <= n
  BY <1>3, <1>4, <1>5 DEF Panel, Count
<1> HIDE DEF new
<1>7. board' = [board EXCEPT !.windows = [board.windows EXCEPT ![i] = new]]
  BY <1>1, <1>3 DEF new
<1>8. /\ [board.windows EXCEPT ![i] = new] \in Seq(Panel)
      /\ Len([board.windows EXCEPT ![i] = new]) = i
      /\ \A j \in 1 .. i : [board.windows EXCEPT ![i] = new][j] = IF i = j THEN new ELSE board.windows[j]
  BY <1>3, <1>6, ExceptSeq
<1>9. /\ board' \in Board /\ board'.windows = [board.windows EXCEPT ![i] = new]
      /\ board'.requestsTotal = board.requestsTotal
      /\ board'.diffsTotal = board.diffsTotal /\ board'.paths = board.paths
  BY <1>2, <1>7, <1>8 DEF Board
<1>10. PanelsOK'
  <2>1. \A j \in 1 .. Len(board'.windows) :
           board'.windows[j].requests = NotYet \/ board'.windows[j].diffs <= board'.windows[j].requests
    BY <1>3, <1>6, <1>8, <1>9 DEF BoardInv, PanelsOK
  <2> QED BY <1>9, <2>1 DEF BoardInv, PanelsOK
<1>11. HalfWay'
  BY <1>1, <1>9 DEF BoardInv, HalfWay
<1> QED BY <1>2, <1>9, <1>10, <1>11 DEF BoardInv

LEMMA TotalsAsked ==
  ASSUME BoardInv, CountAllDiffs \/ CountAllRequests
  PROVE  BoardInv'
<1>1. UNCHANGED <<clock, tableVars>>
  BY DEF CountAllDiffs, CountAllRequests, Asks
<1>2. TablesOK' /\ TablesOK /\ board \in Board /\ Len(diffs) \in Nat
  BY <1>1 DEF BoardInv, TablesOK, tableVars
<1>3. CASE CountAllDiffs
  <2>1. board' = [board EXCEPT !.diffsTotal = Len(diffs)] /\ pc = "total" /\ pc' = "approx"
    BY <1>3 DEF CountAllDiffs, Asks
  <2>2. /\ board' \in Board /\ board'.windows = board.windows /\ board'.paths = board.paths
        /\ board'.requestsTotal = board.requestsTotal /\ board'.diffsTotal = Len(diffs)
    BY <1>2, <2>1 DEF Board, Count
  <2>3. board.requestsTotal = NotYet
    BY <2>1 DEF BoardInv, HalfWay
  <2>4. PanelsOK' /\ HalfWay'
    BY <1>1, <1>2, <2>1, <2>2, <2>3 DEF BoardInv, PanelsOK, HalfWay, tableVars
  <2> QED BY <1>2, <2>2, <2>4 DEF BoardInv
<1>4. CASE CountAllRequests
  <2> DEFINE n == Requests(0, PathNames)
  <2>1. board' = [board EXCEPT !.requestsTotal = n] /\ pc = "approx" /\ pc' = "breakdown"
    BY <1>4 DEF CountAllRequests, Asks
  <2>2. n \in Nat /\ Len(diffs) <= n
    BY <1>2, RequestsCoverDiffs, AboutEveryPath
  <2> HIDE DEF n
  <2>3. /\ board' \in Board /\ board'.windows = board.windows /\ board'.paths = board.paths
        /\ board'.requestsTotal = n /\ board'.diffsTotal = board.diffsTotal
    BY <1>2, <2>1, <2>2 DEF Board, Count
  <2>4. board.diffsTotal <= n
    <3>1. board.diffsTotal \in Int /\ board.diffsTotal <= Len(diffs)
      BY <1>2, <2>1, BoardFields DEF BoardInv, HalfWay, Count, NotYet
    <3> QED BY <1>2, <2>2, <3>1
  <2>5. PanelsOK' /\ HalfWay'
    BY <2>1, <2>3, <2>4 DEF BoardInv, PanelsOK, HalfWay
  <2> QED BY <1>2, <2>3, <2>5 DEF BoardInv
<1> QED BY <1>3, <1>4

LEMMA BarsAndLinkAsked ==
  ASSUME BoardInv, BreakDown \/ FindCritical \/ FindNoCritical
  PROVE  BoardInv'
<1>1. UNCHANGED <<clock, tableVars>>
  BY DEF BreakDown, FindCritical, FindNoCritical, Asks
<1>2. TablesOK' /\ TablesOK /\ board \in Board
  BY <1>1 DEF BoardInv, TablesOK, tableVars
<1>3. CASE BreakDown
  <2> DEFINE bars == [k \in Kinds |-> Cardinality({i \in DiffsSince(Today) : diffs[i].severity = k})]
  <2>1. board' = [board EXCEPT !.breakdown = bars] /\ pc' = "paths"
    BY <1>3 DEF BreakDown, Asks
  <2>2. bars \in [Kinds -> Nat]
    <3>1. ASSUME NEW k \in Kinds
          PROVE  Cardinality({i \in DiffsSince(Today) : diffs[i].severity = k}) \in Nat
      <4>1. {i \in DiffsSince(Today) : diffs[i].severity = k} \in SUBSET (1 .. Len(diffs))
        BY DEF DiffsSince
      <4> QED BY <1>2, <4>1, CountType DEF TablesOK
    <3> QED BY <3>1
  <2> HIDE DEF bars
  <2>3. /\ board' \in Board /\ board'.windows = board.windows /\ board'.paths = board.paths
        /\ board'.requestsTotal = board.requestsTotal /\ board'.diffsTotal = board.diffsTotal
    BY <1>2, <2>1, <2>2 DEF Board
  <2> QED BY <1>2, <2>1, <2>3, AddsNoPanel
<1>4. CASE FindCritical \/ FindNoCritical
  <2>1. PICK d \in DiffRow \cup {NoDiff} : board' = [board EXCEPT !.lastCritical = d]
    <3>1. CASE UNCHANGED board
      BY <1>2, <3>1, BoardFields DEF Board
    <3>2. ASSUME NEW i \in Criticals, board' = [board EXCEPT !.lastCritical = diffs[i]]
          PROVE  diffs[i] \in DiffRow
      BY <1>2, ElementOfSeq DEF Criticals, TablesOK
    <3> QED BY <1>4, <3>1, <3>2 DEF FindCritical, FindNoCritical
  <2>2. /\ board' \in Board /\ board'.windows = board.windows /\ board'.paths = board.paths
        /\ board'.requestsTotal = board.requestsTotal /\ board'.diffsTotal = board.diffsTotal
    BY <1>2, <2>1 DEF Board
  <2>3. pc' = "shown"
    BY <1>4 DEF FindCritical, FindNoCritical, Asks
  <2> QED BY <1>2, <2>2, <2>3, AddsNoPanel
<1> QED BY <1>3, <1>4

LEMMA PathsRanked ==
  ASSUME BoardInv, RankPaths \/ RankPathsShort
  PROVE  BoardInv'
<1>1. UNCHANGED <<clock, tableVars>> /\ pc' = "critical"
  BY DEF RankPaths, RankPathsShort, Asks
<1>2. TablesOK' /\ TablesOK /\ board \in Board
  BY <1>1 DEF BoardInv, TablesOK, tableVars
<1>3. \A p \in PathNames : Line(p) \in PathLine /\ Line(p).diffs <= Line(p).requests
  <2> SUFFICES ASSUME NEW p \in PathNames
               PROVE  Line(p) \in PathLine /\ Line(p).diffs <= Line(p).requests
    OBVIOUS
  <2>1. /\ DiffsAbout(Today, {p}) = Cardinality(DiffsOf(Today, p)) /\ DiffsAbout(Today, {p}) \in Nat
        /\ Requests(Today, {p}) \in Nat /\ DiffsAbout(Today, {p}) <= Requests(Today, {p})
    BY <1>2, RequestsCoverDiffs, AboutEveryPath
  <2> QED BY <2>1 DEF Line, PathLine
<1>4. ASSUME NEW p \in PathNames, NEW Q, NEW F
      PROVE  /\ ShortLine(p, p \in Q, p \in F) \in PathLine
             /\ ShortLine(p, p \in Q, p \in F).diffs <= ShortLine(p, p \in Q, p \in F).requests
  <2> DEFINE q == IF p \in Q THEN QueuedAbout(Today, {p}) ELSE 0
             f == IF p \in F THEN FailedAbout(Today, {p}) ELSE 0
  <2>1. q \in {0, QueuedAbout(Today, {p})} /\ f \in {0, FailedAbout(Today, {p})}
    OBVIOUS
  <2>2. ShortLine(p, p \in Q, p \in F) = [Line(p) EXCEPT !.requests = Requests(Today, {p}) - q - f]
    BY DEF ShortLine, Line
  <2> HIDE DEF q, f
  <2>3. /\ DiffsAbout(Today, {p}) = Cardinality(DiffsOf(Today, p)) /\ DiffsAbout(Today, {p}) \in Nat
        /\ Requests(Today, {p}) - q - f \in Nat
        /\ DiffsAbout(Today, {p}) <= Requests(Today, {p}) - q - f
    BY <1>2, <2>1, RequestsCoverDiffs, AboutEveryPath
  <2> QED BY <2>2, <2>3 DEF Line, PathLine
<1>5. \A S \in Leaders(Today) : S \subseteq PathNames
  BY DEF Leaders
<1>6. PICK L : /\ board' = [board EXCEPT !.paths = L] /\ L \in SUBSET PathLine
               /\ \A l \in L : l.diffs <= l.requests
  <2>1. CASE RankPaths
    <3>1. PICK S \in Leaders(Today) : board' = [board EXCEPT !.paths = {Line(p) : p \in S}]
      BY <2>1 DEF RankPaths
    <3>2. {Line(p) : p \in S} \in SUBSET PathLine /\ \A l \in {Line(p) : p \in S} : l.diffs <= l.requests
      BY <1>3, <1>5
    <3> QED BY <3>1, <3>2
  <2>2. CASE RankPathsShort
    <3>1. PICK S \in Leaders(Today) : \E Q, F \in SUBSET S :
             board' = [board EXCEPT !.paths = {ShortLine(p, p \in Q, p \in F) : p \in S}]
      BY <2>2 DEF RankPathsShort
    <3>2. PICK Q \in SUBSET S, F \in SUBSET S :
             board' = [board EXCEPT !.paths = {ShortLine(p, p \in Q, p \in F) : p \in S}]
      BY <3>1
    <3> DEFINE L == {ShortLine(p, p \in Q, p \in F) : p \in S}
    <3>3. \A p \in S : /\ ShortLine(p, p \in Q, p \in F) \in PathLine
                     /\ ShortLine(p, p \in Q, p \in F).diffs <= ShortLine(p, p \in Q, p \in F).requests
      BY <1>4, <1>5
    <3>4. L \in SUBSET PathLine /\ \A l \in L : l.diffs <= l.requests
      BY <3>3
    <3> QED BY <3>2, <3>4
  <2> QED BY <2>1, <2>2
<1>7. /\ board' \in Board /\ board'.windows = board.windows /\ board'.paths = L
      /\ board'.requestsTotal = board.requestsTotal /\ board'.diffsTotal = board.diffsTotal
  BY <1>2, <1>6 DEF Board
<1>8. PanelsOK' /\ HalfWay'
  BY <1>1, <1>6, <1>7 DEF BoardInv, PanelsOK, HalfWay
<1> QED BY <1>2, <1>7, <1>8 DEF BoardInv

LEMMA RowsStayFinite ==
  ASSUME TablesOK, [Next]_vars
  PROVE  /\ TablesOK'
         /\ Len(diffs') >= Len(diffs) /\ \A i \in 1 .. Len(diffs) : diffs'[i] = diffs[i]
<1>1. clock \in Nat /\ diffs \in Seq(DiffRow) /\ Len(diffs) \in Nat
      /\ IsFiniteSet(queue) /\ IsFiniteSet(failed)
  BY DEF TablesOK
<1>2. CASE Collect \/ UNCHANGED vars
  BY <1>1, <1>2 DEF Collect, Begin, CountDiffs, CountRequests, CountAllDiffs, CountAllRequests,
        BreakDown, RankPaths, RankPathsShort, FindCritical, FindNoCritical, Respond,
        Asks, TablesOK, tableVars, vars
<1>3. CASE RecordDiff
  <2>1. PICK t \in Stamps, f \in Findings :
           diffs' = Append(diffs, [at |-> t, severity |-> f.severity, path |-> f.path])
    BY <1>3 DEF RecordDiff
  <2>2. [at |-> t, severity |-> f.severity, path |-> f.path] \in DiffRow
    BY <1>1 DEF Stamps, DiffRow, Kinds, PathNames
  <2>3. /\ diffs' \in Seq(DiffRow) /\ Len(diffs') = Len(diffs) + 1
        /\ \A i \in 1 .. Len(diffs) : diffs'[i] = diffs[i]
    BY <1>1, <2>1, <2>2
  <2> QED BY <1>1, <1>3, <2>3 DEF RecordDiff, TablesOK
<1>4. CASE Tick
  BY <1>1, <1>4 DEF Tick, tableVars, TablesOK
<1>5. ASSUME NEW w \in Writes, Inserts(w) PROVE IsFiniteSet(failed')
  BY <1>1, <1>5, FS_AddElement DEF Inserts
<1>6. ASSUME NEW w \in Writes, EnqueueWrite(w) \/ MarkSucceeded(w) \/ MoveToFailed(w) \/ MoveFails(w)
      PROVE  IsFiniteSet(queue') /\ IsFiniteSet(failed') /\ UNCHANGED <<clock, diffs>>
  <2>1. IsFiniteSet(queue \cup {w}) /\ IsFiniteSet(queue \ {w})
    BY <1>1, FS_AddElement, FS_RemoveElement
  <2> QED BY <1>1, <1>5, <1>6, <2>1 DEF EnqueueWrite, MarkSucceeded, MoveToFailed, MoveFails, HalfMoves
<1>7. CASE CrashRestart
  <2>1. UNCHANGED <<clock, diffs, queue>>
    BY <1>7 DEF CrashRestart
  <2>2. ASSUME NEW w, Inserts(w) PROVE IsFiniteSet(failed')
    BY <1>1, <2>2, FS_AddElement DEF Inserts
  <2>3. IsFiniteSet(failed')
    BY <1>1, <1>7, <2>2 DEF CrashRestart, HalfMoves
  <2> QED BY <1>1, <2>1, <2>3 DEF TablesOK
<1>8. CASE Others
  <2>1. ASSUME NEW w \in Writes, EnqueueWrite(w) \/ MarkSucceeded(w) \/ MoveToFailed(w) \/ MoveFails(w)
        PROVE  TablesOK' /\ diffs' = diffs
    BY <1>1, <1>6, <2>1 DEF TablesOK
  <2> QED BY <1>1, <1>3, <1>4, <1>8, <2>1 DEF Others
<1> QED BY <1>2, <1>7, <1>8 DEF Next

LEMMA BoardInvHolds == Safety => []BoardInv
<1>1. Init => BoardInv
  <2> SUFFICES ASSUME Init PROVE BoardInv
    OBVIOUS
  <2>1. TablesOK
    <3>1. <<>> \in Seq(DiffRow) /\ IsFiniteSet({})
      BY FS_EmptySet
    <3> QED BY <3>1 DEF Init, TablesOK
  <2>2. board = EmptyBoard /\ pc = "idle"
    BY DEF Init
  <2> QED BY <2>1, <2>2, EmptyBoardOK DEF BoardInv, PanelsOK, HalfWay
<1>2. BoardInv /\ [Next]_vars => BoardInv'
  <2> SUFFICES ASSUME BoardInv, [Next]_vars PROVE BoardInv'
    OBVIOUS
  <2>1. /\ TablesOK' /\ Len(diffs') >= Len(diffs)
        /\ \A i \in 1 .. Len(diffs) : diffs'[i] = diffs[i]
    BY RowsStayFinite DEF BoardInv
  <2>2. CASE Begin
    <3>1. board' = [EmptyBoard EXCEPT !.now = clock] /\ pc' = "diffs" /\ clock \in Nat
      BY <2>2 DEF Begin, Asks, BoardInv, TablesOK
    <3>2. /\ board' \in Board /\ board'.windows = <<>> /\ board'.paths = {}
          /\ board'.requestsTotal = NotYet
      BY <3>1, EmptyBoardOK DEF EmptyBoard, Board
    <3> QED BY <2>1, <3>1, <3>2, StartsAnew
  <2>3. CASE Respond \/ CrashRestart
    <3>1. board' = EmptyBoard /\ pc' = "idle"
      BY <2>3 DEF Respond, CrashRestart
    <3>2. EmptyBoard.windows = <<>>
      BY DEF EmptyBoard
    <3> QED BY <2>1, <3>1, <3>2, EmptyBoardOK, StartsAnew
  <2>4. CASE Others \/ UNCHANGED vars
    <3>1. UNCHANGED <<pc, board>>
      BY <2>4 DEF Others, RecordDiff, Tick, EnqueueWrite, MarkSucceeded, MoveToFailed, MoveFails, HalfMoves, vars
    <3> QED BY <2>1, <3>1, TablesMove
  <2> QED BY <2>2, <2>3, <2>4, WindowOpens, WindowCloses, TotalsAsked, BarsAndLinkAsked, PathsRanked
          DEF Next, Collect
<1> QED BY <1>1, <1>2, PTL DEF Safety

(* Every rate shown is at most 1, although its two numbers are read one     *)
(* after the other while rows come and go (collect, divergence_rate).       *)
THEOREM RatesStayFractions == Safety => []RatesAreFractions
<1>1. BoardInv => RatesAreFractions
  BY DEF BoardInv, PanelsOK, RatesAreFractions, Panels
<1> QED BY <1>1, BoardInvHolds, PTL
-----------------------------------------------------------------------------
(* A write is queued or given up, and both only if a move was cut in half:  *)
(* so it is for any set of writes that were sent.                           *)
Sent == {w \in Writes : enqueuedAt[w] # NotYet}
FailedOf(V) == {f \in failed : f[1] \in V}
Once(V) == Cardinality(queue \cap V) + Cardinality(FailedOf(V)) <= Cardinality(V) + torn

WritesInv ==
    /\ enqueuedAt \in [Writes -> Count] /\ torn \in Nat
    /\ IsFiniteSet(Sent) /\ queue \subseteq Sent /\ \A f \in failed : f[1] \in Sent
    /\ \A V \in SUBSET Sent : Once(V)

LEMMA Smaller ==
  ASSUME NEW S, IsFiniteSet(S), NEW T \in SUBSET S
  PROVE  /\ IsFiniteSet(T) /\ Cardinality(T) \in Nat /\ Cardinality(S) \in Nat
         /\ Cardinality(T) <= Cardinality(S)
BY FS_Subset, FS_CardinalityType

LEMMA OneMore ==
  ASSUME NEW S, IsFiniteSet(S), NEW x, NEW T \in SUBSET (S \cup {x})
  PROVE  IsFiniteSet(T) /\ Cardinality(T) \in Nat /\ Cardinality(T) <= Cardinality(S) + 1
<1>1. /\ IsFiniteSet(S \cup {x})
      /\ Cardinality(S \cup {x}) = IF x \in S THEN Cardinality(S) ELSE Cardinality(S) + 1
  BY FS_AddElement, Zenon
<1>2. Cardinality(S) \in Nat
  BY FS_CardinalityType
<1>3. /\ IsFiniteSet(T) /\ Cardinality(T) \in Nat /\ Cardinality(S \cup {x}) \in Nat
      /\ Cardinality(T) <= Cardinality(S \cup {x})
  BY <1>1, Smaller
<1> QED BY <1>1, <1>2, <1>3

LEMMA OneLess ==
  ASSUME NEW S, IsFiniteSet(S), NEW x \in S
  PROVE  Cardinality(S \ {x}) = Cardinality(S) - 1 /\ IsFiniteSet(S \ {x})
BY FS_RemoveElement, Zenon

LEMMA PartsFinite ==
  ASSUME TablesOK, WritesInv, NEW V \in SUBSET Sent
  PROVE  /\ IsFiniteSet(V) /\ IsFiniteSet(queue \cap V) /\ IsFiniteSet(FailedOf(V))
         /\ Cardinality(V) \in Nat /\ Cardinality(queue \cap V) \in Nat
         /\ Cardinality(FailedOf(V)) \in Nat
<1>1. /\ queue \cap V \in SUBSET queue /\ FailedOf(V) \in SUBSET failed
      /\ IsFiniteSet(queue) /\ IsFiniteSet(failed) /\ IsFiniteSet(Sent)
  BY DEF TablesOK, WritesInv, FailedOf
<1> QED BY <1>1, Smaller

LEMMA WriteSent ==
  ASSUME TablesOK, WritesInv, NEW w \in Writes, EnqueueWrite(w)
  PROVE  WritesInv'
<1>1. PICK t \in Stamps : enqueuedAt' = [enqueuedAt EXCEPT ![w] = t]
  BY DEF EnqueueWrite
<1>2. /\ enqueuedAt[w] = NotYet /\ queue' = queue \cup {w} /\ UNCHANGED <<failed, torn>>
      /\ t \in Nat /\ t # NotYet
  BY <1>1 DEF EnqueueWrite, Stamps, TablesOK, NotYet
<1>3. /\ enqueuedAt' \in [Writes -> Count] /\ torn' \in Nat
      /\ Sent' = Sent \cup {w} /\ w \notin Sent
  BY <1>1, <1>2 DEF WritesInv, Sent, Count
<1>4. IsFiniteSet(Sent')
  BY <1>3, FS_AddElement DEF WritesInv
<1>5. queue' \subseteq Sent' /\ \A f \in failed' : f[1] \in Sent'
  BY <1>2, <1>3 DEF WritesInv
<1>6. ASSUME NEW V \in SUBSET (Sent \cup {w}) PROVE Once(V)'
  <2> DEFINE U == V \ {w}
  <2>1. U \in SUBSET Sent
    OBVIOUS
  <2>2. FailedOf(V)' = FailedOf(U)
    BY <1>2, <1>3 DEF FailedOf, WritesInv
  <2>3. Once(U) /\ torn \in Nat
    BY <2>1 DEF WritesInv
  <2>4. /\ IsFiniteSet(U) /\ IsFiniteSet(queue \cap U)
        /\ Cardinality(U) \in Nat /\ Cardinality(queue \cap U) \in Nat
        /\ Cardinality(FailedOf(U)) \in Nat
    BY <2>1, PartsFinite
  <2>5. CASE w \in V
    <3>1. V = U \cup {w} /\ w \notin U
      BY <2>5
    <3>2. Cardinality(V) = Cardinality(U) + 1
      BY <2>4, <3>1, FS_AddElement
    <3>3. queue' \cap V \in SUBSET ((queue \cap U) \cup {w})
      BY <1>2
    <3>4. /\ Cardinality(queue' \cap V) \in Nat
          /\ Cardinality(queue' \cap V) <= Cardinality(queue \cap U) + 1
      BY <2>4, <3>3, OneMore
    <3>5. Cardinality(queue' \cap V) + Cardinality(FailedOf(U)) <= Cardinality(V) + torn
      BY <2>3, <2>4, <3>2, <3>4 DEF Once
    <3> QED BY <1>2, <2>2, <3>5 DEF Once
  <2>6. CASE w \notin V
    <3>1. V = U /\ queue' \cap V = queue \cap U
      BY <1>2, <2>6
    <3> QED BY <1>2, <2>2, <2>3, <3>1 DEF Once
  <2> QED BY <2>5, <2>6
<1> QED BY <1>3, <1>4, <1>5, <1>6 DEF WritesInv

LEMMA WriteMoves ==
  ASSUME TablesOK, WritesInv, NEW w \in Writes, MarkSucceeded(w) \/ MoveToFailed(w)
  PROVE  WritesInv'
<1>1. w \in queue /\ queue' = queue \ {w} /\ UNCHANGED <<enqueuedAt, torn>> /\ w \in Sent
  BY DEF MarkSucceeded, MoveToFailed, WritesInv
<1>2. /\ enqueuedAt' \in [Writes -> Count] /\ torn' \in Nat /\ Sent' = Sent
      /\ IsFiniteSet(Sent') /\ queue' \subseteq Sent'
  BY <1>1 DEF WritesInv, Sent
<1>3. PICK x : x[1] = w /\ failed' \subseteq failed \cup {x}
  <2>1. failed' = failed \/ failed' = failed \cup {<<w, Cardinality(RowsOf(w)) + 1>>}
    BY DEF MarkSucceeded, MoveToFailed, Inserts
  <2> DEFINE x == <<w, Cardinality(RowsOf(w)) + 1>>
  <2>2. x[1] = w /\ failed' \subseteq failed \cup {x}
    BY <2>1
  <2> QED BY <2>2
<1>4. \A f \in failed' : f[1] \in Sent'
  BY <1>1, <1>2, <1>3 DEF WritesInv
<1>5. ASSUME NEW V \in SUBSET Sent PROVE Once(V)'
  <2>1. Once(V) /\ torn \in Nat
    BY DEF WritesInv
  <2>2. /\ IsFiniteSet(V) /\ IsFiniteSet(queue \cap V) /\ IsFiniteSet(FailedOf(V))
        /\ Cardinality(V) \in Nat /\ Cardinality(queue \cap V) \in Nat
        /\ Cardinality(FailedOf(V)) \in Nat
    BY PartsFinite
  <2>3. CASE w \in V
    <3>1. queue' \cap V = (queue \cap V) \ {w} /\ w \in queue \cap V
      BY <1>1, <2>3
    <3>2. Cardinality(queue' \cap V) = Cardinality(queue \cap V) - 1
      BY <2>2, <3>1, OneLess
    <3>3. FailedOf(V)' \in SUBSET (FailedOf(V) \cup {x})
      BY <1>3 DEF FailedOf
    <3>4. Cardinality(FailedOf(V)') \in Nat /\ Cardinality(FailedOf(V)') <= Cardinality(FailedOf(V)) + 1
      BY <2>2, <3>3, OneMore
    <3>5. Cardinality(queue' \cap V) + Cardinality(FailedOf(V)') <= Cardinality(V) + torn
      <4>1. Cardinality(queue \cap V) + Cardinality(FailedOf(V)) <= Cardinality(V) + torn
        BY <2>1 DEF Once
      <4>2. PICK q \in Nat, f \in Nat, g \in Nat, v \in Nat, c \in Nat :
               /\ q = Cardinality(queue \cap V) /\ f = Cardinality(FailedOf(V))
               /\ g = Cardinality(FailedOf(V)') /\ v = Cardinality(V) /\ c = torn
        BY <2>1, <2>2, <3>4
      <4>3. q + f <= v + c /\ g <= f + 1 /\ Cardinality(queue' \cap V) = q - 1
        BY <3>2, <3>4, <4>1, <4>2
      <4>4. (q - 1) + g <= v + c
        BY <4>3
      <4> QED BY <4>2, <4>3, <4>4
    <3> QED BY <1>1, <3>5 DEF Once
  <2>4. CASE w \notin V
    <3>1. queue' \cap V = queue \cap V
      BY <1>1, <2>4
    <3>2. FailedOf(V)' \in SUBSET FailedOf(V)
      BY <1>3, <2>4 DEF FailedOf
    <3>3. /\ Cardinality(FailedOf(V)') \in Nat
          /\ Cardinality(FailedOf(V)') <= Cardinality(FailedOf(V))
      BY <2>2, <3>2, Smaller
    <3>4. Cardinality(queue' \cap V) + Cardinality(FailedOf(V)') <= Cardinality(V) + torn
      <4>1. Cardinality(queue \cap V) + Cardinality(FailedOf(V)) <= Cardinality(V) + torn
        BY <2>1 DEF Once
      <4>2. PICK q \in Nat, f \in Nat, g \in Nat, v \in Nat, c \in Nat :
               /\ q = Cardinality(queue \cap V) /\ f = Cardinality(FailedOf(V))
               /\ g = Cardinality(FailedOf(V)') /\ v = Cardinality(V) /\ c = torn
        BY <2>1, <2>2, <3>3
      <4>3. q + f <= v + c /\ g <= f /\ Cardinality(queue' \cap V) = q
        BY <3>1, <3>3, <4>1, <4>2
      <4>4. q + g <= v + c
        BY <4>3
      <4> QED BY <4>2, <4>3, <4>4
    <3> QED BY <1>1, <3>4 DEF Once
  <2> QED BY <2>3, <2>4
<1> QED BY <1>2, <1>4, <1>5 DEF WritesInv

LEMMA MoveCutInHalf ==
  ASSUME TablesOK, WritesInv, NEW w \in Writes, HalfMoves(w), UNCHANGED <<enqueuedAt, queue>>
  PROVE  WritesInv'
<1>1. torn' = torn + 1 /\ w \in Sent /\ failed' = failed \cup {<<w, Cardinality(RowsOf(w)) + 1>>}
  BY DEF HalfMoves, Inserts, WritesInv
<1>2. /\ enqueuedAt' \in [Writes -> Count] /\ torn' \in Nat /\ Sent' = Sent
      /\ IsFiniteSet(Sent') /\ queue' \subseteq Sent'
  BY <1>1 DEF WritesInv, Sent
<1>3. PICK x : x[1] \in Sent /\ failed' = failed \cup {x}
  BY <1>1
<1>4. \A f \in failed' : f[1] \in Sent'
  BY <1>2, <1>3 DEF WritesInv
<1>5. ASSUME NEW V \in SUBSET Sent PROVE Once(V)'
  <2>1. Once(V) /\ torn \in Nat
    BY DEF WritesInv
  <2>2. /\ IsFiniteSet(FailedOf(V)) /\ Cardinality(V) \in Nat
        /\ Cardinality(queue \cap V) \in Nat /\ Cardinality(FailedOf(V)) \in Nat
    BY PartsFinite
  <2>3. FailedOf(V)' \in SUBSET (FailedOf(V) \cup {x})
    BY <1>3 DEF FailedOf
  <2>4. Cardinality(FailedOf(V)') \in Nat /\ Cardinality(FailedOf(V)') <= Cardinality(FailedOf(V)) + 1
    BY <2>2, <2>3, OneMore
  <2>5. Cardinality(queue \cap V) + Cardinality(FailedOf(V)') <= Cardinality(V) + (torn + 1)
    BY <2>1, <2>2, <2>4 DEF Once
  <2> QED BY <1>1, <2>5 DEF Once
<1> QED BY <1>2, <1>4, <1>5 DEF WritesInv

LEMMA WritesStep ==
  ASSUME TablesOK, WritesInv, [Next]_vars
  PROVE  WritesInv'
<1>1. CASE UNCHANGED <<enqueuedAt, queue, failed, torn>>
  BY <1>1 DEF WritesInv, Sent, Once, FailedOf
<1>2. CASE Collect \/ RecordDiff \/ Tick \/ UNCHANGED vars
  BY <1>1, <1>2 DEF Collect, Begin, CountDiffs, CountRequests, CountAllDiffs, CountAllRequests,
        BreakDown, RankPaths, RankPathsShort, FindCritical, FindNoCritical, Respond,
        RecordDiff, Tick, Asks, tableVars, vars
<1>3. CASE CrashRestart
  <2>1. UNCHANGED <<enqueuedAt, queue>>
    BY <1>3 DEF CrashRestart
  <2>2. UNCHANGED <<failed, torn>> \/ \E w \in Writes : HalfMoves(w)
    BY <1>3 DEF CrashRestart
  <2> QED BY <1>1, <2>1, <2>2, MoveCutInHalf
<1>4. ASSUME NEW w \in Writes, MoveFails(w) PROVE WritesInv'
  BY <1>4, MoveCutInHalf DEF MoveFails
<1> QED BY <1>2, <1>3, <1>4, WriteSent, WriteMoves DEF Next, Others

-----------------------------------------------------------------------------
(* What a window may count at most, and that this never becomes less.       *)
AtMost(since) == Cardinality(DiffsSince(since)) + Cardinality(WritesSince(since)) + torn

LEMMA DiffsGrow ==
  ASSUME TablesOK, [Next]_vars, NEW since
  PROVE  /\ Cardinality(DiffsSince(since)) \in Nat /\ Cardinality(DiffsSince(since))' \in Nat
         /\ Cardinality(DiffsSince(since)) <= Cardinality(DiffsSince(since))'
<1>1. /\ TablesOK' /\ Len(diffs') >= Len(diffs)
      /\ \A i \in 1 .. Len(diffs) : diffs'[i] = diffs[i]
  BY RowsStayFinite
<1>2. Len(diffs) \in Nat /\ Len(diffs') \in Nat
  BY <1>1 DEF TablesOK
<1>3. DiffsSince(since)' \in SUBSET (1 .. Len(diffs'))
  BY DEF DiffsSince
<1>4. DiffsSince(since) \in SUBSET (DiffsSince(since)')
  BY <1>1, <1>2 DEF DiffsSince
<1>5. IsFiniteSet(1 .. Len(diffs'))
  BY <1>2, Interval
<1> QED BY <1>3, <1>4, <1>5, Smaller

LEMMA AtMostGrows ==
  ASSUME TablesOK, WritesInv, [Next]_vars, NEW since
  PROVE  AtMost(since) \in Nat /\ AtMost(since)' \in Nat /\ AtMost(since) <= AtMost(since)'
<1>1. /\ TablesOK' /\ WritesInv' /\ Len(diffs') >= Len(diffs)
      /\ \A i \in 1 .. Len(diffs) : diffs'[i] = diffs[i]
  BY RowsStayFinite, WritesStep
<1>3. \A w \in Writes : enqueuedAt[w] # NotYet => enqueuedAt'[w] = enqueuedAt[w]
  <2>1. ASSUME NEW w \in Writes, EnqueueWrite(w)
        PROVE  \A v \in Writes : enqueuedAt[v] # NotYet => enqueuedAt'[v] = enqueuedAt[v]
    BY <2>1 DEF EnqueueWrite, WritesInv
  <2>2. CASE UNCHANGED enqueuedAt
    BY <2>2
  <2> QED BY <2>1, <2>2 DEF Next, Others, Collect, Begin, CountDiffs, CountRequests, CountAllDiffs,
        CountAllRequests, BreakDown, RankPaths, RankPathsShort, FindCritical, FindNoCritical, Respond,
        RecordDiff, Tick, MarkSucceeded, MoveToFailed, MoveFails, HalfMoves, CrashRestart, Asks, tableVars, vars
<1>4. /\ IsFiniteSet(WritesSince(since)') /\ WritesSince(since) \in SUBSET (WritesSince(since)')
  <2>1. IsFiniteSet(Sent') /\ WritesSince(since)' \in SUBSET (Sent')
    BY <1>1 DEF WritesInv, WritesSince, Sent
  <2>2. WritesSince(since) \in SUBSET (WritesSince(since)')
    BY <1>3 DEF WritesSince
  <2> QED BY <2>1, <2>2, Smaller
<1>5. torn \in Nat /\ torn' \in Nat /\ torn <= torn'
  <2>1. torn' = torn \/ torn' = torn + 1
    BY DEF Next, Others, Collect, Begin, CountDiffs, CountRequests, CountAllDiffs,
        CountAllRequests, BreakDown, RankPaths, RankPathsShort, FindCritical, FindNoCritical, Respond,
        RecordDiff, Tick, EnqueueWrite, MarkSucceeded, MoveToFailed, MoveFails, HalfMoves, CrashRestart, Asks, tableVars, vars
  <2> QED BY <1>1, <2>1 DEF WritesInv
<1>6. /\ Cardinality(DiffsSince(since)) \in Nat /\ Cardinality(DiffsSince(since)') \in Nat
      /\ Cardinality(DiffsSince(since)) <= Cardinality(DiffsSince(since)')
  BY DiffsGrow
<1>7. /\ Cardinality(WritesSince(since)) \in Nat /\ Cardinality(WritesSince(since)') \in Nat
      /\ Cardinality(WritesSince(since)) <= Cardinality(WritesSince(since)')
  BY <1>4, Smaller
<1> QED BY <1>5, <1>6, <1>7 DEF AtMost

(* The denominator when it is read. *)
LEMMA RequestsAtMost ==
  ASSUME TablesOK, WritesInv, NEW since
  PROVE  Requests(since, PathNames) \in Nat /\ Requests(since, PathNames) <= AtMost(since)
<1> DEFINE V == WritesSince(since)
<1>1. V \in SUBSET Sent
  BY DEF WritesSince, Sent
<1>2. \A w \in V : About(PathNames, w)
  BY DEF WritesSince, About, PathNames
<1>3. {w \in queue \cap V : About(PathNames, w)} = queue \cap V
  BY <1>2
<1>4. {f \in failed : f[1] \in V /\ About(PathNames, f[1])} = FailedOf(V)
  BY <1>2 DEF FailedOf
<1>5. Requests(since, PathNames) =
        Cardinality(DiffsSince(since)) + Cardinality(queue \cap V) + Cardinality(FailedOf(V))
  BY <1>3, <1>4, AboutEveryPath DEF Requests, QueuedAbout, FailedAbout
<1>6. /\ Cardinality(V) \in Nat /\ Cardinality(queue \cap V) \in Nat /\ Cardinality(FailedOf(V)) \in Nat
      /\ Once(V) /\ torn \in Nat
  BY <1>1, PartsFinite DEF WritesInv
<1>7. Cardinality(DiffsSince(since)) \in Nat
  <2>1. DiffsSince(since) \in SUBSET (1 .. Len(diffs))
    BY DEF DiffsSince
  <2> QED BY <2>1, CountType DEF TablesOK
<1>8. Cardinality(DiffsSince(since)) + Cardinality(queue \cap V) + Cardinality(FailedOf(V)) \in Nat
  BY <1>6, <1>7
<1>9. Cardinality(DiffsSince(since)) + Cardinality(queue \cap V) + Cardinality(FailedOf(V))
        <= Cardinality(DiffsSince(since)) + Cardinality(V) + torn
  BY <1>6, <1>7 DEF Once
<1> QED BY <1>5, <1>8, <1>9 DEF AtMost

PageInv ==
    \A i \in 1 .. Len(board.windows) : board.windows[i].requests <= AtMost(Since(Windows[i]))

(* A page whose windows and time are left alone. *)
LEMMA PageKept ==
  ASSUME BoardInv, WritesInv, PageInv, [Next]_vars,
         board'.windows = board.windows, board'.now = board.now
  PROVE  PageInv'
<1> SUFFICES ASSUME NEW i \in 1 .. Len(board.windows)
             PROVE  board.windows[i].requests <= AtMost(Since(Windows[i]))'
  BY DEF PageInv
<1>1. PICK since : since = Since(Windows[i])
  OBVIOUS
<1>2. AtMost(Since(Windows[i]))' = AtMost(since)'
  BY <1>1 DEF Since, AtMost, DiffsSince, WritesSince
<1>3. AtMost(since) \in Nat /\ AtMost(since)' \in Nat /\ AtMost(since) <= AtMost(since)'
  BY AtMostGrows DEF BoardInv
<1>4. board.windows[i].requests \in Int /\ board.windows[i].requests <= AtMost(since)
  <2>1. board.windows[i] \in Panel
    BY ElementOfSeq DEF BoardInv, Board
  <2> QED BY <1>1, <2>1 DEF Panel, Count, NotYet, PageInv
<1>5. board.windows[i].requests <= AtMost(since)'
  BY <1>3, <1>4
<1> QED BY <1>2, <1>5

LEMMA PageStep ==
  ASSUME BoardInv, BoardInv', WritesInv, WritesInv', PageInv, [Next]_vars
  PROVE  PageInv'
<1>0. /\ board \in Board /\ board' \in Board /\ TablesOK /\ TablesOK'
      /\ board.windows \in Seq(Panel)
  BY BoardFields DEF BoardInv
<1>1. CASE board'.windows = <<>>
  BY <1>1 DEF PageInv
<1>2. CASE CountDiffs
  <2> DEFINE new == [diffs |-> Cardinality(DiffsSince(Since(NextWindow))), requests |-> NotYet]
             k == Len(board.windows)
  <2>1. /\ board' = [board EXCEPT !.windows = Append(board.windows, new)]
        /\ UNCHANGED <<clock, tableVars>>
    BY <1>2 DEF CountDiffs, Asks
  <2>2. board'.windows = Append(board.windows, new) /\ board'.now = board.now
    BY <1>0, <2>1 DEF Board
  <2>3. new.requests = NotYet
    OBVIOUS
  <2> HIDE DEF new
  <2>4. board'.windows \in Seq(Panel)
    BY <1>0 DEF Board
  <2>5. /\ k \in Nat /\ Len(board'.windows) = k + 1 /\ board'.windows[k + 1] = new
        /\ \A i \in 1 .. k : board'.windows[i] = board.windows[i]
    <3>1. \A i \in 1 .. k + 1 : Append(board.windows, new)[i] = IF i = k + 1 THEN new ELSE board.windows[i]
      BY <1>0 DEF Board
    <3>2. k \in Nat /\ Len(Append(board.windows, new)) = k + 1
      BY <1>0
    <3> QED BY <2>2, <3>1, <3>2
  <2> SUFFICES ASSUME NEW i \in 1 .. Len(board'.windows)
               PROVE  board'.windows[i].requests <= AtMost(Since(Windows[i]))'
    BY DEF PageInv
  <2>6. AtMost(Since(Windows[i]))' = AtMost(Since(Windows[i])) /\ AtMost(Since(Windows[i])) \in Nat
    <3>1. AtMost(Since(Windows[i]))' = AtMost(Since(Windows[i]))
      BY <2>1, <2>2 DEF AtMost, DiffsSince, WritesSince, Since, tableVars
    <3> QED BY <1>0, <3>1, AtMostGrows
  <2>7. CASE i = k + 1
    BY <2>3, <2>5, <2>6, <2>7 DEF NotYet
  <2>8. CASE i # k + 1
    <3>1. i \in 1 .. k
      BY <2>5, <2>8
    <3> QED BY <2>5, <2>6, <3>1 DEF PageInv
  <2> QED BY <2>7, <2>8
<1>3. CASE CountRequests
  <2> DEFINE k == Len(board.windows)
             n == Requests(Since(Windows[k]), PathNames)
             new == [board.windows[k] EXCEPT !.requests = n]
  <2>1. /\ board' = [board EXCEPT !.windows[k].requests = n] /\ pc = "requests"
        /\ UNCHANGED <<clock, tableVars>>
    BY <1>3 DEF CountRequests, Asks
  <2>2. k \in 1 .. Len(board.windows) /\ board.windows[k] \in Panel
    <3>1. k \in Nat /\ k >= 1
      BY <1>0, <2>1 DEF BoardInv, HalfWay
    <3> QED BY <1>0, <3>1, ElementOfSeq
  <2>3. n \in Nat /\ n <= AtMost(Since(Windows[k]))
    BY <1>0, RequestsAtMost
  <2>4. board'.windows = [board.windows EXCEPT ![k] = new] /\ board'.now = board.now
    BY <1>0, <2>1 DEF Board
  <2> HIDE DEF n
  <2>5. new \in Panel /\ new.requests = n
    BY <2>2, <2>3 DEF Panel, Count
  <2> HIDE DEF new
  <2>6. /\ Len(board'.windows) = k
        /\ \A j \in 1 .. k : board'.windows[j] = IF k = j THEN new ELSE board.windows[j]
    BY <1>0, <2>2, <2>4, <2>5, ExceptSeq
  <2> SUFFICES ASSUME NEW i \in 1 .. Len(board'.windows)
               PROVE  board'.windows[i].requests <= AtMost(Since(Windows[i]))'
    BY DEF PageInv
  <2>7. AtMost(Since(Windows[i]))' = AtMost(Since(Windows[i]))
    BY <2>1, <2>4 DEF AtMost, DiffsSince, WritesSince, Since, tableVars
  <2> QED BY <2>3, <2>5, <2>6, <2>7 DEF PageInv
<1>4. CASE Begin \/ Respond \/ CrashRestart
  BY <1>1, <1>4 DEF Begin, Respond, CrashRestart, EmptyBoard
<1>5. CASE UNCHANGED board
  BY <1>5, PageKept
<1>6. CASE CountAllDiffs \/ CountAllRequests \/ BreakDown \/ RankPaths \/ RankPathsShort \/ FindCritical
  <2>1. board'.windows = board.windows /\ board'.now = board.now
    BY <1>0, <1>6 DEF CountAllDiffs, CountAllRequests, BreakDown, RankPaths, RankPathsShort, FindCritical, Board
  <2> QED BY <2>1, PageKept
<1>7. CASE FindNoCritical \/ Others \/ UNCHANGED vars
  BY <1>5, <1>7 DEF FindNoCritical, Others, RecordDiff, Tick, EnqueueWrite, MarkSucceeded, MoveToFailed, MoveFails, HalfMoves, vars
<1> QED BY <1>2, <1>3, <1>4, <1>6, <1>7 DEF Next, Collect

LEMMA PageInvHolds == Safety => [](WritesInv /\ PageInv)
<1>1. Init => WritesInv /\ PageInv
  <2> SUFFICES ASSUME Init PROVE WritesInv /\ PageInv
    OBVIOUS
  <2>1. Sent = {} /\ queue = {} /\ failed = {} /\ torn = 0 /\ enqueuedAt \in [Writes -> Count]
    BY DEF Init, Sent, Count
  <2>2. Once({})
    <3>1. queue \cap {} = {} /\ FailedOf({}) = {}
      BY DEF FailedOf
    <3> QED BY <2>1, <3>1, FS_EmptySet DEF Once
  <2>3. WritesInv
    BY <2>1, <2>2, FS_EmptySet DEF WritesInv
  <2>4. PageInv
    BY DEF Init, EmptyBoard, PageInv
  <2> QED BY <2>3, <2>4
<1>2. BoardInv /\ BoardInv' /\ WritesInv /\ PageInv /\ [Next]_vars => WritesInv' /\ PageInv'
  BY WritesStep, PageStep DEF BoardInv
<1> QED BY <1>1, <1>2, BoardInvHolds, PTL DEF Safety

(* The denominator "overstates divergence rather than hiding it" (db.rs):   *)
(* it exceeds what was read and sent by the moves that a crash or an error  *)
(* cut in half, at most, for any windows and however the tables change      *)
(* between the queries.                                                     *)
THEOREM DivergenceIsNotHidden == Safety => []HidesNoDivergence
<1>1. PageInv => HidesNoDivergence
  BY DEF PageInv, HidesNoDivergence, AtMost
<1> QED BY <1>1, PageInvHolds, PTL

-----------------------------------------------------------------------------
(* The tables stay within the bounds of the model, and one query follows    *)
(* the other.                                                               *)
TablesTyped ==
    /\ clock \in 0 .. MaxClock
    /\ diffs \in Seq([at : 0 .. MaxClock, severity : Kinds, path : PathNames])
    /\ Len(diffs) <= MaxDiffs
    /\ failed \subseteq Writes \X (1 .. 1 + MaxTorn)
    /\ torn \in 0 .. MaxTorn /\ missed \subseteq {"paths", "critical"}

Asked ==
    /\ board.now <= clock
    /\ Len(board.windows) <= Len(Windows)
    /\ pc = "diffs" => Len(board.windows) < Len(Windows)
    /\ pc \notin {"idle", "diffs", "requests"} => Len(board.windows) = Len(Windows)

(* Of a queued write failed_writes has at most one row for each torn move.  *)
LEMMA RowsOfQueued ==
  ASSUME TablesOK, WritesInv, NEW w \in queue
  PROVE  Cardinality(RowsOf(w)) \in Nat /\ Cardinality(RowsOf(w)) <= torn
<1>1. {w} \in SUBSET Sent /\ queue \cap {w} = {w} /\ FailedOf({w}) = RowsOf(w)
  BY DEF WritesInv, FailedOf, RowsOf
<1>2. Cardinality({w}) = 1
  BY FS_Singleton
<1>3. Cardinality(RowsOf(w)) \in Nat /\ torn \in Nat
  BY <1>1, PartsFinite DEF WritesInv
<1>4. 1 + Cardinality(RowsOf(w)) <= 1 + torn
  BY <1>1, <1>2 DEF WritesInv, Once
<1> QED BY <1>3, <1>4

LEMMA TablesTypedStep ==
  ASSUME TablesOK, WritesInv, TablesTyped, [Next]_vars
  PROVE  TablesTyped'
<1> USE BoardAssumption DEF TablesTyped
<1>1. ASSUME NEW w \in queue, Inserts(w) PROVE failed' \subseteq Writes \X (1 .. 1 + MaxTorn)
  <2>1. w \in Writes /\ Cardinality(RowsOf(w)) + 1 \in 1 .. 1 + MaxTorn
    BY RowsOfQueued DEF WritesInv, Sent
  <2> QED BY <1>1, <2>1 DEF Inserts
<1>2. CASE Collect \/ UNCHANGED vars
  <2>1. UNCHANGED <<clock, diffs, failed, torn>>
    BY <1>2 DEF Collect, Begin, CountDiffs, CountRequests, CountAllDiffs, CountAllRequests,
        BreakDown, RankPaths, RankPathsShort, FindCritical, FindNoCritical, Respond, Asks, tableVars, vars
  <2>2. missed' \subseteq {"paths", "critical"}
    BY <1>2 DEF Collect, Begin, CountDiffs, CountRequests, CountAllDiffs, CountAllRequests,
        BreakDown, RankPaths, RankPathsShort, FindCritical, FindNoCritical, Respond, Asks, Swallowed, vars
  <2> QED BY <2>1, <2>2
<1>3. CASE RecordDiff
  <2> DEFINE R == [at : 0 .. MaxClock, severity : Kinds, path : PathNames]
  <2>1. PICK t \in Stamps, f \in Findings :
           diffs' = Append(diffs, [at |-> t, severity |-> f.severity, path |-> f.path])
    BY <1>3 DEF RecordDiff
  <2>2. [at |-> t, severity |-> f.severity, path |-> f.path] \in R
    BY DEF Stamps, Kinds, PathNames
  <2> HIDE DEF R
  <2>3. diffs \in Seq(R)
    BY DEF R
  <2>4. diffs' \in Seq(R) /\ Len(diffs') = Len(diffs) + 1 /\ Len(diffs) \in Nat
    BY <2>1, <2>2, <2>3
  <2>5. Len(diffs') <= MaxDiffs /\ UNCHANGED <<clock, failed, torn, missed>>
    BY <1>3, <2>4 DEF RecordDiff
  <2> QED BY <2>4, <2>5 DEF R
<1>4. CASE Tick
  BY <1>4 DEF Tick, tableVars
<1>5. ASSUME NEW w \in Writes, HalfMoves(w)
      PROVE  torn' \in 0 .. MaxTorn /\ failed' \subseteq Writes \X (1 .. 1 + MaxTorn)
  BY <1>1, <1>5 DEF HalfMoves
<1>6. ASSUME NEW w \in Writes, EnqueueWrite(w) \/ MarkSucceeded(w) \/ MoveToFailed(w) \/ MoveFails(w)
      PROVE  TablesTyped'
  BY <1>1, <1>5, <1>6 DEF EnqueueWrite, MarkSucceeded, MoveToFailed, MoveFails
<1>7. CASE CrashRestart
  <2>1. torn' \in 0 .. MaxTorn /\ failed' \subseteq Writes \X (1 .. 1 + MaxTorn)
    BY <1>5, <1>7 DEF CrashRestart
  <2>2. missed' = {} /\ UNCHANGED <<clock, diffs>>
    BY <1>7 DEF CrashRestart
  <2> QED BY <2>1, <2>2
<1> QED BY <1>2, <1>3, <1>4, <1>6, <1>7 DEF Next, Others

LEMMA AskedStep ==
  ASSUME BoardInv, BoardInv', Asked, [Next]_vars
  PROVE  Asked'
<1>0. /\ board \in Board /\ board' \in Board /\ board.now \in Nat /\ clock \in Nat
      /\ board.windows \in Seq(Panel) /\ Len(board.windows) \in Nat
      /\ Len(Windows) \in Nat /\ Len(Windows) >= 1
  BY BoardFields, BoardAssumption DEF BoardInv, TablesOK
<1>1. ASSUME board'.now = board.now, Len(board'.windows) = Len(board.windows), clock' >= clock,
             clock' \in Nat,
             pc' = pc \/ (pc \notin {"idle", "diffs", "requests"} /\ pc' \notin {"diffs"})
      PROVE  Asked'
  BY <1>0, <1>1 DEF Asked
<1>2. CASE Begin
  <2>1. board' = [EmptyBoard EXCEPT !.now = clock] /\ pc' = "diffs" /\ clock' = clock
    BY <1>2 DEF Begin, Asks
  <2>2. board'.now = clock /\ Len(board'.windows) = 0
    BY <2>1 DEF EmptyBoard
  <2> QED BY <1>0, <2>1, <2>2 DEF Asked
<1>3. CASE CountDiffs
  <2> DEFINE new == [diffs |-> Cardinality(DiffsSince(Since(NextWindow))), requests |-> NotYet]
  <2>1. /\ board' = [board EXCEPT !.windows = Append(board.windows, new)]
        /\ pc = "diffs" /\ pc' = "requests" /\ clock' = clock
    BY <1>3 DEF CountDiffs, Asks
  <2> HIDE DEF new
  <2>2. board'.windows = Append(board.windows, new) /\ board'.now = board.now
    BY <1>0, <2>1 DEF Board
  <2>3. Len(board'.windows) = Len(board.windows) + 1
    BY <1>0, <2>2 DEF Board
  <2> QED BY <1>0, <2>1, <2>2, <2>3 DEF Asked
<1>4. CASE CountRequests
  <2> DEFINE k == Len(board.windows)
             n == Requests(Since(Windows[k]), PathNames)
  <2>1. /\ board' = [board EXCEPT !.windows[k].requests = n] /\ clock' = clock /\ pc = "requests"
        /\ pc' = IF k < Len(Windows) THEN "diffs" ELSE "total"
    BY <1>4 DEF CountRequests, Asks
  <2>2. k >= 1
    BY <2>1 DEF BoardInv, HalfWay
  <2> HIDE DEF n
  <2>3. board'.windows = [board.windows EXCEPT ![k] = [board.windows[k] EXCEPT !.requests = n]]
        /\ board'.now = board.now
    BY <1>0, <2>1 DEF Board
  <2>4. Len(board'.windows) = k
    BY <1>0, <2>2, <2>3, LenProperties DEF Board
  <2> QED BY <1>0, <2>1, <2>3, <2>4 DEF Asked
<1>5. CASE CountAllDiffs \/ CountAllRequests \/ BreakDown \/ RankPaths \/ RankPathsShort
           \/ FindCritical \/ FindNoCritical
  <2>1. board'.now = board.now /\ board'.windows = board.windows
    BY <1>0, <1>5 DEF CountAllDiffs, CountAllRequests, BreakDown, RankPaths, RankPathsShort,
                      FindCritical, FindNoCritical, Board
  <2>2. clock' = clock /\ pc \notin {"idle", "diffs", "requests"} /\ pc' \notin {"diffs"}
    BY <1>5 DEF CountAllDiffs, CountAllRequests, BreakDown, RankPaths, RankPathsShort,
                FindCritical, FindNoCritical, Asks
  <2> QED BY <1>0, <1>1, <2>1, <2>2
<1>6. CASE Respond \/ CrashRestart
  <2>1. board' = EmptyBoard /\ pc' = "idle" /\ clock' = clock
    BY <1>6 DEF Respond, CrashRestart
  <2>2. EmptyBoard.now = 0 /\ Len(EmptyBoard.windows) = 0
    BY DEF EmptyBoard
  <2> QED BY <1>0, <2>1, <2>2 DEF Asked
<1>7. CASE Others \/ UNCHANGED vars
  <2>1. UNCHANGED <<pc, board>> /\ (clock' = clock \/ clock' = clock + 1)
    BY <1>7 DEF Others, RecordDiff, Tick, EnqueueWrite, MarkSucceeded, MoveToFailed, MoveFails, HalfMoves, vars
  <2> QED BY <1>0, <1>1, <2>1
<1> QED BY <1>2, <1>3, <1>4, <1>5, <1>6, <1>7 DEF Next, Collect

LEMMA AskedHolds == Safety => [](TablesTyped /\ Asked)
<1>1. Init => TablesTyped /\ Asked
  <2> SUFFICES ASSUME Init PROVE TablesTyped /\ Asked
    OBVIOUS
  <2>1. EmptyBoard.now = 0 /\ Len(EmptyBoard.windows) = 0
    BY DEF EmptyBoard
  <2>2. <<>> \in Seq([at : 0 .. MaxClock, severity : Kinds, path : PathNames]) /\ Len(<<>>) = 0
    OBVIOUS
  <2>3. Len(Windows) \in Nat
    BY BoardAssumption
  <2> QED BY <2>1, <2>2, <2>3, BoardAssumption DEF Init, TablesTyped, Asked
<1> QED BY <1>1, TablesTypedStep, AskedStep, BoardInvHolds, PageInvHolds, PTL DEF Safety, BoardInv

(* Every variable keeps its type, through any crash: in failed_writes a     *)
(* write has one row for each of its moves that was cut in half and one     *)
(* more, at most; and collect asks of all windows before it goes on, never of one *)
(* more.                                                                    *)
THEOREM ScoreboardTypeCorrect == Safety => []TypeOK
<1>1. WritesInv /\ TablesTyped /\ Asked => TypeOK
  BY DEF WritesInv, TablesTyped, Asked, TypeOK, Sent
<1> QED BY <1>1, PageInvHolds, AskedHolds, PTL

-----------------------------------------------------------------------------
OfKind(D, kind, k) == {i \in D : kind[i] = k}
BarsOf(K, m, h) == {b \in K \X (1 .. m) : b[2] <= h[b[1]]}

(* Bars of the heights h stand for the rows of D, one kind each.            *)
LEMMA BarsAddUp ==
  ASSUME NEW D, IsFiniteSet(D), NEW K, NEW kind \in [D -> K],
         NEW m \in Nat, Cardinality(D) <= m,
         NEW h, \A k \in K : h[k] = Cardinality(OfKind(D, kind, k))
  PROVE  Cardinality(BarsOf(K, m, h)) = Cardinality(D)
<1> DEFINE Part(k) == OfKind(D, kind, k)
           bars == BarsOf(K, m, h)
           G == [k \in K |-> CHOOSE g : g \in Bijection(1 .. h[k], Part(k))]
           M == [b \in bars |-> G[b[1]][b[2]]]
<1>1. ASSUME NEW k \in K
      PROVE  h[k] \in Nat /\ h[k] <= m /\ G[k] \in Bijection(1 .. h[k], Part(k))
  <2>1. Part(k) \in SUBSET D /\ h[k] = Cardinality(Part(k))
    BY DEF OfKind
  <2> HIDE DEF Part
  <2>2. h[k] \in Nat /\ h[k] <= m /\ IsFiniteSet(Part(k))
    BY <2>1, Smaller
  <2>3. IsFiniteSet(1 .. h[k]) /\ Cardinality(1 .. h[k]) = Cardinality(Part(k))
    BY <2>1, <2>2, Interval
  <2>4. \E g : g \in Bijection(1 .. h[k], Part(k))
    BY <2>2, <2>3, FS_SameCardinalityBij DEF ExistsBijection
  <2> QED BY <2>2, <2>4
<1> HIDE DEF G
<1>2. ASSUME NEW k \in K
      PROVE  /\ \A n \in 1 .. h[k] : G[k][n] \in D /\ kind[G[k][n]] = k
             /\ \A n, l \in 1 .. h[k] : G[k][n] = G[k][l] => n = l
             /\ \A i \in D : kind[i] = k => \E n \in 1 .. h[k] : G[k][n] = i
  <2>1. G[k] \in [1 .. h[k] -> Part(k)] /\ IsInjective(G[k])
        /\ \A i \in Part(k) : \E n \in 1 .. h[k] : G[k][n] = i
    BY <1>1 DEF Bijection, Injection, Surjection
  <2> QED BY <2>1 DEF IsInjective, OfKind
<1>3. ASSUME NEW b \in bars PROVE b[1] \in K /\ b[2] \in 1 .. h[b[1]] /\ b = <<b[1], b[2]>>
  BY <1>1 DEF BarsOf
<1>4. \A b \in bars : M[b] = G[b[1]][b[2]] /\ M[b] \in D /\ kind[M[b]] = b[1]
  BY <1>2, <1>3
<1>5. ASSUME NEW a \in bars, NEW b \in bars, M[a] = M[b] PROVE a = b
  <2>1. a[1] = b[1] /\ G[a[1]][a[2]] = G[a[1]][b[2]]
    BY <1>4, <1>5
  <2> QED BY <1>2, <1>3, <2>1
<1>6. ASSUME NEW i \in D PROVE \E b \in bars : M[b] = i
  <2>1. PICK k \in K : k = kind[i]
    OBVIOUS
  <2>2. PICK n \in 1 .. h[k] : G[k][n] = i
    BY <1>2, <2>1
  <2>3. h[k] \in Nat /\ h[k] <= m
    BY <1>1
  <2>4. n \in 1 .. m /\ n <= h[k]
    BY <2>2, <2>3
  <2>5. <<k, n>> \in bars /\ <<k, n>>[1] = k /\ <<k, n>>[2] = n
    BY <2>4 DEF BarsOf
  <2> QED BY <1>4, <2>2, <2>5
<1>7. M \in Bijection(bars, D)
  <2>1. M \in [bars -> D] /\ DOMAIN M = bars
    BY <1>4
  <2> HIDE DEF M
  <2> QED BY <1>5, <1>6, <2>1 DEF Bijection, Injection, Surjection, IsInjective
<1>8. ExistsBijection(D, bars)
  BY <1>7, Fun_ExistsBijSymmetric DEF ExistsBijection
<1> QED BY <1>8, FS_Bijection

Bars == BarsOf(Kinds, MaxDiffs, board.breakdown)

(* The chart when it is drawn. *)
LEMMA BarsOfChart ==
  ASSUME TablesOK, Len(diffs) <= MaxDiffs, NEW h,
         \A k \in Kinds : h[k] = Cardinality({i \in DiffsSince(Today) : diffs[i].severity = k})
  PROVE  Cardinality(BarsOf(Kinds, MaxDiffs, h)) = Cardinality(DiffsSince(Today))
<1> DEFINE D == DiffsSince(Today)
           kind == [i \in D |-> diffs[i].severity]
<1>1. Len(diffs) \in Nat /\ \A i \in 1 .. Len(diffs) : diffs[i] \in DiffRow
  BY ElementOfSeq DEF TablesOK
<1>2. D \in SUBSET (1 .. Len(diffs))
  BY DEF DiffsSince
<1>3. IsFiniteSet(D) /\ Cardinality(D) \in Nat /\ Cardinality(D) <= MaxDiffs
  BY <1>1, <1>2, CountType, BoardAssumption DEF TablesOK
<1> HIDE DEF D
<1>4. kind \in [D -> Kinds]
  BY <1>1, <1>2 DEF DiffRow
<1>5. \A k \in Kinds : h[k] = Cardinality(OfKind(D, kind, k))
  <2> SUFFICES ASSUME NEW k \in Kinds
               PROVE  h[k] = Cardinality(OfKind(D, kind, k))
    OBVIOUS
  <2>1. OfKind(D, kind, k) = {i \in D : diffs[i].severity = k}
    BY DEF OfKind
  <2> QED BY <2>1 DEF D
<1> HIDE DEF kind
<1>6. MaxDiffs \in Nat
  BY BoardAssumption
<1>7. Cardinality(BarsOf(Kinds, MaxDiffs, h)) = Cardinality(D)
  BY <1>3, <1>4, <1>5, <1>6, BarsAddUp
<1> QED BY <1>7 DEF D

Drawn == pc \in {"paths", "critical", "shown"}
Card == board.windows[Day].diffs

(* Until the chart is drawn it has no bars; then it has one for each diff   *)
(* the window had at that moment, which is no fewer than its card counted   *)
(* before and no more than it has later.                                    *)
ChartInv ==
    /\ ~Drawn => board.breakdown = EmptyBoard.breakdown
    /\ Cardinality(Bars) \in Nat /\ Cardinality(Bars) <= Cardinality(DiffsSince(Today))
    /\ Day <= Len(board.windows) => Card <= Cardinality(DiffsSince(Today))
    /\ Drawn => Card <= Cardinality(Bars)

LEMMA NoBars ==
  ASSUME board.breakdown = EmptyBoard.breakdown, TablesOK
  PROVE  /\ Cardinality(Bars) = 0
         /\ Cardinality(DiffsSince(Today)) \in Nat
<1>1. \A k \in Kinds : board.breakdown[k] = 0
  BY DEF EmptyBoard
<1>2. BarsOf(Kinds, MaxDiffs, board.breakdown) = {}
  BY <1>1, BoardAssumption DEF BarsOf
<1>3. DiffsSince(Today) \in SUBSET (1 .. Len(diffs))
  BY DEF DiffsSince
<1> QED BY <1>2, <1>3, FS_EmptySet, CountType DEF Bars, TablesOK

LEMMA CardTyped ==
  ASSUME BoardInv, Day <= Len(board.windows)
  PROVE  Card \in Nat
<1>1. board.windows \in Seq(Panel) /\ Len(board.windows) \in Nat /\ Day \in Nat /\ Day >= 1
  BY BoardFields, BoardAssumption DEF BoardInv
<1>2. board.windows[Day] \in Panel
  BY <1>1, ElementOfSeq
<1> QED BY <1>2 DEF Panel, Card

(* A page whose time, bars and card are left alone. *)
LEMMA ChartKept ==
  ASSUME BoardInv, Asked', ChartInv, [Next]_vars,
         board'.now = board.now, board'.breakdown = board.breakdown, Drawn' <=> Drawn,
         Day <= Len(board'.windows) => Day <= Len(board.windows) /\ Card' = Card
  PROVE  ChartInv'
<1>1. PICK since : since = Today
  OBVIOUS
<1>2. Cardinality(DiffsSince(Today))' = Cardinality(DiffsSince(since))'
  BY <1>1 DEF Today, Since, DiffsSince
<1>3. /\ Cardinality(DiffsSince(since)) \in Nat /\ Cardinality(DiffsSince(since))' \in Nat
      /\ Cardinality(DiffsSince(since)) <= Cardinality(DiffsSince(since))'
  BY DiffsGrow DEF BoardInv
<1>4. /\ Cardinality(Bars)' = Cardinality(Bars) /\ Cardinality(Bars) \in Nat
      /\ Cardinality(Bars) <= Cardinality(DiffsSince(since))
  BY <1>1 DEF Bars, ChartInv
<1>5. Cardinality(Bars)' <= Cardinality(DiffsSince(since))'
  BY <1>3, <1>4
<1>6. ASSUME Day <= Len(board'.windows)
      PROVE  Card' <= Cardinality(DiffsSince(since))'
  <2>1. Card \in Nat /\ Card <= Cardinality(DiffsSince(since)) /\ Card' = Card
    BY <1>1, <1>6, CardTyped DEF ChartInv
  <2> QED BY <1>3, <2>1
<1>7. ASSUME Drawn' PROVE Card' <= Cardinality(Bars)'
  <2>1. Card <= Cardinality(Bars)
    BY <1>7 DEF ChartInv
  <2>2. Card' = Card
    <3>1. Len(board'.windows) = Len(Windows)
      BY <1>7 DEF Asked, Drawn
    <3> QED BY <3>1, BoardAssumption
  <2> QED BY <1>4, <2>1, <2>2
<1>8. ~Drawn' => board'.breakdown = EmptyBoard.breakdown
  BY DEF ChartInv
<1>9. EmptyBoard' = EmptyBoard
  BY DEF EmptyBoard
<1> QED BY <1>2, <1>4, <1>5, <1>6, <1>7, <1>8, <1>9 DEF ChartInv

LEMMA ChartStep ==
  ASSUME BoardInv, BoardInv', TablesTyped, Asked, Asked', ChartInv, [Next]_vars
  PROVE  ChartInv'
<1>0. /\ board \in Board /\ board' \in Board /\ TablesOK /\ TablesOK'
      /\ board.windows \in Seq(Panel) /\ Len(board.windows) \in Nat
      /\ Day \in 1 .. Len(Windows) /\ Len(Windows) \in Nat
  BY BoardFields, BoardAssumption DEF BoardInv
<1>1. ASSUME board'.breakdown = EmptyBoard.breakdown, Len(board'.windows) = 0, ~Drawn'
      PROVE  ChartInv'
  <2>1. EmptyBoard' = EmptyBoard
    BY DEF EmptyBoard
  <2>2. Cardinality(Bars)' = 0 /\ Cardinality(DiffsSince(Today))' \in Nat
    <3>1. Cardinality(BarsOf(Kinds, MaxDiffs, board'.breakdown)) = 0
      <4>1. \A k \in Kinds : board'.breakdown[k] = 0
        BY <1>1 DEF EmptyBoard
      <4>2. BarsOf(Kinds, MaxDiffs, board'.breakdown) = {}
        BY <4>1, BoardAssumption DEF BarsOf
      <4> QED BY <4>2, FS_EmptySet
    <3>2. PICK since : since = Today'
      OBVIOUS
    <3>3. Cardinality(DiffsSince(since))' \in Nat
      BY <1>0, DiffsGrow
    <3>4. DiffsSince(Today)' = DiffsSince(since)'
      BY <3>2 DEF DiffsSince
    <3> QED BY <3>1, <3>3, <3>4 DEF Bars
  <2> QED BY <1>0, <1>1, <2>1, <2>2 DEF ChartInv
<1>2. CASE CountDiffs
  <2> DEFINE n == Cardinality(DiffsSince(Since(NextWindow)))
             new == [diffs |-> n, requests |-> NotYet]
             k == Len(board.windows)
  <2>1. /\ board' = [board EXCEPT !.windows = Append(board.windows, new)]
        /\ pc = "diffs" /\ pc' = "requests" /\ UNCHANGED <<clock, tableVars>>
    BY <1>2 DEF CountDiffs, Asks
  <2>2. new.diffs = n
    OBVIOUS
  <2>3. /\ board'.windows = Append(board.windows, new) /\ board'.now = board.now
        /\ board'.breakdown = board.breakdown /\ ~Drawn /\ ~Drawn'
    BY <1>0, <2>1 DEF Board, Drawn
  <2> HIDE DEF new
  <2>4. Len(board'.windows) = k + 1 /\ \A i \in 1 .. k + 1 :
           board'.windows[i] = IF i = k + 1 THEN new ELSE board.windows[i]
    BY <1>0, <2>3
  <2>5. CASE Day # k + 1
    <3>1. Day <= Len(board'.windows) => Day <= Len(board.windows) /\ Card' = Card
      BY <1>0, <2>4, <2>5 DEF Card
    <3> QED BY <2>3, <3>1, ChartKept
  <2>6. CASE Day = k + 1
    <3>1. Card' = n
      BY <1>0, <2>2, <2>4, <2>6 DEF Card
    <3>2. Today' = Today /\ DiffsSince(Today)' = DiffsSince(Today) /\ Bars' = Bars
      BY <2>1, <2>3 DEF Today, Since, DiffsSince, Bars, tableVars
    <3>3. n = Cardinality(DiffsSince(Today)) /\ EmptyBoard' = EmptyBoard
      BY <2>6 DEF NextWindow, Today, EmptyBoard
    <3>4. n \in Nat
      BY <1>0, DiffsGrow
    <3> QED BY <2>3, <3>1, <3>2, <3>3, <3>4 DEF ChartInv
  <2> QED BY <2>5, <2>6
<1>3. CASE CountRequests
  <2> DEFINE k == Len(board.windows)
             n == Requests(Since(Windows[k]), PathNames)
             new == [board.windows[k] EXCEPT !.requests = n]
  <2>1. /\ board' = [board EXCEPT !.windows[k].requests = n] /\ pc = "requests"
        /\ pc' \in {"diffs", "total"}
    BY <1>3 DEF CountRequests, Asks
  <2>2. k \in 1 .. Len(board.windows) /\ board.windows[k] \in Panel
    <3>1. k \in Nat /\ k >= 1
      BY <1>0, <2>1 DEF BoardInv, HalfWay
    <3> QED BY <1>0, <3>1, ElementOfSeq
  <2>3. n \in Nat
    BY <1>0, RequestsCoverDiffs
  <2>4. board'.windows = [board.windows EXCEPT ![k] = new] /\ board'.now = board.now
        /\ board'.breakdown = board.breakdown /\ ~Drawn /\ ~Drawn'
    BY <1>0, <2>1 DEF Board, Drawn
  <2> HIDE DEF n
  <2>5. new \in Panel /\ new.diffs = board.windows[k].diffs
    BY <2>2, <2>3 DEF Panel, Count
  <2> HIDE DEF new
  <2>6. /\ Len(board'.windows) = k
        /\ \A j \in 1 .. k : board'.windows[j] = IF k = j THEN new ELSE board.windows[j]
    BY <1>0, <2>2, <2>4, <2>5, ExceptSeq
  <2>7. Day <= Len(board'.windows) => Day <= Len(board.windows) /\ Card' = Card
    BY <1>0, <2>5, <2>6 DEF Card
  <2> QED BY <2>4, <2>7, ChartKept
<1>4. CASE BreakDown
  <2> DEFINE bars == [k \in Kinds |-> Cardinality({i \in DiffsSince(Today) : diffs[i].severity = k})]
  <2>1. /\ board' = [board EXCEPT !.breakdown = bars]
        /\ pc = "breakdown" /\ pc' = "paths" /\ UNCHANGED <<clock, tableVars>>
    BY <1>4 DEF BreakDown, Asks
  <2>2. /\ board'.breakdown = bars /\ board'.windows = board.windows /\ board'.now = board.now
    BY <1>0, <2>1 DEF Board
  <2>3. Today' = Today /\ DiffsSince(Today)' = DiffsSince(Today) /\ diffs' = diffs /\ Card' = Card
    BY <2>1, <2>2 DEF Today, Since, DiffsSince, tableVars, Card
  <2>4. \A k \in Kinds : board'.breakdown[k] = Cardinality({i \in DiffsSince(Today) : diffs[i].severity = k})
    BY <2>2
  <2>5. Cardinality(Bars)' = Cardinality(DiffsSince(Today))
    BY <1>0, <2>4, BarsOfChart DEF Bars, TablesTyped
  <2>6. Cardinality(DiffsSince(Today)) \in Nat
    BY <1>0, DiffsGrow
  <2>7. Len(board.windows) = Len(Windows) /\ Drawn'
    BY <2>1 DEF Asked, Drawn
  <2> QED BY <1>0, <2>2, <2>3, <2>5, <2>6, <2>7 DEF ChartInv
<1>5. CASE CountAllDiffs \/ CountAllRequests \/ RankPaths \/ RankPathsShort
           \/ FindCritical \/ FindNoCritical
  <2>1. board'.now = board.now /\ board'.windows = board.windows /\ board'.breakdown = board.breakdown
    BY <1>0, <1>5 DEF CountAllDiffs, CountAllRequests, RankPaths, RankPathsShort,
                      FindCritical, FindNoCritical, Board
  <2>2. Drawn' <=> Drawn
    BY <1>5 DEF CountAllDiffs, CountAllRequests, RankPaths, RankPathsShort,
                FindCritical, FindNoCritical, Asks, Drawn
  <2> QED BY <2>1, <2>2, ChartKept DEF Card
<1>6. CASE Begin \/ Respond \/ CrashRestart
  <2>1. board'.breakdown = EmptyBoard.breakdown /\ Len(board'.windows) = 0 /\ ~Drawn'
    BY <1>6 DEF Begin, Respond, CrashRestart, Asks, EmptyBoard, Drawn
  <2> QED BY <1>1, <2>1
<1>7. CASE Others \/ UNCHANGED vars
  <2>1. UNCHANGED <<pc, board>>
    BY <1>7 DEF Others, RecordDiff, Tick, EnqueueWrite, MarkSucceeded, MoveToFailed, MoveFails, HalfMoves, vars
  <2> QED BY <2>1, ChartKept DEF Drawn, Card
<1> QED BY <1>2, <1>3, <1>4, <1>5, <1>6, <1>7 DEF Next, Collect

LEMMA ChartInvHolds == Safety => []ChartInv
<1>1. Init => ChartInv
  <2> SUFFICES ASSUME Init PROVE ChartInv
    OBVIOUS
  <2>1. board.breakdown = EmptyBoard.breakdown /\ Len(board.windows) = 0 /\ ~Drawn
    BY DEF Init, EmptyBoard, Drawn
  <2>2. TablesOK
    BY FS_EmptySet DEF Init, TablesOK
  <2> QED BY <2>1, <2>2, NoBars, BoardAssumption DEF ChartInv
<1>2. BoardInv /\ BoardInv' /\ TablesTyped /\ Asked /\ Asked' /\ ChartInv /\ [Next]_vars => ChartInv'
  BY ChartStep
<1> QED BY <1>1, <1>2, BoardInvHolds, AskedHolds, PTL DEF Safety

(* The bars of the severity chart add up to no more than the diffs of the   *)
(* window by then and to no fewer than its card counted before, although    *)
(* diffs come, and the proxy may crash, between the queries.                *)
THEOREM ChartMatchesCard == Safety => []BarsMatchCard
<1>1. ChartInv => BarsMatchCard
  BY DEF ChartInv, BarsMatchCard, Bars, BarsOf, Drawn, Card
<1> QED BY <1>1, ChartInvHolds, PTL

-----------------------------------------------------------------------------
Charted == "critical" \in Kinds /\ board.breakdown["critical"] > 0

(* The chart shows a critical diff because the table has one that recent,   *)
(* and a row never leaves the table; so the link, asked for last, finds it  *)
(* or a later one.                                                          *)
LinkInv ==
    /\ pc # "shown" => board.lastCritical = NoDiff
    /\ pc \in {"paths", "critical"} /\ Charted =>
         \E i \in DiffsSince(Today) : diffs[i].severity = "critical"
    /\ LinkMatchesChart

(* A page whose time, bars and link are left alone. *)
LEMMA LinkKept ==
  ASSUME BoardInv, TablesTyped, TablesTyped', LinkInv, [Next]_vars,
         board'.now = board.now, board'.breakdown = board.breakdown,
         board'.lastCritical = board.lastCritical,
         pc' = "shown" <=> pc = "shown", pc = "shown" => missed' = missed,
         pc' \in {"paths", "critical"} => pc \in {"paths", "critical"}
  PROVE  LinkInv'
<1>1. NoDiff' = NoDiff /\ Today' = Today /\ Charted' = Charted
  BY DEF NoDiff, Today, Since, Charted
<1>2. pc' # "shown" => board'.lastCritical = NoDiff
  BY DEF LinkInv
<1>3. ASSUME pc' \in {"paths", "critical"}, Charted'
      PROVE  \E i \in DiffsSince(Today)' : diffs'[i].severity = "critical"
  <2>1. PICK i \in DiffsSince(Today) : diffs[i].severity = "critical"
    BY <1>1, <1>3 DEF LinkInv
  <2>2. /\ Len(diffs) \in Nat /\ Len(diffs') \in Nat /\ Len(diffs') >= Len(diffs)
        /\ \A j \in 1 .. Len(diffs) : diffs'[j] = diffs[j]
    BY RowsStayFinite DEF BoardInv, TablesOK
  <2>3. i \in DiffsSince(Today)' /\ diffs'[i] = diffs[i]
    BY <1>1, <2>1, <2>2 DEF DiffsSince
  <2> QED BY <2>1, <2>3
<1>4. LinkMatchesChart'
  BY <1>1 DEF LinkInv, LinkMatchesChart, Charted
<1> QED BY <1>1, <1>2, <1>3, <1>4 DEF LinkInv

LEMMA LinkStep ==
  ASSUME BoardInv, BoardInv', TablesTyped, TablesTyped', LinkInv, [Next]_vars
  PROVE  LinkInv'
<1>0. /\ board \in Board /\ board' \in Board /\ TablesOK /\ Len(diffs) \in Nat
      /\ \A i \in 1 .. Len(diffs) : diffs[i] \in DiffRow
      /\ NoDiff' = NoDiff
  BY ElementOfSeq DEF BoardInv, TablesOK, NoDiff
<1>1. CASE Begin \/ Respond \/ CrashRestart
  <2>1. board'.lastCritical = NoDiff /\ pc' \notin {"paths", "critical", "shown"}
    BY <1>1 DEF Begin, Respond, CrashRestart, Asks, EmptyBoard
  <2> QED BY <1>0, <2>1 DEF LinkInv, LinkMatchesChart
<1>2. CASE CountDiffs \/ CountRequests \/ CountAllDiffs \/ CountAllRequests \/ RankPaths \/ RankPathsShort
  <2>1. /\ board'.now = board.now /\ board'.breakdown = board.breakdown
        /\ board'.lastCritical = board.lastCritical
    BY <1>0, <1>2 DEF CountDiffs, CountRequests, CountAllDiffs, CountAllRequests,
                      RankPaths, RankPathsShort, Board
  <2>2. pc # "shown" /\ pc' # "shown" /\ (pc' \in {"paths", "critical"} => pc \in {"paths", "critical"})
    BY <1>2 DEF CountDiffs, CountRequests, CountAllDiffs, CountAllRequests,
                RankPaths, RankPathsShort, Asks
  <2> QED BY <2>1, <2>2, LinkKept
<1>3. CASE BreakDown
  <2> DEFINE S(k) == {i \in DiffsSince(Today) : diffs[i].severity = k}
             bars == [k \in Kinds |-> Cardinality(S(k))]
  <2>1. /\ board' = [board EXCEPT !.breakdown = bars] /\ pc = "breakdown" /\ pc' = "paths"
        /\ UNCHANGED <<clock, tableVars>>
    BY <1>3 DEF BreakDown, Asks
  <2>2. /\ board'.breakdown = bars /\ board'.now = board.now
        /\ board'.lastCritical = board.lastCritical
    BY <1>0, <2>1 DEF Board
  <2>3. DiffsSince(Today)' = DiffsSince(Today) /\ diffs' = diffs
    BY <2>1, <2>2 DEF Today, Since, DiffsSince, tableVars
  <2>4. ASSUME Charted' PROVE \E i \in DiffsSince(Today) : diffs[i].severity = "critical"
    <3>1. Cardinality(S("critical")) > 0
      BY <2>2, <2>4 DEF Charted
    <3>2. S("critical") # {}
      BY <3>1, FS_EmptySet
    <3> QED BY <3>2
  <2>5. board'.lastCritical = NoDiff
    BY <2>1, <2>2 DEF LinkInv
  <2> QED BY <1>0, <2>1, <2>3, <2>4, <2>5 DEF LinkInv, LinkMatchesChart
<1>4. CASE FindNoCritical
  <2>1. pc = "critical" /\ pc' = "shown" /\ UNCHANGED board /\ "critical" \in missed'
    BY <1>4 DEF FindNoCritical, Asks, Swallowed
  <2>2. board'.lastCritical = NoDiff
    BY <2>1 DEF LinkInv
  <2> QED BY <1>0, <2>1, <2>2 DEF LinkInv, LinkMatchesChart
<1>5. CASE FindCritical
  <2>1. pc = "critical" /\ pc' = "shown" /\ UNCHANGED <<clock, tableVars>>
    BY <1>5 DEF FindCritical, Asks
  <2>2. ASSUME Charted'
        PROVE  board'.lastCritical.at >= Today'
    <3>1. board'.breakdown = board.breakdown /\ board'.now = board.now
      BY <1>0, <1>5 DEF FindCritical, Board
    <3>2. Charted /\ Today' = Today
      BY <2>2, <3>1 DEF Charted, Today, Since
    <3>3. PICK i \in DiffsSince(Today) : diffs[i].severity = "critical"
      BY <2>1, <3>2 DEF LinkInv
    <3>4. i \in Criticals /\ i \in 1 .. Len(diffs) /\ diffs[i].at >= Today
      BY <3>3 DEF Criticals, DiffsSince
    <3>5. PICK j \in Criticals :
             /\ \A l \in Criticals : diffs[j].at >= diffs[l].at
             /\ board' = [board EXCEPT !.lastCritical = diffs[j]]
      BY <1>5, <3>4 DEF FindCritical
    <3>6. board'.lastCritical = diffs[j] /\ diffs[j].at >= diffs[i].at
      BY <1>0, <3>4, <3>5 DEF Board
    <3>7. diffs[i].at \in Nat /\ diffs[j].at \in Nat /\ Today \in Int
      <4>1. j \in 1 .. Len(diffs)
        BY <3>5 DEF Criticals
      <4>2. board.now \in Nat /\ Windows[Day] \in Nat
        BY <1>0, BoardFields, ElementOfSeq, BoardAssumption
      <4> QED BY <1>0, <3>4, <4>1, <4>2 DEF DiffRow, Today, Since
    <3> QED BY <3>2, <3>4, <3>6, <3>7
  <2> QED BY <2>1, <2>2 DEF LinkInv, LinkMatchesChart, Charted
<1>6. CASE Others \/ UNCHANGED vars
  <2>1. UNCHANGED <<pc, board, missed>>
    BY <1>6 DEF Others, RecordDiff, Tick, EnqueueWrite, MarkSucceeded, MoveToFailed, MoveFails, HalfMoves, vars
  <2> QED BY <2>1, LinkKept
<1> QED BY <1>1, <1>2, <1>3, <1>4, <1>5, <1>6 DEF Next, Collect

LEMMA LinkInvHolds == Safety => []LinkInv
<1>1. Init => LinkInv
  BY DEF Init, EmptyBoard, LinkInv, LinkMatchesChart
<1>2. BoardInv /\ BoardInv' /\ TablesTyped /\ TablesTyped' /\ LinkInv /\ [Next]_vars => LinkInv'
  BY LinkStep
<1> QED BY <1>1, <1>2, BoardInvHolds, AskedHolds, PTL DEF Safety

(* When the chart shows a critical diff, the link to the last critical one  *)
(* leads into the same 24 hours, or is missing because its query failed.    *)
THEOREM LinkLeadsIntoChart == Safety => []LinkMatchesChart
<1>1. LinkInv => LinkMatchesChart
  BY DEF LinkInv
<1> QED BY <1>1, LinkInvHolds, PTL
=============================================================================
