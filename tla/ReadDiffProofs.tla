---------------------------- MODULE ReadDiffProofs ----------------------------
(***************************************************************************)
(* The read path's safety properties, proved for any reads, answers,       *)
(* notifiers, and any number of crashes and database errors: the types,    *)
(* what is known of a read that is about to be alerted (AlertInv), of one  *)
(* whose shadow is degraded (PauseInv), and of what is counted (CountInv). *)
(***************************************************************************)
EXTENDS ReadDiff, SequenceTheorems, FiniteSetTheorems, TLAPS

(* The comparator gives a diverging answer one of the five severities.      *)
LEMMA CompareType ==
  ASSUME NEW path \in Paths, NEW p, NEW s
  PROVE  Compare(path, p, s).severity \in Severities
<1>1. SeverityForPath(path) \in Severities
  BY DEF SeverityForPath, Severities
<1>2. Worse("high", SeverityForPath(path)) \in Severities
  BY <1>1 DEF Worse, Severities
<1>3. SeverityForStatusDiff(path, p.status, s.status) \in Severities
  BY <1>1, <1>2 DEF SeverityForStatusDiff, Severities
<1> QED BY <1>1, <1>3 DEF Compare, Severities

(* Claiming a row changes its notified field and no other row.              *)
LEMMA ClaimKeepsRows ==
  ASSUME NEW D \in Seq(DiffRows), NEW i \in 1 .. Len(D)
  PROVE  LET E == [D EXCEPT ![i].notified = TRUE]
         IN  /\ E \in Seq(DiffRows) /\ Len(E) = Len(D)
             /\ E[i] = [D[i] EXCEPT !.notified = TRUE]
             /\ \A j \in 1 .. Len(D) : j # i => E[j] = D[j]
<1> DEFINE row == [D[i] EXCEPT !.notified = TRUE]
<1>1. D[i] \in DiffRows
  BY ElementOfSeq
<1>2. row \in DiffRows
  BY <1>1 DEF DiffRows
<1>3. [D EXCEPT ![i].notified = TRUE] = [D EXCEPT ![i] = row]
  OBVIOUS
<1>4. /\ [D EXCEPT ![i] = row] \in Seq(DiffRows)
      /\ Len([D EXCEPT ![i] = row]) = Len(D)
      /\ \A j \in 1 .. Len(D) : [D EXCEPT ![i] = row][j] = IF i = j THEN row ELSE D[j]
  BY <1>2, ExceptSeq
<1> QED BY <1>3, <1>4
-----------------------------------------------------------------------------
(* What every task that ends leaves well typed.                             *)
LEMMA EndsType ==
  ASSUME TypeOK, NEW r \in Reads, Ends(r)
  PROVE  /\ step' \in [Reads -> Steps] /\ step'[r] = "done"
         /\ answers' \in [Reads -> Answered]
         /\ diffId' \in [Reads -> Nat] /\ pending' \in [Reads -> SUBSET Notifiers]
         /\ pending'[r] = {}
         /\ \A q \in Reads : q # r =>
              step'[q] = step[q] /\ diffId'[q] = diffId[q] /\ pending'[q] = pending[q]
<1>1. NoAnswers \in Answered
  BY DEF NoAnswers, Answered
<1>2. step' = [step EXCEPT ![r] = "done"] /\ "done" \in Steps
  BY DEF Ends, GoesTo, Steps
<1>3. /\ answers' = [answers EXCEPT ![r] = NoAnswers]
      /\ diffId' = [diffId EXCEPT ![r] = 0]
      /\ pending' = [pending EXCEPT ![r] = {}]
  BY DEF Ends
<1>4. /\ step \in [Reads -> Steps] /\ answers \in [Reads -> Answered]
      /\ diffId \in [Reads -> Nat] /\ pending \in [Reads -> SUBSET Notifiers]
  BY DEF TypeOK
<1>5. step' \in [Reads -> Steps] /\ answers' \in [Reads -> Answered]
  BY <1>1, <1>2, <1>3, <1>4
<1>6. diffId' \in [Reads -> Nat]
  BY <1>3, <1>4
<1>7. pending' \in [Reads -> SUBSET Notifiers]
  BY <1>3, <1>4
<1> QED BY <1>2, <1>3, <1>4, <1>5, <1>6, <1>7

(* Every variable keeps its type, for every instance: in particular the     *)
(* rowid a task holds is that of a row (record_diff).                       *)
THEOREM TypeCorrect == Safety => []TypeOK
<1>1. Init => TypeOK
  <2>1. NoAnswers \in Answered
    BY DEF NoAnswers, Answered
  <2> QED BY <2>1, ReadAssumption DEF Init, TypeOK, Steps, Severities, At
<1>2. TypeOK /\ [Next]_vars => TypeOK'
  <2> SUFFICES ASSUME TypeOK, [Next]_vars PROVE TypeOK'
    OBVIOUS
  <2> USE DEF TypeOK, Steps, At, GoesTo, Fault, taskVars, ghostVars, boundVars
  <2>1. ASSUME NEW r \in Reads, Receive(r) \/ CheckFails(r)
        PROVE  TypeOK'
    BY <2>1 DEF Receive, CheckFails
  <2>2. ASSUME NEW r \in Reads, Ends(r), UNCHANGED <<mode, diffs, total, base>>
        PROVE  TypeOK'
    BY <2>2, EndsType
  <2>3. ASSUME NEW r \in Reads, CheckDegraded(r)
        PROVE  TypeOK'
    BY <2>2, <2>3 DEF CheckDegraded
  <2>4. ASSUME NEW r \in Reads,
               \/ NoSample(r) \/ ShadowFails(r) \/ RecordFails(r) \/ ClaimFails(r)
               \/ \E x \in Responses : Agrees(r, x)
        PROVE  TypeOK'
    BY <2>2, <2>4 DEF NoSample, ShadowFails, RecordFails, ClaimFails, Agrees
  <2>5. ASSUME NEW r \in Reads, NEW x \in Responses, Sample(r, x)
        PROVE  TypeOK'
    <3>1. answers' \in [Reads -> Answered]
      BY <2>5 DEF Sample, Answered
    <3> QED BY <2>5, <3>1 DEF Sample
  <2>6. ASSUME NEW r \in Reads, NEW x \in Responses, Diverges(r, x)
        PROVE  TypeOK'
    <3> DEFINE severity == Compare(PathOf[r], answers[r].primary, x).severity
    <3>1. severity \in Severities
      BY CompareType, ReadAssumption
    <3>2. total' = [total EXCEPT ![severity] = @ + 1]
      BY <2>6 DEF Diverges
    <3>3. total' \in [Severities -> Nat]
      BY <3>1, <3>2
    <3>4. CASE Ends(r)
      BY <2>6, <3>3, <3>4, EndsType DEF Diverges
    <3>5. CASE GoesTo(r, "counted") /\ answers' = [answers EXCEPT ![r].shadow = x]
               /\ UNCHANGED <<diffId, pending>>
      <4>1. answers' \in [Reads -> Answered]
        BY <3>5 DEF Answered
      <4> QED BY <2>6, <3>3, <3>5, <4>1 DEF Diverges
    <3> QED BY <2>6, <3>4, <3>5 DEF Diverges
  <2>7. ASSUME NEW r \in Reads, RecordDiff(r)
        PROVE  TypeOK'
    <3>1. Row(r) \in DiffRows
      BY CompareType, ReadAssumption DEF Row, Outcome, DiffRows
    <3>2. diffs' = Append(diffs, Row(r))
      BY <2>7 DEF RecordDiff
    <3>3. diffs' \in Seq(DiffRows) /\ Len(diffs') = Len(diffs) + 1 /\ Len(diffs) \in Nat
      BY <3>1, <3>2
    <3>4. CASE Ends(r)
      BY <2>7, <3>3, <3>4, EndsType DEF RecordDiff
    <3>5. CASE /\ diffId' = [diffId EXCEPT ![r] = Len(diffs) + 1]
               /\ GoesTo(r, "recorded") /\ UNCHANGED <<answers, pending>>
      BY <2>7, <3>3, <3>5 DEF RecordDiff
    <3> QED BY <2>7, <3>4, <3>5 DEF RecordDiff
  <2>8. ASSUME NEW r \in Reads, Claim(r)
        PROVE  TypeOK'
    <3>1. diffs' \in Seq(DiffRows) /\ Len(diffs') = Len(diffs)
      BY <2>8, ClaimKeepsRows DEF Claim
    <3>2. CASE Ends(r)
      BY <2>8, <3>1, <3>2, EndsType DEF Claim
    <3>3. CASE /\ GoesTo(r, "firing") /\ pending' = [pending EXCEPT ![r] = Notifiers]
               /\ UNCHANGED <<answers, diffId>>
      BY <2>8, <3>1, <3>3 DEF Claim
    <3> QED BY <2>8, <3>2, <3>3 DEF Claim
  <2>9. ASSUME NEW r \in Reads, NEW n \in Notifiers, NEW arrives \in BOOLEAN, NEW ok \in BOOLEAN,
               Notify(r, n, arrives, ok)
        PROVE  TypeOK'
    <3>1. CASE Ends(r)
      BY <2>9, <2>2, <3>1 DEF Notify
    <3>2. CASE pending' = [pending EXCEPT ![r] = @ \ {n}] /\ UNCHANGED <<step, answers, diffId>>
      BY <2>9, <3>2 DEF Notify
    <3> QED BY <2>9, <3>1, <3>2 DEF Notify
  <2>10. CASE Flip
    BY <2>10 DEF Flip
  <2>11. CASE CrashRestart
    <3>1. NoAnswers \in Answered
      BY DEF NoAnswers, Answered
    <3> QED BY <2>11, <3>1 DEF CrashRestart
  <2>12. CASE UNCHANGED vars
    BY <2>12 DEF vars
  <2> QED
    BY <2>1, <2>3, <2>4, <2>5, <2>6, <2>7, <2>8, <2>9, <2>10, <2>11, <2>12
       DEF Next, Handle, Task, Comparing, Alerting
<1> QED BY <1>1, <1>2, PTL DEF Safety
-----------------------------------------------------------------------------
(* What is known of a read that is about to be alerted: the row its task    *)
(* holds is its own and critical; before it fires no notifier has heard of  *)
(* it, and while it fires those still to be called have not.                *)
OwnRow(r) ==
    /\ At(r, "recorded") \/ At(r, "firing") =>
         diffs[diffId[r]].read = r /\ diffs[diffId[r]].severity = "critical"
    /\ At(r, "firing") => diffs[diffId[r]].notified = TRUE

Untold(r) ==
    /\ pending[r] # {} => At(r, "firing")
    /\ \A n \in Notifiers :
         /\ reached[n][r] \in {0, 1}
         /\ n \in pending[r] \/ (~At(r, "firing") /\ ~At(r, "done")) => reached[n][r] = 0

AlertInv ==
    /\ reached \in [Notifiers -> [Reads -> Nat]]
    /\ \A r \in Reads : OwnRow(r) /\ Untold(r)

(* A step of one read leaves alone what is known of the others: it changes  *)
(* no row but its own.                                                      *)
LEMMA OthersKeep ==
  ASSUME TypeOK, AlertInv, NEW r \in Reads,
         \A q \in Reads : q # r =>
           /\ step'[q] = step[q] /\ diffId'[q] = diffId[q] /\ pending'[q] = pending[q]
           /\ \A n \in Notifiers : reached'[n][q] = reached[n][q],
         \A i \in 1 .. Len(diffs) : diffs[i].read # r => diffs'[i] = diffs[i],
         reached' \in [Notifiers -> [Reads -> Nat]],
         OwnRow(r)', Untold(r)'
  PROVE  AlertInv'
<1>1. ASSUME NEW q \in Reads, q # r
      PROVE  OwnRow(q)'
  <2>1. step'[q] = step[q] /\ diffId'[q] = diffId[q]
    BY <1>1
  <2>2. ASSUME At(q, "recorded") \/ At(q, "firing")
        PROVE  diffs'[diffId[q]] = diffs[diffId[q]]
    <3>1. diffId[q] \in 1 .. Len(diffs) /\ diffs[diffId[q]].read = q
      BY <2>2 DEF TypeOK, AlertInv, OwnRow
    <3> QED BY <1>1, <3>1
  <2> QED BY <2>1, <2>2 DEF AlertInv, OwnRow, At
<1>2. ASSUME NEW q \in Reads, q # r
      PROVE  Untold(q)'
  BY <1>2 DEF AlertInv, Untold, At
<1> QED BY <1>1, <1>2 DEF AlertInv

(* No task alerts about a row that is not its own.                          *)
LEMMA AlertInvHolds == Safety => []AlertInv
<1>1. Init => AlertInv
  BY DEF Init, AlertInv, OwnRow, Untold, At
<1>2. TypeOK /\ AlertInv /\ [Next]_vars => AlertInv'
  <2> SUFFICES ASSUME TypeOK, AlertInv, [Next]_vars PROVE AlertInv'
    OBVIOUS
  <2>t. /\ step \in [Reads -> Steps] /\ diffId \in [Reads -> Nat]
        /\ pending \in [Reads -> SUBSET Notifiers] /\ diffs \in Seq(DiffRows)
    BY DEF TypeOK
  <2>i. /\ reached \in [Notifiers -> [Reads -> Nat]]
        /\ \A r \in Reads : OwnRow(r) /\ Untold(r)
    BY DEF AlertInv
  <2>1. ASSUME NEW r \in Reads, Ends(r), UNCHANGED reached,
               \A i \in 1 .. Len(diffs) : diffs[i].read # r => diffs'[i] = diffs[i]
        PROVE  AlertInv'
    <3>1. OwnRow(r)' /\ Untold(r)'
      BY <2>1, <2>i, EndsType DEF OwnRow, Untold, At
    <3> QED BY <2>1, <2>i, <3>1, EndsType, OthersKeep
  <2>2. ASSUME NEW r \in Reads, NEW s \in {"calling", "spawned", "asking", "counted"},
               step[r] \in {"new", "calling", "spawned", "asking"},
               GoesTo(r, s), UNCHANGED <<diffId, pending, diffs, reached>>
        PROVE  AlertInv'
    <3>1. step'[r] = s /\ \A q \in Reads : q # r => step'[q] = step[q]
      BY <2>2, <2>t DEF GoesTo
    <3>2. OwnRow(r)' /\ Untold(r)'
      BY <2>2, <2>i, <3>1 DEF OwnRow, Untold, At
    <3> QED BY <2>2, <2>i, <3>1, <3>2, OthersKeep
  <2>3. ASSUME NEW r \in Reads, Receive(r) \/ CheckFails(r) \/ \E x \in Responses : Sample(r, x)
        PROVE  AlertInv'
    BY <2>2, <2>3 DEF Receive, CheckFails, Sample, At, ghostVars
  <2>4. ASSUME NEW r \in Reads,
               \/ NoSample(r) \/ ShadowFails(r) \/ RecordFails(r) \/ ClaimFails(r)
               \/ \E x \in Responses : Agrees(r, x)
        PROVE  AlertInv'
    BY <2>1, <2>4 DEF NoSample, ShadowFails, RecordFails, ClaimFails, Agrees, ghostVars
  <2>5. ASSUME NEW r \in Reads, CheckDegraded(r) \/ \E x \in Responses : Diverges(r, x)
        PROVE  AlertInv'
    BY <2>1, <2>2, <2>5 DEF CheckDegraded, Diverges, At, ghostVars
  <2>6. ASSUME NEW r \in Reads, RecordDiff(r)
        PROVE  AlertInv'
    <3>1. diffs' = Append(diffs, Row(r)) /\ reached' = reached
      BY <2>6 DEF RecordDiff, ghostVars
    <3>2. /\ diffs'[Len(diffs) + 1] = Row(r) /\ Len(diffs) \in Nat
          /\ \A i \in 1 .. Len(diffs) : diffs'[i] = diffs[i]
      BY <3>1, <2>t
    <3>3. CASE Ends(r)
      BY <2>1, <3>1, <3>2, <3>3
    <3>4. CASE /\ Outcome(r).severity = "critical"
               /\ diffId' = [diffId EXCEPT ![r] = Len(diffs) + 1]
               /\ GoesTo(r, "recorded") /\ UNCHANGED <<answers, pending>>
      <4>1. /\ step[r] = "counted" /\ step'[r] = "recorded" /\ diffId'[r] = Len(diffs) + 1
            /\ \A q \in Reads : q # r => step'[q] = step[q] /\ diffId'[q] = diffId[q]
        BY <2>6, <2>t, <3>2, <3>4 DEF RecordDiff, GoesTo, At
      <4>2. OwnRow(r)'
        BY <3>2, <3>4, <4>1 DEF OwnRow, Row, At
      <4>3. Untold(r)'
        BY <2>i, <3>1, <3>4, <4>1 DEF Untold, At
      <4> QED BY <2>i, <3>1, <3>2, <3>4, <4>1, <4>2, <4>3, OthersKeep
    <3> QED BY <2>6, <3>3, <3>4 DEF RecordDiff
  <2>7. ASSUME NEW r \in Reads, Claim(r)
        PROVE  AlertInv'
    <3>1. diffId[r] \in 1 .. Len(diffs) /\ step[r] = "recorded" /\ reached' = reached
      BY <2>7 DEF Claim, TypeOK, At, ghostVars
    <3>2. /\ diffs'[diffId[r]] = [diffs[diffId[r]] EXCEPT !.notified = TRUE]
          /\ \A j \in 1 .. Len(diffs) : j # diffId[r] => diffs'[j] = diffs[j]
      BY <2>7, <2>t, <3>1, ClaimKeepsRows DEF Claim
    <3>3. diffs[diffId[r]] \in DiffRows /\ diffs[diffId[r]].read = r /\ diffs[diffId[r]].severity = "critical"
      BY <2>t, <2>i, <3>1, ElementOfSeq DEF OwnRow, At
    <3>4. \A i \in 1 .. Len(diffs) : diffs[i].read # r => diffs'[i] = diffs[i]
      BY <3>2, <3>3
    <3>5. CASE Ends(r)
      BY <2>1, <3>1, <3>4, <3>5
    <3>6. CASE /\ GoesTo(r, "firing") /\ pending' = [pending EXCEPT ![r] = Notifiers]
               /\ UNCHANGED <<answers, diffId>>
      <4>1. /\ step'[r] = "firing" /\ pending'[r] = Notifiers
            /\ \A q \in Reads : q # r => step'[q] = step[q] /\ pending'[q] = pending[q]
        BY <2>t, <3>6 DEF GoesTo
      <4>2. OwnRow(r)'
        BY <3>2, <3>3, <3>6, <4>1 DEF OwnRow, At, DiffRows
      <4>3. Untold(r)'
        BY <2>i, <3>1, <4>1 DEF Untold, At
      <4> QED BY <2>i, <3>1, <3>4, <3>6, <4>1, <4>2, <4>3, OthersKeep
    <3> QED BY <2>7, <3>5, <3>6 DEF Claim
  <2>8. ASSUME NEW r \in Reads, NEW n \in Notifiers, NEW arrives \in BOOLEAN, NEW ok \in BOOLEAN,
               Notify(r, n, arrives, ok)
        PROVE  AlertInv'
    <3>1. /\ step[r] = "firing" /\ n \in pending[r] /\ diffs' = diffs
          /\ reached' = IF arrives THEN [reached EXCEPT ![n][r] = @ + 1] ELSE reached
      BY <2>8 DEF Notify, Called, At
    <3>2. /\ reached' \in [Notifiers -> [Reads -> Nat]]
          /\ reached[n][r] = 0 /\ reached'[n][r] \in {0, 1}
          /\ \A k \in Notifiers, q \in Reads : k # n \/ q # r => reached'[k][q] = reached[k][q]
      BY <2>i, <3>1 DEF Untold
    <3>3. CASE Ends(r)
      <4>1. OwnRow(r)' /\ Untold(r)'
        BY <2>i, <3>2, <3>3, EndsType DEF OwnRow, Untold, At
      <4> QED BY <3>1, <3>2, <3>3, <4>1, EndsType, OthersKeep
    <3>4. CASE pending' = [pending EXCEPT ![r] = @ \ {n}] /\ UNCHANGED <<step, answers, diffId>>
      <4>1. pending'[r] = pending[r] \ {n} /\ \A q \in Reads : q # r => pending'[q] = pending[q]
        BY <2>t, <3>4
      <4>2. OwnRow(r)' /\ Untold(r)'
        BY <2>i, <3>1, <3>2, <3>4, <4>1 DEF OwnRow, Untold, At
      <4> QED BY <3>1, <3>2, <3>4, <4>1, <4>2, OthersKeep
    <3> QED BY <2>8, <3>3, <3>4 DEF Notify
  <2>9. CASE Flip \/ UNCHANGED vars
    BY <2>9 DEF Flip, vars, taskVars, ghostVars, AlertInv, OwnRow, Untold, At
  <2>10. CASE CrashRestart
    <3>1. \A r \in Reads : step'[r] = (IF step[r] = "new" THEN "new" ELSE "done") /\ pending'[r] = {}
      BY <2>10 DEF CrashRestart
    <3>2. reached' = reached
      BY <2>10 DEF CrashRestart
    <3> QED BY <2>i, <3>1, <3>2 DEF AlertInv, OwnRow, Untold, At
  <2> QED
    BY <2>3, <2>4, <2>5, <2>6, <2>7, <2>8, <2>9, <2>10
       DEF Next, Handle, Task, Comparing, Alerting
<1> QED BY <1>1, <1>2, TypeCorrect, PTL DEF Safety

(* "cannot double-fire for the same diff" (alerting.rs): no notifier gets   *)
(* two alerts about a read, through crashes and failing notifiers.          *)
THEOREM NeverAlertedTwice == Safety => []AlertsAtMostOnce
<1>1. AlertInv => AlertsAtMostOnce
  BY DEF AlertInv, Untold, AlertsAtMostOnce
<1> QED BY <1>1, AlertInvHolds, PTL

(* An alert is about the claimed critical row its own task inserted,        *)
(* whatever other tasks insert and claim in between (diff_read).            *)
THEOREM AlertsNameTheirRow == Safety => []AlertNamesItsRow
<1>1. TypeOK /\ AlertInv => AlertNamesItsRow
  <2> SUFFICES ASSUME TypeOK, AlertInv, NEW r \in Reads, At(r, "firing")
               PROVE  diffs[diffId[r]] = [read |-> r, severity |-> "critical", notified |-> TRUE]
    BY DEF AlertNamesItsRow
  <2>1. diffs[diffId[r]] \in DiffRows
    BY ElementOfSeq DEF TypeOK
  <2>2. diffs[diffId[r]].read = r /\ diffs[diffId[r]].severity = "critical" /\ diffs[diffId[r]].notified = TRUE
    BY DEF AlertInv, OwnRow
  <2> QED BY <2>1, <2>2 DEF DiffRows
<1> QED BY <1>1, AlertInvHolds, TypeCorrect, PTL
-----------------------------------------------------------------------------
(* While the shadow is live every running task has seen it live, and so has *)
(* every task that went on to ask it, unless the database would not say.    *)
PauseInv ==
    /\ mode # "degraded" => \A r \in Reads : step[r] \in TaskSteps => r \in sawLive
    /\ \A r \in Reads : step[r] \in TaskSteps \ {"spawned"} => r \in sawLive \/ faults > 0
    /\ PausedWhileDegraded
    /\ faults \in Nat

(* What a step of r must do to keep it: move r only as it may, and record   *)
(* no row but for an r that has asked.                                      *)
LEMMA PauseKept ==
  ASSUME TypeOK, PauseInv, NEW r \in Reads,
         UNCHANGED <<mode, sawLive>>, faults' = faults \/ faults' = faults + 1,
         \A q \in Reads : q # r => step'[q] = step[q],
         \/ step'[r] \notin TaskSteps
         \/ step[r] \in TaskSteps \ {"spawned"}
         \/ step[r] = "spawned" /\ (mode # "degraded" \/ faults' = faults + 1),
         \A i \in 1 .. Len(diffs') :
            \/ i \in 1 .. Len(diffs) /\ diffs'[i].read = diffs[i].read
            \/ diffs'[i].read = r /\ step[r] \in TaskSteps \ {"spawned"}
  PROVE  PauseInv'
<1>1. faults' \in Nat /\ (faults > 0 => faults' > 0) /\ (faults' = faults + 1 => faults' > 0)
  BY DEF PauseInv
<1>2. mode' # "degraded" => \A q \in Reads : step'[q] \in TaskSteps => q \in sawLive'
  BY DEF PauseInv, TaskSteps
<1>3. \A q \in Reads : step'[q] \in TaskSteps \ {"spawned"} => q \in sawLive' \/ faults' > 0
  BY <1>1 DEF PauseInv, TaskSteps
<1>4. PausedWhileDegraded'
  BY <1>1 DEF PauseInv, PausedWhileDegraded
<1> QED BY <1>1, <1>2, <1>3, <1>4 DEF PauseInv

(* "K13": a read whose whole task ran while the shadow was degraded leaves  *)
(* no diff, however often the mode changes meanwhile (diff_read).           *)
THEOREM DegradedIsNotCompared == Safety => []PausedWhileDegraded
<1>1. Init => PauseInv
  BY DEF Init, PauseInv, PausedWhileDegraded, TaskSteps
<1>2. TypeOK /\ PauseInv /\ [Next]_vars => PauseInv'
  <2> SUFFICES ASSUME TypeOK, PauseInv, [Next]_vars PROVE PauseInv'
    OBVIOUS
  <2>t. /\ step \in [Reads -> Steps] /\ diffs \in Seq(DiffRows) /\ Len(diffs) \in Nat
        /\ sawLive' = sawLive => \A i \in 1 .. Len(diffs) : diffs[i].read \in sawLive \/ faults > 0
    BY DEF TypeOK, PauseInv, PausedWhileDegraded
  <2>1. ASSUME NEW r \in Reads, GoesTo(r, "done"), UNCHANGED <<mode, sawLive, diffs>>,
               faults' = faults \/ faults' = faults + 1
        PROVE  PauseInv'
    BY <2>1, <2>t, PauseKept DEF GoesTo, TaskSteps
  <2>2. ASSUME NEW r \in Reads, Receive(r) PROVE PauseInv'
    BY <2>2, <2>t, PauseKept DEF Receive, GoesTo, TaskSteps, ghostVars, boundVars
  <2>3. ASSUME NEW r \in Reads, NEW x \in Responses, Sample(r, x) PROVE PauseInv'
    <3>1. /\ step'[r] = "spawned" /\ \A q \in Reads : q # r => step'[q] = step[q]
          /\ sawLive' = IF mode = "degraded" THEN sawLive ELSE sawLive \cup {r}
          /\ UNCHANGED <<mode, diffs, faults>>
      BY <2>3, <2>t DEF Sample, GoesTo, boundVars
    <3> QED BY <3>1 DEF PauseInv, PausedWhileDegraded, TaskSteps
  <2>4. ASSUME NEW r \in Reads,
               \/ NoSample(r) \/ ShadowFails(r) \/ RecordFails(r) \/ ClaimFails(r)
               \/ \E x \in Responses : Agrees(r, x)
        PROVE  PauseInv'
    BY <2>1, <2>4 DEF NoSample, ShadowFails, RecordFails, ClaimFails, Agrees, Ends, Fault,
                      ghostVars, boundVars
  <2>5. ASSUME NEW r \in Reads, CheckDegraded(r) \/ CheckFails(r) PROVE PauseInv'
    <3>1. CASE GoesTo(r, "done")
      BY <2>1, <2>5, <3>1 DEF CheckDegraded, CheckFails, Fault, ghostVars, boundVars
    <3>2. CASE GoesTo(r, "asking") /\ step[r] = "spawned" /\ (mode # "degraded" \/ Fault)
      BY <2>5, <2>t, <3>2, PauseKept
         DEF CheckDegraded, CheckFails, GoesTo, Fault, TaskSteps, ghostVars, boundVars
    <3> QED BY <2>5, <3>1, <3>2 DEF CheckDegraded, CheckFails, Ends, At
  <2>6. ASSUME NEW r \in Reads, step[r] \in TaskSteps \ {"spawned"},
               UNCHANGED <<mode, sawLive, faults>>, \A q \in Reads : q # r => step'[q] = step[q],
               \A i \in 1 .. Len(diffs') :
                  (i \in 1 .. Len(diffs) /\ diffs'[i].read = diffs[i].read) \/ diffs'[i].read = r
        PROVE  PauseInv'
    BY <2>6, PauseKept
  <2>7. ASSUME NEW r \in Reads, NEW x \in Responses, Diverges(r, x) PROVE PauseInv'
    BY <2>6, <2>7, <2>t DEF Diverges, At, Ends, GoesTo, TaskSteps, boundVars
  <2>8. ASSUME NEW r \in Reads, RecordDiff(r) PROVE PauseInv'
    <3>1. diffs' = Append(diffs, Row(r)) /\ Row(r).read = r
      BY <2>8 DEF RecordDiff, Row
    <3>2. \A i \in 1 .. Len(diffs') :
             (i \in 1 .. Len(diffs) /\ diffs'[i].read = diffs[i].read) \/ diffs'[i].read = r
      BY <2>t, <3>1
    <3> QED BY <2>6, <2>8, <2>t, <3>2 DEF RecordDiff, At, Ends, GoesTo, TaskSteps, ghostVars, boundVars
  <2>9. ASSUME NEW r \in Reads, Claim(r) PROVE PauseInv'
    <3>1. diffId[r] \in 1 .. Len(diffs)
      BY <2>9 DEF Claim, TypeOK
    <3>2. \A i \in 1 .. Len(diffs') : i \in 1 .. Len(diffs) /\ diffs'[i].read = diffs[i].read
      <4>1. diffs[diffId[r]] \in DiffRows
        BY <2>t, <3>1, ElementOfSeq
      <4> QED BY <2>9, <2>t, <3>1, <4>1, ClaimKeepsRows DEF Claim, DiffRows
    <3> QED BY <2>6, <2>9, <2>t, <3>2 DEF Claim, At, Ends, GoesTo, TaskSteps, ghostVars, boundVars
  <2>10. ASSUME NEW r \in Reads, NEW n \in Notifiers, NEW arrives \in BOOLEAN, NEW ok \in BOOLEAN,
                Notify(r, n, arrives, ok)
         PROVE  PauseInv'
    BY <2>6, <2>10, <2>t DEF Notify, Called, At, Ends, GoesTo, TaskSteps, boundVars
  <2>11. CASE Flip
    BY <2>11, <2>t DEF Flip, taskVars, PauseInv, PausedWhileDegraded, TaskSteps
  <2>12. CASE CrashRestart
    BY <2>12, <2>t DEF CrashRestart, PauseInv, PausedWhileDegraded, TaskSteps
  <2>13. CASE UNCHANGED vars
    BY <2>13 DEF vars, taskVars, ghostVars, boundVars, PauseInv, PausedWhileDegraded
  <2> QED
    BY <2>2, <2>3, <2>4, <2>5, <2>7, <2>8, <2>9, <2>10, <2>11, <2>12, <2>13
       DEF Next, Handle, Task, Comparing, Alerting
<1>3. PauseInv => PausedWhileDegraded
  BY DEF PauseInv
<1> QED BY <1>1, <1>2, <1>3, TypeCorrect, PTL DEF Safety
-----------------------------------------------------------------------------
(* Each counted divergence is a row of this process, or has no row and does *)
(* not get one, or is still to be recorded: Waiting holds the last.         *)
Fresh(s) == {i \in Rows(s) : i > base}
Waiting(s) == {r \in Reads : step[r] = "counted" /\ Outcome(r).severity = s}

Counted(s) ==
    /\ IsFiniteSet(Fresh(s)) /\ IsFiniteSet(Waiting(s))
    /\ Cardinality(Fresh(s)) + Cardinality(Waiting(s)) <= total[s]

CountInv == \A s \in Severities : Counted(s)

(* A severity is still counted when no row and no waiting read is added.    *)
LEMMA CountKept ==
  ASSUME NEW s \in Severities, Counted(s), total \in [Severities -> Nat],
         total' \in [Severities -> Nat], total'[s] >= total[s],
         Fresh(s)' \subseteq Fresh(s), Waiting(s)' \subseteq Waiting(s)
  PROVE  Counted(s)'
<1>1. /\ IsFiniteSet(Fresh(s)') /\ Cardinality(Fresh(s)') <= Cardinality(Fresh(s))
      /\ IsFiniteSet(Waiting(s)') /\ Cardinality(Waiting(s)') <= Cardinality(Waiting(s))
  BY FS_Subset DEF Counted
<1>2. /\ Cardinality(Fresh(s)) \in Nat /\ Cardinality(Waiting(s)) \in Nat
      /\ Cardinality(Fresh(s)') \in Nat /\ Cardinality(Waiting(s)') \in Nat
  BY <1>1, FS_CardinalityType DEF Counted
<1>3. Cardinality(Fresh(s)) + Cardinality(Waiting(s)) <= total[s] /\ total[s] \in Nat /\ total'[s] \in Nat
  BY DEF Counted
<1>4. Cardinality(Fresh(s)') + Cardinality(Waiting(s)') <= total'[s]
  BY <1>1, <1>2, <1>3
<1> QED BY <1>1, <1>4 DEF Counted

(* So it is by every step that neither counts nor records.                  *)
LEMMA NothingCounted ==
  ASSUME TypeOK, CountInv, NEW r \in Reads, step'[r] # "counted",
         \A q \in Reads : q # r => step'[q] = step[q] /\ answers'[q] = answers[q],
         UNCHANGED <<total, base>>, Len(diffs') = Len(diffs),
         \A i \in 1 .. Len(diffs) : diffs'[i].severity = diffs[i].severity
  PROVE  CountInv'
<1> SUFFICES ASSUME NEW s \in Severities PROVE Counted(s)'
  BY DEF CountInv
<1>1. Fresh(s)' \subseteq Fresh(s)
  BY DEF Fresh, Rows
<1>2. Waiting(s)' \subseteq Waiting(s)
  BY DEF Waiting, Outcome
<1>3. total \in [Severities -> Nat] /\ total' = total /\ Counted(s)
  BY DEF TypeOK, CountInv
<1>4. total'[s] >= total[s]
  BY <1>3
<1> QED BY <1>1, <1>2, <1>3, <1>4, CountKept

(* Recording moves a read from those that wait to the rows of this process, *)
(* and counting adds one to those that wait.                                *)
LEMMA RecordingKeepsCount ==
  ASSUME TypeOK, CountInv, NEW r \in Reads, RecordDiff(r)
  PROVE  CountInv'
<1> DEFINE t == Outcome(r).severity
<1>1. /\ diffs' = Append(diffs, Row(r)) /\ Row(r).severity = t /\ UNCHANGED <<total, base>>
      /\ step[r] = "counted" /\ step'[r] # "counted"
      /\ \A q \in Reads : q # r => step'[q] = step[q] /\ answers'[q] = answers[q]
  BY DEF RecordDiff, Row, At, Ends, GoesTo, TypeOK, ghostVars
<1>2. /\ diffs \in Seq(DiffRows) /\ Len(diffs) \in Nat /\ base \in 0 .. Len(diffs)
      /\ total \in [Severities -> Nat] /\ t \in Severities
  BY CompareType, ReadAssumption DEF TypeOK, Outcome
<1>3. /\ Len(diffs') = Len(diffs) + 1 /\ diffs'[Len(diffs) + 1] = Row(r)
      /\ \A i \in 1 .. Len(diffs) : diffs'[i] = diffs[i]
  BY <1>1, <1>2
<1> SUFFICES ASSUME NEW s \in Severities PROVE Counted(s)'
  BY DEF CountInv
<1>4. Counted(s)
  BY DEF CountInv
<1>5. CASE s # t
  <2>1. Fresh(s)' \subseteq Fresh(s)
    BY <1>1, <1>2, <1>3, <1>5 DEF Fresh, Rows
  <2>2. Waiting(s)' \subseteq Waiting(s)
    BY <1>1 DEF Waiting, Outcome
  <2>3. total' \in [Severities -> Nat] /\ total'[s] >= total[s]
    BY <1>1, <1>2
  <2> QED BY <1>2, <1>4, <2>1, <2>2, <2>3, CountKept
<1>6. CASE s = t
  <2>1. Fresh(s)' = Fresh(s) \cup {Len(diffs) + 1} /\ Len(diffs) + 1 \notin Fresh(s)
    BY <1>1, <1>2, <1>3, <1>6 DEF Fresh, Rows
  <2>2. Waiting(s)' = Waiting(s) \ {r} /\ r \in Waiting(s)
    BY <1>1, <1>6 DEF Waiting, Outcome
  <2>3. /\ IsFiniteSet(Fresh(s)') /\ Cardinality(Fresh(s)') = Cardinality(Fresh(s)) + 1
        /\ IsFiniteSet(Waiting(s)') /\ Cardinality(Waiting(s)') = Cardinality(Waiting(s)) - 1
    BY <1>4, <2>1, <2>2, FS_AddElement, FS_RemoveElement DEF Counted
  <2>4. Cardinality(Fresh(s)) \in Nat /\ Cardinality(Waiting(s)) \in Nat
    BY <1>4, FS_CardinalityType DEF Counted
  <2>5. Cardinality(Fresh(s)') + Cardinality(Waiting(s)') <= total'[s]
    BY <1>1, <1>2, <1>4, <2>3, <2>4 DEF Counted
  <2> QED BY <2>3, <2>5 DEF Counted
<1> QED BY <1>5, <1>6

LEMMA CountingKeepsCount ==
  ASSUME TypeOK, CountInv, NEW r \in Reads, NEW x \in Responses, Diverges(r, x)
  PROVE  CountInv'
<1> DEFINE t == Compare(PathOf[r], answers[r].primary, x).severity
<1>1. /\ total' = [total EXCEPT ![t] = @ + 1] /\ UNCHANGED <<diffs, base>> /\ step[r] = "asking"
      /\ \A q \in Reads : q # r => step'[q] = step[q] /\ answers'[q] = answers[q]
      /\ step'[r] = "counted" => answers'[r] = [answers[r] EXCEPT !.shadow = x]
  BY DEF Diverges, At, Ends, GoesTo, TypeOK
<1>2. total \in [Severities -> Nat] /\ t \in Severities /\ answers[r] \in Answered
  BY CompareType, ReadAssumption DEF TypeOK
<1> HIDE DEF t
<1>3. step'[r] = "counted" => Outcome(r)'.severity = t
  BY <1>1, <1>2 DEF t, Outcome, Answered
<1> SUFFICES ASSUME NEW s \in Severities PROVE Counted(s)'
  BY DEF CountInv
<1>4. Counted(s)
  BY DEF CountInv
<1>5. Fresh(s)' = Fresh(s)
  BY <1>1 DEF Fresh, Rows
<1>6. \A q \in Waiting(s)' : q = r \/ q \in Waiting(s)
  BY <1>1 DEF Waiting, Outcome
<1>7. /\ total' \in [Severities -> Nat] /\ total'[s] >= total[s]
      /\ s = t => total'[s] = total[s] + 1
  BY <1>1, <1>2
<1>8. CASE r \notin Waiting(s)'
  <2>1. Waiting(s)' \subseteq Waiting(s)
    BY <1>6, <1>8
  <2> QED BY <1>2, <1>4, <1>5, <1>7, <2>1, CountKept
<1>9. CASE r \in Waiting(s)'
  <2>1. s = t
    BY <1>3, <1>9 DEF Waiting
  <2>2. Waiting(s)' \subseteq Waiting(s) \cup {r}
    BY <1>6
  <2>3. /\ IsFiniteSet(Waiting(s) \cup {r})
        /\ Cardinality(Waiting(s) \cup {r}) <= Cardinality(Waiting(s)) + 1
    <3>1. Cardinality(Waiting(s)) \in Nat
      BY <1>4, FS_CardinalityType DEF Counted
    <3>2. IsFiniteSet(Waiting(s))
      BY <1>4 DEF Counted
    <3>3. /\ IsFiniteSet(Waiting(s) \cup {r})
          /\ Cardinality(Waiting(s) \cup {r}) =
               IF r \in Waiting(s) THEN Cardinality(Waiting(s)) ELSE Cardinality(Waiting(s)) + 1
      BY <3>2, FS_AddElement, Zenon
    <3> QED BY <3>1, <3>3
  <2>4. IsFiniteSet(Waiting(s)') /\ Cardinality(Waiting(s)') <= Cardinality(Waiting(s) \cup {r})
    BY <2>2, <2>3, FS_Subset
  <2>5. /\ Cardinality(Fresh(s)) \in Nat /\ Cardinality(Waiting(s)) \in Nat
        /\ Cardinality(Waiting(s)') \in Nat /\ Cardinality(Waiting(s) \cup {r}) \in Nat
    BY <1>4, <2>3, <2>4, FS_CardinalityType DEF Counted
  <2>6. Cardinality(Fresh(s)) + Cardinality(Waiting(s)) <= total[s] /\ total[s] \in Nat
    BY <1>2, <1>4 DEF Counted
  <2>7. Cardinality(Fresh(s)) + Cardinality(Waiting(s)') <= total'[s]
    BY <1>7, <2>1, <2>3, <2>4, <2>5, <2>6
  <2> QED BY <1>4, <1>5, <2>4, <2>7 DEF Counted
<1> QED BY <1>8, <1>9

(* What /metrics counts covers what the table holds: in the life of one     *)
(* process no severity has more rows than counted divergences, whatever     *)
(* tasks interleave and whichever inserts fail (diff_read).                 *)
THEOREM CountersCoverRows == Safety => []CounterCoversRows
<1>1. Init => CountInv
  <2> SUFFICES ASSUME Init, NEW s \in Severities PROVE Counted(s)
    BY DEF CountInv
  <2>1. Fresh(s) = {} /\ Waiting(s) = {} /\ total[s] = 0
    BY DEF Init, Fresh, Rows, Waiting
  <2> QED BY <2>1, FS_EmptySet DEF Counted
<1>2. TypeOK /\ TypeOK' /\ CountInv /\ [Next]_vars => CountInv'
  <2> SUFFICES ASSUME TypeOK, TypeOK', CountInv, [Next]_vars PROVE CountInv'
    OBVIOUS
  <2>t. /\ step \in [Reads -> Steps] /\ answers \in [Reads -> Answered]
        /\ diffs \in Seq(DiffRows) /\ Len(diffs) \in Nat
    BY DEF TypeOK
  <2>1. ASSUME NEW r \in Reads, Ends(r), UNCHANGED <<total, diffs, base>>
        PROVE  CountInv'
    BY <2>1, <2>t, NothingCounted DEF Ends, GoesTo
  <2>2. ASSUME NEW r \in Reads, NEW p \in Steps \ {"counted"}, GoesTo(r, p),
               \A q \in Reads : q # r => answers'[q] = answers[q], UNCHANGED <<total, diffs, base>>
        PROVE  CountInv'
    BY <2>2, <2>t, NothingCounted DEF GoesTo
  <2>3. ASSUME NEW r \in Reads, Receive(r) \/ CheckFails(r) \/ \E x \in Responses : Sample(r, x)
        PROVE  CountInv'
    BY <2>2, <2>3, <2>t DEF Receive, CheckFails, Sample, Steps, ghostVars
  <2>4. ASSUME NEW r \in Reads,
               \/ NoSample(r) \/ ShadowFails(r) \/ RecordFails(r) \/ ClaimFails(r)
               \/ \E x \in Responses : Agrees(r, x)
        PROVE  CountInv'
    BY <2>1, <2>4 DEF NoSample, ShadowFails, RecordFails, ClaimFails, Agrees, ghostVars
  <2>5. ASSUME NEW r \in Reads, CheckDegraded(r) PROVE CountInv'
    BY <2>1, <2>2, <2>5 DEF CheckDegraded, Steps, ghostVars
  <2>6. ASSUME NEW r \in Reads, NEW x \in Responses, Diverges(r, x) PROVE CountInv'
    BY <2>6, CountingKeepsCount
  <2>7. ASSUME NEW r \in Reads, RecordDiff(r) PROVE CountInv'
    BY <2>7, RecordingKeepsCount
  <2>8. ASSUME NEW r \in Reads, Claim(r) PROVE CountInv'
    <3>1. diffId[r] \in 1 .. Len(diffs)
      BY <2>8 DEF Claim, TypeOK
    <3>2. Len(diffs') = Len(diffs) /\ \A i \in 1 .. Len(diffs) : diffs'[i].severity = diffs[i].severity
      <4>1. diffs[diffId[r]] \in DiffRows
        BY <2>t, <3>1, ElementOfSeq
      <4> QED BY <2>8, <2>t, <3>1, <4>1, ClaimKeepsRows DEF Claim, DiffRows
    <3>3. /\ step'[r] # "counted" /\ UNCHANGED <<total, base>>
          /\ \A q \in Reads : q # r => step'[q] = step[q] /\ answers'[q] = answers[q]
      BY <2>8, <2>t DEF Claim, Ends, GoesTo, ghostVars
    <3> QED BY <3>2, <3>3, NothingCounted
  <2>9. ASSUME NEW r \in Reads, NEW n \in Notifiers, NEW arrives \in BOOLEAN, NEW ok \in BOOLEAN,
               Notify(r, n, arrives, ok)
        PROVE  CountInv'
    <3>1. CASE Ends(r)
      BY <2>1, <2>9, <3>1 DEF Notify
    <3>2. CASE UNCHANGED <<step, answers>>
      <4>1. step'[r] # "counted"
        BY <2>9, <3>2 DEF Notify, Called, At
      <4> QED BY <2>9, <3>2, <4>1, NothingCounted DEF Notify
    <3> QED BY <2>9, <3>1, <3>2 DEF Notify
  <2>10. CASE Flip \/ UNCHANGED vars
    BY <2>10 DEF Flip, vars, taskVars, ghostVars, CountInv, Counted, Fresh, Rows, Waiting, Outcome
  <2>11. CASE CrashRestart
    <3> SUFFICES ASSUME NEW s \in Severities PROVE Counted(s)'
      BY DEF CountInv
    <3>1. Fresh(s)' = {} /\ Waiting(s)' = {} /\ total'[s] = 0
      BY <2>11, <2>t DEF CrashRestart, Fresh, Rows, Waiting
    <3> QED BY <3>1, FS_EmptySet DEF Counted
  <2> QED
    BY <2>3, <2>4, <2>5, <2>6, <2>7, <2>8, <2>9, <2>10, <2>11
       DEF Next, Handle, Task, Comparing, Alerting
<1>3. TypeOK /\ CountInv => CounterCoversRows
  <2> SUFFICES ASSUME TypeOK, CountInv, NEW s \in Severities
               PROVE  Cardinality(Fresh(s)) <= total[s]
    BY DEF CounterCoversRows, Fresh
  <2>1. Cardinality(Fresh(s)) \in Nat /\ Cardinality(Waiting(s)) \in Nat /\ total[s] \in Nat
    BY FS_CardinalityType DEF CountInv, Counted, TypeOK
  <2> QED BY <2>1 DEF CountInv, Counted
<1> QED BY <1>1, <1>2, <1>3, TypeCorrect, PTL DEF Safety
-----------------------------------------------------------------------------
(* Two answers are as far apart seen from either.                           *)
LEMMA CompareSymmetric ==
  ASSUME NEW path, NEW p, NEW s, p.status \in Nat, s.status \in Nat
  PROVE  Compare(path, p, s) = Compare(path, s, p)
<1>1. SeverityForStatusDiff(path, p.status, s.status) = SeverityForStatusDiff(path, s.status, p.status)
  BY DEF SeverityForStatusDiff
<1>2. BodiesAgree(path, p, s) <=> BodiesAgree(path, s, p)
  BY DEF BodiesAgree
<1> QED BY <1>1, <1>2 DEF Compare

(* Which backend gave which answer makes no difference to the severity of a *)
(* divergence, whatever the two answered (compare, diff.rs).                *)
THEOREM SidesAreAlike == Safety => []NeitherSideFavoured
<1>1. TypeOK => NeitherSideFavoured
  <2> SUFFICES ASSUME TypeOK, NEW r \in Reads
               PROVE  Outcome(r) = Compare(PathOf[r], answers[r].shadow, answers[r].primary)
    BY DEF NeitherSideFavoured
  <2>1. \A x \in Responses \cup {Nothing} : x.status \in Nat
    BY ReadAssumption DEF Nothing
  <2>2. answers[r].primary.status \in Nat /\ answers[r].shadow.status \in Nat
    BY <2>1 DEF TypeOK, Answered
  <2> QED BY <2>2, CompareSymmetric DEF Outcome
<1> QED BY <1>1, TypeCorrect, PTL
=============================================================================
