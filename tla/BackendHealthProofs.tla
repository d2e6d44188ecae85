------------------------- MODULE BackendHealthProofs -------------------------
(***************************************************************************)
(* For any number of restarts, crashes, failed resyncs, database errors    *)
(* and writes given up: the poller resyncs only a backend that restarted,  *)
(* however many threads the runtime has; and on a runtime with one thread  *)
(* only a completed resync takes the shadow out of degraded mode, unless   *)
(* the poller could not read the row, and the gauge follows the row        *)
(* through any crash, as long as no upsert fails.                          *)
(***************************************************************************)
EXTENDS BackendHealth, TLAPS

PollSection == {"readPrimary", "wrotePrimary", "readShadow", "wroteShadow"}
Uptimes == {Null, -1} \cup 0 .. MaxUptime
Rows == [uptime : Uptimes, mode : Modes \cup {"none"}]
Bounds == failures \in Nat /\ crashes \in Nat /\ faults \in Nat

(* TypeOK, and the counters of what went wrong. *)
TypeInv ==
    /\ uptime \in [Backends -> 0 .. MaxUptime] /\ epoch \in [Backends -> 0 .. MaxRestarts]
    /\ recorded \in [Backends -> Uptimes]
    /\ mode \in [Backends -> Modes] /\ mode["primary"] # "degraded"
    /\ gauge \in {Absent, 0, 1}
    /\ ppc \in PollStates /\ sample \in [Backends -> Answer]
    /\ prior \in Rows
    /\ wpc \in {"idle", "moved", "marked"}
    /\ tasks \in [Tasks -> Nat]
    /\ abandoned \in 0 .. MaxAbandons
    /\ polled \in [Backends -> Answer]
    /\ Bounds

LEMMA SpawnedType ==
  ASSUME tasks \in [Tasks -> Nat], NEW b \in Backends
  PROVE  Spawned(b) \in [Tasks -> Nat]
<1>1. Task(b, "snapshot") \in Tasks
  BY DEF Task, Tasks, Phases
<1> QED BY <1>1 DEF Spawned

LEMMA MovedType ==
  ASSUME tasks \in [Tasks -> Nat], NEW t \in Tasks, NEW u \in Tasks, Running(t)
  PROVE  Moved(t, u) \in [Tasks -> Nat] /\ Ended(t) \in [Tasks -> Nat]
BY DEF Moved, Ended, Running

LEMMA TaskType ==
  ASSUME NEW t \in Tasks
  PROVE  t.to \in Backends /\ \A p \in Phases : Task(t.to, p) \in Tasks
BY DEF Tasks, Task

LEMMA AnswerType ==
  ASSUME TypeInv
  PROVE  /\ NoAnswer \in Answer /\ NoAnswers \in [Backends -> Answer]
         /\ NoRow \in Rows
         /\ \A b \in Backends : [uptime |-> uptime[b], epoch |-> epoch[b]] \in Answer
         /\ \A b \in Backends : [uptime |-> recorded[b], mode |-> mode[b]] \in Rows
         /\ \A b \in Backends : sample[b].uptime \in Uptimes
<1>1. NoAnswer \in Answer
  BY HealthAssumption DEF NoAnswer, Answer, Null
<1>2. NoRow \in Rows
  BY DEF NoRow, Rows, Uptimes, Null
<1>3. \A b \in Backends : [uptime |-> uptime[b], epoch |-> epoch[b]] \in Answer
  BY DEF TypeInv, Answer
<1>4. \A b \in Backends : [uptime |-> recorded[b], mode |-> mode[b]] \in Rows
  BY DEF TypeInv, Rows
<1>5. \A b \in Backends : sample[b].uptime \in Uptimes
  BY DEF TypeInv, Answer, Uptimes
<1> QED BY <1>1, <1>2, <1>3, <1>4, <1>5 DEF NoAnswers

(* Every step keeps the types. *)
LEMMA TypeStep ==
  ASSUME TypeInv, [Next]_vars
  PROVE  TypeInv'
<1> USE DEF TypeInv, backendVars, rowVars, pollVars, ghostVars, boundVars
<1>0. /\ "primary" \in Backends /\ "shadow" \in Backends
      /\ {"live", "degraded"} \subseteq Modes
      /\ MaxUptime \in Nat /\ MaxRestarts \in Nat /\ MaxAbandons \in Nat
  BY HealthAssumption DEF Backends, Modes
<1>1. ASSUME NEW b \in Backends, Tick(b) PROVE TypeInv'
  BY <1>1, <1>0 DEF Tick, Bounds
<1>2. ASSUME NEW b \in Backends, BackendRestarts(b) PROVE TypeInv'
  <2>1. epoch[b] + 1 \in 0 .. MaxRestarts
    BY <1>2, <1>0 DEF BackendRestarts, Backends
  <2> QED BY <1>2, <2>1, <1>0 DEF BackendRestarts, Bounds
<1>3. CASE FetchPrimary \/ FetchShadow
  BY <1>3, <1>0, AnswerType DEF FetchPrimary, FetchShadow, Fetches, PollStates, Bounds
<1>4. CASE ReadPrimary
  BY <1>4, <1>0, AnswerType DEF ReadPrimary, Reads, PollStates, Bounds
<1>5. CASE SkipPrimary \/ SpawnPrimary
  <2>1. tasks' \in [Tasks -> Nat]
    BY <1>5, <1>0, SpawnedType DEF SkipPrimary, SpawnPrimary, SpawnIf
  <2>2. ppc' \in PollStates /\ sample' \in [Backends -> Answer] /\ prior' \in Rows
    BY <1>5, <1>0, AnswerType DEF SkipPrimary, SpawnPrimary, GoesOn, EndsPoll, Reads, PollStates
  <2> QED BY <1>5, <2>1, <2>2 DEF SkipPrimary, SpawnPrimary, Bounds
<1>6. CASE WritePrimary
  BY <1>6, <1>0, AnswerType DEF WritePrimary, Records, PollStates, Bounds
<1>7. CASE WriteShadow
  <2>1. "shadow" # "primary"
    OBVIOUS
  <2> QED BY <1>7, <2>1, <1>0, AnswerType DEF WriteShadow, Records, PollStates, Bounds
<1>8. CASE SpawnShadow
  <2>1. tasks' \in [Tasks -> Nat]
    BY <1>8, <1>0, SpawnedType DEF SpawnShadow, SpawnIf
  <2> QED BY <1>8, <2>1, AnswerType DEF SpawnShadow, EndsPoll, PollStates, Bounds
<1>9. CASE MoveToFailed
  BY <1>9, <1>0 DEF MoveToFailed, Bounds
<1>10. CASE MarkDegraded
  BY <1>10, <1>0 DEF MarkDegraded, Uptimes, Bounds
<1>11. CASE RaiseGauge
  BY <1>11, <1>0, SpawnedType DEF RaiseGauge, Bounds
<1>12. ASSUME NEW t \in Tasks, Resync(t) \/ ResyncFails(t) \/ MarkLiveFails(t)
       PROVE  TypeInv'
  <2>1. /\ Task(t.to, "load") \in Tasks /\ Task(t.to, "loaded") \in Tasks
        /\ Task(t.to, "marked") \in Tasks /\ t.to \in Backends
    BY TaskType DEF Phases
  <2>2. tasks' \in [Tasks -> Nat]
    BY <1>12, <2>1, MovedType
       DEF Resync, TakeSnapshot, LoadSnapshot, MarkLive, ClearGauge, ResyncFails, MarkLiveFails
  <2>3. CASE TakeSnapshot(t) \/ LoadSnapshot(t) \/ ClearGauge(t)
    BY <2>2, <2>3 DEF TakeSnapshot, LoadSnapshot, ClearGauge, Bounds
  <2>4. CASE MarkLive(t)
    BY <2>1, <2>2, <2>4, <1>0 DEF MarkLive, Uptimes, Bounds
  <2>5. CASE ResyncFails(t)
    BY <2>2, <2>5 DEF ResyncFails, Bounds
  <2>6. CASE MarkLiveFails(t)
    BY <2>2, <2>6 DEF MarkLiveFails, Fault, Bounds
  <2> QED BY <1>12, <2>3, <2>4, <2>5, <2>6 DEF Resync
<1>13. CASE ReadFails
  BY <1>13, AnswerType DEF ReadFails, Fault, Bounds
<1>14. CASE PollWriteFails
  BY <1>14, AnswerType DEF PollWriteFails, Fault, EndsPoll, PollStates, Bounds
<1>15. CASE MarkDegradedFails
  BY <1>15 DEF MarkDegradedFails, Fault, Bounds
<1>16. CASE CrashRestart
  BY <1>16, AnswerType DEF CrashRestart, EndsPoll, PollStates, Bounds
<1>17. CASE UNCHANGED vars
  BY <1>17 DEF vars, Bounds
<1> QED
  BY <1>1, <1>2, <1>3, <1>4, <1>5, <1>6, <1>7, <1>8, <1>9, <1>10, <1>11, <1>12,
     <1>13, <1>14, <1>15, <1>16, <1>17
     DEF Next, Poll, GiveUp

LEMMA TypeInvHolds == Safety => []TypeInv
<1>1. Init => TypeInv
  BY HealthAssumption
     DEF Init, TypeInv, Backends, Modes, PollStates, Answer, NoAnswers, NoAnswer, NoRow,
         Rows, Uptimes, Null, Bounds
<1> QED BY <1>1, TypeStep, PTL DEF Safety

(* Types of the rows, the poller and the resync tasks. *)
THEOREM TypeCorrect == Safety => []TypeOK
<1>1. TypeInv => TypeOK
  BY DEF TypeInv, TypeOK, Rows, Uptimes
<1> QED BY <1>1, TypeInvHolds, PTL

-----------------------------------------------------------------------------
(* What the poller knows of the backends' uptimes. *)

(* An answer is the backend's uptime at the time, which only a restart      *)
(* takes back; what is on record, and what the poller has read of it, is    *)
(* the last recorded answer unless -1 or 0 has been written over it.        *)
Observed(b) ==
    /\ recorded[b] <= 0 \/ recorded[b] = polled[b].uptime
    /\ polled[b].epoch <= epoch[b]
    /\ polled[b].epoch = epoch[b] => polled[b].uptime <= uptime[b]
    /\ sample[b] # NoAnswer =>
         /\ sample[b].uptime >= 0
         /\ sample[b].epoch <= epoch[b]
         /\ sample[b].epoch = epoch[b] => sample[b].uptime <= uptime[b]
         /\ sample[b].epoch = polled[b].epoch => polled[b].uptime <= sample[b].uptime

ReadOf(b) ==
    /\ sample[b] # NoAnswer
    /\ prior.uptime <= 0 \/ prior.uptime = polled[b].uptime

UptimeInv ==
    /\ \A b \in Backends : Observed(b)
    /\ ppc = "readPrimary" => ReadOf("primary")
    /\ ppc = "readShadow" => ReadOf("shadow")

LEMMA Numbers ==
  ASSUME TypeInv, NEW b \in Backends
  PROVE  /\ uptime[b] \in Nat /\ epoch[b] \in Nat
         /\ sample[b].epoch \in Nat /\ polled[b].epoch \in Nat
         /\ sample[b].uptime \in Int /\ polled[b].uptime \in Int /\ recorded[b] \in Int
         /\ prior.uptime \in Int
<1>1. sample[b] \in Answer /\ polled[b] \in Answer
  BY DEF TypeInv
<1>2. \A a \in Answer : a.uptime \in Int /\ a.epoch \in Nat
  BY HealthAssumption DEF Answer, Null
<1>3. uptime[b] \in Nat /\ epoch[b] \in Nat /\ recorded[b] \in Int /\ prior.uptime \in Int
  BY HealthAssumption DEF TypeInv, Rows, Uptimes, Null
<1> QED BY <1>1, <1>2, <1>3

(* What the steps that leave the polled samples alone have to show. *)
LEMMA UptimeFrame ==
  ASSUME UptimeInv,
         UNCHANGED <<uptime, epoch, polled, recorded>>,
         sample' = sample \/ sample' = NoAnswers,
         \/ ppc' = ppc /\ sample' = sample /\ prior' \in {prior, NoRow}
         \/ ppc' \notin {"readPrimary", "readShadow"}
  PROVE  UptimeInv'
<1>1. ASSUME NEW b \in Backends PROVE Observed(b)'
  BY <1>1 DEF UptimeInv, Observed, NoAnswers, NoAnswer
<1>2. NoRow.uptime <= 0
  BY DEF NoRow, Null
<1> QED BY <1>1, <1>2 DEF UptimeInv, ReadOf

LEMMA UptimeStep ==
  ASSUME TypeInv, UptimeInv, [Next]_vars
  PROVE  UptimeInv'
<1> USE DEF backendVars, rowVars, pollVars, ghostVars, boundVars
<1>0. "primary" \in Backends /\ "shadow" \in Backends
  BY DEF Backends
<1>1. ASSUME NEW b \in Backends, Tick(b) \/ BackendRestarts(b)
      PROVE  UptimeInv'
  <2>1. ASSUME NEW c \in Backends PROVE Observed(c)'
    <3>1. Observed(c)
      BY DEF UptimeInv
    <3>2. CASE c = b
      BY <1>1, <3>1, <3>2, Numbers DEF TypeInv, Observed, Tick, BackendRestarts
    <3>3. CASE c # b
      BY <1>1, <3>1, <3>3 DEF TypeInv, Observed, Tick, BackendRestarts
    <3> QED BY <3>2, <3>3
  <2> QED BY <1>1, <2>1 DEF UptimeInv, ReadOf, Tick, BackendRestarts
<1>2. ASSUME NEW b \in Backends, Fetches(b), ppc' \in {"asked", "answered"},
             UNCHANGED <<uptime, epoch, polled, recorded>>
      PROVE  UptimeInv'
  <2>1. ASSUME NEW c \in Backends PROVE Observed(c)'
    <3>1. Observed(c)
      BY DEF UptimeInv
    <3>2. CASE c = b
      BY <1>2, <3>1, <3>2, Numbers DEF TypeInv, Observed, Fetches, NoAnswer
    <3>3. CASE c # b
      BY <1>2, <3>1, <3>3 DEF TypeInv, Observed, Fetches
    <3> QED BY <3>2, <3>3
  <2> QED BY <1>2, <2>1 DEF UptimeInv
<1>3. CASE FetchPrimary \/ FetchShadow
  BY <1>0, <1>2, <1>3 DEF FetchPrimary, FetchShadow
<1>4. CASE ReadPrimary
  BY <1>4, <1>0 DEF ReadPrimary, Reads, UptimeInv, Observed, ReadOf
<1>5. CASE SkipPrimary \/ SpawnPrimary
  <2>1. CASE sample["shadow"] = NoAnswer
    BY <1>5, <2>1, UptimeFrame DEF SkipPrimary, SpawnPrimary, GoesOn, EndsPoll
  <2>2. CASE sample["shadow"] # NoAnswer
    BY <1>5, <2>2, <1>0 DEF SkipPrimary, SpawnPrimary, GoesOn, Reads, UptimeInv, Observed, ReadOf
  <2> QED BY <2>1, <2>2
<1>6. ASSUME NEW b \in Backends, NEW m, Records(b, m), ReadOf(b),
             ppc' \in {"wrotePrimary", "wroteShadow"}, UNCHANGED <<uptime, epoch, sample>>
      PROVE  UptimeInv'
  <2>1. ASSUME NEW c \in Backends PROVE Observed(c)'
    <3>1. Observed(c)
      BY DEF UptimeInv
    <3>2. CASE c = b
      BY <1>6, <3>1, <3>2, Numbers DEF TypeInv, Observed, Records, ReadOf
    <3>3. CASE c # b
      BY <1>6, <3>1, <3>3 DEF TypeInv, Observed, Records
    <3> QED BY <3>2, <3>3
  <2> QED BY <1>6, <2>1 DEF UptimeInv
<1>7. CASE WritePrimary
  BY <1>0, <1>6, <1>7 DEF WritePrimary, UptimeInv
<1>8. CASE WriteShadow
  BY <1>0, <1>6, <1>8 DEF WriteShadow, UptimeInv
<1>9. CASE SpawnShadow \/ MoveToFailed \/ RaiseGauge
  BY <1>9, UptimeFrame DEF SpawnShadow, EndsPoll, MoveToFailed, RaiseGauge
<1>10. ASSUME NEW b \in Backends, NEW u \in {-1, 0}, recorded' = [recorded EXCEPT ![b] = u],
              UNCHANGED <<uptime, epoch, polled, pollVars>>
       PROVE  UptimeInv'
  <2>1. \A c \in Backends : recorded'[c] <= 0 \/ recorded'[c] = recorded[c]
    BY <1>10 DEF TypeInv
  <2>2. \A c \in Backends : Observed(c)'
    BY <1>10, <2>1 DEF UptimeInv, Observed
  <2> QED BY <1>10, <2>2 DEF UptimeInv, ReadOf
<1>11. CASE MarkDegraded
  BY <1>0, <1>10, <1>11 DEF MarkDegraded
<1>12. ASSUME NEW t \in Tasks, Resync(t) \/ ResyncFails(t) \/ MarkLiveFails(t)
       PROVE  UptimeInv'
  <2>1. CASE MarkLive(t)
    BY <2>1, <1>10, TaskType DEF MarkLive
  <2>2. CASE ~MarkLive(t)
    BY <1>12, <2>2, UptimeFrame
       DEF Resync, TakeSnapshot, LoadSnapshot, ClearGauge, ResyncFails, MarkLiveFails, Fault
  <2> QED BY <2>1, <2>2
<1>13. CASE ReadFails \/ PollWriteFails \/ MarkDegradedFails \/ CrashRestart
  BY <1>13, UptimeFrame
     DEF ReadFails, PollWriteFails, MarkDegradedFails, CrashRestart, Fault, EndsPoll
<1>14. CASE UNCHANGED vars
  BY <1>14, UptimeFrame DEF vars
<1> QED
  BY <1>1, <1>3, <1>4, <1>5, <1>7, <1>8, <1>9, <1>11, <1>12, <1>13, <1>14
     DEF Next, Poll, GiveUp

LEMMA UptimeInvHolds == Safety => []UptimeInv
<1>1. Init => UptimeInv
  BY HealthAssumption
     DEF Init, UptimeInv, Observed, Backends, NoAnswers, NoAnswer, Null
<1> QED BY <1>1, UptimeStep, TypeInvHolds, PTL DEF Safety

(* The poller resyncs, and so overwrites, only a backend that restarted     *)
(* since the last poll it recorded: whatever the interleaving, and whatever *)
(* the resyncs and the worker write over the uptime on record.              *)
THEOREM OnlyRestartedIsResynced == Safety => NoNeedlessResync
<1> DEFINE Step == \A b \in Backends :
                     Recording(b) /\ Regressed(b) => sample[b].epoch # polled[b].epoch
<1>1. TypeInv /\ UptimeInv => Step
  <2> SUFFICES ASSUME TypeInv, UptimeInv, NEW b \in Backends, Recording(b), Regressed(b)
               PROVE  sample[b].epoch # polled[b].epoch
    OBVIOUS
  <2>1. ReadOf(b) /\ Observed(b)
    BY DEF Recording, UptimeInv
  <2>2. sample[b].uptime < prior.uptime
    BY DEF Regressed
  <2> QED BY <2>1, <2>2, Numbers DEF ReadOf, Observed
<1> QED BY <1>1, TypeInvHolds, UptimeInvHolds, PTL DEF NoNeedlessResync

-----------------------------------------------------------------------------
(* One thread: no two tasks are between two database calls at a time. *)

Marked(t) == t.phase = "marked" /\ Running(t)

Exclusive ==
    ~Parallel =>
      /\ ppc \in PollSection => wpc = "idle" /\ \A t \in Tasks : ~Marked(t)
      /\ wpc # "idle" => \A t \in Tasks : ~Marked(t)
      /\ \A t, u \in Tasks : Marked(t) /\ Marked(u) => t = u /\ tasks[t] = 1

(* So what the poller read of the shadow's row is what the row says, unless *)
(* it could not read it,                                                    *)
ReadInv ==
    ~Parallel => (ppc = "readShadow" => prior = NoRow \/ prior.mode = mode["shadow"])

(* and the gauge agrees with the row except inside a section that changes   *)
(* both.                                                                    *)
RowInv ==
    ~Parallel /\ faults = 0 =>
      /\ wpc = "marked" => mode["shadow"] = "degraded"
      /\ \A t \in Tasks : Marked(t) /\ t.to = "shadow" => mode["shadow"] # "degraded"
      /\ ppc = "readShadow" => prior.mode = mode["shadow"]
      /\ wpc # "marked" /\ (\A t \in Tasks : Marked(t) => t.to # "shadow")
           => gauge = Absent \/ (gauge = 1 <=> mode["shadow"] = "degraded")

SectionInv == Exclusive /\ ReadInv /\ RowInv

LEMMA MarkedMoves ==
  ASSUME TypeInv, NEW t \in Tasks, Running(t)
  PROVE  /\ \A p \in Phases : t.phase # p => Moved(t, Task(t.to, p))[t] = tasks[t] - 1
         /\ \A p \in Phases \ {"marked"} : \A u \in Tasks :
              u.phase = "marked" /\ t.phase # "marked" => Moved(t, Task(t.to, p))[u] = tasks[u]
         /\ \A u \in Tasks : u # t => Ended(t)[u] = tasks[u]
         /\ Ended(t)[t] = tasks[t] - 1
         /\ \A u \in Tasks : u # t /\ u # Task(t.to, "marked") =>
              Moved(t, Task(t.to, "marked"))[u] = tasks[u]
         /\ t.phase # "marked" =>
              Moved(t, Task(t.to, "marked"))[Task(t.to, "marked")] = tasks[Task(t.to, "marked")] + 1
<1>1. \A p \in Phases : Task(t.to, p) \in Tasks /\ Task(t.to, p).phase = p
  BY TaskType DEF Task
<1>2. "marked" \in Phases
  BY DEF Phases
<1> QED BY <1>1, <1>2 DEF TypeInv, Moved, Ended

(* Steps that leave the tasks' sections, the row and the gauge alone. *)
LEMMA SectionFrame ==
  ASSUME TypeInv, SectionInv, UNCHANGED <<mode, gauge, faults>>,
         \A t \in Tasks : t.phase = "marked" => tasks'[t] = tasks[t],
         \/ UNCHANGED <<ppc, prior>>
         \/ ppc' \notin PollSection
         \/ ppc \in PollSection /\ ppc' # "readShadow"
         \/ /\ Parallel \/ (wpc = "idle" /\ \A t \in Tasks : ~Marked(t))
            /\ ppc' = "readShadow" => prior'.mode = mode["shadow"],
         \/ wpc' = wpc
         \/ wpc' = "moved" /\ UNCHANGED <<ppc, prior>> /\ Scheduled /\ wpc = "idle"
  PROVE  SectionInv'
<1>1. \A t \in Tasks : /\ Marked(t)' <=> Marked(t)
                       /\ Marked(t) => tasks'[t] = tasks[t]
  BY DEF Marked, Running
<1>2. CASE Parallel
  BY <1>2 DEF SectionInv, Exclusive, ReadInv, RowInv
<1>3. CASE ~Parallel /\ wpc' = wpc
  <2>1. Exclusive'
    BY <1>1, <1>3 DEF SectionInv, Exclusive, PollSection
  <2>2. ReadInv' /\ RowInv'
    BY <1>1, <1>3 DEF SectionInv, Exclusive, ReadInv, RowInv, PollSection
  <2> QED BY <2>1, <2>2 DEF SectionInv
<1>4. CASE ~Parallel /\ wpc' # wpc
  <2>1. ppc \notin PollSection /\ \A t \in Tasks : ~Marked(t)
    BY <1>4 DEF Scheduled, InSection, PollSection, Marked
  <2>2. Exclusive'
    BY <1>1, <1>4, <2>1 DEF SectionInv, Exclusive
  <2>3. ReadInv' /\ RowInv'
    BY <1>1, <1>4, <2>1 DEF SectionInv, ReadInv, RowInv
  <2> QED BY <2>2, <2>3 DEF SectionInv
<1> QED BY <1>2, <1>3, <1>4

LEMMA SectionStep ==
  ASSUME TypeInv, SectionInv, [Next]_vars
  PROVE  SectionInv'
<1> USE DEF backendVars, rowVars, pollVars, ghostVars, boundVars
<1>1. CASE Parallel
  BY <1>1 DEF SectionInv, Exclusive, ReadInv, RowInv
<1>2. CASE ~Parallel
  <2>0. /\ Scheduled => ppc \notin PollSection /\ wpc = "idle" /\ \A t \in Tasks : ~Marked(t)
        /\ "shadow" \in Backends /\ "primary" \in Backends
        /\ faults \in Nat
    BY <1>2 DEF Scheduled, InSection, PollSection, Marked, Backends, TypeInv, Bounds
  <2>1. ASSUME NEW b \in Backends, Tick(b) \/ BackendRestarts(b)
        PROVE  SectionInv'
    BY <2>1, SectionFrame DEF Tick, BackendRestarts
  <2>2. CASE FetchPrimary \/ FetchShadow
    BY <2>2, SectionFrame DEF FetchPrimary, FetchShadow, PollSection
  <2>3. CASE ReadPrimary
    BY <2>0, <2>3, SectionFrame DEF ReadPrimary, Reads
  <2>4. CASE SkipPrimary
    BY <2>0, <2>4, SectionFrame DEF SkipPrimary, GoesOn, EndsPoll, Reads, PollSection
  <2>5. CASE WritePrimary
    <3>1. mode'["shadow"] = mode["shadow"]
      BY <2>5 DEF WritePrimary, Records, TypeInv, Backends
    <3> QED BY <2>5, <3>1 DEF WritePrimary, SectionInv, Exclusive, ReadInv, RowInv, PollSection, Marked, Running
  <2>6. CASE SpawnPrimary
    <3>1. \A t \in Tasks : t.phase = "marked" => tasks'[t] = tasks[t]
      BY <2>6 DEF SpawnPrimary, SpawnIf, Spawned, Task, TypeInv
    <3>2. wpc = "idle" /\ \A t \in Tasks : ~Marked(t)
      BY <1>2, <2>6 DEF SpawnPrimary, SectionInv, Exclusive, PollSection
    <3> QED BY <2>6, <3>1, <3>2, SectionFrame DEF SpawnPrimary, GoesOn, EndsPoll, Reads, PollSection
  <2>7. CASE WriteShadow
    <3>1. ppc = "readShadow" /\ ppc' = "wroteShadow" /\ UNCHANGED <<gauge, wpc, tasks, faults>>
      BY <2>7 DEF WriteShadow
    <3>2. faults = 0 => (mode'["shadow"] = "degraded" <=> mode["shadow"] = "degraded")
      BY <1>2, <2>0, <2>7 DEF WriteShadow, Records, TypeInv, SectionInv, ReadInv, RowInv
    <3> QED BY <1>2, <3>1, <3>2 DEF SectionInv, Exclusive, ReadInv, RowInv, PollSection, Marked, Running
  <2>8. CASE SpawnShadow
    <3>1. \A t \in Tasks : t.phase = "marked" => tasks'[t] = tasks[t]
      BY <2>8 DEF SpawnShadow, SpawnIf, Spawned, Task, TypeInv
    <3> QED BY <2>8, <3>1, SectionFrame DEF SpawnShadow, EndsPoll, PollSection
  <2>9. CASE MoveToFailed
    BY <2>9, SectionFrame DEF MoveToFailed
  <2>10. CASE MarkDegraded
    <3>1. mode'["shadow"] = "degraded"
      BY <2>0, <2>10 DEF MarkDegraded, TypeInv
    <3>2. wpc = "moved" /\ wpc' = "marked" /\ UNCHANGED <<gauge, ppc, tasks, faults>>
      BY <2>10 DEF MarkDegraded
    <3>3. ppc \notin PollSection /\ \A t \in Tasks : ~Marked(t)
      BY <1>2, <3>2 DEF SectionInv, Exclusive
    <3> QED BY <3>1, <3>2, <3>3 DEF SectionInv, Exclusive, ReadInv, RowInv, PollSection, Marked, Running
  <2>11. CASE RaiseGauge
    <3>1. \A t \in Tasks : t.phase = "marked" => tasks'[t] = tasks[t]
      BY <2>11 DEF RaiseGauge, Spawned, Task, TypeInv
    <3>2. ppc \notin PollSection /\ \A t \in Tasks : ~Marked(t)
      BY <1>2, <2>11 DEF RaiseGauge, SectionInv, Exclusive
    <3>3. \A t \in Tasks : ~Marked(t)'
      BY <3>1, <3>2 DEF Marked, Running
    <3> QED BY <2>11, <3>2, <3>3 DEF RaiseGauge, SectionInv, Exclusive, ReadInv, RowInv, PollSection
  <2>12. ASSUME NEW t \in Tasks, TakeSnapshot(t) \/ LoadSnapshot(t) \/ ResyncFails(t)
         PROVE  SectionInv'
    <3>1. \A u \in Tasks : u.phase = "marked" => tasks'[u] = tasks[u]
      BY <2>12, MarkedMoves DEF TakeSnapshot, LoadSnapshot, ResyncFails, Phases
    <3> QED BY <2>12, <3>1, SectionFrame DEF TakeSnapshot, LoadSnapshot, ResyncFails
  <2>13. ASSUME NEW t \in Tasks, MarkLive(t) \/ MarkLiveFails(t)
         PROVE  SectionInv'
    <3> DEFINE m == Task(t.to, "marked")
    <3>1. m \in Tasks /\ m.phase = "marked" /\ m.to = t.to /\ Running(t) /\ t.phase = "loaded"
      BY <2>13, TaskType DEF MarkLive, MarkLiveFails, Task, Phases
    <3>2. Scheduled /\ tasks' = Moved(t, m) /\ UNCHANGED <<ppc, wpc, gauge>>
      BY <2>13 DEF MarkLive, MarkLiveFails, Fault
    <3>3. ppc \notin PollSection /\ wpc = "idle" /\ \A u \in Tasks : tasks[u] \in Nat /\ ~Marked(u)
      BY <2>0, <3>2 DEF TypeInv
    <3>4. tasks'[m] = 1 /\ \A u \in Tasks : Marked(u)' => u = m
      BY <3>1, <3>2, <3>3, MarkedMoves DEF Marked, Running
    <3>5. Exclusive'
      BY <3>2, <3>3, <3>4 DEF Exclusive
    <3>6. CASE MarkLive(t)
      <4>1. mode'["shadow"] = IF t.to = "shadow" THEN "live" ELSE mode["shadow"]
        BY <3>6, <2>0 DEF MarkLive, TypeInv
      <4>2. Marked(m)' /\ UNCHANGED faults
        BY <3>1, <3>4, <3>6 DEF Marked, Running, MarkLive
      <4>3. ReadInv' /\ RowInv'
        BY <3>1, <3>2, <3>3, <3>4, <4>1, <4>2 DEF SectionInv, ReadInv, RowInv, PollSection
      <4> QED BY <3>5, <4>3 DEF SectionInv
    <3>7. CASE MarkLiveFails(t)
      <4>1. faults' # 0
        BY <2>0, <3>7 DEF MarkLiveFails, Fault
      <4> QED BY <3>2, <3>3, <3>5, <4>1 DEF SectionInv, ReadInv, RowInv, PollSection
    <3> QED BY <2>13, <3>6, <3>7
  <2>14. ASSUME NEW t \in Tasks, ClearGauge(t)
         PROVE  SectionInv'
    <3>1. Marked(t) /\ UNCHANGED <<mode, ppc, wpc, faults>> /\ tasks' = Ended(t)
      BY <2>14 DEF ClearGauge, Marked
    <3>2. ppc \notin PollSection /\ wpc = "idle" /\ tasks[t] = 1 /\ \A u \in Tasks : Marked(u) => u = t
      BY <1>2, <3>1 DEF SectionInv, Exclusive, TypeInv
    <3>3. \A u \in Tasks : ~Marked(u)'
      <4>1. tasks'[t] = 0 /\ \A u \in Tasks : u # t => tasks'[u] = tasks[u]
        BY <3>1, <3>2, MarkedMoves DEF Marked
      <4> QED BY <3>2, <4>1 DEF Marked, Running
    <3>4. gauge' = IF t.to = "shadow" THEN 0 ELSE gauge
      BY <2>14 DEF ClearGauge
    <3> QED BY <1>2, <3>1, <3>2, <3>3, <3>4 DEF SectionInv, Exclusive, ReadInv, RowInv, PollSection
  <2>15. CASE ReadFails \/ PollWriteFails \/ MarkDegradedFails
    <3>1. /\ faults' # 0 /\ UNCHANGED <<tasks, mode>>
          /\ (ppc' = ppc /\ prior' \in {prior, NoRow}) \/ ppc' = "idle"
          /\ wpc' = wpc \/ (wpc # "idle" /\ ppc' = ppc)
      BY <2>0, <2>15 DEF ReadFails, PollWriteFails, MarkDegradedFails, Fault, EndsPoll
    <3> QED BY <1>2, <3>1 DEF SectionInv, Exclusive, ReadInv, RowInv, PollSection, Marked, Running
  <2>16. CASE CrashRestart
    <3>1. \A t \in Tasks : ~Marked(t)'
      BY <2>16 DEF CrashRestart, Marked, Running
    <3>2. gauge' = Absent /\ ppc' = "idle" /\ wpc' = "idle"
      BY <2>16 DEF CrashRestart, EndsPoll
    <3> QED BY <3>1, <3>2 DEF SectionInv, Exclusive, ReadInv, RowInv, PollSection
  <2>17. CASE UNCHANGED vars
    BY <2>17, SectionFrame DEF vars
  <2> QED
    BY <2>1, <2>2, <2>3, <2>4, <2>5, <2>6, <2>7, <2>8, <2>9, <2>10, <2>11, <2>12,
       <2>13, <2>14, <2>15, <2>16, <2>17
       DEF Next, Poll, GiveUp, Resync
<1> QED BY <1>1, <1>2

LEMMA SectionInvHolds == Safety => []SectionInv
<1>1. Init => SectionInv
  BY DEF Init, SectionInv, Exclusive, ReadInv, RowInv, PollSection, Marked, Running, Backends
<1> QED BY <1>1, SectionStep, TypeInvHolds, PTL DEF Safety

(* The gauge agrees with the row outside the sections that change both, as  *)
(* long as no upsert fails: a restarted process shows no gauge at first.    *)
THEOREM GaugeFollowsRow ==
  ASSUME ~Parallel
  PROVE  Safety => []GaugeAgrees
<1>1. SectionInv => GaugeAgrees
  BY DEF SectionInv, ReadInv, RowInv, GaugeAgrees, InSection, Marked
<1> QED BY <1>1, SectionInvHolds, PTL

(* poll_once "preserves degraded state": without a second thread only a     *)
(* completed resync ends it, or a poll whose own SELECT of the row failed.  *)
THEOREM OneThreadPreservesDegraded ==
  ASSUME ~Parallel
  PROVE  Safety => OnlyResyncRevives
<1> DEFINE Step ==
      mode["shadow"] = "degraded" /\ mode'["shadow"] # "degraded" =>
        \/ ppc = "readShadow" /\ prior = NoRow
        \/ \E t \in Tasks : /\ t.to = "shadow" /\ t.phase = "loaded"
                           /\ Running(t) /\ tasks'[t] = tasks[t] - 1
<1>1. TypeInv /\ SectionInv /\ [Next]_vars => [Step]_vars
  <2> SUFFICES ASSUME TypeInv, SectionInv, Next, ~(ppc = "readShadow" /\ prior = NoRow),
                      mode["shadow"] = "degraded", mode'["shadow"] # "degraded"
               PROVE  \E t \in Tasks : /\ t.to = "shadow" /\ t.phase = "loaded"
                                       /\ Running(t) /\ tasks'[t] = tasks[t] - 1
    OBVIOUS
  <2> USE DEF backendVars, rowVars, pollVars, ghostVars, boundVars
  <2>0. mode \in [Backends -> Modes] /\ "shadow" \in Backends
    BY DEF TypeInv, Backends
  <2>1. ASSUME NEW t \in Tasks, MarkLive(t)
        PROVE  t.to = "shadow" /\ t.phase = "loaded" /\ Running(t) /\ tasks'[t] = tasks[t] - 1
    <3>1. t.to = "shadow"
      BY <2>0, <2>1 DEF MarkLive
    <3>2. t.phase = "loaded" /\ Running(t)
      BY <2>1 DEF MarkLive
    <3> QED BY <2>1, <3>1, <3>2, MarkedMoves DEF MarkLive, Phases
  <2>2. ~WriteShadow /\ ~WritePrimary /\ ~MarkDegraded
    BY <2>0 DEF WriteShadow, WritePrimary, MarkDegraded, Records, SectionInv, ReadInv, RowInv
  <2>3. ASSUME NEW b \in Backends, Tick(b) \/ BackendRestarts(b)
        PROVE  FALSE
    BY <2>3 DEF Tick, BackendRestarts
  <2>4. ~FetchPrimary /\ ~FetchShadow /\ ~ReadPrimary /\ ~SkipPrimary /\ ~SpawnPrimary /\ ~SpawnShadow
    BY DEF FetchPrimary, FetchShadow, ReadPrimary, SkipPrimary, SpawnPrimary, SpawnShadow
  <2>5. ~MoveToFailed /\ ~RaiseGauge /\ ~CrashRestart
    BY DEF MoveToFailed, RaiseGauge, CrashRestart
  <2>6. ~ReadFails /\ ~PollWriteFails /\ ~MarkDegradedFails
    BY DEF ReadFails, PollWriteFails, MarkDegradedFails, Fault
  <2>7. ASSUME NEW t \in Tasks,
               \/ TakeSnapshot(t) \/ LoadSnapshot(t) \/ ClearGauge(t)
               \/ ResyncFails(t) \/ MarkLiveFails(t)
        PROVE  FALSE
    BY <2>7 DEF TakeSnapshot, LoadSnapshot, ClearGauge, ResyncFails, MarkLiveFails
  <2> QED
    BY <2>1, <2>2, <2>3, <2>4, <2>5, <2>6, <2>7 DEF Next, Poll, GiveUp, Resync
<1> QED BY <1>1, TypeInvHolds, SectionInvHolds, PTL DEF Safety, OnlyResyncRevives
=============================================================================
