---------------------------- MODULE BackendHealth ----------------------------
(***************************************************************************)
(* What the diffsplitter believes of its two backends and how it resyncs   *)
(* them (K8, K12, K13): the version poller and the resync tasks of         *)
(* worker.rs, the part of the replay worker that marks the shadow          *)
(* degraded, the rows of backend_state and the degraded gauge.             *)
(*                                                                         *)
(* A task runs without interruption between two awaits when the runtime    *)
(* has one thread; with several (Parallel) the other tasks' database calls *)
(* may fall between any two of its own.  What the resyncs do to the        *)
(* backends' data is Conformance's subject.                                *)
(***************************************************************************)
EXTENDS Integers

CONSTANTS
    Parallel,     \* the runtime has more than one thread
    MaxUptime,    \* bound: uptime a backend reports, in poll-sized units
    MaxRestarts,  \* bound: restarts of the two backends
    MaxAbandons,  \* bound: writes the worker gives up
    MaxFailures,  \* bound: resync tasks that fail
    MaxCrashes,   \* bound: crashes of the proxy process
    MaxFaults     \* bound: database calls that return an error

ASSUME HealthAssumption ==
    /\ Parallel \in BOOLEAN
    /\ MaxUptime \in Nat /\ MaxRestarts \in Nat /\ MaxAbandons \in Nat
    /\ MaxFailures \in Nat /\ MaxCrashes \in Nat /\ MaxFaults \in Nat

Backends == {"primary", "shadow"}

VARIABLES
    (* the backends *)
    uptime,     \* uptime[b]: process_uptime_seconds of the running process
    epoch,      \* epoch[b]: how often b has restarted
    (* backend_state, and the gauge that lives with the process *)
    recorded,   \* recorded[b]: last_observed_uptime_seconds
    mode,       \* mode[b]: state
    gauge,      \* SHADOW_DEGRADED{shadow}, or Absent until something sets it
    (* the poller *)
    ppc,        \* where poll_once is
    sample,     \* sample[b]: what /version answered in this poll
    prior,      \* the row read before the upsert
    (* the worker, once a write is given up *)
    wpc,
    (* the resync tasks, counted by what they have still to do *)
    tasks,
    (* observation only *)
    abandoned,  \* writes given up so far
    polled,     \* polled[b]: the sample of the last recorded poll
    failures,
    crashes,
    faults

backendVars == <<uptime, epoch>>
rowVars == <<recorded, mode>>
pollVars == <<ppc, sample, prior>>
ghostVars == <<abandoned, polled>>
boundVars == <<failures, crashes, faults>>
vars == <<backendVars, rowVars, gauge, pollVars, wpc, tasks, ghostVars, boundVars>>

Null == -2       \* SQL NULL, and a /version that gave no answer
Absent == -1     \* a gauge no task has set since the process started
Modes == {"seeded", "live", "degraded"}
PollStates ==
    {"idle", "asked", "answered", "readPrimary", "wrotePrimary", "readShadow", "wroteShadow"}
Answer == [uptime : {Null} \cup 0 .. MaxUptime, epoch : 0 .. MaxRestarts]
NoAnswer == [uptime |-> Null, epoch |-> 0]
NoAnswers == [b \in Backends |-> NoAnswer]
NoRow == [uptime |-> Null, mode |-> "none"]

\* A task waits for its snapshot, for its load, has had its load accepted, or
\* has written the row and not yet the gauge.
Phases == {"snapshot", "load", "loaded", "marked"}
Tasks == [to : Backends, phase : Phases]
Task(b, p) == [to |-> b, phase |-> p]
Running(t) == tasks[t] > 0
Moved(t, u) == [tasks EXCEPT ![t] = @ - 1, ![u] = @ + 1]
Ended(t) == [tasks EXCEPT ![t] = @ - 1]
Spawned(b) == [tasks EXCEPT ![Task(b, "snapshot")] = @ + 1]

\* Somebody is between two database calls with no await between them.
InSection ==
    \/ ppc \in {"readPrimary", "wrotePrimary", "readShadow", "wroteShadow"}
    \/ wpc # "idle"
    \/ \E t \in Tasks : t.phase = "marked" /\ Running(t)

\* A task that was awaiting something may be scheduled.
Scheduled == Parallel \/ ~InSection

Init ==
    /\ uptime = [b \in Backends |-> 0]
    /\ epoch = [b \in Backends |-> 0]
    /\ recorded = [b \in Backends |-> Null]
    /\ mode = [b \in Backends |-> "seeded"]
    /\ gauge = Absent
    /\ ppc = "idle"
    /\ sample = NoAnswers
    /\ prior = NoRow
    /\ wpc = "idle"
    /\ tasks = [t \in Tasks |-> 0]
    /\ abandoned = 0
    /\ polled = NoAnswers
    /\ failures = 0 /\ crashes = 0 /\ faults = 0

-----------------------------------------------------------------------------
(* The backends. *)

Tick(b) ==
    /\ uptime[b] < MaxUptime
    /\ uptime' = [uptime EXCEPT ![b] = @ + 1]
    /\ UNCHANGED <<epoch, rowVars, gauge, pollVars, wpc, tasks, ghostVars, boundVars>>

BackendRestarts(b) ==
    /\ epoch["primary"] + epoch["shadow"] < MaxRestarts
    /\ epoch' = [epoch EXCEPT ![b] = @ + 1]
    /\ uptime' = [uptime EXCEPT ![b] = 0]
    /\ UNCHANGED <<rowVars, gauge, pollVars, wpc, tasks, ghostVars, boundVars>>

-----------------------------------------------------------------------------
(* The poller: poll_once. *)

\* fetch_version: an answer, or an error of any kind.
Fetches(b) ==
    \/ sample' = [sample EXCEPT ![b] = [uptime |-> uptime[b], epoch |-> epoch[b]]]
    \/ sample' = [sample EXCEPT ![b] = NoAnswer]

FetchPrimary ==
    /\ Scheduled
    /\ ppc = "idle"
    /\ Fetches("primary")
    /\ ppc' = "asked"
    /\ UNCHANGED <<backendVars, rowVars, gauge, prior, wpc, tasks, ghostVars, boundVars>>

FetchShadow ==
    /\ Scheduled
    /\ ppc = "asked"
    /\ Fetches("shadow")
    /\ ppc' = "answered"
    /\ UNCHANGED <<backendVars, rowVars, gauge, prior, wpc, tasks, ghostVars, boundVars>>

Reads(b) == prior' = [uptime |-> recorded[b], mode |-> mode[b]]

ReadPrimary ==
    /\ Scheduled
    /\ ppc = "answered"
    /\ sample["primary"] # NoAnswer
    /\ Reads("primary")
    /\ ppc' = "readPrimary"
    /\ UNCHANGED <<backendVars, rowVars, gauge, sample, wpc, tasks, ghostVars, boundVars>>

\* Fault: the same uptime counts as a regression.
Regressed_OrEqual(b) == prior.uptime # Null /\ sample[b].uptime <= prior.uptime

\* prev_uptime is absent until something has been recorded.
Regressed(b) == prior.uptime # Null /\ sample[b].uptime < prior.uptime

\* The upsert of a poll's answer.
Records(b, m) ==
    /\ recorded' = [recorded EXCEPT ![b] = sample[b].uptime]
    /\ mode' = [mode EXCEPT ![b] = m]
    /\ polled' = [polled EXCEPT ![b] = sample[b]]

WritePrimary ==
    /\ ppc = "readPrimary"
    /\ Records("primary", "live")
    /\ ppc' = "wrotePrimary"
    /\ UNCHANGED <<backendVars, gauge, sample, prior, wpc, tasks, abandoned, boundVars>>

\* poll_once returns.
EndsPoll ==
    /\ ppc' = "idle"
    /\ sample' = NoAnswers
    /\ prior' = NoRow

\* It goes on to the shadow: it reads its row, if the shadow has answered.
GoesOn ==
    IF sample["shadow"] = NoAnswer
      THEN EndsPoll
      ELSE ppc' = "readShadow" /\ Reads("shadow") /\ UNCHANGED sample

SpawnIf(b) == tasks' = IF Regressed(b) THEN Spawned(b) ELSE tasks

SpawnPrimary ==
    /\ ppc = "wrotePrimary"
    /\ SpawnIf("primary")
    /\ GoesOn
    /\ UNCHANGED <<backendVars, rowVars, gauge, wpc, ghostVars, boundVars>>

\* The primary did not answer: its part of poll_once is skipped.
SkipPrimary ==
    /\ Scheduled
    /\ ppc = "answered"
    /\ sample["primary"] = NoAnswer
    /\ GoesOn
    /\ UNCHANGED <<backendVars, rowVars, gauge, wpc, tasks, ghostVars, boundVars>>

\* Fault: a shadow that answers is live.
WriteShadow_Live ==
    /\ ppc = "readShadow"
    /\ Records("shadow", "live")
    /\ ppc' = "wroteShadow"
    /\ UNCHANGED <<backendVars, gauge, sample, prior, wpc, tasks, abandoned, boundVars>>

\* Degraded is preserved, as far as the row read before tells.
WriteShadow ==
    /\ ppc = "readShadow"
    /\ Records("shadow", IF prior.mode = "degraded" THEN "degraded" ELSE "live")
    /\ ppc' = "wroteShadow"
    /\ UNCHANGED <<backendVars, gauge, sample, prior, wpc, tasks, abandoned, boundVars>>

SpawnShadow ==
    /\ ppc = "wroteShadow"
    /\ SpawnIf("shadow")
    /\ EndsPoll
    /\ UNCHANGED <<backendVars, rowVars, gauge, wpc, ghostVars, boundVars>>

-----------------------------------------------------------------------------
(* The worker: handle_attempt_failure, attempts exhausted. *)

MoveToFailed ==
    /\ Scheduled
    /\ wpc = "idle"
    /\ abandoned < MaxAbandons
    /\ abandoned' = abandoned + 1
    /\ wpc' = "moved"
    /\ UNCHANGED <<backendVars, rowVars, gauge, pollVars, tasks, polled, boundVars>>

\* Fault: the wrong row is marked.
MarkDegraded_Primary ==
    /\ wpc = "moved"
    /\ recorded' = [recorded EXCEPT !["primary"] = -1]
    /\ mode' = [mode EXCEPT !["primary"] = "degraded"]
    /\ wpc' = "marked"
    /\ UNCHANGED <<backendVars, gauge, pollVars, tasks, ghostVars, boundVars>>

\* The uptime on record gives way to -1.
MarkDegraded ==
    /\ wpc = "moved"
    /\ recorded' = [recorded EXCEPT !["shadow"] = -1]
    /\ mode' = [mode EXCEPT !["shadow"] = "degraded"]
    /\ wpc' = "marked"
    /\ UNCHANGED <<backendVars, gauge, pollVars, tasks, ghostVars, boundVars>>

\* Fault: no resync is started.
RaiseGauge_Only ==
    /\ wpc = "marked"
    /\ gauge' = 1
    /\ wpc' = "idle"
    /\ UNCHANGED <<backendVars, rowVars, pollVars, tasks, ghostVars, boundVars>>

\* The gauge, then the resync: both gone if the process stops.
RaiseGauge ==
    /\ wpc = "marked"
    /\ gauge' = 1
    /\ tasks' = Spawned("shadow")
    /\ wpc' = "idle"
    /\ UNCHANGED <<backendVars, rowVars, pollVars, ghostVars, boundVars>>

-----------------------------------------------------------------------------
(* The resync tasks: resync_from_peer. *)

\* The peer answers with its snapshot.
TakeSnapshot(t) ==
    /\ t.phase = "snapshot" /\ Running(t)
    /\ Scheduled
    /\ tasks' = Moved(t, Task(t.to, "load"))
    /\ UNCHANGED <<backendVars, rowVars, gauge, pollVars, wpc, ghostVars, boundVars>>

\* The recovering backend accepts the load.
LoadSnapshot(t) ==
    /\ t.phase = "load" /\ Running(t)
    /\ tasks' = Moved(t, Task(t.to, "loaded"))
    /\ UNCHANGED <<backendVars, rowVars, gauge, pollVars, wpc, ghostVars, boundVars>>

\* The load was accepted: the row goes back to live, with uptime 0.
MarkLive(t) ==
    /\ t.phase = "loaded" /\ Running(t)
    /\ Scheduled
    /\ recorded' = [recorded EXCEPT ![t.to] = 0]
    /\ mode' = [mode EXCEPT ![t.to] = "live"]
    /\ tasks' = Moved(t, Task(t.to, "marked"))
    /\ UNCHANGED <<backendVars, gauge, pollVars, wpc, ghostVars, boundVars>>

\* Fault: the gauge stays up.
ClearGauge_Forgotten(t) ==
    /\ t.phase = "marked" /\ Running(t)
    /\ tasks' = Ended(t)
    /\ UNCHANGED <<backendVars, rowVars, gauge, pollVars, wpc, ghostVars, boundVars>>

\* The gauge of the backend that was resynced goes down.
ClearGauge(t) ==
    /\ t.phase = "marked" /\ Running(t)
    /\ gauge' = IF t.to = "shadow" THEN 0 ELSE gauge
    /\ tasks' = Ended(t)
    /\ UNCHANGED <<backendVars, rowVars, pollVars, wpc, ghostVars, boundVars>>

\* A call fails, times out or is refused: the task ends with a log line.
ResyncFails(t) ==
    /\ t.phase \in {"snapshot", "load", "loaded"} /\ Running(t)
    /\ Scheduled
    /\ failures < MaxFailures
    /\ failures' = failures + 1
    /\ tasks' = Ended(t)
    /\ UNCHANGED <<backendVars, rowVars, gauge, pollVars, wpc, ghostVars, crashes, faults>>

-----------------------------------------------------------------------------
\* The process stops and starts: tasks and metrics are gone, rows are not.
CrashRestart ==
    /\ crashes < MaxCrashes
    /\ crashes' = crashes + 1
    /\ gauge' = Absent
    /\ EndsPoll
    /\ wpc' = "idle"
    /\ tasks' = [t \in Tasks |-> 0]
    /\ UNCHANGED <<backendVars, rowVars, ghostVars, failures, faults>>

(* Database errors. *)

Fault ==
    /\ faults < MaxFaults
    /\ faults' = faults + 1
    /\ UNCHANGED <<backendVars, ghostVars, failures, crashes>>

\* get_backend_state turns an error of the SELECT into "no row".
ReadFails ==
    /\ Fault
    /\ \/ ppc = "readPrimary" \/ ppc = "readShadow"
    /\ prior # NoRow
    /\ prior' = NoRow
    /\ UNCHANGED <<rowVars, gauge, ppc, sample, wpc, tasks>>

\* An error of the upsert ends poll_once.
PollWriteFails ==
    /\ Fault
    /\ ppc \in {"readPrimary", "readShadow"}
    /\ EndsPoll
    /\ UNCHANGED <<rowVars, gauge, wpc, tasks>>

\* move_to_failed is WriteReplay's; errors of the two upserts here are ignored.
MarkDegradedFails ==
    /\ Fault
    /\ wpc = "moved"
    /\ wpc' = "marked"
    /\ UNCHANGED <<rowVars, gauge, ppc, sample, prior, tasks>>

MarkLiveFails(t) ==
    /\ t.phase = "loaded" /\ Running(t)
    /\ Scheduled
    /\ Fault
    /\ tasks' = Moved(t, Task(t.to, "marked"))
    /\ UNCHANGED <<rowVars, gauge, ppc, sample, prior, wpc>>

Poll ==
    \/ FetchPrimary \/ FetchShadow
    \/ ReadPrimary \/ SkipPrimary \/ WritePrimary \/ SpawnPrimary
    \/ WriteShadow \/ SpawnShadow

GiveUp == MoveToFailed \/ MarkDegraded \/ RaiseGauge

Resync(t) == TakeSnapshot(t) \/ LoadSnapshot(t) \/ MarkLive(t) \/ ClearGauge(t)

Next ==
    \/ \E b \in Backends : Tick(b) \/ BackendRestarts(b)
    \/ Poll
    \/ GiveUp
    \/ \E t \in Tasks : Resync(t) \/ ResyncFails(t) \/ MarkLiveFails(t)
    \/ ReadFails \/ PollWriteFails \/ MarkDegradedFails
    \/ CrashRestart

Safety == Init /\ [][Next]_vars

(* Every task that becomes ready keeps its place in the run queue until it  *)
(* is scheduled, however often others run before it; a resync whose calls   *)
(* do not fail gets its answers within their timeout.                       *)
Spec ==
    /\ Safety
    /\ WF_vars(Poll)
    /\ WF_vars(MarkDegraded \/ RaiseGauge)
    /\ SF_vars(\E t \in Tasks : Resync(t))
-----------------------------------------------------------------------------
(* Properties *)

(* Every variable keeps its type. *)
TypeOK ==
    /\ uptime \in [Backends -> 0 .. MaxUptime] /\ epoch \in [Backends -> 0 .. MaxRestarts]
    /\ recorded \in [Backends -> {Null, -1} \cup 0 .. MaxUptime]
    /\ mode \in [Backends -> Modes] /\ mode["primary"] # "degraded"
    /\ gauge \in {Absent, 0, 1}
    /\ ppc \in PollStates /\ sample \in [Backends -> Answer]
    /\ prior \in [uptime : {Null, -1} \cup 0 .. MaxUptime, mode : Modes \cup {"none"}]
    /\ wpc \in {"idle", "moved", "marked"}
    /\ tasks \in [Tasks -> Nat]
    /\ abandoned \in 0 .. MaxAbandons
    /\ polled \in [Backends -> Answer]

(* A degraded shadow goes back to live only when a resync of it completes:  *)
(* the poller preserves degraded (comment in poll_once), unless this very   *)
(* poll's SELECT of the row has failed.  No other error revives it.         *)
OnlyResyncRevives ==
    [][mode["shadow"] = "degraded" /\ mode'["shadow"] # "degraded" =>
         \/ ppc = "readShadow" /\ prior = NoRow
         \/ \E t \in Tasks : /\ t.to = "shadow" /\ t.phase = "loaded"
                            /\ Running(t) /\ tasks'[t] = tasks[t] - 1]_vars

\* A poll's answer for b goes into b's row.
Recording(b) ==
    \/ b = "primary" /\ ppc = "readPrimary" /\ ppc' = "wrotePrimary"
    \/ b = "shadow" /\ ppc = "readShadow" /\ ppc' = "wroteShadow"

(* The poller overwrites a backend's data only if that backend restarted    *)
(* since the last poll it recorded.                                         *)
NoNeedlessResync ==
    [][\A b \in Backends :
         Recording(b) /\ Regressed(b) => sample[b].epoch # polled[b].epoch]_vars

(* "On uptime regression" between two recorded polls the backend is         *)
(* resynced (README).                                                       *)
RegressionNoticed ==
    [][\A b \in Backends :
         Recording(b) /\ sample[b].uptime < polled[b].uptime => Regressed(b)]_vars

(* "1 if the shadow is in degraded mode" (metrics.rs), between the sections  *)
(* that change both.  A restarted process shows no gauge, whatever the row  *)
(* says, until a task sets it, and then it agrees again.  An upsert that    *)
(* fails sets the two apart for good.                                       *)
GaugeAgrees ==
    faults = 0 =>
      InSection \/ gauge = Absent \/ (gauge = 1 <=> mode["shadow"] = "degraded")

\* Something under way ends in a resync of the shadow.
Healing ==
    \/ wpc # "idle"
    \/ \E t \in Tasks : t.to = "shadow" /\ t.phase # "marked" /\ Running(t)

(* A degraded shadow becomes live again once a resync of it is due, however *)
(* many resyncs failed before, unless this one fails or is lost as well: a  *)
(* failed one is not retried, the next give-up or noticed restart heals.    *)
(* What degrades the shadow makes a resync due.                             *)
Mishaps == failures + crashes + faults
DegradedHeals ==
    \A n \in 0 .. MaxFailures + MaxCrashes + MaxFaults :
      (mode["shadow"] = "degraded" /\ (Mishaps = 0 \/ Healing) /\ Mishaps = n)
        ~> (mode["shadow"] # "degraded" \/ Mishaps > n)
=============================================================================
