------------------------------- MODULE ReadDiff -------------------------------
(***************************************************************************)
(* The read path of the diffsplitter: a handler forwards a read to the     *)
(* primary and answers its client; a sampled read goes on in a task of its *)
(* own (diff_read), which asks the shadow, compares, counts and records a  *)
(* divergence, and alerts if it is critical (proxy.rs, alerting.rs, the    *)
(* diffs table of db.rs).  The tasks of all reads run interleaved.         *)
(*                                                                         *)
(* The state of the shadow is another component's (BackendHealth): here it *)
(* changes at any time.                                                    *)
(***************************************************************************)
EXTENDS Comparator, Sequences, FiniteSets

CONSTANTS
    Reads,       \* the GETs clients send
    PathOf,      \* PathOf[r]: the path of r
    Responses,   \* what the backends may answer
    Notifiers,   \* the configured notifiers, LogNotifier among them
    MaxFlips,    \* bound: changes of the shadow's state
    MaxCrashes,  \* bound: crashes of the proxy process
    MaxFaults    \* bound: database calls that return an error

\* splits: byte diff_body_max_bytes of the body falls inside a character.
ASSUME ReadAssumption ==
    /\ PathOf \in [Reads -> Paths]
    /\ \A x \in Responses : x.status \in Nat /\ x.json \in BOOLEAN /\ x.splits \in BOOLEAN
    /\ Notifiers # {}
    /\ MaxFlips \in Nat /\ MaxCrashes \in Nat /\ MaxFaults \in Nat

VARIABLES
    mode,      \* backend_state.state of the shadow
    step,      \* where the handler or the task of each read is
    answers,   \* answers[r]: the responses r has got
    diffs,     \* the diffs table: a row's id is its place
    diffId,    \* diff_id in r's task, 0 before
    pending,   \* pending[r]: notifiers fire has not heard from
    total,     \* DIFF_TOTAL, by severity
    (* observation only *)
    reached,   \* reached[n][r]: alerts about r that arrived at n
    tried,     \* tried[r]: notifiers called about r
    found,     \* reads found to diverge
    sawLive,   \* reads during whose task the shadow was not degraded
    base,      \* rows recorded before this process started
    flips, crashes, faults

taskVars == <<step, answers, diffId, pending>>
ghostVars == <<reached, tried, found, sawLive, base>>
boundVars == <<flips, crashes, faults>>
vars == <<mode, taskVars, diffs, total, ghostVars, boundVars>>

DiffRows == [read : Reads, severity : Severities, notified : BOOLEAN]
Steps == {"new", "calling", "spawned", "asking", "counted", "recorded", "firing", "done"}
TaskSteps == {"spawned", "asking", "counted", "recorded", "firing"}
Nothing == [status |-> 0]
NoAnswers == [primary |-> Nothing, shadow |-> Nothing]
Answered == [primary : Responses \cup {Nothing}, shadow : Responses \cup {Nothing}]

Init ==
    /\ mode = "seeded"
    /\ step = [r \in Reads |-> "new"]
    /\ answers = [r \in Reads |-> NoAnswers]
    /\ diffs = <<>>
    /\ diffId = [r \in Reads |-> 0]
    /\ pending = [r \in Reads |-> {}]
    /\ total = [s \in Severities |-> 0]
    /\ reached = [n \in Notifiers |-> [r \in Reads |-> 0]]
    /\ tried = [r \in Reads |-> {}]
    /\ found = {} /\ sawLive = {} /\ base = 0
    /\ flips = 0 /\ crashes = 0 /\ faults = 0

At(r, s) == step[r] = s
GoesTo(r, s) == step' = [step EXCEPT ![r] = s]

\* The handler or the task is over, and what it held with it.
Ends(r) ==
    /\ GoesTo(r, "done")
    /\ answers' = [answers EXCEPT ![r] = NoAnswers]
    /\ diffId' = [diffId EXCEPT ![r] = 0]
    /\ pending' = [pending EXCEPT ![r] = {}]

Fault == faults < MaxFaults /\ faults' = faults + 1

-----------------------------------------------------------------------------
(* The handler: proxy_handler for a request of class Read. *)

Receive(r) ==
    /\ At(r, "new")
    /\ GoesTo(r, "calling")
    /\ UNCHANGED <<mode, answers, diffId, pending, diffs, total, ghostVars, boundVars>>

\* The primary answered, whatever the status, and the read is sampled.
Sample(r, x) ==
    /\ At(r, "calling")
    /\ GoesTo(r, "spawned")
    /\ answers' = [answers EXCEPT ![r].primary = x]
    /\ sawLive' = IF mode = "degraded" THEN sawLive ELSE sawLive \cup {r}
    /\ UNCHANGED <<mode, diffId, pending, diffs, total, reached, tried, found, base, boundVars>>

\* The primary failed, the client left, or the read is not sampled.
NoSample(r) ==
    /\ At(r, "calling")
    /\ Ends(r)
    /\ UNCHANGED <<mode, diffs, total, ghostVars, boundVars>>

-----------------------------------------------------------------------------
(* The task: diff_read. *)

\* Fault: sampling is never paused.
CheckDegraded_Never(r) ==
    /\ At(r, "spawned")
    /\ GoesTo(r, "asking")
    /\ UNCHANGED <<mode, answers, diffId, pending, diffs, total, ghostVars, boundVars>>

\* K13: a degraded shadow is not read.
CheckDegraded(r) ==
    /\ At(r, "spawned")
    /\ IF mode = "degraded"
         THEN Ends(r)
         ELSE GoesTo(r, "asking") /\ UNCHANGED <<answers, diffId, pending>>
    /\ UNCHANGED <<mode, diffs, total, ghostVars, boundVars>>

\* get_backend_state turns an error into "no row", which is not degraded.
CheckFails(r) ==
    /\ At(r, "spawned")
    /\ Fault
    /\ GoesTo(r, "asking")
    /\ UNCHANGED <<mode, answers, diffId, pending, diffs, total, ghostVars, flips, crashes>>

Agrees(r, x) ==
    /\ At(r, "asking")
    /\ ~Compare(PathOf[r], answers[r].primary, x).diverged
    /\ Ends(r)
    /\ UNCHANGED <<mode, diffs, total, ghostVars, boundVars>>

Outcome(r) == Compare(PathOf[r], answers[r].primary, answers[r].shadow)

\* Fault: the divergence is not counted.
Diverges_NotCounted(r, x) ==
    /\ At(r, "asking")
    /\ Compare(PathOf[r], answers[r].primary, x).diverged
    /\ found' = found \cup {r}
    /\ IF answers[r].primary.splits \/ x.splits
         THEN Ends(r)
         ELSE /\ GoesTo(r, "counted")
              /\ answers' = [answers EXCEPT ![r].shadow = x]
              /\ UNCHANGED <<diffId, pending>>
    /\ UNCHANGED <<mode, diffs, total, reached, tried, sawLive, base, boundVars>>

\* The divergence is counted, then both bodies are truncated: a slice inside
\* a character panics, which ends the task.
Diverges(r, x) ==
    LET outcome == Compare(PathOf[r], answers[r].primary, x)
    IN  /\ At(r, "asking")
        /\ outcome.diverged
        /\ total' = [total EXCEPT ![outcome.severity] = @ + 1]
        /\ found' = found \cup {r}
        /\ IF answers[r].primary.splits \/ x.splits
             THEN Ends(r)
             ELSE /\ GoesTo(r, "counted")
                  /\ answers' = [answers EXCEPT ![r].shadow = x]
                  /\ UNCHANGED <<diffId, pending>>
        /\ UNCHANGED <<mode, diffs, reached, tried, sawLive, base, boundVars>>

ShadowFails(r) ==
    /\ At(r, "asking")
    /\ Ends(r)
    /\ UNCHANGED <<mode, diffs, total, ghostVars, boundVars>>

Row(r) == [read |-> r, severity |-> Outcome(r).severity, notified |-> FALSE]

\* Fault: every divergence is alerted.
RecordDiff_AlertsAll(r) ==
    /\ At(r, "counted")
    /\ diffs' = Append(diffs, Row(r))
    /\ diffId' = [diffId EXCEPT ![r] = Len(diffs) + 1]
    /\ GoesTo(r, "recorded")
    /\ UNCHANGED <<answers, pending>>
    /\ UNCHANGED <<mode, total, ghostVars, boundVars>>

\* Fault: the sequence is read before the INSERT.
RecordDiff_StaleId(r) ==
    /\ At(r, "counted")
    /\ diffs' = Append(diffs, Row(r))
    /\ IF Outcome(r).severity = "critical"
         THEN /\ diffId' = [diffId EXCEPT ![r] = Len(diffs)]
              /\ GoesTo(r, "recorded")
              /\ UNCHANGED <<answers, pending>>
         ELSE Ends(r)
    /\ UNCHANGED <<mode, total, ghostVars, boundVars>>

\* record_diff: the INSERT and its rowid; only a critical diff is alerted.
RecordDiff(r) ==
    /\ At(r, "counted")
    /\ diffs' = Append(diffs, Row(r))
    /\ IF Outcome(r).severity = "critical"
         THEN /\ diffId' = [diffId EXCEPT ![r] = Len(diffs) + 1]
              /\ GoesTo(r, "recorded")
              /\ UNCHANGED <<answers, pending>>
         ELSE Ends(r)
    /\ UNCHANGED <<mode, total, ghostVars, boundVars>>

RecordFails(r) ==
    /\ At(r, "counted")
    /\ Fault
    /\ Ends(r)
    /\ UNCHANGED <<mode, diffs, total, ghostVars, flips, crashes>>

\* claim_for_notification: one conditional UPDATE; then fire, if it is ours.
Claim(r) ==
    /\ At(r, "recorded")
    /\ diffs' = [diffs EXCEPT ![diffId[r]].notified = TRUE]
    /\ IF diffs[diffId[r]].notified
         THEN Ends(r)
         ELSE /\ GoesTo(r, "firing")
              /\ pending' = [pending EXCEPT ![r] = Notifiers]
              /\ UNCHANGED <<answers, diffId>>
    /\ UNCHANGED <<mode, total, ghostVars, boundVars>>

ClaimFails(r) ==
    /\ At(r, "recorded")
    /\ Fault
    /\ Ends(r)
    /\ UNCHANGED <<mode, diffs, total, ghostVars, flips, crashes>>

\* The notifier is called; the alert arrives or not, and so does its answer.
Called(r, n, arrives) ==
    /\ At(r, "firing")
    /\ n \in pending[r]
    /\ tried' = [tried EXCEPT ![r] = @ \cup {n}]
    /\ reached' = IF arrives THEN [reached EXCEPT ![n][r] = @ + 1] ELSE reached

\* Fault: the first error ends the fan-out.
Notify_StopsAtError(r, n, arrives, ok) ==
    /\ Called(r, n, arrives)
    /\ IF ~ok \/ pending[r] = {n}
         THEN Ends(r)
         ELSE /\ pending' = [pending EXCEPT ![r] = @ \ {n}]
              /\ UNCHANGED <<step, answers, diffId>>
    /\ UNCHANGED <<mode, diffs, total, found, sawLive, base, boundVars>>

\* Fault: a notifier that reports an error is called again.
Notify_Retries(r, n, arrives, ok) ==
    /\ Called(r, n, arrives)
    /\ IF ok /\ pending[r] = {n}
         THEN Ends(r)
         ELSE /\ pending' = [pending EXCEPT ![r] = IF ok THEN @ \ {n} ELSE @]
              /\ UNCHANGED <<step, answers, diffId>>
    /\ UNCHANGED <<mode, diffs, total, found, sawLive, base, boundVars>>

\* fire: the notifiers run concurrently, an error of one is only logged.
Notify(r, n, arrives, ok) ==
    /\ Called(r, n, arrives)
    /\ IF pending[r] = {n}
         THEN Ends(r)
         ELSE /\ pending' = [pending EXCEPT ![r] = @ \ {n}]
              /\ UNCHANGED <<step, answers, diffId>>
    /\ UNCHANGED <<mode, diffs, total, found, sawLive, base, boundVars>>

-----------------------------------------------------------------------------
\* The worker degrades the shadow, a resync or a poll makes it live.
Flip ==
    /\ flips < MaxFlips
    /\ flips' = flips + 1
    /\ mode' = IF mode = "degraded" THEN "live" ELSE "degraded"
    /\ sawLive' = IF mode = "degraded"
                    THEN sawLive \cup {r \in Reads : step[r] \in TaskSteps}
                    ELSE sawLive
    /\ UNCHANGED <<taskVars, diffs, total, reached, tried, found, base, crashes, faults>>

\* The process stops and starts: handlers, tasks and counters are gone.
CrashRestart ==
    /\ crashes < MaxCrashes
    /\ crashes' = crashes + 1
    /\ step' = [r \in Reads |-> IF step[r] = "new" THEN "new" ELSE "done"]
    /\ answers' = [r \in Reads |-> NoAnswers]
    /\ diffId' = [r \in Reads |-> 0]
    /\ pending' = [r \in Reads |-> {}]
    /\ total' = [s \in Severities |-> 0]
    /\ base' = Len(diffs)
    /\ UNCHANGED <<mode, diffs, reached, tried, found, sawLive, flips, faults>>

Comparing(r) == \E x \in Responses : Agrees(r, x) \/ Diverges(r, x)

Alerting(r) ==
    \/ Claim(r) \/ ClaimFails(r)
    \/ \E n \in Notifiers, arrives \in BOOLEAN, ok \in BOOLEAN : Notify(r, n, arrives, ok)

Task(r) ==
    \/ CheckDegraded(r) \/ CheckFails(r) \/ Comparing(r) \/ ShadowFails(r)
    \/ RecordDiff(r) \/ RecordFails(r) \/ Alerting(r)

Handle(r) == Receive(r) \/ NoSample(r) \/ \E x \in Responses : Sample(r, x)

Next ==
    \/ \E r \in Reads : Handle(r) \/ Task(r)
    \/ Flip
    \/ CrashRestart

Safety == Init /\ [][Next]_vars

(* A spawned task is scheduled whenever it can run; the calls it awaits end *)
(* by their timeout (15s for the shadow, 10s for a notifier).               *)
Spec == Safety /\ \A r \in Reads : WF_vars(Task(r))
-----------------------------------------------------------------------------
(* Properties *)

Rows(s) == {i \in 1 .. Len(diffs) : diffs[i].severity = s}

(* Every variable keeps its type; a task that holds a rowid holds that of a *)
(* row (record_diff, db.rs).                                                *)
TypeOK ==
    /\ mode \in {"seeded", "live", "degraded"}
    /\ step \in [Reads -> Steps]
    /\ answers \in [Reads -> Answered]
    /\ diffs \in Seq(DiffRows)
    /\ diffId \in [Reads -> Nat]
    /\ \A r \in Reads : At(r, "recorded") \/ At(r, "firing") => diffId[r] \in 1 .. Len(diffs)
    /\ pending \in [Reads -> SUBSET Notifiers]
    /\ total \in [Severities -> Nat]
    /\ base \in 0 .. Len(diffs)

(* An alert is about the critical row its own task inserted, and that row   *)
(* is claimed before any notifier is called, with other reads recording and *)
(* claiming in between (proxy.rs: "from the row it just inserted").         *)
AlertNamesItsRow ==
    \A r \in Reads : At(r, "firing") =>
        diffs[diffId[r]] = [read |-> r, severity |-> "critical", notified |-> TRUE]

(* A restart or a failing notifier "cannot double-fire for the same diff"   *)
(* (alerting.rs): each notifier gets at most one alert about a read.        *)
AlertsAtMostOnce == \A n \in Notifiers, r \in Reads : reached[n][r] <= 1

(* What /metrics counts covers what the table holds: in the life of one     *)
(* process no severity has more rows than counted divergences.              *)
CounterCoversRows ==
    \A s \in Severities : Cardinality({i \in Rows(s) : i > base}) <= total[s]

(* A read whose whole task ran while the shadow was degraded leaves no diff *)
(* (K13), unless the database would not say.                                *)
PausedWhileDegraded ==
    \A i \in 1 .. Len(diffs) : diffs[i].read \in sawLive \/ faults > 0

(* Which backend gave which answer makes no difference to the severity.     *)
NeitherSideFavoured ==
    \A r \in Reads : At(r, "counted") =>
        Outcome(r) = Compare(PathOf[r], answers[r].shadow, answers[r].primary)

(* "any divergence is recorded in the diffs table" (README), while the      *)
(* proxy keeps running and the database answers.                            *)
EveryDivergenceRecorded ==
    \A r \in found : At(r, "done") /\ crashes = 0 /\ faults = 0 =>
        \E i \in 1 .. Len(diffs) : diffs[i].read = r

(* A recorded critical diff has every notifier called, however the others   *)
(* fare, unless the process stops or the database fails.                    *)
EveryNotifierTried ==
    \A r \in Reads :
        At(r, "recorded") ~> (tried[r] = Notifiers \/ crashes > 0 \/ faults > 0)
=============================================================================
