----------------------------- MODULE Conformance -----------------------------
(***************************************************************************)
(* What the diffsplitter does to the data of its backends, and what its    *)
(* sampled reads then say of them: WriteReplay's handlers, queue and       *)
(* worker, composed with what each backend holds, with restarts that lose  *)
(* it, with the resyncs of worker.rs that replace it, and with the reads   *)
(* of proxy.rs that compare it.                                            *)
(*                                                                         *)
(* The two backends are THE SAME program: they take or refuse a write by   *)
(* the same rule, and answer a read from the log of what they hold.  So    *)
(* every divergence a read finds here is of the diffsplitter's own making. *)
(***************************************************************************)
EXTENDS WriteReplay, Sequences

CONSTANTS
    Reads,        \* sampled reads
    Needs,        \* Needs[r]: writes a backend must hold to take r
    MaxMishaps    \* bound: calls that fail, restarts of the backends and of the proxy

ASSUME ConformanceAssumption ==
    /\ Needs \in [Requests -> SUBSET Requests]
    /\ MaxMishaps \in Nat

Backends == {"primary", "shadow"}
Peer(b) == IF b = "primary" THEN "shadow" ELSE "primary"

VARIABLES
    (* the backends *)
    invalid,      \* writes neither backend takes
    data,         \* data[b]: the writes b has executed, as far as it holds them
    lost,         \* backends that restarted and that no poll has asked since
    (* backend_state, and the resync tasks *)
    degraded,     \* the shadow's row says degraded
    resyncs,      \* the tasks, in the order they were spawned, those over included
    (* diff_read *)
    read,         \* where the task of each read is
    seen,         \* seen[q]: the primary's answer to q
    (* observation only *)
    inStep,       \* nothing has set the backends apart since they last agreed
    quiet,        \* reads under way since when nothing was or became pending
    shared,       \* writes both backends have held at one time
    restarted,    \* backends that have restarted at least once
    mishaps

backendVars == <<invalid, data, lost>>
resyncVars == <<degraded, resyncs>>
readVars == <<read, seen>>
watchVars == <<inStep, quiet, shared, restarted, mishaps>>
systemVars == <<vars, backendVars, resyncVars, readVars, watchVars>>

ReadSteps == {"new", "checking", "asking", "agreed", "diverged", "dropped"}
Phases == {"snapshot", "load", "loaded", "orphan", "over"}

Resync == [to : Backends, phase : Phases, holds : Seq(Requests), clean : BOOLEAN]

Holds(b) == {data[b][i] : i \in DOMAIN data[b]}
Accepts(b, r) == r \notin invalid /\ Needs[r] \subseteq Holds(b)

\* No write is on its way to either backend.
Settled ==
    /\ \A r \in Requests : handler[r] \in {"new", "responded", "cut"} /\ late[r] = 0
    /\ toPrimary = {} /\ queue = {} /\ wpc = "idle"

SystemInit ==
    /\ Init
    /\ invalid \in SUBSET Requests
    /\ data = [b \in Backends |-> <<>>]
    /\ lost = {}
    /\ degraded = FALSE /\ resyncs = <<>>
    /\ read = [q \in Reads |-> "new"]
    /\ seen = [q \in Reads |-> <<>>]
    /\ inStep = TRUE /\ quiet = {} /\ shared = {}
    /\ restarted = {} /\ mishaps = 0

-----------------------------------------------------------------------------
(* What a step means for the observation. *)

\* The backends may be set apart, and reads under way see it.
SetsApart ==
    /\ inStep' = FALSE
    /\ quiet' = {}

Mishap ==
    /\ mishaps < MaxMishaps
    /\ mishaps' = mishaps + 1

\* What happens now may come across the resyncs under way.
Unclean == [i \in DOMAIN resyncs |-> [resyncs[i] EXCEPT !.clean = FALSE]]

\* b executes r on what it holds.
Executes(b, r) ==
    /\ data' = [data EXCEPT ![b] = Append(@, r)]
    /\ shared' = IF r \in Holds(Peer(b)) THEN shared \cup {r} ELSE shared

-----------------------------------------------------------------------------
(* The write path. *)

\* Nothing but the write path moves.
Elsewhere == UNCHANGED <<backendVars, resyncVars, readVars, watchVars>>

\* A client's write begins: something is pending from here on.
ClientWrites(r) ==
    /\ Receive(r)
    /\ quiet' = {}
    /\ resyncs' = Unclean
    /\ UNCHANGED <<backendVars, degraded, readVars, inStep, shared, restarted, mishaps>>

PrimaryExecutes(r) ==
    /\ PrimaryApplies(r)
    /\ Accepts("primary", r)
    /\ Executes("primary", r)
    /\ UNCHANGED <<invalid, lost, resyncVars, readVars, inStep, quiet, restarted, mishaps>>

PrimaryTurnsDown(r) ==
    /\ PrimaryRefuses(r)
    /\ ~Accepts("primary", r)
    /\ Elsewhere

ShadowExecutes ==
    /\ ShadowApplies
    /\ Accepts("shadow", wreq)
    /\ Executes("shadow", wreq)
    /\ UNCHANGED <<invalid, lost, resyncVars, readVars, inStep, quiet, restarted, mishaps>>

ShadowTurnsDown ==
    /\ ShadowRefuses
    /\ ~Accepts("shadow", wreq)
    /\ Elsewhere

CopyArrivesLate(r) ==
    /\ LateDelivery(r)
    /\ Accepts("shadow", r)
    /\ Executes("shadow", r)
    /\ UNCHANGED <<invalid, lost, resyncVars, readVars, inStep, quiet, restarted, mishaps>>

\* The steps that neither lose track of a write nor touch a backend.
KeepsTrack ==
    /\ \/ \E r \in Requests :
            PrimaryConfirms(r) \/ Stamp(r) \/ Enqueue(r) \/ BackoffElapses(r)
       \/ Polling \/ ReplyArrives
       \/ MarkSucceeded \/ MarkFailedAttempt \/ MarkFailedAttemptFails
       \/ InsertFailed \/ DeleteMoved \/ MoveFails
    /\ Elsewhere

\* The steps after which a write may be missing at a backend, or be executed
\* once more.
LosesTrack ==
    /\ \/ \E r \in Requests : PrimaryFails(r) \/ Disconnect(r) \/ EnqueueFails(r)
       \/ SendFails \/ MarkSucceededFails
    /\ Mishap
    /\ SetsApart
    /\ resyncs' = Unclean
    /\ UNCHANGED <<backendVars, degraded, readVars, shared, restarted>>

-----------------------------------------------------------------------------
(* Resyncs. *)

Spawned(b) == [to |-> b, phase |-> "snapshot", holds |-> <<>>, clean |-> FALSE]

\* Fault: the backends are taken for each other.
GivesUp_ResyncsPrimary ==
    /\ \/ Degrade /\ degraded' = TRUE
       \/ DegradeFails /\ UNCHANGED degraded
    /\ resyncs' = Append(Unclean, Spawned("primary"))
    /\ SetsApart
    /\ UNCHANGED <<backendVars, readVars, shared, restarted, mishaps>>

\* A write is given up: the shadow is marked degraded, which may fail, and a
\* resync is started all the same.
GivesUp ==
    /\ \/ Degrade /\ degraded' = TRUE
       \/ DegradeFails /\ UNCHANGED degraded
    /\ resyncs' = Append(Unclean, Spawned("shadow"))
    /\ SetsApart
    /\ UNCHANGED <<backendVars, readVars, shared, restarted, mishaps>>

\* A backend keeps its data in memory.
BackendRestarts(b) ==
    /\ Mishap
    /\ restarted' = restarted \cup {b}
    /\ data' = [data EXCEPT ![b] = <<>>]
    /\ lost' = lost \cup {b}
    /\ resyncs' = Unclean
    /\ SetsApart
    /\ UNCHANGED <<vars, invalid, degraded, readVars, shared>>

\* Fault: the poller resyncs the peer of the backend that restarted.
PollsRestarted_Swapped(b) ==
    /\ b \in lost
    /\ lost' = lost \ {b}
    /\ resyncs' = Append(resyncs, Spawned(Peer(b)))
    /\ UNCHANGED <<vars, invalid, data, degraded, readVars, watchVars>>

\* The poller notices that b has restarted, or overlooks it: the uptime on
\* record may not tell (BackendHealth!RegressionNoticed).
PollsRestarted(b) ==
    /\ b \in lost
    /\ lost' = lost \ {b}
    /\ resyncs' \in {resyncs, Append(resyncs, Spawned(b))}
    /\ UNCHANGED <<vars, invalid, data, degraded, readVars, watchVars>>

Over(b) == [to |-> b, phase |-> "over", holds |-> <<>>, clean |-> FALSE]

\* A snapshot that what is pending, or another resync, cannot have come across.
Undisturbed(i) ==
    Settled /\ \A k \in DOMAIN resyncs : k = i \/ resyncs[k].phase = "over"

\* Fault: the recovering backend itself is asked.
TakeSnapshot_OfTarget(i) ==
    /\ resyncs[i].phase = "snapshot"
    /\ resyncs' = [resyncs EXCEPT ![i].phase = "load",
                                  ![i].holds = data[resyncs[i].to],
                                  ![i].clean = Undisturbed(i)]
    /\ UNCHANGED <<vars, backendVars, degraded, readVars, watchVars>>

\* The peer answers with what it holds, whatever has become of it.
TakeSnapshot(i) ==
    /\ resyncs[i].phase = "snapshot"
    /\ resyncs' = [resyncs EXCEPT ![i].phase = "load",
                                  ![i].holds = data[Peer(resyncs[i].to)],
                                  ![i].clean = Undisturbed(i)]
    /\ UNCHANGED <<vars, backendVars, degraded, readVars, watchVars>>

\* The backend replaces what it holds by the snapshot.
Loads(i) ==
    /\ data' = [data EXCEPT ![resyncs[i].to] = resyncs[i].holds]
    /\ shared' = shared \cup {r \in Holds(Peer(resyncs[i].to)) :
                               \E k \in DOMAIN resyncs[i].holds : resyncs[i].holds[k] = r}
    /\ SetsApart
    /\ UNCHANGED <<vars, invalid, lost, degraded, readVars, restarted, mishaps>>

LoadSnapshot(i) ==
    /\ resyncs[i].phase = "load"
    /\ Loads(i)
    /\ resyncs' = [Unclean EXCEPT ![i] = [resyncs[i] EXCEPT !.phase = "loaded"]]

\* Marked live; a resync nothing came across has set things right.
CompleteResync(i) ==
    /\ resyncs[i].phase = "loaded"
    /\ degraded' = (degraded /\ resyncs[i].to # "shadow")
    /\ inStep' = (inStep \/ resyncs[i].clean)
    /\ resyncs' = [resyncs EXCEPT ![i] = Over(resyncs[i].to)]
    /\ UNCHANGED <<vars, backendVars, readVars, quiet, shared, restarted, mishaps>>

\* A call fails or times out; its load may be executed all the same.
ResyncFails(i) ==
    /\ resyncs[i].phase \in {"snapshot", "load", "loaded"}
    /\ Mishap
    /\ resyncs' = [resyncs EXCEPT ![i] = IF @.phase = "load"
                                           THEN [@ EXCEPT !.phase = "orphan"]
                                           ELSE Over(@.to)]
    /\ UNCHANGED <<vars, backendVars, degraded, readVars, inStep, quiet, shared, restarted>>

LateLoad(i) ==
    /\ resyncs[i].phase = "orphan"
    /\ Loads(i)
    /\ resyncs' = [Unclean EXCEPT ![i] = Over(resyncs[i].to)]

-----------------------------------------------------------------------------
(* Sampled reads. *)

PrimaryAnswers(q) ==
    /\ read[q] = "new"
    /\ read' = [read EXCEPT ![q] = "checking"]
    /\ seen' = [seen EXCEPT ![q] = data["primary"]]
    /\ quiet' = IF inStep /\ Settled THEN quiet \cup {q} ELSE quiet
    /\ UNCHANGED <<vars, backendVars, resyncVars, inStep, shared, restarted, mishaps>>

CheckDegraded(q) ==
    /\ read[q] = "checking"
    /\ read' = [read EXCEPT ![q] = IF degraded THEN "dropped" ELSE "asking"]
    /\ UNCHANGED <<vars, backendVars, resyncVars, seen, watchVars>>

\* The shadow answers from what it holds now.
Compares(q) ==
    /\ read[q] = "asking"
    /\ read' = [read EXCEPT ![q] = IF data["shadow"] = seen[q] THEN "agreed" ELSE "diverged"]
    /\ UNCHANGED <<vars, backendVars, resyncVars, seen, watchVars>>

ReadFails(q) ==
    /\ read[q] = "asking"
    /\ read' = [read EXCEPT ![q] = "dropped"]
    /\ UNCHANGED <<vars, backendVars, resyncVars, seen, watchVars>>

-----------------------------------------------------------------------------
\* The proxy stops: its tasks are gone, the calls they made may still arrive.
ProxyCrashes ==
    /\ CrashRestart
    /\ Mishap
    /\ SetsApart
    /\ resyncs' = [i \in DOMAIN resyncs |->
                     IF resyncs[i].phase \in {"load", "orphan"}
                       THEN [resyncs[i] EXCEPT !.phase = "orphan", !.clean = FALSE]
                       ELSE Over(resyncs[i].to)]
    /\ read' = [q \in Reads |-> IF read[q] \in {"checking", "asking"} THEN "dropped" ELSE read[q]]
    /\ UNCHANGED <<backendVars, degraded, seen, shared, restarted>>

Writing ==
    \/ \E r \in Requests :
         ClientWrites(r) \/ PrimaryExecutes(r) \/ PrimaryTurnsDown(r) \/ CopyArrivesLate(r)
    \/ ShadowExecutes \/ ShadowTurnsDown
    \/ KeepsTrack \/ LosesTrack \/ GivesUp

Resyncing ==
    \/ \E b \in Backends : BackendRestarts(b) \/ PollsRestarted(b)
    \/ \E i \in DOMAIN resyncs :
         TakeSnapshot(i) \/ LoadSnapshot(i) \/ CompleteResync(i) \/ ResyncFails(i) \/ LateLoad(i)

Reading ==
    \E q \in Reads : PrimaryAnswers(q) \/ CheckDegraded(q) \/ Compares(q) \/ ReadFails(q)

SystemNext == Writing \/ Resyncing \/ Reading \/ ProxyCrashes

SystemSafety == SystemInit /\ [][SystemNext]_systemVars

Working == Polling \/ ReplyArrives \/ MarkSucceeded \/ MarkFailedAttempt \/ InsertFailed \/ DeleteMoved

(***************************************************************************)
(* WriteReplay's fairness of the worker and of backoffs; and the shadow    *)
(* answers, since the calls that fail are bounded here.                    *)
(***************************************************************************)
SystemSpec ==
    /\ SystemSafety
    /\ WF_systemVars(Working /\ Elsewhere) /\ WF_systemVars(GivesUp)
    /\ WF_systemVars(ShadowExecutes \/ ShadowTurnsDown)
    /\ \A r \in Requests : WF_systemVars(BackoffElapses(r) /\ Elsewhere)
-----------------------------------------------------------------------------
(* Properties *)

(* Every variable keeps its type, and the primary is resynced only after it *)
(* has restarted.                                                           *)
DataTypeOK ==
    /\ invalid \subseteq Requests
    /\ lost \subseteq restarted /\ restarted \subseteq Backends
    /\ data \in [Backends -> Seq(Requests)]
    /\ degraded \in BOOLEAN /\ inStep \in BOOLEAN
    /\ resyncs \in Seq(Resync)
    /\ (\E i \in DOMAIN resyncs : resyncs[i].to = "primary") => "primary" \in restarted
    /\ read \in [Reads -> ReadSteps] /\ seen \in [Reads -> Seq(Requests)]
    /\ quiet \subseteq Reads /\ shared \subseteq Requests
    /\ mishaps \in 0 .. MaxMishaps

(* Every write waited for the one before it. *)
OneClient == \A q, r \in Requests : q = r \/ q \in Prior[r] \/ r \in Prior[q]

(* What a write needs was answered before it was sent, so that a backend    *)
(* which refused it will not take it later.                                 *)
RefusalsLast == \A r \in Requests : Needs[r] \subseteq Prior[r]

(* The queue loses nothing: while no call fails, nothing restarts and       *)
(* nothing is given up, and again after a resync that no write came across, *)
(* the shadow holds all the primary holds as soon as nothing is pending.    *)
NothingMissing ==
    inStep /\ Settled => Holds("primary") \subseteq Holds("shadow")

(* It makes the shadow a copy of the primary if refusals last: otherwise    *)
(* the queue retries what the primary refused until the shadow takes it.    *)
(* The order is the same if one client wrote it all.                        *)
SameWhenSettled ==
    inStep /\ Settled /\ RefusalsLast =>
        /\ Holds("shadow") = Holds("primary")
        /\ Len(data["shadow"]) = Len(data["primary"])
        /\ OneClient => data["shadow"] = data["primary"]

\* No backend has lost its data and none has been resynced.
Untouched == restarted = {} /\ resyncs = <<>>

(* What the primary holds and the shadow lacks, once nothing is pending,    *)
(* was never put on the queue (its client hung up, the proxy stopped or the *)
(* INSERT failed) or was given up: neither lost answers nor crashes nor     *)
(* failing updates of the queue let anything else go missing.               *)
MissingIsExplained ==
    Untouched /\ Settled =>
        \A r \in Holds("primary") \ Holds("shadow") : rowid[r] = 0 \/ failed[r] > 0

\* Every answered write has its row, and none was given up.
Owed == Untouched /\ Rowless = {} /\ GivenUp = {}

(* The shadow catches up, whatever answers are lost and whatever is retried *)
(* or started over first: once every client is answered it comes to hold    *)
(* what the primary holds, unless a write is given up or a backend's data   *)
(* is lost or replaced.                                                     *)
CatchesUp ==
    (Owed /\ \A r \in Requests : handler[r] = "responded")
      ~> (~Owed \/ Holds("primary") \subseteq Holds("shadow"))

(* "When it is nonzero, exactly one of the two implementations (or the spec *)
(* itself) has a bug" (README): identical backends are not found to diverge *)
(* by a read sampled while they are in step and nothing is pending.  (A     *)
(* read sampled earlier may reach the shadow before the writes it follows.) *)
NoAlarmWhenQuiet == \A q \in quiet : read[q] # "diverged"

(* While the backends are in step, the worker gives up only writes of its   *)
(* one client that the primary refused too.                                 *)
GivesUpOnlyRefused ==
    inStep /\ OneClient /\ wpc \in {"inserted", "moved"} => wreq \notin Holds("primary")

(* Resyncs repair the loss of one backend and never complete it: a backend  *)
(* that has not restarted still holds all that both have held, however      *)
(* often the other one restarts.  The primary does so whatever else goes    *)
(* wrong.  The shadow is resynced, from a primary that may be empty, when a *)
(* write is given up, which after a database error leaves no record: for    *)
(* the shadow nothing is promised then.                                     *)
DataSurvives ==
    /\ "primary" \notin restarted => shared \subseteq Holds("primary")
    /\ "shadow" \notin restarted /\ faults = 0 /\ GivenUp = {} => shared \subseteq Holds("shadow")
=============================================================================
