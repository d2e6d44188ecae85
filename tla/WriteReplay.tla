----------------------------- MODULE WriteReplay -----------------------------
(***************************************************************************)
(* The write path of the diffsplitter: concurrent request handlers         *)
(* (proxy.rs) forward a write to the primary and put it on a durable       *)
(* SQLite queue (db.rs); one worker (worker.rs) replays the queue at the   *)
(* shadow, with retries, until the shadow answers 2xx or the attempts are  *)
(* used up and the row is moved to failed_writes.                          *)
(*                                                                         *)
(* Every database call holds the connection's mutex for its whole length,  *)
(* so it is one step; the calls made of two autocommitted statements are   *)
(* two steps wherever a crash between the statements can be told apart.    *)
(* The clock is the relation between time stamps only: which rows a read   *)
(* of the clock finds ready.  It does not run backwards.                   *)
(***************************************************************************)
EXTENDS Naturals, FiniteSets

CONSTANTS
    Requests,     \* the writes clients send, each at most once
    Prior,        \* Prior[r]: writes answered before r's client sent r
    MaxAttempts,  \* cfg.max_write_attempts
    MaxCrashes,   \* bound: crashes of the proxy process
    MaxFaults     \* bound: database calls that return an error

ASSUME ReplayAssumption ==
    /\ Requests # {}
    /\ Prior \in [Requests -> SUBSET Requests]
    /\ MaxAttempts \in Nat
    /\ MaxCrashes \in Nat
    /\ MaxFaults \in Nat

VARIABLES
    (* the handlers and the primary *)
    handler,      \* progress of each request's handler
    toPrimary,    \* requests forwarded and not yet executed by the primary
    primary,      \* requests the primary has executed
    confirmed,    \* requests whose handler got the primary's 2xx
    (* the database *)
    rowid,        \* write_queue.id given to each request, 0 before
    nextRowid,    \* the AUTOINCREMENT sequence
    queue,        \* requests with a row in write_queue
    attempts,     \* write_queue.attempts
    waiting,      \* rows whose next_attempt_at_ns is still in the future
    failed,       \* rows of failed_writes for each request
    (* the worker *)
    wpc,          \* where run_write_replay is
    wreq,         \* qw: the row it popped
    wattempts,    \* qw.attempts, read by the pop
    horizon,      \* rows ready at the instant pop_one_ready read the clock
    (* the shadow and the way to it *)
    copy,         \* the copy of the current send
    late,         \* late[r]: abandoned copies of r that may still arrive
    applied,      \* applied[r]: times the shadow executed r
    (* observation only *)
    sends,        \* sends[r]: times the worker sent r
    blind,        \* sends of r whose fate the worker did not record
    acked,        \* rows deleted because the shadow answered 2xx
    flagged,      \* abandoned rows for which the shadow was marked degraded
    crashes,
    faults

handlerVars == <<handler, toPrimary, primary, confirmed>>
dbVars == <<rowid, nextRowid, queue, attempts, waiting, failed>>
workerVars == <<wpc, wreq, wattempts, horizon>>
shadowVars == <<copy, late, applied>>
ghostVars == <<sends, blind, acked, flagged>>
vars == <<handlerVars, dbVars, workerVars, shadowVars, ghostVars, crashes, faults>>

Handlers == {"new", "calling", "replied", "stamped", "responded", "cut"}
WorkerStates ==
    {"idle", "popping", "sent", "succeeding", "failing", "inserted", "moved"}
Copies == {"none", "wire", "applied", "refused"}

\* The worker has popped a row and not yet recorded what became of it.
Processing(r) == wreq = r /\ wpc \in {"sent", "succeeding", "failing", "inserted"}

\* A write is never tried less than once, whatever max_write_attempts says.
Budget == IF MaxAttempts = 0 THEN 1 ELSE MaxAttempts

Init ==
    /\ handler = [r \in Requests |-> "new"]
    /\ toPrimary = {} /\ primary = {} /\ confirmed = {}
    /\ rowid = [r \in Requests |-> 0]
    /\ nextRowid = 1
    /\ queue = {}
    /\ attempts = [r \in Requests |-> 0]
    /\ waiting = {}
    /\ failed = [r \in Requests |-> 0]
    /\ wpc = "idle" /\ wreq \in Requests /\ wattempts = 0 /\ horizon = {}
    /\ copy = "none"
    /\ late = [r \in Requests |-> 0]
    /\ applied = [r \in Requests |-> 0]
    /\ sends = [r \in Requests |-> 0]
    /\ blind = [r \in Requests |-> 0]
    /\ acked = {} /\ flagged = {}
    /\ crashes = 0 /\ faults = 0

-----------------------------------------------------------------------------
(* Request handlers: proxy_handler for a request of class Write. *)

Receive(r) ==
    /\ handler[r] = "new"
    /\ \A q \in Prior[r] : handler[q] = "responded"
    /\ handler' = [handler EXCEPT ![r] = "calling"]
    /\ toPrimary' = toPrimary \cup {r}
    /\ UNCHANGED <<primary, confirmed, dbVars, workerVars, shadowVars, ghostVars, crashes, faults>>

\* The primary, which may execute a forwarded write after its caller has gone.
PrimaryApplies(r) ==
    /\ r \in toPrimary
    /\ toPrimary' = toPrimary \ {r}
    /\ primary' = primary \cup {r}
    /\ UNCHANGED <<handler, confirmed, dbVars, workerVars, shadowVars, ghostVars, crashes, faults>>

\* call_upstream returns the primary's 2xx.
PrimaryConfirms(r) ==
    /\ handler[r] = "calling"
    /\ r \in primary
    /\ handler' = [handler EXCEPT ![r] = "replied"]
    /\ confirmed' = confirmed \cup {r}
    /\ UNCHANGED <<toPrimary, primary, dbVars, workerVars, shadowVars, ghostVars, crashes, faults>>

\* The primary refuses the write: the handler goes on to the queue all the same.
PrimaryRefuses(r) ==
    /\ handler[r] = "calling"
    /\ r \in toPrimary
    /\ handler' = [handler EXCEPT ![r] = "replied"]
    /\ toPrimary' = toPrimary \ {r}
    /\ UNCHANGED <<primary, confirmed, dbVars, workerVars, shadowVars, ghostVars, crashes, faults>>

\* A transport error or the 15s timeout, whether or not the primary got it.
PrimaryFails(r) ==
    /\ handler[r] = "calling"
    /\ handler' = [handler EXCEPT ![r] = "replied"]
    /\ UNCHANGED <<toPrimary, primary, confirmed, dbVars, workerVars, shadowVars, ghostVars, crashes, faults>>

\* The client goes away: the server drops the handler at the call it awaits.
Disconnect(r) ==
    /\ handler[r] = "calling"
    /\ handler' = [handler EXCEPT ![r] = "cut"]
    /\ UNCHANGED <<toPrimary, primary, confirmed, dbVars, workerVars, shadowVars, ghostVars, crashes, faults>>

\* enqueue_write reads the clock before it has the connection.
Stamp(r) ==
    /\ handler[r] = "replied"
    /\ handler' = [handler EXCEPT ![r] = "stamped"]
    /\ UNCHANGED <<toPrimary, primary, confirmed, dbVars, workerVars, shadowVars, ghostVars, crashes, faults>>

\* The INSERT, then the response to the client.
Enqueue(r) ==
    /\ handler[r] = "stamped"
    /\ rowid' = [rowid EXCEPT ![r] = nextRowid]
    /\ nextRowid' = nextRowid + 1
    /\ queue' = queue \cup {r}
    /\ handler' = [handler EXCEPT ![r] = "responded"]
    /\ UNCHANGED <<toPrimary, primary, confirmed, attempts, waiting, failed>>
    /\ UNCHANGED <<workerVars, shadowVars, ghostVars, crashes, faults>>

\* The INSERT fails: it is logged and the client is answered all the same.
EnqueueFails(r) ==
    /\ handler[r] = "stamped"
    /\ faults < MaxFaults
    /\ faults' = faults + 1
    /\ handler' = [handler EXCEPT ![r] = "responded"]
    /\ UNCHANGED <<toPrimary, primary, confirmed, dbVars, workerVars, shadowVars, ghostVars, crashes>>

-----------------------------------------------------------------------------
(* The worker: run_write_replay. *)

\* Fault: a row that failed once is never ready again.
PollClock_SkipsRetries ==
    /\ wpc = "idle"
    /\ wpc' = "popping"
    /\ horizon' = {r \in queue \cup {q \in Requests : handler[q] = "stamped"} :
                     r \notin waiting /\ attempts[r] = 0}
    /\ UNCHANGED <<handlerVars, dbVars, wreq, wattempts, shadowVars, ghostVars, crashes, faults>>

\* Fault: next_attempt_at_ns is compared the wrong way round.
PollClock_Reversed ==
    /\ wpc = "idle"
    /\ wpc' = "popping"
    /\ horizon' = waiting
    /\ UNCHANGED <<handlerVars, dbVars, wreq, wattempts, shadowVars, ghostVars, crashes, faults>>

\* pop_one_ready reads the clock before it has the connection.
PollClock ==
    /\ wpc = "idle"
    /\ wpc' = "popping"
    /\ horizon' = (queue \cup {r \in Requests : handler[r] = "stamped"}) \ waiting
    /\ UNCHANGED <<handlerVars, dbVars, wreq, wattempts, shadowVars, ghostVars, crashes, faults>>

\* Fault: newest row first.
Pop_NewestFirst(r) ==
    /\ wpc = "popping"
    /\ r \in queue \cap horizon
    /\ \A q \in queue \cap horizon : rowid[r] >= rowid[q]
    /\ wpc' = "sent"
    /\ wreq' = r
    /\ wattempts' = attempts[r]
    /\ horizon' = {}
    /\ copy' = "wire"
    /\ sends' = [sends EXCEPT ![r] = @ + 1]
    /\ UNCHANGED <<handlerVars, dbVars, late, applied, blind, acked, flagged, crashes, faults>>

\* The SELECT ... ORDER BY id LIMIT 1, then the request leaves for the shadow.
Pop(r) ==
    /\ wpc = "popping"
    /\ r \in queue \cap horizon
    /\ \A q \in queue \cap horizon : rowid[r] <= rowid[q]
    /\ wpc' = "sent"
    /\ wreq' = r
    /\ wattempts' = attempts[r]
    /\ horizon' = {}
    /\ copy' = "wire"
    /\ sends' = [sends EXCEPT ![r] = @ + 1]
    /\ UNCHANGED <<handlerVars, dbVars, late, applied, blind, acked, flagged, crashes, faults>>

PopNothing ==
    /\ wpc = "popping"
    /\ queue \cap horizon = {}
    /\ wpc' = "idle"
    /\ horizon' = {}
    /\ UNCHANGED <<handlerVars, dbVars, wreq, wattempts, shadowVars, ghostVars, crashes, faults>>

PopFails ==
    /\ wpc = "popping"
    /\ faults < MaxFaults
    /\ faults' = faults + 1
    /\ wpc' = "idle"
    /\ horizon' = {}
    /\ UNCHANGED <<handlerVars, dbVars, wreq, wattempts, shadowVars, ghostVars, crashes>>

\* The shadow executes the current send, or turns it down (a 4xx or 5xx).
ShadowApplies ==
    /\ wpc = "sent" /\ copy = "wire"
    /\ copy' = "applied"
    /\ applied' = [applied EXCEPT ![wreq] = @ + 1]
    /\ UNCHANGED <<handlerVars, dbVars, workerVars, late, ghostVars, crashes, faults>>

ShadowRefuses ==
    /\ wpc = "sent" /\ copy = "wire"
    /\ copy' = "refused"
    /\ UNCHANGED <<handlerVars, dbVars, workerVars, late, applied, ghostVars, crashes, faults>>

\* Faults: every answer is a success; an answer is never one.
ReplyArrives_AnyStatus ==
    /\ wpc = "sent" /\ copy \in {"applied", "refused"}
    /\ wpc' = "succeeding"
    /\ copy' = "none"
    /\ UNCHANGED <<handlerVars, dbVars, wreq, wattempts, horizon, late, applied, ghostVars, crashes, faults>>

ReplyArrives_NoStatus ==
    /\ wpc = "sent" /\ copy \in {"applied", "refused"}
    /\ wpc' = "failing"
    /\ copy' = "none"
    /\ UNCHANGED <<handlerVars, dbVars, wreq, wattempts, horizon, late, applied, ghostVars, crashes, faults>>

\* The worker has the answer's status: 2xx or not.
ReplyArrives ==
    /\ wpc = "sent" /\ copy \in {"applied", "refused"}
    /\ wpc' = IF copy = "applied" THEN "succeeding" ELSE "failing"
    /\ copy' = "none"
    /\ UNCHANGED <<handlerVars, dbVars, wreq, wattempts, horizon, late, applied, ghostVars, crashes, faults>>

\* late' and blind' when the worker stops waiting for the current send.
LoseTrack ==
    /\ late' = IF copy = "wire" THEN [late EXCEPT ![wreq] = @ + 1] ELSE late
    /\ copy' = "none"
    /\ blind' = [blind EXCEPT ![wreq] = @ + 1]

\* The client's 15s timeout, a refused connection, a lost reply.
SendFails ==
    /\ wpc = "sent"
    /\ wpc' = "failing"
    /\ LoseTrack
    /\ UNCHANGED <<handlerVars, dbVars, wreq, wattempts, horizon, applied, sends, acked, flagged, crashes, faults>>

\* A copy nobody waits for reaches the shadow after all.
LateDelivery(r) ==
    /\ late[r] > 0
    /\ late' = [late EXCEPT ![r] = @ - 1]
    /\ applied' = [applied EXCEPT ![r] = @ + 1]
    /\ UNCHANGED <<handlerVars, dbVars, workerVars, copy, ghostVars, crashes, faults>>

\* The UPDATE of shadow_status leaves the row where a crash or an error after
\* it would find it, so the call is its DELETE.
MarkSucceeded ==
    /\ wpc = "succeeding"
    /\ queue' = queue \ {wreq}
    /\ acked' = acked \cup {wreq}
    /\ wpc' = "idle"
    /\ UNCHANGED <<handlerVars, rowid, nextRowid, attempts, waiting, failed>>
    /\ UNCHANGED <<wreq, wattempts, horizon, shadowVars, sends, blind, flagged, crashes, faults>>

MarkSucceededFails ==
    /\ wpc = "succeeding"
    /\ faults < MaxFaults
    /\ faults' = faults + 1
    /\ blind' = [blind EXCEPT ![wreq] = @ + 1]
    /\ wpc' = "idle"
    /\ UNCHANGED <<handlerVars, dbVars, wreq, wattempts, horizon, shadowVars, sends, acked, flagged, crashes>>

-----------------------------------------------------------------------------
(* handle_attempt_failure *)

\* Faults: one attempt too few, one too many.
Exhausted_Early(n) == n + 2 >= MaxAttempts

Exhausted_Late(n) == n >= MaxAttempts

\* next_attempts >= max_write_attempts, for the attempts the pop read.
Exhausted(n) == n + 1 >= MaxAttempts

\* Fault: the attempt is counted before the limit is looked at.
MarkFailedAttempt_NoLimit ==
    /\ wpc = "failing"
    /\ attempts' = [attempts EXCEPT ![wreq] = @ + 1]
    /\ waiting' = waiting \cup {wreq}
    /\ wpc' = "idle"
    /\ UNCHANGED <<handlerVars, rowid, nextRowid, queue, failed>>
    /\ UNCHANGED <<wreq, wattempts, horizon, shadowVars, ghostVars, crashes, faults>>

\* The attempt is counted and the row backs off.
MarkFailedAttempt ==
    /\ wpc = "failing"
    /\ ~Exhausted(wattempts)
    /\ attempts' = [attempts EXCEPT ![wreq] = @ + 1]
    /\ waiting' = waiting \cup {wreq}
    /\ wpc' = "idle"
    /\ UNCHANGED <<handlerVars, rowid, nextRowid, queue, failed>>
    /\ UNCHANGED <<wreq, wattempts, horizon, shadowVars, ghostVars, crashes, faults>>

\* The result is ignored: the row stays ready and its attempt is not counted.
MarkFailedAttemptFails ==
    /\ wpc = "failing"
    /\ ~Exhausted(wattempts)
    /\ faults < MaxFaults
    /\ faults' = faults + 1
    /\ wpc' = "idle"
    /\ UNCHANGED <<handlerVars, dbVars, wreq, wattempts, horizon, shadowVars, ghostVars, crashes>>

\* Fault: the DELETE first, so that the SELECT finds nothing to copy.
InsertFailed_DeletesFirst ==
    /\ wpc = "failing"
    /\ Exhausted(wattempts)
    /\ queue' = queue \ {wreq}
    /\ wpc' = "inserted"
    /\ UNCHANGED <<handlerVars, rowid, nextRowid, attempts, waiting, failed>>
    /\ UNCHANGED <<wreq, wattempts, horizon, shadowVars, ghostVars, crashes, faults>>

\* move_to_failed: INSERT ... SELECT ..., then DELETE, each its own commit.
InsertFailed ==
    /\ wpc = "failing"
    /\ Exhausted(wattempts)
    /\ failed' = [failed EXCEPT ![wreq] = @ + 1]
    /\ wpc' = "inserted"
    /\ UNCHANGED <<handlerVars, rowid, nextRowid, queue, attempts, waiting>>
    /\ UNCHANGED <<wreq, wattempts, horizon, shadowVars, ghostVars, crashes, faults>>

\* Fault: the row is copied and not deleted.
DeleteMoved_Keeps ==
    /\ wpc = "inserted"
    /\ wpc' = "moved"
    /\ UNCHANGED <<handlerVars, dbVars, wreq, wattempts, horizon, shadowVars, ghostVars, crashes, faults>>

\* The DELETE of move_to_failed.
DeleteMoved ==
    /\ wpc = "inserted"
    /\ queue' = queue \ {wreq}
    /\ wpc' = "moved"
    /\ UNCHANGED <<handlerVars, rowid, nextRowid, attempts, waiting, failed>>
    /\ UNCHANGED <<wreq, wattempts, horizon, shadowVars, ghostVars, crashes, faults>>

\* Either statement fails and the result is ignored: the row stays queued.
MoveFails ==
    /\ \/ wpc = "failing" /\ Exhausted(wattempts)
       \/ wpc = "inserted"
    /\ faults < MaxFaults
    /\ faults' = faults + 1
    /\ wpc' = "moved"
    /\ UNCHANGED <<handlerVars, dbVars, wreq, wattempts, horizon, shadowVars, ghostVars, crashes>>

\* Fault: the shadow is left live.
Degrade_Skipped ==
    /\ wpc = "moved"
    /\ wpc' = "idle"
    /\ UNCHANGED <<handlerVars, dbVars, wreq, wattempts, horizon, shadowVars, ghostVars, crashes, faults>>

\* The degraded state of the shadow is written; the resync it starts is
\* BackendHealth's subject.
Degrade ==
    /\ wpc = "moved"
    /\ flagged' = flagged \cup {wreq}
    /\ wpc' = "idle"
    /\ UNCHANGED <<handlerVars, dbVars, wreq, wattempts, horizon, shadowVars, sends, blind, acked, crashes, faults>>

DegradeFails ==
    /\ wpc = "moved"
    /\ faults < MaxFaults
    /\ faults' = faults + 1
    /\ wpc' = "idle"
    /\ UNCHANGED <<handlerVars, dbVars, wreq, wattempts, horizon, shadowVars, ghostVars, crashes>>

-----------------------------------------------------------------------------
(* Time and crashes. *)

BackoffElapses(r) ==
    /\ r \in waiting
    /\ waiting' = waiting \ {r}
    /\ UNCHANGED <<handlerVars, rowid, nextRowid, queue, attempts, failed>>
    /\ UNCHANGED <<workerVars, shadowVars, ghostVars, crashes, faults>>

\* The process stops between any two steps and starts again on the same file.
CrashRestart ==
    /\ crashes < MaxCrashes
    /\ crashes' = crashes + 1
    /\ handler' = [r \in Requests |->
                     IF handler[r] \in {"new", "responded"} THEN handler[r] ELSE "cut"]
    /\ wpc' = "idle"
    /\ horizon' = {}
    /\ IF wpc \in {"sent", "succeeding"}
         THEN LoseTrack
         ELSE UNCHANGED <<copy, late, blind>>
    /\ UNCHANGED <<toPrimary, primary, confirmed, dbVars, wreq, wattempts>>
    /\ UNCHANGED <<applied, sends, acked, flagged, faults>>

-----------------------------------------------------------------------------
Handling(r) ==
    \/ Receive(r) \/ PrimaryConfirms(r) \/ PrimaryRefuses(r) \/ PrimaryFails(r)
    \/ Disconnect(r) \/ Stamp(r) \/ Enqueue(r) \/ EnqueueFails(r)

AwaitingShadow == ReplyArrives \/ SendFails

Recording ==
    \/ MarkSucceeded \/ MarkSucceededFails
    \/ MarkFailedAttempt \/ MarkFailedAttemptFails
    \/ InsertFailed \/ DeleteMoved \/ MoveFails \/ Degrade \/ DegradeFails

Polling == PollClock \/ PopNothing \/ PopFails \/ \E r \in Requests : Pop(r)

Next ==
    \/ \E r \in Requests :
         \/ Handling(r) \/ PrimaryApplies(r) \/ LateDelivery(r) \/ BackoffElapses(r)
    \/ Polling \/ ShadowApplies \/ ShadowRefuses \/ AwaitingShadow \/ Recording
    \/ CrashRestart

Safety == Init /\ [][Next]_vars

(***************************************************************************)
(* The worker's task is scheduled whenever it can run, the client's        *)
(* timeout bounds every send, and backoffs pass.  Nothing is asked of the  *)
(* clients, of the primary or of the shadow.                               *)
(***************************************************************************)
Spec ==
    /\ Safety
    /\ WF_vars(Polling) /\ WF_vars(AwaitingShadow) /\ WF_vars(Recording)
    /\ \A r \in Requests : WF_vars(BackoffElapses(r))
-----------------------------------------------------------------------------
(* Properties *)

(* Every variable keeps its type; attempts counted on a row stay below the *)
(* budget (worker.rs moves the row out before the last one is counted).    *)
TypeOK ==
    /\ handler \in [Requests -> Handlers]
    /\ toPrimary \subseteq Requests /\ primary \subseteq Requests /\ confirmed \subseteq Requests
    /\ rowid \in [Requests -> Nat] /\ nextRowid \in Nat \ {0}
    /\ queue \subseteq Requests /\ waiting \subseteq Requests
    /\ attempts \in [Requests -> 0 .. (Budget - 1)]
    /\ failed \in [Requests -> Nat]
    /\ wpc \in WorkerStates /\ wreq \in Requests /\ wattempts \in Nat
    /\ horizon \subseteq Requests
    /\ copy \in Copies
    /\ late \in [Requests -> Nat] /\ applied \in [Requests -> Nat]
    /\ sends \in [Requests -> Nat] /\ blind \in [Requests -> Nat]
    /\ acked \subseteq Requests /\ flagged \subseteq Requests
    /\ crashes \in 0 .. MaxCrashes /\ faults \in 0 .. MaxFaults

\* Writes whose client was answered although they have no row.
Rowless == {r \in Requests : handler[r] = "responded" /\ rowid[r] = 0}

(* A write whose client was answered is not lost: it waits in the queue,   *)
(* the shadow acknowledged it, or failed_writes records it, through every  *)
(* crash and database error; but each INSERT that fails, which is only     *)
(* logged, loses one write.                                                *)
AnsweredIsAccountedFor ==
    /\ \A r \in Requests :
         handler[r] = "responded" => r \in queue \cup acked \cup Rowless \/ failed[r] > 0
    /\ Cardinality(Rowless) <= faults

(* A write is recorded as failed only after the shadow was sent it the     *)
(* configured number of times, however crashes cut the attempts short.     *)
NoEarlyGiveUp ==
    \A r \in Requests : failed[r] > 0 => sends[r] >= MaxAttempts

(* Each crash or database error costs at most one send beyond the budget.  *)
BoundedSends ==
    \A r \in Requests : sends[r] <= Budget + crashes + faults

(* A client that waits for its answers has its writes reach the shadow in  *)
(* the order it sent them: none is sent before an earlier one that was     *)
(* queued has been sent at least once.                                     *)
ProgramOrder ==
    \A r \in Requests : sends[r] > 0 =>
        \A q \in Prior[r] : rowid[q] > 0 => sends[q] > 0

(* The shadow executes a write twice only if the fate of some send of it   *)
(* was not recorded: a lost answer, a crash, a failed DELETE.              *)
DuplicatesExplained ==
    \A r \in Requests : applied[r] + late[r] <= 1 + blind[r]

(* A write has one final record; each crash or database error can leave at *)
(* most one more, since move_to_failed is two commits.                     *)
RecordsExplained ==
    \A r \in Requests :
        failed[r] + (IF r \in acked THEN 1 ELSE 0) <= 1 + crashes + faults

(* A write the primary confirmed to its handler is on the queue once the   *)
(* handler is gone, "even if the proxy crashes" (proxy.rs).                *)
ConfirmedIsQueued ==
    \A r \in confirmed : handler[r] \in {"responded", "cut"} => rowid[r] > 0

\* The writes failed_writes has on record.
GivenUp == {r \in Requests : failed[r] > 0}

(* The queue keeps the ledger's promise. *)
Ledger == INSTANCE ReplayLedger WITH
    Limit <- Budget + MaxCrashes + MaxFaults,
    open <- queue,
    confirmed <- acked,
    abandoned <- GivenUp,
    delivered <- applied

(* No step of the program does what the ledger does not allow. *)
KeepsLedger == Ledger!LedgerSafety

(* No row stays in the queue for ever. *)
QueueDrains == Ledger!EveryDebtCloses

\* Writes given up for which nobody marked, or will mark, the shadow degraded.
Unflagged ==
    {r \in GivenUp : r \notin queue \cup acked \cup flagged /\ ~(wreq = r /\ wpc = "moved")}

(* A write given up ends with the shadow marked degraded for it (K13):     *)
(* each crash or database error, falling between the move and the mark,    *)
(* can keep the mark from one write and no more.                           *)
GivingUpIsFlagged == Cardinality(Unflagged) <= crashes + faults
=============================================================================
