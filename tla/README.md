# Specifications of the diffsplitter

TLA+ specifications of `src/crates/diffsplitter`, the proxy that forwards the
traffic of a Twitter clone to a primary backend, replays every write at a shadow
backend, samples reads at both and records where they diverge. The Rust code is
the reference: each definition translates the lines `PROJECT.json` maps it to.
TLC checks small instances; TLAPS proves the properties marked *proved* below
for every value of the constants.

File names without a directory are under `src/crates/diffsplitter/src/`.

## 1. The system

One process on the tokio runtime (`#[tokio::main]`: one thread per CPU), one
SQLite file behind one mutex-guarded connection, two HTTP backends.

| component | code | state it keeps | operations | talks to |
|---|---|---|---|---|
| Write proxying | `proxy.rs` `proxy_handler` | a handler per request | call primary, answer client, `enqueue_write` | primary, queue |
| Durable write queue | `db.rs` | tables `write_queue`, `failed_writes` | enqueue, pop_one_ready, mark_succeeded, mark_failed_attempt, move_to_failed | handlers, worker, scoreboard |
| Write-replay worker | `worker.rs` `run_write_replay` | the popped row | pop, send, record the outcome, back off, give up and degrade | queue, shadow, `backend_state` |
| Version poller and resync | `worker.rs` `poll_once`, `resync_from_peer` | `backend_state`, the degraded gauge, detached resync tasks | poll, notice a regression, snapshot, load, mark live | both backends |
| Read sampling | `proxy.rs` `diff_read` | a detached task per sampled read; table `diffs`; `DIFF_TOTAL` | check degraded, ask shadow, compare, count, record | shadow, comparator, alerting |
| Comparator | `diff.rs` | none | `compare` | read sampling |
| Alerting | `alerting.rs`, `db.rs` | `diffs.notified_at_ns` | claim, fan out | notifiers |
| Scoreboard | `scoreboard.rs`, `db.rs` | none of its own | `collect`: seven kinds of query, each in its own lock section | all tables |
| Dashboard | `dashboard.rs` | none | list diffs by severity, date and limit; show dates; HTML | `diffs` |
| Metrics | `metrics.rs` | counters and gauges, gone with the process | render | everyone |
| Start-up | `main.rs`, `config.rs`, `lib.rs` | configuration | wiring | everyone |

Components meet in four places: the queue (handlers insert, the worker removes),
`backend_state` (worker, poller and resync tasks write, sampling reads), `diffs`
(sampling inserts and claims, pages read), and the metrics.

### What makes each correct, and what makes it hard

* **Write path.** An answered write must not be lost by the proxy, must be sent a
  bounded number of times, in the client's order, and have one final record. Hard:
  a crash between any two commits, a timeout that says nothing about whether the
  shadow executed the write, a copy that arrives after its row has gone, database
  errors that are ignored, time stamps read before the lock is taken.
* **Health.** Degraded mode must end only by a resync that made the shadow whole,
  and must end; a restart must be noticed and nothing else mistaken for one. Hard:
  each task's read and write of a row are two lock sections, resyncs overlap, and
  the uptime on record doubles as a flag (-1, 0).
* **Read path.** A divergence must be recorded; a critical one alerted about its
  own row, once per notifier, to all notifiers; a degraded shadow must not be
  compared. Hard: the tasks of many reads interleave on shared rows, one step of
  several fails, the process stops between recording, claiming and firing.
* **The whole.** The shadow must come to hold what the primary holds, must be told
  apart only if it behaves differently, and a resync must not spread a loss. Hard:
  all of the above at once, on data: retries around a snapshot and its load, restarts
  of both backends, a refusal retried until it is taken.
* **Scoreboard.** Figures on one page must not contradict each other. Hard: they
  are read in separate lock sections while rows come and go.
* **Dashboard.** A list must hold every diff that its filters and its limit let
  through, and no other. Hard: dates converted by hand, a product that overflows,
  rows inserted out of the order of their stamps.

The full list of hazards, line by line with the properties that cover them, is in
`PROJECT.json`.

## 2. The modules

| module | role |
|---|---|
| `ReplayLedger` | abstract: every accepted write is a debt, closed by confirmation or by a record of giving up |
| `WriteReplay` | handlers, queue and worker; implements `ReplayLedger` |
| `WriteReplayProofs` | its theorems |
| `BackendHealth` | poller, degrading, resync tasks, `backend_state`, gauge |
| `BackendHealthProofs` | its theorems |
| `Conformance` | the system: EXTENDS `WriteReplay` with what the backends hold, their restarts, the resyncs and sampled reads |
| `ConformanceProofs` | it implements `WriteReplay`; what the shadow misses, what restarts cost; EXTENDS `WriteReplayProofs` |
| `AgreementProofs` | what identical backends come to hold and answer; EXTENDS `ConformanceProofs` |
| `Comparator` | `compare` and the severities, operators only |
| `ReadDiff` | handlers of reads, `diff_read`, alerting; EXTENDS `Comparator` |
| `ReadDiffProofs` | its theorems |
| `Scoreboard` | `collect` against concurrent changes of the tables |
| `ScoreboardProofs` | its theorems |
| `Calendar` | the two date conversions and a reference calendar, operators only |
| `Dashboard` | the listing of diffs by severity and date; EXTENDS `Calendar` |
| `CalendarProofs` | the conversions undo each other and follow the calendar, without a bound |
| `DashboardProofs` | the dashboard's theorems; EXTENDS `CalendarProofs` |
| `MC...` | the constants of the runs |

`Conformance` composes: each of its actions is an action of `WriteReplay` and what
it means to the data, or one of a backend, a resync or a read that leaves the write
path alone. The other modules meet where the code does, each seeing the other's effect as
steps that may happen at any time: the degrading that ends a write in `WriteReplay` is a
step of `BackendHealth` (`MoveToFailed`, `MarkDegraded`, `RaiseGauge`) and of
`Conformance` (`GivesUp`); the row of the shadow that `BackendHealth` writes is `Flip` in
`ReadDiff`; the tables that `WriteReplay` and `ReadDiff` fill change under `Scoreboard`
and `Dashboard`.

Definitions named `X_Something` under a comment "Fault:" are deliberate mutations
of `X`; no specification uses them. Substituting one for `X` breaks the property
`PROJECT.json` names beside it, which shows that the property depends on `X`.

### WriteReplay

A handler (`handler[r]`) goes new - calling - replied - stamped - responded, or is
cut. `Receive`, `PrimaryConfirms`/`Refuses`/`Fails` and `Disconnect` are the call
to the primary: the code enqueues whatever the primary said. `Stamp` and `Enqueue`
are the two halves of `enqueue_write` (clock, then lock). `PollClock` and `Pop`
are likewise the halves of `pop_one_ready`. `ShadowApplies`, `ShadowRefuses`,
`ReplyArrives`, `SendFails` and `LateDelivery` are one HTTP exchange and its fates.
`MarkSucceeded`, `MarkFailedAttempt`, `InsertFailed`, `DeleteMoved`, `Degrade` are
the commits that follow, each with the error the code ignores (`...Fails`).
`CrashRestart` may fall anywhere.

Abstractions: a call under the mutex is one step; one made of two autocommitted
statements is two, except `mark_succeeded`, whose UPDATE leaves the row as ready
as before. Time is the set `waiting` of rows in backoff and the set `horizon` of
rows whose stamp a clock reading covers; the clock never runs backwards. SQLite
keeps what it committed (with `synchronous=NORMAL` in WAL mode that holds for a
crash of the process, not for one of the operating system). The worker's branch
for an unparsable method is left out: `classify` queues only POST and DELETE.

### BackendHealth

`poll_once` is cut at its awaits and lock sections: `FetchPrimary`, `FetchShadow`,
then for each backend Read - Write - Spawn. `tasks` counts resync tasks by target and
phase. `Parallel = FALSE` is a one-thread runtime: `Scheduled` then keeps other tasks
out between two database calls with no await. `polled` remembers the sample of the
last recorded poll, with the backend's `epoch`, so that properties can speak of
restarts the code cannot see. `gauge` is `Absent` from the start of a process until a
task sets it: `register()` creates the family without a value. Data is `Conformance`'s
subject.

### Conformance

`data[b]` is the log of the writes b has executed, as far as it holds them. Both
backends are the same program: b takes r if r is valid and b holds the writes r needs
(`Accepts`), and answers a read from its log. So whatever tells them apart is the
diffsplitter's doing. A restart empties a log (`BackendRestarts`); the poller notices,
or overlooks, it (`PollsRestarted`: `BackendHealth` says when); a resync goes snapshot -
load - loaded - over, or orphan when its caller gave the load up and the backend may
still execute it (`LateLoad`). `PrimaryAnswers`, `CheckDegraded`, `Compares` and
`ReadFails` are a sampled read. A marking live that fails is a `ResyncFails` after
`loaded`; the torn upsert of the poller stays in `BackendHealth`.

Only observed: `inStep` falls when something sets the backends apart (a failed or
lost call, a crash, a restart, a write given up, a load) and rises when a resync
completes that nothing has come across (`clean`); `Settled` says that no write is on
its way; `quiet` are the reads sampled in step and settled, with nothing sent since;
`shared` is what both backends have held at one time; `restarted` are the backends that
have restarted, however often.

### Comparator and ReadDiff

`Comparator` compares records that keep what `compare` can see: status, whether a
body parses, the masked fields, the rest of the value, the spelling. `ReadDiff`
follows a read: `Receive`, `Sample`/`NoSample`, then the task's `CheckDegraded`,
`Agrees`/`Diverges`/`ShadowFails`, `RecordDiff`, `Claim`, and one `Notify` for each
notifier in any order. A panic of `truncate` is a response whose `splits` is set:
byte `diff_body_max_bytes` of it falls inside a character. A crash resets the
counters and ends every task, and `base` marks the rows recorded before. The
proxy serves `/version` itself, so the masks in `Comparator`, though modelled, never
apply to a sampled read.

### Scoreboard

`collect` is one action per query, in the code's order, while `RecordDiff`,
`EnqueueWrite`, `MarkSucceeded`, `MoveToFailed` and time (`Tick`) interleave. A
row's time stamp may be one tick old when it is inserted (`Stamps`). `move_to_failed`
keeps the connection between its two statements, so `MoveToFailed` is one step; but it may
be cut in half, by a crash or by an error of its DELETE that the worker passes over
(`HalfMoves`), and then the write stays queued and is given up again. Ties of the
leaderboard fall either way. `Respond` also stands for a query that fails and ends
`collect`; `RankPathsShort` (any of the counts of any of the paths) and `FindNoCritical` are
the queries whose errors are passed over, and `missed` says which were. Left out: the
degraded banner, the JSON and the HTML.

### Calendar and Dashboard

`DaysOf` and `DateOf` are `parse_date_to_ns` and `format_ns` in days, term by term; all
quotients are of natural numbers there, so that `\div` is Rust's `/`. `DayAfter` is the
calendar they are compared with, one day at a time: `date` follows it while `day` counts.
`Dashboard` has an instant as a day and whether it is early in it, which is what the
overflow of the `since` bound can tell apart (`Wraps`, release build): 2^64 nanoseconds
are 213504 days less 25 minutes. `Stamp` and `RecordDiff` are the two halves of
`record_diff`; `ListDiffs` is a listing, `RejectFilter` the 400 for a severity that is none or
a date that does not parse.

## 3. Runs

| run | instance | result |
|---|---|---|
| `write_replay` | two writes of one client in sequence, 2 attempts, 1 crash, fairness | answered writes accounted for, no early giving up, program order, refinement of `ReplayLedger`, every queued row leaves the queue |
| `write_replay_mishaps` | one write, 3 attempts, 2 crashes, 1 database error | answered writes that got no row, sends, duplicates, records and give-ups that were not flagged: each bounded by what went wrong |
| `write_replay_crashed_handler` | two independent writes, 1 crash | *violated*: a confirmed write may never be queued |
| `health_one_thread` | one thread; 1 each of restart, write given up, failed resync, crash, database error; fairness | only a completed resync (or a poll that could not read the row) ends degraded, and the next one does whatever failed before; the gauge agrees through a crash; only a backend that restarted is resynced |
| `health_torn_poll` | threads, 1 write given up | *violated*: the poller overwrites degraded |
| `health_unnoticed` | one restart, one write given up | *violated*: the restart is not noticed |
| `read_diff` | two reads, six answers, two notifiers, 1 change of mode, 1 crash, 1 error | alerts, counters, pause of sampling, symmetry of severities |
| `read_diff_long` | the same without mishaps | *violated*: the truncation panics |
| `scoreboard` | two windows, time 0..2, two diffs, one write, 1 move cut in half, any crashes and failing queries | the figures agree with each other |
| `conformance` | two writes of one client, the second needs the first; one read, 1 attempt; 1 mishap (which may be a crash), 1 database error; fairness | nothing missing at the shadow, or explained, same order when settled, no alarm when quiet, given up only if refused, the survivor of restarts keeps the data, the shadow catches up |
| `conformance_false_alarm` | the first write needs the second, 2 attempts, nothing fails | *violated*: identical backends diverge for good |
| `dashboard` | every day of 64-bit time; listings at a leap day and at the last days; 2 diffs, limit 1 | dates right, `since` a lower bound, nothing hidden |

**Why the bounds are enough.** Every hazard needs at most two actors: two writes of
one client for the order, a resync and what crosses it, two reads for shared row
ids, one writer against one reader of the tables. Two attempts distinguish the
first, a retry and the last; three leave one in the middle. One crash falls at
every step of everything; two let a crash hit the recovery of another. In
`Conformance` a mishap (`MaxMishaps`) is a restart of a backend, a crash of the proxy,
or a call that fails or loses track of a write:
each hazard of the composition needs one of them, what `DataSurvives` says of several
restarts of one backend is left to the proof, and with one attempt a single failure is already a write
given up, so degrading and its resync occur too, while a crash or a failing update of the
queue makes it start over. The two
answers with equal JSON and different spelling, the one in another order, the refusal, the
error page and the over-long one reach each branch of `compare` but the masks. Two
ticks make windows that a row enters and leaves. In `Dashboard`, `LastDay` is the last
day an i64 of nanoseconds reaches and `FirstYears` are the years up to it; traffic only on
`BusyDays`, around 2024-02-29 and around the limit; two diffs against a limit of one
let a stamp and its INSERT be overtaken by another. What grows without limit in
the code (rows, attempts of a client, uptime) is bounded by these counts; the
proofs need none of them.

**Deadlock** is checked except in the two runs of `ReadDiff`, whose reads are
finite, and in `dashboard`, whose clock reaches the last day.

**Fairness.** `WriteReplay!Spec`: weak fairness of the worker's steps (a spawned
task is polled while ready), of the end of a send (the client has a 15s timeout)
and of each backoff. Nothing is asked of clients or backends.
`Conformance!SystemSpec`: the same, and that the shadow answers in the end: only
`MaxMishaps` calls fail, where a backend that is down for good would never catch up.
Nothing is asked of its clients, poller or resyncs: `CatchesUp` is about the queue alone,
until a write is given up or a backend's data is lost or replaced.
`BackendHealth!Spec`: weak fairness of the poller and of degrading; strong fairness
of the resync tasks taken together, since on one thread a ready task keeps its
place in the run queue while others enter and leave lock sections. The code does not
retry a resync that fails, nor finish one that a crash ended, so `DegradedHeals` promises
an end only from where a resync is due (a write being given up, a restart noticed), and
unless that one fails as well; how many failed before does not matter.
`ReadDiff!Spec`: weak fairness of each task, whose calls end by 15s (shadow) and 10s
(notifiers).

## 4. Proofs

From the modules' assumptions on their constants only (natural numbers as bounds,
paths among `Paths`, and so on), for every number of requests, reads, restarts,
crashes and errors:

* `WriteReplayProofs`: all invariants of the write path and the refinement of
  `ReplayLedger`. None is inductive alone; the argument goes in layers, each using
  those below. `WorkerInv`: the row the worker holds is in the queue and as it was
  read (nobody else removes rows; a crash drops the worker's copy). `RowsInv`: an id
  is given once, and a row that has left the queue is acknowledged or recorded.
  `SendsInv`: attempts counted + sends not counted = sends, the latter each paid for
  by a crash or an error. `CopiesInv`: what the shadow executed or may still
  execute is what was sent and not answered. `RecordsInv`: a second record needs a
  move cut in half. `FewRowless` and `FewUnflagged`: only a failing INSERT adds a write that
  was answered without a row, and only a crash or an error one given up without the mark,
  one each (`RowlessStep`, `UnflaggedStep`). `OrderInv`: a row inserted after its predecessor's answer has a
  greater id and is in no horizon that lacks the predecessor; that is why stamps
  read before the lock do no harm to a single client.
* `BackendHealthProofs`: types; with any number of threads, only a backend that restarted
  is resynced by the poller (`UptimeInv`: samples of one epoch only grow, and the uptime
  the poller read is a flag or that of the last sample recorded, so a smaller sample is of
  a later epoch). With one
  thread, the gauge follows the row through any crash, while no upsert fails, and only a
  completed resync ends degraded mode, or a poll that could not read the row: `SectionInv`
  says that at most one task is between two database calls with no await, so the row the
  poller read is the row it overwrites, and that what a crash cuts off leaves no gauge.
  Without one thread `health_torn_poll` refutes it.
* `ReadDiffProofs`: types and every safety invariant. `AlertInv` adds
  that a task's row is its own and critical from the moment it is recorded, so that
  no other task's claim can touch it, and that no notifier still to be called has
  heard of it. `PauseInv`: while the shadow is live every running task has seen it so, and
  past its own question a task has seen it live or met a failing database, which gives
  `PausedWhileDegraded`. `CountInv`: the rows of this process and the reads
  counted but not yet recorded are together no more than the counter, which gives
  `CounterCoversRows`. `SidesAreAlike` follows from the types: `Compare` is symmetric.
* `ScoreboardProofs`: with any windows and paths, however the tables change between two
  queries. `RatesStayFractions`: `BoardInv` keeps the diffs a panel has counted
  in the table (rows are only added, and the page's `now` is fixed), so the total asked
  for afterwards includes them. `DivergenceIsNotHidden`: `WritesInv` says of any set of
  writes that it has no more rows in the queue and in `failed_writes` than it has writes,
  plus the moves that a crash or an error cut in half; `PageInv` bounds each total by what may be counted, which never
  becomes less. `ChartMatchesCard`: `ChartInv` fixes what the chart was drawn from, the
  diffs of the last day at that moment: no fewer than the card counted before, no more
  than the table has later. That the bars are that many is `BarsAddUp`, a bijection between
  the diffs of each kind, numbered, and the chart's bars. `LinkLeadsIntoChart`: `LinkInv`
  keeps in the table the critical diff that the chart has counted, so that the query for
  the last one, which comes after, finds it or a later one.
* `ConformanceProofs`: each step of the composition is a step of `WriteReplay` or leaves
  its variables alone, so every theorem of `WriteReplayProofs` holds of the system
  (`ImplementsWriteReplay`), and those invariants are used here.
  `NothingIsMissing`: `TrackInv` says of each write the primary
  holds that, while the backends are in step, the shadow holds it or it is still pending
  (with a handler, queued, or just given up), and `CleanInv` brings them back in step: as
  long as nothing comes across a resync nothing is on its way, so that the snapshot is what
  the peer holds and, once loaded, both hold the same. Writes of two
  clients that interleave are included; only the *order* at the two may then differ.
  `MissingWasExplained`: until a restart or a resync the shadow holds what it has
  acknowledged (`AckedInv`), and `RowsInv` says that a row leaves the queue acknowledged or
  recorded as failed; so a missing write never had a row, or was given up.
  `SurvivorKeepsData`: `SurvivalInv` says of a backend that has not restarted that no
  resync is directed at it and that it holds what both have held; of the shadow only while
  no write is given up, nor a database error can have hidden that one was, for giving up
  resyncs the shadow from a primary that may have lost everything.

* `AgreementProofs`: what two copies of one program come to hold. `HeldInv` says that what
  a backend or a snapshot holds was executed; `OnceInv` that while the backends are in step
  nothing the shadow holds is still due to it; `RefusedInv` that it holds nothing the
  primary refused; `CountInv` that the logs differ in length by the number of writes the
  shadow still misses. These give the first half of `ShadowIsCopy` for any number of
  clients. For one client `FirstTryInv` adds that the shadow takes a missing write at the first
  send that reaches it, which is `GivesUpRefusedOnly`, and `OrderedInv` that its log is a
  prefix of the primary's and the rest in the client's order, which gives equality of the
  logs. `NoFalseAlarm`: `QuietInv` says of a read sampled while nothing is pending that the two
  backends hold the same as long as it runs, and that the read has seen it. Its two
  hypotheses are needed: with two clients the copies may execute in different orders, so that
  one of them answers otherwise; and where refusals do not last, `conformance_false_alarm` is a
  counterexample. Some system satisfies both, as the run `conformance` does.
* `CalendarProofs`: for every natural number n, `DateOf(n)` is a date that exists and `DaysOf`
  gives n back (`DateFound`); no day has two dates (`DateOfItsDay`), and the day after has
  the next number (`NextDay`). The argument takes a day of an era apart into century,
  four years, year and day of the year (`Parsed`), of which each division of the code
  finds one; `FirstDayFound` counts leap years. `LaterDate`: a day that exists has a smaller
  number than any later date, one that no month has included.
* `DashboardProofs`: `CalendarIsRight` is the induction over the clock (`DateInv`), from any
  year on. `ListingInv` says in days what a page is of the table it was made from; the
  lemmas on the calendar turn it into what a client sees (`NothingEarlier`, `NoDiffHidden`).
  Assumed is that time stamps end by day 106751, as those of an i64 do: up to there the
  bound does not wrap (`UpToTheEnd`).

Only model-checked: all liveness (`QueueDrains`, `CatchesUp`, `DegradedHeals`,
`EveryNotifierTried`), out of the proof system's reach with ENABLED.
Everything else the passing runs check is proved.

## 5. Where the code and its documents disagree

Each of the five violated runs is such a place; `PROJECT.json` quotes both sides.

1. `proxy.rs:189` promises a replay after a crash that follows the primary's 2xx. The
   row is inserted after the 2xx, so the window between the two is not covered.
2. `worker.rs:165` says degraded is preserved by the poller. It is decided from a row
   read in an earlier lock section.
3. `README.md:44` says that a divergence is a bug of one backend. The proxy queues a
   write that the primary refused and retries it at the shadow, where a later write may
   have made it acceptable: copies of one correct program then differ for good.
4. `README.md:28` says a restart leads to a resync. Degrading and resyncing overwrite
   the uptime the next one would be compared with.
5. `README.md:25` says any divergence is recorded. `truncate` may panic before.

Noticed while reading, without a run of their own:

* A crash between `move_to_failed` and the degraded upsert leaves a write given up and
  the shadow unmarked (`README.md:20`; `GivingUpIsFlagged` counts such writes).
* `worker.rs:92` ties "live" to the resync of the write given up, but any completed
  resync of the shadow marks it live, one with an older snapshot included
  (`worker.rs:268`); in `Conformance` such a resync is not `clean`.
* A sampled read may reach the shadow before the writes that preceded it at the primary
  (`proxy.rs:252`): a passing alarm, which `NoAlarmWhenQuiet` leaves out.
* Restarts of both backends, or a write given up after the primary's, may lose
  everything: the resync loads an empty peer. `DataSurvives` is about the restarts of one
  backend, and says of the shadow only what holds while no write is given up.
* A client that hangs up before the primary's answer leaves a write that may be executed
  there and is never queued (`proxy.rs:147`; `MissingIsExplained` counts it as explained).
* The degraded gauge is absent after a restart beside a row that says degraded
  (`metrics.rs:54`), until a resync or a give-up sets it.
* The alert's `observed_at_ns` is a new clock reading, not the row's (`alerting.rs:46`,
  `proxy.rs:315`).
* `descended_from` is always NULL (`proxy.rs:289` passes None), so the dashboard's
  "(degraded)" tag never shows.
* The JSON blob of a diff is stored untruncated (`config.rs:57`).
* A move cut in half, by a crash or by an error of the DELETE that `worker.rs:86` passes
  over, counts its write twice in the scoreboard's denominator, and once more for each
  such move of the same write (`db.rs:470`, bounded by `HidesNoDivergence`).
* A `since` after 2262-04-11 wraps in a release build and panics in a debug build
  (`dashboard.rs:95`); a date no month has, such as 02-31, is taken as a day of the next.
* A database error in `get_diff` is shown as "not found" (`db.rs:384`).
* The replayed request carries the content type and no other header of the client's
  (`worker.rs:57`); `Conformance`'s backends see the write only.

## 6. Not modelled

* Dashboard: the page of one diff, and HTML.
* Scoreboard: the degraded banner, JSON and HTML.
* Header forwarding and request classification: stateless tables.
* Start-up and configuration: values become constants.
* Counters that are raised and never read.

## 7. Plan

Done, in order of weight: write path; its abstract ledger and proofs; health and
resync with proofs; read path and alerting with proofs; scoreboard with proofs; `Conformance`,
composing the write path with the backends' data, with proofs; calendar and dashboard.

Proved since: every safety property the passing runs check.

Next:

1. The scoreboard's degraded banner beside its other figures.
