---------------------------- MODULE AgreementProofs ----------------------------
(***************************************************************************)
(* What identical backends come to hold, for any clients, restarts, failed *)
(* calls and resyncs.  ConformanceProofs shows that the shadow misses      *)
(* nothing; here: that it executes nothing the primary refused, once each  *)
(* and, for one client, in the primary's order; so that a read sampled     *)
(* while nothing is pending does not diverge.                              *)
(***************************************************************************)
EXTENDS ConformanceProofs, FiniteSetTheorems

(* What backends and snapshots hold was executed, and what the worker is    *)
(* busy with was queued.                                                    *)
Executed(r) == r \in primary \/ applied[r] > 0

HeldInv ==
    /\ \A b \in Backends : \A r \in Holds(b) : Executed(r)
    /\ \A i \in DOMAIN resyncs : \A k \in DOMAIN resyncs[i].holds : Executed(resyncs[i].holds[k])
    /\ wpc \notin {"idle", "popping"} => rowid[wreq] > 0

LEMMA StaysExecuted ==
  ASSUME TypeOK, RowsInv, [Next]_vars
  PROVE  /\ \A r \in Requests : Executed(r) => Executed(r)'
         /\ (wpc \notin {"idle", "popping"} => rowid[wreq] > 0)
              => (wpc' \notin {"idle", "popping"} => rowid'[wreq'] > 0)
<1> USE DEF TypeOK, Executed, handlerVars, dbVars, workerVars, shadowVars, ghostVars
<1> DEFINE Goal == /\ \A r \in Requests : Executed(r) => Executed(r)'
                   /\ (wpc \notin {"idle", "popping"} => rowid[wreq] > 0)
                        => (wpc' \notin {"idle", "popping"} => rowid'[wreq'] > 0)
<1>1. ASSUME NEW r \in Requests, Handling(r) PROVE Goal
  BY <1>1 DEF Handling, Receive, PrimaryConfirms, PrimaryRefuses, PrimaryFails, Disconnect,
              Stamp, Enqueue, EnqueueFails
<1>2. ASSUME NEW r \in Requests, PrimaryApplies(r) \/ LateDelivery(r) \/ BackoffElapses(r) PROVE Goal
  BY <1>2 DEF PrimaryApplies, LateDelivery, BackoffElapses
<1>3. CASE Polling
  BY <1>3 DEF Polling, PollClock, PopNothing, PopFails, Pop, RowsInv
<1>4. CASE ShadowApplies \/ ShadowRefuses \/ AwaitingShadow
  BY <1>4 DEF ShadowApplies, ShadowRefuses, AwaitingShadow, ReplyArrives, SendFails
<1>5. CASE Recording
  BY <1>5 DEF Recording, MarkSucceeded, MarkSucceededFails, MarkFailedAttempt,
              MarkFailedAttemptFails, InsertFailed, DeleteMoved, MoveFails, Degrade, DegradeFails
<1>6. CASE CrashRestart
  BY <1>6 DEF CrashRestart
<1>7. CASE UNCHANGED vars
  BY <1>7 DEF vars
<1> QED BY <1>1, <1>2, <1>3, <1>4, <1>5, <1>6, <1>7 DEF Next

(* What a backend holds after a step it held before, executes now, or finds *)
(* in a snapshot.                                                           *)
LEMMA HoldsStep ==
  ASSUME DataTypeOK, TypeOK, [SystemNext]_systemVars, NEW b \in Backends, NEW r \in Holds(b)'
  PROVE  \/ r \in Holds(b)
         \/ r \in Requests /\ Executed(r)'
         \/ \E i \in DOMAIN resyncs : \E k \in DOMAIN resyncs[i].holds : r = resyncs[i].holds[k]
<1>0. /\ data \in [Backends -> Seq(Requests)] /\ wreq \in Requests
      /\ "primary" \in Backends /\ "shadow" \in Backends
      /\ applied \in [Requests -> Nat]
  BY DEF DataTypeOK, TypeOK, Backends
<1>1. CASE UNCHANGED data
  BY <1>1 DEF Holds
<1>2. ASSUME NEW c \in Backends, NEW q \in Requests, Executes(c, q), Executed(q)'
      PROVE  r \in Holds(b) \/ (r \in Requests /\ Executed(r)')
  <2>1. Holds(b)' = IF b = c THEN Holds(c) \cup {q} ELSE Holds(b)
    BY <1>2, ExecutesType DEF DataTypeOK
  <2> QED BY <1>2, <2>1
<1>3. CASE Writing
  <2>1. ASSUME NEW q \in Requests, PrimaryExecutes(q) \/ CopyArrivesLate(q)
        PROVE  r \in Holds(b) \/ (r \in Requests /\ Executed(r)')
    <3>1. Executed(q)'
      BY <1>0, <2>1 DEF PrimaryExecutes, CopyArrivesLate, PrimaryApplies, LateDelivery, Executed
    <3> QED BY <1>0, <1>2, <2>1, <3>1 DEF PrimaryExecutes, CopyArrivesLate
  <2>2. CASE ShadowExecutes
    <3>1. PICK q \in Requests : q = wreq
      BY <1>0
    <3>2. Executes("shadow", q) /\ Executed(q)'
      BY <1>0, <2>2, <3>1 DEF ShadowExecutes, ShadowApplies, Executed, workerVars
    <3> QED BY <1>0, <1>2, <3>2
  <2>3. ASSUME NEW q \in Requests, ClientWrites(q) \/ PrimaryTurnsDown(q) PROVE UNCHANGED data
    BY <2>3 DEF ClientWrites, PrimaryTurnsDown, Elsewhere, backendVars
  <2>4. ShadowTurnsDown \/ KeepsTrack \/ LosesTrack \/ GivesUp => UNCHANGED data
    BY DEF ShadowTurnsDown, KeepsTrack, LosesTrack, GivesUp, Elsewhere, backendVars
  <2> QED BY <1>1, <1>3, <2>1, <2>2, <2>3, <2>4 DEF Writing
<1>4. CASE Resyncing
  <2>1. ASSUME NEW c \in Backends, BackendRestarts(c) \/ PollsRestarted(c) PROVE r \in Holds(b)
    <3>1. data' = [data EXCEPT ![c] = <<>>] \/ data' = data
      BY <2>1 DEF BackendRestarts, PollsRestarted
    <3>2. CASE data' = [data EXCEPT ![c] = <<>>]
      <4>1. data'[b] = data[b] \/ data'[b] = <<>>
        BY <1>0, <3>2
      <4>2. DOMAIN <<>> = {}
        OBVIOUS
      <4> QED BY <4>1, <4>2 DEF Holds
    <3> QED BY <1>1, <3>1, <3>2 DEF Holds
  <2>2. ASSUME NEW i \in DOMAIN resyncs, LoadSnapshot(i) \/ LateLoad(i)
        PROVE  \/ r \in Holds(b)
               \/ \E k \in DOMAIN resyncs[i].holds : r = resyncs[i].holds[k]
    <3>1. data'[b] = data[b] \/ data'[b] = resyncs[i].holds
      BY <1>0, <2>2 DEF LoadSnapshot, LateLoad, Loads
    <3> QED BY <3>1 DEF Holds
  <2>3. ASSUME NEW i \in DOMAIN resyncs, TakeSnapshot(i) \/ CompleteResync(i) \/ ResyncFails(i)
        PROVE  UNCHANGED data
    BY <2>3 DEF TakeSnapshot, CompleteResync, ResyncFails, backendVars
  <2> QED BY <1>1, <1>4, <2>1, <2>2, <2>3 DEF Resyncing
<1>5. CASE Reading \/ ProxyCrashes \/ UNCHANGED systemVars
  BY <1>1, <1>5
     DEF Reading, PrimaryAnswers, CheckDegraded, Compares, ReadFails, ProxyCrashes, systemVars, backendVars
<1> QED BY <1>3, <1>4, <1>5 DEF SystemNext

(* A snapshot holds what it held, or what a backend holds when it is taken. *)
LEMMA SnapshotsStep ==
  ASSUME DataTypeOK, Evolves, NEW i \in DOMAIN resyncs', NEW k \in DOMAIN resyncs'[i].holds
  PROVE  \/ i \in DOMAIN resyncs /\ k \in DOMAIN resyncs[i].holds
              /\ resyncs'[i].holds[k] = resyncs[i].holds[k]
         \/ \E b \in Backends : resyncs'[i].holds[k] \in Holds(b)
<1>1. ASSUME i \in DOMAIN resyncs, Kept(resyncs[i], resyncs'[i]) \/ Advanced(i)
      PROVE  \/ resyncs'[i].holds = resyncs[i].holds
             \/ resyncs'[i].holds = <<>>
             \/ \E b \in Backends : resyncs'[i].holds = data[b]
  <2> DEFINE s == resyncs[i]
             h == data[Peer(s.to)]
             u == Undisturbed(i)
  <2>1. s \in Resync /\ s.to \in Backends /\ Peer(s.to) \in Backends
    BY <1>1, HoldsType, PeerType DEF DataTypeOK
  <2>2. \/ Kept(s, resyncs'[i])
        \/ resyncs'[i] = [s EXCEPT !.phase = "load", !.holds = h, !.clean = u]
        \/ resyncs'[i] = [s EXCEPT !.phase = "loaded"]
        \/ resyncs'[i] = [s EXCEPT !.phase = "orphan"]
        \/ resyncs'[i] = [s EXCEPT !.phase = "orphan", !.clean = FALSE]
        \/ resyncs'[i] = Over(s.to)
    BY <1>1 DEF Advanced
  <2>3. Over(s.to).holds = <<>>
    BY DEF Over
  <2>4. resyncs'[i].holds = s.holds \/ resyncs'[i].holds = <<>> \/ resyncs'[i].holds = h
    <3> HIDE DEF h, u
    <3> QED BY <2>1, <2>2, <2>3 DEF Resync, Kept
  <2> QED BY <2>1, <2>4
<1>2. DOMAIN <<>> = {} /\ \A b \in Backends : Spawned(b).holds = <<>>
  BY DEF Spawned
<1>3. \A b \in Backends : k \in DOMAIN data[b] => data[b][k] \in Holds(b)
  BY DEF Holds
<1> QED BY <1>1, <1>2, <1>3 DEF Evolves

LEMMA HeldInvHolds == SystemSafety => []HeldInv
<1>1. SystemInit => HeldInv
  BY Beginning DEF SystemInit, Init, HeldInv, Backends
<1>2. ASSUME DataTypeOK, TypeOK, RowsInv, HeldInv, [SystemNext]_systemVars PROVE HeldInv'
  <2>1. /\ \A r \in Requests : Executed(r) => Executed(r)'
        /\ wpc' \notin {"idle", "popping"} => rowid'[wreq'] > 0
    BY <1>2, StaysExecuted, StepIsWriteReplay DEF HeldInv
  <2>2. /\ \A b \in Backends : Holds(b) \subseteq Requests
        /\ \A i \in DOMAIN resyncs : \A k \in DOMAIN resyncs[i].holds : resyncs[i].holds[k] \in Requests
    <3>1. \A i \in DOMAIN resyncs : resyncs[i].holds \in Seq(Requests)
      BY <1>2, HoldsType DEF DataTypeOK
    <3> QED BY <1>2, <3>1, HoldsType, ElementOfSeq DEF DataTypeOK
  <2>3. ASSUME NEW b \in Backends, NEW r \in Holds(b)' PROVE Executed(r)'
    BY <1>2, <2>1, <2>2, HoldsStep DEF HeldInv
  <2>4. ASSUME NEW i \in DOMAIN resyncs', NEW k \in DOMAIN resyncs'[i].holds
        PROVE  Executed(resyncs[i].holds[k])'
    <3>1. Evolves
      BY <1>2, TasksStep DEF DataTypeOK
    <3>2. \/ i \in DOMAIN resyncs /\ k \in DOMAIN resyncs[i].holds
               /\ resyncs'[i].holds[k] = resyncs[i].holds[k]
          \/ \E b \in Backends : resyncs'[i].holds[k] \in Holds(b)
      BY <1>2, <3>1, SnapshotsStep
    <3>3. resyncs'[i].holds[k] \in Requests /\ Executed(resyncs'[i].holds[k])
      BY <1>2, <2>2, <3>2 DEF HeldInv
    <3> QED BY <2>1, <3>3 DEF Executed
  <2> QED BY <2>1, <2>3, <2>4 DEF HeldInv
<1>3. SystemSafety => [](TypeOK /\ RowsInv)
  BY ImplementsWriteReplay, TypeCorrect, RowsInvHolds, PTL
<1> QED BY <1>1, <1>2, <1>3, DataTypeCorrect, PTL DEF SystemSafety

-----------------------------------------------------------------------------
(* A step that leaves the backends in step completes a clean resync, is of  *)
(* no concern to the writes, or is a step of the write path.                *)
PathMoves ==
    \/ \E r \in Requests : PrimaryExecutes(r) \/ CopyArrivesLate(r)
    \/ ShadowExecutes
    \/ /\ UNCHANGED data
       /\ \/ \E r \in Requests : Receive(r) \/ (PrimaryRefuses(r) /\ ~Accepts("primary", r))
          \/ ShadowRefuses /\ ~Accepts("shadow", wreq)
          \/ \E r \in Requests : PrimaryConfirms(r) \/ Stamp(r) \/ Enqueue(r) \/ BackoffElapses(r)
          \/ Polling \/ ReplyArrives
          \/ MarkSucceeded \/ MarkFailedAttempt \/ MarkFailedAttemptFails
          \/ InsertFailed \/ DeleteMoved \/ MoveFails

LEMMA InStepCases ==
  ASSUME DataTypeOK, CleanInv, [SystemNext]_systemVars, inStep'
  PROVE  /\ UNCHANGED invalid
         /\ \/ UNCHANGED <<vars, data>> /\ Calm /\ data["primary"] = data["shadow"]
            \/ UNCHANGED <<vars, data>> /\ inStep
            \/ PathMoves /\ inStep
<1>0. inStep \in BOOLEAN /\ \A i \in DOMAIN resyncs : resyncs[i] \in Resync
  BY HoldsType DEF DataTypeOK
<1> USE DEF backendVars, watchVars
<1>1. CASE Writing
  <2>1. ASSUME NEW r \in Requests,
               ClientWrites(r) \/ PrimaryExecutes(r) \/ PrimaryTurnsDown(r) \/ CopyArrivesLate(r)
        PROVE  UNCHANGED <<invalid, inStep>> /\ PathMoves
    BY <2>1 DEF ClientWrites, PrimaryExecutes, PrimaryTurnsDown, CopyArrivesLate, Elsewhere, PathMoves
  <2>2. ShadowExecutes \/ ShadowTurnsDown => UNCHANGED <<invalid, inStep>> /\ PathMoves
    BY DEF ShadowExecutes, ShadowTurnsDown, Elsewhere, PathMoves
  <2>3. KeepsTrack => UNCHANGED <<invalid, inStep>> /\ PathMoves
    BY DEF KeepsTrack, Elsewhere, PathMoves
  <2>4. ~LosesTrack /\ ~GivesUp
    BY DEF LosesTrack, GivesUp, SetsApart
  <2> QED BY <1>1, <2>1, <2>2, <2>3, <2>4 DEF Writing
<1>2. CASE Resyncing
  <2>1. ASSUME NEW b \in Backends, BackendRestarts(b) \/ PollsRestarted(b)
        PROVE  UNCHANGED <<invalid, inStep, vars, data>>
    BY <2>1 DEF BackendRestarts, PollsRestarted, SetsApart
  <2>2. ASSUME NEW i \in DOMAIN resyncs,
               TakeSnapshot(i) \/ LoadSnapshot(i) \/ ResyncFails(i) \/ LateLoad(i)
        PROVE  UNCHANGED <<invalid, inStep, vars, data>>
    BY <2>2 DEF TakeSnapshot, LoadSnapshot, ResyncFails, LateLoad, Loads, SetsApart
  <2>3. ASSUME NEW i \in DOMAIN resyncs, CompleteResync(i)
        PROVE  /\ UNCHANGED <<invalid, vars, data>>
               /\ inStep \/ (Calm /\ data["primary"] = data["shadow"])
    BY <1>0, <2>3 DEF CompleteResync, CleanInv, Knows
  <2> QED BY <1>2, <2>1, <2>2, <2>3 DEF Resyncing
<1>3. CASE Reading \/ UNCHANGED systemVars
  BY <1>3 DEF Reading, PrimaryAnswers, CheckDegraded, Compares, ReadFails, systemVars
<1>4. ~ProxyCrashes
  BY DEF ProxyCrashes, SetsApart
<1> QED BY <1>1, <1>2, <1>3, <1>4 DEF SystemNext

(* What such a step does to the data. *)
LEMMA DataMoves ==
  ASSUME DataTypeOK, TypeOK
  PROVE  /\ UNCHANGED data => \A b \in Backends : Holds(b)' = Holds(b)
         /\ \A r \in Requests : PrimaryExecutes(r) =>
              /\ Holds("primary")' = Holds("primary") \cup {r} /\ Holds("shadow")' = Holds("shadow")
              /\ data'["primary"] = Append(data["primary"], r) /\ data'["shadow"] = data["shadow"]
         /\ ShadowExecutes =>
              /\ Holds("primary")' = Holds("primary") /\ Holds("shadow")' = Holds("shadow") \cup {wreq}
              /\ data'["shadow"] = Append(data["shadow"], wreq) /\ data'["primary"] = data["primary"]
         /\ \A b \in Backends : Holds(b) \subseteq Requests /\ data[b] \in Seq(Requests)
         /\ "primary" \in Backends /\ "shadow" \in Backends /\ "primary" # "shadow"
         /\ wreq \in Requests
<1>0. /\ data \in [Backends -> Seq(Requests)] /\ wreq \in Requests
      /\ "primary" \in Backends /\ "shadow" \in Backends /\ "primary" # "shadow"
  BY DEF DataTypeOK, TypeOK, Backends
<1>1. UNCHANGED data => \A b \in Backends : Holds(b)' = Holds(b)
  BY DEF Holds
<1>2. \A b \in Backends : Holds(b) \subseteq Requests /\ data[b] \in Seq(Requests)
  BY <1>0, HoldsType DEF DataTypeOK
<1>3. ASSUME NEW c \in Backends, NEW r \in Requests, Executes(c, r)
      PROVE  /\ data'[c] = Append(data[c], r)
             /\ \A b \in Backends : b # c => data'[b] = data[b] /\ Holds(b)' = Holds(b)
             /\ Holds(c)' = Holds(c) \cup {r}
  <2>1. \A b \in Backends : Holds(b)' = IF b = c THEN Holds(c) \cup {r} ELSE Holds(b)
    BY <1>3, ExecutesType DEF DataTypeOK
  <2> QED BY <1>0, <1>3, <2>1 DEF Executes
<1>4. \A r \in Requests : PrimaryExecutes(r) =>
        /\ Holds("primary")' = Holds("primary") \cup {r} /\ Holds("shadow")' = Holds("shadow")
        /\ data'["primary"] = Append(data["primary"], r) /\ data'["shadow"] = data["shadow"]
  BY <1>0, <1>3 DEF PrimaryExecutes
<1>5. ShadowExecutes =>
        /\ Holds("primary")' = Holds("primary") /\ Holds("shadow")' = Holds("shadow") \cup {wreq}
        /\ data'["shadow"] = Append(data["shadow"], wreq) /\ data'["primary"] = data["primary"]
  BY <1>0, <1>3 DEF ShadowExecutes
<1> QED BY <1>0, <1>1, <1>2, <1>4, <1>5

-----------------------------------------------------------------------------
(* What is known of every write, in step or not. *)
PathFacts == TypeOK /\ WorkerInv /\ RowsInv /\ SendsInv /\ OrderInv /\ PathInv

(* The same of the system. *)
Ground == PathFacts /\ DataTypeOK /\ HeldInv /\ CleanInv /\ TrackInv

LEMMA GroundHolds == SystemSafety => []Ground
<1>1. Safety => []PathFacts
  BY TypeCorrect, RowsInvHolds, SendsInvHolds, OrderInvHolds, PathInvHolds, PTL DEF PathFacts
<1> QED BY <1>1, ImplementsWriteReplay, DataTypeCorrect, HeldInvHolds, TrackInvHolds, PTL DEF Ground

(* r is still to be executed by the shadow. *)
Due(r) ==
    \/ handler[r] \in {"new", "calling", "replied", "stamped"}
    \/ r \in queue /\ ~(wreq = r /\ (copy = "applied" \/ wpc = "succeeding"))

(* In step, a write is executed once at each backend. *)
Once ==
    /\ \A r \in Requests : late[r] = 0
    /\ \A r \in Holds("shadow") : ~Due(r)
    /\ \A r \in primary : Pending(r) => r \in Holds("primary")

OnceInv == inStep => Once

(* What was executed was sent by its client. *)
LEMMA ExecutedIsSent ==
  ASSUME Ground
  PROVE  \A r \in Requests : Executed(r) => handler[r] # "new"
<1> SUFFICES ASSUME NEW r \in Requests, Executed(r) PROVE handler[r] # "new"
  OBVIOUS
<1>1. CASE r \in primary
  BY <1>1 DEF Ground, PathFacts, PathInv
<1>2. CASE applied[r] > 0
  <2>1. rowid[r] # 0
    BY <1>2 DEF Ground, PathFacts, RowsInv
  <2>2. rowid[r] > 0
    BY <2>1 DEF Ground, PathFacts, TypeOK
  <2> QED BY <2>2 DEF Ground, PathFacts, RowsInv
<1> QED BY <1>1, <1>2 DEF Executed

LEMMA OnceStep ==
  ASSUME Ground, Ground', OnceInv, [SystemNext]_systemVars
  PROVE  OnceInv'
<1> SUFFICES ASSUME inStep' PROVE OnceInv'
  BY DEF OnceInv
<1>0. /\ TypeOK /\ WorkerInv /\ RowsInv /\ PathInv /\ DataTypeOK /\ CleanInv /\ HeldInv
      /\ TypeOK'
      /\ "primary" \in Backends /\ "shadow" \in Backends /\ wreq \in Requests
      /\ Holds("primary") \subseteq Requests /\ Holds("shadow") \subseteq Requests
  BY DataMoves DEF Ground, PathFacts
<1>1. ASSUME UNCHANGED <<vars, data>>, Once PROVE OnceInv'
  BY <1>0, <1>1, DataMoves
     DEF OnceInv, Once, Due, Pending, vars, handlerVars, dbVars, workerVars, shadowVars
<1>2. ASSUME Calm PROVE Once
  <2>1. \A r \in Holds("shadow") : handler[r] # "new"
    BY <1>0, ExecutedIsSent DEF HeldInv
  <2> QED BY <1>0, <1>2, <2>1 DEF Once, Calm, Due, Pending, TypeOK
<1>3. CASE PathMoves /\ inStep
  <2> USE <1>0, <1>3
      DEF TypeOK, OnceInv, Once, Due, Pending, handlerVars, dbVars, workerVars, shadowVars, ghostVars
  <2>1. ASSUME NEW r \in Requests, PrimaryExecutes(r) PROVE OnceInv'
    <3>1. /\ Holds("primary")' = Holds("primary") \cup {r} /\ Holds("shadow")' = Holds("shadow")
      BY <2>1, DataMoves
    <3> QED BY <2>1, <3>1 DEF PrimaryExecutes, PrimaryApplies
  <2>2. ASSUME NEW r \in Requests, CopyArrivesLate(r) PROVE OnceInv'
    BY <2>2 DEF CopyArrivesLate, LateDelivery
  <2>3. CASE ShadowExecutes
    <3>1. wreq \in queue /\ rowid[wreq] > 0 /\ handler[wreq] = "responded"
      BY <2>3 DEF ShadowExecutes, ShadowApplies, WorkerInv, RowsInv, Processing
    <3>2. /\ Holds("primary")' = Holds("primary") /\ Holds("shadow")' = Holds("shadow") \cup {wreq}
      BY <2>3, DataMoves
    <3> QED BY <2>3, <3>1, <3>2 DEF ShadowExecutes, ShadowApplies
  <2> SUFFICES ASSUME UNCHANGED data, \A b \in Backends : Holds(b)' = Holds(b) PROVE OnceInv'
    BY <1>3, <2>1, <2>2, <2>3, DataMoves DEF PathMoves
  <2>4. ASSUME NEW r \in Requests, Receive(r) \/ PrimaryRefuses(r) PROVE OnceInv'
    BY <2>4 DEF Receive, PrimaryRefuses, PathInv
  <2>5. ASSUME NEW r \in Requests, PrimaryConfirms(r) \/ Stamp(r) \/ Enqueue(r) \/ BackoffElapses(r)
        PROVE  OnceInv'
    BY <2>5 DEF PrimaryConfirms, Stamp, Enqueue, BackoffElapses
  <2>6. CASE Polling \/ ShadowRefuses \/ ReplyArrives
    BY <2>6 DEF Polling, PollClock, PopNothing, PopFails, Pop, ShadowRefuses, ReplyArrives, WorkerInv
  <2>7. CASE MarkSucceeded \/ MarkFailedAttempt \/ MarkFailedAttemptFails
    BY <2>7 DEF MarkSucceeded, MarkFailedAttempt, MarkFailedAttemptFails, WorkerInv
  <2>8. CASE InsertFailed \/ DeleteMoved \/ MoveFails
    BY <2>8 DEF InsertFailed, DeleteMoved, MoveFails, WorkerInv, Processing
  <2> QED BY <1>3, <2>1, <2>2, <2>3, <2>4, <2>5, <2>6, <2>7, <2>8 DEF PathMoves
<1> QED BY <1>0, <1>1, <1>2, <1>3, InStepCases DEF OnceInv

(* In step, the shadow executes nothing the primary refused: the primary    *)
(* would still refuse what it refused once, if refusals last.               *)
Refused ==
    /\ Holds("shadow") \subseteq Holds("primary")
    /\ \A r \in Requests \ Holds("primary") :
         handler[r] \in {"replied", "stamped"} \/ r \in queue => ~Accepts("primary", r)

RefusedInv == inStep /\ RefusalsLast => Refused

LEMMA RefusedStep ==
  ASSUME Ground, OnceInv, RefusedInv, [SystemNext]_systemVars
  PROVE  RefusedInv'
<1> SUFFICES ASSUME inStep', RefusalsLast PROVE Refused'
  BY DEF RefusedInv, RefusalsLast
<1>0. /\ TypeOK /\ WorkerInv /\ RowsInv /\ OrderInv /\ DataTypeOK /\ CleanInv /\ TrackInv
      /\ "primary" \in Backends /\ "shadow" \in Backends /\ wreq \in Requests
      /\ Holds("primary") \subseteq Requests /\ Holds("shadow") \subseteq Requests
      /\ UNCHANGED invalid
  BY DataMoves, InStepCases DEF Ground, PathFacts
<1>1. ASSUME UNCHANGED <<vars, data>>, Refused PROVE Refused'
  BY <1>0, <1>1, DataMoves DEF Refused, Accepts, vars, handlerVars, dbVars
<1>2. ASSUME Calm, data["primary"] = data["shadow"] PROVE Refused
  BY <1>2 DEF Refused, Calm, Holds
<1>3. CASE PathMoves /\ inStep
  <2>0. Refused /\ Once
    BY <1>3 DEF RefusedInv, OnceInv
  <2>1. ASSUME NEW q \in Requests, PrimaryExecutes(q) PROVE Refused'
    <3>1. /\ Holds("primary")' = Holds("primary") \cup {q} /\ Holds("shadow")' = Holds("shadow")
          /\ UNCHANGED <<handler, queue>> /\ handler[q] = "calling"
      BY <1>0, <1>3, <2>1, DataMoves DEF PrimaryExecutes, PrimaryApplies, TrackInv, dbVars
    <3>2. ASSUME NEW r \in Requests \ Holds("primary")',
                 handler[r] \in {"replied", "stamped"} \/ r \in queue
          PROVE  ~Accepts("primary", r)'
      <4>1. handler[r] # "new"
        BY <1>0, <3>2 DEF TypeOK, RowsInv
      <4>2. q \notin Needs[r]
        BY <1>0, <3>1, <4>1 DEF RefusalsLast, OrderInv
      <4>3. ~Accepts("primary", r)
        BY <2>0, <3>1, <3>2 DEF Refused
      <4> QED BY <1>0, <3>1, <4>2, <4>3 DEF Accepts
    <3> QED BY <2>0, <3>1, <3>2 DEF Refused
  <2>2. ASSUME NEW r \in Requests, CopyArrivesLate(r) PROVE FALSE
    BY <2>0, <2>2 DEF CopyArrivesLate, LateDelivery, Once
  <2>3. CASE ShadowExecutes
    <3>1. /\ Holds("primary")' = Holds("primary") /\ Holds("shadow")' = Holds("shadow") \cup {wreq}
          /\ UNCHANGED <<handler, queue>> /\ wreq \in queue /\ Accepts("shadow", wreq)
      BY <1>0, <2>3, DataMoves
         DEF ShadowExecutes, ShadowApplies, handlerVars, dbVars, WorkerInv, Processing
    <3>2. wreq \in Holds("primary")
      BY <1>0, <2>0, <3>1 DEF Refused, Accepts
    <3> QED BY <1>0, <2>0, <3>1, <3>2 DEF Refused, Accepts
  <2> SUFFICES ASSUME UNCHANGED data, \A b \in Backends : Holds(b)' = Holds(b) PROVE Refused'
    BY <1>0, <1>3, <2>1, <2>2, <2>3, DataMoves DEF PathMoves
  <2> USE <1>0, <2>0
      DEF TypeOK, Refused, Accepts, handlerVars, dbVars, workerVars, shadowVars, ghostVars
  <2>4. ASSUME NEW r \in Requests, Receive(r) \/ Stamp(r) \/ Enqueue(r) \/ BackoffElapses(r)
        PROVE  Refused'
    BY <2>4 DEF Receive, Stamp, Enqueue, BackoffElapses
  <2>5. ASSUME NEW r \in Requests, PrimaryConfirms(r) PROVE Refused'
    BY <2>5 DEF PrimaryConfirms, Once, Pending
  <2>6. ASSUME NEW r \in Requests, PrimaryRefuses(r), ~Accepts("primary", r) PROVE Refused'
    BY <2>6 DEF PrimaryRefuses
  <2>7. CASE Polling \/ ShadowRefuses \/ ReplyArrives
    BY <2>7 DEF Polling, PollClock, PopNothing, PopFails, Pop, ShadowRefuses, ReplyArrives
  <2>8. CASE MarkSucceeded \/ MarkFailedAttempt \/ MarkFailedAttemptFails
    BY <2>8 DEF MarkSucceeded, MarkFailedAttempt, MarkFailedAttemptFails
  <2>9. CASE InsertFailed \/ DeleteMoved \/ MoveFails
    BY <2>9 DEF InsertFailed, DeleteMoved, MoveFails
  <2> QED BY <1>3, <2>1, <2>2, <2>3, <2>4, <2>5, <2>6, <2>7, <2>8, <2>9 DEF PathMoves
<1> QED BY <1>0, <1>1, <1>2, <1>3, InStepCases DEF RefusedInv

-----------------------------------------------------------------------------
(* What the shadow does not hold yet. *)
Missing == Holds("primary") \ Holds("shadow")

(* A write comes to each backend for the first time. *)
LEMMA FirstAtPrimary ==
  ASSUME Ground, inStep, NEW q \in Requests, PrimaryExecutes(q)
  PROVE  /\ handler[q] = "calling" /\ sends[q] = 0 /\ rowid[q] = 0
         /\ q \notin Holds("primary") /\ q \notin Holds("shadow")
         /\ \A r \in Holds("primary") : handler[r] # "new"
<1>1. q \in toPrimary /\ handler[q] = "calling" /\ q \notin primary
  BY DEF Ground, PathFacts, TrackInv, PathInv, PrimaryExecutes, PrimaryApplies
<1>2. rowid[q] = 0
  BY <1>1 DEF Ground, PathFacts, TypeOK, RowsInv
<1>3. sends[q] = 0 /\ ~(applied[q] > 0)
  BY <1>2 DEF Ground, PathFacts, RowsInv
<1>4. ~Executed(q)
  BY <1>1, <1>3 DEF Executed
<1> QED BY <1>1, <1>2, <1>3, <1>4, ExecutedIsSent, DataMoves DEF Ground, PathFacts, HeldInv

LEMMA FirstAtShadow ==
  ASSUME Ground, Once, ShadowExecutes \/ ShadowRefuses
  PROVE  wreq \in queue /\ wpc = "sent" /\ copy = "wire" /\ wreq \notin Holds("shadow")
<1>1. wpc = "sent" /\ copy = "wire"
  BY DEF ShadowExecutes, ShadowApplies, ShadowRefuses
<1>2. wreq \in queue
  BY <1>1 DEF Ground, PathFacts, TypeOK, WorkerInv, Processing
<1> QED BY <1>1, <1>2 DEF Once, Due

(* In step, the lengths of the logs tell how many writes are missing.       *)
Counted ==
    IsFiniteSet(Missing) /\ Len(data["primary"]) = Len(data["shadow"]) + Cardinality(Missing)

CountInv == inStep /\ RefusalsLast => Counted

LEMMA CountStep ==
  ASSUME Ground, OnceInv, RefusedInv, RefusedInv', CountInv, [SystemNext]_systemVars
  PROVE  CountInv'
<1> SUFFICES ASSUME inStep', RefusalsLast PROVE Counted'
  BY DEF CountInv, RefusalsLast
<1>0. /\ TypeOK /\ DataTypeOK /\ CleanInv
      /\ "primary" \in Backends /\ "shadow" \in Backends
      /\ data["primary"] \in Seq(Requests) /\ data["shadow"] \in Seq(Requests)
      /\ Len(data["primary"]) \in Nat /\ Len(data["shadow"]) \in Nat
  BY DataMoves, LenProperties DEF Ground, PathFacts
<1>1. ASSUME UNCHANGED data, Counted PROVE Counted'
  <2>1. Missing' = Missing
    BY <1>0, <1>1, DataMoves DEF Missing
  <2> QED BY <1>1, <2>1 DEF Counted
<1>2. ASSUME data["primary"] = data["shadow"] PROVE Counted
  <2>1. Missing = {}
    BY <1>2 DEF Missing, Holds
  <2> QED BY <1>0, <1>2, <2>1, FS_EmptySet DEF Counted
<1>3. CASE PathMoves /\ inStep
  <2>0. Counted /\ Once /\ Cardinality(Missing) \in Nat
    BY <1>3, FS_CardinalityType DEF CountInv, OnceInv, Counted
  <2>1. ASSUME NEW q \in Requests, PrimaryExecutes(q) PROVE Counted'
    <3>1. Missing' = Missing \cup {q} /\ q \notin Missing
      BY <1>0, <1>3, <2>1, DataMoves, FirstAtPrimary DEF Missing
    <3>2. IsFiniteSet(Missing') /\ Cardinality(Missing') = Cardinality(Missing) + 1
      BY <2>0, <3>1, FS_AddElement DEF Counted
    <3>3. data'["primary"] = Append(data["primary"], q) /\ data'["shadow"] = data["shadow"]
      BY <1>0, <2>1, DataMoves
    <3>4. Len(data'["primary"]) = Len(data["primary"]) + 1
      BY <1>0, <3>3, AppendProperties
    <3> QED BY <1>0, <2>0, <3>2, <3>3, <3>4 DEF Counted
  <2>2. CASE ShadowExecutes
    <3>0. PICK q \in Requests : q = wreq
      BY DEF Ground, PathFacts, TypeOK
    <3>1. /\ Holds("primary")' = Holds("primary") /\ Holds("shadow")' = Holds("shadow") \cup {q}
          /\ data'["shadow"] = Append(data["shadow"], q) /\ data'["primary"] = data["primary"]
      BY <1>0, <2>2, <3>0, DataMoves
    <3>2. q \in Holds("primary") /\ q \notin Holds("shadow")
      BY <2>0, <2>2, <3>0, <3>1, FirstAtShadow DEF RefusedInv, Refused, RefusalsLast
    <3>3. Missing' = Missing \ {q} /\ q \in Missing
      BY <3>1, <3>2 DEF Missing
    <3>4. IsFiniteSet(Missing') /\ Cardinality(Missing') = Cardinality(Missing) - 1
      BY <2>0, <3>3, FS_RemoveElement DEF Counted
    <3>5. Len(data'["shadow"]) = Len(data["shadow"]) + 1
      BY <1>0, <3>0, <3>1, AppendProperties
    <3> QED BY <1>0, <2>0, <3>1, <3>4, <3>5 DEF Counted
  <2>3. ASSUME NEW r \in Requests, CopyArrivesLate(r) PROVE FALSE
    BY <2>0, <2>3 DEF CopyArrivesLate, LateDelivery, Once
  <2> QED BY <1>1, <1>3, <2>0, <2>1, <2>2, <2>3 DEF PathMoves
<1> QED BY <1>0, <1>1, <1>2, <1>3, InStepCases DEF CountInv

(* In step, with one client: the shadow takes what it misses when it is     *)
(* first sent it, and turns down only what the primary refused.             *)
Takes(r) ==
    /\ r \notin invalid /\ Needs[r] \subseteq Holds("primary")
    /\ \A q \in Needs[r] : q \in Prior[r]

FirstTry ==
    /\ \A r \in Missing : Takes(r) /\ (sends[r] = 0 \/ (wreq = r /\ copy = "wire"))
    /\ wpc \in {"failing", "inserted", "moved"} \/ copy = "refused" => wreq \notin Holds("primary")

FirstTryInv == inStep /\ OneClient => FirstTry

(* What its client sent before a write the shadow holds, or is about to.    *)
LEMMA EarlierIsHeld ==
  ASSUME Ground, inStep, FirstTry, wreq \in queue, wpc = "sent", copy = "wire",
         NEW q \in Prior[wreq], q \in Holds("primary")
  PROVE  q \in Holds("shadow") /\ q # wreq
<1>0. q \in Requests /\ wreq \in Requests /\ q \in Prior[wreq]
  BY DataMoves DEF Ground, PathFacts
<1>1. rowid[wreq] > 0 /\ handler[wreq] = "responded" /\ sends[wreq] > 0
  BY <1>0 DEF Ground, PathFacts, RowsInv, TypeOK, SendsInv, Processing
<1>2. handler[q] = "responded" /\ (rowid[q] > 0 => rowid[q] < rowid[wreq] /\ sends[q] > 0)
  BY <1>0, <1>1 DEF Ground, PathFacts, OrderInv
<1>3. q # wreq
  BY <1>0, <1>1, <1>2 DEF Ground, PathFacts, TypeOK
<1>4. ASSUME q \notin Holds("shadow") PROVE FALSE
  <2>1. Pending(q)
    BY <1>4 DEF Ground, TrackInv
  <2>2. q \in queue
    BY <1>2, <2>1 DEF Pending
  <2>3. sends[q] > 0
    BY <1>0, <1>2, <2>2 DEF Ground, PathFacts, TypeOK, RowsInv
  <2>4. sends[q] = 0
    BY <1>3, <1>4 DEF FirstTry, Missing
  <2> QED BY <2>3, <2>4
<1> QED BY <1>3, <1>4

LEMMA FirstTryStep ==
  ASSUME Ground, OnceInv, FirstTryInv, [SystemNext]_systemVars
  PROVE  FirstTryInv'
<1> SUFFICES ASSUME inStep', OneClient PROVE FirstTry'
  BY DEF FirstTryInv, OneClient
<1>0. /\ TypeOK /\ WorkerInv /\ RowsInv /\ OrderInv /\ DataTypeOK /\ CleanInv /\ HeldInv
      /\ "primary" \in Backends /\ "shadow" \in Backends /\ wreq \in Requests
      /\ Holds("primary") \subseteq Requests /\ Holds("shadow") \subseteq Requests
      /\ UNCHANGED invalid
  BY DataMoves, InStepCases DEF Ground, PathFacts
<1> USE DEF Takes
<1>1. ASSUME UNCHANGED <<vars, data>>, FirstTry PROVE FirstTry'
  <2>1. Missing' = Missing /\ \A b \in Backends : Holds(b)' = Holds(b)
    BY <1>0, <1>1, DataMoves DEF Missing
  <2> QED BY <1>0, <1>1, <2>1 DEF FirstTry, vars, workerVars, shadowVars, ghostVars
<1>2. ASSUME Calm, data["primary"] = data["shadow"] PROVE FirstTry
  <2>1. Missing = {}
    BY <1>2 DEF Missing, Holds
  <2> QED BY <1>0, <1>2, <2>1 DEF FirstTry, Calm, WorkerInv
<1>3. CASE PathMoves /\ inStep
  <2>0. FirstTry /\ Once
    BY <1>3 DEF FirstTryInv, OnceInv
  <2>1. ASSUME NEW q \in Requests, PrimaryExecutes(q) PROVE FirstTry'
    <3>1. /\ Holds("primary")' = Holds("primary") \cup {q} /\ Holds("shadow")' = Holds("shadow")
          /\ Missing' = Missing \cup {q} /\ Accepts("primary", q)
          /\ UNCHANGED <<sends, wreq, copy, wpc>>
      BY <1>0, <1>3, <2>1, DataMoves, FirstAtPrimary
         DEF Missing, PrimaryExecutes, PrimaryApplies, workerVars, shadowVars, ghostVars
    <3>2. /\ handler[q] = "calling" /\ sends[q] = 0 /\ rowid[q] = 0 /\ q \notin Holds("primary")
          /\ \A r \in Holds("primary") : handler[r] # "new"
      BY <1>3, <2>1, FirstAtPrimary
    <3>3. \A r \in Holds("primary") : r \in Prior[q]
      BY <1>0, <3>2 DEF OneClient, OrderInv
    <3>4. wpc \in {"failing", "inserted", "moved"} \/ copy = "refused" => wreq # q
      BY <1>0, <3>2 DEF HeldInv, WorkerInv
    <3> QED BY <1>0, <2>0, <3>1, <3>2, <3>3, <3>4 DEF FirstTry, Accepts
  <2>2. CASE ShadowExecutes
    <3>1. /\ Holds("primary")' = Holds("primary") /\ Missing' = Missing \ {wreq}
          /\ UNCHANGED <<sends, wreq, wpc>> /\ wpc = "sent" /\ copy' = "applied"
      BY <1>0, <2>2, DataMoves DEF Missing, ShadowExecutes, ShadowApplies, workerVars, ghostVars
    <3> QED BY <1>0, <2>0, <3>1 DEF FirstTry
  <2>3. ASSUME NEW r \in Requests, CopyArrivesLate(r) PROVE FALSE
    BY <2>0, <2>3 DEF CopyArrivesLate, LateDelivery, Once
  <2> SUFFICES ASSUME UNCHANGED data, UNCHANGED <<Holds("primary"), Missing>> PROVE FirstTry'
    <3>1. UNCHANGED data => UNCHANGED <<Holds("primary"), Missing>>
      BY <1>0, DataMoves DEF Missing
    <3> QED BY <1>3, <2>1, <2>2, <2>3, <3>1 DEF PathMoves
  <2>4. CASE ShadowRefuses /\ ~Accepts("shadow", wreq)
    <3>1. /\ wreq \in queue /\ wpc = "sent" /\ copy = "wire" /\ wreq \notin Holds("shadow")
          /\ UNCHANGED <<sends, wreq, wpc>>
      BY <2>0, <2>4, FirstAtShadow DEF ShadowRefuses, workerVars, ghostVars
    <3>2. ASSUME wreq \in Holds("primary") PROVE FALSE
      <4>1. Takes(wreq)
        BY <2>0, <3>1, <3>2 DEF FirstTry, Missing
      <4>2. \A q \in Needs[wreq] : q \in Holds("shadow")
        BY <1>3, <2>0, <3>1, <4>1, EarlierIsHeld
      <4> QED BY <2>4, <4>1, <4>2 DEF Accepts
    <3>3. wreq \notin Missing
      BY <3>2 DEF Missing
    <3> QED BY <1>0, <2>0, <3>1, <3>2, <3>3 DEF FirstTry
  <2> USE <1>0, <2>0
      DEF TypeOK, FirstTry, WorkerInv, handlerVars, dbVars, workerVars, shadowVars, ghostVars
  <2>5. ASSUME NEW r \in Requests,
               \/ Receive(r) \/ PrimaryConfirms(r) \/ PrimaryRefuses(r)
               \/ Stamp(r) \/ Enqueue(r) \/ BackoffElapses(r)
        PROVE  FirstTry'
    BY <2>5 DEF Receive, PrimaryConfirms, PrimaryRefuses, Stamp, Enqueue, BackoffElapses
  <2>6. CASE Polling
    <3>1. ASSUME NEW r \in Requests, Pop(r) PROVE FirstTry'
      BY <3>1 DEF Pop
    <3> QED BY <2>6, <3>1 DEF Polling, PollClock, PopNothing, PopFails
  <2>7. CASE ReplyArrives
    BY <2>7 DEF ReplyArrives
  <2>8. CASE MarkSucceeded \/ MarkFailedAttempt \/ MarkFailedAttemptFails
    BY <2>8 DEF MarkSucceeded, MarkFailedAttempt, MarkFailedAttemptFails
  <2>9. CASE InsertFailed \/ DeleteMoved \/ MoveFails
    BY <2>9 DEF InsertFailed, DeleteMoved, MoveFails
  <2> QED BY <1>3, <2>1, <2>2, <2>3, <2>4, <2>5, <2>6, <2>7, <2>8, <2>9 DEF PathMoves
<1> QED BY <1>0, <1>1, <1>2, <1>3, InStepCases DEF FirstTryInv

(* In step, with one client, the shadow's log is the beginning of the       *)
(* primary's; the rest of the primary's is in the order of its client.      *)
Ordered ==
    LET p == data["primary"]
        s == data["shadow"]
    IN  /\ Len(s) <= Len(p) /\ \A i \in 1 .. Len(s) : s[i] = p[i]
        /\ \A i \in Len(s) + 1 .. Len(p) : p[i] \notin Holds("shadow")
        /\ \A i, j \in Len(s) + 1 .. Len(p) : i < j => p[i] \in Prior[p[j]]

OrderedInv == inStep /\ RefusalsLast /\ OneClient => Ordered

LEMMA OneLonger ==
  ASSUME NEW S, NEW p \in Seq(S), NEW q \in S, NEW n \in Nat, n <= Len(p)
  PROVE  /\ Len(Append(p, q)) = Len(p) + 1
         /\ \A i \in 1 .. Len(p) : Append(p, q)[i] = p[i]
         /\ \A i \in n + 1 .. Len(p) + 1 :
              \/ i = Len(p) + 1 /\ Append(p, q)[i] = q
              \/ i \in n + 1 .. Len(p) /\ i < Len(p) + 1 /\ Append(p, q)[i] = p[i]
BY AppendProperties, LenProperties

LEMMA OrderedStep ==
  ASSUME Ground, OnceInv, RefusedInv, RefusedInv', FirstTryInv, OrderedInv, [SystemNext]_systemVars
  PROVE  OrderedInv'
<1> SUFFICES ASSUME inStep', RefusalsLast, OneClient PROVE Ordered'
  BY DEF OrderedInv, RefusalsLast, OneClient
<1> DEFINE p == data["primary"]
           s == data["shadow"]
<1>0. /\ TypeOK /\ DataTypeOK /\ CleanInv
      /\ "primary" \in Backends /\ "shadow" \in Backends
      /\ p \in Seq(Requests) /\ s \in Seq(Requests) /\ Len(p) \in Nat /\ Len(s) \in Nat
      /\ DOMAIN p = 1 .. Len(p) /\ DOMAIN s = 1 .. Len(s)
      /\ Holds("primary") \subseteq Requests
  BY DataMoves, LenProperties DEF Ground, PathFacts
<1>1. ASSUME UNCHANGED data, Ordered PROVE Ordered'
  BY <1>0, <1>1, DataMoves DEF Ordered
<1>2. ASSUME p = s PROVE Ordered
  BY <1>0, <1>2 DEF Ordered
<1>3. CASE PathMoves /\ inStep
  <2>0. Ordered /\ Once /\ FirstTry
    BY <1>3 DEF OrderedInv, OnceInv, FirstTryInv
  <2>1. ASSUME NEW q \in Requests, PrimaryExecutes(q) PROVE Ordered'
    <3>1. p' = Append(p, q) /\ s' = s /\ Holds("shadow")' = Holds("shadow")
      BY <1>0, <2>1, DataMoves
    <3>2. /\ Len(p') = Len(p) + 1 /\ \A i \in 1 .. Len(p) : p'[i] = p[i]
          /\ \A i \in Len(s) + 1 .. Len(p) + 1 :
               \/ i = Len(p) + 1 /\ p'[i] = q
               \/ i \in Len(s) + 1 .. Len(p) /\ i < Len(p) + 1 /\ p'[i] = p[i]
      BY <1>0, <2>0, <3>1, OneLonger DEF Ordered
    <3>3. /\ q \notin Holds("shadow") /\ q \notin Holds("primary") /\ handler[q] = "calling"
          /\ \A r \in Holds("primary") : r \in Requests /\ handler[r] # "new"
      BY <1>0, <1>3, <2>1, FirstAtPrimary
    <3>4. \A r \in Holds("primary") : r \in Prior[q]
      BY <3>3 DEF OneClient, Ground, PathFacts, OrderInv
    <3>5. \A i \in Len(s) + 1 .. Len(p) : p[i] \in Prior[q]
      BY <1>0, <3>4 DEF Holds
    <3>6. Len(s') <= Len(p') /\ \A i \in 1 .. Len(s') : s'[i] = p'[i]
      BY <1>0, <2>0, <3>1, <3>2 DEF Ordered
    <3>7. \A i \in Len(s') + 1 .. Len(p') : p'[i] \notin Holds("shadow")'
      BY <2>0, <3>1, <3>2, <3>3 DEF Ordered
    <3>8. \A i, j \in Len(s') + 1 .. Len(p') : i < j => p'[i] \in Prior[p'[j]]
      <4> SUFFICES ASSUME NEW i \in Len(s) + 1 .. Len(p) + 1, NEW j \in Len(s) + 1 .. Len(p) + 1, i < j
                   PROVE  p'[i] \in Prior[p'[j]]
        BY <3>1, <3>2
      <4>1. i \in Len(s) + 1 .. Len(p) /\ p'[i] = p[i]
        <5>1. i # Len(p) + 1
          BY <1>0
        <5> QED BY <3>2, <5>1
      <4>2. CASE p'[j] = q
        BY <3>5, <4>1, <4>2
      <4>3. CASE j \in Len(s) + 1 .. Len(p) /\ p'[j] = p[j]
        BY <2>0, <4>1, <4>3 DEF Ordered
      <4> QED BY <3>2, <4>2, <4>3
    <3> QED BY <3>6, <3>7, <3>8 DEF Ordered
  <2>2. CASE ShadowExecutes
    <3>0. PICK q \in Requests : q = wreq
      BY <1>0 DEF TypeOK
    <3>1. /\ Holds("primary")' = Holds("primary") /\ Holds("shadow")' = Holds("shadow") \cup {q}
          /\ s' = Append(s, q) /\ p' = p
      BY <1>0, <2>2, <3>0, DataMoves
    <3>2. q \in Holds("primary") /\ q \notin Holds("shadow")
      BY <2>0, <2>2, <3>0, <3>1, FirstAtShadow DEF RefusedInv, Refused, RefusalsLast
    <3>3. PICK k \in 1 .. Len(p) : p[k] = q
      BY <1>0, <3>2 DEF Holds
    <3>4. k > Len(s)
      <4>1. ASSUME k <= Len(s) PROVE FALSE
        <5>1. s[k] = q /\ k \in DOMAIN s
          BY <1>0, <2>0, <3>3, <4>1 DEF Ordered
        <5> QED BY <3>2, <5>1 DEF Holds
      <4> QED BY <1>0, <3>3, <4>1
    <3>5. \A i \in Len(s) + 1 .. Len(p) : p[i] \notin Prior[q]
      <4> SUFFICES ASSUME NEW i \in Len(s) + 1 .. Len(p), p[i] \in Prior[q] PROVE FALSE
        OBVIOUS
      <4>1. p[i] \in Holds("primary") /\ p[i] \notin Holds("shadow")
        BY <1>0, <2>0 DEF Ordered, Holds
      <4> QED BY <1>3, <2>0, <2>2, <3>0, <4>1, FirstAtShadow, EarlierIsHeld
    <3>6. ASSUME NEW j \in Len(s) + 2 .. Len(p), p[j] = q PROVE FALSE
      <4>1. Len(s) + 1 \in Len(s) + 1 .. Len(p) /\ j \in Len(s) + 1 .. Len(p) /\ Len(s) + 1 < j
        BY <1>0
      <4>2. p[Len(s) + 1] \in Prior[p[j]]
        BY <2>0, <4>1 DEF Ordered
      <4> QED BY <3>5, <3>6, <4>1, <4>2
    <3>7. Len(s') = Len(s) + 1 /\ s'[Len(s) + 1] = q /\ \A i \in 1 .. Len(s) : s'[i] = s[i]
      BY <1>0, <3>0, <3>1, AppendProperties
    <3>8. k = Len(s) + 1
      <4>1. ASSUME k # Len(s) + 1 PROVE k \in Len(s) + 2 .. Len(p)
        BY <1>0, <3>3, <3>4, <4>1
      <4> QED BY <3>3, <3>6, <4>1
    <3>9. /\ Len(s') <= Len(p') /\ \A i \in 1 .. Len(s') : s'[i] = p'[i]
      BY <1>0, <2>0, <3>1, <3>3, <3>7, <3>8 DEF Ordered
    <3>10. \A i \in Len(s') + 1 .. Len(p') : p'[i] \notin Holds("shadow")'
      BY <1>0, <2>0, <3>1, <3>6, <3>7 DEF Ordered
    <3>11. \A i, j \in Len(s') + 1 .. Len(p') : i < j => p'[i] \in Prior[p'[j]]
      <4>1. \A i, j \in Len(s) + 1 .. Len(p) : i < j => p[i] \in Prior[p[j]]
        BY <2>0 DEF Ordered
      <4>2. Len(s') + 1 .. Len(p') \subseteq Len(s) + 1 .. Len(p)
        BY <1>0, <3>1, <3>7
      <4> QED BY <3>1, <4>1, <4>2
    <3> QED BY <3>9, <3>10, <3>11 DEF Ordered
  <2>3. ASSUME NEW r \in Requests, CopyArrivesLate(r) PROVE FALSE
    BY <2>0, <2>3 DEF CopyArrivesLate, LateDelivery, Once
  <2> QED BY <1>1, <1>3, <2>0, <2>1, <2>2, <2>3 DEF PathMoves
<1> QED BY <1>0, <1>1, <1>2, <1>3, InStepCases DEF OrderedInv

-----------------------------------------------------------------------------
(* All of it. *)
AgreeInv == OnceInv /\ RefusedInv /\ CountInv /\ FirstTryInv /\ OrderedInv

LEMMA AgreeInvHolds == SystemSafety => []AgreeInv
<1>1. SystemInit => AgreeInv
  <2> SUFFICES ASSUME SystemInit PROVE AgreeInv
    OBVIOUS
  <2>1. /\ data["primary"] = <<>> /\ data["shadow"] = <<>> /\ Len(<<>>) = 0
        /\ Holds("primary") = {} /\ Holds("shadow") = {} /\ Missing = {}
    BY Beginning DEF SystemInit, Backends, Missing
  <2>2. Counted
    BY <2>1, FS_EmptySet DEF Counted
  <2>3. Once /\ Refused /\ FirstTry /\ Ordered
    BY <2>1 DEF SystemInit, Init, Once, Refused, FirstTry, Ordered
  <2> QED BY <2>2, <2>3 DEF AgreeInv, OnceInv, RefusedInv, CountInv, FirstTryInv, OrderedInv
<1>2. Ground /\ Ground' /\ AgreeInv /\ [SystemNext]_systemVars => AgreeInv'
  BY OnceStep, RefusedStep, CountStep, FirstTryStep, OrderedStep DEF AgreeInv
<1> QED BY <1>1, <1>2, GroundHolds, PTL DEF SystemSafety

LEMMA AgreeWhenSettled == Ground /\ AgreeInv => SameWhenSettled
<1> SUFFICES ASSUME Ground, AgreeInv, inStep, Settled, RefusalsLast
             PROVE  /\ Holds("shadow") = Holds("primary")
                    /\ Len(data["shadow"]) = Len(data["primary"])
                    /\ OneClient => data["shadow"] = data["primary"]
  BY DEF SameWhenSettled
<1>0. /\ data["primary"] \in Seq(Requests) /\ data["shadow"] \in Seq(Requests)
      /\ Len(data["primary"]) \in Nat /\ Len(data["shadow"]) \in Nat
      /\ Holds("primary") \subseteq Requests
  BY DataMoves, LenProperties DEF Ground, PathFacts
<1>1. \A r \in Requests : ~Pending(r)
  BY DEF Settled, Pending
<1>2. Missing = {}
  BY <1>0, <1>1 DEF Ground, TrackInv, Missing
<1>3. Refused /\ Counted /\ (OneClient => Ordered)
  BY DEF AgreeInv, RefusedInv, CountInv, OrderedInv
<1>4. Holds("shadow") = Holds("primary")
  BY <1>2, <1>3 DEF Refused, Missing
<1>5. Len(data["shadow"]) = Len(data["primary"])
  BY <1>0, <1>2, <1>3, FS_EmptySet DEF Counted
<1>6. ASSUME OneClient PROVE data["shadow"] = data["primary"]
  <2>1. \A i \in 1 .. Len(data["shadow"]) : data["shadow"][i] = data["primary"][i]
    BY <1>3, <1>6 DEF Ordered
  <2> QED BY <1>0, <1>5, <2>1, SeqEqual
<1> QED BY <1>4, <1>5, <1>6

(* For any number of clients, failed calls, restarts and overlapping        *)
(* resyncs: while nothing sets the backends apart, and after a resync       *)
(* nothing came across, the queue makes the shadow a copy of the primary.   *)
(* Each holds the same writes as often, and in the same order if one client *)
(* wrote them, provided what one backend refused the other would refuse.    *)
THEOREM ShadowIsCopy == SystemSafety => []SameWhenSettled
BY GroundHolds, AgreeInvHolds, AgreeWhenSettled, PTL

(* While the backends are in step, the worker gives up only what the        *)
(* primary refused: a write of its one client that the primary took is      *)
(* taken by the shadow when it is first sent, so no divergence that resyncs *)
(* have to repair comes of the order of the replay.                         *)
THEOREM GivesUpRefusedOnly == SystemSafety => []GivesUpOnlyRefused
<1>1. AgreeInv => GivesUpOnlyRefused
  BY DEF AgreeInv, FirstTryInv, FirstTry, GivesUpOnlyRefused
<1> QED BY <1>1, AgreeInvHolds, PTL

-----------------------------------------------------------------------------
(* While a quiet read is under way nothing is pending, the backends hold    *)
(* the same, and the read has seen it.                                      *)
QuietInv ==
    OneClient /\ RefusalsLast =>
        /\ quiet # {} => inStep /\ Calm /\ data["shadow"] = data["primary"]
        /\ \A q \in quiet :
             /\ read[q] # "diverged"
             /\ read[q] \in {"new", "checking", "asking"} => seen[q] = data["primary"]

LEMMA QuietStep ==
  ASSUME Ground, AgreeInv, QuietInv, [SystemNext]_systemVars
  PROVE  QuietInv'
<1> SUFFICES ASSUME OneClient, RefusalsLast, quiet' # {} PROVE QuietInv'
  BY DEF QuietInv
<1>0. /\ inStep \in BOOLEAN /\ quiet \subseteq Reads
      /\ read \in [Reads -> ReadSteps] /\ seen \in [Reads -> Seq(Requests)]
  BY DEF Ground, DataTypeOK
<1>1. UNCHANGED vars /\ Calm => Calm'
  BY DEF Calm, vars, handlerVars, dbVars, workerVars, shadowVars
<1>2. ASSUME UNCHANGED <<vars, data, quiet, read, seen>>, inStep => inStep' PROVE QuietInv'
  BY <1>1, <1>2 DEF QuietInv
<1>3. ~SetsApart
  BY DEF SetsApart
<1>4. CASE Writing
  <2>1. /\ ~LosesTrack /\ ~GivesUp /\ \A r \in Requests : ~ClientWrites(r)
        /\ UNCHANGED quiet
    BY <1>3, <1>4 DEF Writing, LosesTrack, GivesUp, ClientWrites, PrimaryExecutes, PrimaryTurnsDown,
                      CopyArrivesLate, ShadowExecutes, ShadowTurnsDown, KeepsTrack, Elsewhere, watchVars
  <2>2. Calm
    BY <2>1 DEF QuietInv
  <2>3. KeepsTrack /\ Calm'
    BY <1>4, <2>1, <2>2, CalmStep DEF Writing, Ground, PathFacts
  <2> QED BY <2>3 DEF QuietInv, KeepsTrack, Elsewhere, backendVars, readVars, watchVars
<1>5. CASE Resyncing
  <2>1. ASSUME NEW b \in Backends, BackendRestarts(b) \/ PollsRestarted(b) PROVE QuietInv'
    BY <1>2, <1>3, <2>1 DEF BackendRestarts, PollsRestarted, readVars, watchVars
  <2>2. ASSUME NEW i \in DOMAIN resyncs,
               \/ TakeSnapshot(i) \/ LoadSnapshot(i) \/ CompleteResync(i) \/ ResyncFails(i) \/ LateLoad(i)
        PROVE  QuietInv'
    BY <1>0, <1>2, <1>3, <2>2 DEF TakeSnapshot, LoadSnapshot, CompleteResync, ResyncFails, LateLoad,
                                  Loads, backendVars, readVars, watchVars
  <2> QED BY <1>5, <2>1, <2>2 DEF Resyncing
<1>6. CASE Reading
  <2>0. UNCHANGED <<vars, data, inStep>>
    BY <1>6 DEF Reading, PrimaryAnswers, CheckDegraded, Compares, ReadFails, backendVars, watchVars
  <2>1. ASSUME NEW q \in Reads, PrimaryAnswers(q) PROVE QuietInv'
    <3>1. inStep /\ Settled => Calm /\ data["shadow"] = data["primary"]
      BY Unsaid, AgreeWhenSettled DEF SameWhenSettled
    <3> QED BY <1>0, <1>1, <2>0, <2>1, <3>1 DEF QuietInv, PrimaryAnswers
  <2>2. ASSUME NEW q \in Reads, CheckDegraded(q) \/ Compares(q) \/ ReadFails(q) PROVE QuietInv'
    BY <1>0, <1>1, <2>0, <2>2 DEF QuietInv, CheckDegraded, Compares, ReadFails, watchVars
  <2> QED BY <1>6, <2>1, <2>2 DEF Reading
<1>7. CASE UNCHANGED systemVars
  BY <1>2, <1>7 DEF systemVars, backendVars, readVars, watchVars
<1>8. ~ProxyCrashes
  BY <1>3 DEF ProxyCrashes
<1> QED BY <1>4, <1>5, <1>6, <1>7, <1>8 DEF SystemNext

(* A nonzero divergence is a bug of a backend (README): a read sampled      *)
(* while the backends are in step and nothing is pending does not find two  *)
(* identical backends to diverge, whatever crashes, restarts and resyncs    *)
(* came before it, for one client whose refused writes stay refused.  With  *)
(* two clients the replay may order what the primary did otherwise, and a   *)
(* write refused too early is retried until the shadow takes it: there the  *)
(* README's promise fails.                                                  *)
THEOREM NoFalseAlarm ==
  ASSUME OneClient, RefusalsLast
  PROVE  SystemSafety => []NoAlarmWhenQuiet
<1>1. SystemInit => QuietInv
  BY DEF SystemInit, QuietInv
<1>2. QuietInv => NoAlarmWhenQuiet
  BY DEF QuietInv, NoAlarmWhenQuiet
<1> QED BY <1>1, <1>2, QuietStep, GroundHolds, AgreeInvHolds, PTL DEF SystemSafety
=============================================================================
