--------------------------- MODULE ConformanceProofs ---------------------------
(***************************************************************************)
(* For any clients, any needs, any number of restarts, failed calls and    *)
(* resyncs: the whole system behaves as WriteReplay says, so all that is   *)
(* proved there holds here; the shadow misses nothing the primary holds    *)
(* once nothing is pending, unless something set the two apart, and before *)
(* any restart or resync nothing that was queued and not given up; and     *)
(* what both have held stays with a primary that has not restarted, and    *)
(* with a shadow that has not while no write is given up.                  *)
(***************************************************************************)
EXTENDS Conformance, WriteReplayProofs, SequenceTheorems

(* A step of the system is a step of the write path, or leaves it alone. *)
LEMMA StepIsWriteReplay ==
  ASSUME [SystemNext]_systemVars
  PROVE  [Next]_vars
<1>1. CASE Writing
  <2>1. ASSUME NEW r \in Requests,
               ClientWrites(r) \/ PrimaryExecutes(r) \/ PrimaryTurnsDown(r) \/ CopyArrivesLate(r)
        PROVE  Next
    BY <2>1 DEF ClientWrites, PrimaryExecutes, PrimaryTurnsDown, CopyArrivesLate, Next, Handling
  <2>2. CASE ShadowExecutes \/ ShadowTurnsDown
    BY <2>2 DEF ShadowExecutes, ShadowTurnsDown, Next
  <2>3. CASE KeepsTrack
    BY <2>3 DEF KeepsTrack, Next, Handling, AwaitingShadow, Recording
  <2>4. CASE LosesTrack
    BY <2>4 DEF LosesTrack, Next, Handling, AwaitingShadow, Recording
  <2>5. CASE GivesUp
    BY <2>5 DEF GivesUp, Next, Recording
  <2> QED BY <1>1, <2>1, <2>2, <2>3, <2>4, <2>5 DEF Writing
<1>2. CASE Resyncing
  BY <1>2 DEF Resyncing, BackendRestarts, PollsRestarted, TakeSnapshot, LoadSnapshot, Loads,
              CompleteResync, ResyncFails, LateLoad
<1>3. CASE Reading
  BY <1>3 DEF Reading, PrimaryAnswers, CheckDegraded, Compares, ReadFails
<1>4. CASE ProxyCrashes
  BY <1>4 DEF ProxyCrashes, Next
<1>5. CASE UNCHANGED systemVars
  BY <1>5 DEF systemVars
<1> QED BY <1>1, <1>2, <1>3, <1>4, <1>5 DEF SystemNext

(* The system implements the write path: what WriteReplayProofs proves of   *)
(* the queue, through any crash, holds whatever the backends do with their  *)
(* data and however they are resynced.                                      *)
THEOREM ImplementsWriteReplay == SystemSafety => Safety
<1>1. SystemInit => Init
  BY DEF SystemInit
<1> QED BY <1>1, StepIsWriteReplay, PTL DEF SystemSafety, Safety

LEMMA WriteReplayTypes == SystemSafety => []TypeOK
BY ImplementsWriteReplay, TypeCorrect, PTL

-----------------------------------------------------------------------------
(* Types. *)

LEMMA PeerType == \A b \in Backends : Peer(b) \in Backends /\ Peer(b) # b /\ Peer(Peer(b)) = b
BY DEF Backends, Peer

LEMMA HoldsType ==
  ASSUME DataTypeOK
  PROVE  /\ \A b \in Backends : Holds(b) \subseteq Requests
         /\ \A i \in DOMAIN resyncs :
              /\ resyncs[i] \in Resync
              /\ resyncs[i].to \in Backends
              /\ resyncs[i].holds \in Seq(Requests)
<1>1. ASSUME NEW b \in Backends PROVE Holds(b) \subseteq Requests
  <2>1. data[b] \in Seq(Requests)
    BY DEF DataTypeOK
  <2> QED BY <2>1, ElementOfSeq DEF Holds
<1>2. \A i \in DOMAIN resyncs : resyncs[i] \in Resync
  BY ElementOfSeq DEF DataTypeOK
<1> QED BY <1>1, <1>2 DEF Resync

LEMMA SpawnedType ==
  /\ \A b \in Backends : Spawned(b) \in Resync /\ Spawned(b).to = b
  /\ \A b \in Backends : Over(b) \in Resync /\ Over(b).to = b
<1>1. <<>> \in Seq(Requests)
  OBVIOUS
<1> QED BY <1>1 DEF Spawned, Over, Resync, Phases

(* The records of the tasks, and the lists of them that the actions build.  *)
LEMMA PhaseType ==
  ASSUME NEW t \in Resync, NEW p \in Phases
  PROVE  /\ [t EXCEPT !.phase = p] \in Resync
         /\ [t EXCEPT !.phase = p, !.clean = FALSE] \in Resync
BY DEF Resync

LEMMA UncleanType ==
  ASSUME resyncs \in Seq(Resync)
  PROVE  /\ Unclean \in Seq(Resync) /\ DOMAIN Unclean = DOMAIN resyncs
         /\ \A i \in DOMAIN resyncs : /\ Unclean[i] = [resyncs[i] EXCEPT !.clean = FALSE]
                                      /\ Unclean[i].to = resyncs[i].to
                                      /\ Unclean[i].phase = resyncs[i].phase
                                      /\ ~Unclean[i].clean
<1>1. \A i \in DOMAIN resyncs : resyncs[i] \in Resync
  BY ElementOfSeq
<1>2. \A i \in DOMAIN resyncs : [resyncs[i] EXCEPT !.clean = FALSE] \in Resync
  BY <1>1 DEF Resync
<1>3. Len(resyncs) \in Nat /\ DOMAIN resyncs = 1 .. Len(resyncs)
  BY LenProperties
<1>4. Unclean \in Seq(Resync)
  BY <1>2, <1>3, IsASeq DEF Unclean
<1> QED BY <1>1, <1>4 DEF Unclean, Resync

LEMMA ReplacedType ==
  ASSUME NEW s \in Seq(Resync), NEW i \in DOMAIN s, NEW t \in Resync
  PROVE  /\ [s EXCEPT ![i] = t] \in Seq(Resync)
         /\ DOMAIN [s EXCEPT ![i] = t] = DOMAIN s
         /\ [s EXCEPT ![i] = t][i] = t
         /\ \A k \in DOMAIN s : k # i => [s EXCEPT ![i] = t][k] = s[k]
BY ExceptSeq

LEMMA AppendedType ==
  ASSUME NEW s \in Seq(Resync), NEW t \in Resync
  PROVE  /\ Append(s, t) \in Seq(Resync)
         /\ DOMAIN s \subseteq DOMAIN Append(s, t)
         /\ \A i \in DOMAIN Append(s, t) :
              (i \in DOMAIN s /\ Append(s, t)[i] = s[i]) \/ Append(s, t)[i] = t
BY AppendProperties, LenProperties

-----------------------------------------------------------------------------
(* What a step does to the tasks, one by one: the tasks it leaves as they   *)
(* are or makes unclean, and the one it moves, starts or ends.              *)

Kept(s, t) == t = s \/ t = [s EXCEPT !.clean = FALSE]

(* Task i moves: its snapshot is taken, it is loaded, over, or left alone.  *)
Advanced(i) ==
    LET s == resyncs[i]
        t == resyncs'[i]
    IN  \/ /\ s.phase = "snapshot"
           /\ t = [s EXCEPT !.phase = "load", !.holds = data[Peer(s.to)], !.clean = Undisturbed(i)]
        \/ s.phase = "load" /\ t = [s EXCEPT !.phase = "loaded"]
        \/ s.phase \in {"load", "orphan"} /\ t = [s EXCEPT !.phase = "orphan"]
        \/ s.phase \in {"load", "orphan"} /\ t = [s EXCEPT !.phase = "orphan", !.clean = FALSE]
        \/ t = Over(s.to)

Evolves ==
    /\ resyncs' \in Seq(Resync)
    /\ DOMAIN resyncs \subseteq DOMAIN resyncs'
    /\ \A i \in DOMAIN resyncs' :
         \/ i \in DOMAIN resyncs /\ (Kept(resyncs[i], resyncs'[i]) \/ Advanced(i))
         \/ \E b \in Backends : resyncs'[i] = Spawned(b) /\ (b \in lost \/ (b = "shadow" /\ GivesUp))

LEMMA Replaces ==
  ASSUME DataTypeOK, NEW i \in DOMAIN resyncs, NEW t \in Resync, NEW s \in {resyncs, Unclean},
         resyncs' = [s EXCEPT ![i] = t], Advanced(i)
  PROVE  Evolves
<1>1. s \in Seq(Resync) /\ DOMAIN s = DOMAIN resyncs
      /\ \A k \in DOMAIN resyncs : Kept(resyncs[k], s[k])
  BY UncleanType DEF DataTypeOK, Kept
<1> QED BY <1>1, ReplacedType DEF Evolves

LEMMA Starts ==
  ASSUME DataTypeOK, NEW b \in Backends, NEW s \in {resyncs, Unclean},
         resyncs' = Append(s, Spawned(b)), b \in lost \/ (b = "shadow" /\ GivesUp)
  PROVE  Evolves
<1>1. s \in Seq(Resync) /\ DOMAIN s = DOMAIN resyncs
      /\ \A k \in DOMAIN resyncs : Kept(resyncs[k], s[k])
  BY UncleanType DEF DataTypeOK, Kept
<1>2. Spawned(b) \in Resync
  BY SpawnedType
<1>3. /\ resyncs' \in Seq(Resync) /\ DOMAIN s \subseteq DOMAIN resyncs'
      /\ \A i \in DOMAIN resyncs' :
           (i \in DOMAIN s /\ resyncs'[i] = s[i]) \/ resyncs'[i] = Spawned(b)
  BY <1>1, <1>2, AppendedType
<1> QED BY <1>1, <1>3 DEF Evolves

LEMMA TasksStep ==
  ASSUME DataTypeOK, [SystemNext]_systemVars
  PROVE  Evolves
<1>0. /\ resyncs \in Seq(Resync) /\ \A i \in DOMAIN resyncs : resyncs[i] \in Resync
      /\ \A b \in Backends : data[b] \in Seq(Requests)
  BY HoldsType DEF DataTypeOK
<1>1. ASSUME UNCHANGED resyncs PROVE Evolves
  BY <1>0, <1>1 DEF Evolves, Kept
<1>2. ASSUME resyncs' = Unclean PROVE Evolves
  BY <1>0, <1>2, UncleanType DEF Evolves, Kept
<1>3. CASE Writing
  <2>1. CASE GivesUp
    <3>1. "shadow" \in Backends
      BY DEF Backends
    <3>2. resyncs' = Append(Unclean, Spawned("shadow"))
      BY <2>1 DEF GivesUp
    <3> QED BY <2>1, <3>1, <3>2, Starts
  <2>2. CASE ~GivesUp
    BY <1>1, <1>2, <1>3, <2>2
       DEF Writing, ClientWrites, PrimaryExecutes, PrimaryTurnsDown, CopyArrivesLate,
           ShadowExecutes, ShadowTurnsDown, KeepsTrack, LosesTrack, Elsewhere, resyncVars
  <2> QED BY <2>1, <2>2
<1>4. CASE Resyncing
  <2>1. ASSUME NEW b \in Backends, BackendRestarts(b) PROVE Evolves
    BY <1>2, <2>1 DEF BackendRestarts
  <2>2. ASSUME NEW b \in Backends, PollsRestarted(b) PROVE Evolves
    <3>1. CASE resyncs' = resyncs
      BY <1>1, <3>1
    <3>2. CASE resyncs' = Append(resyncs, Spawned(b))
      BY <2>2, <3>2, Starts DEF PollsRestarted
    <3> QED BY <2>2, <3>1, <3>2 DEF PollsRestarted
  <2>3. ASSUME NEW i \in DOMAIN resyncs, TakeSnapshot(i) PROVE Evolves
    <3> DEFINE t == [resyncs[i] EXCEPT !.phase = "load", !.holds = data[Peer(resyncs[i].to)],
                                       !.clean = Undisturbed(i)]
    <3>1. resyncs' = [resyncs EXCEPT ![i] = t]
      BY <1>0, <2>3 DEF TakeSnapshot, Resync
    <3>2. data[Peer(resyncs[i].to)] \in Seq(Requests) /\ Undisturbed(i) \in BOOLEAN
      BY <1>0, PeerType, HoldsType DEF Undisturbed
    <3>3. t \in Resync
      BY <1>0, <3>2 DEF Resync, Phases
    <3>4. resyncs'[i] = t /\ resyncs[i].phase = "snapshot"
      BY <1>0, <2>3, <3>1 DEF TakeSnapshot
    <3>5. Advanced(i)
      BY <3>4 DEF Advanced
    <3> QED BY <3>1, <3>3, <3>5, Replaces
  <2>4. ASSUME NEW i \in DOMAIN resyncs, LoadSnapshot(i) PROVE Evolves
    <3> DEFINE t == [resyncs[i] EXCEPT !.phase = "loaded"]
    <3>0. "loaded" \in Phases
      BY DEF Phases
    <3>1. t \in Resync /\ resyncs' = [Unclean EXCEPT ![i] = t] /\ resyncs[i].phase = "load"
      BY <1>0, <2>4, <3>0, PhaseType DEF LoadSnapshot
    <3>2. resyncs'[i] = t
      BY <1>0, <3>1, UncleanType
    <3>3. Advanced(i)
      BY <3>1, <3>2 DEF Advanced
    <3> QED BY <3>1, <3>3, Replaces
  <2>5. ASSUME NEW i \in DOMAIN resyncs, CompleteResync(i) \/ LateLoad(i) PROVE Evolves
    <3>1. /\ resyncs' = [resyncs EXCEPT ![i] = Over(resyncs[i].to)]
          \/ resyncs' = [Unclean EXCEPT ![i] = Over(resyncs[i].to)]
      BY <2>5 DEF CompleteResync, LateLoad
    <3>2. Over(resyncs[i].to) \in Resync
      BY HoldsType, SpawnedType
    <3>3. Advanced(i)
      BY <1>0, <3>1, UncleanType DEF Advanced
    <3> QED BY <3>1, <3>2, <3>3, Replaces
  <2>6. ASSUME NEW i \in DOMAIN resyncs, ResyncFails(i) PROVE Evolves
    <3> DEFINE t == IF resyncs[i].phase = "load" THEN [resyncs[i] EXCEPT !.phase = "orphan"]
                                                 ELSE Over(resyncs[i].to)
    <3>1. resyncs' = [resyncs EXCEPT ![i] = t]
      BY <1>0, <2>6 DEF ResyncFails
    <3>2. t \in Resync
      <4>1. "orphan" \in Phases
        BY DEF Phases
      <4> QED BY <1>0, <4>1, HoldsType, SpawnedType, PhaseType
    <3>3. Advanced(i)
      BY <1>0, <3>1 DEF Advanced
    <3> QED BY <3>1, <3>2, <3>3, Replaces
  <2> QED BY <1>4, <2>1, <2>2, <2>3, <2>4, <2>5, <2>6 DEF Resyncing
<1>5. CASE Reading
  BY <1>1, <1>5 DEF Reading, PrimaryAnswers, CheckDegraded, Compares, ReadFails, resyncVars
<1>6. CASE ProxyCrashes
  <2> DEFINE t(i) == IF resyncs[i].phase \in {"load", "orphan"}
                       THEN [resyncs[i] EXCEPT !.phase = "orphan", !.clean = FALSE]
                       ELSE Over(resyncs[i].to)
  <2>1. ASSUME NEW i \in DOMAIN resyncs PROVE t(i) \in Resync
    <3>1. "orphan" \in Phases
      BY DEF Phases
    <3> QED BY <1>0, <3>1, HoldsType, SpawnedType, PhaseType
  <2>2. Len(resyncs) \in Nat /\ DOMAIN resyncs = 1 .. Len(resyncs)
    BY <1>0, LenProperties
  <2>3. resyncs' \in Seq(Resync)
    <3>1. resyncs' = [i \in 1 .. Len(resyncs) |-> t(i)]
      BY <1>6, <2>2 DEF ProxyCrashes
    <3>2. \A i \in 1 .. Len(resyncs) : t(i) \in Resync
      BY <2>1, <2>2
    <3> HIDE DEF t
    <3> QED BY <2>2, <3>1, <3>2, IsASeq
  <2>4. DOMAIN resyncs' = DOMAIN resyncs /\ \A i \in DOMAIN resyncs : Advanced(i)
    BY <1>6 DEF ProxyCrashes, Advanced
  <2> QED BY <2>3, <2>4 DEF Evolves
<1>7. CASE UNCHANGED systemVars
  BY <1>1, <1>7 DEF systemVars, resyncVars
<1> QED BY <1>3, <1>4, <1>5, <1>6, <1>7 DEF SystemNext

LEMMA ExecutesType ==
  ASSUME DataTypeOK, NEW b \in Backends, NEW r \in Requests, Executes(b, r)
  PROVE  /\ data' \in [Backends -> Seq(Requests)]
         /\ shared' \subseteq Requests
         /\ \A c \in Backends : Holds(c)' = IF c = b THEN Holds(b) \cup {r} ELSE Holds(c)
<1>1. data \in [Backends -> Seq(Requests)] /\ data[b] \in Seq(Requests)
  BY DEF DataTypeOK
<1>2. data' = [data EXCEPT ![b] = Append(data[b], r)] /\ Append(data[b], r) \in Seq(Requests)
  BY <1>1, AppendProperties DEF Executes
<1>3. data' \in [Backends -> Seq(Requests)]
  BY <1>1, <1>2
<1>4. shared' \subseteq Requests
  BY DEF Executes, DataTypeOK
<1>5. ASSUME NEW c \in Backends, c # b PROVE Holds(c)' = Holds(c)
  BY <1>1, <1>2, <1>5 DEF Holds
<1>6. Holds(b)' = Holds(b) \cup {r}
  <2>1. data'[b] = Append(data[b], r)
    BY <1>1, <1>2
  <2>2. /\ DOMAIN Append(data[b], r) = 1 .. Len(data[b]) + 1
        /\ DOMAIN data[b] = 1 .. Len(data[b]) /\ Len(data[b]) \in Nat
        /\ \A i \in 1 .. Len(data[b]) : Append(data[b], r)[i] = data[b][i]
        /\ Append(data[b], r)[Len(data[b]) + 1] = r
    BY <1>1, AppendProperties, LenProperties
  <2> QED BY <2>1, <2>2 DEF Holds
<1> QED BY <1>3, <1>4, <1>5, <1>6

(* A task keeps its target; a new one's has restarted, or is the shadow of  *)
(* a write given up.                                                        *)
LEMMA Targets ==
  ASSUME DataTypeOK, Evolves, NEW i \in DOMAIN resyncs'
  PROVE  \/ i \in DOMAIN resyncs /\ resyncs'[i].to = resyncs[i].to
         \/ resyncs'[i].to \in lost
         \/ resyncs'[i].to = "shadow" /\ GivesUp
<1>1. ASSUME i \in DOMAIN resyncs, Kept(resyncs[i], resyncs'[i]) \/ Advanced(i)
      PROVE  resyncs'[i].to = resyncs[i].to
  <2>1. resyncs[i] \in Resync
    BY <1>1, HoldsType DEF DataTypeOK
  <2>2. CASE Kept(resyncs[i], resyncs'[i])
    BY <2>1, <2>2 DEF Kept, Resync
  <2>3. CASE Advanced(i)
    <3> DEFINE s == resyncs[i]
               h == data[Peer(s.to)]
               u == Undisturbed(i)
    <3>1. \/ resyncs'[i] = [s EXCEPT !.phase = "load", !.holds = h, !.clean = u]
          \/ resyncs'[i] = [s EXCEPT !.phase = "loaded"]
          \/ resyncs'[i] = [s EXCEPT !.phase = "orphan"]
          \/ resyncs'[i] = [s EXCEPT !.phase = "orphan", !.clean = FALSE]
          \/ resyncs'[i] = Over(s.to)
      BY <2>3 DEF Advanced
    <3>2. s.to \in Backends
      BY <2>1 DEF Resync
    <3>3. Over(s.to).to = s.to
      BY <3>2, SpawnedType
    <3> HIDE DEF h, u
    <3> QED BY <2>1, <3>1, <3>3 DEF Resync
  <2> QED BY <1>1, <2>2, <2>3
<1> QED BY <1>1, SpawnedType DEF Evolves

(* The primary is resynced only once it has restarted. *)
LEMMA PrimaryTasks ==
  ASSUME DataTypeOK, Evolves, restarted \subseteq restarted'
  PROVE  (\E i \in DOMAIN resyncs' : resyncs'[i].to = "primary") => "primary" \in restarted'
<1> SUFFICES ASSUME NEW i \in DOMAIN resyncs', resyncs'[i].to = "primary"
             PROVE  "primary" \in restarted
  OBVIOUS
<1> QED BY Targets DEF DataTypeOK

(* What a step has to show of the variables other than the tasks. *)
PartsOK ==
    /\ invalid \subseteq Requests
    /\ lost \subseteq restarted /\ restarted \subseteq Backends
    /\ data \in [Backends -> Seq(Requests)]
    /\ degraded \in BOOLEAN /\ inStep \in BOOLEAN
    /\ read \in [Reads -> ReadSteps] /\ seen \in [Reads -> Seq(Requests)]
    /\ quiet \subseteq Reads /\ shared \subseteq Requests
    /\ mishaps \in 0 .. MaxMishaps /\ MaxMishaps \in Nat

LEMMA Parts ==
  /\ DataTypeOK => PartsOK
  /\ DataTypeOK /\ Evolves /\ PartsOK' /\ restarted \subseteq restarted' => DataTypeOK'
<1>1. DataTypeOK => PartsOK
  BY ConformanceAssumption DEF DataTypeOK, PartsOK
<1>2. ASSUME DataTypeOK, Evolves, PartsOK', restarted \subseteq restarted' PROVE DataTypeOK'
  <2>1. resyncs' \in Seq(Resync)
    BY <1>2 DEF Evolves
  <2> QED BY <1>2, <2>1, PrimaryTasks DEF DataTypeOK, PartsOK
<1> QED BY <1>1, <1>2

LEMMA MishapType ==
  ASSUME PartsOK, Mishap
  PROVE  mishaps' \in 0 .. MaxMishaps
BY DEF PartsOK, Mishap

LEMMA ApartType == SetsApart => inStep' \in BOOLEAN /\ quiet' \subseteq Reads
BY DEF SetsApart

LEMMA DataStep ==
  ASSUME DataTypeOK, TypeOK, TypeOK', [SystemNext]_systemVars
  PROVE  DataTypeOK'
<1>0. /\ Evolves /\ PartsOK
      /\ "primary" \in Backends /\ "shadow" \in Backends
      /\ wreq \in Requests
  BY TasksStep, Parts DEF DataTypeOK, Backends, TypeOK
<1> SUFFICES PartsOK' /\ restarted \subseteq restarted'
  BY <1>0, Parts
<1> DEFINE Goal == PartsOK' /\ restarted \subseteq restarted'
<1>1. ASSUME UNCHANGED <<backendVars, degraded, readVars, inStep, shared, restarted, mishaps>>,
             quiet' \in {quiet, {}}
      PROVE  Goal
  BY <1>0, <1>1 DEF PartsOK, backendVars, readVars
<1>2. ASSUME NEW b \in Backends, NEW r \in Requests, Executes(b, r),
             UNCHANGED <<invalid, lost, resyncVars, readVars, inStep, quiet, restarted, mishaps>>
      PROVE  Goal
  BY <1>0, <1>2, ExecutesType DEF DataTypeOK, PartsOK, resyncVars, readVars
<1>3. CASE Writing
  <2>1. ASSUME NEW r \in Requests, PrimaryExecutes(r) \/ CopyArrivesLate(r)
        PROVE  Goal
    BY <1>0, <1>2, <2>1 DEF PrimaryExecutes, CopyArrivesLate
  <2>2. CASE ShadowExecutes
    BY <1>0, <1>2, <2>2 DEF ShadowExecutes
  <2>3. ASSUME NEW r \in Requests, ClientWrites(r) \/ PrimaryTurnsDown(r)
        PROVE  Goal
    BY <1>1, <2>3 DEF ClientWrites, PrimaryTurnsDown, Elsewhere, resyncVars, watchVars
  <2>4. CASE ShadowTurnsDown \/ KeepsTrack
    BY <1>1, <2>4 DEF ShadowTurnsDown, KeepsTrack, Elsewhere, resyncVars, watchVars
  <2>5. CASE LosesTrack
    <3>1. Mishap /\ SetsApart /\ UNCHANGED <<backendVars, degraded, readVars, shared, restarted>>
      BY <2>5 DEF LosesTrack
    <3> QED BY <1>0, <3>1, MishapType, ApartType DEF PartsOK, backendVars, readVars
  <2>6. CASE GivesUp
    <3>1. degraded' \in BOOLEAN
      BY <1>0, <2>6 DEF GivesUp, PartsOK
    <3>2. SetsApart /\ UNCHANGED <<backendVars, readVars, shared, restarted, mishaps>>
      BY <2>6 DEF GivesUp
    <3> QED BY <1>0, <3>1, <3>2, ApartType DEF PartsOK, backendVars, readVars
  <2> QED BY <1>3, <2>1, <2>2, <2>3, <2>4, <2>5, <2>6 DEF Writing
<1>4. CASE Resyncing
  <2>1. ASSUME NEW b \in Backends, BackendRestarts(b) PROVE Goal
    <3>1. Mishap /\ SetsApart /\ restarted' = restarted \cup {b} /\ lost' = lost \cup {b}
          /\ data' = [data EXCEPT ![b] = <<>>] /\ UNCHANGED <<invalid, degraded, readVars, shared>>
      BY <2>1 DEF BackendRestarts
    <3>2. data' \in [Backends -> Seq(Requests)]
      BY <1>0, <3>1 DEF PartsOK
    <3> QED BY <1>0, <3>1, <3>2, MishapType, ApartType DEF PartsOK, readVars
  <2>2. ASSUME NEW b \in Backends, PollsRestarted(b) PROVE Goal
    BY <1>0, <2>2 DEF PollsRestarted, PartsOK, readVars, watchVars
  <2>3. ASSUME NEW i \in DOMAIN resyncs, TakeSnapshot(i) PROVE Goal
    BY <1>1, <2>3 DEF TakeSnapshot, watchVars
  <2>4. ASSUME NEW i \in DOMAIN resyncs, LoadSnapshot(i) \/ LateLoad(i) PROVE Goal
    <3>1. Loads(i)
      BY <2>4 DEF LoadSnapshot, LateLoad
    <3>2. data' \in [Backends -> Seq(Requests)]
      BY <1>0, <3>1, HoldsType DEF Loads, DataTypeOK, PartsOK
    <3>3. shared' \subseteq Requests
      BY <1>0, <3>1, HoldsType, PeerType DEF Loads, DataTypeOK, PartsOK
    <3>4. SetsApart /\ UNCHANGED <<invalid, lost, degraded, readVars, restarted, mishaps>>
      BY <3>1 DEF Loads
    <3> QED BY <1>0, <3>2, <3>3, <3>4, ApartType DEF PartsOK, readVars
  <2>5. ASSUME NEW i \in DOMAIN resyncs, CompleteResync(i) PROVE Goal
    <3>1. degraded' \in BOOLEAN /\ inStep' \in BOOLEAN
      BY <2>5 DEF CompleteResync
    <3> QED BY <1>0, <2>5, <3>1 DEF CompleteResync, PartsOK, backendVars, readVars
  <2>6. ASSUME NEW i \in DOMAIN resyncs, ResyncFails(i) PROVE Goal
    <3>1. Mishap /\ UNCHANGED <<backendVars, degraded, readVars, inStep, quiet, shared, restarted>>
      BY <2>6 DEF ResyncFails
    <3> QED BY <1>0, <3>1, MishapType DEF PartsOK, backendVars, readVars
  <2> QED BY <1>4, <2>1, <2>2, <2>3, <2>4, <2>5, <2>6 DEF Resyncing
<1>5. CASE Reading
  <2>1. ASSUME NEW q \in Reads, PrimaryAnswers(q) PROVE Goal
    BY <1>0, <2>1 DEF PrimaryAnswers, PartsOK, ReadSteps, backendVars, resyncVars
  <2>2. ASSUME NEW q \in Reads, CheckDegraded(q) \/ Compares(q) \/ ReadFails(q) PROVE Goal
    BY <1>0, <2>2
       DEF CheckDegraded, Compares, ReadFails, PartsOK, ReadSteps, backendVars, resyncVars, watchVars
  <2> QED BY <1>5, <2>1, <2>2 DEF Reading
<1>6. CASE ProxyCrashes
  <2>1. read' \in [Reads -> ReadSteps]
    BY <1>0, <1>6 DEF ProxyCrashes, PartsOK, ReadSteps
  <2>2. Mishap /\ SetsApart /\ UNCHANGED <<backendVars, degraded, seen, shared, restarted>>
    BY <1>6 DEF ProxyCrashes
  <2> QED BY <1>0, <2>1, <2>2, MishapType, ApartType DEF PartsOK, backendVars
<1>7. CASE UNCHANGED systemVars
  BY <1>1, <1>7 DEF systemVars, resyncVars, watchVars
<1> QED BY <1>3, <1>4, <1>5, <1>6, <1>7 DEF SystemNext

(* Types of the data, the resyncs and the reads; the primary is resynced    *)
(* only after it has restarted.                                             *)
THEOREM DataTypeCorrect == SystemSafety => []DataTypeOK
<1>1. SystemInit => DataTypeOK
  <2>1. <<>> \in Seq(Requests) /\ <<>> \in Seq(Resync) /\ DOMAIN <<>> = {}
    OBVIOUS
  <2>2. SystemInit => PartsOK
    <3> SUFFICES ASSUME SystemInit PROVE PartsOK
      OBVIOUS
    <3>1. data \in [Backends -> Seq(Requests)] /\ seen \in [Reads -> Seq(Requests)]
      BY <2>1 DEF SystemInit
    <3>2. read \in [Reads -> ReadSteps] /\ degraded \in BOOLEAN /\ inStep \in BOOLEAN
      BY DEF SystemInit, ReadSteps
    <3>3. lost = {} /\ invalid \subseteq Requests /\ quiet = {} /\ shared = {}
          /\ restarted = {} /\ mishaps = 0
      BY DEF SystemInit
    <3> QED BY <3>1, <3>2, <3>3, ConformanceAssumption DEF PartsOK
  <2> QED BY <2>1, <2>2 DEF SystemInit, DataTypeOK, PartsOK
<1> QED BY <1>1, DataStep, WriteReplayTypes, PTL DEF SystemSafety


-----------------------------------------------------------------------------
(* The write path's part: a write is at the primary only once it is sent,   *)
(* and a row is given up only with a record or after a database error.      *)
PathInv ==
    /\ \A r \in toPrimary \cup primary : handler[r] # "new" /\ ~(r \in toPrimary /\ r \in primary)
    /\ wpc = "moved" => failed[wreq] > 0 \/ faults > 0

LEMMA PathInvHolds == Safety => []PathInv
<1>1. Init => PathInv
  BY DEF Init, PathInv
<1>2. TypeOK /\ RowsInv /\ PathInv /\ [Next]_vars => PathInv'
  <2> SUFFICES ASSUME TypeOK, RowsInv, PathInv, [Next]_vars
               PROVE  PathInv'
    OBVIOUS
  <2> USE DEF TypeOK, PathInv, handlerVars, dbVars, workerVars, shadowVars, ghostVars
  <2>1. ASSUME NEW r \in Requests, Handling(r) PROVE PathInv'
    BY <2>1 DEF Handling, Receive, PrimaryConfirms, PrimaryRefuses, PrimaryFails, Disconnect,
                Stamp, Enqueue, EnqueueFails
  <2>2. ASSUME NEW r \in Requests, PrimaryApplies(r) \/ LateDelivery(r) \/ BackoffElapses(r)
        PROVE  PathInv'
    BY <2>2 DEF PrimaryApplies, LateDelivery, BackoffElapses
  <2>3. CASE Polling
    BY <2>3 DEF Polling, PollClock, PopNothing, PopFails, Pop
  <2>4. CASE ShadowApplies \/ ShadowRefuses \/ AwaitingShadow
    BY <2>4 DEF ShadowApplies, ShadowRefuses, AwaitingShadow, ReplyArrives, SendFails
  <2>5. CASE Recording
    BY <2>5 DEF Recording, MarkSucceeded, MarkSucceededFails, MarkFailedAttempt, RowsInv,
                MarkFailedAttemptFails, InsertFailed, DeleteMoved, MoveFails, Degrade, DegradeFails
  <2>6. CASE CrashRestart
    BY <2>6 DEF CrashRestart
  <2>7. CASE UNCHANGED vars
    BY <2>7 DEF vars
  <2> QED BY <2>1, <2>2, <2>3, <2>4, <2>5, <2>6, <2>7 DEF Next
<1> QED BY <1>1, <1>2, TypeCorrect, RowsInvHolds, PTL DEF Safety

-----------------------------------------------------------------------------
(* Nothing is on its way, except that the worker may look for work. *)
Calm ==
    /\ toPrimary = {} /\ queue = {} /\ wpc \in {"idle", "popping"}
    /\ \A r \in Requests : late[r] = 0 /\ handler[r] \in {"new", "responded", "cut"}

(* What a resync that nothing has come across knows. *)
Knows(t) ==
    t.clean =>
        /\ Calm
        /\ t.phase = "load" => t.holds = data[Peer(t.to)]
        /\ t.phase = "loaded" => data["primary"] = data["shadow"]

CleanInv == \A i \in DOMAIN resyncs : Knows(resyncs[i])

LEMMA Unsaid ==
  /\ Settled => Calm
  /\ \A s \in Resync : ~[s EXCEPT !.clean = FALSE].clean
  /\ \A b \in Backends : ~Spawned(b).clean /\ ~Over(b).clean
BY DEF Settled, Calm, Resync, Spawned, Over

(* While the path is calm, its steps keep it so, or begin with a client.    *)
LEMMA CalmStep ==
  ASSUME Calm, TypeOK, WorkerInv
  PROVE  /\ \A r \in Requests : ~PrimaryExecutes(r) /\ ~PrimaryTurnsDown(r) /\ ~CopyArrivesLate(r)
         /\ ~ShadowExecutes /\ ~ShadowTurnsDown /\ ~GivesUp
         /\ KeepsTrack => Calm'
<1> USE DEF Calm, TypeOK, WorkerInv, handlerVars, dbVars, workerVars, shadowVars, ghostVars
<1>1. \A r \in Requests : ~PrimaryExecutes(r) /\ ~PrimaryTurnsDown(r) /\ ~CopyArrivesLate(r)
  BY DEF PrimaryExecutes, PrimaryTurnsDown, CopyArrivesLate, PrimaryApplies, PrimaryRefuses, LateDelivery
<1>2. ~ShadowExecutes /\ ~ShadowTurnsDown /\ ~GivesUp
  BY DEF ShadowExecutes, ShadowTurnsDown, ShadowApplies, ShadowRefuses, GivesUp, Degrade, DegradeFails
<1>3. ASSUME KeepsTrack PROVE Calm'
  <2>1. ASSUME NEW r \in Requests,
               PrimaryConfirms(r) \/ Stamp(r) \/ Enqueue(r) \/ BackoffElapses(r)
        PROVE  Calm'
    BY <2>1 DEF PrimaryConfirms, Stamp, Enqueue, BackoffElapses
  <2>2. CASE Polling
    BY <2>2 DEF Polling, PollClock, PopNothing, PopFails, Pop
  <2>3. CASE \/ ReplyArrives \/ MarkSucceeded \/ MarkFailedAttempt \/ MarkFailedAttemptFails
             \/ InsertFailed \/ DeleteMoved \/ MoveFails
    BY <2>3 DEF ReplyArrives, MarkSucceeded, MarkFailedAttempt, MarkFailedAttemptFails,
                InsertFailed, DeleteMoved, MoveFails
  <2> QED BY <1>3, <2>1, <2>2, <2>3 DEF KeepsTrack
<1> QED BY <1>1, <1>2, <1>3

LEMMA CleanStep ==
  ASSUME DataTypeOK, TypeOK, WorkerInv, CleanInv, [SystemNext]_systemVars
  PROVE  CleanInv'
<1>0. /\ resyncs \in Seq(Resync) /\ \A i \in DOMAIN resyncs : resyncs[i] \in Resync
      /\ data \in [Backends -> Seq(Requests)]
      /\ \A i \in DOMAIN resyncs : Knows(resyncs[i])
  BY HoldsType DEF DataTypeOK, CleanInv
<1>1. ASSUME \A i \in DOMAIN resyncs' : ~resyncs'[i].clean PROVE CleanInv'
  BY <1>1 DEF CleanInv, Knows
<1>2. ASSUME resyncs' = Unclean PROVE CleanInv'
  BY <1>0, <1>1, <1>2, UncleanType
<1>3. ASSUME UNCHANGED <<resyncs, data>>, Calm => Calm' PROVE CleanInv'
  BY <1>0, <1>3 DEF CleanInv, Knows
<1>4. ASSUME ~Calm, UNCHANGED resyncs PROVE CleanInv'
  BY <1>0, <1>1, <1>4 DEF Knows
<1>5. UNCHANGED vars => (Calm <=> Calm')
  BY DEF Calm, vars, handlerVars, dbVars, workerVars, shadowVars
<1>6. CASE Writing
  <2>1. CASE GivesUp
    <3>1. Unclean \in Seq(Resync) /\ DOMAIN Unclean = DOMAIN resyncs
          /\ \A i \in DOMAIN resyncs : ~Unclean[i].clean
      BY <1>0, UncleanType
    <3>2. "shadow" \in Backends
      BY DEF Backends
    <3>3. Spawned("shadow") \in Resync /\ ~Spawned("shadow").clean
      BY <3>2, SpawnedType, Unsaid
    <3> QED BY <1>1, <2>1, <3>1, <3>3, AppendedType DEF GivesUp
  <2>2. ASSUME NEW r \in Requests, ClientWrites(r) PROVE CleanInv'
    BY <1>2, <2>2 DEF ClientWrites
  <2>3. CASE LosesTrack
    BY <1>2, <2>3 DEF LosesTrack
  <2>4. CASE KeepsTrack
    <3>1. UNCHANGED <<resyncs, data>>
      BY <2>4 DEF KeepsTrack, Elsewhere, backendVars, resyncVars
    <3> QED BY <1>3, <2>4, <3>1, CalmStep
  <2>5. ASSUME NEW r \in Requests, PrimaryExecutes(r) \/ PrimaryTurnsDown(r) \/ CopyArrivesLate(r)
        PROVE  CleanInv'
    BY <1>4, <2>5, CalmStep DEF PrimaryExecutes, PrimaryTurnsDown, CopyArrivesLate, Elsewhere, resyncVars
  <2>6. CASE ShadowExecutes \/ ShadowTurnsDown
    BY <1>4, <2>6, CalmStep DEF ShadowExecutes, ShadowTurnsDown, Elsewhere, resyncVars
  <2> QED BY <1>6, <2>1, <2>2, <2>3, <2>4, <2>5, <2>6 DEF Writing
<1>7. CASE Resyncing
  <2>1. ASSUME NEW b \in Backends, BackendRestarts(b) PROVE CleanInv'
    BY <1>2, <2>1 DEF BackendRestarts
  <2>2. ASSUME NEW b \in Backends, PollsRestarted(b) PROVE CleanInv'
    <3>1. UNCHANGED data /\ (Calm => Calm')
      BY <1>5, <2>2 DEF PollsRestarted
    <3>2. CASE resyncs' = resyncs
      BY <1>3, <3>1, <3>2
    <3>3. CASE resyncs' = Append(resyncs, Spawned(b))
      BY <1>0, <3>1, <3>3, SpawnedType, AppendedType, Unsaid DEF CleanInv, Knows
    <3> QED BY <2>2, <3>2, <3>3 DEF PollsRestarted
  <2>3. ASSUME NEW i \in DOMAIN resyncs, TakeSnapshot(i) PROVE CleanInv'
    <3> DEFINE t == [resyncs[i] EXCEPT !.phase = "load", !.holds = data[Peer(resyncs[i].to)],
                                       !.clean = Undisturbed(i)]
    <3>1. resyncs' = [resyncs EXCEPT ![i] = t]
      BY <1>0, <2>3 DEF TakeSnapshot, Resync
    <3>2. UNCHANGED data /\ (Calm => Calm')
      BY <1>5, <2>3 DEF TakeSnapshot, backendVars
    <3>3. t.clean = Undisturbed(i) /\ t.phase = "load" /\ t.holds = data[Peer(t.to)]
      BY <1>0 DEF Resync
    <3>4. t.clean => Calm' /\ t.holds = data'[Peer(t.to)]
      BY <3>2, <3>3, Unsaid DEF Undisturbed
    <3>5. /\ DOMAIN resyncs' = DOMAIN resyncs /\ resyncs'[i] = t
          /\ \A k \in DOMAIN resyncs : k # i => resyncs'[k] = resyncs[k]
      BY <1>0, <3>1
    <3>6. ASSUME NEW k \in DOMAIN resyncs' PROVE Knows(resyncs[k])'
      <4>1. CASE k = i
        BY <3>3, <3>4, <3>5, <4>1 DEF Knows
      <4>2. CASE k # i
        BY <1>0, <3>2, <3>5, <4>2 DEF Knows
      <4> QED BY <4>1, <4>2
    <3> QED BY <3>6 DEF CleanInv
  <2>4. ASSUME NEW i \in DOMAIN resyncs, LoadSnapshot(i) PROVE CleanInv'
    <3> DEFINE t == [resyncs[i] EXCEPT !.phase = "loaded"]
    <3>1. resyncs' = [Unclean EXCEPT ![i] = t] /\ DOMAIN resyncs' = DOMAIN resyncs
          /\ resyncs[i].phase = "load" /\ Loads(i) /\ resyncs[i].to \in Backends
      BY <1>0, <2>4, UncleanType DEF LoadSnapshot, Resync
    <3>2. \A k \in DOMAIN resyncs : k # i => ~resyncs'[k].clean
      BY <1>0, <3>1, UncleanType
    <3>3. resyncs'[i] = t /\ t.clean = resyncs[i].clean /\ t.phase = "loaded"
      BY <1>0, <3>1, UncleanType DEF Resync
    <3>4. ASSUME t.clean PROVE Calm' /\ data'["primary"] = data'["shadow"]
      <4>1. Calm /\ resyncs[i].holds = data[Peer(resyncs[i].to)]
        BY <1>0, <3>1, <3>3, <3>4 DEF Knows
      <4>2. Calm'
        BY <1>5, <3>1, <4>1 DEF Loads
      <4>3. data' = [data EXCEPT ![resyncs[i].to] = data[Peer(resyncs[i].to)]]
        BY <3>1, <4>1 DEF Loads
      <4> QED BY <1>0, <3>1, <4>2, <4>3 DEF Backends, Peer
    <3> QED BY <3>1, <3>2, <3>3, <3>4 DEF CleanInv, Knows
  <2>5. ASSUME NEW i \in DOMAIN resyncs, CompleteResync(i) PROVE CleanInv'
    <3>1. resyncs' = [resyncs EXCEPT ![i] = Over(resyncs[i].to)] /\ UNCHANGED data /\ (Calm => Calm')
      BY <1>5, <2>5 DEF CompleteResync, backendVars
    <3> QED BY <1>0, <3>1, HoldsType, Unsaid DEF CleanInv, Knows, Resync
  <2>6. ASSUME NEW i \in DOMAIN resyncs, ResyncFails(i) PROVE CleanInv'
    <3>1. /\ UNCHANGED data /\ (Calm => Calm') /\ DOMAIN resyncs' = DOMAIN resyncs
          /\ \A k \in DOMAIN resyncs : k # i => resyncs'[k] = resyncs[k]
          /\ resyncs'[i] = IF resyncs[i].phase = "load" THEN [resyncs[i] EXCEPT !.phase = "orphan"]
                                                         ELSE Over(resyncs[i].to)
      BY <1>0, <1>5, <2>6 DEF ResyncFails, backendVars
    <3>2. CASE resyncs[i].phase = "load"
      <4>1. resyncs'[i].phase = "orphan" /\ resyncs'[i].clean = resyncs[i].clean
        BY <1>0, <3>1, <3>2 DEF Resync
      <4> QED BY <1>0, <3>1, <4>1 DEF CleanInv, Knows
    <3>3. CASE resyncs[i].phase # "load"
      <4>1. ~resyncs'[i].clean
        BY <1>0, <3>1, <3>3, Unsaid DEF Resync
      <4> QED BY <1>0, <3>1, <4>1 DEF CleanInv, Knows
    <3> QED BY <3>2, <3>3
  <2>7. ASSUME NEW i \in DOMAIN resyncs, LateLoad(i) PROVE CleanInv'
    <3>1. resyncs[i].to \in Backends /\ resyncs' = [Unclean EXCEPT ![i] = Over(resyncs[i].to)]
      BY <1>0, <2>7 DEF LateLoad, Resync
    <3> QED BY <1>0, <1>1, <3>1, UncleanType, Unsaid
  <2> QED BY <1>7, <2>1, <2>2, <2>3, <2>4, <2>5, <2>6, <2>7 DEF Resyncing
<1>8. CASE Reading \/ UNCHANGED systemVars
  BY <1>3, <1>5, <1>8
     DEF Reading, PrimaryAnswers, CheckDegraded, Compares, ReadFails, systemVars, backendVars, resyncVars
<1>9. CASE ProxyCrashes
  <2>1. \A i \in DOMAIN resyncs' : ~resyncs'[i].clean
    BY <1>0, <1>9, Unsaid DEF ProxyCrashes, Resync
  <2> QED BY <1>1, <2>1
<1> QED BY <1>6, <1>7, <1>8, <1>9 DEF SystemNext

-----------------------------------------------------------------------------
(* r is still to be sent to the shadow, or was given up just now. *)
Pending(r) ==
    \/ r \in queue
    \/ handler[r] \in {"calling", "replied", "stamped"}
    \/ wpc = "moved" /\ wreq = r

(* While nothing sets the backends apart, no write is lost track of.        *)
TrackInv ==
    inStep =>
        /\ \A r \in toPrimary : handler[r] = "calling"
        /\ wpc = "succeeding" \/ copy = "applied" => wreq \in Holds("shadow")
        /\ \A r \in Holds("primary") : r \in Holds("shadow") \/ Pending(r)

LEMMA TrackStep ==
  ASSUME DataTypeOK, TypeOK, WorkerInv, PathInv, CleanInv, TrackInv, [SystemNext]_systemVars
  PROVE  TrackInv'
<1>0. /\ "primary" \in Backends /\ "shadow" \in Backends /\ "primary" # "shadow"
      /\ Holds("primary") \subseteq Requests /\ Holds("shadow") \subseteq Requests
      /\ wreq \in Requests /\ inStep \in BOOLEAN
  BY HoldsType DEF DataTypeOK, TypeOK, Backends
<1>1. ASSUME UNCHANGED <<vars, data, inStep>> PROVE TrackInv'
  BY <1>1 DEF TrackInv, Holds, Pending, vars, handlerVars, dbVars, workerVars, shadowVars
<1>2. ASSUME SetsApart PROVE TrackInv'
  BY <1>2 DEF SetsApart, TrackInv
<1>3. ASSUME ~inStep, UNCHANGED inStep PROVE TrackInv'
  BY <1>3 DEF TrackInv
<1>4. UNCHANGED data => Holds("primary")' = Holds("primary") /\ Holds("shadow")' = Holds("shadow")
  BY DEF Holds
<1>5. CASE Writing /\ inStep
  <2> USE <1>0 DEF TypeOK, PathInv, TrackInv, Pending,
                   handlerVars, dbVars, workerVars, shadowVars, ghostVars
  <2>1. ASSUME NEW r \in Requests, ClientWrites(r) PROVE TrackInv'
    <3>1. Receive(r) /\ UNCHANGED data
      BY <2>1 DEF ClientWrites, backendVars
    <3> QED BY <1>4, <1>5, <3>1 DEF Receive
  <2>2. ASSUME NEW r \in Requests, PrimaryExecutes(r) PROVE TrackInv'
    <3>1. /\ Holds("primary")' = Holds("primary") \cup {r}
          /\ Holds("shadow")' = Holds("shadow")
      BY <2>2, ExecutesType DEF PrimaryExecutes, DataTypeOK
    <3> QED BY <1>5, <2>2, <3>1 DEF PrimaryExecutes, PrimaryApplies
  <2>3. ASSUME NEW r \in Requests, PrimaryTurnsDown(r) PROVE TrackInv'
    <3>1. PrimaryRefuses(r) /\ UNCHANGED data
      BY <2>3 DEF PrimaryTurnsDown, Elsewhere, backendVars
    <3> QED BY <1>4, <1>5, <3>1 DEF PrimaryRefuses
  <2>4. ASSUME NEW r \in Requests, CopyArrivesLate(r) PROVE TrackInv'
    <3>1. /\ Holds("primary")' = Holds("primary")
          /\ Holds("shadow")' = Holds("shadow") \cup {r}
      BY <2>4, ExecutesType DEF CopyArrivesLate, DataTypeOK
    <3> QED BY <1>5, <2>4, <3>1 DEF CopyArrivesLate, LateDelivery
  <2>5. CASE ShadowExecutes
    <3>1. /\ Holds("primary")' = Holds("primary")
          /\ Holds("shadow")' = Holds("shadow") \cup {wreq}
      BY <2>5, ExecutesType DEF ShadowExecutes, DataTypeOK
    <3> QED BY <1>5, <2>5, <3>1 DEF ShadowExecutes, ShadowApplies
  <2>6. CASE ShadowTurnsDown
    <3>1. ShadowRefuses /\ UNCHANGED data
      BY <2>6 DEF ShadowTurnsDown, Elsewhere, backendVars
    <3> QED BY <1>4, <1>5, <3>1 DEF ShadowRefuses
  <2>7. CASE LosesTrack \/ GivesUp
    BY <1>2, <2>7 DEF LosesTrack, GivesUp
  <2>8. CASE KeepsTrack
    <3>0. UNCHANGED <<data, inStep>>
      BY <2>8 DEF KeepsTrack, Elsewhere, backendVars, watchVars
    <3> USE <1>4, <1>5, <3>0
    <3>1. ASSUME NEW r \in Requests,
                 PrimaryConfirms(r) \/ Stamp(r) \/ Enqueue(r) \/ BackoffElapses(r)
          PROVE  TrackInv'
      BY <3>1 DEF PrimaryConfirms, Stamp, Enqueue, BackoffElapses
    <3>2. CASE Polling
      BY <3>2 DEF Polling, PollClock, PopNothing, PopFails, Pop, WorkerInv
    <3>3. CASE ReplyArrives
      BY <3>3 DEF ReplyArrives
    <3>4. CASE MarkSucceeded
      BY <3>4 DEF MarkSucceeded, WorkerInv
    <3>5. CASE MarkFailedAttempt \/ MarkFailedAttemptFails \/ InsertFailed
      BY <3>5 DEF MarkFailedAttempt, MarkFailedAttemptFails, InsertFailed, WorkerInv
    <3>6. CASE DeleteMoved
      BY <3>6 DEF DeleteMoved, WorkerInv
    <3>7. CASE MoveFails
      BY <3>7 DEF MoveFails, WorkerInv
    <3> QED BY <2>8, <3>1, <3>2, <3>3, <3>4, <3>5, <3>6, <3>7 DEF KeepsTrack
  <2> QED BY <1>5, <2>1, <2>2, <2>3, <2>4, <2>5, <2>6, <2>7, <2>8 DEF Writing
<1>6. CASE Writing /\ ~inStep
  <2>1. UNCHANGED inStep \/ SetsApart
    BY <1>6 DEF Writing, ClientWrites, PrimaryExecutes, PrimaryTurnsDown, CopyArrivesLate,
                ShadowExecutes, ShadowTurnsDown, KeepsTrack, LosesTrack, GivesUp, Elsewhere, watchVars
  <2> QED BY <1>2, <1>3, <1>6, <2>1
<1>7. CASE Resyncing
  <2>1. ASSUME NEW b \in Backends, BackendRestarts(b) \/ PollsRestarted(b) PROVE TrackInv'
    BY <1>1, <1>2, <2>1 DEF BackendRestarts, PollsRestarted, watchVars
  <2>2. ASSUME NEW i \in DOMAIN resyncs,
               TakeSnapshot(i) \/ LoadSnapshot(i) \/ ResyncFails(i) \/ LateLoad(i)
        PROVE  TrackInv'
    BY <1>1, <1>2, <2>2 DEF TakeSnapshot, LoadSnapshot, ResyncFails, LateLoad, Loads, backendVars, watchVars
  <2>3. ASSUME NEW i \in DOMAIN resyncs, CompleteResync(i) PROVE TrackInv'
    <3>0. resyncs[i].phase = "loaded" /\ inStep' = (inStep \/ resyncs[i].clean)
          /\ UNCHANGED <<vars, data>>
      BY <2>3 DEF CompleteResync, backendVars
    <3>1. CASE resyncs[i].clean
      <4>1. Calm /\ data["primary"] = data["shadow"]
        BY <3>0, <3>1 DEF CleanInv, Knows
      <4>2. Calm' /\ data'["primary"] = data'["shadow"] /\ UNCHANGED <<wpc, copy>>
        BY <3>0, <4>1 DEF Calm, vars, handlerVars, dbVars, workerVars, shadowVars
      <4>3. toPrimary' = {} /\ wpc' # "succeeding" /\ copy' # "applied"
        BY <4>1, <4>2 DEF Calm, WorkerInv
      <4>4. Holds("primary")' = Holds("shadow")'
        BY <4>2 DEF Holds
      <4> QED BY <4>3, <4>4 DEF TrackInv
    <3>2. CASE ~resyncs[i].clean
      <4>1. UNCHANGED inStep
        BY <1>0, <3>0, <3>2
      <4> QED BY <1>1, <3>0, <4>1
    <3> QED BY <3>1, <3>2
  <2> QED BY <1>7, <2>1, <2>2, <2>3 DEF Resyncing
<1>8. CASE Reading \/ UNCHANGED systemVars
  BY <1>1, <1>8
     DEF Reading, PrimaryAnswers, CheckDegraded, Compares, ReadFails, systemVars, backendVars, watchVars
<1>9. CASE ProxyCrashes
  BY <1>2, <1>9 DEF ProxyCrashes
<1> QED BY <1>0, <1>5, <1>6, <1>7, <1>8, <1>9 DEF SystemNext

LEMMA Beginning ==
  ASSUME SystemInit
  PROVE  Holds("primary") = {} /\ Holds("shadow") = {} /\ resyncs = <<>> /\ DOMAIN resyncs = {}
<1>1. DOMAIN <<>> = {}
  OBVIOUS
<1>2. data["primary"] = <<>> /\ data["shadow"] = <<>> /\ resyncs = <<>>
  BY DEF SystemInit, Backends
<1> QED BY <1>1, <1>2 DEF Holds

LEMMA TrackInvHolds == SystemSafety => [](CleanInv /\ TrackInv)
<1>1. SystemInit => CleanInv /\ TrackInv
  BY Beginning DEF SystemInit, Init, CleanInv, TrackInv
<1>2. SystemSafety => [](TypeOK /\ WorkerInv /\ PathInv)
  BY ImplementsWriteReplay, TypeCorrect, PathInvHolds, PTL
<1> QED BY <1>1, <1>2, CleanStep, TrackStep, DataTypeCorrect, PTL DEF SystemSafety

(* The queue loses nothing, for any number of clients, restarts, failed     *)
(* calls and overlapping resyncs: once nothing is pending the shadow holds  *)
(* what the primary holds, unless something has set the backends apart      *)
(* since they last agreed.                                                  *)
THEOREM NothingIsMissing == SystemSafety => []NothingMissing
<1>1. DataTypeOK /\ TrackInv => NothingMissing
  <2> SUFFICES ASSUME DataTypeOK, TrackInv, inStep, Settled, NEW r \in Holds("primary")
               PROVE  r \in Holds("shadow")
    BY DEF NothingMissing
  <2>1. r \in Requests
    BY HoldsType DEF Backends
  <2>2. ~Pending(r)
    BY <2>1 DEF Settled, Pending
  <2> QED BY <2>2 DEF TrackInv
<1> QED BY <1>1, DataTypeCorrect, TrackInvHolds, PTL

-----------------------------------------------------------------------------
(* What a step does to the backends' data. *)
LEMMA BackendsMove ==
  ASSUME TypeOK, [SystemNext]_systemVars
  PROVE  \/ UNCHANGED <<data, shared, restarted>>
         \/ UNCHANGED restarted /\ \E b \in Backends, r \in Requests : Executes(b, r)
         \/ \E i \in DOMAIN resyncs : Loads(i)
         \/ \E b \in Backends : BackendRestarts(b)
<1>1. CASE Writing
  <2>1. ASSUME NEW r \in Requests, PrimaryExecutes(r) \/ CopyArrivesLate(r)
        PROVE  UNCHANGED restarted /\ \E b \in Backends, q \in Requests : Executes(b, q)
    BY <2>1 DEF PrimaryExecutes, CopyArrivesLate, Backends
  <2>2. CASE ShadowExecutes
    <3>1. UNCHANGED restarted /\ Executes("shadow", wreq) /\ "shadow" \in Backends
      BY <2>2 DEF ShadowExecutes, Backends
    <3>2. wreq \in Requests
      BY DEF TypeOK
    <3> QED BY <3>1, <3>2
  <2>3. CASE ~ShadowExecutes /\ \A r \in Requests : ~PrimaryExecutes(r) /\ ~CopyArrivesLate(r)
    BY <1>1, <2>3
       DEF Writing, ClientWrites, PrimaryTurnsDown, ShadowTurnsDown, KeepsTrack, LosesTrack, GivesUp,
           Elsewhere, backendVars, watchVars
  <2> QED BY <2>1, <2>2, <2>3
<1>2. CASE Resyncing
  <2>1. ASSUME NEW b \in Backends, PollsRestarted(b) PROVE UNCHANGED <<data, shared, restarted>>
    BY <2>1 DEF PollsRestarted, watchVars
  <2>2. ASSUME NEW i \in DOMAIN resyncs, TakeSnapshot(i) \/ CompleteResync(i) \/ ResyncFails(i)
        PROVE  UNCHANGED <<data, shared, restarted>>
    BY <2>2 DEF TakeSnapshot, CompleteResync, ResyncFails, backendVars, watchVars
  <2>3. ASSUME NEW i \in DOMAIN resyncs, LoadSnapshot(i) \/ LateLoad(i) PROVE Loads(i)
    BY <2>3 DEF LoadSnapshot, LateLoad
  <2> QED BY <1>2, <2>1, <2>2, <2>3 DEF Resyncing
<1>3. CASE Reading \/ ProxyCrashes \/ UNCHANGED systemVars
  BY <1>3 DEF Reading, PrimaryAnswers, CheckDegraded, Compares, ReadFails, ProxyCrashes, systemVars,
              backendVars, watchVars
<1> QED BY <1>1, <1>2, <1>3 DEF SystemNext

-----------------------------------------------------------------------------
(* While no backend lost its data or had it replaced, the shadow holds what *)
(* it has acknowledged.                                                     *)
AckedInv ==
    Untouched =>
        /\ wpc = "succeeding" \/ copy = "applied" => wreq \in Holds("shadow")
        /\ acked \subseteq Holds("shadow")

(* What a step that is not the shadow's own makes of the acknowledgements. *)
Acks ==
    /\ acked' \subseteq acked \cup (IF wpc = "succeeding" THEN {wreq} ELSE {})
    /\ wpc' = "succeeding" \/ copy' = "applied" =>
         wreq' = wreq /\ (wpc = "succeeding" \/ copy = "applied")

LEMMA AcksStep ==
  ASSUME TypeOK, WorkerInv, [SystemNext]_systemVars, ~ShadowExecutes
  PROVE  Acks
<1> USE DEF Acks, WorkerInv, handlerVars, dbVars, workerVars, shadowVars, ghostVars
<1>1. ASSUME UNCHANGED vars PROVE Acks
  BY <1>1 DEF vars
<1>2. CASE Writing
  <2>1. ASSUME NEW r \in Requests,
               ClientWrites(r) \/ PrimaryExecutes(r) \/ PrimaryTurnsDown(r) \/ CopyArrivesLate(r)
        PROVE  Acks
    BY <2>1 DEF ClientWrites, PrimaryExecutes, PrimaryTurnsDown, CopyArrivesLate,
                Receive, PrimaryApplies, PrimaryRefuses, LateDelivery
  <2>2. CASE ShadowTurnsDown \/ GivesUp
    BY <2>2 DEF ShadowTurnsDown, GivesUp, ShadowRefuses, Degrade, DegradeFails
  <2>3. CASE LosesTrack
    <3>1. ASSUME NEW r \in Requests, PrimaryFails(r) \/ Disconnect(r) \/ EnqueueFails(r) PROVE Acks
      BY <3>1 DEF PrimaryFails, Disconnect, EnqueueFails
    <3>2. CASE SendFails \/ MarkSucceededFails
      BY <3>2 DEF SendFails, LoseTrack, MarkSucceededFails
    <3> QED BY <2>3, <3>1, <3>2 DEF LosesTrack
  <2>4. CASE KeepsTrack
    <3>1. ASSUME NEW r \in Requests, PrimaryConfirms(r) \/ Stamp(r) \/ Enqueue(r) \/ BackoffElapses(r)
          PROVE  Acks
      BY <3>1 DEF PrimaryConfirms, Stamp, Enqueue, BackoffElapses
    <3>2. CASE Polling
      BY <3>2 DEF Polling, PollClock, PopNothing, PopFails, Pop
    <3>3. CASE ReplyArrives
      BY <3>3 DEF ReplyArrives
    <3>4. CASE MarkSucceeded
      BY <3>4 DEF MarkSucceeded
    <3>5. CASE MarkFailedAttempt \/ MarkFailedAttemptFails \/ InsertFailed \/ DeleteMoved \/ MoveFails
      BY <3>5 DEF MarkFailedAttempt, MarkFailedAttemptFails, InsertFailed, DeleteMoved, MoveFails
    <3> QED BY <2>4, <3>1, <3>2, <3>3, <3>4, <3>5 DEF KeepsTrack
  <2> QED BY <1>2, <2>1, <2>2, <2>3, <2>4 DEF Writing
<1>3. CASE Resyncing
  BY <1>1, <1>3 DEF Resyncing, BackendRestarts, PollsRestarted, TakeSnapshot, LoadSnapshot, Loads,
                    CompleteResync, ResyncFails, LateLoad
<1>4. CASE Reading
  BY <1>1, <1>4 DEF Reading, PrimaryAnswers, CheckDegraded, Compares, ReadFails
<1>5. CASE ProxyCrashes
  BY <1>5 DEF ProxyCrashes, CrashRestart, LoseTrack
<1>6. CASE UNCHANGED systemVars
  BY <1>1, <1>6 DEF systemVars
<1> QED BY <1>2, <1>3, <1>4, <1>5, <1>6 DEF SystemNext

LEMMA AckedStep ==
  ASSUME DataTypeOK, TypeOK, WorkerInv, AckedInv, [SystemNext]_systemVars
  PROVE  AckedInv'
<1> SUFFICES ASSUME Untouched' PROVE AckedInv'
  BY DEF AckedInv
<1>1. Untouched /\ DOMAIN resyncs = {} /\ \A b \in Backends : ~BackendRestarts(b)
  <2>1. restarted = {} /\ \A b \in Backends : ~BackendRestarts(b)
    BY BackendsMove DEF Untouched, Loads, BackendRestarts
  <2>2. resyncs = <<>>
    <3>1. resyncs' = <<>> /\ DOMAIN <<>> = {}
      BY DEF Untouched
    <3>2. DOMAIN resyncs = {} /\ resyncs \in Seq(Resync)
      BY <3>1, TasksStep DEF Evolves, DataTypeOK
    <3> QED BY <3>2, EmptySeq, LenProperties
  <2> QED BY <2>1, <2>2 DEF Untouched
<1>2. Holds("shadow") \subseteq Holds("shadow")'
  <2>1. ASSUME UNCHANGED data PROVE Holds("shadow") \subseteq Holds("shadow")'
    BY <2>1 DEF Holds
  <2>2. ASSUME NEW b \in Backends, NEW r \in Requests, Executes(b, r)
        PROVE  Holds("shadow") \subseteq Holds("shadow")'
    BY <2>2, ExecutesType DEF Backends
  <2> QED BY <1>1, <2>1, <2>2, BackendsMove
<1>3. CASE ShadowExecutes
  <2>1. wreq \in Requests /\ "shadow" \in Backends /\ UNCHANGED <<wreq, acked>>
    BY <1>3 DEF ShadowExecutes, ShadowApplies, workerVars, ghostVars, TypeOK, Backends
  <2>2. wreq \in Holds("shadow")'
    BY <1>3, <2>1, ExecutesType DEF ShadowExecutes
  <2> QED BY <1>1, <1>2, <2>1, <2>2 DEF AckedInv
<1>4. CASE ~ShadowExecutes
  <2>1. Acks
    BY <1>4, AcksStep
  <2> QED BY <1>1, <1>2, <2>1 DEF AckedInv, Acks
<1> QED BY <1>3, <1>4

(* What the shadow lacks once nothing is pending was never queued, or was   *)
(* given up, whatever crashes, answers and updates were lost: worker.rs     *)
(* deletes a row only on the shadow's 2xx or after recording it as failed.  *)
THEOREM MissingWasExplained == SystemSafety => []MissingIsExplained
<1>1. SystemInit => AckedInv
  BY DEF SystemInit, Init, AckedInv
<1>2. SystemSafety => [](TypeOK /\ WorkerInv /\ RowsInv)
  BY ImplementsWriteReplay, TypeCorrect, RowsInvHolds, PTL
<1>3. DataTypeOK /\ TypeOK /\ RowsInv /\ AckedInv => MissingIsExplained
  <2> SUFFICES ASSUME DataTypeOK, TypeOK, RowsInv, AckedInv, Untouched, Settled,
                      NEW r \in Holds("primary"), r \notin Holds("shadow")
               PROVE  rowid[r] = 0 \/ failed[r] > 0
    BY DEF MissingIsExplained
  <2>1. r \in Requests /\ r \notin queue /\ r \notin acked
    BY HoldsType DEF Backends, Settled, AckedInv
  <2> QED BY <2>1 DEF RowsInv, TypeOK
<1> QED BY <1>1, <1>2, <1>3, AckedStep, DataTypeCorrect, PTL DEF SystemSafety

-----------------------------------------------------------------------------
(* A backend that has not restarted, which for the shadow is not enough: it *)
(* is also resynced when a write is given up.                               *)
Unspoilt == faults = 0 /\ GivenUp = {}

Spared(b) == b \notin restarted /\ (b = "shadow" => Unspoilt)

(* It is not resynced, and holds what both have held. *)
SurvivalInv ==
    \A b \in Backends : Spared(b) =>
        /\ \A i \in DOMAIN resyncs : resyncs[i].to # b
        /\ shared \subseteq Holds(b)

(* What is on record stays on record. *)
LEMMA UnspoiltStep ==
  ASSUME TypeOK, [SystemNext]_systemVars, Unspoilt'
  PROVE  Unspoilt
<1> USE DEF TypeOK, GivenUp, Unspoilt, handlerVars, dbVars, workerVars, shadowVars, ghostVars
<1>1. faults \in Nat /\ \A r \in Requests : failed[r] \in Nat
  OBVIOUS
<1> SUFFICES ASSUME NEW r \in Requests
             PROVE  faults = 0 /\ ~(failed[r] > 0)
  BY <1>1 DEF Unspoilt, GivenUp
<1>2. faults' = 0 /\ ~(failed'[r] > 0)
  OBVIOUS
<1>3. [Next]_vars
  BY StepIsWriteReplay
<1>4. faults' = faults \/ faults' = faults + 1
  BY <1>3 DEF Next, vars, Handling, Receive, PrimaryConfirms, PrimaryRefuses, PrimaryFails, Disconnect,
              Stamp, Enqueue, EnqueueFails, PrimaryApplies, LateDelivery, BackoffElapses,
              Polling, PollClock, PopNothing, PopFails, Pop, ShadowApplies, ShadowRefuses,
              AwaitingShadow, ReplyArrives, SendFails, Recording, MarkSucceeded, MarkSucceededFails,
              MarkFailedAttempt, MarkFailedAttemptFails, InsertFailed, DeleteMoved, MoveFails,
              Degrade, DegradeFails, CrashRestart
<1>5. failed' = failed \/ failed' = [failed EXCEPT ![wreq] = @ + 1]
  BY <1>3 DEF Next, vars, Handling, Receive, PrimaryConfirms, PrimaryRefuses, PrimaryFails, Disconnect,
              Stamp, Enqueue, EnqueueFails, PrimaryApplies, LateDelivery, BackoffElapses,
              Polling, PollClock, PopNothing, PopFails, Pop, ShadowApplies, ShadowRefuses,
              AwaitingShadow, ReplyArrives, SendFails, Recording, MarkSucceeded, MarkSucceededFails,
              MarkFailedAttempt, MarkFailedAttemptFails, InsertFailed, DeleteMoved, MoveFails,
              Degrade, DegradeFails, CrashRestart
<1> QED BY <1>1, <1>2, <1>4, <1>5

LEMMA SurvivalStep ==
  ASSUME DataTypeOK, TypeOK, PathInv, SurvivalInv, [SystemNext]_systemVars
  PROVE  SurvivalInv'
<1> SUFFICES ASSUME NEW b \in Backends, Spared(b)'
             PROVE  /\ \A i \in DOMAIN resyncs' : resyncs'[i].to # b
                    /\ shared' \subseteq Holds(b)'
  BY DEF SurvivalInv
<1>1. b \notin restarted /\ restarted \subseteq restarted'
  <2>1. UNCHANGED restarted \/ \E c \in Backends : restarted' = restarted \cup {c}
    BY BackendsMove DEF Loads, BackendRestarts
  <2> QED BY <2>1 DEF Spared
<1>2. Spared(b) /\ ~(b = "shadow" /\ GivesUp)
  <2>1. b = "shadow" => Unspoilt
    BY UnspoiltStep DEF Spared
  <2>2. GivesUp => ~Unspoilt
    BY DEF GivesUp, Degrade, DegradeFails, PathInv, Unspoilt, GivenUp, TypeOK
  <2> QED BY <1>1, <2>1, <2>2 DEF Spared
<1>3. /\ \A i \in DOMAIN resyncs : resyncs[i].to # b
      /\ shared \subseteq Holds(b)
  BY <1>2 DEF SurvivalInv
<1>4. ASSUME NEW i \in DOMAIN resyncs' PROVE resyncs'[i].to # b
  BY <1>1, <1>2, <1>3, TasksStep, Targets DEF DataTypeOK
<1>5. shared' \subseteq Holds(b)'
  <2>1. CASE UNCHANGED <<data, shared>>
    BY <1>3, <2>1 DEF Holds
  <2>2. ASSUME NEW c \in Backends, NEW r \in Requests, Executes(c, r)
        PROVE  shared' \subseteq Holds(b)'
    <3>1. Holds(b)' = IF b = c THEN Holds(b) \cup {r} ELSE Holds(b)
      BY <2>2, ExecutesType
    <3>2. shared' = IF r \in Holds(Peer(c)) THEN shared \cup {r} ELSE shared
      BY <2>2 DEF Executes
    <3>3. b = c \/ b = Peer(c)
      BY DEF Backends, Peer
    <3> QED BY <1>3, <3>1, <3>2, <3>3
  <2>3. ASSUME NEW i \in DOMAIN resyncs, Loads(i)
        PROVE  shared' \subseteq Holds(b)'
    <3>1. resyncs[i].to \in Backends /\ resyncs[i].to # b
      BY <1>3, HoldsType
    <3>2. b = Peer(resyncs[i].to)
      BY <3>1 DEF Backends, Peer
    <3>3. Holds(b)' = Holds(b)
      BY <2>3, <3>1 DEF Loads, Holds, DataTypeOK
    <3>4. shared' \subseteq shared \cup Holds(b)
      BY <2>3, <3>2 DEF Loads
    <3> QED BY <1>3, <3>3, <3>4
  <2>4. ASSUME NEW c \in Backends, BackendRestarts(c)
        PROVE  shared' \subseteq Holds(b)'
    <3>1. c # b
      BY <2>4 DEF BackendRestarts, Spared
    <3>2. Holds(b)' = Holds(b) /\ UNCHANGED shared
      BY <2>4, <3>1 DEF BackendRestarts, Holds, DataTypeOK
    <3> QED BY <1>3, <3>2
  <2> QED BY <2>1, <2>2, <2>3, <2>4, BackendsMove
<1> QED BY <1>4, <1>5

(* However its writes, reads, failed calls and resyncs interleave, the      *)
(* restarts of one backend, any number of them, cost nothing that both have *)
(* held: trigger_primary_resync and trigger_shadow_resync go from the       *)
(* backend that kept its data to the other.  What both have held stays with *)
(* a primary that has not restarted, without exception; with a shadow that  *)
(* has not restarted it stays as long as no write is given up and the       *)
(* database answers, since giving up resyncs the shadow whatever it holds.  *)
THEOREM SurvivorKeepsData == SystemSafety => []DataSurvives
<1>1. SystemInit => SurvivalInv
  BY Beginning DEF SystemInit, SurvivalInv
<1>2. SystemSafety => [](TypeOK /\ PathInv)
  BY ImplementsWriteReplay, TypeCorrect, PathInvHolds, PTL
<1>3. SurvivalInv => DataSurvives
  BY DEF SurvivalInv, Spared, Unspoilt, DataSurvives, Backends
<1> QED BY <1>1, <1>2, <1>3, SurvivalStep, DataTypeCorrect, PTL DEF SystemSafety
=============================================================================
