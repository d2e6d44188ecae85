-------------------------- MODULE WriteReplayProofs --------------------------
(***************************************************************************)
(* The write path's safety properties, proved for every set of requests,   *)
(* every budget and any number of crashes and database errors.             *)
(*                                                                         *)
(* The inductive invariant comes in layers, each proved with those below:  *)
(*   WorkerInv   what the worker's snapshot says of the row it holds,      *)
(*   RowsInv     where a request's row can be,                             *)
(*   SendsInv    attempts and sends,                                       *)
(*   CopiesInv   copies on the wire and executions at the shadow,          *)
(*   RecordsInv  the final records,                                        *)
(*   OrderInv    the order of one client's writes;                         *)
(* and two counts, FewRowless and FewUnflagged, of the writes that a crash *)
(* or an error has left without a row, or without a degraded mark.         *)
(***************************************************************************)
EXTENDS WriteReplay, TLAPS, FiniteSetTheorems

(* The row the worker holds is in the queue as the worker read it. *)
WorkerInv ==
    /\ \A r \in Requests : Processing(r) => r \in queue /\ wattempts = attempts[r]
    /\ wpc = "inserted" => Exhausted(wattempts)
    /\ wpc = "sent" <=> copy # "none"

(* Every variable keeps its type, and the worker's snapshot stays true.     *)
(* This is the type correctness the runs check, for every instance.         *)
THEOREM TypeCorrect == Safety => [](TypeOK /\ WorkerInv)
<1>1. Init => TypeOK /\ WorkerInv
  <2> SUFFICES ASSUME Init PROVE TypeOK /\ WorkerInv
    OBVIOUS
  <2>1. 0 \in 0 .. (Budget - 1)
    BY ReplayAssumption DEF Budget
  <2>2. TypeOK
    BY <2>1, ReplayAssumption DEF Init, TypeOK, Handlers, WorkerStates, Copies
  <2>3. WorkerInv
    BY DEF Init, WorkerInv, Processing
  <2> QED BY <2>2, <2>3
<1>2. TypeOK /\ WorkerInv /\ [Next]_vars => (TypeOK /\ WorkerInv)'
  <2> SUFFICES ASSUME TypeOK, WorkerInv, [Next]_vars
               PROVE  (TypeOK /\ WorkerInv)'
    OBVIOUS
  <2> USE ReplayAssumption
      DEF TypeOK, WorkerInv, Processing, Handlers, WorkerStates, Copies,
          handlerVars, dbVars, workerVars, shadowVars, ghostVars
  <2>1. ASSUME NEW r \in Requests, Handling(r) PROVE (TypeOK /\ WorkerInv)'
    <3>1. CASE Enqueue(r)
      BY <3>1 DEF Enqueue
    <3>2. CASE EnqueueFails(r)
      BY <3>2 DEF EnqueueFails
    <3>3. CASE Receive(r)
      BY <3>3 DEF Receive
    <3>4. CASE PrimaryConfirms(r) \/ PrimaryRefuses(r) \/ PrimaryFails(r)
      BY <3>4 DEF PrimaryConfirms, PrimaryRefuses, PrimaryFails
    <3>5. CASE Disconnect(r) \/ Stamp(r)
      BY <3>5 DEF Disconnect, Stamp
    <3> QED BY <2>1, <3>1, <3>2, <3>3, <3>4, <3>5 DEF Handling
  <2>2. ASSUME NEW r \in Requests, PrimaryApplies(r) PROVE (TypeOK /\ WorkerInv)'
    BY <2>2 DEF PrimaryApplies
  <2>3. ASSUME NEW r \in Requests, LateDelivery(r) PROVE (TypeOK /\ WorkerInv)'
    BY <2>3 DEF LateDelivery
  <2>4. ASSUME NEW r \in Requests, BackoffElapses(r) PROVE (TypeOK /\ WorkerInv)'
    BY <2>4 DEF BackoffElapses
  <2>5. ASSUME NEW r \in Requests, Pop(r) PROVE (TypeOK /\ WorkerInv)'
    BY <2>5 DEF Pop
  <2>6. CASE PollClock \/ PopNothing \/ PopFails
    BY <2>6 DEF PollClock, PopNothing, PopFails
  <2>7. CASE ShadowApplies \/ ShadowRefuses
    BY <2>7 DEF ShadowApplies, ShadowRefuses
  <2>8. CASE ReplyArrives
    BY <2>8 DEF ReplyArrives
  <2>9. CASE SendFails
    BY <2>9 DEF SendFails, LoseTrack
  <2>10. CASE MarkSucceeded \/ MarkSucceededFails
    BY <2>10 DEF MarkSucceeded, MarkSucceededFails
  <2>11. CASE MarkFailedAttempt
    <3>1. wattempts = attempts[wreq] /\ wattempts + 1 < Budget
      BY <2>11 DEF MarkFailedAttempt, Exhausted, Budget
    <3> QED BY <2>11, <3>1 DEF MarkFailedAttempt, Budget
  <2>12. CASE MarkFailedAttemptFails
    BY <2>12 DEF MarkFailedAttemptFails
  <2>13. CASE InsertFailed \/ DeleteMoved \/ MoveFails
    BY <2>13 DEF InsertFailed, DeleteMoved, MoveFails, Exhausted
  <2>14. CASE Degrade \/ DegradeFails
    BY <2>14 DEF Degrade, DegradeFails
  <2>15. CASE CrashRestart
    BY <2>15 DEF CrashRestart, LoseTrack
  <2>16. CASE UNCHANGED vars
    BY <2>16 DEF vars, Exhausted
  <2> QED
    BY <2>1, <2>2, <2>3, <2>4, <2>5, <2>6, <2>7, <2>8, <2>9, <2>10, <2>11, <2>12,
       <2>13, <2>14, <2>15, <2>16
       DEF Next, Polling, AwaitingShadow, Recording
<1> QED BY <1>1, <1>2, PTL DEF Safety
(* Where a request can be, by whether it was given a row. *)
RowsInv ==
    /\ wpc = "inserted" => failed[wreq] > 0
    /\ \A r \in Requests :
         /\ rowid[r] > 0 =>
              /\ handler[r] = "responded"
              /\ rowid[r] < nextRowid
              /\ r \in queue \/ r \in acked \/ failed[r] > 0
         /\ rowid[r] = 0 =>
              /\ r \notin queue /\ r \notin acked /\ attempts[r] = 0 /\ failed[r] = 0
              /\ sends[r] = 0 /\ applied[r] = 0 /\ late[r] = 0
         /\ handler[r] = "responded" /\ faults = 0 => rowid[r] > 0
         /\ ~(r \in queue /\ r \in acked)

(* Rows come and go only as the module says. *)
LEMMA RowsInvHolds == Safety => []RowsInv
<1>1. Init => RowsInv
  BY ReplayAssumption DEF Init, RowsInv, TypeOK, Handlers
<1>2. TypeOK /\ WorkerInv /\ RowsInv /\ [Next]_vars => RowsInv'
  <2> SUFFICES ASSUME TypeOK, WorkerInv, RowsInv, [Next]_vars
               PROVE  RowsInv'
    OBVIOUS
  <2> USE DEF TypeOK, WorkerInv, RowsInv, Processing,
          handlerVars, dbVars, workerVars, shadowVars, ghostVars
  <2>1. ASSUME NEW r \in Requests, Receive(r) \/ Disconnect(r) \/ Stamp(r)
        PROVE  RowsInv'
    BY <2>1 DEF Receive, Disconnect, Stamp
  <2>2. ASSUME NEW r \in Requests, PrimaryConfirms(r) \/ PrimaryRefuses(r) \/ PrimaryFails(r) \/ PrimaryApplies(r)
        PROVE  RowsInv'
    BY <2>2 DEF PrimaryConfirms, PrimaryRefuses, PrimaryFails, PrimaryApplies
  <2>3. ASSUME NEW r \in Requests, Enqueue(r)
        PROVE  RowsInv'
    BY <2>3 DEF Enqueue
  <2>4. ASSUME NEW r \in Requests, EnqueueFails(r)
        PROVE  RowsInv'
    BY <2>4 DEF EnqueueFails
  <2>5. ASSUME NEW r \in Requests, LateDelivery(r)
        PROVE  RowsInv'
    BY <2>5 DEF LateDelivery
  <2>6. ASSUME NEW r \in Requests, BackoffElapses(r)
        PROVE  RowsInv'
    BY <2>6 DEF BackoffElapses
  <2>7. ASSUME NEW r \in Requests, Pop(r)
        PROVE  RowsInv'
    BY <2>7 DEF Pop
  <2>8. CASE PollClock \/ PopNothing \/ PopFails
    BY <2>8 DEF PollClock, PopNothing, PopFails
  <2>9. CASE ShadowApplies
    BY <2>9 DEF ShadowApplies
  <2>10. CASE ShadowRefuses \/ ReplyArrives
    BY <2>10 DEF ShadowRefuses, ReplyArrives
  <2>11. CASE SendFails
    BY <2>11 DEF SendFails, LoseTrack
  <2>12. CASE MarkSucceeded
    BY <2>12 DEF MarkSucceeded
  <2>13. CASE MarkSucceededFails
    BY <2>13 DEF MarkSucceededFails
  <2>14. CASE MarkFailedAttempt \/ MarkFailedAttemptFails
    BY <2>14 DEF MarkFailedAttempt, MarkFailedAttemptFails
  <2>15. CASE InsertFailed
    BY <2>15 DEF InsertFailed
  <2>16. CASE DeleteMoved
    BY <2>16 DEF DeleteMoved
  <2>17. CASE MoveFails
    BY <2>17 DEF MoveFails
  <2>18. CASE Degrade \/ DegradeFails
    BY <2>18 DEF Degrade, DegradeFails
  <2>19. CASE CrashRestart
    BY <2>19 DEF CrashRestart, LoseTrack
  <2>20. CASE UNCHANGED vars
    BY <2>20 DEF vars
  <2> QED
    BY <2>1, <2>2, <2>3, <2>4, <2>5, <2>6, <2>7, <2>8, <2>9, <2>10, <2>11, <2>12, <2>13, <2>14, <2>15, <2>16, <2>17, <2>18, <2>19, <2>20
       DEF Next, Handling, Polling, AwaitingShadow, Recording
<1> QED BY <1>1, <1>2, TypeCorrect, PTL DEF Safety

(* Attempts counted, sends made, and what crashes and errors add. *)
SendsInv ==
    \A r \in Requests :
        /\ attempts[r] <= sends[r]
        /\ Processing(r) => attempts[r] < sends[r]
        /\ sends[r] <= attempts[r] + crashes + faults
                         + (IF r \in queue /\ ~Processing(r) THEN 0 ELSE 1)
        /\ r \in waiting => sends[r] > 0
        /\ failed[r] > 0 => sends[r] >= Budget

(* Every send is counted, under way or lost to a crash or an error. *)
LEMMA SendsInvHolds == Safety => []SendsInv
<1>1. Init => SendsInv
  <2> SUFFICES ASSUME Init PROVE SendsInv
    OBVIOUS
  <2>1. crashes = 0 /\ faults = 0 /\ queue = {} /\ waiting = {} /\ wpc = "idle"
    BY DEF Init
  <2>2. \A r \in Requests : attempts[r] = 0 /\ sends[r] = 0 /\ failed[r] = 0
    BY DEF Init
  <2> SUFFICES ASSUME NEW r \in Requests PROVE SendsInv!(r)
    BY DEF SendsInv
  <2> QED BY <2>1, <2>2 DEF Processing
<1>2. TypeOK /\ WorkerInv /\ RowsInv /\ SendsInv /\ [Next]_vars => SendsInv'
  <2> SUFFICES ASSUME TypeOK, WorkerInv, RowsInv, SendsInv, [Next]_vars
               PROVE  SendsInv'
    OBVIOUS
  <2> USE DEF TypeOK, WorkerInv, RowsInv, SendsInv, Processing,
          handlerVars, dbVars, workerVars, shadowVars, ghostVars
  <2>1. ASSUME NEW r \in Requests, Receive(r) \/ Disconnect(r) \/ Stamp(r)
        PROVE  SendsInv'
    BY <2>1 DEF Receive, Disconnect, Stamp
  <2>2. ASSUME NEW r \in Requests, PrimaryConfirms(r) \/ PrimaryRefuses(r) \/ PrimaryFails(r) \/ PrimaryApplies(r)
        PROVE  SendsInv'
    BY <2>2 DEF PrimaryConfirms, PrimaryRefuses, PrimaryFails, PrimaryApplies
  <2>3. ASSUME NEW r \in Requests, Enqueue(r)
        PROVE  SendsInv'
    BY <2>3 DEF Enqueue
  <2>4. ASSUME NEW r \in Requests, EnqueueFails(r)
        PROVE  SendsInv'
    BY <2>4 DEF EnqueueFails
  <2>5. ASSUME NEW r \in Requests, LateDelivery(r)
        PROVE  SendsInv'
    BY <2>5 DEF LateDelivery
  <2>6. ASSUME NEW r \in Requests, BackoffElapses(r)
        PROVE  SendsInv'
    BY <2>6 DEF BackoffElapses
  <2>7. ASSUME NEW r \in Requests, Pop(r)
        PROVE  SendsInv'
    <3> SUFFICES ASSUME NEW p \in Requests PROVE SendsInv!(p)'
      BY DEF SendsInv
    <3>1. CASE p = r
      <4>1. ~Processing(r) /\ Processing(r)' /\ r \in queue
        BY <2>7 DEF Pop
      <4>2. sends'[r] = sends[r] + 1 /\ UNCHANGED <<attempts, crashes, faults, queue, waiting, failed>>
        BY <2>7 DEF Pop
      <4>3. Budget \in Nat
        BY ReplayAssumption DEF Budget
      <4> QED BY <3>1, <4>1, <4>2, <4>3
    <3>2. CASE p # r
      BY <2>7, <3>2 DEF Pop
    <3> QED BY <3>1, <3>2
  <2>8. CASE PollClock \/ PopNothing \/ PopFails
    BY <2>8 DEF PollClock, PopNothing, PopFails
  <2>9. CASE ShadowApplies
    BY <2>9 DEF ShadowApplies
  <2>10. CASE ShadowRefuses \/ ReplyArrives
    BY <2>10 DEF ShadowRefuses, ReplyArrives
  <2>11. CASE SendFails
    BY <2>11 DEF SendFails, LoseTrack
  <2>12. CASE MarkSucceeded
    BY <2>12 DEF MarkSucceeded
  <2>13. CASE MarkSucceededFails
    BY <2>13 DEF MarkSucceededFails
  <2>14. CASE MarkFailedAttempt \/ MarkFailedAttemptFails
    BY <2>14 DEF MarkFailedAttempt, MarkFailedAttemptFails
  <2>15. CASE InsertFailed
    <3>1. wattempts + 1 >= Budget
      BY <2>15, ReplayAssumption DEF InsertFailed, Exhausted, Budget
    <3>2. Budget \in Nat
      BY ReplayAssumption DEF Budget
    <3> QED BY <2>15, <3>1, <3>2 DEF InsertFailed
  <2>16. CASE DeleteMoved
    BY <2>16 DEF DeleteMoved
  <2>17. CASE MoveFails
    BY <2>17 DEF MoveFails
  <2>18. CASE Degrade \/ DegradeFails
    BY <2>18 DEF Degrade, DegradeFails
  <2>19. CASE CrashRestart
    BY <2>19 DEF CrashRestart, LoseTrack
  <2>20. CASE UNCHANGED vars
    BY <2>20 DEF vars
  <2> QED
    BY <2>1, <2>2, <2>3, <2>4, <2>5, <2>6, <2>7, <2>8, <2>9, <2>10, <2>11, <2>12, <2>13, <2>14, <2>15, <2>16, <2>17, <2>18, <2>19, <2>20
       DEF Next, Handling, Polling, AwaitingShadow, Recording
<1> QED BY <1>1, <1>2, TypeCorrect, RowsInvHolds, PTL DEF Safety

(* The current send was executed and the worker has yet to record it. *)
Landed(r) == wreq = r /\ (copy = "applied" \/ wpc = "succeeding")

(* Copies of a request: on the wire, executed, unaccounted for. *)
CopiesInv ==
    \A r \in Requests :
        /\ applied[r] + late[r] + (IF wreq = r /\ copy = "wire" THEN 1 ELSE 0) <= sends[r]
        /\ applied[r] + late[r] <= blind[r] + (IF Landed(r) \/ r \in acked THEN 1 ELSE 0)
        /\ Landed(r) \/ r \in acked => applied[r] > 0

(* No execution without a send, no second one without a blind send. *)
LEMMA CopiesInvHolds == Safety => []CopiesInv
<1>1. Init => CopiesInv
  <2> SUFFICES ASSUME Init PROVE CopiesInv
    OBVIOUS
  <2>1. copy = "none" /\ wpc = "idle" /\ acked = {}
    BY DEF Init
  <2>2. \A r \in Requests : applied[r] = 0 /\ late[r] = 0 /\ sends[r] = 0 /\ blind[r] = 0
    BY DEF Init
  <2> SUFFICES ASSUME NEW r \in Requests PROVE CopiesInv!(r)
    BY DEF CopiesInv
  <2> QED BY <2>1, <2>2 DEF Landed
<1>2. TypeOK /\ WorkerInv /\ RowsInv /\ CopiesInv /\ [Next]_vars => CopiesInv'
  <2> SUFFICES ASSUME TypeOK, WorkerInv, RowsInv, CopiesInv, [Next]_vars
               PROVE  CopiesInv'
    OBVIOUS
  <2> USE DEF TypeOK, WorkerInv, RowsInv, CopiesInv, Landed, Processing,
          handlerVars, dbVars, workerVars, shadowVars, ghostVars
  <2>1. ASSUME NEW r \in Requests, Receive(r) \/ Disconnect(r) \/ Stamp(r)
        PROVE  CopiesInv'
    BY <2>1 DEF Receive, Disconnect, Stamp
  <2>2. ASSUME NEW r \in Requests, PrimaryConfirms(r) \/ PrimaryRefuses(r) \/ PrimaryFails(r) \/ PrimaryApplies(r)
        PROVE  CopiesInv'
    BY <2>2 DEF PrimaryConfirms, PrimaryRefuses, PrimaryFails, PrimaryApplies
  <2>3. ASSUME NEW r \in Requests, Enqueue(r)
        PROVE  CopiesInv'
    BY <2>3 DEF Enqueue
  <2>4. ASSUME NEW r \in Requests, EnqueueFails(r)
        PROVE  CopiesInv'
    BY <2>4 DEF EnqueueFails
  <2>5. ASSUME NEW r \in Requests, LateDelivery(r)
        PROVE  CopiesInv'
    BY <2>5 DEF LateDelivery
  <2>6. ASSUME NEW r \in Requests, BackoffElapses(r)
        PROVE  CopiesInv'
    BY <2>6 DEF BackoffElapses
  <2>7. ASSUME NEW r \in Requests, Pop(r)
        PROVE  CopiesInv'
    BY <2>7 DEF Pop
  <2>8. CASE PollClock \/ PopNothing \/ PopFails
    BY <2>8 DEF PollClock, PopNothing, PopFails
  <2>9. CASE ShadowApplies
    BY <2>9 DEF ShadowApplies
  <2>10. CASE ShadowRefuses \/ ReplyArrives
    BY <2>10 DEF ShadowRefuses, ReplyArrives
  <2>11. CASE SendFails
    BY <2>11 DEF SendFails, LoseTrack
  <2>12. CASE MarkSucceeded
    BY <2>12 DEF MarkSucceeded
  <2>13. CASE MarkSucceededFails
    BY <2>13 DEF MarkSucceededFails
  <2>14. CASE MarkFailedAttempt \/ MarkFailedAttemptFails
    BY <2>14 DEF MarkFailedAttempt, MarkFailedAttemptFails
  <2>15. CASE InsertFailed
    BY <2>15 DEF InsertFailed
  <2>16. CASE DeleteMoved
    BY <2>16 DEF DeleteMoved
  <2>17. CASE MoveFails
    BY <2>17 DEF MoveFails
  <2>18. CASE Degrade \/ DegradeFails
    BY <2>18 DEF Degrade, DegradeFails
  <2>19. CASE CrashRestart
    BY <2>19 DEF CrashRestart, LoseTrack
  <2>20. CASE UNCHANGED vars
    BY <2>20 DEF vars
  <2> QED
    BY <2>1, <2>2, <2>3, <2>4, <2>5, <2>6, <2>7, <2>8, <2>9, <2>10, <2>11, <2>12, <2>13, <2>14, <2>15, <2>16, <2>17, <2>18, <2>19, <2>20
       DEF Next, Handling, Polling, AwaitingShadow, Recording
<1> QED BY <1>1, <1>2, TypeCorrect, RowsInvHolds, PTL DEF Safety

(* A row not being moved has no more failed_writes rows than mishaps. *)
RecordsInv ==
    \A r \in Requests :
        failed[r] + (IF r \in acked THEN 1 ELSE 0)
          <= crashes + faults
               + (IF r \in queue /\ ~(wreq = r /\ wpc = "inserted") THEN 0 ELSE 1)

(* An extra record is left by a crash or an error, one each. *)
LEMMA RecordsInvHolds == Safety => []RecordsInv
<1>1. Init => RecordsInv
  <2> SUFFICES ASSUME Init PROVE RecordsInv
    OBVIOUS
  <2>1. crashes = 0 /\ faults = 0 /\ acked = {} /\ queue = {}
    BY DEF Init
  <2>2. \A r \in Requests : failed[r] = 0
    BY DEF Init
  <2> SUFFICES ASSUME NEW r \in Requests PROVE RecordsInv!(r)
    BY DEF RecordsInv
  <2> QED BY <2>1, <2>2
<1>2. TypeOK /\ WorkerInv /\ RowsInv /\ RecordsInv /\ [Next]_vars => RecordsInv'
  <2> SUFFICES ASSUME TypeOK, WorkerInv, RowsInv, RecordsInv, [Next]_vars
               PROVE  RecordsInv'
    OBVIOUS
  <2> USE DEF TypeOK, WorkerInv, RowsInv, RecordsInv, Processing,
          handlerVars, dbVars, workerVars, shadowVars, ghostVars
  <2>1. ASSUME NEW r \in Requests, Receive(r) \/ Disconnect(r) \/ Stamp(r)
        PROVE  RecordsInv'
    BY <2>1 DEF Receive, Disconnect, Stamp
  <2>2. ASSUME NEW r \in Requests, PrimaryConfirms(r) \/ PrimaryRefuses(r) \/ PrimaryFails(r) \/ PrimaryApplies(r)
        PROVE  RecordsInv'
    BY <2>2 DEF PrimaryConfirms, PrimaryRefuses, PrimaryFails, PrimaryApplies
  <2>3. ASSUME NEW r \in Requests, Enqueue(r)
        PROVE  RecordsInv'
    BY <2>3 DEF Enqueue
  <2>4. ASSUME NEW r \in Requests, EnqueueFails(r)
        PROVE  RecordsInv'
    BY <2>4 DEF EnqueueFails
  <2>5. ASSUME NEW r \in Requests, LateDelivery(r)
        PROVE  RecordsInv'
    BY <2>5 DEF LateDelivery
  <2>6. ASSUME NEW r \in Requests, BackoffElapses(r)
        PROVE  RecordsInv'
    BY <2>6 DEF BackoffElapses
  <2>7. ASSUME NEW r \in Requests, Pop(r)
        PROVE  RecordsInv'
    BY <2>7 DEF Pop
  <2>8. CASE PollClock \/ PopNothing \/ PopFails
    BY <2>8 DEF PollClock, PopNothing, PopFails
  <2>9. CASE ShadowApplies
    BY <2>9 DEF ShadowApplies
  <2>10. CASE ShadowRefuses \/ ReplyArrives
    BY <2>10 DEF ShadowRefuses, ReplyArrives
  <2>11. CASE SendFails
    BY <2>11 DEF SendFails, LoseTrack
  <2>12. CASE MarkSucceeded
    BY <2>12 DEF MarkSucceeded
  <2>13. CASE MarkSucceededFails
    BY <2>13 DEF MarkSucceededFails
  <2>14. CASE MarkFailedAttempt \/ MarkFailedAttemptFails
    BY <2>14 DEF MarkFailedAttempt, MarkFailedAttemptFails
  <2>15. CASE InsertFailed
    BY <2>15 DEF InsertFailed
  <2>16. CASE DeleteMoved
    BY <2>16 DEF DeleteMoved
  <2>17. CASE MoveFails
    BY <2>17 DEF MoveFails
  <2>18. CASE Degrade \/ DegradeFails
    BY <2>18 DEF Degrade, DegradeFails
  <2>19. CASE CrashRestart
    BY <2>19 DEF CrashRestart, LoseTrack
  <2>20. CASE UNCHANGED vars
    BY <2>20 DEF vars
  <2> QED
    BY <2>1, <2>2, <2>3, <2>4, <2>5, <2>6, <2>7, <2>8, <2>9, <2>10, <2>11, <2>12, <2>13, <2>14, <2>15, <2>16, <2>17, <2>18, <2>19, <2>20
       DEF Next, Handling, Polling, AwaitingShadow, Recording
<1> QED BY <1>1, <1>2, TypeCorrect, RowsInvHolds, PTL DEF Safety

(* One client's writes: answered, numbered and seen ready in its order. *)
OrderInv ==
    /\ \A r \in horizon : handler[r] # "new"
    /\ \A r, q \in Requests : q \in Prior[r] =>
             /\ handler[r] # "new" => handler[q] = "responded"
             /\ rowid[q] > 0 /\ rowid[r] > 0 => rowid[q] < rowid[r]
             /\ r \in horizon /\ q \in queue => q \in horizon \/ sends[q] > 0
             /\ sends[r] > 0 /\ rowid[q] > 0 => sends[q] > 0

(* A later write is never numbered, or seen ready, before an earlier one. *)
LEMMA OrderInvHolds == Safety => []OrderInv
<1>1. Init => OrderInv
  BY ReplayAssumption DEF Init, OrderInv
<1>2. TypeOK /\ WorkerInv /\ RowsInv /\ SendsInv /\ CopiesInv /\ OrderInv /\ [Next]_vars => OrderInv'
  <2> SUFFICES ASSUME TypeOK, WorkerInv, RowsInv, SendsInv, CopiesInv, OrderInv, [Next]_vars
               PROVE  OrderInv'
    OBVIOUS
  <2> USE ReplayAssumption DEF TypeOK, WorkerInv, RowsInv, SendsInv, CopiesInv, OrderInv, Processing,
          handlerVars, dbVars, workerVars, shadowVars, ghostVars
  <2>1. ASSUME NEW r \in Requests, Receive(r) \/ Disconnect(r) \/ Stamp(r)
        PROVE  OrderInv'
    <3>1. UNCHANGED <<rowid, queue, horizon, sends>>
      BY <2>1 DEF Receive, Disconnect, Stamp
    <3>2. CASE Receive(r)
      <4>1. /\ handler[r] = "new" /\ handler' = [handler EXCEPT ![r] = "calling"]
            /\ \A q \in Prior[r] : handler[q] = "responded"
        BY <3>2 DEF Receive
      <4> SUFFICES ASSUME NEW p \in Requests, NEW q \in Requests, q \in Prior[p]
                   PROVE  OrderInv!2!(p, q)!2'
        BY <3>1, <4>1
      <4> QED BY <3>1, <4>1
    <3>3. CASE Disconnect(r) \/ Stamp(r)
      <4>1. /\ handler[r] \in {"calling", "replied"}
            /\ \E h \in {"stamped", "cut"} : handler' = [handler EXCEPT ![r] = h]
        BY <3>3 DEF Disconnect, Stamp
      <4>2. \A p \in Requests : r \in Prior[p] => handler[p] = "new" /\ p # r
        BY <4>1
      <4> SUFFICES ASSUME NEW p \in Requests, NEW q \in Requests, q \in Prior[p]
                   PROVE  OrderInv!2!(p, q)!2'
        BY <3>1, <4>1
      <4> QED BY <3>1, <4>1, <4>2
    <3> QED BY <2>1, <3>2, <3>3
  <2>2. ASSUME NEW r \in Requests, PrimaryConfirms(r) \/ PrimaryRefuses(r) \/ PrimaryFails(r) \/ PrimaryApplies(r)
        PROVE  OrderInv'
    <3>1. handler[r] = "calling" \/ UNCHANGED handler
      BY <2>2 DEF PrimaryConfirms, PrimaryRefuses, PrimaryFails, PrimaryApplies
    <3>2. UNCHANGED handler \/ handler' = [handler EXCEPT ![r] = "replied"]
      BY <2>2 DEF PrimaryConfirms, PrimaryRefuses, PrimaryFails, PrimaryApplies
    <3>3. UNCHANGED <<rowid, queue, horizon, sends>>
      BY <2>2 DEF PrimaryConfirms, PrimaryRefuses, PrimaryFails, PrimaryApplies
    <3>4. CASE UNCHANGED handler
      BY <3>3, <3>4
    <3>5. CASE handler[r] = "calling" /\ handler' = [handler EXCEPT ![r] = "replied"]
      <4>1. \A p \in Requests : r \in Prior[p] => handler[p] = "new" /\ p # r
        BY <3>5
      <4> SUFFICES ASSUME NEW p \in Requests, NEW q \in Requests, q \in Prior[p]
                   PROVE  OrderInv!2!(p, q)!2'
        BY <3>3, <3>5
      <4> QED BY <3>3, <3>5, <4>1
    <3> QED BY <3>1, <3>2, <3>4, <3>5
  <2>3. ASSUME NEW r \in Requests, Enqueue(r)
        PROVE  OrderInv'
    <3>1. \A p \in Requests : r \in Prior[p] => handler[p] = "new" /\ rowid[p] = 0 /\ p \notin horizon
      BY <2>3 DEF Enqueue
    <3>2. \A q \in Requests : q \in Prior[r] => q # r /\ rowid[q] < nextRowid
      BY <2>3, <3>1 DEF Enqueue
    <3>3. /\ handler' = [handler EXCEPT ![r] = "responded"]
          /\ rowid' = [rowid EXCEPT ![r] = nextRowid]
          /\ queue' = queue \cup {r}
          /\ UNCHANGED <<horizon, sends>>
      BY <2>3 DEF Enqueue
    <3>4. handler[r] = "stamped" /\ rowid[r] = 0 /\ sends[r] = 0
      BY <2>3 DEF Enqueue
    <3>5. \A p \in Requests : r \in Prior[p] => sends[p] = 0 /\ p # r
      BY <3>1, <3>4
    <3> SUFFICES ASSUME NEW p \in Requests, NEW q \in Requests, q \in Prior[p]
                 PROVE  OrderInv!2!(p, q)!2'
      BY <3>3, <3>4
    <3>6. CASE q = r
      BY <3>1, <3>3, <3>4, <3>5, <3>6
    <3>7. CASE p = r /\ q # r
      BY <3>2, <3>3, <3>4, <3>7
    <3>8. CASE p # r /\ q # r
      BY <3>3, <3>8
    <3> QED BY <3>6, <3>7, <3>8
  <2>4. ASSUME NEW r \in Requests, EnqueueFails(r)
        PROVE  OrderInv'
    <3>1. handler[r] = "stamped" /\ handler' = [handler EXCEPT ![r] = "responded"]
      BY <2>4 DEF EnqueueFails
    <3>2. UNCHANGED <<rowid, queue, horizon, sends>>
      BY <2>4 DEF EnqueueFails
    <3>3. \A p \in Requests : r \in Prior[p] => handler[p] = "new" /\ p # r
      BY <3>1
    <3> SUFFICES ASSUME NEW p \in Requests, NEW q \in Requests, q \in Prior[p]
                 PROVE  OrderInv!2!(p, q)!2'
      BY <3>1, <3>2
    <3> QED BY <3>1, <3>2, <3>3
  <2>5. ASSUME NEW r \in Requests, LateDelivery(r)
        PROVE  OrderInv'
    BY <2>5 DEF LateDelivery
  <2>6. ASSUME NEW r \in Requests, BackoffElapses(r)
        PROVE  OrderInv'
    BY <2>6 DEF BackoffElapses
  <2>7. ASSUME NEW r \in Requests, Pop(r)
        PROVE  OrderInv'
    <3>1. /\ sends' = [sends EXCEPT ![r] = @ + 1]
          /\ horizon' = {}
          /\ UNCHANGED <<handler, rowid, queue>>
      BY <2>7 DEF Pop
    <3>2. ASSUME NEW q \in Requests, q \in Prior[r], rowid[q] > 0
          PROVE  sends[q] > 0
      <4>1. rowid[q] < rowid[r]
        BY <2>7, <3>2 DEF Pop
      <4>2. CASE q \in queue
        <5>1. q \notin horizon
          BY <2>7, <4>1, <4>2 DEF Pop
        <5> QED BY <2>7, <3>2, <4>2, <5>1 DEF Pop
      <4>3. CASE q \in acked
        BY <4>3
      <4>4. CASE failed[q] > 0
        BY <4>4, ReplayAssumption DEF Budget
      <4> QED BY <3>2, <4>2, <4>3, <4>4
    <3> QED BY <3>1, <3>2
  <2>8. CASE PollClock \/ PopNothing \/ PopFails
    <3>1. CASE PollClock
      <4>1. /\ horizon' = (queue \cup {r \in Requests : handler[r] = "stamped"}) \ waiting
            /\ UNCHANGED <<handler, rowid, queue, sends>>
        BY <3>1 DEF PollClock
      <4>2. \A r \in horizon' : handler[r] # "new"
        BY <4>1
      <4> SUFFICES ASSUME NEW p \in Requests, NEW q \in Requests, q \in Prior[p]
                   PROVE  OrderInv!2!(p, q)!2'
        BY <4>1, <4>2
      <4> QED BY <4>1, <4>2
    <3>2. CASE PopNothing \/ PopFails
      BY <3>2 DEF PopNothing, PopFails
    <3> QED BY <2>8, <3>1, <3>2
  <2>9. CASE ShadowApplies
    BY <2>9 DEF ShadowApplies
  <2>10. CASE ShadowRefuses \/ ReplyArrives
    BY <2>10 DEF ShadowRefuses, ReplyArrives
  <2>11. CASE SendFails
    BY <2>11 DEF SendFails, LoseTrack
  <2>12. CASE MarkSucceeded
    BY <2>12 DEF MarkSucceeded
  <2>13. CASE MarkSucceededFails
    BY <2>13 DEF MarkSucceededFails
  <2>14. CASE MarkFailedAttempt \/ MarkFailedAttemptFails
    BY <2>14 DEF MarkFailedAttempt, MarkFailedAttemptFails
  <2>15. CASE InsertFailed
    BY <2>15 DEF InsertFailed
  <2>16. CASE DeleteMoved
    BY <2>16 DEF DeleteMoved
  <2>17. CASE MoveFails
    BY <2>17 DEF MoveFails
  <2>18. CASE Degrade \/ DegradeFails
    BY <2>18 DEF Degrade, DegradeFails
  <2>19. CASE CrashRestart
    BY <2>19 DEF CrashRestart, LoseTrack
  <2>20. CASE UNCHANGED vars
    BY <2>20 DEF vars
  <2> QED
    BY <2>1, <2>2, <2>3, <2>4, <2>5, <2>6, <2>7, <2>8, <2>9, <2>10, <2>11, <2>12, <2>13, <2>14, <2>15, <2>16, <2>17, <2>18, <2>19, <2>20
       DEF Next, Handling, Polling, AwaitingShadow, Recording
<1> QED BY <1>1, <1>2, TypeCorrect, RowsInvHolds, SendsInvHolds, CopiesInvHolds, PTL DEF Safety

-----------------------------------------------------------------------------
(* The properties the runs check. *)

(* A set that gains nothing, or nothing but x. *)
LEMMA GainsNothing ==
  ASSUME NEW S, IsFiniteSet(S), NEW T \in SUBSET S
  PROVE  /\ IsFiniteSet(T) /\ Cardinality(T) \in Nat /\ Cardinality(S) \in Nat
         /\ Cardinality(T) <= Cardinality(S)
BY FS_Subset, FS_CardinalityType

LEMMA GainsOne ==
  ASSUME NEW S, IsFiniteSet(S), NEW x, NEW T \in SUBSET (S \cup {x})
  PROVE  /\ IsFiniteSet(T) /\ Cardinality(T) \in Nat /\ Cardinality(S) \in Nat
         /\ Cardinality(T) <= Cardinality(S) + 1
<1>1. /\ IsFiniteSet(S \cup {x})
      /\ Cardinality(S \cup {x}) = IF x \in S THEN Cardinality(S) ELSE Cardinality(S) + 1
  BY FS_AddElement, Zenon
<1>2. Cardinality(S) \in Nat
  BY FS_CardinalityType
<1>3. /\ IsFiniteSet(T) /\ Cardinality(T) \in Nat /\ Cardinality(S \cup {x}) \in Nat
      /\ Cardinality(T) <= Cardinality(S \cup {x})
  BY <1>1, GainsNothing
<1> QED BY <1>1, <1>2, <1>3

\* What a crash or an error has cost so far, of which there are finitely many.
FewRowless == IsFiniteSet(Rowless) /\ Cardinality(Rowless) <= faults
FewUnflagged == IsFiniteSet(Unflagged) /\ Cardinality(Unflagged) <= crashes + faults

(* Only a failing INSERT answers a client whose write has no row. *)
LEMMA RowlessStep ==
  ASSUME TypeOK, [Next]_vars
  PROVE  \/ Rowless' \subseteq Rowless /\ faults' >= faults
         \/ faults' = faults + 1 /\ \E r \in Requests : Rowless' \subseteq Rowless \cup {r}
<1> USE DEF TypeOK, Handlers, handlerVars, dbVars, workerVars, shadowVars, ghostVars
<1>1. ASSUME NEW r \in Requests, EnqueueFails(r)
      PROVE  faults' = faults + 1 /\ \E q \in Requests : Rowless' \subseteq Rowless \cup {q}
  <2>1. faults' = faults + 1 /\ handler' = [handler EXCEPT ![r] = "responded"] /\ UNCHANGED rowid
    BY <1>1 DEF EnqueueFails
  <2>2. Rowless' \subseteq Rowless \cup {r}
    BY <2>1 DEF Rowless
  <2> QED BY <2>1, <2>2
<1>2. ASSUME NEW r \in Requests,
             \/ Receive(r) \/ PrimaryConfirms(r) \/ PrimaryRefuses(r) \/ PrimaryFails(r)
             \/ Disconnect(r) \/ Stamp(r) \/ Enqueue(r)
      PROVE  Rowless' \subseteq Rowless /\ faults' >= faults
  BY <1>2 DEF Receive, PrimaryConfirms, PrimaryRefuses, PrimaryFails, Disconnect, Stamp,
              Enqueue, Rowless
<1>3. CASE CrashRestart
  BY <1>3 DEF CrashRestart, Rowless
<1>4. ASSUME NEW r \in Requests,
             PrimaryApplies(r) \/ LateDelivery(r) \/ BackoffElapses(r) \/ Pop(r)
      PROVE  UNCHANGED <<handler, rowid, faults>>
  BY <1>4 DEF PrimaryApplies, LateDelivery, BackoffElapses, Pop
<1>5. CASE \/ PollClock \/ PopNothing \/ PopFails \/ ShadowApplies \/ ShadowRefuses
           \/ AwaitingShadow \/ Recording \/ UNCHANGED vars
  <2>1. UNCHANGED <<handler, rowid>> /\ faults' >= faults
    BY <1>5 DEF PollClock, PopNothing, PopFails, ShadowApplies, ShadowRefuses, AwaitingShadow,
                ReplyArrives, SendFails, Recording, MarkSucceeded, MarkSucceededFails,
                MarkFailedAttempt, MarkFailedAttemptFails, InsertFailed, DeleteMoved, MoveFails,
                Degrade, DegradeFails, vars
  <2> QED BY <2>1 DEF Rowless
<1>6. ASSUME UNCHANGED <<handler, rowid, faults>>
      PROVE  Rowless' \subseteq Rowless /\ faults' >= faults
  BY <1>6 DEF Rowless
<1> QED BY <1>1, <1>2, <1>3, <1>4, <1>5, <1>6 DEF Next, Handling, Polling

LEMMA FewRowlessHolds == Safety => []FewRowless
<1>1. Init => FewRowless
  <2> SUFFICES ASSUME Init PROVE FewRowless
    OBVIOUS
  <2>1. Rowless = {} /\ faults = 0
    BY DEF Init, Rowless
  <2> QED BY <2>1, FS_EmptySet DEF FewRowless
<1>2. TypeOK /\ TypeOK' /\ FewRowless /\ [Next]_vars => FewRowless'
  <2> SUFFICES ASSUME TypeOK, TypeOK', FewRowless, [Next]_vars PROVE FewRowless'
    OBVIOUS
  <2>1. IsFiniteSet(Rowless) /\ Cardinality(Rowless) <= faults /\ faults \in Nat
    BY DEF FewRowless, TypeOK
  <2>2. faults' >= faults /\ faults' \in Nat
    BY RowlessStep, <2>1 DEF TypeOK
  <2>3. CASE Rowless' \subseteq Rowless
    BY <2>1, <2>2, <2>3, GainsNothing DEF FewRowless
  <2>4. CASE faults' = faults + 1 /\ \E r \in Requests : Rowless' \subseteq Rowless \cup {r}
    <3>1. PICK r \in Requests : Rowless' \subseteq Rowless \cup {r}
      BY <2>4
    <3> QED BY <2>1, <2>4, <3>1, GainsOne DEF FewRowless
  <2> QED BY <2>3, <2>4, RowlessStep
<1> QED BY <1>1, <1>2, TypeCorrect, PTL DEF Safety

(* No answered write is lost, whenever the process crashes: db.rs keeps a   *)
(* row until mark_succeeded, or until failed_writes has a copy of it.  Only *)
(* a failing INSERT of enqueue_write loses one, and no more than one.       *)
THEOREM AnsweredAccountedFor == Safety => []AnsweredIsAccountedFor
<1>1. TypeOK /\ RowsInv /\ FewRowless => AnsweredIsAccountedFor
  <2> SUFFICES ASSUME TypeOK, RowsInv, FewRowless, NEW r \in Requests, handler[r] = "responded"
               PROVE  r \in queue \cup acked \cup Rowless \/ failed[r] > 0
    BY DEF AnsweredIsAccountedFor, FewRowless
  <2>1. CASE rowid[r] = 0
    BY <2>1 DEF Rowless
  <2>2. CASE rowid[r] > 0
    BY <2>2 DEF RowsInv
  <2> QED BY <2>1, <2>2 DEF TypeOK
<1> QED BY <1>1, TypeCorrect, RowsInvHolds, FewRowlessHolds, PTL

LEMMA SumGrows ==
  ASSUME NEW a \in Nat, NEW b \in Nat, NEW c \in Nat, NEW d \in Nat, NEW n \in Nat,
         n <= a + b, a <= c, b <= d
  PROVE  n <= c + d
OBVIOUS

(* Only a crash, or a failing upsert, after the move leaves the mark out. *)
LEMMA UnflaggedStep ==
  ASSUME TypeOK, WorkerInv, [Next]_vars
  PROVE  \/ Unflagged' \subseteq Unflagged /\ crashes' >= crashes /\ faults' >= faults
         \/ /\ crashes' + faults' = crashes + faults + 1
            /\ \E r \in Requests : Unflagged' \subseteq Unflagged \cup {r}
<1> USE DEF TypeOK, handlerVars, dbVars, workerVars, shadowVars, ghostVars
<1> DEFINE Same == /\ UNCHANGED <<queue, acked, failed, flagged, crashes>>
                   /\ faults' \in {faults, faults + 1}
<1>1. ASSUME Same, wpc # "moved" \/ UNCHANGED <<wpc, wreq>>
      PROVE  Unflagged' \subseteq Unflagged /\ crashes' >= crashes /\ faults' >= faults
  <2>1. GivenUp' = GivenUp
    BY <1>1 DEF GivenUp
  <2>2. Unflagged' \subseteq Unflagged
    BY <1>1, <2>1 DEF Unflagged
  <2>3. crashes' = crashes /\ faults' >= faults /\ crashes \in Nat /\ faults \in Nat /\ faults' \in Nat
    BY <1>1
  <2> QED BY <2>2, <2>3
<1>2. ASSUME NEW r \in Requests,
             \/ Receive(r) \/ PrimaryConfirms(r) \/ PrimaryRefuses(r) \/ PrimaryFails(r)
             \/ Disconnect(r) \/ Stamp(r) \/ EnqueueFails(r)
             \/ PrimaryApplies(r) \/ LateDelivery(r) \/ BackoffElapses(r)
      PROVE  Same /\ UNCHANGED <<wpc, wreq>>
  BY <1>2 DEF Receive, PrimaryConfirms, PrimaryRefuses, PrimaryFails, Disconnect, Stamp,
              EnqueueFails, PrimaryApplies, LateDelivery, BackoffElapses
<1>3. ASSUME NEW r \in Requests, Enqueue(r)
      PROVE  Unflagged' \subseteq Unflagged /\ crashes' >= crashes /\ faults' >= faults
  BY <1>3 DEF Enqueue, Unflagged, GivenUp
<1>4. ASSUME NEW r \in Requests, Pop(r)
      PROVE  Same /\ wpc # "moved"
  BY <1>4 DEF Pop
<1>5. CASE \/ PollClock \/ PopNothing \/ PopFails \/ ShadowApplies \/ ShadowRefuses
           \/ AwaitingShadow \/ MarkSucceededFails \/ MarkFailedAttempt
           \/ MarkFailedAttemptFails \/ MoveFails
  <2>1. Same /\ wpc # "moved"
    BY <1>5 DEF PollClock, PopNothing, PopFails, ShadowApplies, ShadowRefuses, AwaitingShadow,
                ReplyArrives, SendFails, MarkSucceededFails, MarkFailedAttempt,
                MarkFailedAttemptFails, MoveFails
  <2> QED BY <1>1, <2>1
<1>6. CASE MarkSucceeded
  BY <1>6 DEF MarkSucceeded, Unflagged, GivenUp
<1>7. CASE InsertFailed
  <2>1. /\ wreq \in queue /\ failed' = [failed EXCEPT ![wreq] = @ + 1]
        /\ wpc = "failing" /\ UNCHANGED <<queue, acked, flagged, crashes, faults>>
    BY <1>7 DEF InsertFailed, WorkerInv, Processing
  <2> QED BY <2>1 DEF Unflagged, GivenUp
<1>8. CASE DeleteMoved
  <2>1. /\ wpc = "inserted" /\ wpc' = "moved" /\ queue' = queue \ {wreq}
        /\ UNCHANGED <<wreq, acked, failed, flagged, crashes, faults>>
    BY <1>8 DEF DeleteMoved
  <2> QED BY <2>1 DEF Unflagged, GivenUp
<1>9. CASE Degrade
  BY <1>9 DEF Degrade, Unflagged, GivenUp
<1>10. CASE DegradeFails \/ CrashRestart
  <2>1. /\ crashes' + faults' = crashes + faults + 1
        /\ UNCHANGED <<queue, acked, failed, flagged>>
    BY <1>10 DEF DegradeFails, CrashRestart
  <2>2. Unflagged' \subseteq Unflagged \cup {wreq}
    BY <2>1 DEF Unflagged, GivenUp
  <2> QED BY <2>1, <2>2
<1>11. CASE UNCHANGED vars
  BY <1>1, <1>11 DEF vars
<1> QED
  BY <1>1, <1>2, <1>3, <1>4, <1>5, <1>6, <1>7, <1>8, <1>9, <1>10, <1>11
     DEF Next, Handling, Polling, Recording

(* handle_attempt_failure marks the shadow degraded for every write it has  *)
(* moved to failed_writes; each crash or error keeps the mark from one.     *)
THEOREM GivenUpIsFlagged == Safety => []GivingUpIsFlagged
<1>1. Init => FewUnflagged
  <2> SUFFICES ASSUME Init PROVE FewUnflagged
    OBVIOUS
  <2>1. Unflagged = {} /\ crashes = 0 /\ faults = 0
    BY DEF Init, Unflagged, GivenUp
  <2> QED BY <2>1, FS_EmptySet DEF FewUnflagged
<1>2. TypeOK /\ TypeOK' /\ WorkerInv /\ FewUnflagged /\ [Next]_vars => FewUnflagged'
  <2> SUFFICES ASSUME TypeOK, TypeOK', WorkerInv, FewUnflagged, [Next]_vars
               PROVE  FewUnflagged'
    OBVIOUS
  <2>1. /\ IsFiniteSet(Unflagged) /\ Cardinality(Unflagged) <= crashes + faults
        /\ crashes \in Nat /\ faults \in Nat /\ crashes' \in Nat /\ faults' \in Nat
    BY DEF FewUnflagged, TypeOK
  <2>2. CASE Unflagged' \subseteq Unflagged /\ crashes' >= crashes /\ faults' >= faults
    <3>1. /\ IsFiniteSet(Unflagged') /\ Cardinality(Unflagged') \in Nat
          /\ Cardinality(Unflagged) \in Nat
          /\ Cardinality(Unflagged') <= Cardinality(Unflagged)
      BY <2>1, <2>2, GainsNothing
    <3>2. Cardinality(Unflagged') <= crashes + faults
      BY <2>1, <3>1
    <3>3. Cardinality(Unflagged') <= crashes' + faults'
      BY <2>1, <2>2, <3>1, <3>2, SumGrows
    <3> QED BY <3>1, <3>3 DEF FewUnflagged
  <2>3. CASE /\ crashes' + faults' = crashes + faults + 1
             /\ \E r \in Requests : Unflagged' \subseteq Unflagged \cup {r}
    <3>1. PICK r \in Requests : Unflagged' \subseteq Unflagged \cup {r}
      BY <2>3
    <3>2. /\ IsFiniteSet(Unflagged') /\ Cardinality(Unflagged') \in Nat
          /\ Cardinality(Unflagged) \in Nat
          /\ Cardinality(Unflagged') <= Cardinality(Unflagged) + 1
      BY <2>1, <3>1, GainsOne
    <3>3. Cardinality(Unflagged') <= crashes + faults + 1
      BY <2>1, <3>2
    <3>4. Cardinality(Unflagged') <= crashes' + faults'
      BY <2>3, <3>3
    <3> QED BY <3>2, <3>4 DEF FewUnflagged
  <2> QED BY <2>2, <2>3, UnflaggedStep
<1>3. FewUnflagged => GivingUpIsFlagged
  BY DEF FewUnflagged, GivingUpIsFlagged
<1> QED BY <1>1, <1>2, <1>3, TypeCorrect, PTL DEF Safety

(* handle_attempt_failure gives a row up only after max_write_attempts sends. *)
THEOREM NeverGivenUpEarly == Safety => []NoEarlyGiveUp
<1>1. TypeOK /\ SendsInv => NoEarlyGiveUp
  BY ReplayAssumption DEF TypeOK, SendsInv, NoEarlyGiveUp, Budget
<1> QED BY <1>1, TypeCorrect, SendsInvHolds, PTL

(* Retries are bounded: the budget, and one send for each crash or error.   *)
THEOREM SendsBounded == Safety => []BoundedSends
<1>1. TypeOK /\ SendsInv => BoundedSends
  <2> SUFFICES ASSUME TypeOK, SendsInv, NEW r \in Requests
               PROVE  sends[r] <= Budget + crashes + faults
    BY DEF BoundedSends
  <2>1. attempts[r] + 1 <= Budget /\ Budget \in Nat
    BY ReplayAssumption DEF TypeOK, Budget
  <2> QED BY <2>1 DEF TypeOK, SendsInv
<1> QED BY <1>1, TypeCorrect, SendsInvHolds, PTL

(* The worker's FIFO pop keeps the order of each client's own writes, for   *)
(* first sends, through backoffs and crashes.                               *)
THEOREM ProgramOrderKept == Safety => []ProgramOrder
<1>1. OrderInv => ProgramOrder
  BY ReplayAssumption DEF OrderInv, ProgramOrder
<1> QED BY <1>1, OrderInvHolds, PTL

(* A second execution at the shadow needs a send whose fate went unrecorded. *)
THEOREM DuplicatesAreExplained == Safety => []DuplicatesExplained
<1>1. TypeOK /\ CopiesInv => DuplicatesExplained
  <2> SUFFICES ASSUME TypeOK, CopiesInv, NEW r \in Requests PROVE DuplicatesExplained!(r)
    BY DEF DuplicatesExplained
  <2> QED BY DEF TypeOK, CopiesInv
<1> QED BY <1>1, TypeCorrect, CopiesInvHolds, PTL

(* move_to_failed leaves one record too many only in a crash or an error.   *)
THEOREM RecordsAreExplained == Safety => []RecordsExplained
<1>1. TypeOK /\ RecordsInv => RecordsExplained
  <2> SUFFICES ASSUME TypeOK, RecordsInv, NEW r \in Requests PROVE RecordsExplained!(r)
    BY DEF RecordsExplained
  <2> QED BY DEF TypeOK, RecordsInv
<1> QED BY <1>1, TypeCorrect, RecordsInvHolds, PTL

(* The queue implements its ledger: nothing is executed that was not owed,  *)
(* no debt is closed unpaid and unrecorded, deliveries are bounded.         *)
THEOREM LedgerKept == Safety => KeepsLedger
<1>1. Init => Ledger!LedgerInit
  BY DEF Init, Ledger!LedgerInit, GivenUp
<1>2. TypeOK /\ WorkerInv /\ RowsInv /\ SendsInv /\ CopiesInv /\ [Next]_vars
        => [Ledger!LedgerNext]_(Ledger!ledgerVars)
  <2> SUFFICES ASSUME TypeOK, WorkerInv, RowsInv, SendsInv, CopiesInv, [Next]_vars
               PROVE  [Ledger!LedgerNext]_(Ledger!ledgerVars)
    OBVIOUS
  <2> USE DEF handlerVars, dbVars, workerVars, shadowVars, ghostVars
  <2> DEFINE Frame == UNCHANGED <<queue, acked, failed, applied>>
  <2>1. Frame => UNCHANGED Ledger!ledgerVars
    BY DEF Ledger!ledgerVars, GivenUp
  <2>2. \A r \in Requests : sends[r] <= Budget + MaxCrashes + MaxFaults
    <3> SUFFICES ASSUME NEW r \in Requests
                 PROVE  sends[r] <= Budget + MaxCrashes + MaxFaults
      OBVIOUS
    <3>1. attempts[r] + 1 <= Budget /\ Budget \in Nat
      BY ReplayAssumption DEF TypeOK, Budget
    <3> QED BY <3>1, ReplayAssumption DEF TypeOK, SendsInv
  <2>3. ASSUME NEW r \in Requests, Enqueue(r)
        PROVE  Ledger!Owe(r)
    <3>1. r \notin queue /\ r \notin acked /\ failed[r] = 0
      BY <2>3 DEF Enqueue, RowsInv, TypeOK
    <3> QED BY <2>3, <3>1 DEF Enqueue, Ledger!Owe, Ledger!Owed, GivenUp
  <2>4. ASSUME NEW r \in Requests, LateDelivery(r)
        PROVE  Ledger!Deliver(r)
    <3>1. applied[r] < sends[r]
      BY <2>4 DEF LateDelivery, CopiesInv, TypeOK
    <3>2. r \in queue \/ r \in acked \/ failed[r] > 0
      BY <3>1 DEF RowsInv, TypeOK
    <3>3. applied[r] < Budget + MaxCrashes + MaxFaults
      BY <2>2, <3>1, ReplayAssumption DEF TypeOK, Budget
    <3> QED BY <2>4, <3>2, <3>3 DEF LateDelivery, Ledger!Deliver, Ledger!Owed, GivenUp
  <2>5. CASE ShadowApplies
    <3>1. wreq \in Requests /\ wreq \in queue
      BY <2>5 DEF ShadowApplies, WorkerInv, TypeOK, Processing
    <3>2. applied[wreq] < sends[wreq]
      BY <2>5, <3>1 DEF ShadowApplies, CopiesInv, TypeOK
    <3>3. applied[wreq] < Budget + MaxCrashes + MaxFaults
      BY <2>2, <3>1, <3>2, ReplayAssumption DEF TypeOK, Budget
    <3>4. Ledger!Deliver(wreq)
      BY <2>5, <3>1, <3>3 DEF ShadowApplies, Ledger!Deliver, Ledger!Owed, GivenUp
    <3> QED BY <3>1, <3>4 DEF Ledger!LedgerNext
  <2>6. CASE MarkSucceeded
    <3>1. wreq \in Requests /\ wreq \in queue /\ applied[wreq] > 0
      BY <2>6 DEF MarkSucceeded, WorkerInv, TypeOK, Processing, CopiesInv, Landed
    <3>2. Ledger!Confirm(wreq)
      BY <2>6, <3>1 DEF MarkSucceeded, Ledger!Confirm, GivenUp
    <3> QED BY <3>1, <3>2 DEF Ledger!LedgerNext
  <2>7. CASE InsertFailed
    <3>1. wreq \in Requests /\ wreq \in queue
      BY <2>7 DEF InsertFailed, WorkerInv, TypeOK, Processing
    <3>2. GivenUp' = GivenUp \cup {wreq}
      BY <2>7, <3>1 DEF InsertFailed, TypeOK, GivenUp
    <3>3. Ledger!Abandon(wreq)
      BY <2>7, <3>1, <3>2 DEF InsertFailed, Ledger!Abandon
    <3>4. \E r \in Requests : Ledger!Abandon(r)
      BY <3>1, <3>3
    <3> QED BY <3>4 DEF Ledger!LedgerNext
  <2>8. CASE DeleteMoved
    <3>1. wreq \in Requests /\ wreq \in queue /\ failed[wreq] > 0
      BY <2>8 DEF DeleteMoved, WorkerInv, RowsInv, TypeOK, Processing
    <3>2. Ledger!Close(wreq)
      BY <2>8, <3>1 DEF DeleteMoved, Ledger!Close, GivenUp
    <3> QED BY <3>1, <3>2 DEF Ledger!LedgerNext
  <2>9. ASSUME NEW r \in Requests,
               \/ Receive(r) \/ Disconnect(r) \/ Stamp(r) \/ EnqueueFails(r)
               \/ PrimaryConfirms(r) \/ PrimaryRefuses(r) \/ PrimaryFails(r)
               \/ PrimaryApplies(r) \/ BackoffElapses(r) \/ Pop(r)
        PROVE  Frame
    BY <2>9 DEF Receive, Disconnect, Stamp, EnqueueFails, PrimaryConfirms,
                PrimaryRefuses, PrimaryFails, PrimaryApplies, BackoffElapses, Pop
  <2>10. CASE \/ PollClock \/ PopNothing \/ PopFails \/ ShadowRefuses \/ AwaitingShadow
              \/ MarkSucceededFails \/ MarkFailedAttempt \/ MarkFailedAttemptFails
              \/ MoveFails \/ Degrade \/ DegradeFails \/ CrashRestart \/ UNCHANGED vars
    <3>1. Frame
      BY <2>10 DEF PollClock, PopNothing, PopFails, ShadowRefuses, AwaitingShadow,
                   ReplyArrives, SendFails, LoseTrack, MarkSucceededFails,
                   MarkFailedAttempt, MarkFailedAttemptFails, MoveFails, Degrade,
                   DegradeFails, CrashRestart, vars
    <3> QED BY <2>1, <3>1
  <2> QED
    BY <2>1, <2>3, <2>4, <2>5, <2>6, <2>7, <2>8, <2>9, <2>10
       DEF Next, Handling, Polling, Recording, Ledger!LedgerNext
<1> QED
  BY <1>1, <1>2, TypeCorrect, RowsInvHolds, SendsInvHolds, CopiesInvHolds, PTL
     DEF Safety, KeepsLedger, Ledger!LedgerSafety
=============================================================================
