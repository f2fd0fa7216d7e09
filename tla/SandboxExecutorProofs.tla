---------------------- MODULE SandboxExecutorProofs ----------------------
(***************************************************************************)
(* Proofs about SandboxExecutor, for every set of runs, every pool size    *)
(* and any number of restarts and cancel requests.                         *)
(***************************************************************************)
EXTENDS SandboxExecutor, SequenceTheorems, FiniteSetTheorems, TLAPS

LEMMA StatusFacts ==
  /\ Terminal \subseteq RunStatus
  /\ {"none", "queued", "running"} \subseteq RunStatus
  /\ \A s \in {"succeeded", "failed", "canceled", "timeout"} : s \in Terminal
BY DEF Terminal, RunStatus

LEMMA FlagsInit == Init => FlagsOK
BY Zenon DEF Init, FlagsOK

LEMMA TypeInit == Init => TypeOK
BY FlagsInit, ExecutorConstants, StatusFacts DEF Init, TypeOK

\* What the pump takes is a prefix of the queue no longer than the free slots.
LEMMA PumpCountFacts ==
  ASSUME TypeOK
  PROVE  /\ PumpCount \in 0..Len(queue)
         /\ running <= MaxConcurrency => running + PumpCount <= MaxConcurrency
BY ExecutorConstants DEF TypeOK, PumpCount, FreeSlots

\* The four flags only ever take Boolean values.
LEMMA FlagsNext == FlagsOK /\ [Next]_vars => FlagsOK'
<1> SUFFICES ASSUME FlagsOK, [Next]_vars PROVE FlagsOK'
  OBVIOUS
<1> USE DEF FlagsOK, poolVars, procVars
<1>1. ASSUME NEW r \in Runs, RouteStep(r) PROVE FlagsOK'
  BY <1>1, Zenon DEF RouteStep, InsertRun, Enqueue, Kick, ExecuteSync, CancelTx,
                     RequestCancel
<1>2. ASSUME NEW r \in Runs, WorkerStep(r) PROVE FlagsOK'
  BY <1>2, Zenon DEF WorkerStep, Claim, ClaimRow, ClaimNothing,
                     PrepareEnds, StartCommand, SyncThrows,
                     TimeoutFires, CommandEnds, Finalize, WorkerEnds, Kick
<1>3. CASE RecoveryStep
  BY <1>3, Zenon DEF RecoveryStep, GrowStale, HeartbeatTick, RecoverRow,
                     RecoveryPoll, RecoveryEnds
<1>4. CASE ProcessStep
  BY <1>4, Zenon DEF ProcessStep, Pump, Shutdown, CloseStore, Restart, DiesFinalizing,
                     ProcessEnds
<1>5. CASE UNCHANGED vars
  BY <1>5, Zenon DEF vars
<1> QED
  BY <1>1, <1>2, <1>3, <1>4, <1>5, Zenon DEF Next

LEMMA PoolUnchanged ==
  UNCHANGED poolVars => queue' = queue /\ queued' = queued /\ running' = running
BY Zenon DEF poolVars

LEMMA TypeNext == TypeOK /\ [Next]_vars => TypeOK'
<1> SUFFICES ASSUME TypeOK, [Next]_vars PROVE TypeOK'
  OBVIOUS
<1>0. FlagsOK'
  BY FlagsNext DEF TypeOK
<1> USE <1>0, ExecutorConstants, StatusFacts DEF TypeOK
<1>1. ASSUME NEW r \in Runs, NEW m \in {"sync", "async"}, InsertRun(r, m)
      PROVE TypeOK'
  BY <1>1 DEF InsertRun, poolVars, procVars, workerVars, histVars
<1>2. ASSUME NEW r \in Runs, Enqueue(r) PROVE TypeOK'
  <2>1. queue' \in Seq(Runs) /\ queued' \subseteq Runs /\ running' \in Nat
    <3>1. \/ queue' = queue /\ queued' = queued /\ running' = running
          \/ /\ queue' = Append(queue, r) /\ queued' = queued \cup {r}
             /\ running' = running
      BY <1>2, PoolUnchanged, Zenon DEF Enqueue
    <3>2. Append(queue, r) \in Seq(Runs)
      BY AppendProperties
    <3>3. queue' \in Seq(Runs)
      BY <3>1, <3>2, Zenon
    <3> QED
      BY <3>1, <3>3
  <2>2. route' \in [Runs -> {"none", "sync", "async"}]
    BY <1>2 DEF Enqueue
  <2> QED
    BY <1>2, <2>1, <2>2 DEF Enqueue, procVars, workerVars, histVars, dbVars
<1>3. ASSUME NEW r \in Runs, ExecuteSync(r) PROVE TypeOK'
  BY <1>3 DEF ExecuteSync, poolVars, procVars, histVars, dbVars
<1>4. ASSUME NEW r \in Runs, CancelTx(r) PROVE TypeOK'
  <2>1. status' \in [Runs -> RunStatus]
    BY <1>4 DEF CancelTx, CancelQueuedRun
  <2>2. telemetry' \in [Runs -> Terminal \cup {"none"}]
    BY <1>4 DEF CancelTx, CancelQueuedRun, RecordTelemetry
  <2> QED
    BY <1>4, <2>1, <2>2 DEF CancelTx, poolVars, procVars, workerVars
<1>5. ASSUME NEW r \in Runs, RequestCancel(r) PROVE TypeOK'
  BY <1>5 DEF RequestCancel, poolVars, procVars, histVars, dbVars
<1>6. ASSUME NEW r \in Runs, ClaimRow(r) PROVE TypeOK'
  BY <1>6 DEF ClaimRow, poolVars, procVars, routeVars, histVars
<1>21. ASSUME NEW r \in Runs, ClaimNothing(r) PROVE TypeOK'
  BY <1>21 DEF ClaimNothing, WorkerEnds, dbVars, procVars, routeVars, histVars
<1>7. ASSUME NEW r \in Runs, PrepareEnds(r) PROVE TypeOK'
  BY <1>7 DEF PrepareEnds, dbVars, poolVars, procVars, routeVars, histVars
<1>8. ASSUME NEW r \in Runs, StartCommand(r) PROVE TypeOK'
  BY <1>8 DEF StartCommand, dbVars, poolVars, procVars, routeVars
<1>9. ASSUME NEW r \in Runs, SyncThrows(r) PROVE TypeOK'
  BY <1>9 DEF SyncThrows, WorkerEnds, dbVars, procVars, routeVars, histVars
<1>10. ASSUME NEW r \in Runs, TimeoutFires(r) PROVE TypeOK'
  BY <1>10 DEF TimeoutFires, dbVars, poolVars, procVars, routeVars, histVars
<1>11. ASSUME NEW r \in Runs, CommandEnds(r) PROVE TypeOK'
  BY <1>11 DEF CommandEnds, DecideStatus, CommandResult, dbVars, poolVars,
               procVars, routeVars, histVars
<1>12. ASSUME NEW r \in Runs, Finalize(r) PROVE TypeOK'
  BY <1>12 DEF Finalize, FinalizeRun, FinalizeRow, RecordTelemetry, WorkerEnds,
               procVars, routeVars, histVars
<1>13. ASSUME NEW r \in Runs, GrowStale(r) \/ HeartbeatTick(r) PROVE TypeOK'
  BY <1>13 DEF GrowStale, HeartbeatTick, poolVars, procVars, workerVars,
               routeVars, histVars
<1>14. ASSUME NEW r \in Runs, RecoverRow(r) PROVE TypeOK'
  <2>1. \/ UNCHANGED <<status, stale, telemetry>>
        \/ FinalizeRun(r, "timeout")
    BY <1>14, Zenon DEF RecoverRow, FinalizeRunningRun
  <2>2. /\ status' \in [Runs -> RunStatus] /\ stale' \subseteq Runs
        /\ telemetry' \in [Runs -> Terminal \cup {"none"}]
    <3>1. CASE UNCHANGED <<status, stale, telemetry>>
      BY <3>1
    <3>2. CASE FinalizeRun(r, "timeout")
      BY <3>2 DEF FinalizeRun, FinalizeRow, RecordTelemetry
    <3> QED
      BY <2>1, <3>1, <3>2
  <2>3. /\ UNCHANGED <<cancelRequested, mode, poolVars, workerVars>>
        /\ UNCHANGED <<routeVars, histVars>>
        /\ staleRows' = staleRows \ {r}
    BY <1>14, Zenon DEF RecoverRow
  <2> QED
    BY <2>2, <2>3 DEF poolVars, workerVars, routeVars, histVars
<1>15. ASSUME RecoveryPoll \/ RecoveryEnds PROVE TypeOK'
  BY <1>15 DEF RecoveryPoll, RecoveryEnds, dbVars, poolVars, workerVars,
               routeVars, histVars
<1>16. CASE Pump
  <2>1. PumpCount \in 0..Len(queue)
    BY PumpCountFacts
  <2>2. SubSeq(queue, PumpCount + 1, Len(queue)) \in Seq(Runs)
    BY <2>1
  <2>3. {queue[i] : i \in 1..PumpCount} \subseteq Runs
    BY <2>1
  <2> QED
    BY <1>16, <2>1, <2>2, <2>3 DEF Pump, dbVars, procVars, routeVars, histVars
<1>17. CASE Shutdown
  BY <1>17 DEF Shutdown, dbVars, routeVars, histVars
<1>20. CASE CloseStore
  BY <1>20 DEF CloseStore, dbVars, poolVars, workerVars, routeVars, histVars
<1>18. CASE Restart
  BY <1>18 DEF Restart, ProcessEnds, dbVars
<1>22. ASSUME NEW r \in Runs, DiesFinalizing(r) PROVE TypeOK'
  <2>1. status' \in [Runs -> RunStatus] /\ stale' \subseteq Runs
    BY <1>22 DEF DiesFinalizing, FinalizeRow
  <2>2. ProcessEnds /\ UNCHANGED <<cancelRequested, telemetry>>
    BY <1>22 DEF DiesFinalizing
  <2> QED
    BY <2>1, <2>2 DEF ProcessEnds
<1>19. CASE UNCHANGED vars
  BY <1>19 DEF vars, dbVars, poolVars, procVars, workerVars, routeVars, histVars
<1> QED
  BY <1>1, <1>2, <1>3, <1>4, <1>5, <1>6, <1>7, <1>8, <1>9, <1>10, <1>11, <1>12,
     <1>13, <1>14, <1>15, <1>16, <1>17, <1>18, <1>19,
     <1>20, <1>21, <1>22
  DEF Next, Claim, WorkerStep, RouteStep, RecoveryStep, ProcessStep

\* Every reachable state of the executor is well typed; in particular no run
\* is ever finalized with a status that is not terminal.
THEOREM TypeCorrect == Spec => []TypeOK
BY TypeInit, TypeNext, PTL DEF Spec

----------------------------------------------------------------------------
(* No lost wakeup.  Each step either schedules a pump, or is the pump and  *)
(* stops only for want of runs or of slots, or leaves the pool alone.      *)

WaitingRunHasSlot == queue # <<>> /\ running < MaxConcurrency

\* The pump stops for want of runs or of slots, unless it is shutting down.
LEMMA PumpDrains ==
  ASSUME TypeOK, Pump, ~shuttingDown
  PROVE  ~WaitingRunHasSlot'
<1>1. PumpCount = IF Len(queue) <= FreeSlots THEN Len(queue) ELSE FreeSlots
  BY DEF PumpCount
<1>2. /\ queue' = SubSeq(queue, PumpCount + 1, Len(queue))
      /\ running' = running + PumpCount
  BY DEF Pump
<1>3. queue \in Seq(Runs) /\ running \in Nat /\ MaxConcurrency \in Nat
  BY ExecutorConstants DEF TypeOK
<1>4. CASE Len(queue) <= FreeSlots
  <2>1. PumpCount = Len(queue)
    BY <1>1, <1>4
  <2>2. queue' = <<>>
    BY <1>2, <1>3, <2>1
  <2> QED
    BY <2>2 DEF WaitingRunHasSlot
<1>5. CASE ~(Len(queue) <= FreeSlots)
  <2>1. PumpCount = FreeSlots
    BY <1>1, <1>5
  <2>2. running' >= MaxConcurrency
    BY <1>2, <1>3, <2>1 DEF FreeSlots
  <2> QED
    BY <1>2, <1>3, <2>1, <2>2 DEF WaitingRunHasSlot, FreeSlots
<1> QED
  BY <1>4, <1>5

LEMMA WakeupInit == Init => NoLostWakeup
BY Zenon DEF Init, NoLostWakeup

LEMMA WakeupNext == TypeOK /\ NoLostWakeup /\ [Next]_vars => NoLostWakeup'
<1> SUFFICES ASSUME TypeOK, NoLostWakeup, [Next]_vars PROVE NoLostWakeup'
  OBVIOUS
<1> DEFINE Untouched == UNCHANGED <<queue, running, pumping, shuttingDown>>
<1>1. ASSUME Untouched PROVE NoLostWakeup'
  BY <1>1, Zenon DEF NoLostWakeup
<1>2. ASSUME Kick, UNCHANGED shuttingDown PROVE NoLostWakeup'
  BY <1>2, Zenon DEF Kick, NoLostWakeup
<1>3. ASSUME NEW r \in Runs, WorkerEnds(r), UNCHANGED shuttingDown
      PROVE NoLostWakeup'
  <2>1. \/ Kick /\ UNCHANGED shuttingDown
        \/ Untouched
    BY <1>3, Zenon DEF WorkerEnds
  <2> QED
    BY <1>1, <1>2, <2>1, Zenon
<1>4. ASSUME NEW r \in Runs, RouteStep(r) PROVE NoLostWakeup'
  <2>1. \/ Kick /\ UNCHANGED shuttingDown
        \/ Untouched
    BY <1>4, Zenon DEF RouteStep, InsertRun, Enqueue, ExecuteSync, CancelTx,
                       RequestCancel, poolVars, procVars
  <2> QED
    BY <1>1, <1>2, <2>1, Zenon
<1>5. ASSUME NEW r \in Runs, WorkerStep(r) PROVE NoLostWakeup'
  <2>1. \/ WorkerEnds(r) /\ UNCHANGED shuttingDown
        \/ Untouched
    BY <1>5, Zenon DEF WorkerStep, Claim, ClaimRow, ClaimNothing, PrepareEnds,
                       StartCommand, SyncThrows, TimeoutFires, CommandEnds,
                       Finalize, poolVars, procVars
  <2> QED
    BY <1>1, <1>3, <2>1, Zenon
<1>6. ASSUME RecoveryStep PROVE NoLostWakeup'
  <2>1. Untouched
    BY <1>6, Zenon DEF RecoveryStep, GrowStale, HeartbeatTick, RecoverRow,
                       RecoveryPoll, RecoveryEnds, poolVars, procVars
  <2> QED
    BY <1>1, <2>1
<1>7. CASE Pump
  <2>1. CASE shuttingDown
    <3>1. shuttingDown'
      BY <1>7, <2>1, Zenon DEF Pump, procVars
    <3> QED
      BY <3>1, Zenon DEF NoLostWakeup
  <2>2. CASE ~shuttingDown
    BY <1>7, <2>2, PumpDrains, Zenon DEF NoLostWakeup, WaitingRunHasSlot
  <2> QED
    BY <2>1, <2>2
<1>8. CASE Shutdown
  BY <1>8, Zenon DEF Shutdown, NoLostWakeup
<1>9. CASE CloseStore
  <2>1. Untouched
    BY <1>9, Zenon DEF CloseStore, poolVars
  <2> QED
    BY <1>1, <2>1
<1>10. CASE Restart \/ \E r \in Runs : DiesFinalizing(r)
  BY <1>10, Zenon DEF Restart, DiesFinalizing, ProcessEnds, NoLostWakeup
<1>11. CASE UNCHANGED vars
  <2>1. Untouched
    BY <1>11, Zenon DEF vars, poolVars, procVars
  <2> QED
    BY <1>1, <2>1
<1> QED
  BY <1>4, <1>5, <1>6, <1>7, <1>8, <1>9, <1>10, <1>11, Zenon
  DEF Next, ProcessStep

\* While runs wait and a slot is free a pump is scheduled, for every pool
\* size: a kick is never lost between enqueue, finally() and the pump.
THEOREM WakeupNeverLost == Spec => []NoLostWakeup
BY TypeCorrect, WakeupInit, WakeupNext, PTL DEF Spec

----------------------------------------------------------------------------
(* Where a run is: with its route, in the queue, or in a call.             *)

QueueInv ==
  /\ queued = {queue[i] : i \in 1..Len(queue)}
  /\ \A i, j \in 1..Len(queue) : queue[i] = queue[j] => i = j

Waiting(r) == route[r] # "none" \/ r \in queued \/ pc[r] = "claim"
Live(r) == pc[r] \in {"prepare", "exec", "final"}

\* A run is in one place at a time; it is taken once, and starts its command from there.
PlaceOf(r) ==
  /\ status[r] = "none" => ~Waiting(r) /\ ~Live(r) /\ starts[r] = 0
  /\ Waiting(r) => status[r] \in {"queued", "canceled"} /\ starts[r] = 0
  /\ route[r] # "none" => r \notin queued
  /\ route[r] # "none" \/ r \in queued => pc[r] = "idle"
  /\ pc[r] = "prepare" => starts[r] = 0
  /\ Live(r) => status[r] \in {"running"} \cup Terminal
  /\ pc[r] = "final" => outcome[r] \in Terminal
  /\ starts[r] <= 1

PlaceInv == QueueInv /\ \A r \in Runs : PlaceOf(r)

LEMMA PlaceInit == Init => PlaceInv
BY DEF Init, PlaceInv, QueueInv, PlaceOf, Waiting, Live

LEMMA StatusesDiffer ==
  /\ "none" \notin Terminal /\ "queued" \notin Terminal /\ "running" \notin Terminal
BY DEF Terminal

\* What the pump leaves in the queue is what it does not take.
LEMMA PumpSplits ==
  ASSUME TypeOK, QueueInv, Pump
  PROVE  /\ QueueInv'
         /\ queued' = queued \ {queue[i] : i \in 1..PumpCount}
         /\ {queue[i] : i \in 1..PumpCount} \subseteq queued
<1>1. PumpCount \in 0..Len(queue) /\ queue \in Seq(Runs)
  BY PumpCountFacts DEF TypeOK
<1>2. queue' = SubSeq(queue, PumpCount + 1, Len(queue))
  BY DEF Pump
<1>3. /\ Len(queue') = Len(queue) - PumpCount
      /\ \A i \in 1..Len(queue') : queue'[i] = queue[i + PumpCount]
  BY <1>1, <1>2
<1>4. queued' = queued \ {queue[i] : i \in 1..PumpCount}
  BY DEF Pump
<1>5. \A i, j \in 1..Len(queue') : queue'[i] = queue'[j] => i = j
  BY <1>1, <1>3 DEF QueueInv
<1>6. queued' \subseteq {queue'[i] : i \in 1..Len(queue')}
  <2>1. ASSUME NEW r \in queued' PROVE \E i \in 1..Len(queue') : queue'[i] = r
    <3>1. PICK j \in 1..Len(queue) : queue[j] = r
      BY <1>4, <2>1 DEF QueueInv
    <3>2. j \notin 1..PumpCount
      BY <1>4, <2>1, <3>1
    <3>3. j - PumpCount \in 1..Len(queue') /\ (j - PumpCount) + PumpCount = j
      BY <1>1, <1>3, <3>1, <3>2
    <3> QED
      BY <1>3, <3>1, <3>3
  <2> QED
    BY <2>1
<1>7. ASSUME NEW i \in 1..Len(queue') PROVE queue'[i] \in queued'
  <2>1. i + PumpCount \in 1..Len(queue) /\ i + PumpCount \notin 1..PumpCount
    BY <1>1, <1>3, <1>7
  <2>2. queue[i + PumpCount] \in queued
    BY <2>1 DEF QueueInv
  <2>3. \A j \in 1..PumpCount : queue[j] # queue[i + PumpCount]
    BY <1>1, <2>1 DEF QueueInv
  <2> QED
    BY <1>3, <1>4, <2>2, <2>3
<1>8. {queue[i] : i \in 1..PumpCount} \subseteq queued
  BY <1>1 DEF QueueInv
<1>9. queued' = {queue'[i] : i \in 1..Len(queue')}
  <2>1. {queue'[i] : i \in 1..Len(queue')} \subseteq queued'
    BY <1>7
  <2> QED
    BY <1>6, <2>1
<1>10. QueueInv'
  BY <1>5, <1>9 DEF QueueInv
<1> QED
  BY <1>4, <1>8, <1>10

LEMMA QueueNext == TypeOK /\ QueueInv /\ [Next]_vars => QueueInv'
<1> SUFFICES ASSUME TypeOK, QueueInv, [Next]_vars PROVE QueueInv'
  OBVIOUS
<1>1. ASSUME UNCHANGED <<queue, queued>> PROVE QueueInv'
  BY <1>1 DEF QueueInv
<1>2. ASSUME queue' = <<>>, queued' = {} PROVE QueueInv'
  BY <1>2 DEF QueueInv
<1>3. ASSUME NEW r \in Runs, r \notin queued, queue' = Append(queue, r),
             queued' = queued \cup {r}
      PROVE  QueueInv'
  <2>1. /\ queue \in Seq(Runs) /\ Len(queue') = Len(queue) + 1
        /\ \A i \in 1..Len(queue) : queue'[i] = queue[i]
        /\ queue'[Len(queue) + 1] = r
    BY <1>3 DEF TypeOK
  <2>2. 1..Len(queue') = 1..Len(queue) \cup {Len(queue) + 1}
    BY <2>1
  <2>3. \A i \in 1..Len(queue) : queue[i] # r
    BY <1>3 DEF QueueInv
  <2>4. \A i, j \in 1..Len(queue') : queue'[i] = queue'[j] => i = j
    BY <2>1, <2>2, <2>3 DEF QueueInv
  <2>5. queued' = {queue'[i] : i \in 1..Len(queue')}
    BY <1>3, <2>1, <2>2 DEF QueueInv
  <2> QED
    BY <2>4, <2>5 DEF QueueInv
<1>4. ASSUME NEW r \in Runs, RouteStep(r) PROVE QueueInv'
  <2>1. \/ UNCHANGED <<queue, queued>>
        \/ r \notin queued /\ queue' = Append(queue, r) /\ queued' = queued \cup {r}
    BY <1>4, Zenon DEF RouteStep, InsertRun, Enqueue, ExecuteSync, CancelTx,
                       RequestCancel, poolVars
  <2> QED
    BY <1>1, <1>3, <2>1
<1>5. ASSUME NEW r \in Runs, WorkerStep(r) PROVE QueueInv'
  <2>1. UNCHANGED <<queue, queued>>
    BY <1>5, Zenon DEF WorkerStep, Claim, ClaimRow, ClaimNothing, PrepareEnds,
                       StartCommand, SyncThrows, TimeoutFires, CommandEnds,
                       Finalize, WorkerEnds, poolVars
  <2> QED
    BY <1>1, <2>1
<1>6. CASE RecoveryStep
  <2>1. UNCHANGED <<queue, queued>>
    BY <1>6, Zenon DEF RecoveryStep, GrowStale, HeartbeatTick, RecoverRow,
                       RecoveryPoll, RecoveryEnds, poolVars
  <2> QED
    BY <1>1, <2>1
<1>7. CASE Pump
  BY <1>7, PumpSplits
<1>8. CASE Shutdown \/ Restart \/ \E r \in Runs : DiesFinalizing(r)
  BY <1>2, <1>8 DEF Shutdown, Restart, DiesFinalizing, ProcessEnds
<1>9. CASE CloseStore \/ UNCHANGED vars
  BY <1>1, <1>9 DEF CloseStore, poolVars, vars
<1> QED
  BY <1>4, <1>5, <1>6, <1>7, <1>8, <1>9 DEF Next, ProcessStep

LEMMA PlaceNext == TypeOK /\ PlaceInv /\ [Next]_vars => PlaceInv'
<1> SUFFICES ASSUME TypeOK, PlaceInv, [Next]_vars PROVE \A q \in Runs : PlaceOf(q)'
  BY QueueNext DEF PlaceInv
<1> SUFFICES ASSUME NEW q \in Runs PROVE PlaceOf(q)'
  OBVIOUS
<1>0. PlaceOf(q)
  BY DEF PlaceInv
<1> USE <1>0, StatusesDiffer DEF TypeOK, PlaceOf, Waiting, Live
<1>1. ASSUME NEW r \in Runs, NEW m \in {"sync", "async"}, InsertRun(r, m)
      PROVE  PlaceOf(q)'
  BY <1>1 DEF InsertRun, poolVars, workerVars, histVars
<1>2. ASSUME NEW r \in Runs, Enqueue(r) PROVE PlaceOf(q)'
  BY <1>2 DEF Enqueue, poolVars, dbVars, workerVars, histVars
<1>3. ASSUME NEW r \in Runs, ExecuteSync(r) PROVE PlaceOf(q)'
  BY <1>3 DEF ExecuteSync, poolVars, dbVars, histVars
<1>4. ASSUME NEW r \in Runs, CancelTx(r) PROVE PlaceOf(q)'
  BY <1>4, StatusFacts DEF CancelTx, CancelQueuedRun, poolVars, workerVars
<1>5. ASSUME NEW r \in Runs, ClaimRow(r) PROVE PlaceOf(q)'
  BY <1>5, StatusFacts DEF ClaimRow, poolVars, routeVars, histVars
<1>6. ASSUME NEW r \in Runs, StartCommand(r) PROVE PlaceOf(q)'
  BY <1>6 DEF StartCommand, poolVars, dbVars, routeVars
<1>7. ASSUME NEW r \in Runs, PrepareEnds(r) \/ CommandEnds(r) PROVE PlaceOf(q)'
  BY <1>7, StatusFacts DEF PrepareEnds, CommandEnds, CommandResult, DecideStatus,
                           poolVars, dbVars, routeVars, histVars
<1>8. ASSUME NEW r \in Runs, Finalize(r) PROVE PlaceOf(q)'
  BY <1>8 DEF Finalize, FinalizeRun, FinalizeRow, WorkerEnds, routeVars, histVars
<1>9. ASSUME NEW r \in Runs, ClaimNothing(r) \/ SyncThrows(r) PROVE PlaceOf(q)'
  BY <1>9 DEF ClaimNothing, SyncThrows, WorkerEnds, dbVars, routeVars, histVars
<1>10. ASSUME NEW r \in Runs, RecoverRow(r) PROVE PlaceOf(q)'
  BY <1>10, StatusFacts DEF RecoverRow, FinalizeRunningRun, FinalizeRun, FinalizeRow, poolVars, workerVars,
               routeVars, histVars
<1>11. CASE Pump
  <2>1. /\ queued' = queued \ {queue[i] : i \in 1..PumpCount}
        /\ {queue[i] : i \in 1..PumpCount} \subseteq queued
    BY <1>11, PumpSplits DEF PlaceInv
  <2>2. pc'[q] = IF q \in {queue[i] : i \in 1..PumpCount} THEN "claim" ELSE pc[q]
    BY <1>11 DEF Pump
  <2>3. UNCHANGED <<status, route, outcome, starts>>
    BY <1>11 DEF Pump, dbVars, routeVars, histVars
  <2> QED
    BY <2>1, <2>2, <2>3
<1>12. CASE Shutdown
  BY <1>12 DEF Shutdown, dbVars, routeVars, histVars
<1>13. CASE Restart
  BY <1>13 DEF Restart, ProcessEnds, dbVars
<1>18. ASSUME NEW r \in Runs, DiesFinalizing(r) PROVE PlaceOf(q)'
  <2>1. PICK s \in Terminal : Finalizing(r, s) /\ FinalizeRow(r, s)
    BY <1>18 DEF DiesFinalizing
  <2>2. status[r] # "none"
    BY <2>1 DEF Finalizing, PlaceInv
  <2>3. ProcessEnds
    BY <1>18 DEF DiesFinalizing
  <2> QED
    BY <2>1, <2>2, <2>3 DEF FinalizeRow, ProcessEnds
<1>14. ASSUME UNCHANGED <<status, queued, route, pc, outcome, starts>> PROVE PlaceOf(q)'
  BY <1>14
<1>15. CASE UNCHANGED vars
  BY <1>14, <1>15 DEF vars, dbVars, poolVars, workerVars, routeVars, histVars
<1>16. CASE CloseStore \/ RecoveryPoll \/ RecoveryEnds
  BY <1>14, <1>16 DEF CloseStore, RecoveryPoll, RecoveryEnds, dbVars, poolVars, workerVars,
                      routeVars, histVars
<1>17. ASSUME NEW r \in Runs, GrowStale(r) \/ HeartbeatTick(r) \/ TimeoutFires(r) \/ RequestCancel(r)
       PROVE  PlaceOf(q)'
  BY <1>14, <1>17 DEF GrowStale, HeartbeatTick, TimeoutFires, RequestCancel, dbVars, poolVars,
                      workerVars, routeVars, histVars
<1> QED
  BY <1>1, <1>2, <1>3, <1>4, <1>5, <1>6, <1>7, <1>8, <1>9, <1>10, <1>11, <1>12, <1>13,
     <1>15, <1>16, <1>17, <1>18
  DEF Next, Claim, WorkerStep, RouteStep, RecoveryStep, ProcessStep

\* The command of a run is started at most once, whatever restarts, recoveries and cancel
\* requests come between: a row is inserted once, handed over once and claimed once
\* (claimQueuedRun, executeLocalProcess).
THEOREM CommandsStartOnce == Spec => []StartedAtMostOnce
<1>1. PlaceInv => StartedAtMostOnce
  BY DEF PlaceInv, PlaceOf, StartedAtMostOnce
<1> QED
  BY <1>1, TypeCorrect, PlaceInit, PlaceNext, PTL DEF Spec

----------------------------------------------------------------------------
(* Rows, as long as the heartbeat of a live call keeps its row fresh: then *)
(* recovery never times out a run that still has a call, not even one left *)
(* behind by shutdown, which stops the heartbeats and the polling at once. *)

RowOf(r) ==
  /\ status[r] \in {"none", "queued"} => r \notin cancelRequested
  /\ r \in stale => status[r] = "running"
  /\ r \in staleRows => status[r] \in {"running"} \cup Terminal /\ ~Live(r)
  /\ Live(r) => status[r] = "running"
  /\ Live(r) /\ ~shuttingDown => r \in heartbeat /\ r \notin stale
  /\ telemetry[r] # "none" => status[r] \in Terminal /\ telemetry[r] = status[r]

RowInv == \A r \in Runs : RowOf(r)

LEMMA RowInit == Init => RowInv
BY StatusesDiffer DEF Init, RowInv, RowOf, Live

LEMMA RowNext == ReliableHeartbeat /\ TypeOK /\ PlaceInv /\ RowInv /\ [Next]_vars => RowInv'
<1> SUFFICES ASSUME ReliableHeartbeat, TypeOK, PlaceInv, RowInv, [Next]_vars, NEW q \in Runs
             PROVE  RowOf(q)'
  BY DEF RowInv
<1>0. RowOf(q) /\ PlaceOf(q)
  BY DEF RowInv, PlaceInv
<1> USE <1>0, StatusesDiffer, StatusFacts DEF TypeOK, RowOf, PlaceOf, Waiting, Live
<1>1. ASSUME NEW r \in Runs, NEW m \in {"sync", "async"}, InsertRun(r, m)
      PROVE  RowOf(q)'
  BY <1>1 DEF InsertRun, procVars, workerVars
<1>2. ASSUME UNCHANGED <<dbVars, procVars, heartbeat>>, Live(q)' => Live(q) PROVE RowOf(q)'
  BY <1>2 DEF dbVars, procVars
<1>3. ASSUME NEW r \in Runs, Enqueue(r) \/ RequestCancel(r) \/ TimeoutFires(r) PROVE RowOf(q)'
  BY <1>2, <1>3 DEF Enqueue, RequestCancel, TimeoutFires, workerVars
<1>4. ASSUME NEW r \in Runs, ExecuteSync(r) \/ PrepareEnds(r) \/ StartCommand(r) \/ CommandEnds(r)
      PROVE  RowOf(q)'
  BY <1>2, <1>4 DEF ExecuteSync, PrepareEnds, StartCommand, CommandEnds
<1>5. ASSUME NEW r \in Runs, CancelTx(r) PROVE RowOf(q)'
  BY <1>5 DEF CancelTx, CancelQueuedRun, RecordTelemetry, procVars, workerVars
<1>6. ASSUME NEW r \in Runs, ClaimRow(r) PROVE RowOf(q)'
  BY <1>6 DEF ClaimRow, procVars
<1>7. ASSUME NEW r \in Runs, ClaimNothing(r) \/ SyncThrows(r) PROVE RowOf(q)'
  BY <1>7 DEF ClaimNothing, SyncThrows, WorkerEnds, dbVars, procVars
<1>8. ASSUME NEW r \in Runs, Finalize(r) PROVE RowOf(q)'
  BY <1>8 DEF Finalize, FinalizeRun, FinalizeRow, RecordTelemetry, WorkerEnds, procVars
<1>9. ASSUME NEW r \in Runs, GrowStale(r) \/ HeartbeatTick(r) PROVE RowOf(q)'
  BY <1>9 DEF GrowStale, HeartbeatTick, procVars, workerVars
<1>10. ASSUME NEW r \in Runs, RecoverRow(r) PROVE RowOf(q)'
  BY <1>10 DEF RecoverRow, FinalizeRunningRun, FinalizeRun, FinalizeRow, RecordTelemetry,
               workerVars
<1>11. CASE RecoveryPoll \/ RecoveryEnds
  BY <1>11 DEF RecoveryPoll, RecoveryEnds, dbVars, workerVars
<1>12. CASE Pump
  BY <1>2, <1>12 DEF Pump
<1>13. CASE Shutdown \/ CloseStore \/ Restart
  BY <1>13 DEF Shutdown, CloseStore, Restart, ProcessEnds, dbVars, workerVars
<1>15. ASSUME NEW r \in Runs, DiesFinalizing(r) PROVE RowOf(q)'
  <2>1. PICK s \in Terminal : Finalizing(r, s) /\ FinalizeRow(r, s)
    BY <1>15 DEF DiesFinalizing
  <2>2. status[r] = "running" /\ telemetry[r] = "none"
    BY <2>1 DEF Finalizing, PlaceInv, RowInv
  <2>3. ProcessEnds /\ UNCHANGED <<cancelRequested, telemetry>>
    BY <1>15 DEF DiesFinalizing
  <2> QED
    BY <2>1, <2>2, <2>3 DEF FinalizeRow, ProcessEnds
<1>14. CASE UNCHANGED vars
  BY <1>2, <1>14 DEF vars, workerVars
<1> QED
  BY <1>1, <1>3, <1>4, <1>5, <1>6, <1>7, <1>8, <1>9, <1>10, <1>11, <1>12, <1>13, <1>14, <1>15
  DEF Next, Claim, WorkerStep, RouteStep, RecoveryStep, ProcessStep

ExecutorInv == TypeOK /\ PlaceInv /\ RowInv

LEMMA ExecutorInvariant == ReliableHeartbeat => (Spec => []ExecutorInv)
<1> SUFFICES ASSUME ReliableHeartbeat PROVE Spec => []ExecutorInv
  OBVIOUS
<1>1. Init => ExecutorInv
  BY TypeInit, PlaceInit, RowInit DEF ExecutorInv
<1>2. ExecutorInv /\ [Next]_vars => ExecutorInv'
  BY TypeNext, PlaceNext, RowNext DEF ExecutorInv
<1> QED
  BY <1>1, <1>2, PTL DEF Spec

\* No step but a crash inside a finalize leaves a finished run without telemetry.
LEMMA UnrecordedNext ==
  ASSUME ExecutorInv, [Next]_vars
  PROVE  \/ Unrecorded' \subseteq Unrecorded /\ restarts' >= restarts
         \/ \E r \in Runs : Unrecorded' \subseteq Unrecorded \cup {r} /\ restarts' = restarts + 1
<1> DEFINE Missing(q) == status[q] \in Terminal /\ telemetry[q] = "none"
           Same == UNCHANGED <<status, telemetry, restarts>>
           Recorded(r) == /\ \E s \in Terminal : FinalizeRun(r, s)
                          /\ restarts' = restarts
<1>1. restarts \in Nat
  BY ExecutorConstants DEF ExecutorInv, TypeOK
<1>2. ASSUME Same PROVE Unrecorded' \subseteq Unrecorded /\ restarts' >= restarts
  BY <1>1, <1>2 DEF Unrecorded
<1>3. ASSUME NEW r \in Runs, Recorded(r)
      PROVE  Unrecorded' \subseteq Unrecorded /\ restarts' >= restarts
  <2>1. PICK s \in Terminal : FinalizeRun(r, s)
    BY <1>3
  <2>2. \A q \in Runs : Missing(q)' => Missing(q)
    BY <2>1, StatusesDiffer DEF FinalizeRun, FinalizeRow, RecordTelemetry, ExecutorInv, TypeOK
  <2> QED
    BY <1>1, <1>3, <2>2 DEF Unrecorded
<1>4. ASSUME NEW r \in Runs, NEW m \in {"sync", "async"}, InsertRun(r, m)
      PROVE  Unrecorded' \subseteq Unrecorded /\ restarts' >= restarts
  BY <1>1, <1>4, StatusesDiffer DEF InsertRun, histVars, Unrecorded, ExecutorInv, TypeOK
<1>5. ASSUME NEW r \in Runs, ClaimRow(r)
      PROVE  Unrecorded' \subseteq Unrecorded /\ restarts' >= restarts
  BY <1>1, <1>5, StatusesDiffer DEF ClaimRow, histVars, Unrecorded, ExecutorInv, TypeOK
<1>6. ASSUME NEW r \in Runs, CancelTx(r)
      PROVE  Unrecorded' \subseteq Unrecorded /\ restarts' >= restarts
  <2>1. \A q \in Runs : Missing(q)' => Missing(q)
    BY <1>6, StatusesDiffer DEF CancelTx, CancelQueuedRun, RecordTelemetry, ExecutorInv, TypeOK
  <2> QED
    BY <1>1, <1>6, <2>1 DEF CancelTx, Unrecorded
<1>7. ASSUME NEW r \in Runs, Finalize(r) PROVE Recorded(r)
  <2>1. outcome[r] \in Terminal
    BY <1>7 DEF Finalize, ExecutorInv, PlaceInv, PlaceOf
  <2> QED
    BY <1>7, <2>1 DEF Finalize, histVars
<1>8. ASSUME NEW r \in Runs, RecoverRow(r) PROVE Same \/ Recorded(r)
  BY <1>8, StatusFacts DEF RecoverRow, FinalizeRunningRun, histVars
<1>9. ASSUME NEW r \in Runs, DiesFinalizing(r)
      PROVE  Unrecorded' \subseteq Unrecorded \cup {r} /\ restarts' = restarts + 1
  <2>1. /\ \E s \in Terminal : status' = [status EXCEPT ![r] = s]
        /\ telemetry' = telemetry /\ restarts' = restarts + 1
    BY <1>9, Zenon DEF DiesFinalizing, FinalizeRow, ProcessEnds
  <2> QED
    BY <2>1 DEF Unrecorded, ExecutorInv, TypeOK
<1>10. ASSUME NEW r \in Runs, \/ Enqueue(r) \/ ExecuteSync(r) \/ RequestCancel(r)
                              \/ ClaimNothing(r) \/ PrepareEnds(r) \/ StartCommand(r)
                              \/ SyncThrows(r) \/ TimeoutFires(r) \/ CommandEnds(r)
                              \/ GrowStale(r) \/ HeartbeatTick(r)
       PROVE  Same
  BY <1>10, Zenon DEF Enqueue, ExecuteSync, RequestCancel, ClaimNothing, PrepareEnds,
                     StartCommand, SyncThrows, TimeoutFires, CommandEnds, GrowStale,
                     HeartbeatTick, dbVars, histVars
<1>11. CASE RecoveryPoll \/ RecoveryEnds \/ Pump \/ Shutdown \/ CloseStore \/ UNCHANGED vars
  <2>1. Same
    BY <1>11, Zenon DEF RecoveryPoll, RecoveryEnds, Pump, Shutdown, CloseStore, vars, dbVars,
                        histVars
  <2> QED
    BY <1>2, <2>1
<1>12. CASE Restart
  BY <1>1, <1>12 DEF Restart, ProcessEnds, dbVars, Unrecorded
<1> HIDE DEF Same, Recorded
<1> QED
  BY <1>2, <1>3, <1>4, <1>5, <1>6, <1>7, <1>8, <1>9, <1>10, <1>11, <1>12
  DEF Next, Claim, WorkerStep, RouteStep, RecoveryStep, ProcessStep

UnrecordedInv == IsFiniteSet(Unrecorded) /\ Cardinality(Unrecorded) <= restarts

LEMMA UnrecordedInductive ==
  /\ Init => UnrecordedInv
  /\ ExecutorInv /\ UnrecordedInv /\ [Next]_vars => UnrecordedInv'
<1>1. Init => UnrecordedInv
  <2>1. Init => Unrecorded = {} /\ restarts = 0
    BY StatusesDiffer DEF Init, Unrecorded
  <2> QED
    BY <2>1, FS_EmptySet DEF UnrecordedInv
<1>2. ASSUME ExecutorInv, UnrecordedInv, [Next]_vars PROVE UnrecordedInv'
  <2>1. /\ IsFiniteSet(Unrecorded) /\ Cardinality(Unrecorded) \in Nat
        /\ Cardinality(Unrecorded) <= restarts
    BY <1>2, FS_CardinalityType DEF UnrecordedInv
  <2>2. restarts \in Nat /\ restarts' \in Nat
    BY <1>2, TypeNext, ExecutorConstants DEF ExecutorInv, TypeOK
  <2>3. CASE Unrecorded' \subseteq Unrecorded /\ restarts' >= restarts
    <3>1. /\ IsFiniteSet(Unrecorded') /\ Cardinality(Unrecorded') \in Nat
          /\ Cardinality(Unrecorded') <= Cardinality(Unrecorded)
      BY <2>1, <2>3, FS_Subset, FS_CardinalityType
    <3> QED
      BY <2>1, <2>2, <2>3, <3>1 DEF UnrecordedInv
  <2>4. ASSUME NEW r \in Runs, Unrecorded' \subseteq Unrecorded \cup {r},
               restarts' = restarts + 1
        PROVE  UnrecordedInv'
    <3>1. /\ IsFiniteSet(Unrecorded \cup {r})
          /\ Cardinality(Unrecorded \cup {r}) \in Nat
          /\ Cardinality(Unrecorded \cup {r}) <= Cardinality(Unrecorded) + 1
      BY <2>1, FS_AddElement, FS_CardinalityType
    <3>2. /\ IsFiniteSet(Unrecorded') /\ Cardinality(Unrecorded') \in Nat
          /\ Cardinality(Unrecorded') <= Cardinality(Unrecorded \cup {r})
      BY <2>4, <3>1, FS_Subset, FS_CardinalityType
    <3> QED
      BY <2>1, <2>2, <2>4, <3>1, <3>2 DEF UnrecordedInv
  <2> QED
    BY <1>2, <2>3, <2>4, UnrecordedNext
<1> QED
  BY <1>1, <1>2

\* With heartbeats that keep the rows of live calls fresh, run row and telemetry row agree
\* whoever writes them, a call, a cancel request or the recovery of a stale run, and at most
\* one finished run per crash has no telemetry (finalizeRun, cancelQueuedRun,
\* recordSandboxRunTelemetryRow).
THEOREM TelemetryAlwaysAgrees == ReliableHeartbeat => (Spec => []TelemetryAgrees)
<1> SUFFICES ASSUME ReliableHeartbeat PROVE Spec => []TelemetryAgrees
  OBVIOUS
<1>1. ExecutorInv /\ UnrecordedInv => TelemetryAgrees
  BY DEF ExecutorInv, RowInv, RowOf, UnrecordedInv, TelemetryAgrees
<1>2. Init => UnrecordedInv
  BY UnrecordedInductive
<1>3. ExecutorInv /\ UnrecordedInv /\ [Next]_vars => UnrecordedInv'
  BY UnrecordedInductive
<1> QED
  BY <1>1, <1>2, <1>3, ExecutorInvariant, PTL DEF Spec

----------------------------------------------------------------------------
(* The life of a run as its clients see it.                                *)

\* Each step of the executor, the routes, recovery and restarts is a step of that life or
\* leaves the rows alone.
LEMMA LifecycleStep ==
  ASSUME ExecutorInv, [Next]_vars
  PROVE  [Lifecycle!Next]_<<status, cancelRequested, telemetry>>
<1> DEFINE Rows == UNCHANGED <<status, cancelRequested, telemetry>>
           Step(r) == \/ Lifecycle!Accept(r) \/ Lifecycle!Take(r) \/ Lifecycle!Cancel(r)
                      \/ \E s \in Lifecycle!Finished : Lifecycle!Finish(r, s)
<1>1. SUFFICES Rows \/ \E r \in Runs : Step(r)
  BY DEF Lifecycle!Next
<1> USE StatusesDiffer, StatusFacts DEF ExecutorInv, TypeOK
<1>2. Lifecycle!Finished = Terminal
  BY DEF Lifecycle!Finished, Terminal
<1>3. ASSUME NEW r \in Runs, NEW m \in {"sync", "async"}, InsertRun(r, m) PROVE Step(r)
  BY <1>3 DEF InsertRun, Lifecycle!Accept
<1>4. ASSUME NEW r \in Runs, ClaimRow(r) PROVE Step(r)
  <2>1. PlaceOf(r) /\ pc[r] = "claim" /\ status[r] \in {"queued", "running"}
    BY <1>4 DEF PlaceInv, ClaimRow
  <2>2. status[r] = "queued"
    BY <2>1 DEF PlaceOf, Waiting
  <2> QED
    BY <1>4, <2>2 DEF ClaimRow, Lifecycle!Take
<1>5. ASSUME NEW r \in Runs, CancelTx(r) PROVE Step(r)
  <2>1. RowOf(r)
    BY DEF RowInv
  <2>2. CASE status[r] = "queued"
    BY <1>5, <2>1, <2>2 DEF RowOf, CancelTx, CancelQueuedRun, RecordTelemetry, Lifecycle!Cancel
  <2>3. CASE status[r] # "queued"
    BY <1>5, <2>3 DEF CancelTx, CancelQueuedRun, Lifecycle!Cancel
  <2> QED
    BY <2>2, <2>3
<1>6. ASSUME NEW r \in Runs, NEW s \in Terminal, status[r] = "running", FinalizeRun(r, s),
             UNCHANGED cancelRequested
      PROVE  Step(r)
  <2>1. telemetry[r] = "none"
    BY <1>6 DEF RowInv, RowOf
  <2>2. Lifecycle!Finish(r, s)
    BY <1>6, <2>1 DEF FinalizeRun, FinalizeRow, RecordTelemetry, Lifecycle!Finish
  <2> QED
    BY <1>2, <2>2
<1>7. ASSUME NEW r \in Runs, Finalize(r) PROVE Step(r)
  <2>1. outcome[r] \in Terminal /\ status[r] = "running"
    BY <1>7 DEF Finalize, PlaceInv, PlaceOf, RowInv, RowOf, Live
  <2>2. FinalizeRun(r, outcome[r]) /\ UNCHANGED cancelRequested
    BY <1>7 DEF Finalize
  <2> QED
    BY <1>6, <2>1, <2>2
<1>8. ASSUME NEW r \in Runs, RecoverRow(r) PROVE Rows \/ Step(r)
  <2>1. UNCHANGED cancelRequested
    BY <1>8 DEF RecoverRow
  <2>2. \/ UNCHANGED <<status, stale, telemetry>>
        \/ status[r] = "running" /\ FinalizeRun(r, "timeout")
    BY <1>8 DEF RecoverRow, FinalizeRunningRun
  <2> QED
    BY <1>6, <2>1, <2>2
<1>9. ASSUME UNCHANGED dbVars PROVE Rows
  BY <1>9 DEF dbVars
<1>10. ASSUME NEW r \in Runs, \/ Enqueue(r) \/ ExecuteSync(r) \/ RequestCancel(r)
                              \/ ClaimNothing(r) \/ PrepareEnds(r) \/ StartCommand(r)
                              \/ SyncThrows(r) \/ TimeoutFires(r) \/ CommandEnds(r)
       PROVE  Rows
  BY <1>9, <1>10 DEF Enqueue, ExecuteSync, RequestCancel, ClaimNothing, PrepareEnds,
                     StartCommand, SyncThrows, TimeoutFires, CommandEnds
<1>11. ASSUME NEW r \in Runs, GrowStale(r) \/ HeartbeatTick(r) PROVE Rows
  BY <1>11 DEF GrowStale, HeartbeatTick
<1>12. CASE RecoveryPoll \/ RecoveryEnds \/ Pump \/ Shutdown \/ CloseStore \/ Restart
            \/ UNCHANGED vars
  BY <1>9, <1>12 DEF RecoveryPoll, RecoveryEnds, Pump, Shutdown, CloseStore, Restart, vars
<1>13. ASSUME NEW r \in Runs, DiesFinalizing(r) PROVE Step(r)
  <2>1. PICK s \in Terminal : Finalizing(r, s) /\ FinalizeRow(r, s)
    BY <1>13 DEF DiesFinalizing
  <2>2. status[r] = "running"
    BY <2>1 DEF Finalizing, PlaceInv, PlaceOf, RowInv, RowOf, Live
  <2>3. Lifecycle!Finish(r, s)
    BY <1>13, <2>1, <2>2 DEF DiesFinalizing, FinalizeRow, Lifecycle!Finish
  <2> QED
    BY <1>2, <2>3
<1> HIDE DEF Rows, Step
<1> QED
  BY <1>3, <1>4, <1>5, <1>7, <1>8, <1>10, <1>11, <1>12, <1>13
  DEF Next, Claim, WorkerStep, RouteStep, RecoveryStep, ProcessStep

\* The executor, its routes, recovery, shutdown and restarts together implement the life of a
\* run: a row moves from queued to running to one final status, a cancel request ends only a
\* queued run, and telemetry is written with the final status or, when a crash comes between
\* the two commits, never (lite-sandbox-store.ts).
THEOREM ExecutorImplementsLifecycle == ReliableHeartbeat => (Spec => ImplementsLifecycle)
<1> SUFFICES ASSUME ReliableHeartbeat PROVE Spec => ImplementsLifecycle
  OBVIOUS
<1>1. Init => Lifecycle!Init
  BY DEF Init, Lifecycle!Init
<1>2. ExecutorInv /\ [Next]_vars => [Lifecycle!Next]_(Lifecycle!rowVars)
  BY LifecycleStep DEF Lifecycle!rowVars
<1> QED
  BY <1>1, <1>2, ExecutorInvariant, PTL DEF Spec, ImplementsLifecycle, Lifecycle!Spec

----------------------------------------------------------------------------
(* Killed commands.                                                        *)

\* A killed command is on its way to "canceled"; a call whose store was closed under it leaves
\* the row as it is.
KilledOf(r) ==
  /\ starts[r] = 1
  /\ pc[r] = "final" => outcome[r] = "canceled"
  /\ pc[r] = "idle" => status[r] = "canceled" \/ (~storeOpen /\ status[r] = "running")

KillInv ==
  /\ \A r \in active : pc[r] = "exec"
  /\ \A r \in Runs : pc[r] = "exec" => starts[r] = 1
  /\ \A r \in killed : KilledOf(r)

LEMMA KillInit == Init => KillInv
BY DEF Init, KillInv

LEMMA KillNext == ReliableHeartbeat /\ ExecutorInv /\ KillInv /\ [Next]_vars => KillInv'
<1> SUFFICES ASSUME ReliableHeartbeat, ExecutorInv, KillInv, [Next]_vars PROVE KillInv'
  OBVIOUS
<1> DEFINE Goal(q) == /\ q \in active' => pc'[q] = "exec"
                      /\ pc'[q] = "exec" => starts'[q] = 1
                      /\ q \in killed' =>
                           /\ starts'[q] = 1
                           /\ pc'[q] = "final" => outcome'[q] = "canceled"
                           /\ pc'[q] = "idle" => \/ status'[q] = "canceled"
                                                 \/ ~storeOpen' /\ status'[q] = "running"
<1> SUFFICES ASSUME NEW q \in Runs PROVE Goal(q)
  <2>1. active' \subseteq Runs /\ killed' \subseteq Runs
    BY TypeNext DEF ExecutorInv, TypeOK
  <2> QED
    BY <2>1 DEF KillInv, KilledOf
<1>0. /\ PlaceOf(q) /\ RowOf(q)
      /\ q \in active => pc[q] = "exec"
      /\ pc[q] = "exec" => starts[q] = 1
      /\ q \in killed => KilledOf(q)
  BY DEF ExecutorInv, PlaceInv, RowInv, KillInv
<1> USE <1>0, StatusesDiffer DEF ExecutorInv, TypeOK, PlaceOf, RowOf, KilledOf, Waiting, Live
<1>1. ASSUME NEW r \in Runs, NEW m \in {"sync", "async"}, InsertRun(r, m) PROVE Goal(q)
  BY <1>1 DEF InsertRun, procVars, workerVars, histVars
<1>2. ASSUME NEW r \in Runs, Enqueue(r) \/ TimeoutFires(r) PROVE Goal(q)
  BY <1>2 DEF Enqueue, TimeoutFires, dbVars, procVars, workerVars, histVars
<1>3. ASSUME NEW r \in Runs, RequestCancel(r) PROVE Goal(q)
  BY <1>3 DEF RequestCancel, dbVars, procVars, histVars
<1>4. ASSUME NEW r \in Runs, ExecuteSync(r) PROVE Goal(q)
  BY <1>4 DEF ExecuteSync, dbVars, procVars, histVars
<1>5. ASSUME NEW r \in Runs, PrepareEnds(r) PROVE Goal(q)
  BY <1>5 DEF PrepareEnds, dbVars, procVars, histVars
<1>6. ASSUME NEW r \in Runs, StartCommand(r) PROVE Goal(q)
  BY <1>6 DEF StartCommand, dbVars, procVars
<1>7. ASSUME NEW r \in Runs, CommandEnds(r) PROVE Goal(q)
  BY <1>7 DEF CommandEnds, DecideStatus, dbVars, procVars, histVars
<1>8. ASSUME NEW r \in Runs, CancelTx(r) PROVE Goal(q)
  BY <1>8 DEF CancelTx, CancelQueuedRun, procVars, workerVars
<1>9. ASSUME NEW r \in Runs, ClaimRow(r) PROVE Goal(q)
  BY <1>9 DEF ClaimRow, procVars, histVars
<1>10. ASSUME NEW r \in Runs, ClaimNothing(r) \/ SyncThrows(r) PROVE Goal(q)
  BY <1>10 DEF ClaimNothing, SyncThrows, WorkerEnds, dbVars, procVars, histVars
<1>11. ASSUME NEW r \in Runs, Finalize(r) PROVE Goal(q)
  BY <1>11 DEF Finalize, FinalizeRun, FinalizeRow, WorkerEnds, procVars, histVars
<1>12. ASSUME NEW r \in Runs, GrowStale(r) \/ HeartbeatTick(r) PROVE Goal(q)
  BY <1>12 DEF GrowStale, HeartbeatTick, procVars, workerVars, histVars
<1>13. ASSUME NEW r \in Runs, RecoverRow(r) PROVE Goal(q)
  BY <1>13 DEF RecoverRow, FinalizeRunningRun, FinalizeRun, FinalizeRow, workerVars, histVars
<1>14. CASE RecoveryPoll \/ RecoveryEnds
  BY <1>14 DEF RecoveryPoll, RecoveryEnds, dbVars, workerVars, histVars
<1>15. CASE Pump
  <2>1. (pc'[q] = "claim" /\ starts[q] = 0) \/ pc'[q] = pc[q]
    <3>1. {queue[i] : i \in 1..PumpCount} \subseteq queued
      BY <1>15, PumpSplits DEF PlaceInv
    <3> QED
      BY <1>15, <3>1 DEF Pump
  <2> QED
    BY <1>15, <2>1 DEF Pump, dbVars, procVars, histVars
<1>16. CASE Shutdown
  BY <1>16 DEF Shutdown, dbVars, histVars
<1>17. CASE CloseStore
  BY <1>17 DEF CloseStore, dbVars, workerVars, histVars
<1>19. CASE Restart \/ \E r \in Runs : DiesFinalizing(r)
  <2>1. ProcessEnds
    BY <1>19 DEF Restart, DiesFinalizing
  <2> QED
    BY <2>1 DEF ProcessEnds
<1>18. CASE UNCHANGED vars
  BY <1>18 DEF vars, dbVars, procVars, workerVars, histVars
<1> HIDE DEF Goal
<1> QED
  BY <1>1, <1>2, <1>3, <1>4, <1>5, <1>6, <1>7, <1>8, <1>9, <1>10, <1>11, <1>12, <1>13, <1>14,
     <1>15, <1>16, <1>17, <1>18, <1>19
  DEF Next, Claim, WorkerStep, RouteStep, RecoveryStep, ProcessStep

\* A command killed while in the active map, by a cancel request or by shutdown, ends as
\* canceled and as nothing else, whatever its timeout timer, its exit code, the remote answer or
\* stale recovery say (requestCancel, shutdown, executeLocalProcess, executeRemote).
THEOREM KilledCommandsEndCanceled == ReliableHeartbeat => (Spec => []KilledRunEndsCanceled)
<1> SUFFICES ASSUME ReliableHeartbeat PROVE Spec => []KilledRunEndsCanceled
  OBVIOUS
<1>1. KillInv => KilledRunEndsCanceled
  BY StatusesDiffer DEF KillInv, KilledOf, KilledRunEndsCanceled
<1>2. ExecutorInv /\ KillInv /\ [Next]_vars => KillInv'
  BY KillNext
<1> QED
  BY <1>1, <1>2, KillInit, ExecutorInvariant, PTL DEF Spec

----------------------------------------------------------------------------
(* The pool.                                                               *)

PoolInv ==
  /\ IsFiniteSet(pooled) /\ running = Cardinality(pooled)
  /\ running <= MaxConcurrency
  /\ \A r \in pooled : pc[r] # "idle"

\* As many elements as entries, where no entry is repeated.
LEMMA DistinctEntriesCount ==
  ASSUME NEW n \in Nat, NEW q, NEW T,
         \A i \in 1..n : q[i] \in T,
         \A x \in T : \E i \in 1..n : q[i] = x,
         \A i, j \in 1..n : q[i] = q[j] => i = j
  PROVE  IsFiniteSet(T) /\ Cardinality(T) = n
<1> DEFINE f == [i \in 1..n |-> q[i]]
<1>1. f \in Bijection(1..n, T)
  BY DEF Bijection, Injection, Surjection, IsInjective
<1> HIDE DEF f
<1>2. ExistsBijection(1..n, T)
  BY <1>1 DEF ExistsBijection
<1> QED
  BY <1>2, FS_NatBijection, FS_CountingElements

LEMMA PoolInit == Init => PoolInv
BY FS_EmptySet, ExecutorConstants DEF Init, PoolInv

LEMMA PoolNext == TypeOK /\ PlaceInv /\ PoolInv /\ [Next]_vars => PoolInv'
<1> SUFFICES ASSUME TypeOK, PlaceInv, PoolInv, [Next]_vars PROVE PoolInv'
  OBVIOUS
<1>1. ASSUME UNCHANGED <<running, pooled>>, \A r \in pooled : pc'[r] # "idle" PROVE PoolInv'
  BY <1>1 DEF PoolInv
<1>2. ASSUME NEW r \in Runs, WorkerEnds(r) PROVE PoolInv'
  <2>1. /\ pooled' = pooled \ {r}
        /\ \/ r \in pooled /\ running' = IF running > 0 THEN running - 1 ELSE 0
           \/ r \notin pooled /\ running' = running
    BY <1>2 DEF WorkerEnds
  <2>2. /\ IsFiniteSet(pooled')
        /\ Cardinality(pooled') = IF r \in pooled THEN Cardinality(pooled) - 1
                                                  ELSE Cardinality(pooled)
    BY <2>1, FS_RemoveElement DEF PoolInv
  <2>3. Cardinality(pooled') \in Nat
    BY <2>2, FS_CardinalityType
  <2>4. running' = Cardinality(pooled') /\ running' <= MaxConcurrency
    BY <2>1, <2>2, <2>3, ExecutorConstants DEF PoolInv, TypeOK
  <2>5. \A x \in pooled' : pc'[x] # "idle"
    BY <1>2, <2>1 DEF PoolInv, WorkerEnds, TypeOK
  <2> QED
    BY <2>2, <2>4, <2>5 DEF PoolInv
<1>3. ASSUME NEW r \in Runs, RouteStep(r) PROVE PoolInv'
  <2>1. UNCHANGED <<running, pooled>> /\ (pc' = pc \/ pc' = [pc EXCEPT ![r] = "claim"])
    BY <1>3, Zenon DEF RouteStep, InsertRun, Enqueue, ExecuteSync, CancelTx, RequestCancel,
                       poolVars, workerVars
  <2> QED
    BY <1>1, <2>1 DEF PoolInv, TypeOK
<1>4. ASSUME NEW r \in Runs, WorkerStep(r) PROVE PoolInv'
  <2>1. CASE ClaimNothing(r) \/ SyncThrows(r) \/ Finalize(r)
    BY <1>2, <2>1 DEF ClaimNothing, SyncThrows, Finalize
  <2>2. CASE ClaimRow(r)
    BY <1>1, <2>2 DEF ClaimRow, poolVars, PoolInv, TypeOK
  <2>3. CASE PrepareEnds(r) \/ StartCommand(r) \/ TimeoutFires(r) \/ CommandEnds(r)
    BY <1>1, <2>3 DEF PrepareEnds, StartCommand, TimeoutFires, CommandEnds, poolVars,
                      PoolInv, TypeOK
  <2> QED
    BY <1>4, <2>1, <2>2, <2>3 DEF WorkerStep, Claim
<1>5. CASE Pump
  <2> DEFINE taken == {queue[i] : i \in 1..PumpCount}
  <2>1. PumpCount \in 0..Len(queue) /\ running + PumpCount <= MaxConcurrency
    BY PumpCountFacts DEF PoolInv
  <2>2. IsFiniteSet(taken) /\ Cardinality(taken) = PumpCount
    <3>1. PumpCount \in Nat /\ 1..PumpCount \subseteq 1..Len(queue)
      BY <2>1 DEF TypeOK
    <3>2. \A i, j \in 1..PumpCount : queue[i] = queue[j] => i = j
      BY <3>1 DEF PlaceInv, QueueInv
    <3>3. /\ \A i \in 1..PumpCount : queue[i] \in taken
          /\ \A x \in taken : \E i \in 1..PumpCount : queue[i] = x
      OBVIOUS
    <3> HIDE DEF taken
    <3> QED
      BY <3>1, <3>2, <3>3, DistinctEntriesCount
  <2>3. taken \subseteq queued
    BY <1>5, PumpSplits DEF PlaceInv
  <2>4. pooled \cap taken = {}
    BY <2>3 DEF PoolInv, PlaceInv, PlaceOf, TypeOK
  <2>5. pooled' = pooled \cup taken /\ running' = running + PumpCount
        /\ pc' = [r \in Runs |-> IF r \in taken THEN "claim" ELSE pc[r]]
    BY <1>5 DEF Pump
  <2> HIDE DEF taken
  <2>6. IsFiniteSet(pooled') /\ Cardinality(pooled') = Cardinality(pooled) + PumpCount
    <3>1. Cardinality(pooled \cap taken) = 0
      BY <2>4, FS_EmptySet
    <3>2. /\ IsFiniteSet(pooled \cup taken)
          /\ Cardinality(pooled \cup taken) =
                Cardinality(pooled) + Cardinality(taken) - Cardinality(pooled \cap taken)
      BY <2>2, FS_Union DEF PoolInv
    <3>3. Cardinality(pooled) \in Nat /\ PumpCount \in Nat
      BY <2>1, FS_CardinalityType DEF PoolInv, TypeOK
    <3> QED
      BY <2>2, <2>5, <3>1, <3>2, <3>3
  <2>7. \A r \in pooled' : pc'[r] # "idle"
    BY <2>5, <2>3 DEF PoolInv, TypeOK
  <2> QED
    BY <2>1, <2>5, <2>6, <2>7 DEF PoolInv
<1>6. CASE Restart \/ \E r \in Runs : DiesFinalizing(r)
  <2>1. ProcessEnds
    BY <1>6, Zenon DEF Restart, DiesFinalizing
  <2> QED
    BY <2>1, FS_EmptySet, ExecutorConstants DEF ProcessEnds, PoolInv
<1>7. CASE Shutdown \/ CloseStore
  BY <1>1, <1>7 DEF Shutdown, CloseStore, poolVars, workerVars, PoolInv
<1>8. CASE RecoveryStep \/ UNCHANGED vars
  <2>1. UNCHANGED <<running, pooled, pc>>
    BY <1>8, Zenon DEF RecoveryStep, GrowStale, HeartbeatTick, RecoverRow, RecoveryPoll,
                       RecoveryEnds, vars, poolVars, workerVars
  <2> QED
    BY <1>1, <2>1 DEF PoolInv
<1> QED
  BY <1>3, <1>4, <1>5, <1>6, <1>7, <1>8 DEF Next, ProcessStep

\* For every pool size: `running` counts the pooled calls and stays within maxConcurrency,
\* through pumps, restarts and shutdown; `queued` has exactly the ids of the queue, each once;
\* a run that waits has no call (SandboxExecutor.enqueue, kick, processRun's finally).
THEOREM PoolAlwaysConsistent == Spec => []PoolConsistent
<1>1. TypeOK /\ PlaceInv /\ PoolInv => PoolConsistent
  <2> SUFFICES ASSUME TypeOK, PlaceInv, PoolInv PROVE PoolConsistent
    OBVIOUS
  <2>1. queued = {queue[i] : i \in 1..Len(queue)}
    BY DEF PlaceInv, QueueInv
  <2>2. Cardinality(queued) = Len(queue)
    <3>1. Len(queue) \in Nat
      BY DEF TypeOK
    <3>2. /\ \A i \in 1..Len(queue) : queue[i] \in queued
          /\ \A x \in queued : \E i \in 1..Len(queue) : queue[i] = x
          /\ \A i, j \in 1..Len(queue) : queue[i] = queue[j] => i = j
      BY <2>1 DEF PlaceInv, QueueInv
    <3> QED
      BY <3>1, <3>2, DistinctEntriesCount
  <2>3. \A r \in queued : pc[r] = "idle"
    BY DEF TypeOK, PlaceInv, PlaceOf
  <2> QED
    BY <2>1, <2>2, <2>3 DEF PoolInv, PoolConsistent
<1> QED
  BY <1>1, TypeCorrect, PlaceInit, PlaceNext, PoolInit, PoolNext, PTL DEF Spec
============================================================================
