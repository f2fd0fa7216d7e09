-------------------------- MODULE SandboxExecutor --------------------------
(***************************************************************************)
(* The sandbox executor of the Lite runtime: the rows of                   *)
(* memory_sandbox_runs and memory_sandbox_run_telemetry, the in-process    *)
(* queue and worker pool of memory/sandbox-executor.ts, the two routes     *)
(* that start and cancel runs, stale-run recovery, shutdown and restart.   *)
(*                                                                         *)
(* Node runs one callback at a time, so a step of this module is the code  *)
(* between two awaits (or one timer or event callback).                    *)
(***************************************************************************)
EXTENDS Naturals, Sequences, FiniteSets

CONSTANTS
  Runs,               \* run ids (a fresh UUID per execute request)
  Modes,              \* executor modes explored; one is fixed per behaviour
  MaxConcurrency,     \* config.maxConcurrency
  RecoveryBatchSize,  \* config.recoveryBatchSize
  ReliableHeartbeat,  \* a running heartbeat timer keeps updated_at fresh
  MaxRestarts,        \* bound: process restarts (crash or shutdown)
  MaxCancels          \* bound: cancel requests

ASSUME ExecutorConstants ==
  /\ Modes \subseteq {"mock", "local_process", "http_remote"}
  /\ MaxConcurrency \in Nat \ {0}
  /\ RecoveryBatchSize \in Nat \ {0}
  /\ ReliableHeartbeat \in BOOLEAN
  /\ MaxRestarts \in Nat
  /\ MaxCancels \in Nat

Terminal == {"succeeded", "failed", "canceled", "timeout"}
RunStatus == {"none", "queued", "running"} \cup Terminal

VARIABLES
  \* --- SQLite -----------------------------------------------------------
  status,          \* row status; "none": no row yet
  cancelRequested, \* rows with cancel_requested = 1
  stale,           \* running rows whose updated_at is older than staleAfterMs
  telemetry,       \* telemetry status of a run; "none": no telemetry row
  \* --- the process ------------------------------------------------------
  mode,            \* config.mode
  queue, queued,   \* SandboxExecutor.queue and .queued
  active,          \* keys of SandboxExecutor.active
  heartbeat,       \* keys of SandboxExecutor.heartbeatTimers
  running, pumping, shuttingDown,
  recovering,      \* recoveryInFlight
  staleRows,       \* rows the recovery pass in flight has still to handle
  storeOpen,       \* the store has not been closed
  route,           \* execute requests between insertRun and their hand-over
  signalling,      \* cancel requests between their commit and requestCancel
  \* --- one processRun call per run --------------------------------------
  pc,              \* "idle", "claim", "prepare", "exec" or "final"
  pooled,          \* the call was made by the pump, not by executeSync
  killed,          \* state.canceled of the run's ActiveRunState
  timedOut,        \* state.timedOut
  outcome,         \* the status finalize is called with
  \* --- bounds and history -----------------------------------------------
  restarts, cancels,
  starts,          \* times the command of the run was started
  early            \* runs canceled while "running" but before their command

dbVars == <<status, cancelRequested, stale, telemetry>>
poolVars == <<queue, queued, running, pumping>>
procVars == <<mode, shuttingDown, recovering, staleRows, storeOpen>>
workerVars == <<pc, pooled, killed, timedOut, outcome, active, heartbeat>>
routeVars == <<route, signalling>>
histVars == <<restarts, cancels, starts, early>>
vars == <<dbVars, poolVars, procVars, workerVars, routeVars, histVars>>

Init ==
  /\ status = [r \in Runs |-> "none"]
  /\ cancelRequested = {} /\ stale = {}
  /\ telemetry = [r \in Runs |-> "none"]
  /\ mode \in Modes
  /\ queue = <<>> /\ queued = {}
  /\ active = {} /\ heartbeat = {}
  /\ running = 0 /\ pumping = FALSE /\ shuttingDown = FALSE
  /\ recovering = FALSE /\ staleRows = {} /\ storeOpen = TRUE
  /\ route = [r \in Runs |-> "none"] /\ signalling = {}
  /\ pc = [r \in Runs |-> "idle"]
  /\ pooled = {} /\ killed = {} /\ timedOut = {}
  /\ outcome = [r \in Runs |-> "none"]
  /\ restarts = 0 /\ cancels = 0
  /\ starts = [r \in Runs |-> 0] /\ early = {}

----------------------------------------------------------------------------
(* Row updates shared by several operations.                               *)

\* recordSandboxRunTelemetryRow: INSERT ... ON CONFLICT(id) DO NOTHING.
RecordTelemetry(r, s) ==
  telemetry' = [telemetry EXCEPT ![r] = IF @ = "none" THEN s ELSE @]

\* finalizeRun: UPDATE ... WHERE id = ?, whatever the row's status is.
FinalizeRow(r, s) ==
  /\ status' = [status EXCEPT ![r] = s]
  /\ stale' = stale \ {r}

\* finalize: the row, then its telemetry.  They are two commits, as withClient
\* opens no transaction; no other callback runs in between, but the process may
\* die there (DiesFinalizing).
FinalizeRun(r, s) == FinalizeRow(r, s) /\ RecordTelemetry(r, s)

\* finalizeRunningRun: UPDATE ... WHERE id = ? AND status = 'running'.
FinalizeRunningRun(r, s) ==
  \/ status[r] = "running" /\ FinalizeRun(r, s)
  \/ status[r] # "running" /\ UNCHANGED <<status, stale, telemetry>>

----------------------------------------------------------------------------
(* The execute route: insert the row, then hand it over.                   *)

InsertRun(r, m) ==
  /\ storeOpen /\ status[r] = "none"
  /\ status' = [status EXCEPT ![r] = "queued"]
  /\ route' = [route EXCEPT ![r] = m]
  /\ UNCHANGED <<cancelRequested, stale, telemetry, signalling,
                 poolVars, procVars, workerVars, histVars>>

\* A kick that looks for a free slot before the ending call has given its own
\* back (a mutation of Kick).
KickIfSlotFree == pumping' = (pumping \/ (~shuttingDown /\ running < MaxConcurrency))

\* kick(): schedule one pump unless one is scheduled already.
Kick == pumping' = (pumping \/ ~shuttingDown)

\* A route that hands its run over without remembering it did (a mutation
\* of Enqueue).
EnqueueAgain(r) ==
  /\ route[r] = "async" /\ ~shuttingDown /\ r \notin queued
  /\ queue' = Append(queue, r)
  /\ queued' = queued \cup {r}
  /\ Kick
  /\ UNCHANGED <<running, route, dbVars, procVars, workerVars, histVars,
                 signalling>>

\* enqueue(runId)
Enqueue(r) ==
  /\ route[r] = "async"
  /\ route' = [route EXCEPT ![r] = "none"]
  /\ \/ /\ shuttingDown \/ r \in queued
        /\ UNCHANGED poolVars
     \/ /\ ~shuttingDown /\ r \notin queued
        /\ queue' = Append(queue, r)
        /\ queued' = queued \cup {r}
        /\ Kick
        /\ UNCHANGED running
  /\ UNCHANGED <<dbVars, procVars, workerVars, histVars, signalling>>

\* executeSync(runId): processRun without going through the pool.
ExecuteSync(r) ==
  /\ route[r] = "sync"
  /\ route' = [route EXCEPT ![r] = "none"]
  /\ pc' = [pc EXCEPT ![r] = "claim"]
  /\ UNCHANGED <<dbVars, poolVars, procVars, histVars, signalling,
                 pooled, killed, timedOut, outcome, active, heartbeat>>

----------------------------------------------------------------------------
(* The pump: the setImmediate callback kick() schedules.                   *)

\* Slots the loop may still fill.
FreeSlots == IF running < MaxConcurrency THEN MaxConcurrency - running ELSE 0

\* The loop guard with <= for < (a mutation of PumpCount).
PumpCountOneMore ==
  IF shuttingDown THEN 0
  ELSE IF Len(queue) <= FreeSlots + 1 THEN Len(queue) ELSE FreeSlots + 1

\* How many runs the while loop takes from the queue.
PumpCount ==
  IF shuttingDown THEN 0
  ELSE IF Len(queue) <= FreeSlots THEN Len(queue) ELSE FreeSlots

Pump ==
  LET taken == {queue[i] : i \in 1..PumpCount}
  IN  /\ pumping
      /\ pumping' = FALSE
      /\ queue' = SubSeq(queue, PumpCount + 1, Len(queue))
      /\ queued' = queued \ taken
      /\ running' = running + PumpCount
      /\ pc' = [r \in Runs |-> IF r \in taken THEN "claim" ELSE pc[r]]
      /\ pooled' = pooled \cup taken
      /\ UNCHANGED <<dbVars, procVars, routeVars, histVars,
                     killed, timedOut, outcome, active, heartbeat>>

\* The finally that stops the heartbeat is missing (a mutation of WorkerEnds).
WorkerEndsHeartbeatOn(r) ==
  /\ pc' = [pc EXCEPT ![r] = "idle"]
  /\ pooled' = pooled \ {r}
  /\ \/ /\ r \in pooled
        /\ running' = IF running > 0 THEN running - 1 ELSE 0
        /\ Kick
     \/ r \notin pooled /\ UNCHANGED <<running, pumping>>
  /\ UNCHANGED <<queue, queued, heartbeat>>

\* The end of a processRun call: the heartbeat stops; a pooled call's
\* finally() frees its slot and kicks the pump.
WorkerEnds(r) ==
  /\ pc' = [pc EXCEPT ![r] = "idle"]
  /\ heartbeat' = heartbeat \ {r}
  /\ pooled' = pooled \ {r}
  /\ \/ /\ r \in pooled
        /\ running' = IF running > 0 THEN running - 1 ELSE 0
        /\ Kick
     \/ r \notin pooled /\ UNCHANGED <<running, pumping>>
  /\ UNCHANGED <<queue, queued>>

----------------------------------------------------------------------------
(* processRun                                                              *)

\* claimQueuedRun, or else loadRunningRun.  The row returned carries the
\* cancel flag read here, which the rest of the call goes on using: a flagged
\* run is finalized at once, without a heartbeat.
ClaimRow(r) ==
  LET flagged == r \in cancelRequested IN
  /\ pc[r] = "claim" /\ storeOpen
  /\ status[r] \in {"queued", "running"}
  /\ status' = [status EXCEPT ![r] = "running"]
  /\ stale' = IF status[r] = "queued" THEN stale \ {r} ELSE stale
  /\ pc' = [pc EXCEPT ![r] = IF flagged THEN "final" ELSE "prepare"]
  /\ outcome' = [outcome EXCEPT ![r] = IF flagged THEN "canceled" ELSE @]
  /\ heartbeat' = IF flagged THEN heartbeat ELSE heartbeat \cup {r}
  /\ UNCHANGED <<cancelRequested, telemetry, poolVars, procVars, routeVars,
                 histVars, pooled, killed, timedOut, active>>

\* Neither queued nor running: processRun returns.
ClaimNothing(r) ==
  /\ pc[r] = "claim" /\ storeOpen
  /\ status[r] \notin {"queued", "running"}
  /\ WorkerEnds(r)
  /\ UNCHANGED <<dbVars, procVars, routeVars, histVars,
                 killed, timedOut, outcome, active>>

Claim(r) == ClaimRow(r) \/ ClaimNothing(r)

\* executeMock after its 25 ms sleep; parseCommandArgv or one of the gates
\* of executeRemote (url, host, CIDRs, DNS, private addresses) refusing.
PrepareEnds(r) ==
  /\ pc[r] = "prepare"
  /\ pc' = [pc EXCEPT ![r] = "final"]
  /\ outcome' = [outcome EXCEPT
                   ![r] = IF mode = "mock" THEN "succeeded" ELSE "failed"]
  /\ UNCHANGED <<dbVars, poolVars, procVars, routeVars, histVars,
                 pooled, killed, timedOut, active, heartbeat>>

\* After mkdir (or the DNS lookup) the command is started and the run enters
\* the active map, which is what requestCancel consults.
StartCommand(r) ==
  /\ pc[r] = "prepare" /\ mode # "mock"
  /\ pc' = [pc EXCEPT ![r] = "exec"]
  /\ active' = active \cup {r}
  /\ killed' = killed \ {r}
  /\ timedOut' = timedOut \ {r}
  /\ starts' = [starts EXCEPT ![r] = @ + 1]
  /\ UNCHANGED <<dbVars, poolVars, procVars, routeVars, restarts, cancels,
                 early, pooled, outcome, heartbeat>>

\* mkdir, spawn or a closed store throws inside an executeSync call: the
\* request fails and the row is left as it is.  In a pooled call nobody
\* handles the rejection and the process dies, which is Restart.
SyncThrows(r) ==
  /\ \/ pc[r] = "prepare" /\ mode = "local_process"
     \/ pc[r] \in {"claim", "final"} /\ ~storeOpen
  /\ r \notin pooled
  /\ WorkerEnds(r)
  /\ UNCHANGED <<dbVars, procVars, routeVars, histVars,
                 killed, timedOut, outcome, active>>

\* The timeout timer: mark and kill.
TimeoutFires(r) ==
  /\ pc[r] = "exec" /\ r \notin timedOut
  /\ timedOut' = timedOut \cup {r}
  /\ UNCHANGED <<dbVars, poolVars, procVars, routeVars, histVars,
                 pc, pooled, killed, outcome, active, heartbeat>>

\* What the command itself came to: its exit code or spawn error, or the
\* status of the remote executor's answer (normalised to a terminal one).
CommandResult ==
  IF mode = "http_remote" THEN Terminal ELSE {"succeeded", "failed"}

\* Timeout looked at before cancellation (a mutation of DecideStatus).
DecideTimeoutFirst(r, res) ==
  IF r \in timedOut THEN "timeout" ELSE IF r \in killed THEN "canceled" ELSE res

\* The status a finished command's run is finalized with: cancellation
\* first, then timeout, then the command's own result.
DecideStatus(r, res) ==
  IF r \in killed THEN "canceled" ELSE IF r \in timedOut THEN "timeout" ELSE res

\* 'close' event or remote answer: the run leaves the active map and its
\* status is decided.
CommandEnds(r) ==
  /\ pc[r] = "exec"
  /\ pc' = [pc EXCEPT ![r] = "final"]
  /\ active' = active \ {r}
  /\ \E res \in CommandResult :
       outcome' = [outcome EXCEPT ![r] = DecideStatus(r, res)]
  /\ UNCHANGED <<dbVars, poolVars, procVars, routeVars, histVars,
                 pooled, killed, timedOut, heartbeat>>

\* finalize(run.id, ...) and the end of the call.
Finalize(r) ==
  /\ pc[r] = "final" /\ storeOpen
  /\ FinalizeRun(r, outcome[r])
  /\ WorkerEnds(r)
  /\ UNCHANGED <<cancelRequested, procVars, routeVars, histVars,
                 killed, timedOut, outcome, active>>

----------------------------------------------------------------------------
(* Heartbeats and the recovery of stale runs.                              *)

\* staleAfterMs passes without a write to the row.
GrowStale(r) ==
  /\ status[r] = "running" /\ r \notin stale
  /\ ReliableHeartbeat => r \notin heartbeat
  /\ stale' = stale \cup {r}
  /\ UNCHANGED <<status, cancelRequested, telemetry, poolVars, procVars,
                 workerVars, routeVars, histVars>>

\* The heartbeat interval of a live call: touchRunningRun.
HeartbeatTick(r) ==
  /\ storeOpen /\ r \in heartbeat /\ r \in stale
  /\ stale' = stale \ {r}
  /\ UNCHANGED <<status, cancelRequested, telemetry, poolVars, procVars,
                 workerVars, routeVars, histVars>>

\* recoverStaleRuns up to its first await: list the oldest stale rows.
RecoveryPoll ==
  /\ storeOpen /\ ~shuttingDown /\ ~recovering
  /\ stale # {}
  /\ \E rows \in SUBSET stale :
       /\ \/ Cardinality(rows) = RecoveryBatchSize
          \/ rows = stale /\ Cardinality(rows) < RecoveryBatchSize
       /\ staleRows' = rows
  /\ recovering' = TRUE
  /\ UNCHANGED <<mode, shuttingDown, storeOpen,
                 dbVars, poolVars, workerVars, routeVars, histVars>>

\* One iteration of its loop: skip an active run, else finalizeIfRunning.
RecoverRow(r) ==
  /\ recovering /\ storeOpen /\ r \in staleRows
  /\ staleRows' = staleRows \ {r}
  /\ \/ r \in active /\ UNCHANGED <<status, stale, telemetry>>
     \/ r \notin active /\ FinalizeRunningRun(r, "timeout")
  /\ UNCHANGED <<cancelRequested, mode, shuttingDown, recovering, storeOpen,
                 poolVars, workerVars, routeVars, histVars>>

RecoveryEnds ==
  /\ recovering /\ staleRows = {}
  /\ recovering' = FALSE
  /\ UNCHANGED <<mode, shuttingDown, storeOpen, staleRows,
                 dbVars, poolVars, workerVars, routeVars, histVars>>

----------------------------------------------------------------------------
(* The cancel route: cancelSandboxRun in a transaction, then requestCancel *)
(* on the executor if the transaction saw the run running.                 *)

\* Any unfinished run is marked canceled (a mutation of CancelQueuedRun).
CancelUnfinishedRun(r) ==
  \/ /\ status[r] \notin Terminal
     /\ status' = [status EXCEPT ![r] = "canceled"]
     /\ RecordTelemetry(r, "canceled")
  \/ status[r] \in Terminal /\ UNCHANGED <<status, telemetry>>

\* cancelQueuedRun: UPDATE ... WHERE id = ? AND status = 'queued'.
CancelQueuedRun(r) ==
  \/ /\ status[r] = "queued"
     /\ status' = [status EXCEPT ![r] = "canceled"]
     /\ RecordTelemetry(r, "canceled")
  \/ status[r] # "queued" /\ UNCHANGED <<status, telemetry>>

CancelTx(r) ==
  /\ storeOpen /\ status[r] # "none" /\ cancels < MaxCancels
  /\ cancels' = cancels + 1
  /\ cancelRequested' = cancelRequested \cup {r}
  /\ stale' = stale \ {r}
  /\ CancelQueuedRun(r)
  /\ signalling' = IF status[r] = "running" THEN signalling \cup {r}
                                             ELSE signalling
  /\ early' = IF status[r] = "running" /\ pc[r] = "prepare"
                THEN early \cup {r} ELSE early
  /\ UNCHANGED <<poolVars, procVars, workerVars, route, restarts, starts>>

\* requestCancel(runId): only a run in the active map can be canceled; the
\* route ignores the answer.
RequestCancel(r) ==
  /\ r \in signalling
  /\ signalling' = signalling \ {r}
  /\ killed' = IF r \in active THEN killed \cup {r} ELSE killed
  /\ UNCHANGED <<dbVars, poolVars, procVars, route, histVars,
                 pc, pooled, timedOut, outcome, active, heartbeat>>

----------------------------------------------------------------------------
(* Shutdown and restart.                                                   *)

\* shutdown(): cancel what is active, forget the queue, stop the timers.
Shutdown ==
  /\ ~shuttingDown /\ restarts < MaxRestarts
  /\ shuttingDown' = TRUE
  /\ heartbeat' = {}
  /\ killed' = killed \cup active
  /\ active' = {}
  /\ queue' = <<>> /\ queued' = {}
  /\ UNCHANGED <<dbVars, mode, recovering, staleRows, storeOpen, running,
                 pumping, pc, pooled, timedOut, outcome, routeVars, histVars>>

\* The onClose hook goes on to close the stores.
CloseStore ==
  /\ shuttingDown /\ storeOpen
  /\ storeOpen' = FALSE
  /\ UNCHANGED <<dbVars, poolVars, mode, shuttingDown, recovering, staleRows,
                 workerVars, routeVars, histVars>>

\* The process ends and a new one starts on the same database with a new,
\* empty SandboxExecutor.
ProcessEnds ==
  /\ restarts < MaxRestarts
  /\ restarts' = restarts + 1
  /\ queue' = <<>> /\ queued' = {} /\ running' = 0 /\ pumping' = FALSE
  /\ shuttingDown' = FALSE /\ recovering' = FALSE /\ staleRows' = {}
  /\ storeOpen' = TRUE
  /\ pc' = [r \in Runs |-> "idle"]
  /\ pooled' = {} /\ killed' = {} /\ timedOut' = {}
  /\ outcome' = [r \in Runs |-> "none"]
  /\ active' = {} /\ heartbeat' = {}
  /\ route' = [r \in Runs |-> "none"] /\ signalling' = {}
  /\ UNCHANGED <<mode, cancels, starts, early>>

\* A crash, or the exit after shutdown.
Restart == ProcessEnds /\ UNCHANGED dbVars

\* A finalize of r is under way, by the call of r or by the recovery pass.
Finalizing(r, s) ==
  \/ pc[r] = "final" /\ s = outcome[r]
  \/ recovering /\ r \in staleRows \ active /\ status[r] = "running" /\ s = "timeout"

\* The crash falls between the two commits of a finalize: the row is final and
\* nothing will ever write its telemetry.
DiesFinalizing(r) ==
  /\ storeOpen
  /\ \E s \in Terminal : Finalizing(r, s) /\ FinalizeRow(r, s)
  /\ ProcessEnds
  /\ UNCHANGED <<cancelRequested, telemetry>>

----------------------------------------------------------------------------
WorkerStep(r) ==
  \/ Claim(r) \/ PrepareEnds(r) \/ StartCommand(r) \/ SyncThrows(r)
  \/ TimeoutFires(r) \/ CommandEnds(r) \/ Finalize(r)

RouteStep(r) ==
  \/ \E m \in {"sync", "async"} : InsertRun(r, m)
  \/ Enqueue(r) \/ ExecuteSync(r)
  \/ CancelTx(r) \/ RequestCancel(r)

RecoveryStep ==
  \/ \E r \in Runs : GrowStale(r) \/ HeartbeatTick(r) \/ RecoverRow(r)
  \/ RecoveryPoll \/ RecoveryEnds

ProcessStep ==
  \/ Pump \/ Shutdown \/ CloseStore \/ Restart
  \/ \E r \in Runs : DiesFinalizing(r)

Next ==
  \/ \E r \in Runs : WorkerStep(r) \/ RouteStep(r)
  \/ RecoveryStep
  \/ ProcessStep

Spec == Init /\ [][Next]_vars

(***************************************************************************)
(* What the event loop guarantees: a scheduled callback runs, a claimed    *)
(* run's awaits settle, the timeout timer fires and a killed command       *)
(* closes, time passes, the recovery interval keeps polling, and a closed  *)
(* process is followed by a new one.  Clients owe nothing.                 *)
(***************************************************************************)
Fairness ==
  /\ WF_vars(Pump)
  /\ \A r \in Runs :
       /\ WF_vars(Enqueue(r)) /\ WF_vars(ExecuteSync(r))
       /\ WF_vars(Claim(r))
       /\ WF_vars(PrepareEnds(r) \/ StartCommand(r) \/ SyncThrows(r))
       /\ WF_vars(TimeoutFires(r))
       /\ WF_vars(r \in timedOut \cup killed /\ CommandEnds(r))
       /\ WF_vars(Finalize(r))
       /\ WF_vars(GrowStale(r)) /\ WF_vars(RecoverRow(r))
  /\ WF_vars(RecoveryPoll) /\ WF_vars(RecoveryEnds)
  /\ WF_vars(CloseStore) /\ WF_vars(~storeOpen /\ Restart)

LiveSpec == Spec /\ Fairness

----------------------------------------------------------------------------
(* Properties                                                              *)

FlagsOK ==
  /\ pumping \in BOOLEAN /\ shuttingDown \in BOOLEAN
  /\ recovering \in BOOLEAN /\ storeOpen \in BOOLEAN

\* Every variable has its type; a run is finalized with a terminal status
\* only (sandbox-executor.ts normalises what a remote executor answers).
TypeOK ==
  /\ status \in [Runs -> RunStatus]
  /\ cancelRequested \subseteq Runs /\ stale \subseteq Runs
  /\ telemetry \in [Runs -> Terminal \cup {"none"}]
  /\ mode \in Modes
  /\ queue \in Seq(Runs) /\ queued \subseteq Runs
  /\ active \subseteq Runs /\ heartbeat \subseteq Runs
  /\ running \in Nat /\ FlagsOK /\ staleRows \subseteq Runs
  /\ route \in [Runs -> {"none", "sync", "async"}]
  /\ signalling \subseteq Runs
  /\ pc \in [Runs -> {"idle", "claim", "prepare", "exec", "final"}]
  /\ pooled \subseteq Runs /\ killed \subseteq Runs /\ timedOut \subseteq Runs
  /\ outcome \in [Runs -> Terminal \cup {"none"}]
  /\ restarts \in 0..MaxRestarts /\ cancels \in 0..MaxCancels
  /\ starts \in [Runs -> Nat] /\ early \subseteq Runs

\* The pool's bookkeeping: `running` counts the live pooled processRun calls
\* and never exceeds maxConcurrency; `queued` holds exactly the ids in
\* `queue`, each once; a queued run has no call yet.
PoolConsistent ==
  /\ running = Cardinality(pooled)
  /\ running <= MaxConcurrency
  /\ \A r \in pooled : pc[r] # "idle"
  /\ queued = {queue[i] : i \in 1..Len(queue)}
  /\ Cardinality(queued) = Len(queue)
  /\ \A r \in queued : pc[r] = "idle"

\* No lost wakeup: while runs wait and a slot is free, a pump is scheduled
\* (kick() after every enqueue and after every finished call).
NoLostWakeup ==
  queue # <<>> /\ running < MaxConcurrency /\ ~shuttingDown => pumping

\* The command of a run is started at most once, over all restarts: a claimed
\* row is never claimed again and nothing re-enqueues a run.
StartedAtMostOnce == \A r \in Runs : starts[r] <= 1

\* Finished runs whose telemetry was never written.
Unrecorded == {r \in Runs : status[r] \in Terminal /\ telemetry[r] = "none"}

\* The run row and its telemetry row agree: telemetry exists for finished runs
\* only and shows the status the run row shows, although one is an
\* unconditional UPDATE and the other an INSERT that the first writer wins.
\* A finished run has its telemetry, but for one run at most per crash: the
\* one whose finalize the crash cut in two.
TelemetryAgrees ==
  /\ \A r \in Runs : telemetry[r] # "none" => /\ status[r] \in Terminal
                                             /\ telemetry[r] = status[r]
  /\ Cardinality(Unrecorded) <= restarts

\* A command killed by requestCancel (or by shutdown) while in the active map
\* is never reported as anything but canceled, whatever its exit code, its
\* timeout timer or the remote answer say.
KilledRunEndsCanceled ==
  \A r \in killed : pc[r] = "idle" /\ status[r] \in Terminal => status[r] = "canceled"

\* A running row does not stay running: its worker finishes it, or the worker
\* is gone (crash, shutdown, thrown error), its heartbeat is gone with it and
\* stale recovery finishes it.
RunningEventuallyFinishes ==
  \A r \in Runs : status[r] = "running" ~> status[r] \in Terminal

\* Every accepted run comes to an end in a process that neither shuts down nor
\* dies; a restarted process does not take up the rows left as queued.
AcceptedEventuallyFinishes ==
  \A r \in Runs :
    status[r] = "queued" ~> status[r] \in Terminal \/ shuttingDown \/ restarts > 0

\* The API documents cancel as "Cancel a queued or active run": a run whose
\* cancel request was accepted while its row was running and before its
\* command was started does not end as succeeded.
CanceledBeforeStartDoesNotSucceed ==
  \A r \in early : status[r] # "succeeded"

----------------------------------------------------------------------------
(* The run's life as its clients see it, in module SandboxRunLifecycle.    *)
Lifecycle == INSTANCE SandboxRunLifecycle

\* Executor, routes, recovery and restarts together implement that life.
ImplementsLifecycle == Lifecycle!Spec
============================================================================
