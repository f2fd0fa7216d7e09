------------------------ MODULE SandboxRunLifecycle ------------------------
(***************************************************************************)
(* What a client of the sandbox routes may see of its runs: the status of  *)
(* the run row, the cancel_requested flag and the telemetry row.           *)
(***************************************************************************)
CONSTANT Runs
VARIABLES status, cancelRequested, telemetry

rowVars == <<status, cancelRequested, telemetry>>
Finished == {"succeeded", "failed", "canceled", "timeout"}

Init ==
  /\ status = [r \in Runs |-> "none"]
  /\ cancelRequested = {}
  /\ telemetry = [r \in Runs |-> "none"]

\* An execute request is accepted.
Accept(r) ==
  /\ status[r] = "none"
  /\ status' = [status EXCEPT ![r] = "queued"]
  /\ UNCHANGED <<cancelRequested, telemetry>>

\* The executor takes the run.
Take(r) ==
  /\ status[r] = "queued"
  /\ status' = [status EXCEPT ![r] = "running"]
  /\ UNCHANGED <<cancelRequested, telemetry>>

\* A running run ends, once; its telemetry is written with it, or, if a crash
\* comes between the two, never.
Finish(r, s) ==
  /\ status[r] = "running"
  /\ status' = [status EXCEPT ![r] = s]
  /\ telemetry' \in {telemetry, [telemetry EXCEPT ![r] = s]}
  /\ UNCHANGED cancelRequested

\* A cancel request ends a queued run and only marks any other.
Cancel(r) ==
  /\ status[r] # "none"
  /\ cancelRequested' = cancelRequested \cup {r}
  /\ IF status[r] = "queued"
       THEN /\ status' = [status EXCEPT ![r] = "canceled"]
            /\ telemetry' = [telemetry EXCEPT ![r] = "canceled"]
       ELSE UNCHANGED <<status, telemetry>>

Next ==
  \E r \in Runs :
    \/ Accept(r) \/ Take(r) \/ Cancel(r)
    \/ \E s \in Finished : Finish(r, s)

Spec == Init /\ [][Next]_rowVars
============================================================================
