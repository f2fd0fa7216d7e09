----------------------------- MODULE Admission -----------------------------
(***************************************************************************)
(* What a request passes before its handler runs: the rate limits of its   *)
(* route, one after the other, then the in-flight gate of its kind.  Every *)
(* route calls enforceRateLimit (recall_text, planning_context and         *)
(* context_assemble also enforceRecallTextEmbedQuota) and then             *)
(* acquireInflightSlot, and releases the token in a finally.  The requests *)
(* of this module share one gate: the write gate and the recall gate have  *)
(* nothing in common.                                                      *)
(***************************************************************************)
EXTENDS InflightGate

CONSTANTS
  Calls,       \* calls of enforceRateLimit and enforceRecallTextEmbedQuota
  CallsOf,     \* the calls of each request, in order; a loopback request under
               \* RATE_LIMIT_BYPASS_LOOPBACK skips enforceRateLimit only
  Surfaces,    \* requests of planning_context and context_assemble
  Limiters, Clients, LimiterOf, ClientOf, Waits, Rate, Burst, Cost, TtlMs, SweepEveryN, MaxWaitMs,
  MaxTime      \* see RateLimit

VARIABLES now, buckets, sweeps, guard, sleep, granted,  \* see RateLimit
          thrown   \* requests that threw between acquire and their try

Limits == INSTANCE RateLimit WITH Requests <- Calls, phase <- guard

ASSUME CallsAreOwn ==
  /\ CallsOf \in [Requests -> Seq(Calls)]
  /\ \A p, q \in Requests :
       \A i \in DOMAIN CallsOf[p], j \in DOMAIN CallsOf[q] :
         CallsOf[p][i] = CallsOf[q][j] => p = q /\ i = j

ASSUME LimitConstants == Limits!RateConstants /\ Limits!TtlCoversBurst

limitVars == <<now, buckets, sweeps, guard, sleep, granted>>
allVars == <<vars, limitVars, thrown>>

AdmissionInit == Init /\ Limits!Init /\ thrown = {}

\* The call at place i of the request is next, every earlier one let it pass.
Due(q, i) ==
  i \in DOMAIN CallsOf[q] /\ \A j \in 1..(i - 1) : guard[CallsOf[q][j]] = "allowed"

\* Every limit let the request pass: it reaches acquireInflightSlot.
Admitted(q) == \A i \in DOMAIN CallsOf[q] : guard[CallsOf[q][i]] = "allowed"

Enforce(q) ==
  /\ \E i \in DOMAIN CallsOf[q] :
       Due(q, i) /\ (Limits!FirstCheck(CallsOf[q][i]) \/ Limits!SecondCheck(CallsOf[q][i]))
  /\ UNCHANGED <<vars, thrown>>

\* acquireInflightSlot
Enter(q) ==
  /\ Admitted(q)
  /\ AcquireNow(q) \/ RejectFull(q) \/ Wait(q)
  /\ UNCHANGED <<limitVars, thrown>>

WaitEnds(q) == Timeout(q) /\ UNCHANGED <<limitVars, thrown>>

\* planning_context and context_assemble parse the optimised request, plan its
\* verification and parse its evidence after acquire and before their try; what
\* throws there, as a validation that is too long for a verification request
\* does, answers the request without releasing its slot.
ThrowBeforeTry(q) ==
  /\ q \in Surfaces \ thrown /\ phase[q] = "holding"
  /\ thrown' = thrown \cup {q}
  /\ UNCHANGED <<vars, limitVars>>

\* The finally of the handler.
Finish(q) == q \notin thrown /\ Release(q) /\ UNCHANGED <<limitVars, thrown>>

Tick == Limits!Tick /\ UNCHANGED <<vars, thrown>>

AdmissionNext ==
  \/ Tick
  \/ \E q \in Requests :
       Enforce(q) \/ Enter(q) \/ WaitEnds(q) \/ ThrowBeforeTry(q) \/ Finish(q)

AdmissionSpec == AdmissionInit /\ [][AdmissionNext]_allVars

\* The timers of the queued; nothing is asked of callers and handlers.
AdmissionFairness == \A q \in Requests : WF_allVars(WaitEnds(q))

AdmissionLiveSpec == AdmissionSpec /\ AdmissionFairness

----------------------------------------------------------------------------
\* Whatever the gate does to a request, its client has been granted a token for
\* each of its calls: in every window of time a client is granted at most the
\* burst plus what the window refills, sweeps and sleepers included.
WithinBudget == Limits!WithinBudget

\* A caller that slept for the whole retry_after_ms is refused only if others
\* took tokens meanwhile: the hint is long enough.
RetryAfterIsEnough == Limits!RetryAfterIsEnough

\* A slot is in use only for a request that is still being handled: the gate is
\* back-pressure of the load, and refuses nobody when nothing runs.
SlotsAreInFlight == inflight = Cardinality(Holders \ thrown)
============================================================================
