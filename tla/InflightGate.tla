---------------------------- MODULE InflightGate ----------------------------
(***************************************************************************)
(* The concurrency gate in front of the recall and write routes            *)
(* (util/inflight_gate.ts, acquired by app/request-guards.ts and released  *)
(* in the finally of each handler).                                        *)
(***************************************************************************)
EXTENDS Naturals, Sequences, FiniteSets

CONSTANTS Requests, MaxInflight, MaxQueue

ASSUME GateConstants ==
  /\ MaxInflight \in Nat \ {0}
  /\ MaxQueue \in Nat

VARIABLES
  inflight,  \* InflightGate.inflight
  queue,     \* InflightGate.queue, a waiter being named by its request
  phase      \* where each request is with its one acquire call

vars == <<inflight, queue, phase>>

Phases == {"new", "waiting", "holding", "released", "queue_full", "queue_timeout"}

Init ==
  /\ inflight = 0
  /\ queue = <<>>
  /\ phase = [q \in Requests |-> "new"]

Waiters == {queue[i] : i \in 1..Len(queue)}
Holders == {q \in Requests : phase[q] = "holding"}

\* acquire() with a free slot.
AcquireNow(q) ==
  /\ phase[q] = "new" /\ inflight < MaxInflight
  /\ inflight' = inflight + 1
  /\ phase' = [phase EXCEPT ![q] = "holding"]
  /\ UNCHANGED queue

\* acquire() with neither a slot nor room in the queue throws.
RejectFull(q) ==
  /\ phase[q] = "new" /\ inflight >= MaxInflight /\ Len(queue) >= MaxQueue
  /\ phase' = [phase EXCEPT ![q] = "queue_full"]
  /\ UNCHANGED <<inflight, queue>>

\* acquire() otherwise: queue a waiter and start its timer.
Wait(q) ==
  /\ phase[q] = "new" /\ inflight >= MaxInflight /\ Len(queue) < MaxQueue
  /\ queue' = Append(queue, q)
  /\ phase' = [phase EXCEPT ![q] = "waiting"]
  /\ UNCHANGED inflight

\* queue.splice(i, 1)
Spliced(i) ==
  [k \in 1..(Len(queue) - 1) |-> IF k < i THEN queue[k] ELSE queue[k + 1]]

\* The timer looks for a free slot instead of rejecting (a mutation of Timeout).
TimeoutIfFree(q) ==
  /\ inflight < MaxInflight
  /\ \E i \in 1..Len(queue) : queue[i] = q /\ queue' = Spliced(i)
  /\ phase' = [phase EXCEPT ![q] = "queue_timeout"]
  /\ UNCHANGED inflight

\* The timer of a waiter: splice it out of the queue and reject.  Handing a
\* slot over clears the timer, so it fires for queued waiters only.
Timeout(q) ==
  /\ \E i \in 1..Len(queue) : queue[i] = q /\ queue' = Spliced(i)
  /\ phase' = [phase EXCEPT ![q] = "queue_timeout"]
  /\ UNCHANGED inflight

\* The slot is both given up and handed over (a mutation of ReleaseSlot).
ReleaseSlotTwice(q) ==
  IF queue # <<>>
    THEN /\ phase' = [phase EXCEPT ![q] = "released", ![Head(queue)] = "holding"]
         /\ queue' = Tail(queue)
         /\ inflight' = inflight - 1
    ELSE /\ phase' = [phase EXCEPT ![q] = "released"]
         /\ inflight' = inflight - 1
         /\ UNCHANGED queue

\* The newest waiter is served first (a mutation of ReleaseSlot).
ReleaseSlotLast(q) ==
  IF queue # <<>>
    THEN /\ phase' = [phase EXCEPT ![q] = "released",
                                   ![queue[Len(queue)]] = "holding"]
         /\ queue' = SubSeq(queue, 1, Len(queue) - 1)
         /\ UNCHANGED inflight
    ELSE /\ phase' = [phase EXCEPT ![q] = "released"]
         /\ inflight' = inflight - 1
         /\ UNCHANGED queue

\* releaseSlot(): hand the slot to the oldest waiter, or give it up.
ReleaseSlot(q) ==
  \/ /\ queue # <<>>
     /\ phase' = [phase EXCEPT ![q] = "released", ![Head(queue)] = "holding"]
     /\ queue' = Tail(queue)
     /\ UNCHANGED inflight
  \/ /\ queue = <<>>
     /\ phase' = [phase EXCEPT ![q] = "released"]
     /\ inflight' = IF inflight > 0 THEN inflight - 1 ELSE 0
     /\ UNCHANGED queue

\* token.release(): a second call on the same token does nothing.
Release(q) == phase[q] = "holding" /\ ReleaseSlot(q)

Next ==
  \E q \in Requests :
    \/ AcquireNow(q) \/ RejectFull(q) \/ Wait(q) \/ Timeout(q) \/ Release(q)

Spec == Init /\ [][Next]_vars

\* The waiter's timer fires; nothing is asked of the holders.
Fairness == \A q \in Requests : WF_vars(Timeout(q))

LiveSpec == Spec /\ Fairness

----------------------------------------------------------------------------
\* Types of the gate's fields; the queue never exceeds maxQueue.
TypeOK ==
  /\ inflight \in Nat
  /\ queue \in Seq(Requests) /\ Len(queue) <= MaxQueue
  /\ phase \in [Requests -> Phases]

\* `inflight` counts the requests that hold a token, never more than
\* maxInflight, and a request waits only while every slot is taken: releasing
\* hands the slot over instead of losing or duplicating it.
SlotsAccounted ==
  /\ inflight = Cardinality(Holders)
  /\ inflight <= MaxInflight
  /\ queue # <<>> => inflight = MaxInflight

\* First come, first served: a waiter gets its token only when nobody who
\* was queued before it is still waiting.
NoOvertaking ==
  [][\A i, j \in 1..Len(queue) :
       i < j /\ phase'[queue[j]] = "holding" => phase'[queue[i]] # "waiting"]_vars

\* No waiter waits for ever, even behind a holder that never releases.
WaitersAreSettled ==
  \A q \in Requests : phase[q] = "waiting" ~> phase[q] # "waiting"
============================================================================
