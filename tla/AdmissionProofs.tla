-------------------------- MODULE AdmissionProofs --------------------------
(***************************************************************************)
(* What the gate and the limits guarantee on their own they still          *)
(* guarantee composed, and the budget of the limits, for every number of   *)
(* requests, clients and limiters and for every rate.                      *)
(***************************************************************************)
EXTENDS Admission, FiniteSetTheorems, SequenceTheorems, TLAPS

(***************************************************************************)
(* The gate on its own.                                                    *)
(***************************************************************************)

\* Whoever is queued is waiting, and is queued once.  Without this a slot
\* handed over could go to a request that already holds one, and `inflight`
\* would no longer count the holders.
QueueOfWaiters ==
  /\ \A i \in 1..Len(queue) : phase[queue[i]] = "waiting"
  /\ \A i, j \in 1..Len(queue) : queue[i] = queue[j] => i = j

\* The inductive invariant.
GateInv == TypeOK /\ IsFiniteSet(Holders) /\ SlotsAccounted /\ QueueOfWaiters

LEMMA GateInit == Init => GateInv
<1> SUFFICES ASSUME Init PROVE GateInv
  OBVIOUS
<1>1. Holders = {}
  BY DEF Init, Holders
<1>2. IsFiniteSet(Holders) /\ Cardinality(Holders) = 0
  BY <1>1, FS_EmptySet
<1> QED
  BY <1>2, GateConstants
  DEF Init, GateInv, TypeOK, Phases, SlotsAccounted, QueueOfWaiters

\* A splice removes one entry and keeps the order of the others.
LEMMA SplicedFacts ==
  ASSUME queue \in Seq(Requests), NEW i \in 1..Len(queue)
  PROVE  /\ Spliced(i) \in Seq(Requests)
         /\ Len(Spliced(i)) = Len(queue) - 1
         /\ \A k \in 1..Len(Spliced(i)) :
              Spliced(i)[k] = IF k < i THEN queue[k] ELSE queue[k + 1]
<1>1. Len(queue) - 1 \in Nat
  OBVIOUS
<1>2. \A k \in 1..(Len(queue) - 1) :
        (IF k < i THEN queue[k] ELSE queue[k + 1]) \in Requests
  BY <1>1, ElementOfSeq
<1>3. Spliced(i) \in [1..(Len(queue) - 1) -> Requests]
  BY <1>2 DEF Spliced
<1>4. Spliced(i) \in Seq(Requests) /\ Len(Spliced(i)) = Len(queue) - 1
  BY <1>1, <1>3, SeqDef, LenProperties
<1> QED
  BY <1>4 DEF Spliced

LEMMA TypeStep == TypeOK /\ QueueOfWaiters /\ [Next]_vars => TypeOK'
<1> SUFFICES ASSUME TypeOK, QueueOfWaiters, [Next]_vars PROVE TypeOK'
  OBVIOUS
<1> USE GateConstants DEF TypeOK, Phases
<1>1. ASSUME NEW q \in Requests, AcquireNow(q) \/ RejectFull(q) PROVE TypeOK'
  BY <1>1 DEF AcquireNow, RejectFull
<1>2. ASSUME NEW q \in Requests, Wait(q) PROVE TypeOK'
  <2>1. Append(queue, q) \in Seq(Requests) /\ Len(Append(queue, q)) = Len(queue) + 1
    BY AppendProperties
  <2> QED
    BY <1>2, <2>1 DEF Wait
<1>3. ASSUME NEW q \in Requests, Timeout(q) PROVE TypeOK'
  BY <1>3, SplicedFacts DEF Timeout
<1>4. ASSUME NEW q \in Requests, Release(q) PROVE TypeOK'
  <2>1. CASE queue # <<>>
    <3>1. Tail(queue) \in Seq(Requests) /\ Len(Tail(queue)) = Len(queue) - 1
      BY <2>1, HeadTailProperties
    <3>2. Head(queue) \in Requests
      BY <2>1, HeadTailProperties
    <3>3. /\ phase' = [phase EXCEPT ![q] = "released", ![Head(queue)] = "holding"]
          /\ queue' = Tail(queue) /\ inflight' = inflight
      BY <1>4, <2>1 DEF Release, ReleaseSlot
    <3>4. phase' \in [Requests -> Phases]
      BY <3>2, <3>3
    <3>5. Len(queue') <= MaxQueue
      BY <3>1, <3>3
    <3> QED
      BY <3>1, <3>3, <3>4, <3>5
  <2>2. CASE queue = <<>>
    BY <1>4, <2>2 DEF Release, ReleaseSlot
  <2> QED
    BY <2>1, <2>2
<1>5. CASE UNCHANGED vars
  BY <1>5 DEF vars
<1> QED
  BY <1>1, <1>2, <1>3, <1>4, <1>5 DEF Next

LEMMA GateStep == GateInv /\ [Next]_vars => GateInv'
<1> SUFFICES ASSUME GateInv, [Next]_vars PROVE GateInv'
  OBVIOUS
<1>0. TypeOK'
  BY TypeStep DEF GateInv
<1>a. /\ queue \in Seq(Requests) /\ Len(queue) \in Nat /\ inflight \in Nat
      /\ phase \in [Requests -> Phases]
      /\ MaxInflight \in Nat \ {0}
  BY GateConstants DEF GateInv, TypeOK
<1>b. \A i \in 1..Len(queue) : queue[i] \in Requests
  BY <1>a, ElementOfSeq
<1>1. ASSUME NEW q \in Requests, AcquireNow(q) PROVE GateInv'
  <2>1. Holders' = Holders \cup {q} /\ q \notin Holders
    BY <1>1, <1>a DEF AcquireNow, Holders
  <2>2. IsFiniteSet(Holders') /\ Cardinality(Holders') = Cardinality(Holders) + 1
    BY <2>1, FS_AddElement DEF GateInv
  <2>3. queue = <<>>
    BY <1>1, <1>a DEF AcquireNow, GateInv, SlotsAccounted
  <2> QED
    BY <1>0, <1>1, <1>a, <2>2, <2>3
    DEF GateInv, SlotsAccounted, QueueOfWaiters, AcquireNow
<1>2. ASSUME NEW q \in Requests, RejectFull(q) PROVE GateInv'
  <2>1. Holders' = Holders
    BY <1>2, <1>a DEF RejectFull, Holders
  <2> QED
    BY <1>0, <1>2, <1>a, <1>b, <2>1
    DEF GateInv, SlotsAccounted, QueueOfWaiters, RejectFull
<1>3. ASSUME NEW q \in Requests, Wait(q) PROVE GateInv'
  <2>1. Holders' = Holders
    BY <1>3, <1>a DEF Wait, Holders
  <2>2. /\ Len(queue') = Len(queue) + 1
        /\ \A i \in 1..Len(queue) : queue'[i] = queue[i]
        /\ queue'[Len(queue) + 1] = q
    BY <1>3, <1>a, AppendProperties DEF Wait
  <2>3. SlotsAccounted'
    BY <1>3, <1>a, <2>1 DEF GateInv, SlotsAccounted, Wait
  <2>4. \A i \in 1..Len(queue) : queue[i] # q
    BY <1>3 DEF Wait, GateInv, QueueOfWaiters
  <2>5. QueueOfWaiters'
    BY <1>3, <1>a, <1>b, <2>2, <2>4 DEF GateInv, QueueOfWaiters, Wait
  <2> QED
    BY <1>0, <2>1, <2>3, <2>5 DEF GateInv
<1>4. ASSUME NEW q \in Requests, Timeout(q) PROVE GateInv'
  <2>1. PICK i \in 1..Len(queue) : queue[i] = q /\ queue' = Spliced(i)
    BY <1>4 DEF Timeout
  <2>2. phase' = [phase EXCEPT ![q] = "queue_timeout"] /\ inflight' = inflight
    BY <1>4 DEF Timeout
  <2>3. phase[q] = "waiting"
    BY <2>1 DEF GateInv, QueueOfWaiters
  <2>4. Holders' = Holders
    BY <1>a, <2>2, <2>3 DEF Holders
  <2>5. /\ Len(queue') = Len(queue) - 1
        /\ \A k \in 1..Len(queue') :
             queue'[k] = IF k < i THEN queue[k] ELSE queue[k + 1]
    BY <1>a, <2>1, SplicedFacts
  <2>6. queue' # <<>> => queue # <<>>
    BY <1>a, <2>1
  <2>7. SlotsAccounted'
    BY <2>2, <2>4, <2>6 DEF GateInv, SlotsAccounted
  <2>8. \A k \in 1..Len(queue') : queue'[k] # q /\ phase'[queue'[k]] = "waiting"
    <3> SUFFICES ASSUME NEW k \in 1..Len(queue')
                 PROVE  queue'[k] # q /\ phase'[queue'[k]] = "waiting"
      OBVIOUS
    <3>1. PICK j \in 1..Len(queue) : j # i /\ queue'[k] = queue[j]
      <4>1. CASE k < i
        BY <1>a, <2>5, <4>1
      <4>2. CASE ~(k < i)
        <5>1. k + 1 \in 1..Len(queue) /\ k + 1 # i
          BY <1>a, <2>5, <4>2
        <5> QED
          BY <2>5, <4>2, <5>1
      <4> QED
        BY <4>1, <4>2
    <3>2. queue[j] # q /\ phase[queue[j]] = "waiting" /\ queue[j] \in Requests
      BY <1>b, <2>1, <3>1 DEF GateInv, QueueOfWaiters
    <3> QED
      BY <1>a, <2>2, <3>1, <3>2
  <2>9. \A k, l \in 1..Len(queue') : queue'[k] = queue'[l] => k = l
    BY <1>a, <2>1, <2>5 DEF GateInv, QueueOfWaiters
  <2> QED
    BY <1>0, <2>4, <2>7, <2>8, <2>9 DEF GateInv, QueueOfWaiters
<1>5. ASSUME NEW q \in Requests, Release(q) PROVE GateInv'
  <2>1. CASE queue # <<>>
    <3> DEFINE h == queue[1]
    <3>1. /\ Head(queue) = h /\ 1 \in 1..Len(queue)
          /\ Len(queue') = Len(queue) - 1
          /\ \A k \in 1..Len(queue') : queue'[k] = queue[k + 1]
      BY <1>5, <1>a, <2>1, HeadTailProperties DEF Release, ReleaseSlot
    <3>2. h \in Requests /\ phase[h] = "waiting" /\ phase[q] = "holding"
      BY <1>5, <1>b, <3>1 DEF Release, GateInv, QueueOfWaiters
    <3>3. /\ phase' = [phase EXCEPT ![q] = "released", ![h] = "holding"]
          /\ inflight' = inflight
      BY <1>5, <2>1, <3>1 DEF Release, ReleaseSlot
    <3>4. /\ Holders' = (Holders \ {q}) \cup {h}
          /\ q \in Holders /\ h \notin Holders
      BY <1>a, <3>2, <3>3 DEF Holders
    <3>5. IsFiniteSet(Holders \ {q}) /\ Cardinality(Holders \ {q}) = Cardinality(Holders) - 1
      BY <3>4, FS_RemoveElement DEF GateInv
    <3>6. IsFiniteSet(Holders') /\ Cardinality(Holders') = Cardinality(Holders)
      <4>1. h \notin Holders \ {q}
        BY <3>4
      <4>2. Cardinality(Holders) \in Nat
        BY FS_CardinalityType DEF GateInv
      <4> QED
        BY <3>4, <3>5, <4>1, <4>2, FS_AddElement
    <3>7. SlotsAccounted'
      BY <2>1, <3>3, <3>6 DEF GateInv, SlotsAccounted
    <3>8. \A k \in 1..Len(queue') : queue'[k] # h /\ queue'[k] # q
      BY <1>a, <3>1, <3>2 DEF GateInv, QueueOfWaiters
    <3>9. QueueOfWaiters'
      <4>1. ASSUME NEW k \in 1..Len(queue') PROVE phase'[queue'[k]] = "waiting"
        <5>1. k + 1 \in 1..Len(queue) /\ queue'[k] = queue[k + 1]
          BY <1>a, <3>1
        <5>2. queue[k + 1] \in Requests /\ phase[queue[k + 1]] = "waiting"
          BY <1>b, <5>1 DEF GateInv, QueueOfWaiters
        <5>3. queue[k + 1] # h /\ queue[k + 1] # q
          BY <3>8, <5>1
        <5> QED
          BY <1>a, <3>3, <5>1, <5>2, <5>3
      <4>2. ASSUME NEW k \in 1..Len(queue'), NEW l \in 1..Len(queue'),
                   queue'[k] = queue'[l]
            PROVE  k = l
        <5>1. k + 1 \in 1..Len(queue) /\ l + 1 \in 1..Len(queue)
          BY <1>a, <3>1
        <5>2. queue[k + 1] = queue[l + 1]
          BY <3>1, <4>2
        <5>3. k + 1 = l + 1
          BY <5>1, <5>2 DEF GateInv, QueueOfWaiters
        <5> QED
          BY <5>3
      <4> QED
        BY <4>1, <4>2 DEF QueueOfWaiters
    <3> QED
      BY <1>0, <3>6, <3>7, <3>9 DEF GateInv
  <2>2. CASE queue = <<>>
    <3>1. /\ phase' = [phase EXCEPT ![q] = "released"] /\ queue' = queue
          /\ inflight' = IF inflight > 0 THEN inflight - 1 ELSE 0
      BY <1>5, <2>2 DEF Release, ReleaseSlot
    <3>2. Holders' = Holders \ {q} /\ q \in Holders
      BY <1>5, <1>a, <3>1 DEF Release, Holders
    <3>3. /\ IsFiniteSet(Holders')
          /\ Cardinality(Holders') = Cardinality(Holders) - 1
      BY <3>2, FS_RemoveElement DEF GateInv
    <3>4. Cardinality(Holders') \in Nat
      BY <3>3, FS_CardinalityType
    <3>5. SlotsAccounted'
      BY <1>a, <2>2, <3>1, <3>3, <3>4 DEF GateInv, SlotsAccounted
    <3>6. QueueOfWaiters'
      BY <2>2, <3>1 DEF QueueOfWaiters
    <3> QED
      BY <1>0, <3>3, <3>5, <3>6 DEF GateInv
  <2> QED
    BY <2>1, <2>2
<1>6. CASE UNCHANGED vars
  BY <1>0, <1>6 DEF vars, GateInv, Holders, SlotsAccounted, QueueOfWaiters
<1> QED
  BY <1>1, <1>2, <1>3, <1>4, <1>5, <1>6 DEF Next

\* Every slot the gate counts is held by exactly one request, at most
\* maxInflight are, and nobody waits while one is free.
THEOREM GateAccountsForSlots == Spec => []SlotsAccounted
<1>1. GateInv => SlotsAccounted
  BY DEF GateInv
<1> QED
  BY GateInit, GateStep, <1>1, PTL DEF Spec

\* A waiter gets a slot only from the head of the queue: whoever was queued
\* before it has been served, or has given up.
THEOREM WaitersAreServedInOrder == Spec => NoOvertaking
<1>1. ASSUME GateInv, [Next]_vars, NEW i \in 1..Len(queue), NEW j \in 1..Len(queue),
             i < j, phase'[queue[j]] = "holding"
      PROVE  FALSE
  <2>1. /\ queue \in Seq(Requests) /\ phase \in [Requests -> Phases]
        /\ \A k \in 1..Len(queue) : queue[k] \in Requests /\ phase[queue[k]] = "waiting"
        /\ \A k, l \in 1..Len(queue) : queue[k] = queue[l] => k = l
    BY <1>1, ElementOfSeq DEF GateInv, TypeOK, QueueOfWaiters
  <2>2. queue # <<>>
    BY <1>1, <2>1
  <2>3. PICK q \in Requests : Release(q)
    <3>1. ASSUME NEW q \in Requests, AcquireNow(q) \/ RejectFull(q) \/ Wait(q)
          PROVE  FALSE
      BY <1>1, <2>1, <3>1 DEF AcquireNow, RejectFull, Wait
    <3>2. ASSUME NEW q \in Requests, Timeout(q) PROVE FALSE
      BY <1>1, <2>1, <3>2 DEF Timeout
    <3>3. ~UNCHANGED vars
      BY <1>1, <2>1 DEF vars
    <3> QED
      BY <1>1, <3>1, <3>2, <3>3 DEF Next
  <2>4. phase' = [phase EXCEPT ![q] = "released", ![Head(queue)] = "holding"]
    BY <2>2, <2>3 DEF Release, ReleaseSlot
  <2>5. Head(queue) = queue[1] /\ 1 \in 1..Len(queue)
    BY <2>1, <2>2, HeadTailProperties
  <2>6. queue[j] = queue[1]
    BY <1>1, <2>1, <2>4, <2>5
  <2>7. j = 1
    BY <2>1, <2>5, <2>6
  <2> QED
    BY <1>1, <2>7
<1>2. GateInv /\ [Next]_vars =>
        [\A i, j \in 1..Len(queue) :
           i < j /\ phase'[queue[j]] = "holding" => phase'[queue[i]] # "waiting"]_vars
  BY <1>1
<1> QED
  BY GateInit, GateStep, <1>2, PTL DEF Spec, NoOvertaking

(***************************************************************************)
(* The gate behind the limits.                                             *)
(***************************************************************************)

\* Every step of the composition is a step of the gate or leaves it alone.
LEMMA GateSteps == AdmissionNext => [Next]_vars
BY DEF AdmissionNext, Tick, Enforce, Enter, WaitEnds, ThrowBeforeTry, Finish,
       Next, vars

LEMMA AdmissionKeepsTheGate == AdmissionSpec => Spec
<1>1. AdmissionInit => Init
  BY DEF AdmissionInit
<1>2. [AdmissionNext]_allVars => [Next]_vars
  BY GateSteps DEF allVars, vars
<1> QED
  BY <1>1, <1>2, PTL DEF AdmissionSpec, Spec

\* Behind the limits, and with handlers that throw before their try, the gate
\* still counts the tokens it gave out.
THEOREM AdmissionAccountsForSlots == AdmissionSpec => []SlotsAccounted
BY AdmissionKeepsTheGate, GateAccountsForSlots, PTL

\* Nor does anything in front of the gate let a request overtake another.
THEOREM AdmissionServesInOrder == AdmissionSpec => NoOvertaking
BY AdmissionKeepsTheGate, WaitersAreServedInOrder, PTL

(***************************************************************************)
(* The limits.                                                             *)
(***************************************************************************)

\* What a client may have spent since its grant number i, given what is left
\* in its bucket: a live bucket owes its last refill, a client without one
\* could have refilled to the brim.
Covered(c, i) ==
  LET spent == (Len(granted[c]) - i + 1) * Cost
      since(t) == Rate * (t - granted[c][i])
  IN  IF buckets[c].live
      THEN /\ granted[c][i] <= buckets[c].last_refill
           /\ spent + buckets[c].tokens <= Burst + since(buckets[c].last_refill)
      ELSE spent <= since(now)

Buckets == [tokens : Nat, last_refill : Nat, last_seen : Nat, live : BOOLEAN]

LimitTypes ==
  /\ now \in Nat
  /\ buckets \in [Clients -> Buckets]
  /\ granted \in [Clients -> Seq(Nat)]

\* The inductive invariant.  The budget alone is not inductive: a step grants
\* by what the bucket holds, so the bucket has to be bounded by what the
\* client has been granted, and a missing bucket, which comes back full, by
\* the time that has passed.
BudgetInv ==
  /\ LimitTypes
  /\ \A c \in Clients :
       /\ buckets[c].tokens <= Burst
       /\ buckets[c].last_refill <= now /\ buckets[c].last_seen = buckets[c].last_refill
  /\ \A c \in Clients : \A i \in 1..Len(granted[c]) :
       granted[c][i] <= now /\ Covered(c, i)
  /\ WithinBudget

\* Rates are linear in time.
LEMMA RateAdds ==
  ASSUME NEW a \in Nat, NEW b \in Nat, NEW c \in Nat, NEW r \in Nat, a <= b, b <= c
  PROVE  /\ r * (c - a) = r * (b - a) + r * (c - b)
         /\ r * (c - b) \in Nat /\ r * (b - a) \in Nat /\ r * (c - a) \in Nat
BY SMT

LEMMA ProductNat == \A m, n \in Nat : m * n \in Nat
BY SMT

LEMMA ConstantTypes ==
  /\ Rate \in Nat /\ Burst \in Nat /\ Cost \in Nat /\ TtlMs \in Nat
  /\ Cost > 0 /\ Rate > 0 /\ MaxWaitMs \in Nat /\ Cost <= Burst /\ Rate * TtlMs >= Burst
  /\ ClientOf \in [Calls -> Clients]
BY LimitConstants DEF Limits!RateConstants, Limits!TtlCoversBurst

LEMMA BudgetInit == AdmissionInit => BudgetInv
BY ConstantTypes
DEF AdmissionInit, Limits!Init, BudgetInv, LimitTypes, Buckets, Limits!NoBucket,
    WithinBudget, Limits!WithinBudget

\* A bucket that is swept could have been full anyway.
LEMMA SweptIsCovered ==
  ASSUME BudgetInv, NEW c \in Clients, Limits!Swept(c), NEW i \in 1..Len(granted[c])
  PROVE  (Len(granted[c]) - i + 1) * Cost <= Rate * (now - granted[c][i])
<1> DEFINE spent == (Len(granted[c]) - i + 1) * Cost
           t == buckets[c].last_refill
           g == granted[c][i]
<1>1. /\ now \in Nat /\ t \in Nat /\ g \in Nat /\ buckets[c].tokens \in Nat
      /\ g <= t /\ t <= now /\ now - t > TtlMs
      /\ spent + buckets[c].tokens <= Burst + Rate * (t - g)
  BY ElementOfSeq DEF BudgetInv, LimitTypes, Buckets, Covered, Limits!Swept
<1>2. Len(granted[c]) \in Nat /\ spent \in Nat
  <2>1. Len(granted[c]) - i + 1 \in Nat
    BY DEF BudgetInv, LimitTypes
  <2> QED
    BY <2>1, ConstantTypes DEF BudgetInv, LimitTypes
<1> HIDE DEF spent, t, g
<1>3. Rate * (now - g) = Rate * (t - g) + Rate * (now - t)
  BY <1>1, ConstantTypes, RateAdds
<1>4. Rate * (now - t) >= Rate * TtlMs
  BY <1>1, ConstantTypes
<1>5. Rate * (t - g) \in Nat /\ Rate * (now - t) \in Nat /\ Rate * TtlMs \in Nat
  BY <1>1, ConstantTypes
<1>6. spent <= Rate * (now - g)
  BY <1>1, <1>2, <1>3, <1>4, <1>5, ConstantTypes
<1> QED
  BY <1>6 DEF spent, g
\* What check() finds after the refill: bounded by what was granted before.
LEMMA RefillIsCovered ==
  ASSUME BudgetInv, NEW c \in Clients
  PROVE  LET r == Limits!Refilled(c)
         IN  /\ r = [tokens |-> r.tokens, last_refill |-> now, last_seen |-> now, live |-> TRUE]
             /\ r.tokens \in Nat /\ r.tokens <= Burst
             /\ \A i \in 1..Len(granted[c]) :
                  (Len(granted[c]) - i + 1) * Cost + r.tokens
                    <= Burst + Rate * (now - granted[c][i])
<1> DEFINE f == Limits!Found(c)
           fresh == [tokens |-> Burst, last_refill |-> now, last_seen |-> now, live |-> TRUE]
           r == Limits!Refilled(c)
           spent(i) == (Len(granted[c]) - i + 1) * Cost
           refill(i) == Rate * (now - granted[c][i])
<1>1. now \in Nat /\ buckets[c] \in Buckets /\ granted[c] \in Seq(Nat)
  BY DEF BudgetInv, LimitTypes
<1>2. \A i \in 1..Len(granted[c]) :
        /\ granted[c][i] \in Nat /\ granted[c][i] <= now
        /\ spent(i) \in Nat /\ refill(i) \in Nat
  <2> TAKE i \in 1..Len(granted[c])
  <2>1. granted[c][i] \in Nat /\ granted[c][i] <= now /\ Len(granted[c]) - i + 1 \in Nat
    BY <1>1, ElementOfSeq DEF BudgetInv
  <2>2. now - granted[c][i] \in Nat
    BY <1>1, <2>1
  <2>3. spent(i) \in Nat /\ refill(i) \in Nat
    BY <2>1, <2>2, ConstantTypes, ProductNat
  <2> QED
    BY <2>1, <2>3
<1>3. r = [f EXCEPT !.tokens = Limits!Lesser(Burst, f.tokens + Rate * (now - f.last_refill)),
                    !.last_refill = now, !.last_seen = now]
  BY DEF Limits!Refilled
<1>4. \/ f = fresh /\ (Limits!Swept(c) \/ ~buckets[c].live)
      \/ f = buckets[c] /\ buckets[c].live
  BY DEF Limits!Found
<1> SUFFICES /\ r = [tokens |-> r.tokens, last_refill |-> now, last_seen |-> now, live |-> TRUE]
             /\ r.tokens \in Nat /\ r.tokens <= Burst
             /\ \A i \in 1..Len(granted[c]) : spent(i) + r.tokens <= Burst + refill(i)
  OBVIOUS
<1> HIDE DEF r, f
<1>5. CASE f = fresh /\ (Limits!Swept(c) \/ ~buckets[c].live)
  <2>1. r = fresh
    <3>1. f.tokens = Burst /\ f.last_refill = now
      BY <1>5
    <3>2. Rate * (now - now) = 0
      BY <1>1, ConstantTypes
    <3>3. Limits!Lesser(Burst, Burst + 0) = Burst
      BY ConstantTypes DEF Limits!Lesser
    <3> QED
      BY <1>3, <1>5, <3>1, <3>2, <3>3
  <2>2. \A i \in 1..Len(granted[c]) : spent(i) <= refill(i)
    BY <1>5, SweptIsCovered DEF BudgetInv, Covered
  <2> HIDE DEF spent, refill
  <2> QED
    BY <1>2, <2>1, <2>2, ConstantTypes
<1>6. CASE f = buckets[c] /\ buckets[c].live
  <2> DEFINE t == buckets[c].last_refill
             more == Rate * (now - t)
  <2>1. t \in Nat /\ t <= now /\ buckets[c].tokens \in Nat /\ now - t \in Nat
    BY <1>1 DEF BudgetInv, Buckets
  <2>2. more \in Nat
    BY <2>1, ConstantTypes, ProductNat
  <2>3. /\ r = [tokens |-> r.tokens, last_refill |-> now, last_seen |-> now, live |-> TRUE]
        /\ r.tokens = Limits!Lesser(Burst, buckets[c].tokens + more)
    BY <1>1, <1>3, <1>6 DEF Buckets
  <2>4. r.tokens \in Nat /\ r.tokens <= Burst /\ r.tokens <= buckets[c].tokens + more
    BY <2>1, <2>2, <2>3, ConstantTypes DEF Limits!Lesser
  <2>5. ASSUME NEW i \in 1..Len(granted[c])
        PROVE  spent(i) + r.tokens <= Burst + refill(i)
    <3> DEFINE before == Rate * (t - granted[c][i])
    <3>1. granted[c][i] <= t /\ spent(i) + buckets[c].tokens <= Burst + before
      <4>1. Covered(c, i)
        BY DEF BudgetInv
      <4> QED
        BY <1>6, <4>1 DEF Covered
    <3>2. t - granted[c][i] \in Nat
      BY <1>2, <2>1, <3>1
    <3>3. before \in Nat
      BY <3>2, ConstantTypes, ProductNat
    <3>4. refill(i) = before + more
      <4> DEFINE g == granted[c][i]
      <4>1. g \in Nat /\ t \in Nat /\ now \in Nat /\ g <= t /\ t <= now
        BY <1>1, <1>2, <2>1, <3>1
      <4> HIDE DEF g, t
      <4>2. Rate * (now - g) = Rate * (t - g) + Rate * (now - t)
        BY <4>1, ConstantTypes, RateAdds
      <4> QED
        BY <4>2 DEF g, t
    <3>5. spent(i) \in Nat /\ refill(i) \in Nat
      BY <1>2
    <3> HIDE DEF spent, refill, more, before
    <3> QED
      BY <2>1, <2>2, <2>4, <3>1, <3>3, <3>4, <3>5, ConstantTypes
  <2> QED
    BY <2>3, <2>4, <2>5
<1> QED
  BY <1>4, <1>5, <1>6
\* The heart of the proof: a check keeps every client within its budget.
LEMMA CheckKeepsBudget ==
  ASSUME BudgetInv, NEW c \in Clients, Limits!Check(c), now' = now
  PROVE  BudgetInv'
<1> DEFINE r == Limits!Refilled(c)
           left == IF r.tokens >= Cost THEN r.tokens - Cost ELSE r.tokens
           spent(i) == (Len(granted[c]) - i + 1) * Cost
           refill(i) == Rate * (now - granted[c][i])
<1>1. /\ r = [tokens |-> r.tokens, last_refill |-> now, last_seen |-> now, live |-> TRUE]
      /\ r.tokens \in Nat /\ r.tokens <= Burst
      /\ \A i \in 1..Len(granted[c]) : spent(i) + r.tokens <= Burst + refill(i)
  BY RefillIsCovered
<1>2. /\ now \in Nat /\ buckets \in [Clients -> Buckets] /\ granted \in [Clients -> Seq(Nat)]
      /\ granted[c] \in Seq(Nat)
  BY DEF BudgetInv, LimitTypes
<1>3. left \in Nat /\ left <= r.tokens
  BY <1>1, ConstantTypes
<1>4. /\ buckets'[c] = [tokens |-> left, last_refill |-> now, last_seen |-> now, live |-> TRUE]
      /\ buckets'[c] \in Buckets
  <2> DEFINE k == r.tokens
  <2>0. r = [tokens |-> k, last_refill |-> now, last_seen |-> now, live |-> TRUE]
    BY <1>1
  <2>1. buckets'[c] = [r EXCEPT !.tokens = left]
    BY DEF Limits!Check
  <2> HIDE DEF left, k, r
  <2>2. buckets'[c] = [tokens |-> left, last_refill |-> now, last_seen |-> now, live |-> TRUE]
    BY <2>0, <2>1
  <2>3. left \in Nat /\ now \in Nat
    BY <1>2, <1>3
  <2>4. [tokens |-> left, last_refill |-> now, last_seen |-> now, live |-> TRUE] \in Buckets
    BY <2>3 DEF Buckets
  <2> QED
    BY <2>2, <2>4
<1>5. ASSUME NEW d \in Clients, d # c
      PROVE  \/ buckets'[d] = Limits!NoBucket /\ Limits!Swept(d)
             \/ buckets'[d] = buckets[d]
  BY <1>5 DEF Limits!Check
<1>6. granted' = IF r.tokens >= Cost THEN [granted EXCEPT ![c] = Append(@, now)] ELSE granted
  BY DEF Limits!Check, Limits!Allowed
<1>7. LimitTypes'
  <2>1. buckets' \in [Clients -> Buckets]
    <3>0. Limits!NoBucket \in Buckets
      BY DEF Limits!NoBucket, Buckets
    <3>1. ASSUME NEW d \in Clients PROVE buckets'[d] \in Buckets
      BY <1>2, <1>4, <1>5, <3>0
    <3>2. buckets' = [d \in Clients |-> buckets'[d]]
      BY DEF Limits!Check
    <3> QED
      BY <3>1, <3>2
  <2>2. granted' \in [Clients -> Seq(Nat)]
    BY <1>2, <1>6
  <2> QED
    BY <1>2, <2>1, <2>2 DEF LimitTypes
<1>8. ASSUME NEW d \in Clients
      PROVE  /\ buckets'[d].tokens <= Burst
             /\ buckets'[d].last_refill <= now /\ buckets'[d].last_seen = buckets'[d].last_refill
  <2>1. CASE d = c
    BY <1>1, <1>2, <1>3, <1>4, <2>1, ConstantTypes
  <2>2. CASE d # c
    <3>1. buckets'[d] = Limits!NoBucket \/ buckets'[d] = buckets[d]
      BY <1>5, <2>2
    <3>2. /\ Limits!NoBucket.tokens = 0 /\ Limits!NoBucket.last_refill = 0
          /\ Limits!NoBucket.last_seen = 0
      BY DEF Limits!NoBucket
    <3>3. 0 <= Burst /\ 0 <= now
      BY <1>2, ConstantTypes
    <3> QED
      BY <3>1, <3>2, <3>3 DEF BudgetInv
  <2> QED
    BY <2>1, <2>2
\* The other clients: unchanged, or swept and covered by the time that passed.
<1>9. ASSUME NEW d \in Clients, d # c, NEW i \in 1..Len(granted'[d])
      PROVE  granted'[d] = granted[d] /\ granted'[d][i] <= now /\ Covered(d, i)'
  <2>1. granted'[d] = granted[d] /\ granted[d][i] <= now /\ Covered(d, i)
    BY <1>2, <1>6, <1>9 DEF BudgetInv
  <2>2. CASE buckets'[d] = Limits!NoBucket /\ Limits!Swept(d)
    <3>1. (Len(granted[d]) - i + 1) * Cost <= Rate * (now - granted[d][i])
      BY <1>9, <2>1, <2>2, SweptIsCovered
    <3>2. ~buckets'[d].live
      BY <2>2 DEF Limits!NoBucket
    <3> QED
      BY <2>1, <3>1, <3>2 DEF Covered
  <2>3. CASE buckets'[d] = buckets[d]
    BY <2>1, <2>3 DEF Covered
  <2> QED
    BY <1>5, <1>9, <2>1, <2>2, <2>3
\* The client that was checked: what it gets leaves its bucket.
<1>10. ASSUME NEW i \in 1..Len(granted'[c])
       PROVE  granted'[c][i] <= now /\ Covered(c, i)'
  <2> DEFINE n == Len(granted[c])
  <2>1. n \in Nat
    BY <1>2
  <2>2. CASE r.tokens >= Cost
    <3>1. granted'[c] = Append(granted[c], now) /\ Len(granted'[c]) = n + 1
      BY <1>2, <1>6, <2>2
    <3>2. left = r.tokens - Cost
      BY <2>2
    <3>3. CASE i \in 1..n
      <4>1. granted'[c][i] = granted[c][i] /\ granted[c][i] <= now
        BY <1>2, <3>1, <3>3 DEF BudgetInv
      <4>2. (n + 1 - i + 1) * Cost = spent(i) + Cost
        BY <2>1, <3>3, ConstantTypes
      <4>3. spent(i) + r.tokens <= Burst + refill(i)
        BY <1>1, <3>3
      <4>4. granted[c][i] \in Nat /\ n - i + 1 \in Nat
        BY <1>2, <2>1, <3>3, ElementOfSeq
      <4>5. now - granted[c][i] \in Nat
        BY <1>2, <4>1, <4>4
      <4>6. spent(i) \in Nat /\ refill(i) \in Nat
        BY <4>4, <4>5, ConstantTypes, ProductNat
      <4>7. (n + 1 - i + 1) * Cost + left <= Burst + refill(i)
        <5> HIDE DEF spent, refill, left
        <5> QED
          BY <1>1, <3>2, <4>2, <4>3, <4>6, ConstantTypes
      <4> QED
        BY <1>4, <3>1, <4>1, <4>7 DEF Covered
    <3>4. CASE i = n + 1
      <4>1. granted'[c][i] = now
        BY <1>2, <3>1, <3>4
      <4>2. (n + 1 - i + 1) * Cost = Cost /\ Rate * (now - now) = 0
        BY <1>2, <2>1, <3>4, ConstantTypes
      <4>3. Cost + left <= Burst + 0
        BY <1>1, <3>2, ConstantTypes
      <4>4. (n + 1 - i + 1) * Cost + left <= Burst + Rate * (now - now)
        BY <4>2, <4>3
      <4> QED
        BY <1>2, <1>4, <3>1, <4>1, <4>4 DEF Covered
    <3> QED
      BY <2>1, <3>1, <3>3, <3>4
  <2>3. CASE ~(r.tokens >= Cost)
    <3>1. granted'[c] = granted[c] /\ left = r.tokens
      BY <1>6, <2>3
    <3>2. granted[c][i] <= now /\ spent(i) + r.tokens <= Burst + refill(i)
      BY <1>1, <3>1 DEF BudgetInv
    <3> QED
      BY <1>2, <1>4, <3>1, <3>2 DEF Covered
  <2> QED
    BY <2>2, <2>3
<1>11. WithinBudget'
  <2>1. SUFFICES ASSUME NEW d \in Clients, NEW i \in 1..Len(granted'[d]),
                        NEW j \in 1..Len(granted'[d]), i <= j
                 PROVE  (j - i + 1) * Cost
                          <= Burst + Rate * (granted'[d][j] - granted'[d][i])
    BY DEF WithinBudget, Limits!WithinBudget
  <2>2. CASE granted'[d] = granted[d]
    BY <2>1, <2>2 DEF BudgetInv, WithinBudget, Limits!WithinBudget
  <2>3. CASE d = c /\ granted'[c] = Append(granted[c], now)
    <3>1. Len(granted'[c]) = Len(granted[c]) + 1 /\ Len(granted[c]) \in Nat
      BY <1>2, <2>3
    <3>2. CASE j = Len(granted[c]) + 1
      <4>1. granted'[c][j] = now
        BY <1>2, <2>3, <3>2
      <4>2. Covered(c, i)'
        BY <1>10, <2>3
      <4>3. (j - i + 1) * Cost + left <= Burst + Rate * (now - granted'[c][i])
        BY <1>4, <3>1, <3>2, <4>2 DEF Covered
      <4>4. granted'[c][i] \in Nat /\ granted'[c][i] <= now /\ j - i + 1 \in Nat
        <5>1. granted'[c] \in Seq(Nat)
          BY <1>7 DEF LimitTypes
        <5>2. i \in 1..Len(granted'[c]) /\ i <= j
          BY <2>1, <2>3
        <5>3. j - i + 1 \in Nat
          BY <3>1, <3>2, <5>2
        <5> QED
          BY <1>10, <5>1, <5>2, <5>3, ElementOfSeq
      <4>5. (j - i + 1) * Cost \in Nat /\ Rate * (now - granted'[c][i]) \in Nat
        <5>1. now - granted'[c][i] \in Nat
          BY <1>2, <4>4
        <5> QED
          BY <4>4, <5>1, ConstantTypes, ProductNat
      <4>6. (j - i + 1) * Cost <= Burst + Rate * (now - granted'[c][i])
        <5> HIDE DEF left
        <5> QED
          BY <1>3, <4>3, <4>5, ConstantTypes
      <4> QED
        BY <2>3, <4>1, <4>6
    <3>3. CASE j \in 1..Len(granted[c])
      <4>1. i \in 1..Len(granted[c]) /\ granted'[c][i] = granted[c][i]
            /\ granted'[c][j] = granted[c][j]
        BY <1>2, <2>1, <2>3, <3>1, <3>3
      <4> QED
        BY <2>1, <2>3, <3>3, <4>1 DEF BudgetInv, WithinBudget, Limits!WithinBudget
    <3> QED
      BY <2>3, <3>1, <3>2, <3>3
  <2> QED
    BY <1>2, <1>6, <2>2, <2>3
<1> QED
  BY <1>7, <1>8, <1>9, <1>10, <1>11 DEF BudgetInv

\* Time covers more.
LEMMA TickKeepsBudget ==
  ASSUME BudgetInv, Limits!Tick PROVE BudgetInv'
<1>1. /\ now \in Nat /\ now' = now + 1 /\ buckets' = buckets /\ granted' = granted
      /\ buckets \in [Clients -> Buckets] /\ granted \in [Clients -> Seq(Nat)]
  BY DEF BudgetInv, LimitTypes, Limits!Tick
<1>2. ASSUME NEW c \in Clients, NEW i \in 1..Len(granted[c])
      PROVE  granted[c][i] <= now' /\ Covered(c, i)'
  <2>1. granted[c][i] \in Nat /\ granted[c][i] <= now /\ Covered(c, i)
    BY <1>1, ElementOfSeq DEF BudgetInv
  <2>2. Len(granted[c]) \in Nat
    BY <1>1
  <2>3. CASE buckets[c].live
    BY <1>1, <2>1, <2>3 DEF Covered
  <2>4. CASE ~buckets[c].live
    <3> DEFINE spent == (Len(granted[c]) - i + 1) * Cost
    <3>1. spent <= Rate * (now - granted[c][i])
      BY <2>1, <2>4 DEF Covered
    <3>2. Rate * (now' - granted[c][i]) = Rate * (now - granted[c][i]) + Rate * (now' - now)
          /\ Rate * (now' - now) \in Nat /\ Rate * (now - granted[c][i]) \in Nat
      BY <1>1, <2>1, ConstantTypes, RateAdds
    <3>3. Len(granted[c]) - i + 1 \in Nat
      BY <2>2
    <3>4. spent \in Nat
      BY <3>3, ConstantTypes, ProductNat
    <3>5. spent <= Rate * (now' - granted[c][i])
      <4> HIDE DEF spent
      <4> QED
        BY <3>1, <3>2, <3>4
    <3> QED
      BY <1>1, <2>1, <2>4, <3>5 DEF Covered
  <2> QED
    BY <1>1, <2>1, <2>3, <2>4
<1>3. \A c \in Clients : buckets[c].last_refill \in Nat
  BY <1>1 DEF Buckets
<1>4. LimitTypes' /\ WithinBudget'
  BY <1>1 DEF BudgetInv, LimitTypes, WithinBudget, Limits!WithinBudget
<1>5. \A c \in Clients :
        /\ buckets'[c].tokens <= Burst
        /\ buckets'[c].last_refill <= now' /\ buckets'[c].last_seen = buckets'[c].last_refill
  BY <1>1, <1>3 DEF BudgetInv
<1> QED
  BY <1>1, <1>2, <1>4, <1>5 DEF BudgetInv

\* A step of the composition checks one client's bucket at one moment, lets
\* time pass, or leaves the limits alone.
LEMMA LimitSteps ==
  ASSUME [AdmissionNext]_allVars
  PROVE  \/ \E q \in Calls : Limits!FirstCheck(q) \/ Limits!SecondCheck(q)
         \/ Limits!Tick
         \/ UNCHANGED limitVars
<1>1. ASSUME NEW q \in Requests, Enforce(q)
      PROVE  \E r \in Calls : Limits!FirstCheck(r) \/ Limits!SecondCheck(r)
  <2>1. PICK i \in DOMAIN CallsOf[q] :
          Limits!FirstCheck(CallsOf[q][i]) \/ Limits!SecondCheck(CallsOf[q][i])
    BY <1>1 DEF Enforce
  <2>2. CallsOf[q][i] \in Calls
    BY CallsAreOwn, ElementOfSeq, <2>1
  <2> QED
    BY <2>1, <2>2
<1> QED
  BY <1>1 DEF AdmissionNext, Tick, Enter, WaitEnds, ThrowBeforeTry, Finish, allVars

LEMMA BudgetStep == BudgetInv /\ [AdmissionNext]_allVars => BudgetInv'
<1> SUFFICES ASSUME BudgetInv, [AdmissionNext]_allVars PROVE BudgetInv'
  OBVIOUS
<1>1. ASSUME NEW q \in Calls, Limits!FirstCheck(q) \/ Limits!SecondCheck(q)
      PROVE  BudgetInv'
  <2>1. ClientOf[q] \in Clients
    BY <1>1, ConstantTypes
  <2>2. Limits!Check(ClientOf[q]) /\ now' = now
    BY <1>1 DEF Limits!FirstCheck, Limits!SecondCheck
  <2> QED
    BY <2>1, <2>2, CheckKeepsBudget
<1>2. ASSUME UNCHANGED limitVars PROVE BudgetInv'
  BY <1>2
  DEF BudgetInv, LimitTypes, Covered, WithinBudget, Limits!WithinBudget, limitVars
<1> QED
  BY <1>1, <1>2, LimitSteps, TickKeepsBudget

\* In every window every client stays within burst and refill, whichever
\* limits it passes, however the checks of sleepers interleave with those of
\* others and whatever sweeps forget.
THEOREM BudgetHolds == AdmissionSpec => []WithinBudget
<1>1. BudgetInv => WithinBudget
  BY DEF BudgetInv
<1> QED
  BY <1>1, BudgetInit, BudgetStep, PTL DEF AdmissionSpec

(***************************************************************************)
(* The hint of a refused check.                                            *)
(***************************************************************************)

Sleeps == [wake : Nat, capped : BOOLEAN, seen : Nat]

\* Left alone until t, the bucket has a token: one that was swept comes back
\* full.
Suffices(b, t) ==
  b.live => b.last_refill <= t /\ b.tokens + Rate * (t - b.last_refill) >= Cost

\* The inductive invariant: until somebody else is granted a token, each
\* refused check of the same bucket in between still leaves enough of it for
\* the sleeper to find a token when it wakes.
SleepInv ==
  /\ guard \in [Calls -> {"new", "sleeping", "allowed", "limited"}]
  /\ sleep \in [Calls -> Sleeps]
  /\ \A q \in Calls : guard[q] = "sleeping" =>
       LET c == ClientOf[q]
       IN  /\ sleep[q].seen <= Len(granted[c])
           /\ ~sleep[q].capped /\ Len(granted[c]) <= sleep[q].seen
                => Suffices(buckets[c], sleep[q].wake)

\* Rounded up, a time refills what was missing.
LEMMA RoundingUpSuffices ==
  ASSUME NEW m \in Nat, NEW r \in Nat, r > 0
  PROVE  /\ (m + r - 1) \div r \in Nat
         /\ r * ((m + r - 1) \div r) >= m
<1> DEFINE n == m + r - 1
           k == n \div r
<1>1. n \in Nat /\ r \in Nat \ {0}
  OBVIOUS
<1>2. k \in Nat /\ n = r * k + (n % r) /\ n % r \in 0..(r - 1)
  BY <1>1
<1>3. r * k \in Nat
  BY <1>2
<1>4. r * k >= m
  <2> HIDE DEF k
  <2> QED
    BY <1>2, <1>3 DEF n
<1> QED
  BY <1>2, <1>4

\* A check that is refused leaves the bucket with the tokens it has by now, so
\* what sufficed for a later moment still does.
LEMMA RefusedKeepsSufficing ==
  ASSUME BudgetInv, NEW c \in Clients, NEW t \in Nat, ~Limits!Allowed(c),
         Suffices(buckets[c], t)
  PROVE  /\ now < t
         /\ Limits!Refilled(c).tokens + Rate * (t - now) >= Cost
<1> DEFINE b == buckets[c]
           r == Limits!Refilled(c)
           fresh == [tokens |-> Burst, last_refill |-> now, last_seen |-> now, live |-> TRUE]
<1>1. /\ now \in Nat /\ b \in Buckets /\ b.tokens \in Nat /\ b.last_refill \in Nat
      /\ b.last_refill <= now
  BY DEF BudgetInv, LimitTypes, Buckets
<1>2. r.tokens \in Nat /\ r.tokens < Cost
  <2>1. r.tokens \in Nat
    BY RefillIsCovered
  <2> QED
    BY <2>1, ConstantTypes DEF Limits!Allowed
<1>3. \/ Limits!Found(c) = fresh
      \/ Limits!Found(c) = b /\ b.live
  BY DEF Limits!Found
<1>4. Limits!Found(c) # fresh
  <2> SUFFICES ASSUME Limits!Found(c) = fresh PROVE FALSE
    OBVIOUS
  <2>1. r.tokens = Limits!Lesser(Burst, Burst + Rate * (now - now))
    BY DEF Limits!Refilled
  <2>2. Rate * (now - now) = 0
    BY <1>1, ConstantTypes
  <2>3. r.tokens = Burst
    BY <2>1, <2>2, ConstantTypes DEF Limits!Lesser
  <2> QED
    BY <1>2, <2>3, ConstantTypes
<1>5. b.live /\ r.tokens = Limits!Lesser(Burst, b.tokens + Rate * (now - b.last_refill))
  BY <1>1, <1>3, <1>4 DEF Limits!Refilled, Buckets
<1> DEFINE u == b.last_refill
           k == b.tokens
<1>6. /\ u \in Nat /\ k \in Nat /\ now \in Nat /\ u <= now /\ u <= t
      /\ k + Rate * (t - u) >= Cost
  BY <1>1, <1>5 DEF Suffices
<1> HIDE DEF u, k, r
<1>7. r.tokens = k + Rate * (now - u) /\ Rate * (now - u) \in Nat
  <2>1. Rate * (now - u) \in Nat
    BY <1>6, ConstantTypes, RateAdds
  <2>2. r.tokens = Limits!Lesser(Burst, k + Rate * (now - u))
    BY <1>5 DEF k, u
  <2> QED
    BY <1>2, <1>6, <2>1, <2>2, ConstantTypes DEF Limits!Lesser
<1>8. now < t
  <2> SUFFICES ASSUME t <= now PROVE FALSE
    BY <1>6
  <2>1. /\ Rate * (now - u) = Rate * (t - u) + Rate * (now - t)
        /\ Rate * (now - t) \in Nat /\ Rate * (t - u) \in Nat
    BY <1>6, ConstantTypes, RateAdds
  <2> QED
    BY <1>2, <1>6, <1>7, <2>1, ConstantTypes
<1>9. /\ Rate * (t - u) = Rate * (now - u) + Rate * (t - now)
      /\ Rate * (t - now) \in Nat /\ Rate * (now - u) \in Nat
  BY <1>6, <1>8, ConstantTypes, RateAdds
<1>10. r.tokens + Rate * (t - now) >= Cost
  BY <1>2, <1>6, <1>7, <1>9, ConstantTypes
<1> QED
  BY <1>8, <1>10 DEF r

\* What a check changes, seen from the sleepers of its client and of others.
LEMMA CheckLeaves ==
  ASSUME BudgetInv, NEW c \in Clients, Limits!Check(c)
  PROVE  /\ Limits!Allowed(c) => Len(granted'[c]) = Len(granted[c]) + 1
         /\ ~Limits!Allowed(c) =>
              /\ granted'[c] = granted[c]
              /\ buckets'[c] = [tokens |-> Limits!Refilled(c).tokens, last_refill |-> now,
                                last_seen |-> now, live |-> TRUE]
         /\ \A d \in Clients \ {c} :
              granted'[d] = granted[d] /\ (buckets'[d] = buckets[d] \/ ~buckets'[d].live)
<1> DEFINE r == Limits!Refilled(c)
<1>1. /\ buckets \in [Clients -> Buckets] /\ granted \in [Clients -> Seq(Nat)]
      /\ granted[c] \in Seq(Nat) /\ now \in Nat
  BY DEF BudgetInv, LimitTypes
<1>2. /\ r = [tokens |-> r.tokens, last_refill |-> now, last_seen |-> now, live |-> TRUE]
      /\ r.tokens \in Nat
  BY RefillIsCovered
<1>3. ASSUME Limits!Allowed(c) PROVE Len(granted'[c]) = Len(granted[c]) + 1
  <2>1. granted'[c] = Append(granted[c], now)
    BY <1>1, <1>3 DEF Limits!Check
  <2> QED
    BY <1>1, <2>1
<1>4. ASSUME ~Limits!Allowed(c)
      PROVE  /\ granted'[c] = granted[c]
             /\ buckets'[c] = [tokens |-> r.tokens, last_refill |-> now, last_seen |-> now,
                               live |-> TRUE]
  <2>1. granted'[c] = granted[c]
    BY <1>4 DEF Limits!Check
  <2>2. buckets'[c] = [r EXCEPT !.tokens = IF r.tokens >= Cost THEN r.tokens - Cost
                                                               ELSE r.tokens]
    BY DEF Limits!Check
  <2>3. ~(r.tokens >= Cost)
    BY <1>4 DEF Limits!Allowed
  <2> DEFINE k == r.tokens
  <2>4. r = [tokens |-> k, last_refill |-> now, last_seen |-> now, live |-> TRUE]
    BY <1>2
  <2>5. buckets'[c] = [r EXCEPT !.tokens = k]
    BY <2>2, <2>3
  <2> HIDE DEF k, r
  <2>6. buckets'[c] = [tokens |-> k, last_refill |-> now, last_seen |-> now, live |-> TRUE]
    BY <2>4, <2>5
  <2> QED
    BY <2>1, <2>6 DEF k
<1>5. ASSUME NEW d \in Clients \ {c}
      PROVE  granted'[d] = granted[d] /\ (buckets'[d] = buckets[d] \/ ~buckets'[d].live)
  <2>1. granted'[d] = granted[d]
    BY <1>1, <1>5 DEF Limits!Check
  <2>2. buckets'[d] = Limits!NoBucket \/ buckets'[d] = buckets[d]
    BY <1>5 DEF Limits!Check
  <2>3. ~Limits!NoBucket.live
    BY DEF Limits!NoBucket
  <2> QED
    BY <2>1, <2>2, <2>3
<1> QED
  BY <1>3, <1>4, <1>5

\* A sleeper keeps what it sleeps on through the checks of others.
LEMMA SleeperKept ==
  ASSUME BudgetInv, SleepInv, NEW q \in Calls, guard[q] = "sleeping",
         NEW c \in Clients, Limits!Check(c), sleep'[q] = sleep[q]
  PROVE  LET d == ClientOf[q]
         IN  /\ sleep'[q].seen <= Len(granted'[d])
             /\ ~sleep'[q].capped /\ Len(granted'[d]) <= sleep'[q].seen =>
                  (buckets'[d].live =>
                     /\ buckets'[d].last_refill <= sleep'[q].wake
                     /\ buckets'[d].tokens + Rate * (sleep'[q].wake - buckets'[d].last_refill)
                          >= Cost)
<1> DEFINE d == ClientOf[q]
           s == sleep[q]
<1>1. /\ d \in Clients /\ s.wake \in Nat /\ s.seen \in Nat
      /\ Len(granted[d]) \in Nat /\ s.seen <= Len(granted[d])
      /\ ~s.capped /\ Len(granted[d]) <= s.seen => Suffices(buckets[d], s.wake)
  BY ConstantTypes DEF SleepInv, Sleeps, BudgetInv, LimitTypes
<1> HIDE DEF d, s
<1> SUFFICES /\ s.seen <= Len(granted'[d])
             /\ ~s.capped /\ Len(granted'[d]) <= s.seen =>
                  (buckets'[d].live =>
                     /\ buckets'[d].last_refill <= s.wake
                     /\ buckets'[d].tokens + Rate * (s.wake - buckets'[d].last_refill) >= Cost)
  BY DEF d, s
<1>2. CASE d # c
  BY <1>1, <1>2, CheckLeaves DEF Suffices
<1>3. CASE d = c /\ Limits!Allowed(c)
  <2>1. Len(granted'[d]) = Len(granted[d]) + 1
    BY <1>3, CheckLeaves
  <2> QED
    BY <1>1, <2>1
<1>4. CASE d = c /\ ~Limits!Allowed(c)
  <2>1. /\ granted'[d] = granted[d]
        /\ buckets'[d] = [tokens |-> Limits!Refilled(c).tokens, last_refill |-> now,
                          last_seen |-> now, live |-> TRUE]
    BY <1>4, CheckLeaves
  <2>2. ASSUME ~s.capped, Len(granted'[d]) <= s.seen
        PROVE  now < s.wake /\ Limits!Refilled(c).tokens + Rate * (s.wake - now) >= Cost
    BY <1>1, <1>4, <2>1, <2>2, RefusedKeepsSufficing
  <2>3. now \in Nat
    BY DEF BudgetInv, LimitTypes
  <2> QED
    BY <1>1, <2>1, <2>2, <2>3
<1> QED
  BY <1>2, <1>3, <1>4

LEMMA SleepInit == AdmissionInit => SleepInv
BY DEF AdmissionInit, Limits!Init, SleepInv, Sleeps, Limits!NoSleep

LEMMA SleepStep == BudgetInv /\ SleepInv /\ [AdmissionNext]_allVars => SleepInv'
<1> SUFFICES ASSUME BudgetInv, SleepInv, [AdmissionNext]_allVars PROVE SleepInv'
  OBVIOUS
<1>1. /\ guard \in [Calls -> {"new", "sleeping", "allowed", "limited"}]
      /\ sleep \in [Calls -> Sleeps]
  BY DEF SleepInv
<1>2. ASSUME NEW q \in Calls, Limits!FirstCheck(q) PROVE SleepInv'
  <2> DEFINE c == ClientOf[q]
             retry == Limits!RetryAfter(c)
             left == Limits!Refilled(c).tokens
             nap == [wake |-> now + Limits!Lesser(MaxWaitMs, retry),
                     capped |-> MaxWaitMs < retry, seen |-> Len(granted[c])]
  <2>1. c \in Clients /\ Limits!Check(c) /\ now' = now
    BY <1>2, ConstantTypes DEF Limits!FirstCheck
  <2>2. /\ now \in Nat /\ Len(granted[c]) \in Nat /\ granted[c] \in Seq(Nat)
    BY <2>1 DEF BudgetInv, LimitTypes
  <2>3. left \in Nat
    BY <2>1, RefillIsCovered
  <2>4. ASSUME ~Limits!Allowed(c)
        PROVE  retry \in Nat /\ Rate * retry >= Cost - left /\ left < Cost
    <3>1. left < Cost /\ Cost - left \in Nat
      BY <2>3, <2>4, ConstantTypes DEF Limits!Allowed
    <3>2. retry = ((Cost - left) + Rate - 1) \div Rate
      BY DEF Limits!RetryAfter
    <3> HIDE DEF left, retry
    <3> QED
      BY <3>1, <3>2, ConstantTypes, RoundingUpSuffices
  <2>5. \/ sleep' = sleep /\ \E g \in {"allowed", "limited"} : guard' = [guard EXCEPT ![q] = g]
        \/ /\ ~Limits!Allowed(c)
           /\ guard' = [guard EXCEPT ![q] = "sleeping"]
           /\ sleep' = [sleep EXCEPT ![q] = nap]
    BY <1>2 DEF Limits!FirstCheck
  <2>6. ASSUME ~Limits!Allowed(c) PROVE nap \in Sleeps
    <3>1. Limits!Lesser(MaxWaitMs, retry) \in Nat
      BY <2>4, <2>6, ConstantTypes DEF Limits!Lesser
    <3>2. now + Limits!Lesser(MaxWaitMs, retry) \in Nat
      BY <2>2, <3>1
    <3> HIDE DEF retry
    <3> QED
      BY <2>2, <3>2 DEF Sleeps
  <2>7. /\ guard' \in [Calls -> {"new", "sleeping", "allowed", "limited"}]
        /\ sleep' \in [Calls -> Sleeps]
    <3> HIDE DEF nap
    <3> QED
      BY <1>1, <2>5, <2>6
  <2>8. ASSUME NEW p \in Calls, guard'[p] = "sleeping"
        PROVE  LET d == ClientOf[p]
               IN  /\ sleep'[p].seen <= Len(granted'[d])
                   /\ ~sleep'[p].capped /\ Len(granted'[d]) <= sleep'[p].seen =>
                        (buckets'[d].live =>
                           /\ buckets'[d].last_refill <= sleep'[p].wake
                           /\ buckets'[d].tokens
                                + Rate * (sleep'[p].wake - buckets'[d].last_refill) >= Cost)
    <3>1. CASE p # q
      <4>1. guard[p] = "sleeping" /\ sleep'[p] = sleep[p]
        <5> HIDE DEF nap
        <5> QED
          BY <1>1, <2>5, <2>8, <3>1
      <4> QED
        BY <2>1, <4>1, SleeperKept
    <3>2. CASE p = q
      <4>1. ~Limits!Allowed(c) /\ sleep'[q] = nap
        <5> HIDE DEF nap
        <5> QED
          BY <1>1, <2>5, <2>8, <3>2
      <4>2. /\ granted'[c] = granted[c]
            /\ buckets'[c] = [tokens |-> left, last_refill |-> now, last_seen |-> now,
                              live |-> TRUE]
        BY <2>1, <4>1, CheckLeaves
      <4>3. /\ sleep'[q].seen = Len(granted[c])
            /\ sleep'[q].wake = now + Limits!Lesser(MaxWaitMs, retry)
            /\ sleep'[q].capped <=> MaxWaitMs < retry
        <5>1. /\ nap.seen = Len(granted[c])
              /\ nap.wake = now + Limits!Lesser(MaxWaitMs, retry)
          OBVIOUS
        <5>2. nap.capped = (MaxWaitMs < retry)
          <6> HIDE DEF retry, c
          <6> QED
            BY Zenon
        <5> HIDE DEF nap, retry, c
        <5> QED
          BY <4>1, <5>1, <5>2
      <4>4. retry \in Nat /\ Rate * retry >= Cost - left
        BY <2>4, <4>1
      <4> HIDE DEF nap, retry, left
      <4>5. ASSUME ~sleep'[q].capped
            PROVE  /\ now <= sleep'[q].wake
                   /\ left + Rate * (sleep'[q].wake - now) >= Cost
        <5>1. Limits!Lesser(MaxWaitMs, retry) = retry
          BY <4>3, <4>4, <4>5, ConstantTypes DEF Limits!Lesser
        <5>2. sleep'[q].wake - now = retry /\ now <= sleep'[q].wake
          BY <2>2, <4>3, <4>4, <5>1
        <5>3. Rate * retry \in Nat
          BY <4>4, ConstantTypes, ProductNat
        <5> QED
          BY <2>3, <4>4, <5>2, <5>3, ConstantTypes DEF left
      <4> QED
        BY <2>2, <3>2, <4>2, <4>3, <4>5
    <3> QED
      BY <3>1, <3>2
  <2> QED
    BY <2>7, <2>8 DEF SleepInv, Suffices
<1>3. ASSUME NEW q \in Calls, Limits!SecondCheck(q) PROVE SleepInv'
  <2>1. ClientOf[q] \in Clients /\ Limits!Check(ClientOf[q])
    BY <1>3, ConstantTypes DEF Limits!SecondCheck
  <2>2. /\ sleep' = sleep
        /\ \E g \in {"allowed", "limited"} : guard' = [guard EXCEPT ![q] = g]
    BY <1>3 DEF Limits!SecondCheck
  <2>3. \A p \in Calls : guard'[p] = "sleeping" => guard[p] = "sleeping"
    BY <1>1, <2>2
  <2>4. /\ guard' \in [Calls -> {"new", "sleeping", "allowed", "limited"}]
        /\ sleep' \in [Calls -> Sleeps]
    BY <1>1, <2>2
  <2> QED
    BY <2>1, <2>2, <2>3, <2>4, SleeperKept DEF SleepInv, Suffices
<1>4. CASE Limits!Tick
  BY <1>4 DEF SleepInv, Suffices, Limits!Tick
<1>5. CASE UNCHANGED limitVars
  BY <1>5 DEF SleepInv, Suffices, limitVars
<1> QED
  BY <1>2, <1>3, <1>4, <1>5, LimitSteps

\* A sleeper that waited as long as it was told is refused only when somebody
\* else was granted a token meanwhile, whatever is swept while it sleeps.
THEOREM HintsAreLongEnough == AdmissionSpec => RetryAfterIsEnough
<1>1. ASSUME BudgetInv, SleepInv, [AdmissionNext]_allVars, NEW q \in Calls,
             guard[q] = "sleeping", guard'[q] = "limited"
      PROVE  sleep[q].capped \/ Len(granted[ClientOf[q]]) > sleep[q].seen
  <2> DEFINE c == ClientOf[q]
             n == Len(granted[c])
  <2>1. /\ guard \in [Calls -> {"new", "sleeping", "allowed", "limited"}]
        /\ c \in Clients /\ sleep[q].wake \in Nat /\ sleep[q].seen \in Nat /\ n \in Nat
        /\ now \in Nat
    <3>1. c \in Clients /\ now \in Nat
      BY <1>1, ConstantTypes DEF BudgetInv, LimitTypes
    <3>2. n \in Nat
      BY <1>1, <3>1 DEF BudgetInv, LimitTypes
    <3>3. sleep[q] \in Sleeps
      BY <1>1 DEF SleepInv
    <3> QED
      BY <1>1, <3>1, <3>2, <3>3 DEF SleepInv, Sleeps
  <2>2. Limits!SecondCheck(q)
    <3>1. ASSUME NEW p \in Calls, Limits!FirstCheck(p) PROVE FALSE
      BY <1>1, <2>1, <3>1 DEF Limits!FirstCheck
    <3>2. ASSUME NEW p \in Calls, Limits!SecondCheck(p) PROVE p = q
      BY <1>1, <2>1, <3>2 DEF Limits!SecondCheck
    <3>3. ~Limits!Tick /\ ~UNCHANGED limitVars
      BY <1>1 DEF Limits!Tick, limitVars
    <3> QED
      BY <1>1, <3>1, <3>2, <3>3, LimitSteps
  <2>3. now >= sleep[q].wake /\ ~Limits!Allowed(c)
    BY <1>1, <2>1, <2>2 DEF Limits!SecondCheck
  <2>4. ~sleep[q].capped /\ n <= sleep[q].seen => Suffices(buckets[c], sleep[q].wake)
    BY <1>1 DEF SleepInv
  <2>5. Suffices(buckets[c], sleep[q].wake) => now < sleep[q].wake
    BY <1>1, <2>1, <2>3, RefusedKeepsSufficing
  <2> HIDE DEF c, n
  <2>6. sleep[q].capped \/ n > sleep[q].seen
    BY <2>1, <2>3, <2>4, <2>5
  <2> QED
    BY <2>6 DEF c, n
<1>2. BudgetInv /\ SleepInv /\ [AdmissionNext]_allVars =>
        [\A q \in Calls :
           guard[q] = "sleeping" /\ guard'[q] = "limited" =>
             sleep[q].capped \/ Len(granted[ClientOf[q]]) > sleep[q].seen]_limitVars
  BY <1>1
<1> QED
  BY <1>2, BudgetInit, BudgetStep, SleepInit, SleepStep, PTL
  DEF AdmissionSpec, RetryAfterIsEnough, Limits!RetryAfterIsEnough, Limits!vars, limitVars
============================================================================
