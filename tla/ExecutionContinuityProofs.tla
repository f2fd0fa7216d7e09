---------------------- MODULE ExecutionContinuityProofs ----------------------
(***************************************************************************)
(* Proofs about execution states.  Revisions only grow while the process   *)
(* is up, so every transition already applied was applied below the        *)
(* revision the state has now.  A state is put by a request that has been  *)
(* answered, and the rows of those are on disk (LiteMemoryProofs).         *)
(***************************************************************************)
EXTENDS ExecutionContinuity, LiteMemoryProofs

Records == [StateIds -> [by : Requests \cup {NoOne}, revision : Nat]]
Transitions == [id : StateIds, by : Requests, revision : Nat]

\* The inductive invariant: an applied transition lies below its state's revision.
AppliedBelow ==
    \A t \in applied : records[t.id] # NoRecord /\ t.revision < records[t.id].revision

ContinuityInv ==
    /\ records \in Records
    /\ applied \subseteq Transitions
    /\ AppliedBelow
    /\ OneTransitionPerRevision

\* put and applyTransition keep records typed, keep what exists, and never lower a revision.
LEMMA PutGrows ==
    ASSUME NEW recs \in Records, NEW r \in Requests
    PROVE  /\ Put(recs, r) \in Records
           /\ \A s \in StateIds : recs[s] # NoRecord /\ recs[s].revision > 0 =>
                /\ Put(recs, r)[s].revision = recs[s].revision
                /\ Put(recs, r)[s] # NoRecord
<1>1. Carries[r].put \in StateIds \cup {NoState}
  BY CarriesAssumption
<1>2. CASE Carries[r].put = NoState
  BY <1>2 DEF Put, NoRecord
<1>3. CASE Carries[r].put # NoState
  <2> DEFINE p == Carries[r].put
             new == [by |-> r, revision |-> IF recs[p] = NoRecord THEN 1 ELSE recs[p].revision]
  <2>1. p \in StateIds
    BY <1>1, <1>3
  <2>2. Put(recs, r) = [recs EXCEPT ![p] = new]
    BY <1>3 DEF Put
  <2>3. new \in [by : Requests \cup {NoOne}, revision : Nat]
    BY <2>1 DEF Records
  <2>4. Put(recs, r) \in Records
    BY <2>2, <2>3 DEF Records
  <2>5. ASSUME NEW s \in StateIds, recs[s] # NoRecord, recs[s].revision > 0
        PROVE  Put(recs, r)[s].revision = recs[s].revision /\ Put(recs, r)[s] # NoRecord
    <3>1. Put(recs, r)[s] = IF s = p THEN new ELSE recs[s]
      BY <2>1, <2>2 DEF Records
    <3>2. Put(recs, r)[s].revision = recs[s].revision
      BY <3>1, <2>5
    <3> HIDE DEF new
    <3> QED
      BY <3>2, <2>5 DEF NoRecord
  <2> QED
    BY <2>4, <2>5
<1> QED
  BY <1>2, <1>3

LEMMA SideEffectsPreserve ==
    ASSUME ContinuityInv, NEW r \in Requests, SideEffects(r)
    PROVE  ContinuityInv'
<1> DEFINE recs == Put(records, r)
           m == Carries[r].move
           t0 == [id |-> m, by |-> r, revision |-> recs[m].revision]
<1>1. /\ recs \in Records
      /\ \A s \in StateIds : records[s] # NoRecord /\ records[s].revision > 0 =>
            recs[s].revision = records[s].revision /\ recs[s] # NoRecord
  BY PutGrows DEF ContinuityInv
<1>2. \A t \in applied : /\ t \in Transitions
                         /\ recs[t.id] # NoRecord
                         /\ t.revision < recs[t.id].revision
  <2> TAKE t \in applied
  <2>1. t \in Transitions /\ records[t.id] # NoRecord /\ t.revision < records[t.id].revision
    BY DEF ContinuityInv, AppliedBelow
  <2>2. t.id \in StateIds /\ t.revision \in Nat /\ records[t.id].revision \in Nat
    BY <2>1 DEF Transitions, ContinuityInv, Records
  <2>3. records[t.id].revision > 0
    BY <2>1, <2>2
  <2>4. recs[t.id].revision = records[t.id].revision /\ recs[t.id] # NoRecord
    BY <1>1, <2>1, <2>2, <2>3
  <2> QED
    BY <2>1, <2>4
<1> HIDE DEF recs
<1>3. CASE m # NoState /\ Accepts(recs, r) /\ records' = Moved(recs, r)
           /\ applied' = applied \cup {t0}
  <2>1. m \in StateIds
    BY <1>3, CarriesAssumption
  <2>2. recs[m] \in [by : Requests \cup {NoOne}, revision : Nat]
    BY <1>1, <2>1 DEF Records
  <2>3. records' = [recs EXCEPT ![m] = [recs[m] EXCEPT !.revision = @ + 1]]
    BY <1>1, <1>3, <2>1 DEF Moved, Records
  <2>4. records' \in Records
    <3> DEFINE moved == [recs[m] EXCEPT !.revision = @ + 1]
    <3>1. moved \in [by : Requests \cup {NoOne}, revision : Nat]
      BY <2>2
    <3>2. records' = [recs EXCEPT ![m] = moved]
      BY <2>3
    <3> HIDE DEF moved
    <3> QED
      BY <1>1, <2>1, <3>1, <3>2 DEF Records
  <2>5. \A s \in StateIds : records'[s].revision =
                                IF s = m THEN recs[m].revision + 1 ELSE recs[s].revision
    BY <1>1, <2>2, <2>3 DEF Records
  <2>6. t0 \in Transitions
    BY <2>1, <2>2 DEF Transitions
  <2>7. applied' \subseteq Transitions
    BY <1>2, <1>3, <2>6
  <2>8. \A t \in applied' : t.id \in StateIds /\ t.revision \in Nat
                            /\ t.revision < records'[t.id].revision
    <3> TAKE t \in applied'
    <3>1. t.id \in StateIds /\ t.revision \in Nat
      BY <2>7 DEF Transitions
    <3>2. CASE t \in applied
      <4>1. t.revision < recs[t.id].revision /\ recs[t.id].revision \in Nat
        BY <1>1, <1>2, <3>1, <3>2 DEF Records
      <4> QED
        BY <2>5, <3>1, <4>1
    <3>3. CASE t = t0
      BY <2>1, <2>2, <2>5, <3>1, <3>3
    <3> QED
      BY <1>3, <3>2, <3>3
  <2>9. AppliedBelow'
    <3> SUFFICES ASSUME NEW t \in applied'
                 PROVE  records'[t.id] # NoRecord /\ t.revision < records'[t.id].revision
      BY DEF AppliedBelow, NoRecord
    <3>1. t.revision \in Nat /\ t.revision < records'[t.id].revision
      BY <2>8
    <3>2. records'[t.id].revision # 0
      BY <2>4, <2>8, <3>1 DEF Records
    <3> QED
      BY <3>1, <3>2 DEF NoRecord
  <2>10. OneTransitionPerRevision'
    <3> SUFFICES ASSUME NEW t \in applied', NEW u \in applied',
                        t.id = u.id, t.revision = u.revision
                 PROVE  t = u
      BY DEF OneTransitionPerRevision
    <3>1. \A x \in applied : ~(x.id = t0.id /\ x.revision = t0.revision)
      <4> SUFFICES ASSUME NEW x \in applied, x.id = m, x.revision = recs[m].revision
                   PROVE  FALSE
        OBVIOUS
      <4>1. x.revision < recs[m].revision
        BY <1>2
      <4> QED
        BY <2>2, <4>1
    <3>2. \A x, y \in applied : x.id = y.id /\ x.revision = y.revision => x = y
      BY DEF ContinuityInv, OneTransitionPerRevision
    <3> HIDE DEF t0
    <3> QED
      BY <1>3, <3>1, <3>2
  <2> QED
    BY <2>4, <2>7, <2>9, <2>10 DEF ContinuityInv
<1>4. CASE records' = recs /\ UNCHANGED applied
  <2>1. AppliedBelow'
    BY <1>2, <1>4 DEF AppliedBelow, NoRecord
  <2>2. OneTransitionPerRevision'
    BY <1>4 DEF ContinuityInv, OneTransitionPerRevision
  <2> QED
    BY <1>1, <1>4, <2>1, <2>2 DEF ContinuityInv
<1> QED
  BY <1>3, <1>4 DEF SideEffects, recs

LEMMA EmptyStoreHolds ==
    ASSUME records = NoRecords, applied = {}
    PROVE  ContinuityInv
BY DEF ContinuityInv, Records, NoRecords, NoRecord, AppliedBelow, OneTransitionPerRevision

\* The invariant is inductive (InMemoryExecutionStateStore).
THEOREM ContinuityInvariant == ContinuitySpec => []ContinuityInv
<1>1. ContinuityInit => ContinuityInv
  BY EmptyStoreHolds DEF ContinuityInit
<1>2. ContinuityInv /\ [ContinuityNext]_allVars => ContinuityInv'
  <2> SUFFICES ASSUME ContinuityInv, [ContinuityNext]_allVars
               PROVE  ContinuityInv'
    OBVIOUS
  <2>1. CASE UNCHANGED continuity
    BY <2>1 DEF continuity, ContinuityInv, AppliedBelow, OneTransitionPerRevision
  <2>2. ASSUME NEW r \in Requests, WriteRoute(r)
        PROVE  ContinuityInv'
    <3>1. SideEffects(r) \/ UNCHANGED continuity
      BY <2>2 DEF WriteRoute
    <3> QED
      BY <2>1, <3>1, SideEffectsPreserve
  <2>3. CASE ContinuityCrash
    <3>1. (records = NoRecords /\ applied = {})'
      BY <2>3 DEF ContinuityCrash, NoRecords, NoRecord
    <3> QED
      BY <3>1 DEF ContinuityInv, Records, NoRecords, NoRecord, AppliedBelow,
                  OneTransitionPerRevision
  <2> QED
    BY <2>1, <2>2, <2>3 DEF ContinuityNext, allVars
<1> QED
  BY <1>1, <1>2, PTL DEF ContinuitySpec

\* Of two transitions prepared for one revision of an execution state at most one is ever
\* applied while the process is up, whatever states are put in between
\* (InMemoryExecutionStateStore.put, applyTransition).
THEOREM TransitionsAreSerial == ContinuitySpec => []OneTransitionPerRevision
<1>1. ContinuityInv => OneTransitionPerRevision
  BY DEF ContinuityInv
<1> QED
  BY <1>1, ContinuityInvariant, PTL

\* The states beside the rows change nothing of them: every behaviour with execution states is
\* one of the write path and the reviews, so what is proved of those holds here
\* (applyWriteSideEffects runs after the write and touches no row).
THEOREM ContinuityImplementsMemory == ContinuitySpec => MemorySpec
<1>1. ContinuityInit => MemoryInit
  BY DEF ContinuityInit
<1>2. [ContinuityNext]_allVars => [MemoryNext]_vars
  BY DEF ContinuityNext, MemoryNext, WriteRoute, ContinuityCrash, allVars
<1> QED
  BY <1>1, <1>2, PTL DEF ContinuitySpec, MemorySpec

-----------------------------------------------------------------------------
(* States and rows *)

\* Who put a state has been answered.
PutByAnswered ==
    \A s \in StateIds : records[s] # NoRecord =>
        records[s].by \in Requests /\ phase[records[s].by] = "answered"

LEMMA AnsweredStays ==
    ASSUME StoreInv, ControlInv, FlagInv, WriteInv, [MemoryNext]_vars,
           NEW r \in Requests, phase[r] = "answered"
    PROVE  phase'[r] = "answered"
<1>1. ASSUME NEW q \in Requests, Write(q) PROVE phase'[r] = "answered"
  <2>1. q # r
    BY <1>1, WriteStepStores DEF Write
  <2>2. PICK p : GoTo(q, p)
    BY <1>1 DEF Write, WriteStep,
       WriteRejected, WriteThrows, WriteStored, EmbeddingReturns, EmbeddingFails
  <2>3. QED
    BY <2>1, <2>2, GoToMoves
<1>2. CASE \E v \in Reviews : Review(v)
  BY <1>2 DEF Review, writing
<1>3. CASE Crash
  BY <1>3 DEF Crash, WriteCrash
<1>4. CASE UNCHANGED vars
  BY <1>4 DEF vars, writing
<1>5. QED
  BY <1>1, <1>2, <1>3, <1>4 DEF MemoryNext

\* put names the request, applyTransition keeps the name.
LEMMA SideEffectsName ==
    ASSUME records \in Records, NEW r \in Requests, SideEffects(r), NEW s \in StateIds
    PROVE  \/ records'[s].by = r
           \/ records[s] # NoRecord /\ records'[s].by = records[s].by
           \/ records'[s] = NoRecord
<1> DEFINE recs == Put(records, r)
           m == Carries[r].move
<1>1. recs \in Records
  BY PutGrows
<1>2. recs[s] = records[s] \/ recs[s].by = r
  BY CarriesAssumption DEF Put, Records
<1>3. CASE m # NoState /\ Accepts(recs, r) /\ records' = Moved(recs, r)
  <2>1. m \in StateIds /\ recs[m] # NoRecord
    BY <1>3, CarriesAssumption DEF Accepts
  <2>2. records'[s].by = recs[s].by /\ (s # m => records'[s] = recs[s])
    BY <1>1, <1>3, <2>1 DEF Moved, Records
  <2>3. recs[s] = NoRecord => records'[s] = NoRecord
    BY <2>1, <2>2
  <2>4. QED
    BY <1>2, <2>2, <2>3
<1>4. CASE records' = recs
  BY <1>2, <1>4
<1>5. QED
  BY <1>3, <1>4 DEF SideEffects

LEMMA PutStep ==
    ASSUME StoreInv, ControlInv, FlagInv, WriteInv, ContinuityInv, PutByAnswered,
           [ContinuityNext]_allVars
    PROVE  PutByAnswered'
<1>1. [MemoryNext]_vars
  BY DEF ContinuityNext, MemoryNext, WriteRoute, ContinuityCrash, allVars
<1>2. ASSUME UNCHANGED records PROVE PutByAnswered'
  BY <1>1, <1>2, AnsweredStays DEF PutByAnswered, NoRecord
<1>3. ASSUME NEW r \in Requests, WriteRoute(r) PROVE PutByAnswered'
  <2>1. CASE UNCHANGED continuity
    BY <1>2, <2>1 DEF continuity
  <2>2. CASE phase'[r] = "answered" /\ SideEffects(r)
    <3>1. SUFFICES ASSUME NEW s \in StateIds, records'[s] # NoRecord
                   PROVE  records'[s].by \in Requests /\ phase'[records'[s].by] = "answered"
      BY DEF PutByAnswered, NoRecord
    <3>2. CASE records'[s].by = r
      BY <2>2, <3>2
    <3>3. CASE records[s] # NoRecord /\ records'[s].by = records[s].by
      BY <1>1, <3>3, AnsweredStays DEF PutByAnswered
    <3>4. QED
      BY <2>2, <3>1, <3>2, <3>3, SideEffectsName DEF ContinuityInv
  <2>3. QED
    BY <1>3, <2>1, <2>2 DEF WriteRoute
<1>4. CASE ContinuityCrash
  BY <1>4 DEF ContinuityCrash, PutByAnswered, NoRecords, NoRecord
<1>5. QED
  BY <1>2, <1>3, <1>4 DEF ContinuityNext, continuity, allVars

\* The state a reader recovers from memory has its rows on disk, unless its write ran inside a
\* review's transaction: states are put after the COMMIT and after the embedding is settled
\* (applyWriteSideEffects, applyHandoffExecutionTransitions), and what is on disk stays there.
THEOREM RecoveredStatesAreStored == ContinuitySpec => []StatesAreStored
<1>1. ContinuityInit => PutByAnswered
  BY DEF ContinuityInit, PutByAnswered, NoRecords, NoRecord
<1>2. MemoryInv /\ LastingInv /\ ContinuityInv /\ PutByAnswered /\ [ContinuityNext]_allVars
      => PutByAnswered'
  BY PutStep DEF MemoryInv, LastingInv
<1>3. LastingInv /\ PutByAnswered => StatesAreStored
  BY DEF LastingInv, WriteInv, Taken, Stored, PutByAnswered, StatesAreStored
<1>4. QED
  BY <1>1, <1>2, <1>3, ContinuityImplementsMemory, MemoryInvariant, ContinuityInvariant, PTL
  DEF ContinuitySpec
=============================================================================
