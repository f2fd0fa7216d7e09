------------------------- MODULE LearningLoopProofs -------------------------
(***************************************************************************)
(* Proofs about LearningLoop: every property its run checks, for any runs, *)
(* rules, handlers and thresholds.                                         *)
(***************************************************************************)
EXTENDS LearningLoop, TLAPS, FiniteSetTheorems

-----------------------------------------------------------------------------
(* What one feedback does to an anchor *)

\* Feedback and review leave a well-formed anchor.
LEMMA LearnedType ==
    ASSUME NEW a \in Anchors, NEW outcome \in Outcomes, NEW r \in Runs \cup {NoRun}
    PROVE  Learned(a, outcome, r) \in Anchors
<1>1. a.observed \in SUBSET Runs /\ a.fresh \in SUBSET Runs /\ a.counter \in Nat /\ a.open \in BOOLEAN
    BY DEF Anchors
<1>2. Remember(a.observed, r) \in SUBSET Runs /\ Remember(a.fresh, r) \in SUBSET Runs
    BY <1>1 DEF Remember
<1>3. Praised(a, r) \in Anchors
  <2> DEFINE observed == Remember(a.observed, r)
             fresh == IF a.counter > 0 /\ r \notin a.observed THEN Remember(a.fresh, r) ELSE a.fresh
             open == a.open /\ ~(Enough(observed, a.counter)
                                 /\ (a.counter = 0 \/ Cardinality(fresh) >= FreshRuns))
  <2>1. observed \in SUBSET Runs /\ fresh \in SUBSET Runs
      BY <1>1, <1>2
  <2>2. open \in BOOLEAN
      BY <1>1
  <2>3. Praised(a, r) = Judged(observed, fresh, a.counter, open)
      BY DEF Praised
  <2> HIDE DEF observed, fresh, open
  <2> QED
      BY <1>1, <2>1, <2>2, <2>3 DEF Judged, Anchors
<1>4. Blamed(a) \in Anchors
    BY <1>1 DEF Blamed, Judged, Anchors
<1> QED
    BY <1>3, <1>4 DEF Learned

LEMMA OverruledType ==
    ASSUME NEW a \in Anchors
    PROVE  /\ Overruled(a) \in Anchors
           /\ Overruled(a).trust = "trusted"
           /\ Overruled(a).observed = a.observed
           /\ Overruled(a).fresh = a.fresh
           /\ Overruled(a).counter = a.counter
           /\ Overruled(a) = a \/ Overruled(a).governed
BY DEF Overruled, Anchors

LEMMA NoEvidenceType == NoEvidence \in Anchors
BY DEF NoEvidence, Anchors

\* A set at the limit is kept, and one below it takes the run in.
LEMMA Remembered ==
    ASSUME NEW runs \in SUBSET Runs, NEW r \in Runs \cup {NoRun}
    PROVE  /\ Remember(runs, r) \in SUBSET Runs
           /\ runs \subseteq Remember(runs, r)
           /\ Remember(runs, r) \subseteq runs \cup ({r} \ {NoRun})
           /\ r \in Runs => r \in Remember(runs, r) \/ Cardinality(runs) >= MaxObserved
           /\ Cardinality(runs) >= MaxObserved => Remember(runs, r) = runs
BY AnchorAssumption DEF Remember

\* Nothing an anchor has observed is lost, and praise from a run is observed unless the anchor
\* is full.
LEMMA LearnedObserves ==
    ASSUME NEW a \in Anchors, NEW outcome \in Outcomes, NEW r \in Runs \cup {NoRun}
    PROVE  LET new == Learned(a, outcome, r) IN
           /\ a.observed \subseteq new.observed
           /\ Full(a) => Full(new)
           /\ outcome = "positive" /\ r # NoRun => r \in new.observed \/ Full(new)
<1>1. a.observed \in SUBSET Runs
    BY DEF Anchors
<1>2. CASE outcome = "positive"
  <2>1. Learned(a, outcome, r).observed = Remember(a.observed, r)
      BY <1>2 DEF Learned, Praised, Judged
  <2>2. /\ a.observed \subseteq Remember(a.observed, r)
        /\ r \in Runs => r \in Remember(a.observed, r) \/ Cardinality(a.observed) >= MaxObserved
        /\ Cardinality(a.observed) >= MaxObserved => Remember(a.observed, r) = a.observed
      BY <1>1, Remembered
  <2> QED
      BY <2>1, <2>2 DEF Full
<1>3. CASE outcome = "negative"
  <2>1. Learned(a, outcome, r).observed = a.observed
      BY <1>3 DEF Learned, Blamed, Judged
  <2> QED
      BY <2>1, <1>3 DEF Full
<1> QED
    BY <1>2, <1>3 DEF Outcomes

-----------------------------------------------------------------------------
(* What each operation makes of a policy *)

Sound(p) == p.state = "active" <=> p.contract = "authoritative"

\* Whatever state is wanted of whatever contract, the policy is one, is sound, and comes into
\* force only on an authoritative contract.
LEMMA NormalizedSound ==
    ASSUME NEW contract \in Contracts, NEW wanted \in LifecycleStates
    PROVE  /\ Normalized(contract, wanted) \in Policies
           /\ Sound(Normalized(contract, wanted))
           /\ Normalized(contract, wanted).state = "active" => contract = "authoritative"
BY DEF Normalized, Policies, Contracts, LifecycleStates, Sound

LEMMA FedBackSound ==
    ASSUME NEW p \in Policies, NEW outcome \in Outcomes
    PROVE  /\ FedBack(p, outcome) \in Policies
           /\ Sound(FedBack(p, outcome))
           /\ FedBack(p, outcome).state = "active" => p.contract = "authoritative"
<1>1. p.contract \in Contracts
    BY DEF Policies
<1> QED
    BY <1>1, NormalizedSound DEF FedBack, LifecycleStates

LEMMA MaterializedSound ==
    ASSUME NEW contract \in Contracts
    PROVE  /\ FedBack(Materialized(contract), "positive") \in Policies
           /\ Sound(FedBack(Materialized(contract), "positive"))
<1>1. Materialized(contract) \in Policies
    BY NormalizedSound DEF Materialized, LifecycleStates
<1> QED
    BY <1>1, FedBackSound DEF Outcomes

\* Governance brings a policy into force only with a live contract, or keeps it there.
LEMMA GovernedSound ==
    ASSUME NEW p \in Policies, NEW action \in GovernanceActions,
           NEW live \in Contracts \cup {NoContract},
           action = "retire" \/ live # NoContract
    PROVE  /\ Governed(p, action, live) \in Policies
           /\ Sound(Governed(p, action, live))
           /\ Governed(p, action, live).state = "active" => live # NoContract
<1>1. p.contract \in Contracts /\ p.state \in LifecycleStates
    BY DEF Policies
<1>2. CASE action = "retire"
  <2>1. Governed(p, action, live) = Normalized(p.contract, "retired")
      BY <1>2 DEF Governed
  <2>2. Normalized(p.contract, "retired").state = "retired"
      BY DEF Normalized
  <2> QED
      BY <1>1, <2>1, <2>2, NormalizedSound DEF LifecycleStates
<1>3. CASE action # "retire"
  <2>1. live \in Contracts
      BY <1>3
  <2>2. Governed(p, action, live) = Normalized(live, "active")
        \/ Governed(p, action, live) = Normalized(live, p.state)
      BY <1>3 DEF Governed, GovernanceActions
  <2> QED
      BY <1>1, <1>3, <2>1, <2>2, NormalizedSound DEF LifecycleStates
<1> QED
    BY <1>2, <1>3

-----------------------------------------------------------------------------
(* Types *)

Flags == /\ given \in Nat /\ crashes \in Nat
         /\ overruled \in BOOLEAN /\ everTrusted \in BOOLEAN

JobsOK ==
    /\ job \in [Handlers -> Jobs]
    /\ \A h \in Handlers :
        /\ job[h].at = "materializing" <=> job[h].contract # NoContract
        /\ job[h].at \in {"creating", "recreating", "materializing"} => job[h].outcome = "positive"

PolicyOK == policy \in Policies \cup {Absent, Erased}

TypeInv == LearningTypeOK /\ JobsOK /\ Flags

\* A request that ends, fails or waits leaves the jobs in order.
LEMMA JobsKept ==
    ASSUME JobsOK, NEW h \in Handlers,
           NEW j \in Jobs, NEW at \in {"creating", "review", "recreating", "materializing"},
           job' = [job EXCEPT ![h] = Idle]
           \/ /\ job' = [job EXCEPT ![h] = [j EXCEPT !.at = at]]
              /\ at = "materializing" <=> j.contract # NoContract
              /\ at \in {"creating", "recreating", "materializing"} => j.outcome = "positive"
    PROVE  JobsOK'
<1>1. Idle \in Jobs /\ Idle.at = "idle" /\ Idle.contract = NoContract
    BY DEF Idle, Jobs, Outcomes
<1>2. [j EXCEPT !.at = at] \in Jobs /\ [j EXCEPT !.at = at].at = at
      /\ [j EXCEPT !.at = at].contract = j.contract
      /\ [j EXCEPT !.at = at].outcome = j.outcome
    BY DEF Jobs
<1> QED
    BY <1>1, <1>2 DEF JobsOK

\* The end of the handler keeps the types of jobs, policy and history.
LEMMA TouchType ==
    ASSUME JobsOK, PolicyOK, confirmed \subseteq Runs,
           NEW h \in Handlers, NEW j \in Jobs, j.contract = NoContract,
           NEW a, TouchPolicy(h, j, a)
    PROVE  JobsOK' /\ PolicyOK' /\ (confirmed \subseteq Runs)'
<1>0. j.outcome \in Outcomes /\ j.run \in Runs \cup {NoRun}
    BY DEF Jobs
<1>1. ASSUME Answered(h, j) PROVE JobsOK' /\ (confirmed \subseteq Runs)'
    BY <1>0, <1>1, JobsKept DEF Answered
<1>2. CASE FeedPolicy(j.outcome) /\ Answered(h, j)
  <2>1. IsPolicy(policy) => policy \in Policies
      BY DEF PolicyOK, IsPolicy
  <2>2. PolicyOK'
      BY <1>0, <1>2, <2>1, FedBackSound DEF FeedPolicy, PolicyOK
  <2> QED
      BY <1>1, <1>2, <2>2
<1>3. ASSUME NEW c \in Contracts, j.outcome = "positive", UNCHANGED policy,
             Await(h, [j EXCEPT !.contract = c], "materializing")
      PROVE  JobsOK' /\ PolicyOK' /\ (confirmed \subseteq Runs)'
  <2>1. [j EXCEPT !.contract = c] \in Jobs /\ [j EXCEPT !.contract = c].contract = c
        /\ [j EXCEPT !.contract = c].outcome = "positive"
      BY <1>3 DEF Jobs
  <2> DEFINE k == [j EXCEPT !.contract = c]
  <2>2. /\ k \in Jobs /\ k.contract # NoContract /\ k.outcome = "positive"
        /\ job' = [job EXCEPT ![h] = [k EXCEPT !.at = "materializing"]]
      BY <1>3, <2>1, LoopAssumption DEF Await
  <2> HIDE DEF k
  <2>3. JobsOK'
      BY <2>2, JobsKept
  <2> QED
      BY <1>3, <2>3 DEF Await, PolicyOK
<1>4. ASSUME NEW c \in Contracts, policy' = FedBack(Materialized(c), "positive"), Answered(h, j)
      PROVE  JobsOK' /\ PolicyOK' /\ (confirmed \subseteq Runs)'
    BY <1>1, <1>4, MaterializedSound DEF PolicyOK
<1> QED
    BY <1>2, <1>3, <1>4 DEF TouchPolicy

\* So does what follows the writing of an anchor.
LEMMA AfterAnchorType ==
    ASSUME JobsOK, PolicyOK, confirmed \subseteq Runs,
           NEW h \in Handlers, NEW j \in Jobs, j.contract = NoContract,
           NEW a, AfterAnchor(h, j, a)
    PROVE  JobsOK' /\ PolicyOK' /\ (confirmed \subseteq Runs)'
<1>1. CASE TouchPolicy(h, j, a)
    BY <1>1, TouchType
<1>2. CASE Await(h, [j EXCEPT !.stable = Trusted(a)], "review") /\ UNCHANGED policy
  <2>1. Trusted(a) \in BOOLEAN
      BY DEF Trusted
  <2>2. [j EXCEPT !.stable = Trusted(a)] \in Jobs
        /\ [j EXCEPT !.stable = Trusted(a)].contract = NoContract
      BY <2>1 DEF Jobs
  <2>3. JobsOK'
      BY <1>2, <2>2, JobsKept DEF Await
  <2> QED
      BY <1>2, <2>3 DEF Await, PolicyOK
<1> QED
    BY <1>1, <1>2 DEF AfterAnchor

LEMMA FailedType ==
    ASSUME JobsOK, PolicyOK, confirmed \subseteq Runs, NEW h \in Handlers,
           Failed(h), UNCHANGED policy
    PROVE  JobsOK' /\ PolicyOK' /\ (confirmed \subseteq Runs)'
<1>1. Idle \in Jobs
    BY DEF Idle, Jobs, Outcomes
<1>2. JobsOK'
    BY <1>1, JobsKept DEF Failed
<1> QED
    BY <1>2 DEF Failed, PolicyOK

-----------------------------------------------------------------------------
(* The ways an anchor moves *)

HistoryKept == UNCHANGED <<anchor, praised, since, blamed, overruled, everTrusted>>

\* Activation takes the anchor's slots and with them its history.
AnchorErased ==
    /\ anchor \in Anchors /\ anchor' = Erased
    /\ praised' = {} /\ since' = {} /\ blamed' = 0 /\ overruled' = FALSE
    /\ UNCHANGED everTrusted

\* A feedback learned for the first time, or once more with a review's verdict.
AnchorWritten(j, a) ==
    \/ j.at # "review" /\ WriteAnchor(Learned(a, j.outcome, j.run), j)
    \/ /\ j.at \in {"review", "recreating"}
       /\ WriteAnchor(Overruled(Learned(a, j.outcome, j.run)), j)

\* Every step keeps the anchor, erases it, or writes it from what it is or from no evidence.
AnchorMoves ==
    \/ HistoryKept
    \/ AnchorErased
    \/ \E j \in Jobs : anchor \in Anchors /\ AnchorWritten(j, anchor)
    \/ \E j \in Jobs : /\ anchor = Absent /\ j.outcome = "positive" /\ j.at # "review"
                       /\ AnchorWritten(j, NoEvidence)

LEMMA FeedbackMoves ==
    ASSUME TypeInv, NEW h \in Handlers, Feedback(h)
    PROVE  AnchorMoves /\ JobsOK' /\ PolicyOK' /\ (confirmed \subseteq Runs)'
<1> USE DEF TypeInv, LearningTypeOK
<1>1. PICK run \in Runs \cup {NoRun}, outcome \in Outcomes :
        LET j == [Idle EXCEPT !.run = run, !.outcome = outcome, !.joined = foreign] IN
        CASE anchor = Erased ->
                    Failed(h) /\ KeepAnchor /\ UNCHANGED policy
             [] anchor = Absent /\ outcome = "negative" ->
                    TouchPolicy(h, j, anchor) /\ KeepAnchor
             [] anchor = Absent /\ outcome = "positive" ->
                    Await(h, j, "creating") /\ KeepAnchor /\ UNCHANGED policy
             [] OTHER ->
                    LET new == Learned(anchor, outcome, j.run)
                    IN  WriteAnchor(new, j) /\ AfterAnchor(h, j, new)
    BY DEF Feedback
<1> DEFINE j == [Idle EXCEPT !.run = run, !.outcome = outcome, !.joined = foreign]
<1>2. /\ j \in Jobs /\ j.contract = NoContract /\ j.at = "idle"
      /\ j.outcome = outcome /\ j.run = run
    BY DEF Idle, Jobs
<1>3. JobsOK /\ PolicyOK
    BY DEF PolicyOK
<1> HIDE DEF j
<1>4. CASE anchor = Erased
  <2>1. Failed(h) /\ KeepAnchor /\ UNCHANGED policy
      BY <1>1, <1>4, LoopAssumption
  <2> QED
      BY <2>1, <1>3, FailedType DEF KeepAnchor, AnchorMoves, HistoryKept
<1>5. CASE anchor = Absent /\ outcome = "negative"
  <2>1. TouchPolicy(h, j, anchor) /\ KeepAnchor
      BY <1>1, <1>5, LoopAssumption DEF j
  <2> QED
      BY <2>1, <1>2, <1>3, TouchType DEF KeepAnchor, AnchorMoves, HistoryKept
<1>6. CASE anchor = Absent /\ outcome = "positive"
  <2>1. Await(h, j, "creating") /\ KeepAnchor /\ UNCHANGED policy
      BY <1>1, <1>6, LoopAssumption DEF j
  <2>2. JobsOK'
      BY <2>1, <1>2, <1>3, <1>6, JobsKept DEF Await
  <2> QED
      BY <2>1, <2>2, <1>3 DEF Await, KeepAnchor, AnchorMoves, HistoryKept, PolicyOK
<1>7. CASE anchor \in Anchors
  <2>1. anchor # Erased /\ anchor # Absent
      BY <1>7, LoopAssumption
  <2>2. /\ WriteAnchor(Learned(anchor, outcome, j.run), j)
        /\ AfterAnchor(h, j, Learned(anchor, outcome, j.run))
      BY <1>1, <2>1 DEF j
  <2>3. AnchorMoves
      BY <1>2, <1>7, <2>2 DEF AnchorMoves, AnchorWritten
  <2> QED
      BY <2>2, <2>3, <1>2, <1>3, AfterAnchorType
<1> QED
    BY <1>4, <1>5, <1>6, <1>7 DEF Outcomes

LEMMA CreateMoves ==
    ASSUME TypeInv, NEW h \in Handlers, Create(h)
    PROVE  AnchorMoves /\ JobsOK' /\ PolicyOK' /\ (confirmed \subseteq Runs)'
<1> DEFINE j == [job[h] EXCEPT !.joined = foreign]
           new == Learned(NoEvidence, "positive", j.run)
<1>1. j \in Jobs /\ j.at = "creating" /\ j.contract = NoContract /\ j.outcome = "positive"
    BY DEF TypeInv, LearningTypeOK, JobsOK, Jobs, Create
<1>2. JobsOK /\ PolicyOK /\ confirmed \subseteq Runs
    BY DEF TypeInv, LearningTypeOK, PolicyOK
<1>3. CASE anchor = Absent
  <2>1. WriteAnchor(new, j) /\ AfterAnchor(h, j, new)
      BY <1>3 DEF Create
  <2> HIDE DEF j
  <2>2. AnchorMoves
      BY <1>1, <1>3, <2>1 DEF AnchorMoves, AnchorWritten
  <2> QED
      BY <1>1, <1>2, <2>1, <2>2, AfterAnchorType
<1>4. CASE anchor # Absent
  <2>1. Failed(h) /\ KeepAnchor /\ UNCHANGED policy
      BY <1>4 DEF Create
  <2> QED
      BY <1>2, <2>1, FailedType DEF KeepAnchor, AnchorMoves, HistoryKept
<1> QED
    BY <1>3, <1>4

LEMMA RecreateMoves ==
    ASSUME TypeInv, NEW h \in Handlers, Recreate(h)
    PROVE  AnchorMoves /\ JobsOK' /\ PolicyOK' /\ (confirmed \subseteq Runs)'
<1> DEFINE j == [job[h] EXCEPT !.joined = foreign]
           new == Overruled(Learned(NoEvidence, "positive", j.run))
<1>1. j \in Jobs /\ j.at = "recreating" /\ j.contract = NoContract /\ j.outcome = "positive"
    BY DEF TypeInv, LearningTypeOK, JobsOK, Jobs, Recreate
<1>2. JobsOK /\ PolicyOK /\ confirmed \subseteq Runs
    BY DEF TypeInv, LearningTypeOK, PolicyOK
<1>3. CASE anchor = Absent
  <2>1. WriteAnchor(new, j) /\ TouchPolicy(h, j, new)
      BY <1>3 DEF Recreate
  <2> HIDE DEF j
  <2>2. AnchorMoves
      BY <1>1, <1>3, <2>1 DEF AnchorMoves, AnchorWritten
  <2> QED
      BY <1>1, <1>2, <2>1, <2>2, TouchType
<1>4. CASE anchor # Absent
  <2>1. Failed(h) /\ KeepAnchor /\ UNCHANGED policy
      BY <1>4 DEF Recreate
  <2> QED
      BY <1>2, <2>1, FailedType DEF KeepAnchor, AnchorMoves, HistoryKept
<1> QED
    BY <1>3, <1>4

\* What a review may do: leave the anchor, write it, or go and embed a new one.
ReviewDoes(h) ==
    LET j == job[h]
        new == Overruled(Learned(anchor, j.outcome, j.run))
    IN  \/ KeepAnchor /\ TouchPolicy(h, j, anchor)
        \/ Failed(h) /\ KeepAnchor /\ UNCHANGED policy
        \/ /\ j.outcome = "positive" /\ Await(h, j, "recreating")
           /\ KeepAnchor /\ UNCHANGED policy
        \/ anchor \in Anchors /\ WriteAnchor(new, j) /\ TouchPolicy(h, j, new)

LEMMA ReviewCases ==
    ASSUME TypeInv, NEW h \in Handlers, Review(h)
    PROVE  ReviewDoes(h)
<1>1. anchor \in Anchors \cup {Absent, Erased} /\ job[h].outcome \in Outcomes /\ Absent # Erased
    BY LoopAssumption DEF TypeInv, LearningTypeOK, JobsOK, Jobs
<1>2. CASE anchor = Erased
    BY <1>1, <1>2 DEF Review, ReviewDoes
<1>3. CASE anchor = Absent
    BY <1>1, <1>3 DEF Review, ReviewDoes, Outcomes
<1>4. CASE anchor \in Anchors
  <2>1. anchor # Absent /\ anchor # Erased
      BY <1>4, LoopAssumption
  <2> QED
      BY <1>4, <2>1 DEF Review, ReviewDoes
<1> QED
    BY <1>1, <1>2, <1>3, <1>4

LEMMA ReviewMoves ==
    ASSUME TypeInv, NEW h \in Handlers, Review(h)
    PROVE  AnchorMoves /\ JobsOK' /\ PolicyOK' /\ (confirmed \subseteq Runs)'
<1> DEFINE j == job[h]
           new == Overruled(Learned(anchor, j.outcome, j.run))
<1>1. j \in Jobs /\ j.at = "review" /\ j.contract = NoContract
    BY DEF TypeInv, JobsOK, Review
<1>2. JobsOK /\ PolicyOK /\ confirmed \subseteq Runs
    BY DEF TypeInv, LearningTypeOK, PolicyOK
<1>3. \/ KeepAnchor /\ TouchPolicy(h, j, anchor)
      \/ Failed(h) /\ KeepAnchor /\ UNCHANGED policy
      \/ /\ j.outcome = "positive" /\ Await(h, j, "recreating")
         /\ KeepAnchor /\ UNCHANGED policy
      \/ anchor \in Anchors /\ WriteAnchor(new, j) /\ TouchPolicy(h, j, new)
    BY ReviewCases DEF ReviewDoes
<1> HIDE DEF j
<1>4. CASE KeepAnchor /\ TouchPolicy(h, j, anchor)
    BY <1>1, <1>2, <1>4, TouchType DEF KeepAnchor, AnchorMoves, HistoryKept
<1>5. CASE Failed(h) /\ KeepAnchor /\ UNCHANGED policy
    BY <1>2, <1>5, FailedType DEF KeepAnchor, AnchorMoves, HistoryKept
<1>6. CASE anchor \in Anchors /\ WriteAnchor(new, j) /\ TouchPolicy(h, j, new)
  <2>1. AnchorMoves
      BY <1>1, <1>6 DEF AnchorMoves, AnchorWritten
  <2> QED
      BY <1>1, <1>2, <1>6, <2>1, TouchType
<1>7. CASE /\ j.outcome = "positive" /\ Await(h, j, "recreating")
           /\ KeepAnchor /\ UNCHANGED policy
  <2>1. JobsOK'
      BY <1>1, <1>2, <1>7, JobsKept DEF Await
  <2> QED
      BY <1>2, <1>7, <2>1 DEF Await, KeepAnchor, AnchorMoves, HistoryKept, PolicyOK
<1> QED
    BY <1>3, <1>4, <1>5, <1>6, <1>7

LEMMA MaterializeMoves ==
    ASSUME TypeInv, NEW h \in Handlers, Materialize(h)
    PROVE  AnchorMoves /\ JobsOK' /\ PolicyOK' /\ (confirmed \subseteq Runs)'
<1> DEFINE j == job[h]
<1>1. j \in Jobs /\ j.contract \in Contracts
    BY DEF TypeInv, JobsOK, Jobs, Materialize
<1>2. JobsOK /\ PolicyOK /\ confirmed \subseteq Runs
    BY DEF TypeInv, LearningTypeOK, PolicyOK
<1>3. AnchorMoves
    BY DEF Materialize, KeepAnchor, AnchorMoves, HistoryKept
<1>4. CASE policy' = FedBack(Materialized(j.contract), "positive") /\ Answered(h, j)
  <2>1. PolicyOK'
      BY <1>1, <1>4, MaterializedSound DEF PolicyOK
  <2>2. (confirmed \subseteq Runs)'
      BY <1>1, <1>2, <1>4 DEF Answered, Jobs
  <2>3. JobsOK'
      BY <1>1, <1>2, <1>4, JobsKept DEF Answered
  <2> QED
      BY <1>3, <2>1, <2>2, <2>3
<1>5. CASE Failed(h) /\ UNCHANGED policy
    BY <1>2, <1>3, <1>5, FailedType
<1> QED
    BY <1>4, <1>5 DEF Materialize

-----------------------------------------------------------------------------
(* Answered runs are observed *)

\* What is stored has the run, or is full; an erased anchor is none and never becomes one.
Has(a, r) == a # Absent /\ (a \in Anchors => r \in a.observed \/ Full(a))

\* A praise past the anchor that wrote it on its own.
Owed(j) == ~j.joined /\ j.outcome = "positive" /\ j.run # NoRun

\* The anchor a has every run that was answered, and the run of every request that is past it
\* and will be.
RunsKept(a) ==
    /\ a \in Anchors => confirmed \subseteq a.observed \/ Full(a)
    /\ a = Absent => confirmed = {}
    /\ \A g \in Handlers :
        job[g].at \in {"review", "materializing"} /\ Owed(job[g]) => Has(a, job[g].run)

RunsKeptNext(a) ==
    /\ a \in Anchors => confirmed' \subseteq a.observed \/ Full(a)
    /\ a = Absent => confirmed' = {}
    /\ \A g \in Handlers :
        job'[g].at \in {"review", "materializing"} /\ Owed(job'[g]) => Has(a, job'[g].run)

\* Implies AnsweredRunsAreObserved: the anchor that is read has the runs, and so has the one a
\* rollback would bring back.
ObservedInv == RunsKept(anchor) /\ RunsKept(disk.anchor)

\* An anchor that is kept or learns from a feedback still has every run it had.
LEMMA AnchorKeepsRuns ==
    ASSUME TypeInv, AnchorMoves, NEW r \in Runs, Has(anchor, r)
    PROVE  Has(anchor', r)
<1>1. CASE HistoryKept
    BY <1>1 DEF HistoryKept, Has, Full
<1>2. CASE AnchorErased
    BY <1>2, LoopAssumption DEF AnchorErased, Has
<1>3. ASSUME NEW j \in Jobs, anchor \in Anchors, AnchorWritten(j, anchor)
      PROVE  Has(anchor', r)
  <2> DEFINE new == Learned(anchor, j.outcome, j.run)
  <2>1. new \in Anchors /\ anchor.observed \subseteq new.observed /\ (Full(anchor) => Full(new))
      BY <1>3, LearnedType, LearnedObserves DEF Jobs
  <2> HIDE DEF new
  <2>2. Overruled(new) \in Anchors /\ Overruled(new).observed = new.observed
      BY <2>1, OverruledType
  <2>3. anchor' \in {new, Overruled(new)}
      BY <1>3 DEF AnchorWritten, WriteAnchor, new
  <2> QED
      BY <1>3, <2>1, <2>2, <2>3, LoopAssumption DEF Full, Has
<1>4. anchor # Absent
    BY DEF Has
<1> QED
    BY <1>1, <1>2, <1>3, <1>4 DEF AnchorMoves

LEMMA AnchorKeepsObserved ==
    ASSUME TypeInv, RunsKept(anchor), AnchorMoves
    PROVE  RunsKept(anchor')
<1>1. confirmed \subseteq Runs /\ anchor \in Anchors \cup {Absent, Erased}
    BY DEF TypeInv, LearningTypeOK
<1>2. \A r \in confirmed : Has(anchor, r)
    BY <1>1, LoopAssumption DEF RunsKept, Has, Full
<1>3. \A r \in confirmed : Has(anchor', r)
    BY <1>1, <1>2, AnchorKeepsRuns
<1>4. ASSUME NEW g \in Handlers, job[g].at \in {"review", "materializing"}, Owed(job[g])
      PROVE  Has(anchor', job[g].run)
  <2>1. Has(anchor, job[g].run)
      BY <1>4 DEF RunsKept
  <2>2. job[g].run \in Runs
      BY <1>4 DEF TypeInv, JobsOK, Jobs, Owed
  <2> QED
      BY <2>1, <2>2, AnchorKeepsRuns
<1> QED
    BY <1>3, <1>4 DEF RunsKept, Has, Full

\* The run of the request h handles is where it should be, whatever becomes of the request.
LEMMA RequestObserved ==
    ASSUME TypeInv, NEW a, RunsKept(a), NEW h \in Handlers, NEW j \in Jobs,
           \/ Failed(h)
           \/ Answered(h, j) /\ (Owed(j) => Has(a, j.run))
           \/ \E k \in Jobs : Await(h, k, "creating") \/ Await(h, k, "recreating")
           \/ \E k \in Jobs, at \in {"review", "materializing"} :
                /\ Await(h, k, at)
                /\ k.outcome = j.outcome /\ k.run = j.run /\ k.joined = j.joined
                /\ Owed(j) => Has(a, j.run)
    PROVE  RunsKeptNext(a)
<1>1. ASSUME NEW k \in Jobs, job' = [job EXCEPT ![h] = k],
             k.at \in {"review", "materializing"} /\ Owed(k) => Has(a, k.run)
      PROVE  \A g \in Handlers :
                job'[g].at \in {"review", "materializing"} /\ Owed(job'[g]) => Has(a, job'[g].run)
  <2>1. job'[h] = k /\ \A g \in Handlers \ {h} : job'[g] = job[g]
      BY <1>1 DEF TypeInv, JobsOK
  <2> TAKE g \in Handlers
  <2>2. CASE g = h
      BY <1>1, <2>1, <2>2
  <2>3. CASE g # h
      BY <2>1, <2>3 DEF RunsKept
  <2> QED
      BY <2>2, <2>3
<1>2. Idle \in Jobs /\ Idle.at = "idle"
    BY DEF Idle, Jobs, Outcomes
<1>3. CASE Failed(h)
    BY <1>1, <1>2, <1>3 DEF Failed, RunsKept, RunsKeptNext
<1>4. CASE Answered(h, j) /\ (Owed(j) => Has(a, j.run))
  <2>1. \/ confirmed' = confirmed
        \/ Has(a, j.run) /\ confirmed' = confirmed \cup {j.run}
      BY <1>4 DEF Answered, Owed
  <2>2. /\ a \in Anchors => confirmed' \subseteq a.observed \/ Full(a)
        /\ a = Absent => confirmed' = {}
      BY <2>1 DEF RunsKept, Has
  <2>3. job' = [job EXCEPT ![h] = Idle]
      BY <1>4 DEF Answered
  <2> QED
      BY <1>1, <1>2, <2>2, <2>3 DEF RunsKeptNext
<1>5. ASSUME NEW k \in Jobs, NEW at \in {"creating", "review", "recreating", "materializing"},
             Await(h, k, at),
             at \in {"review", "materializing"} =>
                /\ k.outcome = j.outcome /\ k.run = j.run /\ k.joined = j.joined
                /\ Owed(j) => Has(a, j.run)
      PROVE  RunsKeptNext(a)
  <2> DEFINE l == [k EXCEPT !.at = at]
  <2>1. /\ l \in Jobs /\ l.at = at
        /\ l.outcome = k.outcome /\ l.run = k.run /\ l.joined = k.joined
        /\ job' = [job EXCEPT ![h] = l] /\ confirmed' = confirmed
      BY <1>5 DEF Await, Jobs
  <2> HIDE DEF l
  <2>2. l.at \in {"review", "materializing"} /\ Owed(l) => Has(a, l.run)
      BY <1>5, <2>1 DEF Owed
  <2> QED
      BY <1>1, <2>1, <2>2 DEF RunsKept, RunsKeptNext
<1> QED
    BY <1>3, <1>4, <1>5

LEMMA TouchObserved ==
    ASSUME TypeInv, NEW a, RunsKept(a), NEW h \in Handlers, NEW j \in Jobs,
           Owed(j) => Has(a, j.run),
           NEW b, TouchPolicy(h, j, b)
    PROVE  RunsKeptNext(a)
<1>1. CASE Answered(h, j)
    BY <1>1, RequestObserved
<1>2. ASSUME NEW c \in Contracts, Await(h, [j EXCEPT !.contract = c], "materializing")
      PROVE  RunsKeptNext(a)
  <2> DEFINE k == [j EXCEPT !.contract = c]
  <2>1. k \in Jobs /\ k.outcome = j.outcome /\ k.run = j.run /\ k.joined = j.joined
      BY DEF Jobs
  <2>2. Await(h, k, "materializing")
      BY <1>2
  <2> HIDE DEF k
  <2> QED
      BY <2>1, <2>2, RequestObserved
<1> QED
    BY <1>1, <1>2 DEF TouchPolicy

LEMMA AfterAnchorObserved ==
    ASSUME TypeInv, NEW a, RunsKept(a), NEW h \in Handlers, NEW j \in Jobs,
           Owed(j) => Has(a, j.run),
           NEW b, AfterAnchor(h, j, b)
    PROVE  RunsKeptNext(a)
<1>1. CASE TouchPolicy(h, j, b)
    BY <1>1, TouchObserved
<1>2. CASE Await(h, [j EXCEPT !.stable = Trusted(b)], "review")
  <2> DEFINE k == [j EXCEPT !.stable = Trusted(b)]
  <2>1. k \in Jobs /\ k.outcome = j.outcome /\ k.run = j.run /\ k.joined = j.joined
      BY DEF Jobs, Trusted
  <2>2. Await(h, k, "review")
      BY <1>2
  <2> HIDE DEF k
  <2> QED
      BY <2>1, <2>2, RequestObserved
<1> QED
    BY <1>1, <1>2 DEF AfterAnchor

\* A written anchor has the run it was written for.
LEMMA WrittenHas ==
    ASSUME NEW a \in Anchors, NEW j \in Jobs, AnchorWritten(j, a)
    PROVE  anchor' \in Anchors /\ (Owed(j) => Has(anchor', j.run))
<1> DEFINE new == Learned(a, j.outcome, j.run)
<1>1. new \in Anchors /\ (Owed(j) => j.run \in new.observed \/ Full(new))
    BY LearnedType, LearnedObserves DEF Jobs, Owed
<1>2. anchor' \in {new, Overruled(new)}
    BY DEF AnchorWritten, WriteAnchor
<1> HIDE DEF new
<1> QED
    BY <1>1, <1>2, OverruledType, LoopAssumption DEF Has, Full

\* In the lemmas below the anchor a is the one that is read, or one that another's transaction
\* keeps the step's writes from.
LEMMA ObservedByFeedback ==
    ASSUME TypeInv, NEW a, RunsKept(a), foreign \/ a = anchor', NEW h \in Handlers, Feedback(h)
    PROVE  RunsKeptNext(a)
<1>1. PICK run \in Runs \cup {NoRun}, outcome \in Outcomes :
        LET j == [Idle EXCEPT !.run = run, !.outcome = outcome, !.joined = foreign] IN
        CASE anchor = Erased ->
                    Failed(h) /\ KeepAnchor /\ UNCHANGED policy
             [] anchor = Absent /\ outcome = "negative" ->
                    TouchPolicy(h, j, anchor) /\ KeepAnchor
             [] anchor = Absent /\ outcome = "positive" ->
                    Await(h, j, "creating") /\ KeepAnchor /\ UNCHANGED policy
             [] OTHER ->
                    LET new == Learned(anchor, outcome, j.run)
                    IN  WriteAnchor(new, j) /\ AfterAnchor(h, j, new)
    BY DEF Feedback
<1> DEFINE k == [Idle EXCEPT !.run = run, !.outcome = outcome, !.joined = foreign]
<1>2. /\ k \in Jobs /\ k.at = "idle" /\ k.outcome = outcome /\ k.run = run /\ k.joined = foreign
    BY DEF Idle, Jobs, TypeInv, LearningTypeOK
<1>3. anchor \in Anchors \cup {Absent, Erased} /\ Absent # Erased
      /\ Absent \notin Anchors /\ Erased \notin Anchors
    BY LoopAssumption DEF TypeInv, LearningTypeOK
<1> HIDE DEF k
<1>4. CASE anchor = Erased
  <2>1. Failed(h)
      BY <1>1, <1>3, <1>4
  <2> QED
      BY <1>2, <2>1, RequestObserved
<1>5. CASE anchor = Absent /\ outcome = "negative"
  <2>1. TouchPolicy(h, k, anchor)
      BY <1>1, <1>3, <1>5 DEF k
  <2>2. ~Owed(k)
      BY <1>2, <1>5 DEF Owed
  <2> QED
      BY <1>2, <2>1, <2>2, TouchObserved
<1>6. CASE anchor = Absent /\ outcome = "positive"
  <2>1. Await(h, k, "creating")
      BY <1>1, <1>3, <1>6 DEF k
  <2> QED
      BY <1>2, <2>1, RequestObserved
<1>7. CASE anchor \in Anchors
  <2>1. /\ WriteAnchor(Learned(anchor, outcome, k.run), k)
        /\ AfterAnchor(h, k, Learned(anchor, outcome, k.run))
      BY <1>1, <1>3, <1>7 DEF k
  <2>2. Owed(k) => Has(anchor', k.run)
      BY <1>2, <1>7, <2>1, WrittenHas DEF AnchorWritten
  <2>3. Owed(k) => Has(a, k.run)
      BY <1>2, <2>2 DEF Owed
  <2> QED
      BY <1>2, <2>1, <2>3, AfterAnchorObserved
<1> QED
    BY <1>3, <1>4, <1>5, <1>6, <1>7 DEF Outcomes

LEMMA ObservedByCreate ==
    ASSUME TypeInv, NEW a, RunsKept(a), foreign \/ a = anchor',
           NEW h \in Handlers, Create(h) \/ Recreate(h)
    PROVE  RunsKeptNext(a)
<1> DEFINE k == [job[h] EXCEPT !.joined = foreign]
           new == Learned(NoEvidence, "positive", k.run)
<1>1. /\ k \in Jobs /\ k.at \in {"creating", "recreating"}
      /\ k.outcome = "positive" /\ k.joined = foreign
    BY DEF TypeInv, LearningTypeOK, JobsOK, Jobs, Create, Recreate
<1>2. \/ Failed(h)
      \/ WriteAnchor(new, k) /\ AfterAnchor(h, k, new)
      \/ /\ k.at = "recreating"
         /\ WriteAnchor(Overruled(new), k) /\ TouchPolicy(h, k, Overruled(new))
    BY DEF Create, Recreate, TypeInv, JobsOK, Jobs
<1> HIDE DEF k
<1>3. ASSUME WriteAnchor(new, k) \/ (k.at = "recreating" /\ WriteAnchor(Overruled(new), k))
      PROVE  Owed(k) => Has(a, k.run)
  <2>1. AnchorWritten(k, NoEvidence)
      BY <1>1, <1>3 DEF AnchorWritten
  <2>2. Owed(k) => Has(anchor', k.run)
      BY <1>1, <2>1, WrittenHas, NoEvidenceType
  <2> QED
      BY <1>1, <2>2 DEF Owed
<1>4. CASE Failed(h)
    BY <1>1, <1>4, RequestObserved
<1>5. CASE WriteAnchor(new, k) /\ AfterAnchor(h, k, new)
    BY <1>1, <1>3, <1>5, AfterAnchorObserved
<1>6. CASE /\ k.at = "recreating"
           /\ WriteAnchor(Overruled(new), k) /\ TouchPolicy(h, k, Overruled(new))
    BY <1>1, <1>3, <1>6, TouchObserved
<1> QED
    BY <1>2, <1>4, <1>5, <1>6

LEMMA ObservedByReview ==
    ASSUME TypeInv, NEW a, RunsKept(a), NEW h \in Handlers, Review(h)
    PROVE  RunsKeptNext(a)
<1> DEFINE k == job[h]
<1>1. k \in Jobs /\ (Owed(k) => Has(a, k.run))
    BY DEF TypeInv, JobsOK, RunsKept, Review
<1>2. \/ Failed(h) \/ Await(h, k, "recreating")
      \/ \E b \in {anchor, Overruled(Learned(anchor, k.outcome, k.run))} : TouchPolicy(h, k, b)
    BY ReviewCases DEF ReviewDoes
<1> HIDE DEF k
<1> QED
    BY <1>1, <1>2, TouchObserved, RequestObserved

LEMMA ObservedByMaterialize ==
    ASSUME TypeInv, NEW a, RunsKept(a), NEW h \in Handlers, Materialize(h) \/ EmbeddingFails(h)
    PROVE  RunsKeptNext(a)
<1> DEFINE k == job[h]
<1>1. k \in Jobs
    BY DEF TypeInv, JobsOK
<1>2. Failed(h) \/ (Answered(h, k) /\ (Owed(k) => Has(a, k.run)))
    BY DEF Materialize, EmbeddingFails, RunsKept
<1> HIDE DEF k
<1> QED
    BY <1>1, <1>2, RequestObserved

-----------------------------------------------------------------------------
(* The step *)

\* What is committed stays, or becomes what is stored; a step that leaves it behind is one in
\* another's transaction or moves nothing.
LEMMA DiskMoves ==
    ASSUME TypeInv, [Next]_vars
    PROVE  disk' = Stored' \/ (disk' = disk /\ (foreign \/ UNCHANGED loop))
<1>1. CASE ReviewOpens \/ ReviewRollsBack \/ UNCHANGED vars
    BY <1>1 DEF ReviewOpens, ReviewRollsBack, TakenBack, vars
<1>2. CASE ReviewCommits
    BY <1>2 DEF ReviewCommits, Stored, loop, tallies, evidence
<1>3. CASE LoopStep /\ Statements
    BY <1>3 DEF Statements, TypeInv, LearningTypeOK
<1>4. CASE Crash
    BY <1>4 DEF Crash, Statements, TakenBack, TypeInv, LearningTypeOK
<1> QED
    BY <1>1, <1>2, <1>3, <1>4 DEF Next

\* A rollback brings back what is committed.
LEMMA TakenBackStored ==
    ASSUME TypeInv, TakenBack
    PROVE  Stored' = disk /\ disk' = disk /\ ~foreign'
BY DEF TakenBack, Stored, TypeInv, LearningTypeOK, Stores

\* The process dies in the middle of its own writes.
LEMMA DyingMoves ==
    ASSUME TypeInv, DiesWriting
    PROVE  AnchorMoves
<1>1. CASE KeepAnchor
    BY <1>1 DEF KeepAnchor, AnchorMoves, HistoryKept
<1>2. ASSUME NEW run \in Runs \cup {NoRun}, NEW outcome \in Outcomes, anchor \in Anchors,
             WriteAnchor(Learned(anchor, outcome, run),
                         [Idle EXCEPT !.run = run, !.outcome = outcome])
      PROVE  AnchorMoves
  <2> DEFINE j == [Idle EXCEPT !.run = run, !.outcome = outcome]
  <2>1. j \in Jobs /\ j.at = "idle" /\ j.outcome = outcome /\ j.run = run
      BY DEF Idle, Jobs
  <2>2. WriteAnchor(Learned(anchor, outcome, run), j)
      BY <1>2
  <2> HIDE DEF j
  <2> QED
      BY <1>2, <2>1, <2>2 DEF AnchorMoves, AnchorWritten
<1>3. ASSUME NEW h \in Handlers, job[h].at = "creating", anchor = Absent,
             WriteAnchor(Learned(NoEvidence, "positive", job[h].run), job[h])
      PROVE  AnchorMoves
    BY <1>3 DEF AnchorMoves, AnchorWritten, TypeInv, JobsOK
<1>4. ASSUME NEW h \in Handlers, job[h].at = "recreating", anchor = Absent,
             WriteAnchor(Overruled(Learned(NoEvidence, "positive", job[h].run)), job[h])
      PROVE  AnchorMoves
    BY <1>4 DEF AnchorMoves, AnchorWritten, TypeInv, JobsOK
<1>5. ASSUME NEW h \in Handlers, job[h].at = "review", anchor \in Anchors,
             WriteAnchor(Overruled(Learned(anchor, job[h].outcome, job[h].run)), job[h])
      PROVE  AnchorMoves
    BY <1>5 DEF AnchorMoves, AnchorWritten, TypeInv, JobsOK
<1> QED
    BY <1>1, <1>2, <1>3, <1>4, <1>5 DEF DiesWriting, TypeInv, LearningTypeOK

LEMMA NextMoves ==
    ASSUME TypeInv, [Next]_vars
    PROVE  (TakenBack \/ AnchorMoves) /\ JobsOK' /\ PolicyOK' /\ (confirmed \subseteq Runs)'
<1> DEFINE Goal == (TakenBack \/ AnchorMoves) /\ JobsOK' /\ PolicyOK' /\ (confirmed \subseteq Runs)'
<1>0. JobsOK /\ PolicyOK /\ confirmed \subseteq Runs
    BY DEF PolicyOK, TypeInv, LearningTypeOK
<1>1. ASSUME NEW h \in Handlers, Feedback(h) PROVE Goal
    BY <1>1, FeedbackMoves
<1>2. ASSUME NEW h \in Handlers, Create(h) \/ Recreate(h) PROVE Goal
    BY <1>2, CreateMoves, RecreateMoves
<1>3. ASSUME NEW h \in Handlers, Review(h) PROVE Goal
    BY <1>3, ReviewMoves
<1>4. ASSUME NEW h \in Handlers, Materialize(h) PROVE Goal
    BY <1>4, MaterializeMoves
<1>5. ASSUME NEW h \in Handlers, EmbeddingFails(h) PROVE Goal
    BY <1>0, <1>5, FailedType DEF EmbeddingFails, KeepAnchor, AnchorMoves, HistoryKept
<1>6. CASE UNCHANGED loop
    BY <1>0, <1>6 DEF loop, evidence, AnchorMoves, HistoryKept, JobsOK, PolicyOK
<1>7. CASE AskGovernance
    BY <1>0, <1>7 DEF AskGovernance, evidence, AnchorMoves, HistoryKept, JobsOK, PolicyOK
<1>8. CASE ApplyGovernance
  <2>1. PolicyOK'
    <3>1. IsPolicy(policy) => policy \in Policies
        BY <1>0 DEF PolicyOK, IsPolicy
    <3>2. governing.action \in GovernanceActions /\ governing.live \in Contracts \cup {NoContract}
        BY DEF TypeInv, LearningTypeOK
    <3> QED
        BY <1>0, <1>8, <3>1, <3>2, GovernedSound DEF ApplyGovernance, PolicyOK
  <2> QED
      BY <1>0, <1>8, <2>1 DEF ApplyGovernance, evidence, AnchorMoves, HistoryKept, JobsOK
<1>9. CASE Activate
    BY <1>0, <1>9
       DEF Activate, evidence, AnchorMoves, AnchorErased, HistoryKept, JobsOK, PolicyOK,
           TypeInv, LearningTypeOK
<1>10. ASSUME TakenBack, job' = job \/ job' = [h \in Handlers |-> Idle] PROVE Goal
  <2>1. Idle \in Jobs /\ Idle.at = "idle" /\ Idle.contract = NoContract
      BY DEF Idle, Jobs, Outcomes
  <2>2. PolicyOK'
      BY <1>10 DEF TakenBack, PolicyOK, TypeInv, LearningTypeOK, Stores
  <2> QED
      BY <1>0, <1>10, <2>1, <2>2 DEF TakenBack, JobsOK
<1>11. CASE Crash
  <2>1. Idle \in Jobs /\ Idle.at = "idle" /\ Idle.contract = NoContract
      BY DEF Idle, Jobs, Outcomes
  <2>2. CASE TakenBack
      BY <1>10, <1>11, <2>2 DEF Crash
  <2>3. CASE KeepAnchor \/ DiesWriting
    <3>1. AnchorMoves
        BY <2>3, DyingMoves DEF KeepAnchor, AnchorMoves, HistoryKept
    <3>2. TakenBack \/ UNCHANGED <<policy, confirmed>>
        BY <1>11 DEF Crash
    <3> QED
        BY <1>0, <1>11, <2>1, <2>2, <3>1, <3>2 DEF Crash, JobsOK, PolicyOK
  <2> QED
      BY <1>11, <2>2, <2>3 DEF Crash
<1>12. CASE ReviewOpens \/ ReviewCommits \/ ReviewRollsBack
    BY <1>6, <1>10, <1>12 DEF ReviewOpens, ReviewCommits, ReviewRollsBack
<1>13. CASE UNCHANGED vars
    BY <1>6, <1>13 DEF vars
<1>14. CASE LoopStep
    BY <1>1, <1>2, <1>3, <1>4, <1>5, <1>7, <1>8, <1>9, <1>14 DEF LoopStep, FeedbackStep
<1> QED
    BY <1>11, <1>12, <1>13, <1>14 DEF Next

\* An anchor that moves keeps its type, and its history its own.
LEMMA AnchorMovesType ==
    ASSUME TypeInv, AnchorMoves
    PROVE  /\ anchor' \in Anchors \cup {Absent, Erased}
           /\ praised' \subseteq Runs /\ since' \subseteq praised'
           /\ blamed' \in Nat /\ overruled' \in BOOLEAN /\ everTrusted' \in BOOLEAN
<1> USE DEF TypeInv, LearningTypeOK, Flags
<1>1. CASE HistoryKept
    BY <1>1 DEF HistoryKept
<1>2. CASE AnchorErased
    BY <1>2 DEF AnchorErased
<1>3. ASSUME NEW a \in Anchors, NEW j \in Jobs, AnchorWritten(j, a)
      PROVE  /\ anchor' \in Anchors
             /\ praised' \subseteq Runs /\ since' \subseteq praised'
             /\ blamed' \in Nat /\ overruled' \in BOOLEAN /\ everTrusted' \in BOOLEAN
  <2>1. anchor' \in Anchors
      BY <1>3, WrittenHas
  <2>2. WriteAnchor(anchor', j)
      BY <1>3 DEF AnchorWritten, WriteAnchor
  <2>3. anchor'.governed \in BOOLEAN /\ j.run \in Runs \cup {NoRun}
      BY <1>3, <2>1 DEF Anchors, Jobs
  <2> QED
      BY <2>1, <2>2, <2>3 DEF WriteAnchor
<1> QED
    BY <1>1, <1>2, <1>3, NoEvidenceType DEF AnchorMoves

\* Counters may fall behind the rows, by one for every crash.
Counted(r, c, n) == \A x \in Rules : c[x] <= r[x] /\ r[x] <= c[x] + n

TalliesOK ==
    /\ Counted(rows, counts, crashes)
    /\ Counted(disk.rows, disk.counts, crashes)

LEMMA RecordedCounted ==
    ASSUME rows \in [Rules -> Nat], counts \in [Rules -> Nat], crashes \in Nat,
           Counted(rows, counts, crashes),
           NEW written \in SUBSET Rules, NEW counted \in SUBSET written,
           Recorded(written, counted),
           crashes' = crashes + 1 \/ (crashes' = crashes /\ counted = written)
    PROVE  /\ rows' \in [Rules -> Nat] /\ counts' \in [Rules -> Nat]
           /\ Counted(rows', counts', crashes')
<1>1. \A r \in Rules : /\ rows'[r] = IF r \in written THEN rows[r] + 1 ELSE rows[r]
                       /\ counts'[r] = IF r \in counted THEN counts[r] + 1 ELSE counts[r]
                       /\ rows[r] \in Nat /\ counts[r] \in Nat
    BY DEF Recorded
<1>2. rows' \in [Rules -> Nat] /\ counts' \in [Rules -> Nat]
    BY DEF Recorded
<1> QED
    BY <1>1, <1>2 DEF Counted

\* What one step does to the counters and bounds, and to what it leaves on disk.
LEMMA TalliesCases ==
    ASSUME TypeInv, [Next]_vars
    PROVE  \/ UNCHANGED tallies /\ UNCHANGED given /\ (crashes' = crashes \/ crashes' = crashes + 1)
           \/ TakenBack /\ UNCHANGED given /\ (crashes' = crashes \/ crashes' = crashes + 1)
           \/ /\ given' = given + 1 /\ crashes' = crashes
              /\ Recorded(Rules, Rules)
           \/ /\ given' = given + 1 /\ crashes' = crashes + 1
              /\ \E written \in SUBSET Rules : \E counted \in SUBSET written :
                    Recorded(written, counted)
<1>1. CASE LoopStep
    BY <1>1 DEF LoopStep, FeedbackStep, Feedback, Create, Review, Recreate, Materialize,
                EmbeddingFails, AskGovernance, ApplyGovernance, Activate
<1>2. CASE ReviewOpens \/ ReviewCommits \/ UNCHANGED vars
    BY <1>2 DEF ReviewOpens, ReviewCommits, vars, loop
<1>3. CASE ReviewRollsBack
    BY <1>3 DEF ReviewRollsBack
<1>4. CASE Crash
  <2>1. crashes' = crashes + 1
      BY <1>4 DEF Crash
  <2>2. CASE DiesWriting
    <3>1. \/ UNCHANGED <<tallies, given>>
          \/ /\ given' = given + 1
             /\ \/ Recorded(Rules, Rules)
                \/ \E written \in SUBSET Rules :
                     \E counted \in IF written = Rules THEN SUBSET Rules ELSE {{}} :
                         Recorded(written, counted)
        BY <2>2 DEF DiesWriting
    <3> QED
        BY <2>1, <3>1
  <2> QED
      BY <1>4, <2>1, <2>2 DEF Crash
<1> QED
    BY <1>1, <1>2, <1>3, <1>4 DEF Next

LEMMA TalliesStep ==
    ASSUME TypeInv, TalliesOK, [Next]_vars
    PROVE  /\ rows' \in [Rules -> Nat] /\ counts' \in [Rules -> Nat]
           /\ given' \in Nat /\ crashes' \in Nat
           /\ TalliesOK'
<1>1. /\ rows \in [Rules -> Nat] /\ counts \in [Rules -> Nat]
      /\ disk.rows \in [Rules -> Nat] /\ disk.counts \in [Rules -> Nat]
      /\ given \in Nat /\ crashes \in Nat
    BY DEF TypeInv, LearningTypeOK, Flags, Stores
<1>2. given' \in Nat /\ crashes' \in Nat /\ crashes' >= crashes
    BY <1>1, TalliesCases
<1>3. Counted(disk.rows, disk.counts, crashes')
    BY <1>1, <1>2 DEF TalliesOK, Counted
<1>4. /\ rows' \in [Rules -> Nat] /\ counts' \in [Rules -> Nat]
      /\ Counted(rows', counts', crashes')
  <2>1. CASE UNCHANGED tallies
      BY <1>1, <1>2, <2>1 DEF tallies, TalliesOK, Counted
  <2>2. CASE TakenBack
      BY <1>1, <1>3, <2>2 DEF TakenBack
  <2>3. CASE crashes' = crashes /\ Recorded(Rules, Rules)
      BY <1>1, <2>3, RecordedCounted DEF TalliesOK
  <2>4. ASSUME crashes' = crashes + 1, NEW written \in SUBSET Rules, NEW counted \in SUBSET written,
               Recorded(written, counted)
        PROVE  /\ rows' \in [Rules -> Nat] /\ counts' \in [Rules -> Nat]
               /\ Counted(rows', counts', crashes')
      BY <1>1, <2>4, RecordedCounted DEF TalliesOK
  <2> QED
      BY <2>1, <2>2, <2>3, <2>4, TalliesCases
<1>5. Counted(disk'.rows, disk'.counts, crashes')
    BY <1>3, <1>4, DiskMoves DEF Stored
<1> QED
    BY <1>2, <1>4, <1>5 DEF TalliesOK

\* The governance request keeps its type.
GovernanceOK ==
    governing \in [at : {"idle", "live"}, action : GovernanceActions,
                   live : Contracts \cup {NoContract}]

LEMMA GoverningMoves ==
    ASSUME [Next]_vars
    PROVE  governing' = governing \/ governing' = Ungoverned \/ AskGovernance
<1>1. CASE LoopStep
    BY <1>1 DEF LoopStep, FeedbackStep, Feedback, Create, Review, Recreate, Materialize,
                EmbeddingFails, ApplyGovernance, Activate
<1> QED
    BY <1>1 DEF Next, ReviewOpens, ReviewCommits, ReviewRollsBack, Crash, vars, loop

LEMMA GovernanceStep ==
    ASSUME GovernanceOK, [Next]_vars
    PROVE  GovernanceOK'
<1>1. Ungoverned \in [at : {"idle", "live"}, action : GovernanceActions,
                      live : Contracts \cup {NoContract}]
    BY DEF Ungoverned, GovernanceActions
<1>2. CASE AskGovernance
    BY <1>2 DEF AskGovernance, GovernanceOK
<1> QED
    BY <1>1, <1>2, GoverningMoves DEF GovernanceOK

\* Whether a transaction is open, and what is committed, keep their types.
LEMMA DiskType ==
    ASSUME TypeInv, [Next]_vars, (Stored \in Stores)', (since \subseteq praised)'
    PROVE  /\ foreign' \in BOOLEAN
           /\ disk' \in Stores /\ disk'.since \subseteq disk'.praised
           /\ ~foreign' => disk' = Stored'
<1>1. disk \in Stores /\ disk.since \subseteq disk.praised /\ foreign \in BOOLEAN
      /\ (~foreign => disk = Stored)
    BY DEF TypeInv, LearningTypeOK
<1>2. disk' \in Stores /\ disk'.since \subseteq disk'.praised
    BY <1>1, DiskMoves DEF Stored
<1>3. foreign' \in BOOLEAN /\ (~foreign' => disk' = Stored')
  <2>1. CASE LoopStep /\ Statements
      BY <1>1, <2>1 DEF Statements
  <2>2. CASE ReviewOpens
      BY <2>2 DEF ReviewOpens
  <2>3. CASE ReviewCommits
      BY <2>3 DEF ReviewCommits, Stored, loop, tallies, evidence
  <2>4. CASE TakenBack
      BY <2>4, TakenBackStored DEF TakenBack
  <2>5. CASE Crash
      BY <1>1, <2>4, <2>5 DEF Crash, Statements
  <2>6. CASE UNCHANGED vars
      BY <1>1, <2>6 DEF vars, loop, tallies, evidence, Stored
  <2> QED
      BY <2>1, <2>2, <2>3, <2>4, <2>5, <2>6 DEF Next, ReviewRollsBack
<1> QED
    BY <1>2, <1>3

-----------------------------------------------------------------------------
(* Trust is earned *)

\* What the slots of an anchor say of its history: what was observed was praised and every
\* blame counted; trust that no review gave has its runs; while no praise was forgotten, the
\* fresh runs are the ones new since the last blame; and closed counter evidence has enough.
Evidence(a, p, s, b, o) ==
    /\ a.observed \subseteq p
    /\ b <= a.counter
    /\ a.trust = "trusted" /\ ~a.governed => ~a.open /\ Enough(a.observed, a.counter)
    /\ Cardinality(p) <= MaxObserved => p \subseteq a.observed /\ a.fresh \subseteq s
    /\ ~a.open /\ a.counter > 0 /\ ~o => Cardinality(a.fresh) >= FreshRuns

EvidenceOf(a, p, s, b, o) ==
    /\ a = Absent => p = {} /\ s = {} /\ b = 0 /\ ~o
    /\ a \in Anchors => Evidence(a, p, s, b, o)

EvidenceInv == EvidenceOf(anchor, praised, since, blamed, overruled)
EvidenceOn(d) == EvidenceOf(d.anchor, d.praised, d.since, d.blamed, d.overruled)

LEMMA RunSets ==
    ASSUME NEW T \in SUBSET Runs, NEW S \in SUBSET T
    PROVE  /\ IsFiniteSet(T) /\ Cardinality(S) \in Nat /\ Cardinality(T) \in Nat
           /\ Cardinality(S) <= Cardinality(T)
<1>1. IsFiniteSet(T)
    BY AnchorAssumption, FS_Subset
<1> QED
    BY <1>1, FS_Subset, FS_CardinalityType

LEMMA OneMore ==
    ASSUME NEW T \in SUBSET Runs, NEW r \in Runs, r \notin T
    PROVE  Cardinality(T \cup {r}) = Cardinality(T) + 1
BY RunSets, FS_AddElement

LEMMA NoEvidenceYet == Evidence(NoEvidence, {}, {}, 0, FALSE)
BY DEF Evidence, NoEvidence

LEMMA BlamedEvidence ==
    ASSUME NEW a \in Anchors, NEW p \in SUBSET Runs, NEW s \in SUBSET p, NEW b \in Nat, NEW o,
           Evidence(a, p, s, b, o)
    PROVE  Evidence(Blamed(a), p, {}, b, FALSE) /\ Evidence(Blamed(a), p, {}, b + 1, FALSE)
<1>1. a.counter \in Nat
    BY DEF Anchors
<1>2. /\ Blamed(a).observed = a.observed /\ Blamed(a).fresh = {}
      /\ Blamed(a).counter = a.counter + 1 /\ Blamed(a).open
      /\ Blamed(a).trust = "contested"
    BY DEF Blamed, Judged
<1> QED
    BY <1>1, <1>2 DEF Evidence

LEMMA PraisedEvidence ==
    ASSUME NEW a \in Anchors, NEW p \in SUBSET Runs, NEW s \in SUBSET p, NEW b \in Nat,
           NEW o \in BOOLEAN, NEW r \in Runs \cup {NoRun},
           Evidence(a, p, s, b, o)
    PROVE  Evidence(Praised(a, r), p \cup ({r} \ {NoRun}),
                    s \cup ({r} \ ({NoRun} \cup p)), b, o)
<1> DEFINE observed == Remember(a.observed, r)
           fresh == IF a.counter > 0 /\ r \notin a.observed THEN Remember(a.fresh, r) ELSE a.fresh
           open == a.open /\ ~(Enough(observed, a.counter)
                               /\ (a.counter = 0 \/ Cardinality(fresh) >= FreshRuns))
           np == p \cup ({r} \ {NoRun})
           ns == s \cup ({r} \ ({NoRun} \cup p))
           new == Praised(a, r)
<1>1. /\ a.observed \in SUBSET Runs /\ a.fresh \in SUBSET Runs
      /\ a.counter \in Nat /\ a.open \in BOOLEAN
    BY DEF Anchors
<1>2. /\ observed \in SUBSET Runs /\ a.observed \subseteq observed
      /\ observed \subseteq a.observed \cup ({r} \ {NoRun})
    BY <1>1, Remembered
<1>3. /\ Remember(a.fresh, r) \in SUBSET Runs /\ a.fresh \subseteq Remember(a.fresh, r)
      /\ Remember(a.fresh, r) \subseteq a.fresh \cup ({r} \ {NoRun})
    BY <1>1, Remembered
<1>4. fresh \in SUBSET Runs /\ a.fresh \subseteq fresh
    BY <1>1, <1>3
<1>5. /\ new.observed = observed /\ new.fresh = fresh /\ new.counter = a.counter
      /\ new.open = open /\ new.governed = FALSE
      /\ new.trust = "trusted" => ~open /\ Enough(observed, a.counter)
    BY DEF Praised, Judged
<1>6. Cardinality(np) <= MaxObserved => np \subseteq observed /\ fresh \subseteq ns
  <2>1. SUFFICES ASSUME Cardinality(np) <= MaxObserved
                 PROVE  np \subseteq observed /\ fresh \subseteq ns
      OBVIOUS
  <2>2. Cardinality(p) <= Cardinality(np) /\ Cardinality(p) \in Nat /\ Cardinality(np) \in Nat
      BY RunSets
  <2>3. p = a.observed /\ a.fresh \subseteq s
      BY <2>1, <2>2, AnchorAssumption DEF Evidence
  <2>4. r \in Runs /\ r \notin p => Cardinality(p) < MaxObserved
      BY <2>1, <2>2, OneMore, AnchorAssumption
  <2>5. r \in Runs => r \in observed
    <3>1. CASE r \in p
        BY <3>1, <2>3, <1>2
    <3>2. CASE r \in Runs /\ r \notin p
        BY <3>2, <2>2, <2>3, <2>4, AnchorAssumption DEF Remember
    <3> QED
        BY <3>1, <3>2
  <2>6. np \subseteq observed
      BY <2>3, <2>5, <1>2
  <2>7. fresh \subseteq ns
      BY <2>3, <1>3
  <2> QED
      BY <2>6, <2>7
<1>7. ~open /\ a.counter > 0 /\ ~o => Cardinality(fresh) >= FreshRuns
  <2>1. Cardinality(a.fresh) <= Cardinality(fresh)
        /\ Cardinality(a.fresh) \in Nat /\ Cardinality(fresh) \in Nat
      BY <1>4, RunSets
  <2>2. ~a.open /\ a.counter > 0 /\ ~o => Cardinality(a.fresh) >= FreshRuns
      BY DEF Evidence
  <2> HIDE DEF fresh, observed
  <2> QED
      BY <1>1, <2>1, <2>2, AnchorAssumption
<1>8. observed \subseteq np /\ b <= a.counter
    BY <1>2 DEF Evidence
<1> HIDE DEF observed, fresh, open, np, ns, new
<1>9. Evidence(new, np, ns, b, o)
    BY <1>5, <1>6, <1>7, <1>8 DEF Evidence
<1> QED
    BY <1>9 DEF new, np, ns

\* A review's verdict is on record as such.
LEMMA OverruledEvidence ==
    ASSUME NEW a \in Anchors, NEW p \in SUBSET Runs, NEW s, NEW b, NEW o \in BOOLEAN,
           Evidence(a, p, s, b, o)
    PROVE  Evidence(Overruled(a), p, s, b, Overruled(a).governed \/ o)
BY OverruledType DEF Evidence

LEMMA EvidenceStep ==
    ASSUME TypeInv, EvidenceInv, AnchorMoves
    PROVE  EvidenceInv'
<1>0. /\ praised \in SUBSET Runs /\ since \in SUBSET praised /\ blamed \in Nat
      /\ overruled \in BOOLEAN
    BY DEF TypeInv, LearningTypeOK, Flags
<1>1. CASE HistoryKept
    BY <1>1 DEF HistoryKept, EvidenceInv, EvidenceOf
<1>2. CASE AnchorErased
    BY <1>2, LoopAssumption DEF AnchorErased, EvidenceInv, EvidenceOf
<1>3. ASSUME NEW a \in Anchors, NEW j \in Jobs, AnchorWritten(j, a),
             Evidence(a, praised, since, blamed, overruled)
      PROVE  EvidenceInv'
  <2> DEFINE new == Learned(a, j.outcome, j.run)
  <2>1. new \in Anchors /\ j.outcome \in Outcomes /\ j.run \in Runs \cup {NoRun}
      BY LearnedType DEF Jobs
  <2>2. anchor' \in Anchors /\ WriteAnchor(anchor', j) /\ anchor' \in {new, Overruled(new)}
      BY <1>3, <2>1, OverruledType DEF AnchorWritten, WriteAnchor
  <2>3. CASE j.outcome = "positive"
    <3>1. new = Praised(a, j.run) /\ new.governed = FALSE
        BY <2>3 DEF Learned, Praised, Judged
    <3>2. /\ praised' = praised \cup ({j.run} \ {NoRun})
          /\ since' = since \cup ({j.run} \ ({NoRun} \cup praised))
          /\ blamed' = blamed
          /\ overruled' = (anchor'.governed \/ overruled)
        BY <2>2, <2>3 DEF WriteAnchor
    <3>3. Evidence(new, praised', since', blamed', overruled)
        BY <1>0, <1>3, <2>1, <3>1, <3>2, PraisedEvidence
    <3> HIDE DEF new
    <3>4. praised' \in SUBSET Runs
        BY <1>0, <2>1, <3>2
    <3>5. Evidence(Overruled(new), praised', since', blamed', Overruled(new).governed \/ overruled)
        BY <1>0, <2>1, <3>3, <3>4, OverruledEvidence
    <3>6. CASE anchor' = new
      <4>1. overruled' = overruled
          BY <1>0, <3>1, <3>2, <3>6
      <4> QED
          BY <2>2, <3>3, <3>6, <4>1, LoopAssumption DEF EvidenceInv, EvidenceOf
    <3>7. CASE anchor' = Overruled(new)
        BY <2>2, <3>2, <3>5, <3>7, LoopAssumption DEF EvidenceInv, EvidenceOf
    <3> QED
        BY <2>2, <3>6, <3>7
  <2>4. CASE j.outcome = "negative"
    <3>1. new = Blamed(a) /\ new.governed = FALSE
        BY <2>4 DEF Learned, Blamed, Judged
    <3>2. /\ praised' = praised /\ since' = {}
          /\ blamed' = blamed \/ blamed' = blamed + 1
          /\ overruled' = (anchor'.governed \/ FALSE)
        BY <2>2, <2>4 DEF WriteAnchor
    <3>3. Evidence(new, praised', since', blamed', FALSE)
        BY <1>0, <1>3, <3>1, <3>2, BlamedEvidence
    <3> HIDE DEF new
    <3>4. Evidence(Overruled(new), praised', since', blamed', Overruled(new).governed \/ FALSE)
        BY <1>0, <2>1, <3>2, <3>3, OverruledEvidence
    <3>5. CASE anchor' = new
      <4>1. overruled' = FALSE
          BY <3>1, <3>2, <3>5
      <4> QED
          BY <2>2, <3>3, <3>5, <4>1, LoopAssumption DEF EvidenceInv, EvidenceOf
    <3>6. CASE anchor' = Overruled(new)
        BY <2>2, <3>2, <3>4, <3>6, LoopAssumption DEF EvidenceInv, EvidenceOf
    <3> QED
        BY <2>2, <3>5, <3>6
  <2> QED
      BY <2>1, <2>3, <2>4 DEF Outcomes
<1>4. anchor = Absent => Evidence(NoEvidence, praised, since, blamed, overruled)
  <2>1. SUFFICES ASSUME anchor = Absent
                 PROVE  Evidence(NoEvidence, praised, since, blamed, overruled)
      OBVIOUS
  <2>2. praised = {} /\ since = {} /\ blamed = 0 /\ overruled = FALSE
      BY <1>0, <2>1 DEF EvidenceInv, EvidenceOf
  <2> QED
      BY <2>2, NoEvidenceYet
<1> QED
    BY <1>1, <1>2, <1>3, <1>4, NoEvidenceType DEF AnchorMoves, EvidenceInv, EvidenceOf

\* The slots and their history together say that trust is earned.
LEMMA EvidenceEarnsTrust ==
    ASSUME NEW d \in Stores, d.since \subseteq d.praised, EvidenceOn(d)
    PROVE  EarnedIn(d)
<1> SUFFICES ASSUME Earned(d.anchor), Cardinality(d.praised) <= MaxObserved
             PROVE  /\ Cardinality(d.praised) >= MinRuns + d.blamed
                    /\ d.blamed = 0 \/ d.overruled \/ Cardinality(d.since) >= FreshRuns
    BY DEF EarnedIn
<1> DEFINE a == d.anchor
<1>1. /\ a \in Anchors /\ d.praised \in SUBSET Runs /\ d.since \in SUBSET Runs
      /\ d.blamed \in Nat
    BY DEF Stores, Earned, Trusted
<1>2. Evidence(a, d.praised, d.since, d.blamed, d.overruled)
    BY <1>1 DEF EvidenceOn, EvidenceOf
<1>3. a.trust = "trusted" /\ ~a.governed
    BY DEF Earned, Trusted
<1> HIDE DEF a
<1>4. a.counter \in Nat /\ a.observed \in SUBSET d.praised
    BY <1>1, <1>2 DEF Anchors, Evidence
<1>5. /\ Cardinality(a.observed) >= MinRuns + a.counter /\ ~a.open
      /\ d.blamed <= a.counter
    BY <1>2, <1>3 DEF Evidence, Enough
<1>6. /\ Cardinality(a.observed) <= Cardinality(d.praised)
      /\ Cardinality(a.observed) \in Nat /\ Cardinality(d.praised) \in Nat
    BY <1>1, <1>4, RunSets
<1>7. Cardinality(d.praised) >= MinRuns + d.blamed
    BY <1>1, <1>4, <1>5, <1>6, AnchorAssumption
<1>8. a.fresh \in SUBSET d.since
    BY <1>2 DEF Evidence
<1>9. /\ Cardinality(a.fresh) <= Cardinality(d.since)
      /\ Cardinality(a.fresh) \in Nat /\ Cardinality(d.since) \in Nat
    BY <1>1, <1>8, RunSets
<1>10. d.blamed = 0 \/ d.overruled \/ Cardinality(a.fresh) >= FreshRuns
    BY <1>1, <1>2, <1>4, <1>5 DEF Evidence
<1> QED
    BY <1>1, <1>7, <1>9, <1>10, AnchorAssumption

\* Praise leaves a trusted anchor trusted: it opens nothing, and its runs only grow.
LEMMA PraiseKeepsTrust ==
    ASSUME NEW a \in Anchors, NEW r \in Runs \cup {NoRun}, ~a.open, Enough(a.observed, a.counter)
    PROVE  Praised(a, r).trust = "trusted"
<1> DEFINE observed == Remember(a.observed, r)
<1>1. a.observed \in SUBSET Runs /\ a.counter \in Nat
    BY DEF Anchors
<1>2. observed \in SUBSET Runs /\ a.observed \in SUBSET observed
    BY <1>1, Remembered
<1>3. /\ Cardinality(a.observed) <= Cardinality(observed)
      /\ Cardinality(a.observed) \in Nat /\ Cardinality(observed) \in Nat
    BY <1>2, RunSets
<1>4. Enough(observed, a.counter)
    BY <1>1, <1>3, AnchorAssumption DEF Enough
<1> QED
    BY <1>4 DEF Praised, Judged

\* What one write makes of earned trust.
LEMMA EarnedWrite ==
    ASSUME TypeInv, EvidenceInv, Earned(anchor), NEW j \in Jobs, AnchorWritten(j, anchor)
    PROVE  Earned(anchor') \/ blamed' > blamed \/ (Trusted(anchor') /\ overruled')
<1>1. anchor \in Anchors /\ anchor # Absent /\ blamed \in Nat
    BY DEF TypeInv, LearningTypeOK, Earned, Trusted
<1>2. ~anchor.open /\ Enough(anchor.observed, anchor.counter)
    BY <1>1 DEF EvidenceInv, EvidenceOf, Evidence, Earned, Trusted
<1> DEFINE new == Learned(anchor, j.outcome, j.run)
<1>3. new \in Anchors /\ j.outcome \in Outcomes /\ j.run \in Runs \cup {NoRun}
    BY <1>1, LearnedType DEF Jobs
<1>4. j.outcome = "positive" => new.trust = "trusted"
    BY <1>1, <1>2, <1>3, PraiseKeepsTrust DEF Learned
<1>5. new.governed = FALSE
    BY DEF Learned, Praised, Blamed, Judged
<1>6. new # Absent /\ new # Erased /\ Overruled(new) # Absent /\ Overruled(new) # Erased
    BY <1>3, OverruledType, LoopAssumption
<1>7. \/ j.at # "review" /\ WriteAnchor(new, j)
      \/ WriteAnchor(Overruled(new), j)
    BY DEF AnchorWritten
<1> HIDE DEF new
<1>8. CASE j.at # "review" /\ WriteAnchor(new, j)
    BY <1>1, <1>3, <1>4, <1>5, <1>6, <1>8 DEF WriteAnchor, Earned, Trusted, Outcomes
<1>9. CASE WriteAnchor(Overruled(new), j)
  <2>1. /\ anchor' = Overruled(new) /\ anchor'.trust = "trusted"
        /\ Overruled(new) = new \/ Overruled(new).governed
        /\ Overruled(new).governed => overruled'
      BY <1>3, <1>9, OverruledType DEF WriteAnchor
  <2> QED
      BY <1>5, <1>6, <2>1 DEF Earned, Trusted
<1> QED
    BY <1>7, <1>8, <1>9

\* Earned trust that is read falls to a blame or an activation, but for a rollback.
LEMMA EarnedTrustStep ==
    ASSUME TypeInv, EvidenceInv, AnchorMoves, Earned(anchor), ~Trusted(anchor')
    PROVE  blamed' > blamed \/ anchor' = Erased
<1>1. anchor \in Anchors /\ anchor # Absent
    BY LoopAssumption DEF TypeInv, LearningTypeOK, Earned, Trusted
<1>2. ASSUME NEW j \in Jobs, AnchorWritten(j, anchor)
      PROVE  blamed' > blamed
    BY <1>2, EarnedWrite DEF Earned
<1> QED
    BY <1>1, <1>2 DEF AnchorMoves, HistoryKept, AnchorErased, Earned

\* What is read may be ahead of what is committed; then the blame, the activation or the
\* verdict that took the trust is in it too, and is committed with it.
Ahead(d) ==
    /\ d.blamed <= blamed \/ anchor = Erased
    /\ Earned(d.anchor) => Earned(anchor) \/ blamed > d.blamed \/ anchor = Erased \/ overruled

AheadNext(d) ==
    /\ d.blamed <= blamed' \/ anchor' = Erased
    /\ Earned(d.anchor) =>
            Earned(anchor') \/ blamed' > d.blamed \/ anchor' = Erased \/ overruled'

LEMMA AheadStep ==
    ASSUME TypeInv, EvidenceInv, AnchorMoves, NEW d \in Stores, Ahead(d)
    PROVE  AheadNext(d)
<1>0. blamed \in Nat /\ d.blamed \in Nat /\ overruled \in BOOLEAN
    BY DEF TypeInv, LearningTypeOK, Flags, Stores
<1>1. CASE HistoryKept
    BY <1>1 DEF HistoryKept, Ahead, AheadNext, Earned, Trusted
<1>2. CASE AnchorErased
    BY <1>2 DEF AnchorErased, AheadNext
<1>3. ASSUME NEW a \in Anchors, NEW j \in Jobs, AnchorWritten(j, a), anchor # Erased,
             Earned(anchor) => a = anchor
      PROVE  AheadNext(d)
  <2>1. anchor' \in Anchors /\ WriteAnchor(anchor', j) /\ j.outcome \in Outcomes
      BY <1>3, WrittenHas DEF AnchorWritten, WriteAnchor, Jobs
  <2>2. /\ blamed' \in Nat /\ blamed' >= blamed
        /\ overruled => blamed' > blamed \/ overruled'
    <3>1. CASE j.outcome = "positive"
        BY <1>0, <2>1, <3>1 DEF WriteAnchor
    <3>2. CASE j.outcome = "negative" /\ j.at # "review"
        BY <1>0, <2>1, <3>2 DEF WriteAnchor
    <3>3. CASE j.outcome = "negative" /\ j.at = "review"
      <4>1. anchor' = Overruled(Learned(a, "negative", j.run)) /\ Learned(a, "negative", j.run) \in Anchors
          BY <1>3, <3>3, LearnedType DEF AnchorWritten, WriteAnchor, Jobs, Outcomes
      <4>2. Learned(a, "negative", j.run).trust = "contested"
          BY DEF Learned, Blamed, Judged
      <4>3. anchor'.governed
          BY <4>1, <4>2 DEF Overruled, Anchors
      <4> QED
          BY <1>0, <2>1, <3>3, <4>3 DEF WriteAnchor
    <3> QED
        BY <2>1, <3>1, <3>2, <3>3 DEF Outcomes
  <2>3. Earned(anchor) => Earned(anchor') \/ blamed' > blamed \/ overruled'
      BY <1>3, EarnedWrite
  <2>4. d.blamed <= blamed
      BY <1>3 DEF Ahead
  <2>5. d.blamed <= blamed' /\ (blamed > d.blamed => blamed' > d.blamed)
        /\ (blamed' > blamed => blamed' > d.blamed)
      BY <1>0, <2>2, <2>4
  <2> QED
      BY <1>3, <2>2, <2>3, <2>5 DEF Ahead, AheadNext
<1>4. anchor = Absent => anchor # Erased /\ ~Earned(anchor)
    BY LoopAssumption DEF Earned, Trusted
<1>5. anchor \in Anchors => anchor # Erased
    BY LoopAssumption
<1> QED
    BY <1>1, <1>2, <1>3, <1>4, <1>5, NoEvidenceType DEF AnchorMoves

-----------------------------------------------------------------------------
(* A policy in force is authoritative and roots in trust *)

\* What may support a policy; it never goes away.
Rooted == StableWorkflow \/ everTrusted

\* Implies PolicyRootsInTrust: a contract that waits, in a request or with governance, was
\* derived from something that is rooted already.
RootsInv ==
    /\ Trusted(anchor) => everTrusted
    /\ \A h \in Handlers : job[h].at = "materializing" => Rooted
    /\ governing.live # NoContract => Rooted
    /\ IsPolicy(policy) /\ policy.state = "active" => Rooted

\* The same of what is committed, which a rollback brings back.
DiskRoots ==
    /\ Trusted(disk.anchor) => everTrusted
    /\ IsPolicy(disk.policy) =>
            Sound(disk.policy) /\ (disk.policy.state = "active" => Rooted)

\* Trust is remembered, also when an activation takes the anchor.
LEMMA TrustRemembered ==
    ASSUME TypeInv, RootsInv, AnchorMoves
    PROVE  (everTrusted => everTrusted') /\ (Trusted(anchor') => everTrusted')
<1>1. ASSUME NEW a \in Anchors, NEW j \in Jobs, AnchorWritten(j, a)
      PROVE  (everTrusted => everTrusted') /\ (Trusted(anchor') => everTrusted')
    BY <1>1 DEF AnchorWritten, WriteAnchor, Trusted
<1> QED
    BY <1>1, NoEvidenceType
       DEF AnchorMoves, HistoryKept, AnchorErased, RootsInv, Trusted

\* The policy part of the step.
PolicyKept ==
    /\ ActivePolicyIsAuthoritative'
    /\ IsPolicy(policy)' /\ policy'.state = "active" => Rooted'

JobsRooted == \A h \in Handlers : job'[h].at = "materializing" => Rooted'

LEMMA PolicyUntouched ==
    ASSUME ActivePolicyIsAuthoritative, RootsInv, everTrusted => everTrusted', UNCHANGED policy
    PROVE  PolicyKept
BY DEF PolicyKept, ActivePolicyIsAuthoritative, IsPolicy, RootsInv, Rooted

LEMMA JobEnds ==
    ASSUME TypeInv, RootsInv, everTrusted => everTrusted', NEW h \in Handlers,
           NEW k, job' = [job EXCEPT ![h] = k], k.at = "materializing" => Rooted'
    PROVE  JobsRooted
BY DEF TypeInv, JobsOK, RootsInv, Rooted, JobsRooted

LEMMA TouchRoots ==
    ASSUME TypeInv, ActivePolicyIsAuthoritative, RootsInv, everTrusted => everTrusted',
           NEW h \in Handlers, NEW j \in Jobs, NEW a, Trusted(a) => everTrusted',
           TouchPolicy(h, j, a)
    PROVE  PolicyKept /\ JobsRooted
<1>1. Idle.at # "materializing"
    BY DEF Idle
<1>2. ASSUME Answered(h, j) PROVE JobsRooted
    BY <1>1, <1>2, JobEnds DEF Answered
<1>3. CASE FeedPolicy(j.outcome) /\ Answered(h, j)
  <2>1. CASE IsPolicy(policy)
    <3>1. policy \in Policies /\ j.outcome \in Outcomes
        BY <2>1 DEF TypeInv, LearningTypeOK, IsPolicy, Jobs
    <3>2. policy' = FedBack(policy, j.outcome)
        BY <1>3, <2>1 DEF FeedPolicy
    <3>3. Sound(policy') /\ (policy'.state = "active" => policy.contract = "authoritative")
        BY <3>1, <3>2, FedBackSound
    <3>4. policy.contract = "authoritative" => Rooted'
        BY <2>1 DEF ActivePolicyIsAuthoritative, RootsInv, Rooted
    <3>5. PolicyKept
        BY <3>3, <3>4 DEF PolicyKept, ActivePolicyIsAuthoritative, Sound
    <3> QED
        BY <1>2, <1>3, <3>5
  <2>2. CASE ~IsPolicy(policy)
      BY <1>2, <1>3, <2>2, PolicyUntouched DEF FeedPolicy
  <2> QED
      BY <2>1, <2>2
<1>4. ASSUME Supported(a) PROVE Rooted'
    BY <1>4 DEF Supported, RootsInv, Rooted
<1>5. ASSUME NEW c \in Contracts, Supported(a), UNCHANGED policy,
             Await(h, [j EXCEPT !.contract = c], "materializing")
      PROVE  PolicyKept /\ JobsRooted
    BY <1>4, <1>5, JobEnds, PolicyUntouched DEF Await
<1>6. ASSUME NEW c \in Contracts, Supported(a), Answered(h, j),
             policy' = FedBack(Materialized(c), "positive")
      PROVE  PolicyKept /\ JobsRooted
    BY <1>2, <1>4, <1>6, MaterializedSound
       DEF PolicyKept, ActivePolicyIsAuthoritative, Sound
<1> QED
    BY <1>3, <1>5, <1>6 DEF TouchPolicy

LEMMA AfterAnchorRoots ==
    ASSUME TypeInv, ActivePolicyIsAuthoritative, RootsInv, everTrusted => everTrusted',
           NEW h \in Handlers, NEW j \in Jobs, NEW a, Trusted(a) => everTrusted',
           AfterAnchor(h, j, a)
    PROVE  PolicyKept /\ JobsRooted
<1>1. CASE Await(h, [j EXCEPT !.stable = Trusted(a)], "review") /\ UNCHANGED policy
  <2> DEFINE k == [[j EXCEPT !.stable = Trusted(a)] EXCEPT !.at = "review"]
  <2>1. k.at = "review" /\ job' = [job EXCEPT ![h] = k]
      BY <1>1 DEF Await, Jobs
  <2> HIDE DEF k
  <2> QED
      BY <1>1, <2>1, JobEnds, PolicyUntouched
<1> QED
    BY <1>1, TouchRoots DEF AfterAnchor

\* A feedback request, whichever of its steps it takes.
LEMMA FeedbackRoots ==
    ASSUME TypeInv, ActivePolicyIsAuthoritative, RootsInv, AnchorMoves, FeedbackStep
    PROVE  PolicyKept /\ JobsRooted
<1>1. (everTrusted => everTrusted') /\ (Trusted(anchor') => everTrusted')
    BY TrustRemembered
<1>2. Idle.at # "materializing"
    BY DEF Idle
<1>3. ASSUME NEW h \in Handlers, Failed(h), UNCHANGED policy
      PROVE  PolicyKept /\ JobsRooted
    BY <1>1, <1>2, <1>3, JobEnds, PolicyUntouched DEF Failed
<1>4. ASSUME NEW h \in Handlers, NEW j \in Jobs, NEW a \in {anchor, anchor'},
             TouchPolicy(h, j, a) \/ AfterAnchor(h, j, a)
      PROVE  PolicyKept /\ JobsRooted
    BY <1>1, <1>4, TouchRoots, AfterAnchorRoots DEF RootsInv
<1>7. ASSUME NEW h \in Handlers, NEW j \in Jobs, NEW at \in {"creating", "recreating"},
             Await(h, j, at), UNCHANGED policy
      PROVE  PolicyKept /\ JobsRooted
  <2> DEFINE k == [j EXCEPT !.at = at]
  <2>1. k.at # "materializing" /\ job' = [job EXCEPT ![h] = k]
      BY <1>7 DEF Await, Jobs
  <2> HIDE DEF k
  <2> QED
      BY <1>1, <1>7, <2>1, JobEnds, PolicyUntouched
<1>5. ASSUME NEW h \in Handlers, Feedback(h)
      PROVE  PolicyKept /\ JobsRooted
  <2>1. PICK run \in Runs \cup {NoRun}, outcome \in Outcomes :
        LET j == [Idle EXCEPT !.run = run, !.outcome = outcome, !.joined = foreign] IN
        CASE anchor = Erased ->
                    Failed(h) /\ KeepAnchor /\ UNCHANGED policy
             [] anchor = Absent /\ outcome = "negative" ->
                    TouchPolicy(h, j, anchor) /\ KeepAnchor
             [] anchor = Absent /\ outcome = "positive" ->
                    Await(h, j, "creating") /\ KeepAnchor /\ UNCHANGED policy
             [] OTHER ->
                    LET new == Learned(anchor, outcome, j.run)
                    IN  WriteAnchor(new, j) /\ AfterAnchor(h, j, new)
      BY <1>5 DEF Feedback
  <2> DEFINE j == [Idle EXCEPT !.run = run, !.outcome = outcome, !.joined = foreign]
             new == Learned(anchor, outcome, j.run)
  <2>2. j \in Jobs /\ Absent # Erased
      BY LoopAssumption DEF Idle, Jobs, TypeInv, LearningTypeOK
  <2>3. \/ Failed(h) /\ UNCHANGED policy
        \/ TouchPolicy(h, j, anchor)
        \/ Await(h, j, "creating") /\ UNCHANGED policy
        \/ WriteAnchor(new, j) /\ AfterAnchor(h, j, new)
      BY <2>1, <2>2 DEF Outcomes
  <2> HIDE DEF j, new
  <2>4. CASE Await(h, j, "creating") /\ UNCHANGED policy
      BY <1>7, <2>2, <2>4
  <2>5. CASE WriteAnchor(new, j) /\ AfterAnchor(h, j, new)
      BY <1>4, <2>2, <2>5 DEF WriteAnchor
  <2> QED
      BY <1>3, <1>4, <2>2, <2>3, <2>4, <2>5
<1>6. ASSUME NEW h \in Handlers, Create(h) \/ Recreate(h)
      PROVE  PolicyKept /\ JobsRooted
  <2> DEFINE j == [job[h] EXCEPT !.joined = foreign]
  <2>1. j \in Jobs
      BY DEF TypeInv, LearningTypeOK, JobsOK, Jobs
  <2>2. \/ Failed(h) /\ UNCHANGED policy
        \/ TouchPolicy(h, j, anchor') \/ AfterAnchor(h, j, anchor')
      BY <1>6 DEF Create, Recreate, WriteAnchor
  <2> HIDE DEF j
  <2> QED
      BY <1>3, <1>4, <2>1, <2>2
<1>8. ASSUME NEW h \in Handlers, Review(h) \/ EmbeddingFails(h)
      PROVE  PolicyKept /\ JobsRooted
  <2> DEFINE j == job[h]
  <2>1. j \in Jobs
      BY DEF TypeInv, JobsOK
  <2>2. \/ Failed(h) /\ UNCHANGED policy
        \/ TouchPolicy(h, j, anchor) \/ TouchPolicy(h, j, anchor')
        \/ Await(h, j, "recreating") /\ UNCHANGED policy
      BY <1>8, ReviewCases DEF ReviewDoes, EmbeddingFails, WriteAnchor
  <2> HIDE DEF j
  <2> QED
      BY <1>3, <1>4, <1>7, <2>1, <2>2
<1>9. ASSUME NEW h \in Handlers, Materialize(h)
      PROVE  PolicyKept /\ JobsRooted
  <2> DEFINE j == job[h]
  <2>1. j \in Jobs /\ j.at = "materializing"
      BY <1>9 DEF TypeInv, JobsOK, Materialize
  <2>2. CASE policy' = FedBack(Materialized(j.contract), "positive") /\ Answered(h, j)
    <3>1. Rooted'
        BY <1>1, <2>1 DEF RootsInv, Rooted
    <3>2. j.contract \in Contracts
        BY <2>1 DEF TypeInv, JobsOK, Jobs
    <3>3. Sound(policy')
        BY <2>2, <3>2, MaterializedSound
    <3>4. JobsRooted
        BY <1>1, <1>2, <2>2, JobEnds DEF Answered
    <3> QED
        BY <3>1, <3>3, <3>4 DEF PolicyKept, ActivePolicyIsAuthoritative, Sound
  <2> QED
      BY <1>3, <1>9, <2>2 DEF Materialize
<1> QED
    BY <1>5, <1>6, <1>8, <1>9 DEF FeedbackStep

\* The policy of a step that is no feedback's.
LEMMA OtherRoots ==
    ASSUME TypeInv, ActivePolicyIsAuthoritative, RootsInv,
           everTrusted => everTrusted',
           ApplyGovernance \/ Activate
           \/ (UNCHANGED policy /\ (job' = job \/ job' = [h \in Handlers |-> Idle]))
    PROVE  PolicyKept /\ JobsRooted
<1>1. JobsRooted
    BY DEF ApplyGovernance, Activate, Idle, RootsInv, Rooted, JobsRooted
<1>2. CASE UNCHANGED policy
    BY <1>1, <1>2, PolicyUntouched
<1>3. CASE policy' = Erased
    BY <1>1, <1>3 DEF PolicyKept, ActivePolicyIsAuthoritative, IsPolicy
<1>4. CASE /\ IsPolicy(policy) /\ (governing.action = "retire" \/ governing.live # NoContract)
           /\ policy' = Governed(policy, governing.action, governing.live)
  <2>1. /\ policy \in Policies /\ governing.action \in GovernanceActions
        /\ governing.live \in Contracts \cup {NoContract}
      BY <1>4 DEF TypeInv, LearningTypeOK, IsPolicy
  <2>2. Sound(policy') /\ (policy'.state = "active" => governing.live # NoContract)
      BY <1>4, <2>1, GovernedSound
  <2>3. governing.live # NoContract => Rooted'
      BY DEF RootsInv, Rooted
  <2> QED
      BY <1>1, <2>2, <2>3 DEF PolicyKept, ActivePolicyIsAuthoritative, Sound
<1> QED
    BY <1>1, <1>2, <1>3, <1>4 DEF ApplyGovernance, Activate

\* A rollback leaves the jobs or ends them all.
LEMMA TakenBackJobs ==
    ASSUME [Next]_vars, TakenBack
    PROVE  job' = job \/ job' = [h \in Handlers |-> Idle]
<1>1. CASE LoopStep /\ Statements
    BY <1>1 DEF Statements, TakenBack
<1> QED
    BY <1>1 DEF Next, ReviewOpens, ReviewCommits, ReviewRollsBack, Crash, vars, loop

\* The steps, as far as the policy is concerned.
LEMMA PolicyMoves ==
    ASSUME [Next]_vars, ~TakenBack
    PROVE  \/ FeedbackStep \/ ApplyGovernance \/ Activate
           \/ UNCHANGED policy /\ (job' = job \/ job' = [h \in Handlers |-> Idle])
<1>1. CASE LoopStep
    BY <1>1 DEF LoopStep, AskGovernance
<1> QED
    BY <1>1 DEF Next, ReviewOpens, ReviewCommits, ReviewRollsBack, Crash, vars, loop

LEMMA RootsStep ==
    ASSUME TypeInv, ActivePolicyIsAuthoritative, RootsInv, DiskRoots, [Next]_vars
    PROVE  ActivePolicyIsAuthoritative' /\ RootsInv' /\ DiskRoots'
<1>0. TakenBack \/ AnchorMoves
    BY NextMoves
<1>1. (everTrusted => everTrusted') /\ (Trusted(anchor') => everTrusted')
    BY <1>0, TrustRemembered DEF TakenBack, DiskRoots
<1>2. governing'.live # NoContract => Rooted'
  <2>1. CASE AskGovernance
    <3>1. governing'.live # NoContract => Supported(anchor)
        BY <2>1 DEF AskGovernance
    <3> QED
        BY <1>1, <3>1 DEF Supported, RootsInv, Rooted
  <2> QED
      BY <1>1, <2>1, GoverningMoves DEF Ungoverned, RootsInv, Rooted
<1>3. PolicyKept /\ JobsRooted
  <2>1. CASE TakenBack
    <3>1. JobsRooted
        BY <1>1, <2>1, TakenBackJobs DEF Idle, RootsInv, Rooted, JobsRooted
    <3> QED
        BY <1>1, <2>1, <3>1
           DEF TakenBack, PolicyKept, ActivePolicyIsAuthoritative, IsPolicy, DiskRoots, Sound, Rooted
  <2>2. CASE ~TakenBack
    <3>1. CASE FeedbackStep
        BY <1>0, <2>2, <3>1, FeedbackRoots
    <3> QED
        BY <1>1, <2>2, <3>1, PolicyMoves, OtherRoots
  <2> QED
      BY <2>1, <2>2
<1>4. ActivePolicyIsAuthoritative' /\ RootsInv'
    BY <1>1, <1>2, <1>3 DEF PolicyKept, JobsRooted, RootsInv, Rooted, IsPolicy
<1>5. DiskRoots'
  <2>1. CASE disk' = disk
      BY <1>1, <2>1 DEF DiskRoots, Rooted, IsPolicy, Sound, Trusted
  <2>2. CASE disk' = Stored'
    <3>1. disk'.anchor = anchor' /\ disk'.policy = policy'
        BY <2>2 DEF Stored
    <3>2. IsPolicy(policy)' => Sound(policy') /\ (policy'.state = "active" => Rooted')
        BY <1>3 DEF PolicyKept, ActivePolicyIsAuthoritative, Sound
    <3> QED
        BY <1>1, <3>1, <3>2 DEF DiskRoots, IsPolicy, Sound, Trusted
  <2> QED
      BY <2>1, <2>2, DiskMoves
<1> QED
    BY <1>4, <1>5

\* A step that is no rollback, for the anchor that is read and for the one that is committed.
LEMMA ObservedMoves ==
    ASSUME TypeInv, [Next]_vars, ~TakenBack, NEW a, RunsKept(a),
           foreign \/ a = anchor' \/ UNCHANGED loop
    PROVE  RunsKeptNext(a)
<1>1. CASE job' = job /\ confirmed' = confirmed
    BY <1>1 DEF RunsKept, RunsKeptNext
<1>2. CASE job' = [h \in Handlers |-> Idle] /\ confirmed' = confirmed
    BY <1>2 DEF RunsKept, RunsKeptNext, Idle
<1>3. CASE UNCHANGED loop
    BY <1>1, <1>3 DEF loop
<1>4. ASSUME foreign \/ a = anchor', LoopStep
      PROVE  RunsKeptNext(a)
  <2>1. CASE FeedbackStep
      BY <1>4, <2>1, ObservedByFeedback, ObservedByCreate, ObservedByReview,
         ObservedByMaterialize DEF FeedbackStep
  <2> QED
      BY <1>1, <1>4, <2>1 DEF LoopStep, AskGovernance, ApplyGovernance, Activate
<1>5. CASE Crash
    BY <1>2, <1>5 DEF Crash
<1> QED
    BY <1>1, <1>3, <1>4, <1>5
       DEF Next, ReviewOpens, ReviewCommits, ReviewRollsBack, vars

LEMMA ObservedStep ==
    ASSUME TypeInv, ObservedInv, [Next]_vars
    PROVE  ObservedInv'
<1>1. RunsKeptNext(anchor') /\ RunsKeptNext(disk'.anchor)
  <2>1. CASE TakenBack
    <3>1. anchor' = disk.anchor /\ disk'.anchor = disk.anchor /\ confirmed' = confirmed
        BY <2>1 DEF TakenBack
    <3>2. RunsKeptNext(disk.anchor)
        BY <2>1, <3>1, TakenBackJobs DEF ObservedInv, RunsKept, RunsKeptNext, Idle
    <3> QED
        BY <3>1, <3>2
  <2>2. CASE ~TakenBack
    <3>1. RunsKept(anchor')
        BY <2>2, NextMoves, AnchorKeepsObserved DEF ObservedInv
    <3>2. RunsKeptNext(anchor')
        BY <2>2, <3>1, ObservedMoves
    <3>3. CASE disk' = Stored'
        BY <3>2, <3>3 DEF Stored
    <3>4. CASE disk' = disk /\ (foreign \/ UNCHANGED loop)
      <4> DEFINE a == disk.anchor
      <4>1. RunsKept(a) /\ (foreign \/ UNCHANGED loop)
          BY <3>4 DEF ObservedInv
      <4>2. disk'.anchor = a
          BY <3>4
      <4> HIDE DEF a
      <4>3. RunsKeptNext(a)
          BY <2>2, <4>1, ObservedMoves
      <4> QED
          BY <3>2, <4>2, <4>3
    <3> QED
        BY <3>2, <3>3, <3>4, DiskMoves
  <2> QED
      BY <2>1, <2>2
<1> QED
    BY <1>1 DEF ObservedInv, RunsKept, RunsKeptNext

\* The evidence of what is read and of what is committed, and what the former is ahead by.
LEMMA EvidenceMoves ==
    ASSUME TypeInv, EvidenceInv, EvidenceOn(disk), Ahead(disk), [Next]_vars
    PROVE  EvidenceInv' /\ EvidenceOn(disk)' /\ Ahead(disk)' /\ AheadNext(disk)
<1>0. disk \in Stores
    BY DEF TypeInv, LearningTypeOK
<1>1. EvidenceInv' /\ AheadNext(disk)
  <2>1. CASE TakenBack
    <3>1. EvidenceInv'
        BY <2>1 DEF TakenBack, EvidenceInv, EvidenceOn
    <3>2. AheadNext(disk)
        BY <1>0, <2>1 DEF TakenBack, AheadNext, Stores
    <3> QED
        BY <3>1, <3>2
  <2> QED
      BY <1>0, <2>1, NextMoves, EvidenceStep, AheadStep
<1>2. CASE disk' = disk
    BY <1>1, <1>2 DEF EvidenceOn, Ahead, AheadNext
<1>3. CASE disk' = Stored'
  <2>1. /\ disk'.anchor = anchor' /\ disk'.praised = praised' /\ disk'.since = since'
        /\ disk'.blamed = blamed' /\ disk'.overruled = overruled'
      BY <1>3 DEF Stored
  <2>2. EvidenceOn(disk)'
      BY <1>1, <2>1 DEF EvidenceInv, EvidenceOn
  <2>3. TakenBack \/ blamed' \in Nat
      BY NextMoves, AnchorMovesType
  <2>4. blamed' \in Nat
      BY <1>0, <2>3 DEF TakenBack, Stores
  <2>5. Ahead(disk)'
      BY <2>1, <2>4 DEF Ahead
  <2> QED
      BY <1>1, <2>2, <2>5
<1> QED
    BY <1>2, <1>3, DiskMoves

-----------------------------------------------------------------------------
(* The inductive invariant and what follows from it *)

Inv == /\ TypeInv
       /\ TalliesOK
       /\ ObservedInv
       /\ EvidenceInv /\ EvidenceOn(disk) /\ Ahead(disk)
       /\ ActivePolicyIsAuthoritative
       /\ RootsInv /\ DiskRoots

LEMMA InitInv == Init => Inv
<1> SUFFICES ASSUME Init PROVE Inv
    OBVIOUS
<1> USE DEF Init
<1>0. /\ disk = Stored /\ foreign = FALSE /\ Idle.at = "idle" /\ Ungoverned.live = NoContract
      /\ disk.rows = rows /\ disk.counts = counts /\ disk.anchor = anchor /\ disk.policy = policy
      /\ disk.praised = praised /\ disk.since = since /\ disk.blamed = blamed
      /\ disk.overruled = overruled
    BY DEF Stored, Idle, Ungoverned
<1>1. JobsOK
    BY DEF JobsOK, Jobs, Idle, Outcomes
<1>2. Stored \in Stores
    BY DEF Stored, Stores
<1>3. TypeInv
  <2>1. governing \in [at : {"idle", "live"}, action : GovernanceActions,
                       live : Contracts \cup {NoContract}]
      BY DEF Ungoverned, GovernanceActions
  <2>2. LearningTypeOK
    <3>1. disk \in Stores /\ disk.since \subseteq disk.praised /\ (~foreign => disk = Stored)
        BY <1>0, <1>2
    <3>2. /\ job \in [Handlers -> Jobs]
          /\ \A h \in Handlers : job[h].at = "materializing" <=> job[h].contract # NoContract
        BY <1>1 DEF JobsOK
    <3> QED
        BY <2>1, <3>1, <3>2 DEF LearningTypeOK
  <2> QED
      BY <1>0, <1>1, <1>2, <2>1, <2>2 DEF TypeInv, JobsOK, Flags
<1>4. TalliesOK
    BY <1>0 DEF TalliesOK, Counted
<1>5. ObservedInv
    BY <1>0, LoopAssumption DEF ObservedInv, RunsKept
<1>6. EvidenceInv /\ EvidenceOn(disk) /\ Ahead(disk)
    BY <1>0, LoopAssumption DEF EvidenceInv, EvidenceOn, EvidenceOf, Ahead, Earned, Trusted
<1>7. ActivePolicyIsAuthoritative /\ RootsInv /\ DiskRoots
    BY <1>0 DEF ActivePolicyIsAuthoritative, IsPolicy, RootsInv, DiskRoots, Trusted
<1> QED
    BY <1>3, <1>4, <1>5, <1>6, <1>7 DEF Inv

\* What is stored keeps its types, whether it is written or brought back.
LEMMA StoredType ==
    ASSUME TypeInv, TalliesOK, [Next]_vars
    PROVE  /\ anchor' \in Anchors \cup {Absent, Erased}
           /\ praised' \subseteq Runs /\ since' \subseteq praised'
           /\ blamed' \in Nat /\ overruled' \in BOOLEAN /\ everTrusted' \in BOOLEAN
           /\ (Stored \in Stores)'
<1>1. /\ anchor' \in Anchors \cup {Absent, Erased}
      /\ praised' \subseteq Runs /\ since' \subseteq praised'
      /\ blamed' \in Nat /\ overruled' \in BOOLEAN /\ everTrusted' \in BOOLEAN
  <2>1. CASE TakenBack
      BY <2>1 DEF TakenBack, TypeInv, LearningTypeOK, Flags, Stores
  <2> QED
      BY <2>1, NextMoves, AnchorMovesType
<1>2. rows' \in [Rules -> Nat] /\ counts' \in [Rules -> Nat] /\ PolicyOK'
    BY TalliesStep, NextMoves
<1> QED
    BY <1>1, <1>2 DEF Stored, Stores, PolicyOK

LEMMA InvStep == Inv /\ [Next]_vars => Inv'
<1> SUFFICES ASSUME Inv, [Next]_vars PROVE Inv'
    OBVIOUS
<1>0. /\ TypeInv /\ TalliesOK /\ ObservedInv
      /\ EvidenceInv /\ EvidenceOn(disk) /\ Ahead(disk)
      /\ ActivePolicyIsAuthoritative /\ RootsInv /\ DiskRoots
    BY DEF Inv
<1>1. TypeInv'
  <2>1. GovernanceOK'
      BY <1>0, GovernanceStep DEF TypeInv, LearningTypeOK, GovernanceOK
  <2>2. JobsOK' /\ PolicyOK' /\ (confirmed \subseteq Runs)'
      BY <1>0, NextMoves
  <2>3. /\ anchor' \in Anchors \cup {Absent, Erased}
        /\ praised' \subseteq Runs /\ since' \subseteq praised'
        /\ blamed' \in Nat /\ overruled' \in BOOLEAN /\ everTrusted' \in BOOLEAN
        /\ (Stored \in Stores)'
      BY <1>0, StoredType
  <2>4. /\ foreign' \in BOOLEAN
        /\ disk' \in Stores /\ disk'.since \subseteq disk'.praised
        /\ ~foreign' => disk' = Stored'
      BY <1>0, <2>3, DiskType
  <2>5. /\ rows' \in [Rules -> Nat] /\ counts' \in [Rules -> Nat]
        /\ given' \in Nat /\ crashes' \in Nat
      BY <1>0, TalliesStep
  <2>6. LearningTypeOK'
      BY <2>1, <2>2, <2>3, <2>4, <2>5 DEF LearningTypeOK, JobsOK, PolicyOK, GovernanceOK
  <2> QED
      BY <2>2, <2>3, <2>5, <2>6 DEF TypeInv, Flags
<1>2. TalliesOK'
    BY <1>0, TalliesStep
<1>3. ObservedInv'
    BY <1>0, ObservedStep
<1>4. EvidenceInv' /\ EvidenceOn(disk)' /\ Ahead(disk)'
    BY <1>0, EvidenceMoves
<1>5. ActivePolicyIsAuthoritative' /\ RootsInv' /\ DiskRoots'
    BY <1>0, RootsStep
<1> QED
    BY <1>1, <1>2, <1>3, <1>4, <1>5 DEF Inv

LEMMA InvHolds == Spec => []Inv
BY InitInv, InvStep, PTL DEF Spec

\* Every variable has its type in every state of every instance (the feedback, governance and
\* activation handlers).
THEOREM LearningTypes == Spec => []LearningTypeOK
<1>1. Inv => LearningTypeOK
    BY DEF Inv, TypeInv
<1> QED
    BY <1>1, InvHolds, PTL

\* Trust no review gave is earned by the feedback the store has, in what is read and in what is
\* on disk, for any thresholds and any interleaving of feedback requests, reviews, activations,
\* rollbacks of another's transaction and crashes (buildPatternAnchor, withTx).
THEOREM EarnedTrust == Spec => []TrustIsEarned
<1>1. Inv => TrustIsEarned
  <2> SUFFICES ASSUME Inv PROVE TrustIsEarned
      OBVIOUS
  <2>1. EarnedIn(disk)
      BY EvidenceEarnsTrust DEF Inv, TypeInv, LearningTypeOK
  <2>2. /\ Stored.anchor = anchor /\ Stored.praised = praised /\ Stored.since = since
        /\ Stored.blamed = blamed /\ Stored.overruled = overruled
      BY DEF Stored
  <2>3. Stored \in Stores
      BY DEF Inv, TypeInv, LearningTypeOK, Flags, Stored, Stores
  <2>4. EvidenceOn(Stored) /\ Stored.since \subseteq Stored.praised
      BY <2>2 DEF Inv, TypeInv, LearningTypeOK, EvidenceInv, EvidenceOn
  <2>5. EarnedIn(Stored)
      BY <2>3, <2>4, EvidenceEarnsTrust
  <2> QED
      BY <2>1, <2>5 DEF TrustIsEarned
<1> QED
    BY <1>1, InvHolds, PTL

\* Earned trust is lost to a blame, to an activation or to the rollback of the transaction it
\* was earned in, and never to a rollback or a crash once it is on disk
\* (writeToolsDecisionPatternAnchor, withTx).
THEOREM TrustFallsToEvidence == Spec => EarnedTrustFallsToEvidence
<1>1. Inv /\ [Next]_vars =>
        [/\ Earned(anchor) /\ ~Trusted(anchor') =>
                blamed' > blamed \/ anchor' = Erased \/ TakenBack
         /\ Earned(disk.anchor) /\ ~Trusted(disk'.anchor) =>
                disk'.blamed > disk.blamed \/ disk'.anchor = Erased \/ disk'.overruled]_vars
  <2> SUFFICES ASSUME Inv, [Next]_vars
               PROVE  /\ Earned(anchor) /\ ~Trusted(anchor') =>
                            blamed' > blamed \/ anchor' = Erased \/ TakenBack
                      /\ Earned(disk.anchor) /\ ~Trusted(disk'.anchor) =>
                            disk'.blamed > disk.blamed \/ disk'.anchor = Erased \/ disk'.overruled
      OBVIOUS
  <2>0. TypeInv /\ EvidenceInv /\ EvidenceOn(disk) /\ Ahead(disk)
      BY DEF Inv
  <2>1. Earned(anchor) /\ ~Trusted(anchor') => blamed' > blamed \/ anchor' = Erased \/ TakenBack
      BY <2>0, NextMoves, EarnedTrustStep
  <2>2. AheadNext(disk)
      BY <2>0, EvidenceMoves
  <2>3. CASE disk' = disk
      BY <2>1, <2>3 DEF Earned
  <2>4. CASE disk' = Stored'
    <3>1. disk'.anchor = anchor' /\ disk'.blamed = blamed' /\ disk'.overruled = overruled'
        BY <2>4 DEF Stored
    <3> QED
        BY <2>1, <2>2, <3>1 DEF AheadNext, Earned
  <2> QED
      BY <2>0, <2>3, <2>4, DiskMoves
<1> QED
    BY <1>1, InvHolds, PTL DEF Spec, EarnedTrustFallsToEvidence

\* No answered praise that wrote the anchor on its own is lost, however first feedbacks race
\* and whatever is rolled back (applyMemoryWrite refuses the loser).
THEOREM AnsweredObserved == Spec => []AnsweredRunsAreObserved
<1>1. Inv => AnsweredRunsAreObserved
    BY DEF Inv, ObservedInv, RunsKept, AnsweredRunsAreObserved
<1> QED
    BY <1>1, InvHolds, PTL

\* The counters of a rule follow its feedback rows up to one row a crash
\* (updateRuleFeedbackAggregates).
THEOREM CountersFollow == Spec => []CountersFollowRows
<1>1. Inv => CountersFollowRows
    BY DEF Inv, TalliesOK, Counted, CountersFollowRows
<1> QED
    BY <1>1, InvHolds, PTL

\* A policy in force has an authoritative contract (normalizePolicyContractLifecycle).
THEOREM ActiveIsAuthoritative == Spec => []ActivePolicyIsAuthoritative
<1>1. Inv => ActivePolicyIsAuthoritative
    BY DEF Inv
<1> QED
    BY <1>1, InvHolds, PTL

\* A policy in force roots in a stable workflow or in a pattern that was trusted, through every
\* contract that waited for an embedding or for governance (buildPolicyMaterializationSurface).
THEOREM PolicyRooted == Spec => []PolicyRootsInTrust
<1>1. Inv => PolicyRootsInTrust
    BY DEF Inv, RootsInv, Rooted, PolicyRootsInTrust
<1> QED
    BY <1>1, InvHolds, PTL
=============================================================================
