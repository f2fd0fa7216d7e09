---------------------------- MODULE LearningLoop ----------------------------
(***************************************************************************)
(* Tool feedback and what it moves: decisions, rule feedback rows and      *)
(* counters, the pattern anchor of one tool choice and the policy derived  *)
(* from it; beside it rule feedback, policy governance and node            *)
(* activation, and crashes.  The feedback handler opens no transaction:    *)
(* each of its statements commits on its own, unless a replay review holds *)
(* a transaction on the one connection; then all of it falls into that,    *)
(* and goes with its ROLLBACK.  The handler leaves the thread at an        *)
(* embedding call and at a governance review.                              *)
(***************************************************************************)
EXTENDS PatternAnchor, PolicyMemory

CONSTANTS
    Rules,          \* the rules the feedback's context matches
    Handlers,       \* feedback requests under way at a time
    StableWorkflow, \* a stable workflow supports the tool as well
    Absent,         \* no such node
    Erased,         \* the node is there without its anchor or policy slots
    NoContract,     \* no live policy contract
    MaxFeedback,    \* bound: feedback given
    MaxCrashes,     \* bound: crashes
    MaxOpened,      \* bound: transactions of replay reviews
    MaxEvents       \* bound: feedback, crashes and transactions together

ASSUME LoopAssumption ==
    /\ StableWorkflow \in BOOLEAN
    /\ {MaxFeedback, MaxCrashes, MaxOpened, MaxEvents} \subseteq Nat
    /\ Absent # Erased
    /\ Absent \notin Anchors /\ Absent \notin Policies
    /\ Erased \notin Anchors /\ Erased \notin Policies
    /\ NoContract \notin Contracts

VARIABLES
    rows,           \* stored feedback rows of each rule
    counts,         \* positive_count + negative_count of each rule
    anchor,         \* the pattern node
    policy,         \* the policy node
    job,            \* the feedback request each handler works on
    governing,      \* the governance request under way
    given,          \* feedback given
    crashes,
    opened,         \* transactions of replay reviews so far
    foreign,        \* a replay review holds a transaction open
    disk,           \* what is committed of what is stored
    praised, since, blamed, overruled,  \* history: the feedback the store has of the anchor
    confirmed, everTrusted              \* history: what was answered, whether it was ever trusted

tallies == <<rows, counts>>
evidence == <<praised, since, blamed, overruled>>
loop == <<tallies, anchor, policy, job, governing, given, crashes, evidence, confirmed, everTrusted>>
vars == <<loop, opened, foreign, disk>>

Jobs == [
    at : {"idle", "creating", "review", "recreating", "materializing"},
    run : Runs \cup {NoRun},                    \* of the decision the feedback is about
    outcome : Outcomes,
    stable : BOOLEAN,                           \* the anchor put to the review was stable
    joined : BOOLEAN,                           \* the anchor was written in a transaction of another
    contract : Contracts \cup {NoContract}]     \* to be materialized

Idle == [at |-> "idle", run |-> NoRun, outcome |-> "positive",
         stable |-> FALSE, joined |-> FALSE, contract |-> NoContract]
Ungoverned == [at |-> "idle", action |-> "retire", live |-> NoContract]

\* What the write store has; the feedback it has of the anchor goes with the anchor.
Stored == [rows |-> rows, counts |-> counts, anchor |-> anchor, policy |-> policy,
           praised |-> praised, since |-> since, blamed |-> blamed, overruled |-> overruled]

Stores == [rows : [Rules -> Nat], counts : [Rules -> Nat],
           anchor : Anchors \cup {Absent, Erased}, policy : Policies \cup {Absent, Erased},
           praised : SUBSET Runs, since : SUBSET Runs, blamed : Nat, overruled : BOOLEAN]

Room == given + crashes + opened < MaxEvents

IsPolicy(p) == p \notin {Absent, Erased}
Trusted(a) == a \notin {Absent, Erased} /\ a.trust = "trusted"

Init ==
    /\ rows = [r \in Rules |-> 0] /\ counts = [r \in Rules |-> 0]
    /\ anchor = Absent /\ policy = Absent
    /\ job = [h \in Handlers |-> Idle]
    /\ governing = Ungoverned
    /\ given = 0 /\ crashes = 0
    /\ praised = {} /\ since = {} /\ blamed = 0 /\ overruled = FALSE
    /\ confirmed = {} /\ everTrusted = FALSE
    /\ opened = 0 /\ foreign = FALSE /\ disk = Stored

-----------------------------------------------------------------------------
(* Tool feedback *)

\* Mutant: the counters are raised before the rows are written.
RecordedLast(written, counted) ==
    /\ rows' = [r \in Rules |-> IF r \in counted THEN rows[r] + 1 ELSE rows[r]]
    /\ counts' = [r \in Rules |-> IF r \in written THEN counts[r] + 1 ELSE counts[r]]

\* One row of feedback for each rule, then one more in each rule's counter.
Recorded(written, counted) ==
    /\ rows' = [r \in Rules |-> IF r \in written THEN rows[r] + 1 ELSE rows[r]]
    /\ counts' = [r \in Rules |-> IF r \in counted THEN counts[r] + 1 ELSE counts[r]]

\* Writes the anchor, and what the feedback was into the history.
WriteAnchor(new, j) ==
    /\ anchor' = new
    /\ everTrusted' = (everTrusted \/ new.trust = "trusted")
    /\ overruled' = (new.governed \/ (overruled /\ j.outcome = "positive"))
    /\ IF j.outcome = "positive"
       THEN /\ praised' = praised \cup ({j.run} \ {NoRun})
            /\ since' = since \cup ({j.run} \ ({NoRun} \cup praised))
            /\ UNCHANGED blamed
       ELSE /\ blamed' = IF j.at = "review" THEN blamed ELSE blamed + 1
            /\ since' = {}
            /\ UNCHANGED praised

KeepAnchor == UNCHANGED <<anchor, praised, since, blamed, overruled, everTrusted>>

\* Mutant: a pattern of any standing supports a policy.
SupportedByAny(a) ==
    a \notin {Absent, Erased} \/ StableWorkflow \/ (IsPolicy(policy) /\ policy.state = "active")

\* buildPolicyMaterializationSurface finds something to derive a contract from.
Supported(a) ==
    Trusted(a) \/ StableWorkflow \/ (IsPolicy(policy) /\ policy.state = "active")

Answered(h, j) ==
    /\ job' = [job EXCEPT ![h] = Idle]
    /\ confirmed' = confirmed \cup
            IF j.outcome = "positive" /\ j.run # NoRun /\ ~j.joined THEN {j.run} ELSE {}
Failed(h) == job' = [job EXCEPT ![h] = Idle] /\ UNCHANGED confirmed
Await(h, j, at) == job' = [job EXCEPT ![h] = [j EXCEPT !.at = at]] /\ UNCHANGED confirmed

FeedPolicy(outcome) ==
    policy' = IF IsPolicy(policy) THEN FedBack(policy, outcome) ELSE policy

\* The end of the handler.  Positive feedback whose context carries a contract trust, and
\* for which a contract can be derived, writes the policy with that trust; then, and for
\* negative feedback at once, the feedback itself is applied to it.
TouchPolicy(h, j, a) ==
    \/ FeedPolicy(j.outcome) /\ Answered(h, j)
    \/ /\ j.outcome = "positive" /\ Supported(a)
       /\ \E c \in Contracts :
            IF policy = Absent
            THEN Await(h, [j EXCEPT !.contract = c], "materializing") /\ UNCHANGED policy
            ELSE policy' = FedBack(Materialized(c), "positive") /\ Answered(h, j)

\* With two rules or more the written anchor is put to a governance review; a provider that
\* is asked is awaited, one that is not configured answers at once with nothing.
AfterAnchor(h, j, a) ==
    \/ /\ Cardinality(Rules) >= 2
       /\ Await(h, [j EXCEPT !.stable = Trusted(a)], "review")
       /\ UNCHANGED policy
    \/ TouchPolicy(h, j, a)

\* The request up to its first await.  It is about a decision the client names, the latest one
\* that fits, or a new one; run is that decision's, which adopts the request's if it has none.
Feedback(h) ==
    /\ job[h].at = "idle" /\ given < MaxFeedback /\ Room
    /\ given' = given + 1
    /\ Recorded(Rules, Rules)
    /\ \E run \in Runs \cup {NoRun}, outcome \in Outcomes :
        LET j == [Idle EXCEPT !.run = run, !.outcome = outcome, !.joined = foreign] IN
        CASE anchor = Erased ->                         \* invalid_existing_pattern_anchor
                    Failed(h) /\ KeepAnchor /\ UNCHANGED policy
             [] anchor = Absent /\ outcome = "negative" ->
                    TouchPolicy(h, j, anchor) /\ KeepAnchor
             [] anchor = Absent /\ outcome = "positive" ->
                    Await(h, j, "creating") /\ KeepAnchor /\ UNCHANGED policy
             [] OTHER ->
                    LET new == Learned(anchor, outcome, j.run)
                    IN  WriteAnchor(new, j) /\ AfterAnchor(h, j, new)
    /\ UNCHANGED <<governing, crashes>>

\* Mutant: a late first anchor is written over the one another request created.
CreateOrReplace(h) ==
    /\ job[h].at = "creating"
    /\ LET j == [job[h] EXCEPT !.joined = foreign]
           new == Learned(NoEvidence, "positive", j.run)
       IN  WriteAnchor(new, j) /\ AfterAnchor(h, j, new)
    /\ UNCHANGED <<tallies, governing, given, crashes>>

\* The embedding of a first anchor is there: insert it, unless another request has by now
\* (duplicate_node_id_conflict).
Create(h) ==
    /\ job[h].at = "creating"
    /\ IF anchor = Absent
       THEN LET j == [job[h] EXCEPT !.joined = foreign]
                new == Learned(NoEvidence, "positive", j.run)
            IN  WriteAnchor(new, j) /\ AfterAnchor(h, j, new)
       ELSE Failed(h) /\ KeepAnchor /\ UNCHANGED policy
    /\ UNCHANGED <<tallies, governing, given, crashes>>

\* The review is there.  One that is admissible and confident enough makes an anchor that was
\* not stable so: the feedback is written once more, over whatever the anchor is by now.  If a
\* rollback has taken the anchor meanwhile, praise makes a new one, which is embedded first,
\* and a blame has nothing to write to.
Review(h) ==
    LET j == job[h] IN
    /\ j.at = "review"
    /\ \/ KeepAnchor /\ TouchPolicy(h, j, anchor)
       \/ /\ ~j.stable
          /\ CASE anchor = Erased ->
                    Failed(h) /\ KeepAnchor /\ UNCHANGED policy
               [] anchor = Absent /\ j.outcome = "negative" ->
                    KeepAnchor /\ TouchPolicy(h, j, anchor)
               [] anchor = Absent /\ j.outcome = "positive" ->
                    Await(h, j, "recreating") /\ KeepAnchor /\ UNCHANGED policy
               [] OTHER ->
                    LET new == Overruled(Learned(anchor, j.outcome, j.run))
                    IN  WriteAnchor(new, j) /\ TouchPolicy(h, j, new)
    /\ UNCHANGED <<tallies, governing, given, crashes>>

\* The embedding of the anchor made after a review is there.
Recreate(h) ==
    /\ job[h].at = "recreating"
    /\ IF anchor = Absent
       THEN LET j == [job[h] EXCEPT !.joined = foreign]
                new == Overruled(Learned(NoEvidence, "positive", j.run))
            IN  WriteAnchor(new, j) /\ TouchPolicy(h, j, new)
       ELSE Failed(h) /\ KeepAnchor /\ UNCHANGED policy
    /\ UNCHANGED <<tallies, governing, given, crashes>>

\* The embedding of a first policy is there: insert it, unless another request has by now.
Materialize(h) ==
    LET j == job[h] IN
    /\ j.at = "materializing"
    /\ IF policy = Absent
       THEN policy' = FedBack(Materialized(j.contract), "positive") /\ Answered(h, j)
       ELSE Failed(h) /\ UNCHANGED policy
    /\ KeepAnchor
    /\ UNCHANGED <<tallies, governing, given, crashes>>

\* The embedding provider fails: the request ends there, with what it has written.
EmbeddingFails(h) ==
    /\ job[h].at \in {"creating", "recreating", "materializing"}
    /\ Failed(h)
    /\ KeepAnchor
    /\ UNCHANGED <<tallies, policy, governing, given, crashes>>

FeedbackStep == \E h \in Handlers :
    Feedback(h) \/ Create(h) \/ Review(h) \/ Recreate(h) \/ Materialize(h) \/ EmbeddingFails(h)

-----------------------------------------------------------------------------
(* What else moves them *)

\* buildLivePolicyGovernanceRouteContext: the live contract is derived from what is stored now,
\* then a tool selection is awaited.
AskGovernance ==
    /\ governing.at = "idle"
    /\ policy # Absent
    /\ \E action \in GovernanceActions,
          live \in {NoContract} \cup IF Supported(anchor) THEN Contracts ELSE {} :
            governing' = [at |-> "live", action |-> action, live |-> live]
    /\ UNCHANGED <<tallies, anchor, policy, job, given, crashes, evidence, confirmed, everTrusted>>

\* applyPolicyMemoryGovernanceLite, in a transaction: refused when the node is no policy (any
\* more) or when a live contract is needed and there is none.
ApplyGovernance ==
    /\ governing.at = "live"
    /\ governing' = Ungoverned
    /\ policy' = IF IsPolicy(policy) /\ (governing.action = "retire" \/ governing.live # NoContract)
                 THEN Governed(policy, governing.action, governing.live)
                 ELSE policy
    /\ UNCHANGED <<tallies, anchor, job, given, crashes, evidence, confirmed, everTrusted>>

\* activateMemoryNodesLite: the slots of an activated node are replaced by its feedback counters.
Activate ==
    /\ \/ /\ anchor \notin {Absent, Erased}
          /\ anchor' = Erased
          /\ praised' = {} /\ since' = {} /\ blamed' = 0 /\ overruled' = FALSE
          /\ UNCHANGED policy
       \/ /\ IsPolicy(policy)
          /\ policy' = Erased
          /\ UNCHANGED <<anchor, evidence>>
    /\ UNCHANGED <<tallies, job, governing, given, crashes, confirmed, everTrusted>>

\* What is written in another's transaction is on disk when that commits.
Statements == UNCHANGED <<opened, foreign>> /\ disk' = IF foreign THEN disk ELSE Stored'

\* withTx of a replay review: BEGIN IMMEDIATE, COMMIT, ROLLBACK.
ReviewOpens ==
    /\ ~foreign /\ foreign' = TRUE
    /\ opened < MaxOpened /\ Room
    /\ opened' = opened + 1
    /\ UNCHANGED <<loop, disk>>

ReviewCommits == foreign /\ foreign' = FALSE /\ disk' = Stored /\ UNCHANGED <<loop, opened>>

TakenBack ==
    /\ foreign /\ foreign' = FALSE
    /\ UNCHANGED opened
    /\ rows' = disk.rows /\ counts' = disk.counts
    /\ anchor' = disk.anchor /\ policy' = disk.policy
    /\ praised' = disk.praised /\ since' = disk.since
    /\ blamed' = disk.blamed /\ overruled' = disk.overruled
    /\ UNCHANGED <<disk, confirmed, everTrusted>>

ReviewRollsBack == TakenBack /\ UNCHANGED <<job, governing, given, crashes>>

\* The process dies while it writes on its own: a decision, a row per rule and a counter per
\* rule commit one by one, then the anchor, all of it before the policy.
DiesWriting ==
    \E h \in Handlers :
        LET j == job[h] IN
        \/ /\ j.at = "idle" /\ given < MaxFeedback
           /\ given' = given + 1
           /\ \/ /\ KeepAnchor
                 /\ \E written \in SUBSET Rules :
                       \E counted \in IF written = Rules THEN SUBSET Rules ELSE {{}} :
                           Recorded(written, counted)
              \/ /\ Recorded(Rules, Rules)
                 /\ anchor \notin {Absent, Erased}
                 /\ \E run \in Runs \cup {NoRun}, outcome \in Outcomes :
                       WriteAnchor(Learned(anchor, outcome, run),
                                   [Idle EXCEPT !.run = run, !.outcome = outcome])
        \/ /\ UNCHANGED <<tallies, given>>
           /\ \/ /\ j.at = "creating" /\ anchor = Absent
                 /\ WriteAnchor(Learned(NoEvidence, "positive", j.run), j)
              \/ /\ j.at = "recreating" /\ anchor = Absent
                 /\ WriteAnchor(Overruled(Learned(NoEvidence, "positive", j.run)), j)
              \/ /\ j.at = "review" /\ ~j.stable /\ anchor \notin {Absent, Erased}
                 /\ WriteAnchor(Overruled(Learned(anchor, j.outcome, j.run)), j)

\* The process goes down between two steps or while it writes; what a review's transaction
\* holds is lost.
Crash ==
    /\ crashes < MaxCrashes /\ Room
    /\ crashes' = crashes + 1
    /\ job' = [h \in Handlers |-> Idle]
    /\ governing' = Ungoverned
    /\ \/ TakenBack /\ UNCHANGED given
       \/ /\ ~foreign
          /\ (UNCHANGED <<tallies, given>> /\ KeepAnchor) \/ DiesWriting
          /\ UNCHANGED <<policy, confirmed>>
          /\ Statements

LoopStep == FeedbackStep \/ AskGovernance \/ ApplyGovernance \/ Activate

Next == \/ LoopStep /\ Statements
        \/ ReviewOpens \/ ReviewCommits \/ ReviewRollsBack
        \/ Crash

Spec == Init /\ [][Next]_vars

-----------------------------------------------------------------------------
(* Properties *)

\* Every variable stays in its type, and a request awaits a contract exactly when it
\* materializes a policy.
LearningTypeOK ==
    /\ rows \in [Rules -> Nat] /\ counts \in [Rules -> Nat]
    /\ anchor \in Anchors \cup {Absent, Erased}
    /\ policy \in Policies \cup {Absent, Erased}
    /\ job \in [Handlers -> Jobs]
    /\ \A h \in Handlers : job[h].at = "materializing" <=> job[h].contract # NoContract
    /\ governing \in [at : {"idle", "live"}, action : GovernanceActions,
                      live : Contracts \cup {NoContract}]
    /\ praised \subseteq Runs /\ since \subseteq praised /\ confirmed \subseteq Runs
    /\ blamed \in Nat
    /\ foreign \in BOOLEAN
    /\ disk \in Stores /\ disk.since \subseteq disk.praised
    /\ ~foreign => disk = Stored

Earned(a) == Trusted(a) /\ ~a.governed

EarnedIn(s) ==
    Earned(s.anchor) /\ Cardinality(s.praised) <= MaxObserved =>
        /\ Cardinality(s.praised) >= MinRuns + s.blamed
        /\ s.blamed = 0 \/ s.overruled \/ Cardinality(s.since) >= FreshRuns

\* Trust that no review gave is earned: enough different runs praised the choice, one more for
\* every blame, and after the last blame enough runs that had not praised it before, unless a
\* review closed that blame.  The runs and blames meant are those the store has: a rollback
\* takes back the praise and the blame of its transaction together with the trust they moved,
\* and so it holds of what is read and of what is on disk.  Holds while the anchor can remember
\* every run that praised it (buildPatternAnchor).
TrustIsEarned == EarnedIn(Stored) /\ EarnedIn(disk)

\* Earned trust falls to a blame, to an activation or with the transaction it was earned in,
\* never to praise, a late review or another's first anchor; and once it is on disk, no
\* rollback and no crash takes it: there it falls to a blame, an activation or a review that
\* overrules it only (writeToolsDecisionPatternAnchor, withTx).
EarnedTrustFallsToEvidence ==
    [][/\ Earned(anchor) /\ ~Trusted(anchor') =>
            blamed' > blamed \/ anchor' = Erased \/ TakenBack
       /\ Earned(disk.anchor) /\ ~Trusted(disk'.anchor) =>
            disk'.blamed > disk.blamed \/ disk'.anchor = Erased \/ disk'.overruled]_vars

\* A positive feedback that was answered and wrote the anchor on its own is there for good,
\* whichever of two first feedbacks created it, unless the anchor was full: the loser of the
\* race is refused (applyMemoryWrite's duplicate_node_id_conflict), not merged or dropped, and
\* no rollback of another's takes it.  One that ran in a review's transaction goes with that.
AnsweredRunsAreObserved ==
    \A a \in {anchor, disk.anchor} : a \in Anchors => confirmed \subseteq a.observed \/ Full(a)

\* A rule's counters never run ahead of its feedback rows, and are behind only by feedback a
\* crash cut short (updateRuleFeedbackAggregates).
CountersFollowRows ==
    \A r \in Rules : counts[r] <= rows[r] /\ rows[r] <= counts[r] + crashes

\* A policy is in force only on an authoritative contract with evidence, whoever wrote it last
\* (normalizePolicyContractLifecycle).
ActivePolicyIsAuthoritative ==
    IsPolicy(policy) => (policy.state = "active" <=> policy.contract = "authoritative")

\* Without a stable workflow no policy comes into force before the pattern was trusted: neither
\* feedback, nor governance, nor a contract derived from the policy itself starts one.
PolicyRootsInTrust ==
    IsPolicy(policy) /\ policy.state = "active" /\ ~StableWorkflow => everTrusted

=============================================================================
