--------------------------- MODULE PatternAnchor ---------------------------
(***************************************************************************)
(* The evidence a pattern anchor keeps about one tool choice, and how one  *)
(* feedback moves its trust (src/memory/tools-pattern-anchor.ts).          *)
(***************************************************************************)
EXTENDS Integers, FiniteSets

CONSTANTS
    Runs,           \* run ids
    NoRun,          \* feedback whose decision belongs to no run
    MinRuns,        \* STABLE_PATTERN_MIN_DISTINCT_RUNS
    FreshRuns,      \* CONTESTED_REVALIDATION_MIN_FRESH_RUNS
    MaxObserved     \* MAX_OBSERVED_RUN_IDS

ASSUME AnchorAssumption ==
    /\ NoRun \notin Runs
    /\ IsFiniteSet(Runs)
    /\ MinRuns \in Nat \ {0}
    /\ FreshRuns \in Nat
    /\ MaxObserved \in Nat \ {0}

Outcomes == {"positive", "negative"}

\* pattern_state is "stable" exactly when credibility is "trusted", so one field stands for both.
Anchors == [
    observed : SUBSET Runs,     \* promotion.observed_run_ids
    fresh : SUBSET Runs,        \* trust_hardening.post_contest_observed_run_ids
    counter : Nat,              \* promotion.counter_evidence_count
    open : BOOLEAN,             \* promotion.counter_evidence_open
    trust : {"candidate", "trusted", "contested"},
    governed : BOOLEAN]         \* trust_hardening.semantic_review_override_applied

NoEvidence == [observed |-> {}, fresh |-> {}, counter |-> 0, open |-> FALSE,
               trust |-> "candidate", governed |-> FALSE]

\* The list keeps its first entries: at the limit a new run is not remembered.
Remember(runs, r) ==
    IF r = NoRun \/ Cardinality(runs) >= MaxObserved THEN runs ELSE runs \cup {r}

Full(a) == Cardinality(a.observed) >= MaxObserved

Enough(observed, counter) == Cardinality(observed) >= MinRuns + counter

Judged(observed, fresh, counter, open) == [
    observed |-> observed,
    fresh |-> fresh,
    counter |-> counter,
    open |-> open,
    trust |-> IF open THEN "contested"
              ELSE IF Enough(observed, counter) THEN "trusted" ELSE "candidate",
    governed |-> FALSE]

\* Mutant: the runs closing counter evidence need not be new.
PraisedByAny(a, r) ==
    LET observed == Remember(a.observed, r)
    IN  Judged(observed, a.fresh, a.counter, a.open /\ ~Enough(observed, a.counter))

\* Positive feedback from run r.  Counter evidence is closed by enough runs, of which enough
\* are new since it was given; nothing but negative feedback opens it.
Praised(a, r) ==
    LET observed == Remember(a.observed, r)
        fresh == IF a.counter > 0 /\ r \notin a.observed THEN Remember(a.fresh, r) ELSE a.fresh
        revalidated == a.counter = 0 \/ Cardinality(fresh) >= FreshRuns
    IN  Judged(observed, fresh, a.counter,
               a.open /\ ~(Enough(observed, a.counter) /\ revalidated))

Blamed(a) == Judged(a.observed, {}, a.counter + 1, TRUE)

Learned(a, outcome, r) == IF outcome = "positive" THEN Praised(a, r) ELSE Blamed(a)

\* governed_pattern_state_override: a review makes the anchor stable whatever its evidence.
Overruled(a) ==
    IF a.trust = "trusted" THEN a
    ELSE [a EXCEPT !.open = FALSE, !.trust = "trusted", !.governed = TRUE]
=============================================================================
