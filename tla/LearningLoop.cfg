SPECIFICATION Spec
CONSTANTS
    r1 = r1
    r2 = r2
    r3 = r3
    k1 = k1
    k2 = k2
    h1 = h1
    h2 = h2
    Runs = {r1, r2, r3}
    NoRun = NoRun
    Rules = {k1, k2}
    Handlers = {h1, h2}
    MinRuns = 1
    FreshRuns = 1
    MaxObserved = 2
    StableWorkflow = FALSE
    Absent = Absent
    Erased = Erased
    NoContract = NoContract
    MaxFeedback = 4
    MaxCrashes = 1
    MaxOpened = 1
    MaxEvents = 4
SYMMETRY LoopSymmetry
INVARIANTS
    TrustIsEarned
    CountersFollowRows
    PolicyRootsInTrust
PROPERTY EarnedTrustFallsToEvidence
CHECK_DEADLOCK FALSE
