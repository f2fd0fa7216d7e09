SPECIFICATION ContinuitySpec
CONSTANTS
    w1 = w1
    w2 = w2
    w3 = w3
    w4 = w4
    n1 = n1
    n2 = n2
    a = a
    b = b
    c = c
    Nodes = {n1, n2}
    Bodies = {a, b, c}
    Reviews = {v1, v2}
    Requests = {w1, w2, w3, w4}
    NoOne = NoOne
    MaxVersion = 4
    MaxCrashes = 1
    Input <- MCInput
    s = s
    StateIds = {s}
    NoState = NoState
    Carries <- MCCarries
SYMMETRY ReviewSymmetry
INVARIANTS
    MemoryTypeOK
    EdgesHaveEndpoints
    OwnTransactionsLast
    RefusedLeavesNothing
    ConflictsAreReal
    OneReviewPerVersion
    CommittedVersionsAreMirrored
    OneTransitionPerRevision
    StatesAreStored
CHECK_DEADLOCK FALSE
