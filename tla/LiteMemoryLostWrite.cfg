SPECIFICATION MemorySpec
CONSTANTS
    w1 = w1
    w2 = w2
    w3 = w3
    w4 = w4
    n1 = n1
    n2 = n2
    a = a
    b = b
    c = c
    Nodes = {n1, n2}
    Bodies = {a, b, c}
    Reviews = {v1, v2}
    Requests = {w1, w2, w3, w4}
    NoOne = NoOne
    MaxVersion = 4
    MaxCrashes = 0
    Input <- MCInput
INVARIANT AnsweredWritesArePersisted
CHECK_DEADLOCK FALSE
