--------------------------- MODULE MCLiteMemory ---------------------------
EXTENDS LiteMemory, TLC

CONSTANTS w1, w2, w3, w4, n1, n2, a, b, c

Request(id, body, refs, embeds, badRule) ==
    [id |-> id, body |-> body, refs |-> refs, embeds |-> embeds, badRule |-> badRule]

\* A write, its retry, a write with an edge to its node, and a broken rule under the same id.
MCInput ==
    w1 :> Request(n1, a, {1}, TRUE, FALSE) @@
    w2 :> Request(n1, a, {1}, TRUE, FALSE) @@
    w3 :> Request(n2, b, {n1, 2}, FALSE, FALSE) @@
    w4 :> Request(n2, c, {}, TRUE, TRUE)

ReviewSymmetry == Permutations(Reviews)
=============================================================================
