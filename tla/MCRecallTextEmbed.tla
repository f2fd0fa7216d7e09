------------------------- MODULE MCRecallTextEmbed -------------------------
(* A text asked for twice and two asked for once: batches of two texts, a   *)
(* full queue, cache hits, joined flights, evictions and a second flight.   *)
EXTENDS RecallTextEmbed, TLC
CONSTANTS i1, i2, i3, i4, q1, q2, q3, q4, textA, textB, textC

MCItems == {i1, i2, i3, i4}
MCKeyOf == i1 :> textA @@ i2 :> textA @@ i3 :> textB @@ i4 :> textC
MCRequests == {q1, q2, q3, q4}
MCTextAsked == q1 :> textA @@ q2 :> textA @@ q3 :> textB @@ q4 :> textC
============================================================================
