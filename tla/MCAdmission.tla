---------------------------- MODULE MCAdmission ----------------------------
(* Three loopback requests of recall_text, which pass the embedding quota   *)
(* only, and a context assembly of another client, which passes two limits. *)
EXTENDS Admission, TLC
CONSTANTS t1, t2, t3, s, q1, q2, q3, sr, sq, here, there, thereToo, recall, embed

MCCallsOf == t1 :> <<q1>> @@ t2 :> <<q2>> @@ t3 :> <<q3>> @@ s :> <<sr, sq>>
MCClientOf == sr :> there @@ sq :> thereToo @@ [c \in {q1, q2, q3} |-> here]
MCLimiterOf == there :> recall @@ thereToo :> embed @@ here :> embed
============================================================================
