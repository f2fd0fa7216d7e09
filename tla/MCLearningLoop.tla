--------------------------- MODULE MCLearningLoop ---------------------------
(* Model-checking instances of LearningLoop.                               *)
EXTENDS LearningLoop, TLC

\* Runs and rules are only compared; handlers are alike.
LoopSymmetry == Permutations(Runs) \cup Permutations(Rules) \cup Permutations(Handlers)
=============================================================================
