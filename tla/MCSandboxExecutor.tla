------------------------- MODULE MCSandboxExecutor -------------------------
(* Model-checking instances of SandboxExecutor.                            *)
EXTENDS SandboxExecutor, TLC

\* Run ids are only compared: behaviours are symmetric in them.  Used by the
\* runs that check no liveness property.
RunSymmetry == Permutations(Runs)
============================================================================
