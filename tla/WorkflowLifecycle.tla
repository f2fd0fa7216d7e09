-------------------------- MODULE WorkflowLifecycle --------------------------
(***************************************************************************)
(* What learning a workflow promises: a workflow signature is observed in  *)
(* continuity writes, and becomes stable by an observation that another    *)
(* one preceded.  Once committed, both are for good; until then they may   *)
(* be taken back, all of them together.                                    *)
(***************************************************************************)
CONSTANTS Signatures, Observations

VARIABLES
  seen,        \* the observations of each signature
  stable,      \* the signatures with a stable workflow
  keptSeen,    \* what of them is committed
  keptStable,
  ever         \* the observations each signature ever had

kept == <<keptSeen, keptStable>>

LifecycleInit ==
  /\ seen = [s \in Signatures |-> {}] /\ stable = {}
  /\ keptSeen = seen /\ keptStable = {} /\ ever = seen

\* A write is committed at once or with the transaction it is made in.
Keep ==
  \/ UNCHANGED kept
  \/ keptSeen' = seen' /\ keptStable' = stable'

Observe(s, o) ==
  /\ seen' = [seen EXCEPT ![s] = @ \cup {o}]
  /\ ever' = [ever EXCEPT ![s] = @ \cup {o}]
  /\ UNCHANGED stable
  /\ Keep

Promote(s, o) ==
  /\ \E p \in ever[s] : p # o
  /\ seen' = [seen EXCEPT ![s] = @ \cup {o}]
  /\ ever' = [ever EXCEPT ![s] = @ \cup {o}]
  /\ s \notin stable
  /\ stable' = stable \cup {s}
  /\ Keep

Settle == keptSeen' = seen /\ keptStable' = stable /\ UNCHANGED <<seen, stable, ever>>

TakeBack == seen' = keptSeen /\ stable' = keptStable /\ UNCHANGED <<kept, ever>>

LifecycleNext ==
  \/ \E s \in Signatures, o \in Observations : Observe(s, o) \/ Promote(s, o)
  \/ Settle \/ TakeBack

LifecycleSpec == LifecycleInit /\ [][LifecycleNext]_<<seen, stable, kept, ever>>
=============================================================================
