---------------------------- MODULE ReplayReview ----------------------------
(***************************************************************************)
(* POST /v1/memory/replay/playbooks/repair/review: the whole review runs   *)
(* in withTx and awaits sandbox validation, embeddings and the governance  *)
(* provider inside it.  It reads the playbook's versions from the replay   *)
(* mirror (a database of its own), writes the next version to the store    *)
(* and then to the mirror, and may promote it to one version more.         *)
(***************************************************************************)
EXTENDS LiteWriteStore

Missing == "missing"

ASSUME MirrorAssumption == Missing \notin Contents

VARIABLES
    stage,      \* stage[v]: how far review v has come
    next,       \* next[v]: the version v decided to write, from what it read first
    borrowed,   \* borrowed[v]: v found another's transaction open and runs inside it
    mirror      \* mirror[n]: content of version n in the replay mirror

reviewing == <<stage, next, borrowed, mirror>>

Stages == {"new", "validating", "promoting", "governing", "answered", "refused", "lost"}
UnderWay == {"validating", "promoting", "governing"}

ReviewInit ==
    /\ stage = [v \in Reviews |-> "new"]
    /\ next = [v \in Reviews |-> 1]
    /\ borrowed = [v \in Reviews |-> FALSE]
    /\ mirror = [n \in Versions |-> IF n = 1 THEN NoOne ELSE Missing]

\* listReplayPlaybookVersions: the first row by version_num DESC.
IsLatest(n) == mirror[n] # Missing /\ \A m \in (n + 1)..MaxVersion : mirror[m] = Missing

\* A procedure node derived from its source.  Replay writes embed inside the review or not at
\* all, so the status of their rows is told apart by nothing and is fixed here.
VersionBatch(v, n, source) ==
    [id |-> n, body |-> v, refs |-> {source}, status |-> "ready", badRule |-> FALSE]

Advance(v, s) == stage' = [stage EXCEPT ![v] = s]

\* Version 1 is the one in pending_review; the new version follows the latest one.
ReviewBegins(v) ==
    /\ stage[v] = "new"
    /\ OpenTx(v)
    /\ \E n \in 1..(MaxVersion - 2) :
        IsLatest(n) /\ next' = [next EXCEPT ![v] = n + 1]
    /\ Advance(v, "validating")
    /\ borrowed' = [borrowed EXCEPT ![v] = opener' # v]
    /\ UNCHANGED mirror

\* Mutant: a review inside another's transaction leaves the mirror to its opener.
StoreVersionUnmirrored(v, n, source) ==
    /\ PassesChecks(db, VersionBatch(v, n, source))
    /\ ShortTx(WithBatch(db, VersionBatch(v, n, source)))
    /\ mirror' = IF opener = v THEN [mirror EXCEPT ![n] = v] ELSE mirror

\* applyReplayMemoryWrite: store first, then the mirror.
StoreVersion(v, n, source) ==
    /\ PassesChecks(db, VersionBatch(v, n, source))
    /\ ShortTx(WithBatch(db, VersionBatch(v, n, source)))
    /\ mirror' = [mirror EXCEPT ![n] = v]

ReviewWrites(v) ==
    /\ stage[v] = "validating"
    /\ StoreVersion(v, next[v], 1)
    /\ Advance(v, "promoting")
    /\ UNCHANGED <<next, borrowed>>

\* auto_promote_on_pass with a passing gate.
ReviewPromotes(v) ==
    /\ stage[v] = "promoting"
    /\ next[v] < MaxVersion
    /\ StoreVersion(v, next[v] + 1, next[v])
    /\ Advance(v, "governing")
    /\ UNCHANGED <<next, borrowed>>

ReviewDoesNotPromote(v) ==
    /\ stage[v] = "promoting"
    /\ Advance(v, "governing")
    /\ UNCHANGED <<store, next, borrowed, mirror>>

ReviewEnds(v) ==
    /\ stage[v] = "governing"
    /\ Advance(v, "answered")
    /\ CommitTx(v)
    /\ UNCHANGED <<next, borrowed, mirror>>

\* Validation, an embedding, a failed check, or async_outbox delivery in Lite: any await may
\* reject, and what the mirror has been told stays told.
ReviewThrows(v) ==
    /\ stage[v] \in UnderWay
    /\ Advance(v, "refused")
    /\ RollbackTx(v)
    /\ UNCHANGED <<next, borrowed, mirror>>

ReviewStep(v) ==
    \/ ReviewBegins(v)
    \/ ReviewWrites(v)
    \/ ReviewPromotes(v)
    \/ ReviewDoesNotPromote(v)
    \/ ReviewEnds(v)
    \/ ReviewThrows(v)

\* The statements of applyMemoryWrite in their order, the process dying behind one of them: the
\* commit row, the node, its edges.
CutShort(d, w) == {[d EXCEPT !.commits = @ \cup {<<w.id, w.body>>}], WithNode(d, w), WithBatch(d, w)}

\* The version v would write next.
IsNextVersion(v, n, source) ==
    \/ stage[v] = "validating" /\ n = next[v] /\ source = 1
    \/ stage[v] = "promoting" /\ n = next[v] + 1 /\ source = next[v]

\* A joined review whose opener has ended runs outside any transaction: its statements commit
\* one by one, the mirror follows the last of them, and the process may die before that.
DiesStoring(v) ==
    /\ ~InTx
    /\ \E n, source \in Versions :
        /\ IsNextVersion(v, n, source)
        /\ PassesChecks(db, VersionBatch(v, n, source))
        /\ disk' \in CutShort(db, VersionBatch(v, n, source))
    /\ db' = disk'
    /\ UNCHANGED opener

ReviewCrash ==
    /\ stage' = [v \in Reviews |-> IF stage[v] \in UnderWay THEN "lost" ELSE stage[v]]
    /\ UNCHANGED <<next, borrowed, mirror>>
=============================================================================
