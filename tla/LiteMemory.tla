----------------------------- MODULE LiteMemory -----------------------------
(***************************************************************************)
(* Memory writes and replay repair reviews over the one write store.       *)
(***************************************************************************)
EXTENDS MemoryWrite, ReplayReview, FiniteSets

CONSTANT MaxCrashes     \* bound: crashes considered

ASSUME CrashAssumption == MaxCrashes \in Nat

VARIABLE crashes

vars == <<store, writing, reviewing, crashes>>

MemoryInit == StoreInit /\ WriteInit /\ ReviewInit /\ crashes = 0

Write(r) == WriteStep(r) /\ UNCHANGED <<reviewing, crashes>>
Review(v) == ReviewStep(v) /\ UNCHANGED <<writing, crashes>>

Crash ==
    /\ crashes < MaxCrashes
    /\ crashes' = crashes + 1
    /\ StoreCrash \/ \E v \in Reviews : DiesStoring(v)
    /\ WriteCrash
    /\ ReviewCrash

MemoryNext ==
    \/ \E r \in Requests : Write(r)
    \/ \E v \in Reviews : Review(v)
    \/ Crash

MemorySpec == MemoryInit /\ [][MemoryNext]_vars

-----------------------------------------------------------------------------
(* Properties *)

\* Every variable stays in its type; outside a transaction everything is on disk, and the
\* opener of a transaction is under way (withTx, lite-write-store.ts).
MemoryTypeOK ==
    /\ db \in Databases
    /\ disk \in Databases
    /\ opener \in Reviews \cup {NoOne}
    /\ ~InTx => db = disk
    /\ InTx => stage[opener] \in UnderWay
    /\ phase \in [Requests -> Phases]
    /\ joined \in [Requests -> BOOLEAN]
    /\ stage \in [Reviews -> Stages]
    /\ next \in [Reviews -> Versions]
    /\ borrowed \in [Reviews -> BOOLEAN]
    /\ mirror \in [Versions -> Contents \cup {Missing}]
    /\ crashes \in 0..MaxCrashes

Closed(d) == \A e \in d.edges : Exists(d, e[1]) /\ Exists(d, e[2])

\* No edge ever points at a node the store does not have, neither in what requests read nor
\* in what a crash would leave: applyMemoryWrite checks both ends in the transaction that
\* inserts the edge, and a rollback takes nodes and edges together.
EdgesHaveEndpoints == Closed(db) /\ Closed(disk)

Holds(d, w) ==
    /\ d.nodes[w.id].body = w.body
    /\ <<w.id, w.body>> \in d.commits
    /\ \A n \in w.refs : <<w.id, n>> \in d.edges

\* A write that was answered and always ran in transactions of its own is there for good, its
\* planned embedding is settled, and no later retry, rollback or crash takes that away; the same
\* of a review, whose version is then in the mirror as well (commitLitePreparedWriteWithProjection,
\* replayPlaybookRepairReview).
OwnTransactionsLast ==
    /\ \A r \in Requests : phase[r] = "answered" /\ ~joined[r] =>
            /\ Holds(disk, Batch(r))
            /\ Input[r].embeds => disk.nodes[Input[r].id].status # "pending"
    /\ \A v \in Reviews : stage[v] = "answered" /\ ~borrowed[v] =>
            /\ Holds(disk, VersionBatch(v, next[v], 1))
            /\ mirror[next[v]] = v

\* A write whose own transaction was refused, or that was never made, leaves no node row: a
\* stored node with a request's content is that of a request that got past its checks, or that
\* ran inside another's transaction (withTx's ROLLBACK).
RefusedLeavesNothing ==
    \A r \in Requests : Exists(db, Input[r].id) /\ db.nodes[Input[r].id].body = Input[r].body =>
        \E q \in Requests :
            /\ Batch(q).id = Batch(r).id /\ Batch(q).body = Batch(r).body
            /\ phase[q] \in {"embedding", "answered", "lost"} \/ joined[q]

\* A retry is never refused for a conflict with itself, whatever became of the first attempt
\* and of its embedding: only a different content under the same node id conflicts
\* (writeNodeFingerprint leaves the embedding columns out).
ConflictsAreReal ==
    \A r \in Requests : phase[r] = "conflict" =>
        \E q \in Requests :
            /\ Input[q].id = Input[r].id
            /\ Input[q].body # Input[r].body
            /\ phase[q] # "new"

\* Two answered reviews never share a version, unless both ran inside transactions of others:
\* both may read the same latest version, but the second insert meets the first's row
\* (duplicate_node_id_conflict).
OneReviewPerVersion ==
    \A u, v \in Reviews :
        /\ u # v
        /\ stage[u] = "answered" /\ stage[v] = "answered"
        /\ next[u] = next[v]
        => borrowed[u] /\ borrowed[v]

Unmirrored(d) == {n \in Versions : Exists(d, n) /\ mirror[n] # d.nodes[n].body}

\* A version on disk is in the replay mirror with the same content, whoever's transaction
\* committed it: the mirror is written before the COMMIT (applyReplayMemoryWrite).  Only a crash
\* into a review that joined a transaction and outlived it can leave one without, and each crash
\* no more than one.
CommittedVersionsAreMirrored ==
    /\ \A n \in Unmirrored(disk) :
        \E v \in Reviews : disk.nodes[n].body = v /\ borrowed[v] /\ stage[v] = "lost"
    /\ Cardinality(Unmirrored(disk)) <= crashes

\* Stated by the SDK reference of memory.write: what was answered is persisted.
\* It fails: a write that joined a review's open transaction goes with its rollback.
AnsweredWritesArePersisted ==
    \A r \in Requests : phase[r] = "answered" => Exists(db, Input[r].id)
=============================================================================
