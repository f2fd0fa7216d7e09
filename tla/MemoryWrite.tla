---------------------------- MODULE MemoryWrite ----------------------------
(***************************************************************************)
(* POST /v1/memory/write in Lite: a batch is checked and stored in one     *)
(* transaction, then the planned embeddings are fetched outside of it and  *)
(* recorded in a second one before the answer is sent.  The first          *)
(* transaction awaits nothing but the in-process store, so it is one step. *)
(***************************************************************************)
EXTENDS LiteWriteStore

CONSTANTS
    Requests,   \* write requests, a client's retries included
    Input       \* Input[r]: the node, its content, its edges, whether it is embedded

Batch(r) ==
    [id |-> Input[r].id, body |-> Input[r].body, refs |-> Input[r].refs,
     status |-> IF Input[r].embeds THEN "pending" ELSE "failed",
     badRule |-> Input[r].badRule]

ASSUME InputAssumption ==
    /\ Input \in [Requests -> [id : Nodes, body : Bodies, refs : SUBSET NodeIds,
                               embeds : BOOLEAN, badRule : BOOLEAN]]

VARIABLES
    phase,      \* phase[r]: how far request r has come
    joined      \* joined[r]: a transaction of r ran inside another request's

writing == <<phase, joined>>

Phases == {"new", "embedding", "answered", "conflict", "refused", "lost"}

WriteInit ==
    /\ phase = [r \in Requests |-> "new"]
    /\ joined = [r \in Requests |-> FALSE]

GoTo(r, p) ==
    /\ phase' = [phase EXCEPT ![r] = p]
    /\ joined' = [joined EXCEPT ![r] = @ \/ InTx]

\* A check fails before anything is inserted.
WriteRejected(r) ==
    /\ phase[r] = "new"
    /\ ~PassesChecks(db, Batch(r))
    /\ GoTo(r, IF DuplicateConflict(db, Batch(r)) THEN "conflict" ELSE "refused")
    /\ ShortTxThrows(db)

\* A rule node without its target throws after its commit and its node are in.
WriteThrows(r) ==
    /\ phase[r] = "new"
    /\ PassesChecks(db, Batch(r))
    /\ Batch(r).badRule
    /\ GoTo(r, "refused")
    /\ ShortTxThrows(WithNode(db, Batch(r)))

\* Stored; nodes that are planned for embedding and not ready yet are sent out.
WriteStored(r) ==
    LET rows == WithBatch(db, Batch(r)) IN
    /\ phase[r] = "new"
    /\ PassesChecks(db, Batch(r))
    /\ ~Batch(r).badRule
    /\ ShortTx(rows)
    /\ GoTo(r, IF Input[r].embeds /\ rows.nodes[Input[r].id].status # "ready"
               THEN "embedding" ELSE "answered")

EmbeddingReturns(r) ==
    /\ phase[r] = "embedding"
    /\ ShortTx(WithStatus(db, Input[r].id, "ready"))
    /\ GoTo(r, "answered")

\* The provider failed or gave the wrong number of vectors; the write is answered all the same.
EmbeddingFails(r) ==
    /\ phase[r] = "embedding"
    /\ ShortTx(WithStatus(db, Input[r].id, "failed"))
    /\ GoTo(r, "answered")

WriteStep(r) ==
    \/ WriteRejected(r)
    \/ WriteThrows(r)
    \/ WriteStored(r)
    \/ EmbeddingReturns(r)
    \/ EmbeddingFails(r)

\* A request that was under way gets no answer.
WriteCrash ==
    /\ phase' = [r \in Requests |-> IF phase[r] = "embedding" THEN "lost" ELSE phase[r]]
    /\ UNCHANGED joined
=============================================================================
