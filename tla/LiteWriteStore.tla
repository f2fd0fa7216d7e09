-------------------------- MODULE LiteWriteStore --------------------------
(***************************************************************************)
(* The Lite write store: one SQLite connection that every request of the   *)
(* process shares, and the write batch applyMemoryWrite puts through it.   *)
(* `db` is what a statement of the connection reads, `disk` what is        *)
(* committed; they differ only while a transaction is open.  A caller of   *)
(* withTx that finds one open runs inside it: it opens nothing, ends       *)
(* nothing, and is undone with it.                                         *)
(***************************************************************************)
EXTENDS Integers

CONSTANTS
    Nodes,          \* ids of nodes written by plain memory writes
    MaxVersion,     \* bound: the last replay playbook version considered
    Bodies,         \* contents a node may be written with
    Reviews,        \* replay repair reviews; a review is also the body it writes
    NoOne           \* no open transaction, and no row

Versions == 1..MaxVersion
NodeIds == Nodes \cup Versions
Contents == Bodies \cup Reviews \cup {NoOne}

ASSUME StoreAssumption ==
    /\ MaxVersion \in Nat \ {0}
    /\ Nodes \cap Versions = {}
    /\ NoOne \notin Reviews \cup Bodies

VARIABLES
    db,         \* rows as the connection sees them
    disk,       \* rows a crash or a rollback leaves
    opener      \* the review whose transaction is open, or NoOne

store == <<db, disk, opener>>

Statuses == {"none", "pending", "ready", "failed"}
Rows == [body : Contents, status : Statuses]
NoRow == [body |-> NoOne, status |-> "none"]

Databases ==
    [nodes   : [NodeIds -> Rows],
     edges   : SUBSET (NodeIds \X NodeIds),
     commits : SUBSET (NodeIds \X Contents)]

Writes ==
    [id : NodeIds, body : Bodies \cup Reviews, refs : SUBSET NodeIds,
     status : Statuses \ {"none"}, badRule : BOOLEAN]

\* The first version was compiled from a run before the model starts.
FirstRows ==
    [nodes   |-> [n \in NodeIds |-> IF n = 1 THEN [body |-> NoOne, status |-> "ready"]
                                             ELSE NoRow],
     edges   |-> {},
     commits |-> {<<1, NoOne>>}]

StoreInit == db = FirstRows /\ disk = FirstRows /\ opener = NoOne

InTx == opener # NoOne

Exists(d, n) == d.nodes[n].status # "none"

-----------------------------------------------------------------------------
\* A write batch of one node with edges to `refs`.

\* nodeFingerprintsByIds: everything but the embedding columns.
Fingerprint(row) == row.body

\* Mutant: the embedding status is part of the fingerprint.
DuplicateConflictStatus(d, w) ==
    Exists(d, w.id) /\ (Fingerprint(d.nodes[w.id]) # w.body \/ d.nodes[w.id].status # w.status)

\* Mutant: replay versions are among the ids whose content may be reused.
DuplicateConflictReuse(d, w) ==
    w.id \notin Versions /\ Exists(d, w.id) /\ Fingerprint(d.nodes[w.id]) # w.body

DuplicateConflict(d, w) ==
    Exists(d, w.id) /\ Fingerprint(d.nodes[w.id]) # w.body

\* Mutant: only ends in the replay playbook are looked up.
DanglingEdgeVersions(d, w) == \E n \in w.refs \cap Versions : ~Exists(d, n)

DanglingEdge(d, w) == \E n \in w.refs \ {w.id} : ~Exists(d, n)

\* The checks precede every insert.
PassesChecks(d, w) == ~DuplicateConflict(d, w) /\ ~DanglingEdge(d, w)

\* Mutant: INSERT OR REPLACE.
NodeReplaced(d, w) == [d.nodes EXCEPT ![w.id] = [body |-> w.body, status |-> w.status]]

\* INSERT OR IGNORE: an existing row, its embedding included, stays.
NodeInserted(d, w) ==
    [d.nodes EXCEPT ![w.id] =
        IF Exists(d, w.id) THEN @ ELSE [body |-> w.body, status |-> w.status]]

WithNode(d, w) ==
    [d EXCEPT !.commits = @ \cup {<<w.id, w.body>>},
              !.nodes = NodeInserted(d, w)]

WithBatch(d, w) ==
    [WithNode(d, w) EXCEPT !.edges = @ \cup {<<w.id, n>> : n \in w.refs}]

\* setNodeEmbeddingReady, setNodeEmbeddingFailed: an UPDATE by id, whatever the status was.
WithStatus(d, n, status) ==
    IF Exists(d, n) THEN [d EXCEPT !.nodes[n].status = status] ELSE d

-----------------------------------------------------------------------------
\* withTx around work that never leaves the JavaScript turn.

\* fn() resolved: COMMIT, or nothing to end when it ran inside an open transaction.
ShortTx(rows) ==
    /\ db' = rows
    /\ disk' = IF InTx THEN disk ELSE rows
    /\ UNCHANGED opener

\* Mutant: no ROLLBACK.
ShortTxKeeps(rows) == db' = rows /\ disk' = (IF InTx THEN disk ELSE rows) /\ UNCHANGED opener

\* fn() threw having left `rows`: ROLLBACK, unless the transaction is another's.
ShortTxThrows(rows) ==
    /\ db' = IF InTx THEN rows ELSE db
    /\ UNCHANGED <<disk, opener>>

\* withTx around work that awaits: BEGIN IMMEDIATE, or join the transaction that is open.
OpenTx(v) ==
    /\ opener' = IF InTx THEN opener ELSE v
    /\ UNCHANGED <<db, disk>>

\* Mutant: the finally block does not lower txDepth.
CommitTxStaysOpen(v) ==
    /\ disk' = IF opener = v THEN db ELSE disk
    /\ UNCHANGED <<db, opener>>

CommitTx(v) ==
    /\ disk' = IF opener = v THEN db ELSE disk
    /\ opener' = IF opener = v THEN NoOne ELSE opener
    /\ UNCHANGED db

RollbackTx(v) ==
    /\ db' = IF opener = v THEN disk ELSE db
    /\ opener' = IF opener = v THEN NoOne ELSE opener
    /\ UNCHANGED disk

\* The process dies: SQLite drops the open transaction when the file is next opened.
StoreCrash ==
    /\ db' = disk
    /\ opener' = NoOne
    /\ UNCHANGED disk
=============================================================================
