-------------------------- MODULE LiteMemoryProofs --------------------------
(***************************************************************************)
(* For every set of requests, reviews and nodes: types, closed edges, the  *)
(* replay mirror following what is committed, and what an answer promises: *)
(* rows that last, refusals that leave nothing, conflicts that are real,   *)
(* and versions that no two reviews share.                                 *)
(*                                                                         *)
(* The store part of the invariant is kept by each way a transaction can   *)
(* end, whatever rows it leaves, as long as these are closed; the mirror   *)
(* part needs that rows on disk are never altered but in their embedding.  *)
(* What lasts (LastingInv) needs to know of each row whose content it has, *)
(* and of an answered request which of its rows are committed.             *)
(***************************************************************************)
EXTENDS LiteMemory, FiniteSetTheorems, TLAPS

\* What every step keeps of the store alone.
StoreInv ==
    /\ db \in Databases
    /\ disk \in Databases
    /\ opener \in Reviews \cup {NoOne}
    /\ ~InTx => db = disk
    /\ Closed(db)
    /\ Closed(disk)

\* Rows of d are rows of e, with the same content.
Kept(d, e) ==
    \A n \in NodeIds : Exists(d, n) =>
        Exists(e, n) /\ e.nodes[n].body = d.nodes[n].body

\* A joined review that a crash has taken.
LostJoined(v) == borrowed[v] /\ stage[v] = "lost"

\* What db holds of versions is on disk or mirrored; it contains CommittedVersionsAreMirrored.
MirrorInv ==
    /\ Unmirrored(db) \subseteq Unmirrored(disk)
    /\ \A n \in Unmirrored(disk) : \E v \in Reviews : disk.nodes[n].body = v /\ LostJoined(v)
    /\ Cardinality(Unmirrored(disk)) <= crashes

-----------------------------------------------------------------------------
(* Batches *)

\* What a request and a review hand to applyMemoryWrite is a batch.
LEMMA BatchesAreWrites ==
    /\ \A r \in Requests : Batch(r) \in Writes
    /\ \A v \in Reviews, n, s \in Versions : VersionBatch(v, n, s) \in Writes
  BY InputAssumption DEF Batch, VersionBatch, Writes, NodeIds, Statuses

\* Inserting a node or a batch gives a database again.
LEMMA BatchTyped ==
    ASSUME NEW d \in Databases, NEW w \in Writes
    PROVE  WithNode(d, w) \in Databases /\ WithBatch(d, w) \in Databases
<1>1. [body |-> w.body, status |-> w.status] \in Rows
  BY DEF Writes, Rows, Contents, Statuses
<1>2. NodeInserted(d, w) \in [NodeIds -> Rows]
  BY <1>1 DEF NodeInserted, Databases, Writes
<1>3. w.id \in NodeIds /\ w.body \in Contents
  BY DEF Writes, Contents
<1>4. WithNode(d, w) \in Databases
  <2>1. d.commits \cup {<<w.id, w.body>>} \subseteq NodeIds \X Contents
    BY <1>3 DEF Databases
  <2>2. QED
    BY <1>2, <2>1 DEF WithNode, Databases
<1>5. {<<w.id, n>> : n \in w.refs} \subseteq NodeIds \X NodeIds
  BY DEF Writes
<1>6. QED
  BY <1>4, <1>5 DEF WithBatch, Databases

\* A row stays, and the batch's own node is there afterwards.
LEMMA BatchKeeps ==
    ASSUME NEW d \in Databases, NEW w \in Writes
    PROVE  /\ Kept(d, WithNode(d, w)) /\ Kept(d, WithBatch(d, w))
           /\ Exists(WithNode(d, w), w.id) /\ Exists(WithBatch(d, w), w.id)
           /\ WithBatch(d, w).nodes = WithNode(d, w).nodes
<1>1. WithNode(d, w).nodes = NodeInserted(d, w)
  BY DEF WithNode, Databases
<1>2. WithBatch(d, w).nodes = NodeInserted(d, w)
  BY <1>1 DEF WithBatch, WithNode, Databases
<1>3. w.id \in NodeIds /\ w.status # "none"
  BY DEF Writes
<1>4. \A n \in NodeIds : d.nodes[n].status # "none" =>
        NodeInserted(d, w)[n] = d.nodes[n]
  BY DEF NodeInserted, Exists, Databases
<1>5. NodeInserted(d, w)[w.id].status # "none"
  BY <1>3 DEF NodeInserted, Exists, Databases
<1>6. QED
  BY <1>1, <1>2, <1>4, <1>5 DEF Kept, Exists

\* Keeping rows keeps the ends of edges.
LEMMA KeptCloses ==
    ASSUME NEW d \in Databases, NEW e \in Databases, Closed(d), Kept(d, e)
    PROVE  \A x \in d.edges : Exists(e, x[1]) /\ Exists(e, x[2])
  BY DEF Closed, Kept, Databases

\* applyMemoryWrite never stores an edge without its ends.
LEMMA BatchCloses ==
    ASSUME NEW d \in Databases, NEW w \in Writes, Closed(d), PassesChecks(d, w)
    PROVE  Closed(WithNode(d, w)) /\ Closed(WithBatch(d, w))
<1>1. WithNode(d, w).edges = d.edges
  BY DEF WithNode, Databases
<1>2. WithBatch(d, w).edges = d.edges \cup {<<w.id, n>> : n \in w.refs}
  BY <1>1 DEF WithBatch, WithNode, Databases
<1>3. \A n \in w.refs : Exists(WithBatch(d, w), n)
  <2>1. SUFFICES ASSUME NEW n \in w.refs PROVE Exists(WithBatch(d, w), n)
    OBVIOUS
  <2>2. CASE n = w.id
    BY <2>2, BatchKeeps
  <2>3. CASE n # w.id
    <3>1. Exists(d, n) /\ n \in NodeIds
      BY <2>3 DEF PassesChecks, DanglingEdge, Writes
    <3>2. QED
      BY <3>1, BatchKeeps DEF Kept
  <2>4. QED
    BY <2>2, <2>3
<1>4. \A x \in d.edges : Exists(WithNode(d, w), x[1]) /\ Exists(WithNode(d, w), x[2])
  BY BatchTyped, BatchKeeps, KeptCloses
<1>5. \A x \in d.edges : Exists(WithBatch(d, w), x[1]) /\ Exists(WithBatch(d, w), x[2])
  BY BatchTyped, BatchKeeps, KeptCloses
<1>6. \A n \in w.refs : Exists(WithBatch(d, w), <<w.id, n>>[1])
                        /\ Exists(WithBatch(d, w), <<w.id, n>>[2])
  BY <1>3, BatchKeeps
<1>7. QED
  BY <1>1, <1>2, <1>4, <1>5, <1>6 DEF Closed

\* An embedding update touches neither rows' content nor edges.
LEMMA StatusKeeps ==
    ASSUME NEW d \in Databases, NEW n \in NodeIds, NEW s \in {"ready", "failed"}, Closed(d)
    PROVE  /\ WithStatus(d, n, s) \in Databases
           /\ Kept(d, WithStatus(d, n, s)) /\ Kept(WithStatus(d, n, s), d)
           /\ Closed(WithStatus(d, n, s))
<1> DEFINE e == WithStatus(d, n, s)
<1>1. CASE ~Exists(d, n)
  BY <1>1 DEF WithStatus, Kept
<1>2. CASE Exists(d, n)
  <2>1. e = [d EXCEPT !.nodes[n].status = s]
    BY <1>2 DEF WithStatus
  <2>2. e \in Databases /\ e.edges = d.edges
    BY <2>1 DEF Databases, Rows, Statuses
  <2>3. \A m \in NodeIds : /\ e.nodes[m].body = d.nodes[m].body
                           /\ (m # n => e.nodes[m].status = d.nodes[m].status)
    BY <2>1 DEF Databases, Rows
  <2>4. e.nodes[n].status = s
    BY <2>1 DEF Databases, Rows
  <2>5. \A m \in NodeIds : Exists(e, m) <=> Exists(d, m)
    BY <1>2, <2>3, <2>4 DEF Exists
  <2>6. Kept(d, e) /\ Kept(e, d)
    BY <2>3, <2>5 DEF Kept
  <2>7. Closed(e)
    BY <2>2, <2>6, KeptCloses DEF Closed
  <2>8. QED
    BY <2>2, <2>6, <2>7
<1>3. QED
  BY <1>1, <1>2

\* All that d says is said by e: rows with their content, settled embeddings, edges, commits.
Within(d, e) ==
    /\ Kept(d, e)
    /\ d.edges \subseteq e.edges
    /\ d.commits \subseteq e.commits
    /\ \A n \in NodeIds : Exists(d, n) /\ d.nodes[n].status # "pending" =>
            e.nodes[n].status # "pending"

Stored(d, w) == Exists(d, w.id) /\ Holds(d, w)

LEMMA WithinIsOrder ==
    /\ \A d : Within(d, d)
    /\ \A d, e, f : Within(d, e) /\ Within(e, f) => Within(d, f)
  BY DEF Within, Kept

LEMMA WithinStores ==
    ASSUME NEW d, NEW e, NEW w \in Writes, Within(d, e), Stored(d, w)
    PROVE  Stored(e, w)
  BY DEF Within, Kept, Stored, Holds, Writes

\* A batch takes nothing away, and is stored once it has passed the checks.
LEMMA BatchWithin ==
    ASSUME NEW d \in Databases, NEW w \in Writes
    PROVE  /\ Within(d, WithNode(d, w)) /\ Within(d, WithBatch(d, w))
           /\ PassesChecks(d, w) => Stored(WithBatch(d, w), w)
<1>1. /\ WithNode(d, w).nodes = NodeInserted(d, w)
      /\ WithNode(d, w).edges = d.edges
      /\ WithNode(d, w).commits = d.commits \cup {<<w.id, w.body>>}
  BY DEF WithNode, Databases
<1>2. /\ WithBatch(d, w).nodes = NodeInserted(d, w)
      /\ WithBatch(d, w).edges = d.edges \cup {<<w.id, n>> : n \in w.refs}
      /\ WithBatch(d, w).commits = d.commits \cup {<<w.id, w.body>>}
  BY <1>1 DEF WithBatch, WithNode, Databases
<1>3. \A n \in NodeIds : Exists(d, n) => NodeInserted(d, w)[n] = d.nodes[n]
  BY DEF NodeInserted, Exists, Databases
<1>4. Within(d, WithNode(d, w)) /\ Within(d, WithBatch(d, w))
  BY <1>1, <1>2, <1>3, BatchKeeps DEF Within
<1>5. ASSUME PassesChecks(d, w) PROVE Stored(WithBatch(d, w), w)
  <2>1. w.id \in NodeIds
    BY DEF Writes
  <2>2. NodeInserted(d, w)[w.id].body = w.body
    BY <1>5, <2>1 DEF PassesChecks, DuplicateConflict, Fingerprint, NodeInserted, Databases
  <2>3. QED
    BY <1>2, <2>2, BatchKeeps DEF Stored, Holds
<1>6. QED
  BY <1>4, <1>5

LEMMA StatusWithin ==
    ASSUME NEW d \in Databases, NEW n \in NodeIds, NEW s \in {"ready", "failed"}, Closed(d)
    PROVE  /\ Within(d, WithStatus(d, n, s))
           /\ Exists(d, n) => WithStatus(d, n, s).nodes[n].status = s
<1>1. Kept(d, WithStatus(d, n, s))
  BY StatusKeeps
<1>2. CASE ~Exists(d, n)
  BY <1>1, <1>2 DEF WithStatus, Within
<1>3. CASE Exists(d, n)
  <2> DEFINE e == WithStatus(d, n, s)
  <2>1. e = [d EXCEPT !.nodes[n].status = s]
    BY <1>3 DEF WithStatus
  <2>2. e.edges = d.edges /\ e.commits = d.commits /\ e.nodes[n].status = s
    BY <2>1 DEF Databases, Rows
  <2>3. \A m \in NodeIds : m # n => e.nodes[m] = d.nodes[m]
    BY <2>1 DEF Databases
  <2>4. QED
    BY <1>1, <2>2, <2>3 DEF Within
<1>4. QED
  BY <1>2, <1>3

-----------------------------------------------------------------------------
(* The store *)

\* Rows only a plain write has touched: no version is new or altered in them.
SameVersions(rows) ==
    \A n \in Versions : Exists(rows, n) =>
        Exists(db, n) /\ rows.nodes[n].body = db.nodes[n].body

\* However a short transaction ends, it leaves the store in order if its rows are.
LEMMA ShortTxKeepsStore ==
    ASSUME StoreInv, NEW rows \in Databases, Closed(rows),
           ShortTx(rows) \/ ShortTxThrows(rows)
    PROVE  StoreInv'
  BY DEF StoreInv, ShortTx, ShortTxThrows, InTx, Closed, Exists

\* What is on disk stays in db, whoever commits.
LEMMA ShortTxKeepsRows ==
    ASSUME StoreInv, NEW rows \in Databases, Kept(disk, db), Kept(db, rows),
           ShortTx(rows) \/ ShortTxThrows(rows)
    PROVE  Kept(disk, db)'
<1>1. Kept(disk, rows)
  BY DEF Kept
<1>2. CASE ShortTx(rows)
  BY <1>1, <1>2 DEF ShortTx, Kept, Exists
<1>3. CASE ShortTxThrows(rows)
  BY <1>1, <1>3 DEF ShortTxThrows, Kept, Exists
<1>4. QED
  BY <1>2, <1>3

\* Every step of a memory write is a short transaction that leaves closed rows and keeps the
\* ones there are.
LEMMA WriteRows ==
    ASSUME StoreInv, NEW r \in Requests, WriteStep(r)
    PROVE  \E rows \in Databases :
               /\ Closed(rows) /\ Kept(db, rows) /\ SameVersions(rows)
               /\ ShortTx(rows) \/ ShortTxThrows(rows)
<1> DEFINE w == Batch(r)
<1>1. w \in Writes /\ w.id \in Nodes /\ w.id \notin Versions /\ Input[r].id = w.id
  BY BatchesAreWrites, InputAssumption, StoreAssumption DEF Batch
<1>2. db \in Databases /\ Closed(db)
  BY DEF StoreInv
<1>3. Kept(db, db) /\ SameVersions(db)
  BY DEF Kept, SameVersions
<1>4. \A n \in Versions : /\ WithNode(db, w).nodes[n] = db.nodes[n]
                          /\ WithBatch(db, w).nodes[n] = db.nodes[n]
  <2>1. WithBatch(db, w).nodes = WithNode(db, w).nodes
    BY <1>1, <1>2, BatchKeeps
  <2>2. WithNode(db, w).nodes = NodeInserted(db, w)
    BY <1>2 DEF WithNode, Databases
  <2>3. \A n \in Versions : n \in NodeIds /\ n # w.id
    BY <1>1 DEF NodeIds
  <2>4. db.nodes \in [NodeIds -> Rows]
    BY <1>2 DEF Databases
  <2>5. \A n \in Versions : NodeInserted(db, w)[n] = db.nodes[n]
    BY <2>3, <2>4 DEF NodeInserted
  <2>6. QED
    BY <2>1, <2>2, <2>5
<1>5. SameVersions(WithNode(db, w)) /\ SameVersions(WithBatch(db, w))
  BY <1>4 DEF SameVersions, Exists
<1>6. CASE WriteRejected(r)
  BY <1>2, <1>3, <1>6 DEF WriteRejected
<1>7. CASE WriteThrows(r)
  BY <1>1, <1>2, <1>5, <1>7, BatchTyped, BatchKeeps, BatchCloses DEF WriteThrows
<1>8. CASE WriteStored(r)
  BY <1>1, <1>2, <1>5, <1>8, BatchTyped, BatchKeeps, BatchCloses DEF WriteStored
<1>9. \A s \in {"ready", "failed"} :
        /\ WithStatus(db, w.id, s) \in Databases /\ Closed(WithStatus(db, w.id, s))
        /\ Kept(db, WithStatus(db, w.id, s)) /\ SameVersions(WithStatus(db, w.id, s))
  <2>1. w.id \in NodeIds
    BY <1>1 DEF NodeIds
  <2>2. TAKE s \in {"ready", "failed"}
  <2>3. /\ WithStatus(db, w.id, s) \in Databases /\ Closed(WithStatus(db, w.id, s))
        /\ Kept(db, WithStatus(db, w.id, s)) /\ Kept(WithStatus(db, w.id, s), db)
    BY <1>2, <2>1, StatusKeeps
  <2>4. QED
    BY <2>3 DEF SameVersions, Kept, NodeIds
<1>10. CASE EmbeddingReturns(r)
  BY <1>1, <1>9, <1>10 DEF EmbeddingReturns
<1>11. CASE EmbeddingFails(r)
  BY <1>1, <1>9, <1>11 DEF EmbeddingFails
<1>12. QED
  BY <1>6, <1>7, <1>8, <1>10, <1>11 DEF WriteStep

\* A review stores a version through a batch that passed the checks.
LEMMA VersionRows ==
    ASSUME StoreInv, NEW v \in Reviews, NEW n \in Versions, NEW s \in Versions,
           StoreVersion(v, n, s)
    PROVE  LET rows == WithBatch(db, VersionBatch(v, n, s)) IN
               /\ rows \in Databases /\ Closed(rows) /\ Kept(db, rows) /\ ShortTx(rows)
  BY BatchesAreWrites, BatchTyped, BatchKeeps, BatchCloses DEF StoreInv, StoreVersion

\* Opening, ending and losing a transaction moves rows between db and disk only.
LEMMA LongTxKeepsStore ==
    ASSUME StoreInv, NEW v \in Reviews,
           OpenTx(v) \/ CommitTx(v) \/ RollbackTx(v) \/ StoreCrash \/ UNCHANGED store
    PROVE  StoreInv'
<1>1. v # NoOne
  BY StoreAssumption
<1>2. QED
  BY <1>1 DEF StoreInv, OpenTx, CommitTx, RollbackTx, StoreCrash, store, InTx, Closed, Exists

\* Which version a review writes is one of those considered.
PlannedInv == next \in [Reviews -> Versions] /\ 1 \in Versions

\* The statements that were made, of a batch that passed the checks, leave rows in order.
LEMMA CutShortKeeps ==
    ASSUME NEW d \in Databases, NEW w \in Writes, Closed(d), PassesChecks(d, w),
           NEW e \in CutShort(d, w)
    PROVE  /\ e \in Databases /\ Closed(e) /\ Within(d, e)
           /\ \A m \in NodeIds : m # w.id => e.nodes[m] = d.nodes[m]
           /\ Exists(e, w.id) => e.nodes[w.id].body = w.body
<1>1. w.id \in NodeIds /\ w.body \in Contents
  BY DEF Writes, Contents
<1>2. Exists(d, w.id) => d.nodes[w.id].body = w.body
  BY DEF PassesChecks, DuplicateConflict, Fingerprint
<1>3. CASE e = [d EXCEPT !.commits = @ \cup {<<w.id, w.body>>}]
  <2>1. e.nodes = d.nodes /\ e.edges = d.edges /\ e.commits = d.commits \cup {<<w.id, w.body>>}
    BY <1>3 DEF Databases
  <2>2. e \in Databases
    BY <1>1, <1>3 DEF Databases
  <2>3. QED
    BY <1>2, <2>1, <2>2 DEF Closed, Within, Kept, Exists
<1>4. CASE e \in {WithNode(d, w), WithBatch(d, w)}
  <2>1. e \in Databases /\ Closed(e) /\ Within(d, e)
    BY <1>4, BatchTyped, BatchCloses, BatchWithin
  <2>2. e.nodes = NodeInserted(d, w)
    <3>1. WithNode(d, w).nodes = NodeInserted(d, w)
      BY DEF WithNode, Databases
    <3>2. WithBatch(d, w).nodes = NodeInserted(d, w)
      BY <3>1, BatchKeeps
    <3>3. QED
      BY <1>4, <3>1, <3>2
  <2>3. \A m \in NodeIds : m # w.id => e.nodes[m] = d.nodes[m]
    BY <2>2 DEF NodeInserted, Databases
  <2>4. e.nodes[w.id].body = w.body
    BY <1>1, <1>2, <2>2 DEF NodeInserted, Databases
  <2>5. QED
    BY <2>1, <2>3, <2>4
<1>5. QED
  BY <1>3, <1>4 DEF CutShort

\* What a crash leaves: the disk, to which a review outside any transaction may have added a
\* part of its version.
LEMMA CrashRows ==
    ASSUME StoreInv, PlannedInv, Crash
    PROVE  /\ opener' = NoOne /\ db' = disk'
           /\ \/ disk' = disk
              \/ \E v \in Reviews, n \in Versions :
                    /\ opener = NoOne /\ db = disk /\ stage[v] \in UnderWay
                    /\ disk' \in Databases /\ Closed(disk') /\ Within(disk, disk')
                    /\ \A m \in NodeIds : m # n => disk'.nodes[m] = disk.nodes[m]
                    /\ Exists(disk', n) => disk'.nodes[n].body = v
<1>1. CASE StoreCrash
  BY <1>1 DEF StoreCrash
<1>2. CASE \E v \in Reviews : DiesStoring(v)
  <2>1. PICK v \in Reviews : DiesStoring(v)
    BY <1>2
  <2>2. PICK n \in Versions, s \in Versions :
            /\ IsNextVersion(v, n, s) /\ PassesChecks(db, VersionBatch(v, n, s))
            /\ disk' \in CutShort(db, VersionBatch(v, n, s))
    BY <2>1 DEF DiesStoring
  <2>3. opener = NoOne /\ opener' = NoOne /\ db' = disk' /\ db = disk /\ db \in Databases /\ Closed(db)
    BY <2>1 DEF DiesStoring, InTx, StoreInv
  <2>4. stage[v] \in UnderWay
    BY <2>2 DEF IsNextVersion, UnderWay
  <2> DEFINE w == VersionBatch(v, n, s)
  <2>5. w \in Writes /\ w.id = n /\ w.body = v
    BY BatchesAreWrites DEF VersionBatch
  <2> HIDE DEF w
  <2>6. PassesChecks(db, w) /\ disk' \in CutShort(db, w)
    BY <2>2 DEF w
  <2>7. /\ disk' \in Databases /\ Closed(disk') /\ Within(db, disk')
        /\ \A m \in NodeIds : m # w.id => disk'.nodes[m] = db.nodes[m]
        /\ Exists(disk', w.id) => disk'.nodes[w.id].body = w.body
    BY <2>3, <2>5, <2>6, CutShortKeeps
  <2>8. QED
    BY <2>3, <2>4, <2>5, <2>7
<1>3. QED
  BY <1>1, <1>2 DEF Crash

\* Every step keeps the store in order.
LEMMA StoreStep ==
    ASSUME StoreInv, PlannedInv, [MemoryNext]_vars
    PROVE  StoreInv'
<1>1. CASE \E r \in Requests : Write(r)
  BY <1>1, WriteRows, ShortTxKeepsStore DEF Write
<1>2. ASSUME NEW v \in Reviews, Review(v) PROVE StoreInv'
  <2>1. CASE ReviewWrites(v)
    BY <2>1, VersionRows, ShortTxKeepsStore DEF ReviewWrites, PlannedInv
  <2>2. CASE ReviewPromotes(v)
    <3>1. next[v] \in Versions /\ next[v] + 1 \in Versions
      BY <2>2, StoreAssumption DEF ReviewPromotes, PlannedInv, Versions
    <3>2. QED
      BY <2>2, <3>1, VersionRows, ShortTxKeepsStore DEF ReviewPromotes
  <2>3. CASE ReviewBegins(v) \/ ReviewDoesNotPromote(v) \/ ReviewEnds(v) \/ ReviewThrows(v)
    BY <2>3, LongTxKeepsStore
    DEF ReviewBegins, ReviewDoesNotPromote, ReviewEnds, ReviewThrows, store
  <2>4. QED
    BY <1>2, <2>1, <2>2, <2>3 DEF Review, ReviewStep
<1>3. CASE Crash
  <2>1. opener' = NoOne /\ db' = disk' /\ disk' \in Databases /\ Closed(disk')
    BY <1>3, CrashRows DEF StoreInv
  <2>2. QED
    BY <2>1 DEF StoreInv, InTx, Closed, Exists
<1>4. CASE UNCHANGED vars
  BY <1>4 DEF vars, StoreInv, store, InTx, Closed, Exists
<1>5. QED
  BY <1>1, <1>2, <1>3, <1>4 DEF MemoryNext

-----------------------------------------------------------------------------
(* Types *)

\* How far requests and reviews have come; the review that holds the transaction is under way.
ControlInv ==
    /\ InTx => stage[opener] \in UnderWay
    /\ phase \in [Requests -> Phases]
    /\ stage \in [Reviews -> Stages]
    /\ mirror \in [Versions -> Contents \cup {Missing}]
    /\ crashes \in 0..MaxCrashes

\* The flags are kept apart from the rest of the types.
FlagInv == joined \in [Requests -> BOOLEAN] /\ borrowed \in [Reviews -> BOOLEAN]

LEMMA InitHolds ==
    MemoryInit => StoreInv /\ PlannedInv /\ ControlInv /\ FlagInv /\ MirrorInv
<1> SUFFICES ASSUME MemoryInit PROVE StoreInv /\ PlannedInv /\ ControlInv /\ FlagInv /\ MirrorInv
  OBVIOUS
<1>1. 1 \in Versions /\ Versions \subseteq NodeIds /\ NoOne \in Contents
  BY StoreAssumption DEF Versions, NodeIds, Contents
<1>2. /\ FirstRows.edges = {} /\ FirstRows.commits = {<<1, NoOne>>}
      /\ FirstRows.nodes = [n \in NodeIds |-> IF n = 1 THEN [body |-> NoOne, status |-> "ready"]
                                                       ELSE NoRow]
  BY DEF FirstRows
<1>3. FirstRows.nodes \in [NodeIds -> Rows]
  BY <1>1, <1>2 DEF NoRow, Rows, Statuses
<1>4. FirstRows \in Databases
  BY <1>1, <1>3 DEF FirstRows, Databases
<1>5. StoreInv
  BY <1>2, <1>4 DEF MemoryInit, StoreInit, StoreInv, InTx, Closed
<1>6. PlannedInv /\ FlagInv
  BY <1>1 DEF MemoryInit, WriteInit, ReviewInit, PlannedInv, FlagInv
<1>7. mirror \in [Versions -> Contents \cup {Missing}]
  BY <1>1 DEF MemoryInit, ReviewInit
<1>8. ControlInv
  BY <1>7, CrashAssumption
  DEF MemoryInit, StoreInit, WriteInit, ReviewInit, ControlInv, InTx, Phases, Stages
<1>9. \A n \in Versions : Exists(FirstRows, n) => n = 1 /\ FirstRows.nodes[n].body = NoOne
  BY <1>1, <1>2 DEF Exists, NoRow
<1>10. MirrorInv
  <2>1. Unmirrored(db) = {} /\ Unmirrored(disk) = {} /\ crashes = 0
    BY <1>9 DEF MemoryInit, StoreInit, ReviewInit, Unmirrored
  <2>2. QED
    BY <2>1, FS_EmptySet DEF MirrorInv
<1>11. QED
  BY <1>5, <1>6, <1>8, <1>10

LEMMA FlagStep ==
    ASSUME FlagInv, [MemoryNext]_vars
    PROVE  FlagInv'
<1>1. ASSUME NEW r \in Requests, Write(r) PROVE FlagInv'
  <2>1. PICK p : GoTo(r, p) /\ UNCHANGED borrowed
    BY <1>1 DEF Write, WriteStep, reviewing,
       WriteRejected, WriteThrows, WriteStored, EmbeddingReturns, EmbeddingFails
  <2>2. (joined[r] \/ InTx) \in BOOLEAN
    OBVIOUS
  <2>3. joined' \in [Requests -> BOOLEAN]
    BY <2>1, <2>2, Zenon DEF GoTo, FlagInv
  <2>4. QED
    BY <2>1, <2>3 DEF FlagInv
<1>2. ASSUME NEW v \in Reviews, Review(v) PROVE FlagInv'
  <2>1. joined' = joined
    BY <1>2 DEF Review, writing
  <2>2. (opener' # v) \in BOOLEAN
    OBVIOUS
  <2>3. CASE ReviewBegins(v)
    <3>1. borrowed' = [borrowed EXCEPT ![v] = opener' # v]
      BY <2>3 DEF ReviewBegins
    <3>2. QED
      BY <2>1, <2>2, <3>1, Zenon DEF FlagInv
  <2>4. CASE ReviewWrites(v) \/ ReviewPromotes(v) \/ ReviewDoesNotPromote(v)
             \/ ReviewEnds(v) \/ ReviewThrows(v)
    BY <2>1, <2>4
    DEF FlagInv, ReviewWrites, ReviewPromotes, ReviewDoesNotPromote, ReviewEnds, ReviewThrows
  <2>5. QED
    BY <1>2, <2>3, <2>4 DEF Review, ReviewStep
<1>3. CASE Crash
  BY <1>3 DEF FlagInv, Crash, WriteCrash, ReviewCrash
<1>4. CASE UNCHANGED vars
  BY <1>4 DEF FlagInv, vars, writing, reviewing
<1>5. QED
  BY <1>1, <1>2, <1>3, <1>4 DEF MemoryNext

LEMMA ControlStep ==
    ASSUME StoreInv, PlannedInv, ControlInv, [MemoryNext]_vars
    PROVE  PlannedInv' /\ ControlInv'
<1> USE DEF ControlInv, PlannedInv
<1>1. ASSUME NEW r \in Requests, Write(r) PROVE PlannedInv' /\ ControlInv'
  <2>1. UNCHANGED <<opener, stage, next, mirror, crashes>>
    BY <1>1 DEF Write, WriteStep, reviewing, WriteRejected, WriteThrows, WriteStored,
       EmbeddingReturns, EmbeddingFails, ShortTx, ShortTxThrows
  <2>2. PICK p \in Phases : GoTo(r, p)
    BY <1>1 DEF Write, WriteStep, Phases,
       WriteRejected, WriteThrows, WriteStored, EmbeddingReturns, EmbeddingFails
  <2>3. phase' \in [Requests -> Phases]
    BY <2>2 DEF GoTo
  <2>4. QED
    BY <2>1, <2>3 DEF InTx
<1>2. ASSUME NEW v \in Reviews, Review(v) PROVE PlannedInv' /\ ControlInv'
  <2>1. UNCHANGED <<phase, crashes>>
    BY <1>2 DEF Review, writing
  <2>2. v # NoOne /\ v \in Contents
    BY StoreAssumption DEF Contents
  <2>3. opener # NoOne => opener \in Reviews
    BY DEF StoreInv
  <2>4. stage' \in [Reviews -> Stages]
    BY <1>2 DEF Review, ReviewStep, ReviewBegins, ReviewWrites, ReviewPromotes,
       ReviewDoesNotPromote, ReviewEnds, ReviewThrows, Advance, Stages
  <2>5. CASE ReviewBegins(v)
    <3>1. next' \in [Reviews -> Versions]
      BY <2>5, StoreAssumption DEF ReviewBegins, Versions
    <3>2. (InTx => stage[opener] \in UnderWay)'
      BY <2>2, <2>3, <2>5 DEF ReviewBegins, OpenTx, InTx, Advance, UnderWay, Stages
    <3>3. QED
      BY <2>1, <2>4, <2>5, <3>1, <3>2 DEF ReviewBegins
  <2>6. CASE ReviewWrites(v)
    <3>1. mirror' \in [Versions -> Contents \cup {Missing}]
      BY <2>2, <2>6 DEF ReviewWrites, StoreVersion
    <3>2. (InTx => stage[opener] \in UnderWay)'
      BY <2>3, <2>6 DEF ReviewWrites, StoreVersion, ShortTx, InTx, Advance, UnderWay
    <3>3. QED
      BY <2>1, <2>4, <2>6, <3>1, <3>2 DEF ReviewWrites
  <2>7. CASE ReviewPromotes(v)
    <3>1. mirror' \in [Versions -> Contents \cup {Missing}]
      BY <2>2, <2>7 DEF ReviewPromotes, StoreVersion
    <3>2. (InTx => stage[opener] \in UnderWay)'
      BY <2>3, <2>7 DEF ReviewPromotes, StoreVersion, ShortTx, InTx, Advance, UnderWay
    <3>3. QED
      BY <2>1, <2>4, <2>7, <3>1, <3>2 DEF ReviewPromotes
  <2>8. CASE ReviewDoesNotPromote(v)
    <3>1. (InTx => stage[opener] \in UnderWay)'
      BY <2>3, <2>8 DEF ReviewDoesNotPromote, store, InTx, Advance, UnderWay
    <3>2. QED
      BY <2>1, <2>4, <2>8, <3>1 DEF ReviewDoesNotPromote
  <2>9. CASE ReviewEnds(v) \/ ReviewThrows(v)
    <3>1. (InTx => stage[opener] \in UnderWay)'
      BY <2>3, <2>9 DEF ReviewEnds, ReviewThrows, CommitTx, RollbackTx, InTx, Advance
    <3>2. QED
      BY <2>1, <2>4, <2>9, <3>1 DEF ReviewEnds, ReviewThrows
  <2>10. QED
    BY <1>2, <2>5, <2>6, <2>7, <2>8, <2>9 DEF Review, ReviewStep
<1>3. CASE Crash
  <2>1. phase' \in [Requests -> Phases]
    BY <1>3 DEF Crash, WriteCrash, Phases
  <2>2. stage' \in [Reviews -> Stages] /\ UNCHANGED <<next, mirror>>
    BY <1>3 DEF Crash, ReviewCrash, Stages, UnderWay
  <2>3. crashes' \in 0..MaxCrashes
    BY <1>3, CrashAssumption DEF Crash
  <2>4. opener' = NoOne
    BY <1>3, CrashRows
  <2>5. QED
    BY <2>1, <2>2, <2>3, <2>4 DEF InTx
<1>4. CASE UNCHANGED vars
  BY <1>4 DEF vars, store, writing, reviewing, InTx
<1>5. QED
  BY <1>1, <1>2, <1>3, <1>4 DEF MemoryNext

-----------------------------------------------------------------------------
(* What lasts *)

\* Every step of a memory write is a short transaction whose rows contain what there was.
LEMMA WriteGrows ==
    ASSUME StoreInv, NEW r \in Requests, WriteStep(r)
    PROVE  \E rows \in Databases : Within(db, rows) /\ (ShortTx(rows) \/ ShortTxThrows(rows))
<1> DEFINE w == Batch(r)
<1>1. w \in Writes /\ w.id \in NodeIds /\ Input[r].id = w.id
  BY BatchesAreWrites, InputAssumption DEF Batch, NodeIds
<1>2. db \in Databases /\ Closed(db)
  BY DEF StoreInv
<1>3. CASE WriteRejected(r)
  BY <1>2, <1>3, WithinIsOrder DEF WriteRejected
<1>4. CASE WriteThrows(r)
  BY <1>1, <1>2, <1>4, BatchTyped, BatchWithin DEF WriteThrows
<1>5. CASE WriteStored(r)
  BY <1>1, <1>2, <1>5, BatchTyped, BatchWithin DEF WriteStored
<1>6. \A s \in {"ready", "failed"} :
        WithStatus(db, w.id, s) \in Databases /\ Within(db, WithStatus(db, w.id, s))
  BY <1>1, <1>2, StatusKeeps, StatusWithin
<1>7. CASE EmbeddingReturns(r)
  BY <1>1, <1>6, <1>7 DEF EmbeddingReturns
<1>8. CASE EmbeddingFails(r)
  BY <1>1, <1>6, <1>8 DEF EmbeddingFails
<1>9. QED
  BY <1>3, <1>4, <1>5, <1>7, <1>8 DEF WriteStep

\* db is undone only by a crash or by the review that opened the transaction.
Undone == Crash \/ \E v \in Reviews : opener = v /\ ReviewThrows(v) /\ db' = disk

LEMMA ShortTxGrows ==
    ASSUME StoreInv, Within(disk, db), NEW rows \in Databases, Within(db, rows),
           ShortTx(rows) \/ ShortTxThrows(rows)
    PROVE  Within(disk, db)' /\ Within(disk, disk') /\ Within(db, db')
<1>1. Within(disk, rows) /\ Within(rows, rows) /\ Within(disk, disk) /\ Within(db, db)
  BY WithinIsOrder
<1>2. (db' = rows \/ db' = db) /\ ((disk' = rows /\ db' = rows) \/ disk' = disk)
  BY DEF ShortTx, ShortTxThrows
<1>3. Within(disk', db')
  BY <1>1, <1>2
<1>4. Within(disk, disk') /\ Within(db, db')
  BY <1>1, <1>2
<1>5. QED
  BY <1>3, <1>4 DEF Within, Kept, Exists

\* Nothing on disk is ever lost, and db contains it.
LEMMA Grows ==
    ASSUME StoreInv, PlannedInv, Within(disk, db), [MemoryNext]_vars
    PROVE  Within(disk, db)' /\ Within(disk, disk') /\ (Within(db, db') \/ Undone)
<1>0. Within(disk, disk) /\ Within(db, db)
  BY WithinIsOrder
<1>1. ASSUME NEW r \in Requests, Write(r)
      PROVE  Within(disk, db)' /\ Within(disk, disk') /\ Within(db, db')
  BY <1>1, WriteGrows, ShortTxGrows DEF Write
<1>2. ASSUME NEW v \in Reviews, NEW n \in Versions, NEW s \in Versions, StoreVersion(v, n, s)
      PROVE  Within(disk, db)' /\ Within(disk, disk') /\ Within(db, db')
  <2>1. db \in Databases /\ VersionBatch(v, n, s) \in Writes
    BY BatchesAreWrites DEF StoreInv
  <2>2. Within(db, WithBatch(db, VersionBatch(v, n, s)))
    BY <2>1, BatchWithin
  <2>3. QED
    BY <1>2, <2>2, VersionRows, ShortTxGrows
<1>3. ASSUME NEW v \in Reviews, Review(v)
      PROVE  Within(disk, db)' /\ Within(disk, disk') /\ (Within(db, db') \/ Undone)
  <2>1. CASE ReviewWrites(v)
    BY <1>2, <2>1 DEF ReviewWrites, PlannedInv
  <2>2. CASE ReviewPromotes(v)
    <3>1. next[v] \in Versions /\ next[v] + 1 \in Versions
      BY <2>2, StoreAssumption DEF ReviewPromotes, PlannedInv, Versions
    <3>2. QED
      BY <1>2, <2>2, <3>1 DEF ReviewPromotes
  <2>3. CASE ReviewBegins(v) \/ ReviewDoesNotPromote(v) \/ ReviewEnds(v)
    <3>1. db' = db /\ disk' \in {db, disk}
      BY <2>3 DEF ReviewBegins, ReviewDoesNotPromote, ReviewEnds, store, OpenTx, CommitTx
    <3>2. Within(disk', db') /\ Within(disk, disk') /\ Within(db, db')
      BY <1>0, <3>1
    <3>3. QED
      BY <3>2 DEF Within, Kept, Exists
  <2>4. CASE ReviewThrows(v)
    <3>1. disk' = disk /\ (db' = db \/ (opener = v /\ db' = disk))
      BY <2>4 DEF ReviewThrows, RollbackTx
    <3>2. Within(disk', db') /\ Within(disk, disk') /\ (Within(db, db') \/ Undone)
      BY <1>0, <2>4, <3>1 DEF Undone
    <3>3. QED
      BY <3>2 DEF Within, Kept, Exists
  <2>5. QED
    BY <1>3, <2>1, <2>2, <2>3, <2>4 DEF Review, ReviewStep
<1>4. CASE Crash
  <2>1. db' = disk' /\ Within(disk, disk')
    BY <1>0, <1>4, CrashRows
  <2>2. Within(disk', db') /\ Within(disk, disk') /\ Undone
    BY <1>4, <2>1, WithinIsOrder DEF Undone
  <2>3. QED
    BY <2>2 DEF Within, Kept, Exists
<1>5. CASE UNCHANGED vars
  <2>1. db' = db /\ disk' = disk
    BY <1>5 DEF vars, store
  <2>2. Within(disk', db') /\ Within(disk, disk') /\ Within(db, db')
    BY <1>0, <2>1
  <2>3. QED
    BY <2>2 DEF Within, Kept, Exists
<1>6. QED
  BY <1>1, <1>3, <1>4, <1>5 DEF MemoryNext

-----------------------------------------------------------------------------
(* Answered writes *)

\* r's write got past its checks, in a transaction of its own or another's.
Taken(r) == phase[r] \in {"embedding", "answered", "lost"}

\* What a request that always ran in transactions of its own has is on disk.
WriteInv ==
    /\ \A r \in Requests : Taken(r) /\ ~joined[r] => Stored(disk, Batch(r))
    /\ \A r \in Requests : phase[r] = "answered" /\ ~joined[r] /\ Input[r].embeds =>
            disk.nodes[Input[r].id].status # "pending"
    /\ \A r \in Requests : joined[r] => phase[r] # "new"

\* Every row of a plain write has a request it was written for.
AuthoredInv ==
    \A n \in Nodes : Exists(db, n) =>
        \E r \in Requests :
            /\ Input[r].id = n /\ Input[r].body = db.nodes[n].body
            /\ Taken(r) \/ joined[r]

LEMMA GoToMoves ==
    ASSUME FlagInv, ControlInv, NEW r \in Requests, NEW p, GoTo(r, p)
    PROVE  /\ phase'[r] = p
           /\ joined'[r] <=> joined[r] \/ InTx
           /\ \A q \in Requests : q # r => phase'[q] = phase[q] /\ joined'[q] = joined[q]
<1>1. phase'[r] = p /\ \A q \in Requests : q # r => phase'[q] = phase[q]
  BY DEF GoTo, ControlInv
<1>2. joined' = [joined EXCEPT ![r] = joined[r] \/ InTx] /\ DOMAIN joined = Requests
  BY Zenon DEF GoTo, FlagInv
<1>3. joined'[r] <=> joined[r] \/ InTx
  BY <1>2, Zenon
<1>4. \A q \in Requests : q # r => joined'[q] = joined[q]
  BY <1>2, Zenon
<1>5. QED
  BY <1>1, <1>3, <1>4

\* What one step does to the request that takes it.
LEMMA WriteStepStores ==
    ASSUME StoreInv, ControlInv, FlagInv, WriteInv, NEW r \in Requests, WriteStep(r)
    PROVE  /\ phase[r] \in {"new", "embedding"} /\ phase'[r] # "new"
           /\ Taken(r)' /\ ~joined'[r] => Stored(disk', Batch(r))
           /\ phase'[r] = "answered" /\ ~joined'[r] /\ Input[r].embeds =>
                disk'.nodes[Input[r].id].status # "pending"
<1> DEFINE w == Batch(r)
<1>1. w \in Writes /\ w.id = Input[r].id /\ w.id \in NodeIds
  BY BatchesAreWrites, InputAssumption DEF Batch, NodeIds
<1>2. db \in Databases /\ Closed(db) /\ (~InTx => db = disk)
  BY DEF StoreInv
<1>3. CASE WriteRejected(r) \/ WriteThrows(r)
  <2>1. phase[r] = "new" /\ \E p \in {"conflict", "refused"} : GoTo(r, p)
    BY <1>3 DEF WriteRejected, WriteThrows
  <2>2. phase'[r] \in {"conflict", "refused"}
    BY <2>1, GoToMoves
  <2>3. QED
    BY <2>1, <2>2 DEF Taken
<1>4. CASE WriteStored(r)
  <2> DEFINE rows == WithBatch(db, w)
  <2>1. phase[r] = "new" /\ PassesChecks(db, w) /\ ShortTx(rows)
    BY <1>4 DEF WriteStored
  <2>2. PICK p \in {"embedding", "answered"} :
            /\ GoTo(r, p)
            /\ p = "answered" /\ Input[r].embeds => rows.nodes[Input[r].id].status = "ready"
    BY <1>4 DEF WriteStored
  <2>3. phase'[r] = p /\ (~joined'[r] => ~InTx)
    BY <2>2, GoToMoves
  <2>4. Stored(rows, w)
    BY <1>1, <1>2, <2>1, BatchWithin
  <2>5. ~InTx => disk' = rows
    BY <2>1 DEF ShortTx
  <2>6. QED
    BY <2>1, <2>2, <2>3, <2>4, <2>5
<1>5. CASE EmbeddingReturns(r) \/ EmbeddingFails(r)
  <2>1. PICK s \in {"ready", "failed"} : ShortTx(WithStatus(db, w.id, s))
    BY <1>1, <1>5 DEF EmbeddingReturns, EmbeddingFails
  <2>2. phase[r] = "embedding" /\ GoTo(r, "answered")
    BY <1>5 DEF EmbeddingReturns, EmbeddingFails
  <2>3. phase'[r] = "answered" /\ (~joined'[r] => ~joined[r] /\ ~InTx)
    BY <2>2, GoToMoves
  <2>4. SUFFICES ASSUME ~joined'[r]
                 PROVE  Stored(disk', w) /\ disk'.nodes[w.id].status # "pending"
    BY <1>1, <2>2, <2>3
  <2>5. Stored(db, w)
    BY <1>2, <2>2, <2>3, <2>4 DEF WriteInv, Taken
  <2>6. disk' = WithStatus(db, w.id, s)
    BY <2>1, <2>3, <2>4 DEF ShortTx
  <2>7. Stored(disk', w)
    BY <1>1, <1>2, <2>5, <2>6, StatusWithin, WithinStores
  <2>8. disk'.nodes[w.id].status = s
    BY <1>1, <1>2, <2>5, <2>6, StatusWithin DEF Stored
  <2>9. QED
    BY <2>7, <2>8
<1>6. QED
  BY <1>3, <1>4, <1>5 DEF WriteStep

\* Requests that do not move keep what they have, whatever the others do to the store.
LEMMA OthersKeep ==
    ASSUME WriteInv, Within(disk, disk'), NEW r \in Requests,
           phase'[r] = phase[r] \/ (phase[r] = "embedding" /\ phase'[r] = "lost"),
           joined'[r] = joined[r]
    PROVE  /\ Taken(r)' /\ ~joined'[r] => Stored(disk', Batch(r))
           /\ phase'[r] = "answered" /\ ~joined'[r] /\ Input[r].embeds =>
                disk'.nodes[Input[r].id].status # "pending"
           /\ joined'[r] => phase'[r] # "new"
<1>1. Batch(r) \in Writes /\ Batch(r).id = Input[r].id /\ Batch(r).id \in NodeIds
  BY BatchesAreWrites, InputAssumption DEF Batch, NodeIds
<1>2. Taken(r)' => Taken(r)
  BY DEF Taken
<1>3. Taken(r) /\ ~joined[r] => Stored(disk, Batch(r)) /\ Stored(disk', Batch(r))
  BY <1>1, WithinStores DEF WriteInv
<1>4. phase[r] = "answered" /\ ~joined[r] /\ Input[r].embeds =>
        disk'.nodes[Input[r].id].status # "pending"
  <2> SUFFICES ASSUME phase[r] = "answered", ~joined[r], Input[r].embeds
               PROVE  disk'.nodes[Input[r].id].status # "pending"
    OBVIOUS
  <2>1. Exists(disk, Input[r].id) /\ disk.nodes[Input[r].id].status # "pending"
    BY <1>1, <1>3 DEF Taken, Stored, WriteInv
  <2>2. QED
    BY <1>1, <2>1 DEF Within
<1>5. joined[r] => phase'[r] # "new"
  BY DEF WriteInv
<1>6. QED
  BY <1>2, <1>3, <1>4, <1>5

LEMMA WriteInvStep ==
    ASSUME StoreInv, PlannedInv, ControlInv, FlagInv, Within(disk, db), WriteInv,
           [MemoryNext]_vars
    PROVE  WriteInv'
<1>1. Within(disk, disk')
  BY Grows
<1>2. ASSUME NEW r \in Requests, Write(r) PROVE WriteInv'
  <2>1. PICK p : GoTo(r, p)
    BY <1>2 DEF Write, WriteStep,
       WriteRejected, WriteThrows, WriteStored, EmbeddingReturns, EmbeddingFails
  <2>2. \A q \in Requests : q # r => phase'[q] = phase[q] /\ joined'[q] = joined[q]
    BY <2>1, GoToMoves
  <2>3. WriteStep(r)
    BY <1>2 DEF Write
  <2>4. \A q \in Requests :
            /\ Taken(q)' /\ ~joined'[q] => Stored(disk', Batch(q))
            /\ phase'[q] = "answered" /\ ~joined'[q] /\ Input[q].embeds =>
                 disk'.nodes[Input[q].id].status # "pending"
            /\ joined'[q] => phase'[q] # "new"
    BY <1>1, <2>2, <2>3, OthersKeep, WriteStepStores
  <2>5. QED
    BY <2>4 DEF WriteInv, Stored, Exists, Holds
<1>3. CASE UNCHANGED writing \/ WriteCrash
  <2>1. \A q \in Requests :
            /\ phase'[q] = phase[q] \/ (phase[q] = "embedding" /\ phase'[q] = "lost")
            /\ joined'[q] = joined[q]
    BY <1>3 DEF writing, WriteCrash
  <2>2. \A q \in Requests :
            /\ Taken(q)' /\ ~joined'[q] => Stored(disk', Batch(q))
            /\ phase'[q] = "answered" /\ ~joined'[q] /\ Input[q].embeds =>
                 disk'.nodes[Input[q].id].status # "pending"
            /\ joined'[q] => phase'[q] # "new"
    BY <1>1, <2>1, OthersKeep
  <2>3. QED
    BY <2>2 DEF WriteInv, Stored, Exists, Holds
<1>4. QED
  BY <1>2, <1>3 DEF MemoryNext, Review, Crash, vars

\* A batch, joined or not, leaves the row it found or its own.
LEMMA AuthoredStep ==
    ASSUME StoreInv, PlannedInv, ControlInv, FlagInv, Within(disk, db), WriteInv, AuthoredInv,
           [MemoryNext]_vars
    PROVE  AuthoredInv'
<1>1. \A n \in Nodes : n \in NodeIds /\ n \notin Versions
  BY StoreAssumption DEF NodeIds
<1>2. ASSUME \A n \in Nodes : Exists(db', n) => Exists(db, n) /\ db'.nodes[n].body = db.nodes[n].body,
             \A q \in Requests : Taken(q) \/ joined[q] => Taken(q)' \/ joined'[q]
      PROVE  AuthoredInv'
  BY <1>2 DEF AuthoredInv, Exists
<1>3. ASSUME NEW r \in Requests, Write(r) PROVE AuthoredInv'
  <2> DEFINE w == Batch(r)
  <2>1. w \in Writes /\ w.id = Input[r].id /\ w.body = Input[r].body /\ w.id \in NodeIds
    BY BatchesAreWrites, InputAssumption DEF Batch, NodeIds
  <2>2. db \in Databases /\ Closed(db)
    BY DEF StoreInv
  <2>3. WriteStep(r)
    BY <1>3 DEF Write
  <2>4. PICK p : GoTo(r, p) /\ p \in {"conflict", "refused", "embedding", "answered"}
    BY <2>3 DEF WriteStep,
       WriteRejected, WriteThrows, WriteStored, EmbeddingReturns, EmbeddingFails
  <2>5. /\ phase'[r] = p /\ (joined'[r] <=> joined[r] \/ InTx)
        /\ \A q \in Requests : q # r => phase'[q] = phase[q] /\ joined'[q] = joined[q]
    BY <2>4, GoToMoves
  <2>6. phase[r] = "new" \/ (phase[r] = "embedding" /\ p = "answered")
    <3>1. phase[r] = "new" \/ EmbeddingReturns(r) \/ EmbeddingFails(r)
      BY <2>3 DEF WriteStep, WriteRejected, WriteThrows, WriteStored
    <3>2. EmbeddingReturns(r) \/ EmbeddingFails(r) => phase[r] = "embedding" /\ GoTo(r, "answered")
      BY DEF EmbeddingReturns, EmbeddingFails
    <3>3. GoTo(r, "answered") => p = "answered"
      BY <2>5, GoToMoves
    <3>4. QED
      BY <3>1, <3>2, <3>3
  <2>7. \A q \in Requests : Taken(q) \/ joined[q] => Taken(q)' \/ joined'[q]
    BY <2>5, <2>6 DEF Taken, WriteInv
  <2>8. CASE db' = db \/ \E s : db' = WithStatus(db, w.id, s) /\ s \in {"ready", "failed"}
    <3>1. \A s \in {"ready", "failed"} : Kept(WithStatus(db, w.id, s), db)
      BY <2>1, <2>2, StatusKeeps
    <3>2. Kept(db, db)
      BY DEF Kept
    <3>3. Kept(db', db)
      <4> HIDE DEF w
      <4> QED
        BY <2>8, <3>1, <3>2
    <3>4. QED
      BY <1>1, <1>2, <2>7, <3>3 DEF Kept
  <2>9. CASE db'.nodes = NodeInserted(db, w) /\ (Taken(r)' \/ joined'[r])
    <3>1. \A n \in NodeIds : n # w.id => db'.nodes[n] = db.nodes[n]
      BY <2>1, <2>2, <2>9 DEF NodeInserted, Databases
    <3>2. Exists(db, w.id) => db'.nodes[w.id] = db.nodes[w.id]
      BY <2>1, <2>2, <2>9 DEF NodeInserted, Databases
    <3>3. ~Exists(db, w.id) => db'.nodes[w.id].body = w.body
      BY <2>1, <2>2, <2>9 DEF NodeInserted, Databases
    <3>4. ASSUME NEW n \in Nodes, Exists(db', n)
          PROVE  \E q \in Requests : /\ Input[q].id = n /\ Input[q].body = db'.nodes[n].body
                                     /\ Taken(q)' \/ joined'[q]
      <4>1. CASE Exists(db, n)
        <5>1. db'.nodes[n] = db.nodes[n]
          BY <1>1, <3>1, <3>2, <4>1
        <5>2. QED
          BY <2>7, <4>1, <5>1 DEF AuthoredInv
      <4>2. CASE ~Exists(db, n)
        <5>1. n = w.id
          BY <1>1, <3>1, <3>4, <4>2 DEF Exists
        <5>2. QED
          BY <2>1, <2>9, <3>3, <4>2, <5>1
      <4>3. QED
        BY <4>1, <4>2
    <3>5. QED
      BY <3>4 DEF AuthoredInv, Exists
  <2>10. CASE WriteRejected(r)
    BY <2>8, <2>10 DEF WriteRejected, ShortTxThrows
  <2>11. CASE WriteThrows(r)
    <3>1. db' = IF InTx THEN WithNode(db, w) ELSE db
      BY <2>11 DEF WriteThrows, ShortTxThrows
    <3>2. WithNode(db, w).nodes = NodeInserted(db, w)
      BY <2>2 DEF WithNode, Databases
    <3>3. QED
      BY <2>5, <2>8, <2>9, <3>1, <3>2
  <2>12. CASE WriteStored(r)
    <3>1. db' = WithBatch(db, w) /\ \E o \in {"embedding", "answered"} : GoTo(r, o)
      BY <2>12 DEF WriteStored, ShortTx
    <3>2. WithBatch(db, w).nodes = NodeInserted(db, w)
      BY <2>1, <2>2, BatchKeeps DEF WithNode, Databases
    <3>3. Taken(r)'
      BY <3>1, GoToMoves DEF Taken
    <3>4. QED
      BY <2>9, <3>1, <3>2, <3>3
  <2>13. CASE EmbeddingReturns(r) \/ EmbeddingFails(r)
    BY <2>1, <2>8, <2>13 DEF EmbeddingReturns, EmbeddingFails, ShortTx
  <2>14. QED
    BY <2>3, <2>10, <2>11, <2>12, <2>13 DEF WriteStep
<1>4. ASSUME NEW v \in Reviews, NEW n \in Versions, NEW s \in Versions, StoreVersion(v, n, s),
             UNCHANGED writing
      PROVE  AuthoredInv'
  <2> DEFINE w == VersionBatch(v, n, s)
  <2>1. db' = WithBatch(db, w) /\ w \in Writes /\ w.id = n /\ db \in Databases
    BY <1>4, BatchesAreWrites DEF StoreVersion, ShortTx, VersionBatch, StoreInv
  <2>2. db'.nodes = NodeInserted(db, w)
    BY <2>1, BatchKeeps DEF WithNode, Databases
  <2>3. \A m \in Nodes : db'.nodes[m] = db.nodes[m]
    BY <1>1, <2>1, <2>2 DEF NodeInserted, Databases
  <2>4. QED
    BY <1>2, <1>4, <2>3 DEF Exists, writing, Taken
<1>5. ASSUME NEW v \in Reviews, Review(v) PROVE AuthoredInv'
  <2>1. UNCHANGED writing
    BY <1>5 DEF Review
  <2>2. CASE ReviewWrites(v)
    BY <1>4, <2>1, <2>2 DEF ReviewWrites, PlannedInv
  <2>3. CASE ReviewPromotes(v)
    <3>1. next[v] \in Versions /\ next[v] + 1 \in Versions
      BY <2>3, StoreAssumption DEF ReviewPromotes, PlannedInv, Versions
    <3>2. QED
      BY <1>4, <2>1, <2>3, <3>1 DEF ReviewPromotes
  <2>4. CASE ReviewBegins(v) \/ ReviewDoesNotPromote(v) \/ ReviewEnds(v) \/ ReviewThrows(v)
    <3>1. db' \in {db, disk}
      BY <2>4 DEF ReviewBegins, ReviewDoesNotPromote, ReviewEnds, ReviewThrows, store,
         OpenTx, CommitTx, RollbackTx
    <3>2. \A n \in Nodes : Exists(db', n) =>
            Exists(db, n) /\ db'.nodes[n].body = db.nodes[n].body
      BY <1>1, <3>1 DEF Within, Kept
    <3>3. QED
      BY <1>2, <2>1, <3>2 DEF writing, Taken
  <2>5. QED
    BY <1>5, <2>2, <2>3, <2>4 DEF Review, ReviewStep
<1>6. CASE Crash
  <2>1. \A n \in Nodes : db'.nodes[n] = disk.nodes[n]
    BY <1>1, <1>6, CrashRows
  <2>2. \A n \in Nodes : Exists(db', n) =>
          Exists(db, n) /\ db'.nodes[n].body = db.nodes[n].body
    BY <1>1, <2>1 DEF Within, Kept, Exists
  <2>3. \A q \in Requests : Taken(q) \/ joined[q] => Taken(q)' \/ joined'[q]
    BY <1>6 DEF Crash, WriteCrash, Taken
  <2>4. QED
    BY <1>2, <2>2, <2>3
<1>7. CASE UNCHANGED vars
  BY <1>2, <1>7 DEF vars, store, writing, Taken
<1>8. QED
  BY <1>3, <1>5, <1>6, <1>7 DEF MemoryNext

-----------------------------------------------------------------------------
(* Answered reviews *)

\* v has stored its version and has not been refused or lost.
Written == {"promoting", "governing", "answered"}
Wrote(v) == stage[v] \in Written

\* A review that opened its transaction holds it until it ends; its version is in db from the
\* write on, and on disk from the end on.
ReviewInv ==
    /\ \A v \in Reviews : stage[v] \in UnderWay /\ ~borrowed[v] => opener = v
    /\ \A v \in Reviews : Wrote(v) /\ ~borrowed[v] => Stored(db, VersionBatch(v, next[v], 1))
    /\ \A v \in Reviews : stage[v] = "answered" /\ ~borrowed[v] =>
            Stored(disk, VersionBatch(v, next[v], 1))

\* No other review has the version of one that opened its transaction: one that wrote it
\* before is met in the mirror, one that writes it meanwhile leaves a row that conflicts.
Alone(u, v) ==
    next[u] = next[v] /\ Wrote(v) /\ ~borrowed[u] =>
        /\ ~Wrote(u)
        /\ stage[u] = "validating" =>
            Exists(db, next[v]) /\ db.nodes[next[v]].body = v

VersionInv ==
    /\ \A v \in Reviews : Wrote(v) => mirror[next[v]] # Missing
    /\ \A u, v \in Reviews : u # v => Alone(u, v)

LEMMA AdvanceMoves ==
    ASSUME ControlInv, NEW v \in Reviews, NEW s, Advance(v, s)
    PROVE  stage'[v] = s /\ \A u \in Reviews : u # v => stage'[u] = stage[u]
  BY DEF Advance, ControlInv

\* Which review borrows, which version it takes, when it begins.
LEMMA ReviewBeginsAs ==
    ASSUME StoreInv, PlannedInv, ControlInv, FlagInv, NEW v \in Reviews, ReviewBegins(v)
    PROVE  /\ stage'[v] = "validating" /\ (~borrowed'[v] => opener' = v)
           /\ mirror[next'[v]] = Missing
           /\ \A u \in Reviews : u # v => stage'[u] = stage[u] /\ next'[u] = next[u]
                                          /\ borrowed'[u] = borrowed[u]
<1>1. stage'[v] = "validating" /\ \A u \in Reviews : u # v => stage'[u] = stage[u]
  BY AdvanceMoves DEF ReviewBegins
<1>2. borrowed' = [borrowed EXCEPT ![v] = opener' # v] /\ DOMAIN borrowed = Reviews
  BY Zenon DEF ReviewBegins, FlagInv
<1>3. (~borrowed'[v] => opener' = v) /\ \A u \in Reviews : u # v => borrowed'[u] = borrowed[u]
  BY <1>2, Zenon
<1>4. PICK n \in 1..(MaxVersion - 2) : IsLatest(n) /\ next' = [next EXCEPT ![v] = n + 1]
  BY DEF ReviewBegins
<1>5. next'[v] = n + 1 /\ \A u \in Reviews : u # v => next'[u] = next[u]
  BY <1>4 DEF PlannedInv
<1>6. mirror[n + 1] = Missing
  BY <1>4, StoreAssumption DEF IsLatest
<1>7. QED
  BY <1>1, <1>3, <1>5, <1>6

LEMMA OwnersKeep ==
    ASSUME ControlInv, [MemoryNext]_vars, Undone, NEW v \in Reviews, opener = v
    PROVE  stage'[v] \in {"refused", "lost"}
<1>1. CASE Crash
  BY <1>1, StoreAssumption DEF Crash, ReviewCrash, ControlInv, InTx
<1>2. CASE ~Crash
  BY <1>2, AdvanceMoves DEF Undone, ReviewThrows
<1>3. QED
  BY <1>1, <1>2

\* What stored batches keep in a step that undoes nothing, or of a review whose transaction
\* is not the one undone.
LEMMA VersionsAreWrites ==
    ASSUME PlannedInv, NEW v \in Reviews
    PROVE  VersionBatch(v, next[v], 1) \in Writes
  BY BatchesAreWrites DEF PlannedInv

LEMMA StoreVersionStores ==
    ASSUME StoreInv, PlannedInv, NEW v \in Reviews, StoreVersion(v, next[v], 1)
    PROVE  Stored(db', VersionBatch(v, next[v], 1))
<1>1. VersionBatch(v, next[v], 1) \in Writes /\ db \in Databases
  BY VersionsAreWrites DEF StoreInv
<1>2. QED
  BY <1>1, BatchWithin DEF StoreVersion, ShortTx

LEMMA ReviewInvStep ==
    ASSUME StoreInv, PlannedInv, ControlInv, FlagInv, Within(disk, db), ReviewInv,
           [MemoryNext]_vars
    PROVE  ReviewInv'
<1>1. Within(disk, disk') /\ (Within(db, db') \/ Undone) /\ Within(disk', db')
  BY Grows DEF Within, Kept, Exists
<1>2. \A v \in Reviews : v # NoOne
  BY StoreAssumption
<1> DEFINE w(v) == VersionBatch(v, next[v], 1)
           Fine(v) == /\ stage'[v] \in UnderWay /\ ~borrowed'[v] => opener' = v
                      /\ stage'[v] \in Written /\ ~borrowed'[v] => Stored(db', VersionBatch(v, next'[v], 1))
                      /\ stage'[v] = "answered" /\ ~borrowed'[v] =>
                           Stored(disk', VersionBatch(v, next'[v], 1))
<1>3. \A v \in Reviews : w(v) \in Writes
  BY VersionsAreWrites
\* A review that does not move.
<1>4. ASSUME NEW v \in Reviews, stage'[v] = stage[v], next'[v] = next[v],
             borrowed'[v] = borrowed[v], opener = v => opener' = v
      PROVE  Fine(v)
  <2>1. stage[v] \in UnderWay /\ ~borrowed[v] => opener' = v
    BY <1>4 DEF ReviewInv
  <2>2. stage[v] = "answered" /\ ~borrowed[v] => Stored(disk', w(v)) /\ Stored(db', w(v))
    BY <1>1, <1>3, WithinStores DEF ReviewInv
  <2>3. Wrote(v) /\ ~borrowed[v] => Stored(db', w(v))
    <3>1. CASE Within(db, db')
      BY <1>1, <1>3, <3>1, WithinStores DEF ReviewInv
    <3>2. CASE Undone
      <4>1. opener # v \/ ~Wrote(v)
        BY <1>4, <3>2, OwnersKeep DEF Wrote, Written
      <4>2. QED
        BY <2>2, <4>1 DEF ReviewInv, Wrote, Written, UnderWay
    <3>3. QED
      BY <1>1, <3>1, <3>2
  <2>4. QED
    BY <1>4, <2>1, <2>2, <2>3 DEF Wrote, Written
<1>5. ASSUME \A v \in Reviews : Fine(v) PROVE ReviewInv'
  BY <1>5 DEF ReviewInv, Wrote, Written, Stored, Exists, Holds, VersionBatch
<1>6. ASSUME NEW r \in Requests, Write(r) PROVE ReviewInv'
  <2>1. UNCHANGED <<opener, stage, next, borrowed>>
    BY <1>6 DEF Write, WriteStep, reviewing, WriteRejected, WriteThrows, WriteStored,
       EmbeddingReturns, EmbeddingFails, ShortTx, ShortTxThrows
  <2>2. QED
    BY <1>4, <1>5, <2>1
<1>7. ASSUME NEW v \in Reviews, Review(v) PROVE ReviewInv'
  <2>1. ASSUME \A u \in Reviews : u # v => /\ stage'[u] = stage[u] /\ next'[u] = next[u]
                                           /\ borrowed'[u] = borrowed[u]
                                           /\ opener = u => opener' = u,
               Fine(v)
        PROVE  ReviewInv'
    <3> HIDE DEF Fine
    <3>1. ASSUME NEW u \in Reviews, u # v PROVE Fine(u)
      <4>1. /\ stage'[u] = stage[u] /\ next'[u] = next[u]
            /\ borrowed'[u] = borrowed[u]
            /\ opener = u => opener' = u
        BY <2>1, <3>1, Zenon
      <4>2. QED
        BY <1>4, <3>1, <4>1
    <3>2. QED
      BY <1>5, <2>1, <3>1
  <2>2. CASE ReviewBegins(v)
    <3>1. \A u \in Reviews : u # v /\ opener = u => opener' = u
      BY <1>2, <2>2 DEF ReviewBegins, OpenTx, InTx
    <3>2. Fine(v)
      BY <2>2, ReviewBeginsAs DEF Wrote, Written
    <3>3. QED
      BY <2>1, <2>2, <3>1, <3>2, ReviewBeginsAs
  <2>3. CASE ReviewWrites(v)
    <3>1. UNCHANGED <<opener, next, borrowed>> /\ StoreVersion(v, next[v], 1)
      BY <2>3 DEF ReviewWrites, StoreVersion, ShortTx
    <3>2. stage[v] = "validating" /\ stage'[v] = "promoting"
          /\ \A u \in Reviews : u # v => stage'[u] = stage[u]
      BY <2>3, AdvanceMoves DEF ReviewWrites
    <3>3. Stored(db', w(v))
      BY <3>1, StoreVersionStores
    <3>4. Fine(v)
      BY <3>1, <3>2, <3>3 DEF ReviewInv, UnderWay
    <3>5. QED
      BY <2>1, <3>1, <3>2, <3>4
  <2>4. CASE ReviewPromotes(v) \/ ReviewDoesNotPromote(v)
    <3>1. UNCHANGED <<opener, next, borrowed>>
      BY <2>4 DEF ReviewPromotes, ReviewDoesNotPromote, StoreVersion, ShortTx, store
    <3>2. stage[v] = "promoting" /\ stage'[v] = "governing"
          /\ \A u \in Reviews : u # v => stage'[u] = stage[u]
      BY <2>4, AdvanceMoves DEF ReviewPromotes, ReviewDoesNotPromote
    <3>3. ~Undone \/ opener # v
      BY <3>2, OwnersKeep
    <3>4. ~borrowed[v] => Stored(db', w(v))
      BY <1>1, <1>3, <3>2, <3>3, WithinStores DEF ReviewInv, Wrote, Written, UnderWay
    <3>5. Fine(v)
      BY <3>1, <3>2, <3>4 DEF ReviewInv, UnderWay
    <3>6. QED
      BY <2>1, <3>1, <3>2, <3>5
  <2>5. CASE ReviewEnds(v)
    <3>1. UNCHANGED <<next, borrowed, db>> /\ CommitTx(v)
      BY <2>5 DEF ReviewEnds, CommitTx
    <3>2. stage[v] = "governing" /\ stage'[v] = "answered"
          /\ \A u \in Reviews : u # v => stage'[u] = stage[u]
      BY <2>5, AdvanceMoves DEF ReviewEnds
    <3>3. ~borrowed[v] => opener = v /\ Stored(db, w(v))
      BY <3>2 DEF ReviewInv, Wrote, Written, UnderWay
    <3>4. ~borrowed[v] => Stored(disk', w(v)) /\ Stored(db', w(v))
      BY <3>1, <3>3 DEF CommitTx
    <3>5. Fine(v)
      BY <3>1, <3>2, <3>4 DEF UnderWay
    <3>6. \A u \in Reviews : u # v /\ opener = u => opener' = u
      BY <3>1 DEF CommitTx
    <3>7. QED
      BY <2>1, <3>1, <3>2, <3>5, <3>6
  <2>6. CASE ReviewThrows(v)
    <3>1. UNCHANGED <<next, borrowed>> /\ RollbackTx(v)
      BY <2>6 DEF ReviewThrows
    <3>2. stage'[v] = "refused" /\ \A u \in Reviews : u # v => stage'[u] = stage[u]
      BY <2>6, AdvanceMoves DEF ReviewThrows
    <3>3. Fine(v)
      BY <3>2 DEF Wrote, Written, UnderWay
    <3>4. \A u \in Reviews : u # v /\ opener = u => opener' = u
      BY <3>1 DEF RollbackTx
    <3>5. QED
      BY <2>1, <3>1, <3>2, <3>3, <3>4
  <2>7. QED
    BY <1>7, <2>2, <2>3, <2>4, <2>5, <2>6 DEF Review, ReviewStep
<1>8. CASE Crash
  <2>1. UNCHANGED <<next, borrowed>>
    BY <1>8 DEF Crash, ReviewCrash
  <2>2. \A v \in Reviews : stage'[v] \notin UnderWay
                           /\ (stage'[v] \in Written => stage[v] = "answered" /\ stage'[v] = "answered")
    BY <1>8 DEF Crash, ReviewCrash, UnderWay, Wrote, Written, ControlInv
  <2>3. \A v \in Reviews : stage[v] = "answered" /\ ~borrowed[v] =>
            Stored(disk', w(v)) /\ Stored(db', w(v))
    BY <1>1, <1>3, WithinStores DEF ReviewInv
  <2>4. ASSUME NEW v \in Reviews PROVE Fine(v)
    <3>1. VersionBatch(v, next'[v], 1) = w(v) /\ borrowed'[v] = borrowed[v]
      BY <2>1
    <3>2. ~(stage'[v] \in UnderWay)
      BY <2>2, <2>4
    <3>3. stage'[v] \in Written /\ ~borrowed'[v] => Stored(db', w(v)) /\ Stored(disk', w(v))
      BY <2>1, <2>2, <2>3, <2>4
    <3>4. stage'[v] = "answered" => stage'[v] \in Written
      BY DEF Written
    <3>5. QED
      BY <3>1, <3>2, <3>3, <3>4, Zenon
  <2>5. QED
    BY <1>5, <2>4
<1>9. CASE UNCHANGED vars
  <2>1. UNCHANGED <<opener, stage, next, borrowed>>
    BY <1>9 DEF vars, store, reviewing
  <2>2. QED
    BY <1>4, <1>5, <2>1
<1>10. QED
  BY <1>6, <1>7, <1>8, <1>9 DEF MemoryNext

\* The mirror never forgets a version.
LEMMA MirrorStays ==
    ASSUME StoreInv, PlannedInv, ControlInv, [MemoryNext]_vars, NEW n \in Versions,
           mirror[n] # Missing
    PROVE  mirror'[n] # Missing
<1>1. \A v \in Reviews : v # Missing
  BY MirrorAssumption DEF Contents
<1>2. ASSUME NEW v \in Reviews, NEW m, NEW s, StoreVersion(v, m, s)
      PROVE  mirror'[n] # Missing
  BY <1>1, <1>2 DEF StoreVersion, ControlInv
<1>3. CASE \E r \in Requests : Write(r)
  BY <1>3 DEF Write, reviewing
<1>4. ASSUME NEW v \in Reviews, Review(v) PROVE mirror'[n] # Missing
  BY <1>2, <1>4 DEF Review, ReviewStep, ReviewBegins, ReviewWrites, ReviewPromotes,
     ReviewDoesNotPromote, ReviewEnds, ReviewThrows
<1>5. CASE Crash \/ UNCHANGED vars
  BY <1>5 DEF Crash, ReviewCrash, vars, reviewing
<1>6. QED
  BY <1>3, <1>4, <1>5 DEF MemoryNext

\* Neither u nor v begins or writes: what made u alone still does.
LEMMA AloneKeeps ==
    ASSUME StoreInv, PlannedInv, ControlInv, Within(disk, db), ReviewInv, [MemoryNext]_vars,
           NEW u \in Reviews, NEW v \in Reviews, Alone(u, v),
           next'[u] = next[u], next'[v] = next[v], borrowed'[u] <=> borrowed[u],
           stage'[v] \in Written => stage[v] \in Written,
           stage'[u] \in Written => stage[u] \in Written,
           stage'[u] = "validating" => stage[u] = "validating",
           next'[u] = next'[v], stage'[v] \in Written, ~borrowed'[u]
    PROVE  /\ stage'[u] \notin Written
           /\ stage'[u] = "validating" =>
                Exists(db', next'[v]) /\ db'.nodes[next'[v]].body = v
<1>1. /\ stage[u] \notin Written
      /\ stage[u] = "validating" => Exists(db, next[v]) /\ db.nodes[next[v]].body = v
  BY DEF Alone, Wrote
<1>2. ASSUME stage'[u] = "validating"
      PROVE  Exists(db', next'[v]) /\ db'.nodes[next'[v]].body = v
  <2>1. opener = u
    BY <1>2 DEF ReviewInv, UnderWay
  <2>2. ~Undone
    BY <1>2, <2>1, OwnersKeep
  <2>3. Kept(db, db')
    BY <2>2, Grows DEF Within
  <2>4. next[v] \in NodeIds
    BY DEF PlannedInv, NodeIds
  <2>5. QED
    BY <1>1, <1>2, <2>3, <2>4 DEF Kept
<1>3. QED
  BY <1>1, <1>2

LEMMA VersionInvStep ==
    ASSUME StoreInv, PlannedInv, ControlInv, FlagInv, Within(disk, db), ReviewInv, VersionInv,
           [MemoryNext]_vars
    PROVE  VersionInv'
<1> DEFINE Quiet(u) == /\ next'[u] = next[u] /\ (borrowed'[u] <=> borrowed[u])
                       /\ stage'[u] \in Written => stage[u] \in Written
                       /\ stage'[u] = "validating" => stage[u] = "validating"
           Mirrors(v) == stage'[v] \in Written => mirror'[next'[v]] # Missing
           Apart(u, v) ==
               next'[u] = next'[v] /\ stage'[v] \in Written /\ ~borrowed'[u] =>
                   /\ stage'[u] \notin Written
                   /\ stage'[u] = "validating" =>
                        Exists(db', next'[v]) /\ db'.nodes[next'[v]].body = v
<1>1. SUFFICES /\ \A v \in Reviews : Mirrors(v)
               /\ \A u, v \in Reviews : u # v => Apart(u, v)
  BY DEF VersionInv, Alone, Wrote, Exists
<1>2. ASSUME NEW v \in Reviews, Quiet(v) PROVE Mirrors(v)
  BY <1>2, MirrorStays DEF VersionInv, Wrote, PlannedInv
<1>3. ASSUME NEW u \in Reviews, NEW v \in Reviews, u # v, Quiet(u), Quiet(v)
      PROVE  Apart(u, v)
  BY <1>3, AloneKeeps DEF VersionInv
<1>4. ASSUME \A v \in Reviews : Quiet(v)
      PROVE  /\ \A v \in Reviews : Mirrors(v)
             /\ \A u, v \in Reviews : u # v => Apart(u, v)
  <2> HIDE DEF Quiet, Mirrors, Apart
  <2>1. QED
    BY <1>2, <1>3, <1>4
<1>5. CASE \E r \in Requests : Write(r)
  BY <1>4, <1>5 DEF Write, reviewing
<1>6. ASSUME NEW x \in Reviews, Review(x)
      PROVE  /\ \A v \in Reviews : Mirrors(v)
             /\ \A u, v \in Reviews : u # v => Apart(u, v)
  <2>1. ASSUME \A v \in Reviews : v # x => Quiet(v), Mirrors(x),
               \A v \in Reviews : v # x => Apart(x, v) /\ Apart(v, x)
        PROVE  /\ \A v \in Reviews : Mirrors(v)
               /\ \A u, v \in Reviews : u # v => Apart(u, v)
    <3> HIDE DEF Quiet, Mirrors, Apart
    <3>1. QED
      BY <1>2, <1>3, <2>1
  <2>2. CASE ReviewBegins(x)
    <3>1. /\ stage'[x] = "validating" /\ mirror[next'[x]] = Missing
          /\ \A v \in Reviews : v # x => Quiet(v) /\ stage'[v] = stage[v]
      BY <2>2, ReviewBeginsAs
    <3>2. Mirrors(x) /\ \A v \in Reviews : v # x => Apart(v, x)
      BY <3>1 DEF Written
    <3>3. ASSUME NEW v \in Reviews, v # x PROVE Apart(x, v)
      <4>1. stage'[v] \in Written => next'[x] # next'[v]
        BY <3>1, <3>3 DEF VersionInv, Wrote
      <4>2. QED
        BY <4>1
    <3>4. QED
      BY <2>1, <3>1, <3>2, <3>3
  <2>3. CASE ReviewWrites(x)
    <3>1. /\ stage[x] = "validating" /\ stage'[x] = "promoting"
          /\ \A v \in Reviews : v # x => stage'[v] = stage[v]
      BY <2>3, AdvanceMoves DEF ReviewWrites
    <3>2. UNCHANGED <<next, borrowed>> /\ StoreVersion(x, next[x], 1)
      BY <2>3 DEF ReviewWrites
    <3>3. \A v \in Reviews : v # x => Quiet(v)
      BY <3>1, <3>2
    <3>4. Mirrors(x)
      <4>1. mirror'[next[x]] = x
        BY <3>2 DEF StoreVersion, ControlInv, PlannedInv
      <4>2. x # Missing
        BY MirrorAssumption DEF Contents
      <4>3. QED
        BY <3>2, <4>1, <4>2
    <3>5. Exists(db, next[x]) => db.nodes[next[x]].body = x
      BY <3>2 DEF StoreVersion, PassesChecks, DuplicateConflict, VersionBatch, Fingerprint
    <3>6. Exists(db', next[x]) /\ db'.nodes[next[x]].body = x
      BY <3>2, StoreVersionStores DEF Stored, Holds, VersionBatch
    <3>7. ASSUME NEW v \in Reviews, v # x PROVE Apart(x, v)
      BY <3>1, <3>2, <3>5, <3>7 DEF VersionInv, Alone, Wrote
    <3>8. ASSUME NEW v \in Reviews, v # x PROVE Apart(v, x)
      <4>1. Wrote(v) /\ ~borrowed[v] /\ next[v] = next[x] =>
              Exists(db, next[x]) /\ db.nodes[next[x]].body = v
        BY <3>8 DEF ReviewInv, Stored, Holds, VersionBatch
      <4>2. QED
        BY <3>1, <3>2, <3>5, <3>6, <3>8, <4>1 DEF Wrote
    <3>9. QED
      BY <2>1, <3>3, <3>4, <3>7, <3>8
  <2>4. CASE ReviewPromotes(x) \/ ReviewDoesNotPromote(x) \/ ReviewEnds(x) \/ ReviewThrows(x)
    <3>1. UNCHANGED <<next, borrowed>>
      BY <2>4 DEF ReviewPromotes, ReviewDoesNotPromote, ReviewEnds, ReviewThrows
    <3>2. /\ \A v \in Reviews : v # x => stage'[v] = stage[v]
          /\ \/ stage[x] \in Written /\ stage'[x] \in Written
             \/ stage'[x] = "refused"
          /\ stage'[x] # "validating"
      BY <2>4, AdvanceMoves
      DEF ReviewPromotes, ReviewDoesNotPromote, ReviewEnds, ReviewThrows, Written
    <3>3. "refused" \notin Written
      BY DEF Written
    <3>4. \A v \in Reviews : Quiet(v)
      BY <3>1, <3>2, <3>3
    <3>5. QED
      BY <1>4, <3>4
  <2>5. QED
    BY <1>6, <2>2, <2>3, <2>4 DEF Review, ReviewStep
<1>7. CASE Crash
  <2>1. UNCHANGED <<next, borrowed>>
    BY <1>7 DEF Crash, ReviewCrash
  <2>2. \A v \in Reviews : stage'[v] \in {stage[v], "lost"}
    BY <1>7 DEF Crash, ReviewCrash
  <2>3. \A v \in Reviews : Quiet(v)
    BY <2>1, <2>2 DEF Written
  <2>4. QED
    BY <1>4, <2>3
<1>8. CASE UNCHANGED vars
  BY <1>4, <1>8 DEF vars, reviewing
<1>9. QED
  BY <1>5, <1>6, <1>7, <1>8 DEF MemoryNext

-----------------------------------------------------------------------------
(* The mirror *)

\* A step that leaves on disk no more versions without their mirror than there were.
LEMMA MirrorCarries ==
    ASSUME MirrorInv, crashes' = crashes,
           \A n \in Unmirrored(disk)' : n \in Unmirrored(disk) /\ disk'.nodes[n].body = disk.nodes[n].body,
           \A v \in Reviews : LostJoined(v) => LostJoined(v)',
           Unmirrored(db)' \subseteq Unmirrored(disk)', crashes \in Nat
    PROVE  MirrorInv'
<1>1. Unmirrored(disk)' \subseteq Unmirrored(disk)
  OBVIOUS
<1>2. IsFiniteSet(Unmirrored(disk))
  BY StoreAssumption, FS_Interval, FS_Subset, 1 \in Int, MaxVersion \in Int DEF Unmirrored, Versions
<1>3. Cardinality(Unmirrored(disk)') <= crashes'
  BY <1>1, <1>2, FS_Subset, FS_CardinalityType DEF MirrorInv
<1>4. QED
  BY <1>1, <1>3 DEF MirrorInv

LEMMA MirrorStep ==
    ASSUME StoreInv, PlannedInv, ControlInv, FlagInv, Within(disk, db), ReviewInv, MirrorInv,
           [MemoryNext]_vars
    PROVE  MirrorInv'
<1>0. /\ crashes \in Nat /\ Kept(disk, db)
      /\ Unmirrored(db) \subseteq Unmirrored(disk) /\ Versions \subseteq NodeIds
  BY CrashAssumption DEF ControlInv, MirrorInv, Within, NodeIds
<1>1. ASSUME NEW r \in Requests, Write(r) PROVE MirrorInv'
  <2>1. PICK rows \in Databases :
            /\ Kept(db, rows) /\ SameVersions(rows)
            /\ ShortTx(rows) \/ ShortTxThrows(rows)
    BY <1>1, WriteRows DEF Write
  <2>2. UNCHANGED <<stage, borrowed, mirror, crashes>>
    BY <1>1 DEF Write, reviewing
  <2>3. \A n \in Versions : Exists(rows, n) => Exists(db, n) /\ rows.nodes[n].body = db.nodes[n].body
    BY <2>1 DEF SameVersions
  <2>4. /\ db' = rows \/ db' = db
        /\ \/ disk' = disk
           \/ disk' = rows /\ db' = rows /\ db = disk
    BY <2>1 DEF ShortTx, ShortTxThrows, StoreInv
  <2>5. \A n \in Unmirrored(db)' : n \in Unmirrored(db)
    BY <2>2, <2>3, <2>4 DEF Unmirrored, Exists
  <2>6. \A n \in Unmirrored(disk)' : n \in Unmirrored(disk) /\ disk'.nodes[n].body = disk.nodes[n].body
    BY <2>2, <2>3, <2>4 DEF Unmirrored, Exists
  <2>7. Unmirrored(db)' \subseteq Unmirrored(disk)'
    <3>1. CASE disk' = disk
      BY <1>0, <2>2, <2>5, <3>1 DEF Unmirrored, Exists
    <3>2. CASE disk' = rows /\ db' = rows
      BY <3>2 DEF Unmirrored, Exists
    <3>3. QED
      BY <2>4, <3>1, <3>2
  <2>8. QED
    BY <1>0, <2>2, <2>6, <2>7, MirrorCarries DEF LostJoined
<1>2. ASSUME NEW v \in Reviews, NEW n \in Versions, NEW s \in Versions, StoreVersion(v, n, s),
             crashes' = crashes, \A u \in Reviews : LostJoined(u) => LostJoined(u)'
      PROVE  MirrorInv'
  <2> DEFINE w == VersionBatch(v, n, s)
             rows == WithBatch(db, w)
  <2>1. rows \in Databases /\ Kept(db, rows) /\ ShortTx(rows)
    BY <1>2, VersionRows
  <2>3. w \in Writes /\ w.id = n /\ w.body = v /\ n \in NodeIds
    BY BatchesAreWrites DEF VersionBatch, NodeIds
  <2>4. db \in Databases
    BY DEF StoreInv
  <2>5. rows.nodes = NodeInserted(db, w)
    BY <2>3, <2>4, BatchKeeps DEF WithNode, Databases
  <2>6. rows.nodes[n].body = v
    <3>1. Exists(db, n) => db.nodes[n].body = v
      BY <1>2, <2>3 DEF StoreVersion, PassesChecks, DuplicateConflict, Fingerprint
    <3>2. QED
      BY <2>3, <2>4, <2>5, <3>1 DEF NodeInserted, Databases
  <2>7. \A m \in Versions : m # n => rows.nodes[m] = db.nodes[m]
    BY <2>3, <2>4, <2>5 DEF NodeInserted, Databases, NodeIds
  <2>8. mirror' = [mirror EXCEPT ![n] = v] /\ mirror \in [Versions -> Contents \cup {Missing}]
    BY <1>2 DEF StoreVersion, ControlInv
  <2>9. /\ db' = rows
        /\ \/ disk' = disk
           \/ disk' = rows /\ db = disk
    BY <2>1 DEF ShortTx, StoreInv
  <2> HIDE DEF rows, w
  <2>10. \A m \in Unmirrored(db)' : m # n /\ m \in Unmirrored(db) /\ db'.nodes[m] = db.nodes[m]
    BY <2>6, <2>7, <2>8, <2>9 DEF Unmirrored, Exists
  <2>11. \A m \in Unmirrored(disk)' : m \in Unmirrored(disk) /\ disk'.nodes[m].body = disk.nodes[m].body
    <3>1. CASE disk' = rows /\ db = disk
      BY <2>9, <2>10, <3>1 DEF Unmirrored, Exists
    <3>2. CASE disk' = disk
      <4>1. Exists(disk, n) => disk.nodes[n].body = v
        BY <2>1, <2>3, <2>6, <1>0 DEF Kept, Exists
      <4>2. QED
        BY <2>8, <3>2, <4>1 DEF Unmirrored, Exists
    <3>3. QED
      BY <2>9, <3>1, <3>2
  <2>12. Unmirrored(db)' \subseteq Unmirrored(disk)'
    <3>1. CASE disk' = rows
      BY <2>9, <3>1 DEF Unmirrored, Exists
    <3>2. CASE disk' = disk
      BY <1>0, <2>8, <2>10, <3>2 DEF Unmirrored, Exists
    <3>3. QED
      BY <2>9, <3>1, <3>2
  <2>13. QED
    BY <1>0, <1>2, <2>11, <2>12, MirrorCarries
<1>3. ASSUME NEW v \in Reviews, Review(v) PROVE MirrorInv'
  <2>0. crashes' = crashes /\ \A u \in Reviews : LostJoined(u) => LostJoined(u)'
    <3>1. ASSUME NEW u \in Reviews, stage[u] = "lost" PROVE stage'[u] = "lost" /\ borrowed'[u] = borrowed[u]
      <4>1. u # v
        BY <1>3, <3>1 DEF Review, ReviewStep, ReviewBegins, ReviewWrites, ReviewPromotes,
           ReviewDoesNotPromote, ReviewEnds, ReviewThrows, UnderWay
      <4>2. stage'[u] = stage[u]
        BY <1>3, <4>1, AdvanceMoves DEF Review, ReviewStep, ReviewBegins, ReviewWrites, ReviewPromotes,
           ReviewDoesNotPromote, ReviewEnds, ReviewThrows
      <4>3. borrowed'[u] = borrowed[u]
        BY <1>3, <4>1, ReviewBeginsAs DEF Review, ReviewStep, ReviewWrites, ReviewPromotes,
           ReviewDoesNotPromote, ReviewEnds, ReviewThrows
      <4>4. QED
        BY <3>1, <4>2, <4>3
    <3>2. QED
      BY <1>3, <3>1 DEF Review, LostJoined
  <2>1. CASE ReviewWrites(v)
    BY <1>2, <2>0, <2>1 DEF ReviewWrites, PlannedInv
  <2>2. CASE ReviewPromotes(v)
    <3>1. next[v] \in Versions /\ next[v] + 1 \in Versions
      BY <2>2, StoreAssumption DEF ReviewPromotes, PlannedInv, Versions
    <3>2. QED
      BY <1>2, <2>0, <2>2, <3>1 DEF ReviewPromotes
  <2>3. CASE ReviewBegins(v) \/ ReviewDoesNotPromote(v) \/ ReviewEnds(v) \/ ReviewThrows(v)
    <3>1. /\ mirror' = mirror
          /\ \/ db' = db /\ disk' \in {db, disk}
             \/ db' = disk /\ disk' = disk
      BY <2>3 DEF ReviewBegins, ReviewDoesNotPromote, ReviewEnds, ReviewThrows, store,
         OpenTx, CommitTx, RollbackTx
    <3>2. \A n \in Unmirrored(db) : disk.nodes[n].body = db.nodes[n].body
      BY <1>0 DEF Unmirrored, Kept
    <3>3. \A n \in Unmirrored(disk)' : n \in Unmirrored(disk) /\ disk'.nodes[n].body = disk.nodes[n].body
      <4>1. CASE disk' = disk
        BY <3>1, <4>1 DEF Unmirrored, Exists
      <4>2. CASE disk' = db
        <5>1. Unmirrored(disk)' = Unmirrored(db)
          BY <3>1, <4>2 DEF Unmirrored, Exists
        <5>2. QED
          BY <1>0, <3>2, <4>2, <5>1
      <4>3. QED
        BY <3>1, <4>1, <4>2
    <3>4. Unmirrored(db)' \subseteq Unmirrored(disk)'
      BY <1>0, <3>1 DEF Unmirrored, Exists
    <3>5. QED
      BY <1>0, <2>0, <3>3, <3>4, MirrorCarries
  <2>4. QED
    BY <1>3, <2>1, <2>2, <2>3 DEF Review, ReviewStep
<1>4. CASE Crash
  <2>1. /\ UNCHANGED <<borrowed, mirror>> /\ crashes' = crashes + 1
        /\ \A v \in Reviews : stage'[v] = IF stage[v] \in UnderWay THEN "lost" ELSE stage[v]
    BY <1>4 DEF Crash, ReviewCrash
  <2>2. \A v \in Reviews : LostJoined(v) => LostJoined(v)'
    BY <2>1 DEF LostJoined, UnderWay
  <2>3. db' = disk'
    BY <1>4, CrashRows
  <2>4. Unmirrored(db)' \subseteq Unmirrored(disk)'
    BY <2>3 DEF Unmirrored, Exists
  <2>5. IsFiniteSet(Unmirrored(disk)) /\ Cardinality(Unmirrored(disk)) \in Nat
    BY StoreAssumption, FS_Interval, FS_Subset, FS_CardinalityType, 1 \in Int, MaxVersion \in Int
    DEF Unmirrored, Versions
  <2>6. CASE disk' = disk
    <3>1. Unmirrored(disk)' = Unmirrored(disk)
      BY <2>1, <2>6 DEF Unmirrored, Exists
    <3>2. Cardinality(Unmirrored(disk)') <= crashes'
      BY <1>0, <2>1, <2>5, <3>1 DEF MirrorInv
    <3>3. QED
      BY <2>2, <2>4, <2>6, <3>1, <3>2 DEF MirrorInv
  <2>7. ASSUME NEW v \in Reviews, NEW n \in Versions, opener = NoOne, stage[v] \in UnderWay,
               Within(disk, disk'),
               \A m \in NodeIds : m # n => disk'.nodes[m] = disk.nodes[m],
               Exists(disk', n) => disk'.nodes[n].body = v
        PROVE  MirrorInv'
    <3>1. LostJoined(v)'
      <4>1. borrowed[v]
        BY <2>7, StoreAssumption DEF ReviewInv
      <4>2. QED
        BY <2>1, <2>7, <4>1 DEF LostJoined
    <3>2. Unmirrored(disk)' \subseteq Unmirrored(disk) \cup {n}
      BY <1>0, <2>1, <2>7 DEF Unmirrored, Exists
    <3>3. /\ IsFiniteSet(Unmirrored(disk) \cup {n})
          /\ Cardinality(Unmirrored(disk) \cup {n}) <= Cardinality(Unmirrored(disk)) + 1
          /\ Cardinality(Unmirrored(disk) \cup {n}) \in Nat
      <4> DEFINE U == Unmirrored(disk)
      <4>1. IsFiniteSet(U) /\ Cardinality(U) \in Nat
        BY <2>5
      <4> HIDE DEF U
      <4>2. /\ IsFiniteSet(U \cup {n})
            /\ \/ Cardinality(U \cup {n}) = Cardinality(U)
               \/ Cardinality(U \cup {n}) = Cardinality(U) + 1
        BY <4>1, FS_AddElement
      <4>3. QED
        BY <4>1, <4>2 DEF U
    <3>4. Cardinality(Unmirrored(disk)') <= crashes'
      BY <1>0, <2>1, <2>5, <3>2, <3>3, FS_Subset, FS_CardinalityType DEF MirrorInv
    <3>5. ASSUME NEW m \in Unmirrored(disk)'
          PROVE  \E u \in Reviews : disk'.nodes[m].body = u /\ LostJoined(u)'
      <4>1. CASE m = n
        BY <2>7, <3>1, <4>1 DEF Unmirrored, Exists
      <4>2. CASE m # n
        <5>1. m \in Unmirrored(disk) /\ disk'.nodes[m] = disk.nodes[m]
          BY <1>0, <2>7, <3>2, <4>2 DEF Unmirrored
        <5>2. QED
          BY <2>2, <5>1 DEF MirrorInv
      <4>3. QED
        BY <4>1, <4>2
    <3>6. QED
      BY <2>4, <3>4, <3>5 DEF MirrorInv
  <2>8. QED
    BY <1>4, <2>6, <2>7, CrashRows
<1>5. CASE UNCHANGED vars
  <2>1. UNCHANGED <<db, disk, mirror, stage, borrowed, crashes>>
    BY <1>5 DEF vars, store, reviewing
  <2>2. Unmirrored(db)' = Unmirrored(db) /\ Unmirrored(disk)' = Unmirrored(disk)
    BY <2>1 DEF Unmirrored, Exists
  <2>3. QED
    BY <1>0, <2>1, <2>2, MirrorCarries DEF LostJoined
<1>6. QED
  BY <1>1, <1>3, <1>4, <1>5 DEF MemoryNext

-----------------------------------------------------------------------------
(* Conflicts *)

LEMMA NeverNewAgain ==
    ASSUME StoreInv, ControlInv, FlagInv, WriteInv, [MemoryNext]_vars,
           NEW r \in Requests, phase[r] # "new"
    PROVE  phase'[r] # "new"
<1>1. ASSUME NEW q \in Requests, Write(q) PROVE phase'[r] # "new"
  <2>1. CASE q = r
    BY <1>1, <2>1, WriteStepStores DEF Write
  <2>2. CASE q # r
    <3>1. PICK p : GoTo(q, p)
      BY <1>1 DEF Write, WriteStep,
         WriteRejected, WriteThrows, WriteStored, EmbeddingReturns, EmbeddingFails
    <3>2. QED
      BY <2>2, <3>1, GoToMoves
  <2>3. QED
    BY <2>1, <2>2
<1>2. CASE \E v \in Reviews : Review(v)
  BY <1>2 DEF Review, writing
<1>3. CASE Crash
  BY <1>3 DEF Crash, WriteCrash
<1>4. CASE UNCHANGED vars
  BY <1>4 DEF vars, writing
<1>5. QED
  BY <1>1, <1>2, <1>3, <1>4 DEF MemoryNext

\* The row a rejected write conflicts with has an author that is not new.
LEMMA ConflictStep ==
    ASSUME StoreInv, ControlInv, FlagInv, WriteInv, AuthoredInv, ConflictsAreReal,
           [MemoryNext]_vars
    PROVE  ConflictsAreReal'
<1> DEFINE Rival(r, q) == Input[q].id = Input[r].id /\ Input[q].body # Input[r].body
<1>1. SUFFICES ASSUME NEW r \in Requests, phase'[r] = "conflict"
               PROVE  \E q \in Requests : Rival(r, q) /\ phase'[q] # "new"
  BY DEF ConflictsAreReal
<1>2. ASSUME \E q \in Requests : Rival(r, q) /\ phase[q] # "new"
      PROVE  \E q \in Requests : Rival(r, q) /\ phase'[q] # "new"
  <2> HIDE DEF Rival
  <2>1. QED
    BY <1>2, NeverNewAgain
<1>3. CASE phase[r] = "conflict"
  BY <1>2, <1>3 DEF ConflictsAreReal
<1>4. CASE phase[r] # "conflict"
  <2>1. PICK q \in Requests : Write(q)
    BY <1>1, <1>4 DEF MemoryNext, Review, Crash, WriteCrash, vars, writing
  <2>2. q = r
    <3>1. PICK p : GoTo(q, p)
      BY <2>1 DEF Write, WriteStep,
         WriteRejected, WriteThrows, WriteStored, EmbeddingReturns, EmbeddingFails
    <3>2. QED
      BY <1>1, <1>4, <3>1, GoToMoves
  <2>3. WriteRejected(r) /\ DuplicateConflict(db, Batch(r))
    <3>1. CASE WriteRejected(r)
      <4>1. CASE DuplicateConflict(db, Batch(r))
        BY <3>1, <4>1
      <4>2. CASE ~DuplicateConflict(db, Batch(r))
        BY <1>1, <3>1, <4>2, GoToMoves DEF WriteRejected
      <4>3. QED
        BY <4>1, <4>2
    <3>2. CASE WriteThrows(r)
      BY <1>1, <3>2, GoToMoves DEF WriteThrows
    <3>3. CASE WriteStored(r)
      <4>1. \E p \in {"embedding", "answered"} : GoTo(r, p)
        BY <3>3 DEF WriteStored
      <4>2. QED
        BY <1>1, <4>1, GoToMoves
    <3>4. CASE EmbeddingReturns(r) \/ EmbeddingFails(r)
      BY <1>1, <3>4, GoToMoves DEF EmbeddingReturns, EmbeddingFails
    <3>5. QED
      BY <2>1, <2>2, <3>1, <3>2, <3>3, <3>4 DEF Write, WriteStep
  <2>4. /\ Input[r].id \in Nodes /\ Exists(db, Input[r].id)
        /\ db.nodes[Input[r].id].body # Input[r].body
    BY <2>3, InputAssumption DEF DuplicateConflict, Fingerprint, Batch
  <2>5. PICK u \in Requests : /\ Input[u].id = Input[r].id
                              /\ Input[u].body = db.nodes[Input[r].id].body
                              /\ Taken(u) \/ joined[u]
    BY <2>4 DEF AuthoredInv
  <2>6. phase[u] # "new"
    BY <2>5 DEF WriteInv, Taken
  <2>7. QED
    BY <1>2, <2>4, <2>5, <2>6
<1>5. QED
  BY <1>3, <1>4

-----------------------------------------------------------------------------
(* Theorems *)

MemoryInv == StoreInv /\ PlannedInv /\ ControlInv /\ FlagInv

\* What requests and reviews that were answered, refused or lost have left behind.
LastingInv ==
    /\ Within(disk, db)
    /\ WriteInv
    /\ AuthoredInv
    /\ ConflictsAreReal
    /\ ReviewInv
    /\ VersionInv
    /\ MirrorInv

LEMMA InitLasts == MemoryInit => LastingInv
<1> SUFFICES ASSUME MemoryInit PROVE LastingInv
  OBVIOUS
<1>1. /\ db = FirstRows /\ disk = FirstRows
      /\ \A r \in Requests : phase[r] = "new" /\ ~joined[r]
      /\ \A v \in Reviews : stage[v] = "new"
  BY DEF MemoryInit, StoreInit, WriteInit, ReviewInit
<1>2. Within(disk, db)
  BY <1>1, WithinIsOrder
<1>3. WriteInv /\ ConflictsAreReal
  BY <1>1 DEF WriteInv, Taken, ConflictsAreReal
<1>4. AuthoredInv
  <2>1. \A n \in Nodes : n \in NodeIds /\ n # 1
    BY StoreAssumption DEF NodeIds, Versions
  <2>2. \A n \in Nodes : FirstRows.nodes[n] = NoRow
    BY <2>1 DEF FirstRows
  <2>3. QED
    BY <1>1, <2>2 DEF AuthoredInv, Exists, NoRow
<1>5. ReviewInv /\ VersionInv
  BY <1>1 DEF ReviewInv, VersionInv, Alone, Wrote, Written, UnderWay
<1>6. QED
  BY <1>2, <1>3, <1>4, <1>5, InitHolds DEF LastingInv

\* The invariant is inductive.
THEOREM MemoryInvariant == MemorySpec => [](MemoryInv /\ LastingInv)
<1>1. MemoryInit => MemoryInv /\ LastingInv
  BY InitHolds, InitLasts DEF MemoryInv
<1>2. MemoryInv /\ [MemoryNext]_vars => MemoryInv'
  BY StoreStep, FlagStep, ControlStep DEF MemoryInv
<1>3. MemoryInv /\ LastingInv /\ [MemoryNext]_vars => LastingInv'
  <2> SUFFICES ASSUME MemoryInv, LastingInv, [MemoryNext]_vars PROVE LastingInv'
    OBVIOUS
  <2>1. WriteInv' /\ AuthoredInv' /\ ConflictsAreReal'
    BY WriteInvStep, AuthoredStep, ConflictStep DEF MemoryInv, LastingInv
  <2>2. ReviewInv' /\ VersionInv'
    BY ReviewInvStep, VersionInvStep DEF MemoryInv, LastingInv
  <2>3. Within(disk, db)'
    BY Grows DEF MemoryInv, LastingInv
  <2>4. MirrorInv'
    BY MirrorStep DEF MemoryInv, LastingInv
  <2>5. QED
    BY <2>1, <2>2, <2>3, <2>4 DEF LastingInv
<1>4. QED
  BY <1>1, <1>2, <1>3, PTL DEF MemorySpec

\* Every variable stays in its type, for any requests and reviews; what is outside an open
\* transaction is on disk, and the holder of one is under way (withTx).
THEOREM MemoryTypeCorrect == MemorySpec => []MemoryTypeOK
<1>1. MemoryInv => MemoryTypeOK
  BY DEF MemoryInv, StoreInv, PlannedInv, ControlInv, FlagInv, MemoryTypeOK
<1>2. QED
  BY <1>1, MemoryInvariant, PTL

\* Neither a joined write that throws midway, nor a rollback, nor a crash leaves an edge without
\* its ends, in the connection's view or on disk (applyMemoryWrite).
THEOREM EdgesAlwaysHaveEndpoints == MemorySpec => []EdgesHaveEndpoints
<1>1. MemoryInv => EdgesHaveEndpoints
  BY DEF MemoryInv, StoreInv, EdgesHaveEndpoints
<1>2. QED
  BY <1>1, MemoryInvariant, PTL

\* A version that is on disk is in the replay mirror with the same content
\* (applyReplayMemoryWrite), however many reviews share a transaction; at most one for each
\* crash is not, and that of a joined review that outlived the transaction it had joined.
THEOREM VersionsAlwaysMirrored == MemorySpec => []CommittedVersionsAreMirrored
<1>1. LastingInv => CommittedVersionsAreMirrored
  BY DEF LastingInv, MirrorInv, LostJoined, CommittedVersionsAreMirrored
<1>2. QED
  BY <1>1, MemoryInvariant, PTL

\* What was answered out of a transaction of its own stays on disk, with its embedding settled
\* and, for a review, its version in the mirror, whatever retries, rollbacks and crashes follow
\* (commitLitePreparedWriteWithProjection, replayPlaybookRepairReview).
THEOREM AnsweredTransactionsLast == MemorySpec => []OwnTransactionsLast
<1>1. MemoryInv /\ LastingInv => OwnTransactionsLast
  <2> SUFFICES ASSUME MemoryInv, LastingInv PROVE OwnTransactionsLast
    OBVIOUS
  <2>1. ASSUME NEW r \in Requests, phase[r] = "answered", ~joined[r]
        PROVE  /\ Holds(disk, Batch(r))
               /\ Input[r].embeds => disk.nodes[Input[r].id].status # "pending"
    BY <2>1 DEF LastingInv, WriteInv, Taken, Stored
  <2>2. ASSUME NEW v \in Reviews, stage[v] = "answered", ~borrowed[v]
        PROVE  Holds(disk, VersionBatch(v, next[v], 1)) /\ mirror[next[v]] = v
    <3>1. Stored(disk, VersionBatch(v, next[v], 1))
      BY <2>2 DEF LastingInv, ReviewInv
    <3>2. Exists(disk, next[v]) /\ disk.nodes[next[v]].body = v
      BY <3>1 DEF Stored, Holds, VersionBatch
    <3>3. next[v] \notin Unmirrored(disk)
      BY <2>2, <3>2 DEF LastingInv, MirrorInv, LostJoined
    <3>4. QED
      BY <3>1, <3>2, <3>3 DEF Stored, MemoryInv, PlannedInv, Unmirrored
  <2>3. QED
    BY <2>1, <2>2 DEF OwnTransactionsLast
<1>2. QED
  BY <1>1, MemoryInvariant, PTL

\* Every row of a plain write is that of a request that got past its checks, or that threw inside
\* the transaction of another: refused writes of one's own leave nothing (withTx's ROLLBACK).
THEOREM RefusedWritesLeaveNothing == MemorySpec => []RefusedLeavesNothing
<1>1. MemoryInv /\ LastingInv => RefusedLeavesNothing
  <2> SUFFICES ASSUME LastingInv, NEW r \in Requests, Exists(db, Input[r].id),
                      db.nodes[Input[r].id].body = Input[r].body
               PROVE  \E q \in Requests :
                        /\ Batch(q).id = Batch(r).id /\ Batch(q).body = Batch(r).body
                        /\ phase[q] \in {"embedding", "answered", "lost"} \/ joined[q]
    BY DEF RefusedLeavesNothing
  <2>1. Input[r].id \in Nodes
    BY InputAssumption
  <2>2. PICK q \in Requests : /\ Input[q].id = Input[r].id /\ Input[q].body = Input[r].body
                              /\ Taken(q) \/ joined[q]
    BY <2>1 DEF LastingInv, AuthoredInv
  <2>3. Batch(q).id = Batch(r).id /\ Batch(q).body = Batch(r).body
    BY <2>2 DEF Batch
  <2>4. QED
    BY <2>2, <2>3 DEF Taken
<1>2. QED
  BY <1>1, MemoryInvariant, PTL

\* A write is refused for a conflict only when another request has sent a different content for
\* its node id: a retry never meets itself (writeNodeFingerprint).
THEOREM ConflictsAreAlwaysReal == MemorySpec => []ConflictsAreReal
<1>1. LastingInv => ConflictsAreReal
  BY DEF LastingInv
<1>2. QED
  BY <1>1, MemoryInvariant, PTL

\* Two answered reviews share a version only when both ran inside transactions of others
\* (listReplayPlaybookVersions reads the latest, the insert meets duplicate_node_id_conflict).
THEOREM VersionsAreNotShared == MemorySpec => []OneReviewPerVersion
<1>1. LastingInv => OneReviewPerVersion
  <2> SUFFICES ASSUME LastingInv, NEW u \in Reviews, NEW v \in Reviews, u # v,
                      stage[u] = "answered", stage[v] = "answered", next[u] = next[v]
               PROVE  borrowed[u] /\ borrowed[v]
    BY DEF OneReviewPerVersion
  <2>1. Wrote(u) /\ Wrote(v) /\ Alone(u, v) /\ Alone(v, u)
    BY DEF Wrote, Written, LastingInv, VersionInv
  <2>2. QED
    BY <2>1 DEF Alone
<1>2. QED
  BY <1>1, MemoryInvariant, PTL
=============================================================================
