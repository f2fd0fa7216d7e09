------------------------- MODULE WorkflowProjection -------------------------
(***************************************************************************)
(* Workflow learning from continuity writes                                *)
(* (memory/workflow-write-projection.ts, committed by                      *)
(* memory/lite-projected-write-commit.ts): before a write is committed, a  *)
(* node that carries execution continuity is projected to a candidate of   *)
(* its workflow signature; the second distinct observation of a signature  *)
(* may be promoted to a stable workflow, if governance recommends it and   *)
(* the source's contract is authoritative and backed by evidence.          *)
(*                                                                         *)
(* The projection reads the rows, may await a governance provider, and     *)
(* only then enters the write transaction: other writes commit in between. *)
(* Without a provider nothing is awaited and a write is one step.  While a *)
(* replay review holds a transaction open on the same connection, a write  *)
(* joins that: what it stores is read at once, and goes with its ROLLBACK. *)
(*                                                                         *)
(* A source is a record of what the projection reads of a written node:    *)
(*   node, session       its id; whether it is a session's topic, whose    *)
(*                       stored content is reused instead of compared      *)
(*   continuity          whether it is eligible for projection             *)
(*   signature           its workflow signature                            *)
(*   observation         a session's state id, else the node itself        *)
(*   agent, lane         its owner, and "private" or "shared"              *)
(*   authoritative       its contract trust is authoritative and the       *)
(*                       authority gate allows stable promotion            *)
(*   review              governance: "approve" in the slots, "none", or    *)
(*                       "provider"                                        *)
(***************************************************************************)
EXTENDS Naturals, FiniteSets

CONSTANTS
  Writes,           \* requests that may be in progress together
  Sources,
  AnchorWindow,     \* newest visible rows searched for a stable workflow
  CandidateWindow,  \* newest visible rows searched for candidates
  MaxCandidates,    \* candidates that a governance review may name
  MaxRows,          \* bound on the rows
  MaxOpened,        \* bound on the transactions of replay reviews
  MaxCrashes        \* bound on the crashes

ASSUME WorkflowConstants ==
  /\ AnchorWindow \in Nat /\ CandidateWindow \in Nat /\ MaxCandidates \in Nat
  /\ \A s \in Sources :
       /\ DOMAIN s = {"node", "session", "continuity", "signature", "observation",
                      "agent", "lane", "authoritative", "review"}
       /\ s.lane \in {"private", "shared"} /\ s.review \in {"approve", "none", "provider"}
       /\ {s.session, s.continuity, s.authoritative} \subseteq BOOLEAN

VARIABLES
  rows,      \* lite_memory_nodes, as it is read
  waiting,   \* writes that await governance, with the count they have read
  crashes,
  opened,    \* transactions of replay reviews so far
  foreign,   \* a replay review holds a transaction open
  disk,      \* the rows that are committed
  lost       \* history: the sources whose candidates were taken back

vars == <<rows, waiting, crashes, opened, foreign, disk, lost>>

RequiredObservations == 2
Signatures == {s.signature : s \in Sources}
Observations == {s.observation : s \in Sources}

Init ==
  /\ rows = {} /\ waiting = {} /\ crashes = 0
  /\ opened = 0 /\ foreign = FALSE /\ disk = {} /\ lost = {}

\* Of one kind: the source itself, its candidate or the stable workflow.
OfKind(S, kind) == {r \in S : r.kind = kind}
Of(S, signature) == {r \in S : r.source.signature = signature}
Observed(S) == {r.source.observation : r \in S}

\* Private rows of other agents are seen too (a mutation of Visible).
VisibleAny(S, agent) == S

Visible(S, agent) == {r \in S : r.source.lane = "shared" \/ r.source.agent = agent}

\* ORDER BY created_at DESC LIMIT k.
Newest(S, k) == {r \in S : Cardinality({q \in S : q.at > r.at}) < k}

StableFound(s) ==
  Of(OfKind(Newest(Visible(rows, s.agent), AnchorWindow), "stable"), s.signature) # {}

\* The source's own projection, by its id or by a visible row that links it.
AlreadyProjected(s) ==
  \/ s.observation \in Observed(Of(OfKind(rows, "candidate"), s.signature))
  \/ s.observation \in Observed(OfKind(Visible(rows, s.agent), "candidate")
                                  \cup OfKind(Visible(rows, s.agent), "stable"))

\* A projected observation is projected again (a mutation of Skipped).
SkippedIfStable(s) == ~s.continuity \/ StableFound(s)

Skipped(s) == ~s.continuity \/ StableFound(s) \/ AlreadyProjected(s)

Candidates(s) ==
  Of(OfKind(Newest(Visible(rows, s.agent), CandidateWindow), "candidate"), s.signature)

ObservedCount(s) == Cardinality(Observed(Candidates(s))) + 1

\* The provider is also asked about the first observation (a mutation of
\* AsksProvider).
AsksProviderAlways(s) == s.review = "provider"

AsksProvider(s) == s.review = "provider" /\ ObservedCount(s) >= RequiredObservations

\* A longer list of candidates does not parse, and the write is refused.
ReviewFits(s) ==
  ObservedCount(s) >= RequiredObservations => Cardinality(Candidates(s)) < MaxCandidates

\* The primary key: ids are derived from these.
SameNode(r, q) ==
  /\ r.kind = q.kind
  /\ r.kind = "source" => r.source.node = q.source.node
  /\ r.kind = "candidate" => /\ r.source.observation = q.source.observation
                             /\ r.source.signature = q.source.signature
  /\ r.kind = "stable" => r.source.signature = q.source.signature

\* A second row is stored under an id (a mutation of Inserted).
InsertedTwice(new) == rows \cup new

\* INSERT OR IGNORE.
Inserted(new) == rows \cup {r \in new : \A q \in rows : ~SameNode(r, q)}

\* duplicate_node_id_conflict, found before the first insert.
Conflicts(s) ==
  /\ ~s.session
  /\ \E r \in OfKind(rows, "source") : r.source.node = s.node /\ r.source # s

\* Later rows have a larger creation time, and the rows of a write follow each
\* other.
Row(kind, s, n, k) ==
  [kind |-> kind, source |-> s, observed |-> n, at |-> 3 * Cardinality(rows) + k]

Promoted(s, n, approved) == n >= RequiredObservations /\ approved /\ s.authoritative

Projection(s, n, approved) ==
  {Row("candidate", s, n, 2)}
    \cup (IF Promoted(s, n, approved) THEN {Row("stable", s, n, 3)} ELSE {})

\* applyMemoryWrite(), in its own transaction or in the one that is open.
Commit(s, projected) ==
  /\ rows' = IF Conflicts(s) THEN rows ELSE Inserted({Row("source", s, 0, 1)} \cup projected)
  /\ disk' = IF foreign THEN disk ELSE rows'

\* commitLitePreparedWriteWithProjection(), up to the provider's review.
Write(w, s) ==
  /\ Cardinality(rows) < MaxRows
  /\ \A p \in waiting : p.write # w
  /\ \/ Skipped(s) /\ Commit(s, {}) /\ UNCHANGED waiting
     \/ /\ ~Skipped(s) /\ ReviewFits(s) /\ ~AsksProvider(s)
        /\ Commit(s, Projection(s, ObservedCount(s), s.review = "approve"))
        /\ UNCHANGED waiting
     \/ /\ ~Skipped(s) /\ ReviewFits(s) /\ AsksProvider(s)
        /\ waiting' = waiting \cup {[write |-> w, source |-> s, observed |-> ObservedCount(s)]}
        /\ UNCHANGED <<rows, disk>>
  /\ UNCHANGED <<crashes, opened, foreign, lost>>

\* The provider's answer; its failure is no review.
ProviderAnswers(p, approved) ==
  /\ Commit(p.source, Projection(p.source, p.observed, approved))
  /\ waiting' = waiting \ {p}
  /\ UNCHANGED <<crashes, opened, foreign, lost>>

\* withTx() of a replay review: BEGIN IMMEDIATE, COMMIT, ROLLBACK.
ReviewOpens ==
  /\ ~foreign /\ foreign' = TRUE
  /\ opened < MaxOpened /\ opened' = opened + 1
  /\ UNCHANGED <<rows, waiting, crashes, disk, lost>>

ReviewCommits ==
  /\ foreign /\ foreign' = FALSE
  /\ disk' = rows
  /\ UNCHANGED <<rows, waiting, crashes, opened, lost>>

\* What is not committed is gone.
TakenBack ==
  /\ foreign' = FALSE
  /\ rows' = disk
  /\ lost' = lost \cup {r.source : r \in OfKind(rows \ disk, "candidate")}
  /\ UNCHANGED <<opened, disk>>

ReviewRollsBack == foreign /\ TakenBack /\ UNCHANGED <<waiting, crashes>>

Crash ==
  /\ crashes < MaxCrashes /\ (waiting # {} \/ foreign)
  /\ crashes' = crashes + 1 /\ waiting' = {}
  /\ TakenBack

Next ==
  \/ \E w \in Writes, s \in Sources : Write(w, s)
  \/ \E p \in waiting, approved \in BOOLEAN : ProviderAnswers(p, approved)
  \/ ReviewOpens \/ ReviewCommits \/ ReviewRollsBack
  \/ Crash

Spec == Init /\ [][Next]_vars

----------------------------------------------------------------------------
\* No id is stored twice, and what is committed is read.
WorkflowTypeOK ==
  /\ IsFiniteSet(rows)
  /\ rows \subseteq [kind : {"source", "candidate", "stable"}, source : Sources,
                     observed : Nat, at : Nat]
  /\ waiting \subseteq [write : Writes, source : Sources, observed : Nat]
  /\ \A r, q \in rows : SameNode(r, q) => r = q
  /\ foreign \in BOOLEAN /\ lost \subseteq Sources
  /\ disk \subseteq rows /\ (~foreign => disk = rows)

OwnOrShared(S, agent) == {r \in S : r.source.agent = agent \/ r.source.lane # "private"}

CandidateSources(S) == {r.source : r \in OfKind(S, "candidate")}

\* The observations that a source's writer may have counted among these.
Countable(sources, s) ==
  {q.observation : q \in {p \in sources : /\ p.signature = s.signature
                                          /\ p.agent = s.agent \/ p.lane # "private"}}

BackedIn(S) ==
  /\ \A r \in S : r.kind # "source" =>
       r.observed <= Cardinality(Countable(CandidateSources(S) \cup lost, r.source)
                                   \cup {r.source.observation})
  /\ \A r \in OfKind(S, "stable") :
       /\ r.observed >= RequiredObservations
       /\ r.source.authoritative /\ r.source.review # "none"
       /\ r.source.observation \in Observed(Of(OfKind(S, "candidate"), r.source.signature))

\* Every observed_count is backed, besides its own, by candidates that its
\* writer may see and that are stored, or that a rollback or a crash took back
\* since; a stable workflow by two observations, an authoritative source, a
\* review and its own candidate, whatever was committed, lost or retried while
\* the review was awaited.  So it is in what is read and on disk, and while no
\* review's transaction was undone every count rests on stored candidates.
PromotionIsBacked == BackedIn(rows) /\ BackedIn(disk)

\* Of two observations of a signature, of which the second writer may see the
\* first, the second is counted as a recurrence: concurrent writes never both
\* take theirs for the first, as long as the candidates fit the window.
RecurrenceIsCounted ==
  \A r, q \in OfKind(rows, "candidate") :
    /\ q \in OwnOrShared(rows, r.source.agent)
    /\ q.source.signature = r.source.signature
    /\ q.at < r.at
    => r.observed >= RequiredObservations

\* The projection implements the life cycle of a workflow.
SeenIn(S) == [s \in Signatures |-> Observed(Of(OfKind(S, "candidate"), s))]
StableIn(S) == {r.source.signature : r \in OfKind(S, "stable")}
EverSeen == [s \in Signatures |->
  {q.observation : q \in {p \in CandidateSources(rows) \cup lost : p.signature = s}}]

Lifecycle == INSTANCE WorkflowLifecycle WITH
  seen <- SeenIn(rows), stable <- StableIn(rows),
  keptSeen <- SeenIn(disk), keptStable <- StableIn(disk),
  ever <- EverSeen

ImplementsLifecycle == Lifecycle!LifecycleSpec
=============================================================================
