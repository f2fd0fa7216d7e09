---------------------- MODULE WorkflowProjectionProofs ----------------------
(***************************************************************************)
(* Proofs about WorkflowProjection, for any sources, windows and limits:   *)
(* no id is stored twice, promotion is backed, a recurrence within the     *)
(* window is counted, and the projection implements the life cycle of a    *)
(* workflow.  What makes them inductive is that the count a waiting write  *)
(* has read stays backed: of the candidates that were ever stored none is  *)
(* forgotten, and none of the counted ones is the write's own; and that    *)
(* what is committed has the same properties by itself, since a rollback   *)
(* makes it what is read.                                                  *)
(***************************************************************************)
EXTENDS WorkflowProjection, FiniteSetTheorems, TLAPS

\* The observations that back a count read for s, among the sources L of
\* candidates.
Backing(L, s) == Countable(L, s) \cup {s.observation}

Backed(L, s, n) == n <= Cardinality(Backing(L, s))

HasCandidate(R, s) == s.observation \in Observed(Of(OfKind(R, "candidate"), s.signature))

\* The candidates of S, and those that were taken back.
Known(S) == CandidateSources(S) \cup lost

\* A waiting write has read a recurrence.
WaitersAreBacked ==
  \A p \in waiting :
    /\ p.source.review = "provider"
    /\ p.observed >= RequiredObservations
    /\ Backed(Known(rows), p.source, p.observed)

Inv == WorkflowTypeOK /\ IsFiniteSet(lost) /\ PromotionIsBacked /\ WaitersAreBacked

----------------------------------------------------------------------------
\* The observations of finitely many rows are finitely many.
LEMMA ObservedIsFinite ==
  ASSUME NEW S, IsFiniteSet(S)
  PROVE  IsFiniteSet(Observed(S))
<1> DEFINE f == [r \in S |-> r.source.observation]
<1>1. f \in Surjection(S, Observed(S))
  BY DEF Surjection, Observed
<1> QED
  BY <1>1, FS_Surjection

LEMMA SourcesAreFinite ==
  ASSUME NEW S, IsFiniteSet(S)
  PROVE  IsFiniteSet(CandidateSources(S))
<1> DEFINE K == OfKind(S, "candidate")
           f == [r \in K |-> r.source]
<1>1. IsFiniteSet(K)
  BY FS_Subset DEF OfKind
<1>2. f \in Surjection(K, CandidateSources(S))
  BY DEF Surjection, CandidateSources
<1> HIDE DEF K, f
<1> QED
  BY <1>1, <1>2, FS_Surjection

LEMMA KnownIsFinite ==
  ASSUME Inv
  PROVE  IsFiniteSet(Known(rows)) /\ IsFiniteSet(Known(disk))
<1>1. IsFiniteSet(rows) /\ IsFiniteSet(disk) /\ IsFiniteSet(lost)
  BY FS_Subset DEF Inv, WorkflowTypeOK
<1> QED
  BY <1>1, SourcesAreFinite, FS_Union DEF Known

LEMMA BackingIsFinite ==
  ASSUME NEW M, IsFiniteSet(M), NEW s
  PROVE  IsFiniteSet(Backing(M, s)) /\ Cardinality(Backing(M, s)) \in Nat
<1> DEFINE C == {p \in M : /\ p.signature = s.signature
                           /\ p.agent = s.agent \/ p.lane # "private"}
           f == [q \in C |-> q.observation]
<1>1. IsFiniteSet(C)
  BY FS_Subset
<1>2. f \in Surjection(C, Countable(M, s))
  BY DEF Surjection, Countable
<1> HIDE DEF C, f
<1>3. IsFiniteSet(Countable(M, s))
  BY <1>1, <1>2, FS_Surjection
<1> QED
  BY <1>3, FS_AddElement, FS_CardinalityType DEF Backing

\* Candidates that are added take no backing away.
LEMMA BackingGrows ==
  ASSUME NEW L, NEW M, L \subseteq M, IsFiniteSet(M), NEW s
  PROVE  /\ Cardinality(Backing(L, s)) \in Nat /\ Cardinality(Backing(M, s)) \in Nat
         /\ Cardinality(Backing(L, s)) <= Cardinality(Backing(M, s))
<1>1. Backing(L, s) \subseteq Backing(M, s)
  BY DEF Backing, Countable
<1> QED
  BY <1>1, BackingIsFinite, FS_Subset, FS_CardinalityType

\* So a backed count stays backed.
LEMMA StaysBacked ==
  ASSUME NEW L, NEW M, L \subseteq M, IsFiniteSet(M), NEW s, NEW n \in Nat, Backed(L, s, n)
  PROVE  Backed(M, s, n)
BY BackingGrows DEF Backed

\* The count that a source which is not skipped reads is backed: its own
\* observation is not among the counted ones.
LEMMA ReadIsBacked ==
  ASSUME Inv, NEW s \in Sources, ~Skipped(s)
  PROVE  ObservedCount(s) \in Nat /\ Backed(Known(rows), s, ObservedCount(s))
<1> DEFINE O == Observed(Candidates(s))
<1>1. Candidates(s) \subseteq rows
  BY DEF Candidates, Of, OfKind, Newest, Visible
<1>2. IsFiniteSet(O)
  BY <1>1, FS_Subset, ObservedIsFinite DEF Inv, WorkflowTypeOK
<1>3. s.observation \notin O
  <2>1. O \subseteq Observed(Of(OfKind(rows, "candidate"), s.signature))
    BY DEF Candidates, Observed, Of, OfKind, Newest, Visible
  <2> QED
    BY <2>1 DEF Skipped, AlreadyProjected
<1>4. O \subseteq Countable(Known(rows), s)
  <2>1. ASSUME NEW q \in Candidates(s)
        PROVE  /\ q.source \in Known(rows)
               /\ q.source.signature = s.signature
               /\ q.source.agent = s.agent \/ q.source.lane # "private"
    BY <2>1 DEF Candidates, Of, OfKind, Newest, Visible, Known, CandidateSources
  <2> QED
    BY <2>1 DEF Observed, Countable
<1>5. O \cup {s.observation} \subseteq Backing(Known(rows), s)
  BY <1>4 DEF Backing
<1>6. Cardinality(O \cup {s.observation}) = Cardinality(O) + 1 /\ Cardinality(O) \in Nat
  BY <1>2, <1>3, FS_AddElement, FS_CardinalityType
<1>7. IsFiniteSet(Backing(Known(rows), s)) /\ Cardinality(Backing(Known(rows), s)) \in Nat
  BY KnownIsFinite, BackingIsFinite
<1>8. Cardinality(O \cup {s.observation}) <= Cardinality(Backing(Known(rows), s))
  BY <1>5, <1>7, FS_Subset
<1> QED
  BY <1>6, <1>7, <1>8 DEF ObservedCount, Backed

\* A backed recurrence has another observation behind it.
LEMMA RecurrenceHasAnother ==
  ASSUME NEW s \in Sources, NEW n \in Nat, n >= RequiredObservations,
         Backed(Known(rows), s, n)
  PROVE  \E o \in EverSeen[s.signature] : o # s.observation
<1>1. SUFFICES ASSUME \A o \in EverSeen[s.signature] : o = s.observation
               PROVE  FALSE
  OBVIOUS
<1>2. s.signature \in Signatures
  BY DEF Signatures
<1>3. Countable(Known(rows), s) \subseteq EverSeen[s.signature]
  BY <1>2 DEF Countable, EverSeen, Known
<1>4. Backing(Known(rows), s) = {s.observation}
  BY <1>1, <1>3 DEF Backing
<1>5. Cardinality(Backing(Known(rows), s)) = 1
  BY <1>4, FS_Singleton
<1> QED
  BY <1>5 DEF Backed, RequiredObservations

----------------------------------------------------------------------------
\* A write that is committed with the projection of a backed count adds rows
\* that are promoted as they should be, each under an id of its own.
LEMMA CommitKeepsRows ==
  ASSUME Inv, NEW s \in Sources, NEW n \in Nat, Backed(Known(rows), s, n),
         NEW approved \in BOOLEAN, approved => s.review # "none",
         NEW projected, projected = {} \/ projected = Projection(s, n, approved),
         Commit(s, projected), UNCHANGED lost
  PROVE  /\ rows \subseteq rows'
         /\ IsFiniteSet(rows')
         /\ rows' \subseteq [kind : {"source", "candidate", "stable"}, source : Sources,
                             observed : Nat, at : Nat]
         /\ \A r, q \in rows' : SameNode(r, q) => r = q
         /\ BackedIn(rows)'
<1> DEFINE src == Row("source", s, 0, 1)
           cand == Row("candidate", s, n, 2)
           stab == Row("stable", s, n, 3)
           new == {src} \cup projected
<1>1. CASE Conflicts(s)
  BY <1>1 DEF Commit, Inv, WorkflowTypeOK, PromotionIsBacked, BackedIn
<1>2. CASE ~Conflicts(s)
  <2>1. rows' = rows \cup {r \in new : \A q \in rows : ~SameNode(r, q)}
    BY <1>2 DEF Commit, Inserted
  <2>2. new \subseteq {src, cand, stab}
    BY DEF Projection
  <2>3. stab \in new => cand \in new /\ Promoted(s, n, approved)
    BY DEF Projection, Row
  <2>4. /\ src.kind = "source" /\ cand.kind = "candidate" /\ stab.kind = "stable"
        /\ src.source = s /\ cand.source = s /\ stab.source = s
        /\ cand.observed = n /\ stab.observed = n
    BY DEF Row
  <2>5. {src, cand, stab} \subseteq [kind : {"source", "candidate", "stable"},
                                     source : Sources, observed : Nat, at : Nat]
    BY FS_CardinalityType DEF Row, Inv, WorkflowTypeOK
  <2> HIDE DEF src, cand, stab
  <2>6. rows \subseteq rows' /\ rows' \subseteq rows \cup {src, cand, stab}
    BY <2>1, <2>2
  <2>7. IsFiniteSet(rows')
    <3>1. IsFiniteSet(rows \cup {src})
      BY FS_AddElement DEF Inv, WorkflowTypeOK
    <3>2. IsFiniteSet((rows \cup {src}) \cup {cand})
      BY <3>1, FS_AddElement
    <3>3. IsFiniteSet(((rows \cup {src}) \cup {cand}) \cup {stab})
      BY <3>2, FS_AddElement
    <3> QED
      BY <2>6, <3>3, FS_Subset
  <2>8. ASSUME NEW r \in rows', NEW q \in rows', SameNode(r, q)
        PROVE  r = q
    <3>1. r.kind = q.kind /\ SameNode(q, r)
      BY <2>8 DEF SameNode
    <3>2. CASE r \in rows /\ q \in rows
      BY <2>8, <3>2 DEF Inv, WorkflowTypeOK
    <3>3. CASE r \notin rows /\ q \in rows
      BY <2>1, <2>8, <3>3
    <3>4. CASE r \in rows /\ q \notin rows
      BY <2>1, <3>1, <3>4
    <3>5. CASE r \notin rows /\ q \notin rows
      BY <2>4, <2>6, <3>1, <3>5
    <3> QED
      BY <3>2, <3>3, <3>4, <3>5
  <2>9. cand \in new => HasCandidate(rows', s)
    <3>1. SUFFICES ASSUME cand \in new
                   PROVE  \E q \in rows' : /\ q.kind = "candidate"
                                           /\ q.source.signature = s.signature
                                           /\ q.source.observation = s.observation
      BY DEF HasCandidate, Observed, Of, OfKind
    <3>2. CASE \A q \in rows : ~SameNode(cand, q)
      BY <2>1, <2>4, <3>1, <3>2
    <3>3. CASE \E q \in rows : SameNode(cand, q)
      BY <2>4, <2>6, <3>3 DEF SameNode
    <3> QED
      BY <3>2, <3>3
  <2>10. ASSUME NEW r \in rows', r.kind # "source"
         PROVE  Backed(Known(rows)', r.source, r.observed)
    <3>1. r.observed \in Nat /\ Backed(Known(rows), r.source, r.observed)
      <4>1. CASE r \in rows
        BY <2>10, <4>1 DEF Inv, WorkflowTypeOK, PromotionIsBacked, BackedIn, Backed, Backing, Known
      <4>2. CASE r \notin rows
        BY <2>4, <2>6, <2>10, <4>2
      <4> QED
        BY <4>1, <4>2
    <3>2. Known(rows) \subseteq Known(rows)' /\ IsFiniteSet(Known(rows)')
      <4>1. IsFiniteSet(CandidateSources(rows')) /\ IsFiniteSet(lost')
        BY <2>7, SourcesAreFinite DEF Inv
      <4> QED
        BY <2>6, <4>1, FS_Union DEF Known, CandidateSources, OfKind
    <3> QED
      BY <3>1, <3>2, StaysBacked
  <2>11. ASSUME NEW r \in OfKind(rows', "stable")
         PROVE  /\ r.observed >= RequiredObservations
                /\ r.source.authoritative /\ r.source.review # "none"
                /\ HasCandidate(rows', r.source)
    <3>1. CASE r \in rows
      <4>1. r \in OfKind(rows, "stable")
        BY <2>11, <3>1 DEF OfKind
      <4> QED
        BY <2>6, <4>1
        DEF Inv, PromotionIsBacked, BackedIn, HasCandidate, Observed, Of, OfKind
    <3>2. CASE r \notin rows
      <4>1. r = stab /\ stab \in new
        BY <2>1, <2>2, <2>4, <2>11, <3>2 DEF OfKind
      <4> QED
        BY <2>3, <2>4, <2>9, <4>1 DEF Promoted
    <3> QED
      BY <3>1, <3>2
  <2>12. BackedIn(rows)'
    BY <2>10, <2>11 DEF BackedIn, Backed, Backing, HasCandidate, Known
  <2> QED
    BY <2>5, <2>6, <2>7, <2>8, <2>12 DEF Inv, WorkflowTypeOK
<1> QED
  BY <1>1, <1>2

\* The facts hold at first.
LEMMA InitInv == Init => Inv
  BY FS_EmptySet
  DEF Init, Inv, WorkflowTypeOK, PromotionIsBacked, BackedIn, WaitersAreBacked, OfKind

\* What is committed is backed as long as nothing known is forgotten.
LEMMA CommittedStaysBacked ==
  ASSUME Inv, BackedIn(rows)', lost \subseteq lost', IsFiniteSet(lost'),
         disk' = disk \/ disk' = rows'
  PROVE  PromotionIsBacked'
<1>1. CASE disk' = rows'
  BY <1>1 DEF PromotionIsBacked, BackedIn
<1>2. CASE disk' = disk
  <2>1. Known(disk) \subseteq CandidateSources(disk) \cup lost'
        /\ IsFiniteSet(CandidateSources(disk) \cup lost')
    <3>1. IsFiniteSet(CandidateSources(disk))
      BY FS_Subset, SourcesAreFinite DEF Inv, WorkflowTypeOK
    <3> QED
      BY <3>1, FS_Union DEF Known
  <2>2. ASSUME NEW r \in disk, r.kind # "source"
        PROVE  Backed(CandidateSources(disk) \cup lost', r.source, r.observed)
    <3>1. r.observed \in Nat /\ Backed(Known(disk), r.source, r.observed)
      BY <2>2 DEF Inv, WorkflowTypeOK, PromotionIsBacked, BackedIn, Backed, Backing, Known
    <3> QED
      BY <2>1, <3>1, StaysBacked
  <2>3. BackedIn(disk)'
    BY <1>2, <2>2 DEF Inv, PromotionIsBacked, BackedIn, Backed, Backing
  <2> QED
    BY <2>3 DEF PromotionIsBacked
<1> QED
  BY <1>1, <1>2

\* Nothing known is forgotten: the waiting writes stay backed.
LEMMA WaitersStayBacked ==
  ASSUME Inv, Known(rows) \subseteq Known(rows)', IsFiniteSet(Known(rows)'),
         NEW p \in waiting
  PROVE  /\ p.source.review = "provider"
         /\ p.observed >= RequiredObservations
         /\ Backed(Known(rows)', p.source, p.observed)
BY StaysBacked DEF Inv, WorkflowTypeOK, WaitersAreBacked

\* A commit keeps the invariant, given what it does to the waiting writes.
LEMMA CommitKeepsInv ==
  ASSUME Inv, NEW s \in Sources, NEW n \in Nat, Backed(Known(rows), s, n),
         NEW approved \in BOOLEAN, approved => s.review # "none",
         NEW projected, projected = {} \/ projected = Projection(s, n, approved),
         Commit(s, projected), waiting' \subseteq waiting, UNCHANGED <<lost, foreign>>
  PROVE  Inv'
<1>1. /\ rows \subseteq rows' /\ IsFiniteSet(rows') /\ BackedIn(rows)'
      /\ rows' \subseteq [kind : {"source", "candidate", "stable"}, source : Sources,
                          observed : Nat, at : Nat]
      /\ \A r, q \in rows' : SameNode(r, q) => r = q
  BY CommitKeepsRows
<1>2. (disk' = disk /\ foreign) \/ (disk' = rows' /\ ~foreign)
  BY DEF Commit, Inv, WorkflowTypeOK
<1>3. PromotionIsBacked'
  BY <1>1, <1>2, CommittedStaysBacked DEF Inv
<1>4. Known(rows) \subseteq Known(rows)' /\ IsFiniteSet(Known(rows)')
  <2>1. IsFiniteSet(CandidateSources(rows')) /\ IsFiniteSet(lost')
    BY <1>1, SourcesAreFinite DEF Inv
  <2> QED
    BY <1>1, <2>1, FS_Union DEF Known, CandidateSources, OfKind
<1>5. WaitersAreBacked'
  BY <1>4, WaitersStayBacked DEF WaitersAreBacked
<1>6. WorkflowTypeOK'
  BY <1>1, <1>2 DEF Inv, WorkflowTypeOK
<1> QED
  BY <1>3, <1>5, <1>6 DEF Inv

\* So does a rollback: what was read and is gone is known still.
LEMMA TakenBackKeepsInv ==
  ASSUME Inv, TakenBack, waiting' \subseteq waiting
  PROVE  Inv'
<1>1. /\ rows' = disk /\ disk' = disk /\ foreign' = FALSE
      /\ lost' = lost \cup CandidateSources(rows \ disk)
  BY DEF TakenBack, CandidateSources
<1>2. disk \subseteq rows /\ IsFiniteSet(rows) /\ IsFiniteSet(disk) /\ IsFiniteSet(rows \ disk)
  BY FS_Subset DEF Inv, WorkflowTypeOK
<1>3. IsFiniteSet(lost')
  BY <1>1, <1>2, SourcesAreFinite, FS_Union DEF Inv
<1>4. Known(rows) \subseteq Known(rows)' /\ IsFiniteSet(Known(rows)')
  <2>1. IsFiniteSet(CandidateSources(disk))
    BY <1>2, SourcesAreFinite
  <2>2. IsFiniteSet(CandidateSources(disk) \cup lost')
    BY <1>3, <2>1, FS_Union
  <2> QED
    BY <1>1, <1>2, <2>2 DEF Known, CandidateSources, OfKind
<1>5. WaitersAreBacked'
  BY <1>4, WaitersStayBacked DEF WaitersAreBacked
<1>6. lost' \subseteq Sources
  BY <1>1 DEF Inv, WorkflowTypeOK, CandidateSources, OfKind
<1>7. WorkflowTypeOK'
  BY <1>1, <1>2, <1>6 DEF Inv, WorkflowTypeOK
<1>8. PromotionIsBacked'
  <2>1. Known(disk) \subseteq CandidateSources(disk) \cup lost'
        /\ IsFiniteSet(CandidateSources(disk) \cup lost')
    <3>1. IsFiniteSet(CandidateSources(disk))
      BY <1>2, SourcesAreFinite
    <3> QED
      BY <1>1, <1>3, <3>1, FS_Union DEF Known
  <2>2. ASSUME NEW r \in disk, r.kind # "source"
        PROVE  Backed(CandidateSources(disk) \cup lost', r.source, r.observed)
    <3>1. r.observed \in Nat /\ Backed(Known(disk), r.source, r.observed)
      BY <2>2 DEF Inv, WorkflowTypeOK, PromotionIsBacked, BackedIn, Backed, Backing, Known
    <3> QED
      BY <2>1, <3>1, StaysBacked
  <2>3. BackedIn(disk)' /\ BackedIn(rows)'
    BY <1>1, <2>2 DEF Inv, PromotionIsBacked, BackedIn, Backed, Backing
  <2> QED
    BY <2>3 DEF PromotionIsBacked
<1> QED
  BY <1>3, <1>5, <1>7, <1>8 DEF Inv

LEMMA NextKeepsInv == Inv /\ [Next]_vars => Inv'
<1> SUFFICES ASSUME Inv, [Next]_vars PROVE Inv'
  OBVIOUS
<1>1. ASSUME NEW w \in Writes, NEW s \in Sources, Write(w, s)
      PROVE  Inv'
  <2>0. UNCHANGED <<lost, foreign>>
    BY <1>1 DEF Write
  <2>1. CASE Skipped(s) /\ Commit(s, {}) /\ UNCHANGED waiting
    <3>1. 0 \in Nat /\ Backed(Known(rows), s, 0)
      BY KnownIsFinite, BackingIsFinite DEF Backed
    <3>2. FALSE \in BOOLEAN /\ (FALSE => s.review # "none")
      OBVIOUS
    <3> QED
      BY <2>0, <2>1, <3>1, <3>2, CommitKeepsInv
  <2>2. CASE /\ ~Skipped(s)
             /\ Commit(s, Projection(s, ObservedCount(s), s.review = "approve"))
             /\ UNCHANGED waiting
    <3>1. ObservedCount(s) \in Nat /\ Backed(Known(rows), s, ObservedCount(s))
      BY <2>2, ReadIsBacked
    <3>2. (s.review = "approve") \in BOOLEAN /\ (s.review = "approve" => s.review # "none")
      OBVIOUS
    <3> QED
      BY <2>0, <2>2, <3>1, <3>2, CommitKeepsInv
  <2>3. CASE /\ ~Skipped(s) /\ AsksProvider(s) /\ UNCHANGED <<rows, disk>>
             /\ waiting' = waiting \cup
                  {[write |-> w, source |-> s, observed |-> ObservedCount(s)]}
    <3>1. ObservedCount(s) \in Nat /\ Backed(Known(rows), s, ObservedCount(s))
      BY <2>3, ReadIsBacked
    <3>2. WorkflowTypeOK' /\ PromotionIsBacked' /\ IsFiniteSet(lost)'
      <4>1. UNCHANGED <<rows, disk, lost, foreign>>
        BY <2>0, <2>3
      <4>2. waiting' \subseteq [write : Writes, source : Sources, observed : Nat]
        BY <2>3, <3>1 DEF Inv, WorkflowTypeOK
      <4>3. WorkflowTypeOK'
        BY <4>1, <4>2 DEF Inv, WorkflowTypeOK, SameNode
      <4>4. BackedIn(rows)' /\ BackedIn(disk)'
        BY <4>1 DEF Inv, PromotionIsBacked, BackedIn
      <4> QED
        BY <4>1, <4>3, <4>4 DEF Inv, PromotionIsBacked
    <3>3. WaitersAreBacked'
      <4>1. \A p \in waiting' : \/ p \in waiting
                                \/ /\ p.source = s /\ p.observed = ObservedCount(s)
        BY <2>3
      <4>2. s.review = "provider" /\ ObservedCount(s) >= RequiredObservations
        BY <2>3 DEF AsksProvider
      <4>3. Known(rows)' = Known(rows)
        BY <2>0, <2>3 DEF Known
      <4> QED
        BY <3>1, <4>1, <4>2, <4>3 DEF Inv, WaitersAreBacked
    <3> QED
      BY <3>2, <3>3 DEF Inv
  <2> QED
    BY <1>1, <2>1, <2>2, <2>3 DEF Write
<1>2. ASSUME NEW p \in waiting, NEW approved \in BOOLEAN, ProviderAnswers(p, approved)
      PROVE  Inv'
  <2>1. /\ p.source \in Sources /\ p.observed \in Nat
        /\ Backed(Known(rows), p.source, p.observed) /\ p.source.review # "none"
    BY DEF Inv, WorkflowTypeOK, WaitersAreBacked
  <2>2. /\ Commit(p.source, Projection(p.source, p.observed, approved))
        /\ waiting' \subseteq waiting /\ UNCHANGED <<lost, foreign>>
    BY <1>2 DEF ProviderAnswers
  <2> QED
    BY <2>1, <2>2, CommitKeepsInv
<1>3. CASE Crash \/ ReviewRollsBack
  BY <1>3, TakenBackKeepsInv DEF Crash, ReviewRollsBack
<1>4. CASE ReviewOpens \/ UNCHANGED vars
  BY <1>4 DEF ReviewOpens, vars, Inv, WorkflowTypeOK, PromotionIsBacked, BackedIn,
              WaitersAreBacked, Known
<1>5. CASE ReviewCommits
  <2>1. disk' = rows /\ UNCHANGED <<rows, lost, waiting>> /\ foreign' = FALSE
    BY <1>5 DEF ReviewCommits
  <2>2. BackedIn(rows)' /\ BackedIn(disk)'
    BY <2>1 DEF Inv, PromotionIsBacked, BackedIn
  <2> QED
    BY <2>1, <2>2 DEF Inv, WorkflowTypeOK, PromotionIsBacked, WaitersAreBacked, Known
<1> QED
  BY <1>1, <1>2, <1>3, <1>4, <1>5 DEF Next

\* Rows are well formed and no id is stored twice: INSERT OR IGNORE keeps the
\* primary key whatever concurrent writes commit.
THEOREM RowsAreUnique == Spec => []WorkflowTypeOK
<1>1. Inv => WorkflowTypeOK
  BY DEF Inv
<1> QED
  BY <1>1, InitInv, NextKeepsInv, PTL DEF Spec

\* A stable workflow, and every count of observations, is backed by candidates
\* that the writer may see and that are stored, or that a rollback or a crash
\* took back since; in what is read and in what is committed.
THEOREM PromotionBacked == Spec => []PromotionIsBacked
<1>1. Inv => PromotionIsBacked
  BY DEF Inv
<1> QED
  BY <1>1, InitInv, NextKeepsInv, PTL DEF Spec

----------------------------------------------------------------------------
\* What a writer may see fits the window it reads candidates from.
FitIn(S) == \A s \in Sources : Cardinality(Visible(S, s.agent)) <= CandidateWindow
CandidatesFit == FitIn(rows)

\* Creation times are of the past.
PastIn(S) == \A r \in S : r.at <= 3 * Cardinality(S)

CountedIn(S) ==
  \A r, q \in OfKind(S, "candidate") :
    /\ q \in OwnOrShared(S, r.source.agent)
    /\ q.source.signature = r.source.signature
    /\ q.at < r.at
    => r.observed >= RequiredObservations

RecurrenceIn(S) == PastIn(S) /\ (FitIn(S) => CountedIn(S))

\* What is committed keeps it by itself: a rollback may let the rows fit again.
RecurrenceInv == RecurrenceIn(rows) /\ RecurrenceIn(disk)

\* As long as they fit, a candidate that s may see is among those it counts.
LEMMA FittingCandidatesAreRead ==
  ASSUME WorkflowTypeOK, CandidatesFit, NEW s \in Sources,
         NEW q \in OfKind(rows, "candidate"), q \in OwnOrShared(rows, s.agent),
         q.source.signature = s.signature
  PROVE  ObservedCount(s) >= RequiredObservations
<1> DEFINE V == Visible(rows, s.agent)
           later == {p \in V : p.at > q.at}
<1>1. q \in V /\ q \notin later
  BY WorkflowConstants DEF WorkflowTypeOK, OfKind, OwnOrShared, Visible
<1>2. IsFiniteSet(V) /\ Cardinality(V) \in Nat /\ Cardinality(V) <= CandidateWindow
  BY FS_Subset, FS_CardinalityType DEF WorkflowTypeOK, CandidatesFit, FitIn, Visible
<1>3. IsFiniteSet(later) /\ Cardinality(later) \in Nat
      /\ Cardinality(later \cup {q}) = Cardinality(later) + 1
  BY <1>1, <1>2, FS_Subset, FS_CardinalityType, FS_AddElement
<1>4. Cardinality(later \cup {q}) <= Cardinality(V)
  BY <1>1, <1>2, FS_Subset
<1>5. q \in Newest(V, CandidateWindow)
  BY <1>1, <1>2, <1>3, <1>4, WorkflowConstants DEF Newest
<1>6. q.source.observation \in Observed(Candidates(s))
  BY <1>5 DEF Observed, Candidates, Of, OfKind
<1>7. IsFiniteSet(Observed(Candidates(s)))
  BY FS_Subset, ObservedIsFinite DEF WorkflowTypeOK, Candidates, Of, OfKind, Newest, Visible
<1>8. Cardinality(Observed(Candidates(s))) \in Nat \ {0}
  BY <1>6, <1>7, FS_CardinalityType, FS_EmptySet
<1> QED
  BY <1>8 DEF ObservedCount, RequiredObservations

\* A commit is later than all rows there are; its count is a recurrence already,
\* or was read in the same step and so includes what it may see of them.
LEMMA CommitKeepsRecurrence ==
  ASSUME WorkflowTypeOK, RecurrenceIn(rows), rows \subseteq rows', IsFiniteSet(rows'),
         NEW s \in Sources, NEW n \in Nat, NEW approved \in BOOLEAN,
         NEW projected, projected = {} \/ projected = Projection(s, n, approved),
         projected = {} \/ n = ObservedCount(s) \/ n >= RequiredObservations,
         Commit(s, projected)
  PROVE  RecurrenceIn(rows')
<1> DEFINE c == Cardinality(rows)
           cand == Row("candidate", s, n, 2)
<1>1. c \in Nat /\ Cardinality(rows') \in Nat /\ c <= Cardinality(rows')
  BY FS_CardinalityType, FS_Subset
<1>2. \A r \in rows : r.at \in Nat /\ r.at <= 3 * c
  BY DEF RecurrenceIn, PastIn, WorkflowTypeOK
<1>3. \A r \in rows' \ rows : r.at \in Nat /\ r.at > 3 * c /\ r.at <= 3 * c + 3
  BY <1>1 DEF Commit, Inserted, Projection, Row
<1>4. PastIn(rows')
  <2>1. CASE rows' = rows
    BY <1>1, <1>2, <2>1 DEF PastIn
  <2>2. CASE rows' # rows
    <3>1. c < Cardinality(rows')
      BY <1>1, <2>2, FS_Subset
    <3> QED
      BY <1>1, <1>2, <1>3, <3>1 DEF PastIn
  <2> QED
    BY <2>1, <2>2
<1>5. ASSUME FitIn(rows') PROVE FitIn(rows)
  <2>1. ASSUME NEW t \in Sources
        PROVE  Cardinality(Visible(rows, t.agent)) <= CandidateWindow
    <3>1. Visible(rows, t.agent) \subseteq Visible(rows', t.agent)
          /\ Visible(rows', t.agent) \subseteq rows'
      BY DEF Visible
    <3>2. IsFiniteSet(Visible(rows', t.agent))
      BY <3>1, FS_Subset
    <3>3. /\ Cardinality(Visible(rows, t.agent)) \in Nat
          /\ Cardinality(Visible(rows', t.agent)) \in Nat
          /\ Cardinality(Visible(rows, t.agent)) <= Cardinality(Visible(rows', t.agent))
      BY <3>1, <3>2, FS_Subset, FS_CardinalityType
    <3> QED
      BY <1>5, <3>3, WorkflowConstants DEF FitIn
  <2> QED
    BY <2>1 DEF FitIn
<1>6. ASSUME FitIn(rows'),
             NEW r \in OfKind(rows', "candidate"), NEW q \in OfKind(rows', "candidate"),
             q \in OwnOrShared(rows', r.source.agent),
             q.source.signature = r.source.signature, q.at < r.at
      PROVE  r.observed >= RequiredObservations
  <2>1. CASE r \in rows
    <3>1. q \in rows
      BY <1>1, <1>2, <1>3, <1>6, <2>1 DEF OfKind
    <3> QED
      BY <1>5, <1>6, <2>1, <3>1 DEF RecurrenceIn, CountedIn, OfKind, OwnOrShared
  <2>2. CASE r \notin rows
    <3>1. r = cand /\ projected # {}
      BY <1>6, <2>2 DEF Commit, Inserted, Projection, Row, OfKind
    <3>2. r.source = s /\ r.observed = n
      BY <3>1 DEF Row
    <3>3. q \in rows
      <4>1. q \in rows \/ q = cand
        BY <1>6 DEF Commit, Inserted, Projection, Row, OfKind
      <4> QED
        BY <1>6, <3>1, <4>1, <1>1 DEF Row
    <3>4. CASE n = ObservedCount(s)
      BY <1>5, <1>6, <3>2, <3>3, <3>4, FittingCandidatesAreRead
      DEF CandidatesFit, OfKind, OwnOrShared
    <3> QED
      BY <3>1, <3>2, <3>4
  <2> QED
    BY <2>1, <2>2
<1>7. FitIn(rows') => CountedIn(rows')
  BY <1>6 DEF CountedIn
<1> QED
  BY <1>4, <1>7 DEF RecurrenceIn

\* An answered review commits a count that was a recurrence when it was read.
LEMMA NextKeepsRecurrence == Inv /\ Inv' /\ RecurrenceInv /\ [Next]_vars => RecurrenceInv'
<1> SUFFICES ASSUME Inv, Inv', RecurrenceInv, [Next]_vars PROVE RecurrenceInv'
  OBVIOUS
<1>0. WorkflowTypeOK /\ IsFiniteSet(rows') /\ RecurrenceIn(rows) /\ RecurrenceIn(disk)
  BY DEF Inv, WorkflowTypeOK, RecurrenceInv
<1>1. SUFFICES RecurrenceIn(rows') /\ RecurrenceIn(disk')
  BY DEF RecurrenceInv, RecurrenceIn, PastIn, FitIn, CountedIn, Visible, OfKind, OwnOrShared
<1>2. ASSUME NEW s, NEW projected, Commit(s, projected)
      PROVE  rows \subseteq rows' /\ (disk' = disk \/ disk' = rows')
  BY <1>2 DEF Commit, Inserted
<1>3. ASSUME NEW w \in Writes, NEW s \in Sources, Write(w, s)
      PROVE  RecurrenceIn(rows') /\ RecurrenceIn(disk')
  <2>1. CASE Commit(s, {})
    BY <1>0, <1>2, <2>1, CommitKeepsRecurrence
  <2>2. CASE ~Skipped(s) /\ Commit(s, Projection(s, ObservedCount(s), s.review = "approve"))
    <3>1. ObservedCount(s) \in Nat /\ (s.review = "approve") \in BOOLEAN
      BY <1>0, <2>2, ReadIsBacked
    <3> QED
      BY <1>0, <1>2, <2>2, <3>1, CommitKeepsRecurrence
  <2> QED
    BY <1>0, <1>3, <2>1, <2>2 DEF Write
<1>4. ASSUME NEW p \in waiting, NEW approved \in BOOLEAN, ProviderAnswers(p, approved)
      PROVE  RecurrenceIn(rows') /\ RecurrenceIn(disk')
  <2>1. p.source \in Sources /\ p.observed \in Nat /\ p.observed >= RequiredObservations
    BY DEF Inv, WorkflowTypeOK, WaitersAreBacked
  <2> QED
    BY <1>0, <1>2, <1>4, <2>1, CommitKeepsRecurrence DEF ProviderAnswers
<1>5. CASE rows' \in {rows, disk} /\ disk' \in {rows, disk}
  BY <1>0, <1>5
<1>6. ASSUME ReviewOpens \/ ReviewCommits \/ ReviewRollsBack \/ Crash \/ UNCHANGED vars
      PROVE  rows' \in {rows, disk} /\ disk' \in {rows, disk}
  BY <1>6 DEF ReviewOpens, ReviewCommits, ReviewRollsBack, TakenBack, Crash, vars
<1> QED
  BY <1>3, <1>4, <1>5, <1>6 DEF Next

\* Of two observations the second is counted as a recurrence, for any sources,
\* reviews, rollbacks and crashes, while what writers may see fits the window of newest
\* rows that projectWorkflowCandidatesFromPreparedWrite reads candidates from.
THEOREM RecurrencesAreCounted == Spec => [](CandidatesFit => RecurrenceIsCounted)
<1>1. Init => RecurrenceInv
  BY DEF Init, RecurrenceInv, RecurrenceIn, PastIn, CountedIn, OfKind
<1>2. RecurrenceInv => (CandidatesFit => RecurrenceIsCounted)
  BY DEF RecurrenceInv, RecurrenceIn, CandidatesFit, CountedIn, RecurrenceIsCounted
<1> QED
  BY <1>1, <1>2, InitInv, NextKeepsInv, NextKeepsRecurrence, PTL DEF Spec

----------------------------------------------------------------------------
\* A step of the life cycle as far as rows are concerned, or none.
LifecycleStep ==
  \/ SeenIn(rows') = SeenIn(rows) /\ StableIn(rows') = StableIn(rows) /\ EverSeen' = EverSeen
  \/ \E g \in Signatures, o \in Observations :
       /\ SeenIn(rows') = [SeenIn(rows) EXCEPT ![g] = @ \cup {o}]
       /\ EverSeen' = [EverSeen EXCEPT ![g] = @ \cup {o}]
       /\ \/ StableIn(rows') = StableIn(rows)
          \/ /\ \E q \in EverSeen[g] : q # o
             /\ g \notin StableIn(rows)
             /\ StableIn(rows') = StableIn(rows) \cup {g}

\* What was ever seen is what is seen and what was taken back.
LEMMA EverSeenIs ==
  EverSeen = [g \in Signatures |->
                SeenIn(rows)[g] \cup {q.observation : q \in {p \in lost : p.signature = g}}]
<1>1. ASSUME NEW g \in Signatures
      PROVE  SeenIn(rows)[g] = {q.observation : q \in {p \in CandidateSources(rows) : p.signature = g}}
  BY <1>1 DEF SeenIn, CandidateSources, Observed, Of, OfKind
<1>2. ASSUME NEW g \in Signatures
      PROVE  EverSeen[g] = SeenIn(rows)[g] \cup {q.observation : q \in {p \in lost : p.signature = g}}
  BY <1>1 DEF EverSeen
<1> QED
  BY <1>2 DEF EverSeen

LEMMA EverSeenIsNext ==
  EverSeen' = [g \in Signatures |->
                SeenIn(rows')[g] \cup {q.observation : q \in {p \in lost' : p.signature = g}}]
<1>1. ASSUME NEW g \in Signatures
      PROVE  SeenIn(rows')[g] = {q.observation : q \in {p \in CandidateSources(rows') : p.signature = g}}
  BY <1>1 DEF SeenIn, CandidateSources, Observed, Of, OfKind
<1>2. ASSUME NEW g \in Signatures
      PROVE  EverSeen'[g] = SeenIn(rows')[g] \cup {q.observation : q \in {p \in lost' : p.signature = g}}
  BY <1>1 DEF EverSeen
<1> QED
  BY <1>2 DEF EverSeen

\* A commit observes the source's signature, and may promote it.
LEMMA CommitIsALifecycleStep ==
  ASSUME Inv, NEW s \in Sources, NEW n \in Nat, Backed(Known(rows), s, n),
         NEW approved \in BOOLEAN,
         NEW projected, projected = {} \/ projected = Projection(s, n, approved),
         Commit(s, projected), UNCHANGED lost
  PROVE  LifecycleStep
<1> DEFINE src == Row("source", s, 0, 1)
           cand == Row("candidate", s, n, 2)
           stab == Row("stable", s, n, 3)
           g == s.signature
           o == s.observation
<1>0. ASSUME SeenIn(rows') = SeenIn(rows) PROVE EverSeen' = EverSeen
  BY <1>0, EverSeenIs, EverSeenIsNext
<1>1. CASE Conflicts(s)
  BY <1>0, <1>1 DEF Commit, LifecycleStep
<1>2. CASE ~Conflicts(s) /\ projected = {}
  <2>1. rows \subseteq rows' /\ rows' \subseteq rows \cup {src}
    BY <1>2 DEF Commit, Inserted
  <2>2. src.kind = "source"
    BY DEF Row
  <2>3. OfKind(rows', "candidate") = OfKind(rows, "candidate")
    BY <2>1, <2>2 DEF OfKind
  <2>4. OfKind(rows', "stable") = OfKind(rows, "stable")
    BY <2>1, <2>2 DEF OfKind
  <2> QED
    BY <1>0, <2>3, <2>4 DEF LifecycleStep, SeenIn, StableIn
<1>3. CASE ~Conflicts(s) /\ projected = Projection(s, n, approved)
  <2>1. rows' = rows \cup {r \in {src} \cup projected : \A q \in rows : ~SameNode(r, q)}
    BY <1>3 DEF Commit, Inserted
  <2>2. cand \in projected /\ projected \subseteq {cand, stab}
    BY <1>3 DEF Projection
  <2>3. stab \in projected => Promoted(s, n, approved)
    BY <1>3 DEF Projection, Row
  <2>4. /\ src.kind = "source" /\ cand.kind = "candidate" /\ stab.kind = "stable"
        /\ src.source = s /\ cand.source = s /\ stab.source = s
    BY DEF Row
  <2> HIDE DEF src, cand, stab
  <2>5. ASSUME NEW h \in Signatures
        PROVE  Observed(Of(OfKind(rows', "candidate"), h))
                 = IF h = g THEN Observed(Of(OfKind(rows, "candidate"), h)) \cup {o}
                   ELSE Observed(Of(OfKind(rows, "candidate"), h))
    <3> DEFINE K(R) == Of(OfKind(R, "candidate"), h)
    <3>1. CASE \A q \in rows : ~SameNode(cand, q)
      <4>1. OfKind(rows', "candidate") = OfKind(rows, "candidate") \cup {cand}
        BY <2>1, <2>2, <2>4, <3>1 DEF OfKind
      <4>2. K(rows') = IF h = g THEN K(rows) \cup {cand} ELSE K(rows)
        BY <2>4, <4>1 DEF Of
      <4> QED
        BY <2>4, <4>2 DEF Observed
    <3>2. CASE \E q \in rows : SameNode(cand, q)
      <4>1. OfKind(rows', "candidate") = OfKind(rows, "candidate")
        BY <2>1, <2>2, <2>4, <3>2 DEF OfKind
      <4>2. o \in Observed(Of(OfKind(rows, "candidate"), g))
        BY <2>4, <3>2 DEF SameNode, Observed, Of, OfKind
      <4> QED
        BY <4>1, <4>2
    <3> QED
      BY <3>1, <3>2
  <2>6. g \in Signatures /\ o \in Observations
    BY DEF Signatures, Observations
  <2>7. SeenIn(rows') = [SeenIn(rows) EXCEPT ![g] = @ \cup {o}]
    BY <2>5, <2>6 DEF SeenIn
  <2>10. EverSeen' = [EverSeen EXCEPT ![g] = @ \cup {o}]
    <3> DEFINE L(h) == {q.observation : q \in {p \in lost : p.signature = h}}
    <3>1. EverSeen = [h \in Signatures |-> SeenIn(rows)[h] \cup L(h)]
          /\ EverSeen' = [h \in Signatures |-> SeenIn(rows')[h] \cup L(h)]
      BY EverSeenIs, EverSeenIsNext
    <3>2. SeenIn(rows) = [h \in Signatures |-> SeenIn(rows)[h]]
      BY DEF SeenIn
    <3> HIDE DEF L, g, o
    <3>3. \A h \in Signatures : SeenIn(rows')[h] = IF h = g THEN SeenIn(rows)[g] \cup {o}
                                                  ELSE SeenIn(rows)[h]
      BY <2>7, <3>2
    <3> QED
      BY <2>6, <3>1, <3>3
  <2>8. CASE stab \in projected /\ \A q \in rows : ~SameNode(stab, q)
    <3>1. OfKind(rows', "stable") = OfKind(rows, "stable") \cup {stab}
      BY <2>1, <2>2, <2>4, <2>8 DEF OfKind
    <3>2. StableIn(rows') = StableIn(rows) \cup {g}
      BY <2>4, <3>1 DEF StableIn
    <3>3. g \notin StableIn(rows)
      BY <2>4, <2>8 DEF StableIn, OfKind, SameNode
    <3>4. \E q \in EverSeen[g] : q # o
      BY <2>3, <2>8, RecurrenceHasAnother DEF Promoted
    <3> QED
      BY <2>6, <2>7, <2>10, <3>2, <3>3, <3>4 DEF LifecycleStep
  <2>9. CASE ~(stab \in projected /\ \A q \in rows : ~SameNode(stab, q))
    <3>1. OfKind(rows', "stable") = OfKind(rows, "stable")
      BY <2>1, <2>2, <2>4, <2>9 DEF OfKind
    <3> QED
      BY <2>6, <2>7, <2>10, <3>1 DEF LifecycleStep, StableIn
  <2> QED
    BY <2>8, <2>9
<1> QED
  BY <1>1, <1>2, <1>3

\* Every step of the projection is one of the life cycle, or none.
LEMMA NextIsALifecycleStep ==
  ASSUME Inv, [Next]_vars
  PROVE  \/ TakenBack
         \/ LifecycleStep /\ (disk' = disk \/ disk' = rows')
<1> DEFINE Goal == LifecycleStep /\ (disk' = disk \/ disk' = rows')
<1>0. ASSUME NEW s, NEW projected, Commit(s, projected) PROVE disk' = disk \/ disk' = rows'
  BY <1>0 DEF Commit
<1>1. ASSUME NEW w \in Writes, NEW s \in Sources, Write(w, s)
      PROVE  Goal
  <2>0. UNCHANGED lost
    BY <1>1 DEF Write
  <2>1. CASE Commit(s, {})
    <3>1. 0 \in Nat /\ Backed(Known(rows), s, 0)
      BY KnownIsFinite, BackingIsFinite DEF Backed
    <3> QED
      BY <1>0, <2>0, <2>1, <3>1, CommitIsALifecycleStep
  <2>2. CASE ~Skipped(s) /\ Commit(s, Projection(s, ObservedCount(s), s.review = "approve"))
    <3>1. ObservedCount(s) \in Nat /\ Backed(Known(rows), s, ObservedCount(s))
      BY <2>2, ReadIsBacked
    <3>2. (s.review = "approve") \in BOOLEAN
      OBVIOUS
    <3> QED
      BY <1>0, <2>0, <2>2, <3>1, <3>2, CommitIsALifecycleStep
  <2>3. CASE UNCHANGED <<rows, disk>>
    BY <2>0, <2>3 DEF LifecycleStep, EverSeen
  <2> QED
    BY <1>1, <2>1, <2>2, <2>3 DEF Write
<1>2. ASSUME NEW p \in waiting, NEW approved \in BOOLEAN, ProviderAnswers(p, approved)
      PROVE  Goal
  <2>1. p.source \in Sources /\ p.observed \in Nat /\ Backed(Known(rows), p.source, p.observed)
    BY DEF Inv, WorkflowTypeOK, WaitersAreBacked
  <2> QED
    BY <1>0, <1>2, <2>1, CommitIsALifecycleStep DEF ProviderAnswers
<1>3. CASE ReviewOpens \/ ReviewCommits \/ UNCHANGED vars
  BY <1>3 DEF ReviewOpens, ReviewCommits, vars, LifecycleStep, EverSeen
<1>4. CASE Crash \/ ReviewRollsBack
  BY <1>4 DEF Crash, ReviewRollsBack
<1> QED
  BY <1>1, <1>2, <1>3, <1>4 DEF Next

\* A rollback forgets no observation.
LEMMA TakenBackIsEverSeen ==
  ASSUME Inv, TakenBack
  PROVE  EverSeen' = EverSeen
<1>1. CandidateSources(rows') \cup lost' = CandidateSources(rows) \cup lost
  BY DEF TakenBack, CandidateSources, OfKind, Inv, WorkflowTypeOK
<1> QED
  BY <1>1 DEF EverSeen

\* The projection implements the life cycle: a signature becomes stable by an
\* observation that another one preceded, and what is committed is for good,
\* under every interleaving of reads, reviews, commits and rollbacks.
THEOREM ProjectionImplementsLifecycle == Spec => ImplementsLifecycle
<1>1. Init => Lifecycle!LifecycleInit
  BY DEF Init, Lifecycle!LifecycleInit, SeenIn, StableIn, EverSeen, CandidateSources,
         Observed, Of, OfKind
<1>2. Inv /\ [Next]_vars =>
        [Lifecycle!LifecycleNext]_<<SeenIn(rows), StableIn(rows), Lifecycle!kept, EverSeen>>
  <2> SUFFICES ASSUME Inv, [Next]_vars
               PROVE  [Lifecycle!LifecycleNext]_<<SeenIn(rows), StableIn(rows), Lifecycle!kept, EverSeen>>
    OBVIOUS
  <2>1. CASE TakenBack
    <3>1. /\ SeenIn(rows)' = SeenIn(disk) /\ StableIn(rows)' = StableIn(disk)
          /\ SeenIn(disk)' = SeenIn(disk) /\ StableIn(disk)' = StableIn(disk)
          /\ EverSeen' = EverSeen
      BY <2>1, TakenBackIsEverSeen DEF TakenBack, SeenIn, StableIn
    <3> QED
      BY <3>1 DEF Lifecycle!LifecycleNext, Lifecycle!TakeBack, Lifecycle!kept
  <2>2. ASSUME LifecycleStep, disk' = disk \/ disk' = rows'
        PROVE  [Lifecycle!LifecycleNext]_<<SeenIn(rows), StableIn(rows), Lifecycle!kept, EverSeen>>
    <3>1. SeenIn(rows)' = SeenIn(rows') /\ StableIn(rows)' = StableIn(rows')
      BY DEF SeenIn, StableIn
    <3>2. Lifecycle!Keep
      BY <2>2 DEF Lifecycle!Keep, Lifecycle!kept, SeenIn, StableIn
    <3>3. CASE /\ SeenIn(rows') = SeenIn(rows) /\ StableIn(rows') = StableIn(rows)
               /\ EverSeen' = EverSeen
      BY <3>1, <3>2, <3>3
      DEF Lifecycle!LifecycleNext, Lifecycle!Settle, Lifecycle!Keep, Lifecycle!kept
    <3>4. ASSUME NEW g \in Signatures, NEW o \in Observations,
                 SeenIn(rows') = [SeenIn(rows) EXCEPT ![g] = @ \cup {o}],
                 EverSeen' = [EverSeen EXCEPT ![g] = @ \cup {o}],
                 \/ StableIn(rows') = StableIn(rows)
                 \/ /\ \E q \in EverSeen[g] : q # o
                    /\ g \notin StableIn(rows)
                    /\ StableIn(rows') = StableIn(rows) \cup {g}
          PROVE  Lifecycle!LifecycleNext
      <4>1. Lifecycle!Observe(g, o) \/ Lifecycle!Promote(g, o)
        BY <3>1, <3>2, <3>4 DEF Lifecycle!Observe, Lifecycle!Promote
      <4> QED
        BY <4>1 DEF Lifecycle!LifecycleNext
    <3> QED
      BY <2>2, <3>3, <3>4 DEF LifecycleStep
  <2> QED
    BY <2>1, <2>2, NextIsALifecycleStep
<1> QED
  BY <1>1, <1>2, InitInv, NextKeepsInv, PTL
  DEF Spec, ImplementsLifecycle, Lifecycle!LifecycleSpec
=============================================================================
