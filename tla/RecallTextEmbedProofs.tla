------------------------ MODULE RecallTextEmbedProofs ------------------------
(***************************************************************************)
(* For every set of requests, texts and limits: whatever duplicates a      *)
(* batch holds and however much of the provider's answer is usable, each   *)
(* request gets the vector of its own text; one flight per text is         *)
(* pending; and the cache stays within its bound.                          *)
(***************************************************************************)
EXTENDS RecallTextEmbed, FiniteSetTheorems, SequenceTheorems, WellFoundedInduction, TLAPS

(***************************************************************************)
(* Naturals and folds.                                                     *)
(***************************************************************************)

LEMMA LeastNatural ==
  ASSUME NEW T \in SUBSET Nat, T # {}
  PROVE  \E x \in T : \A y \in T : x <= y
<1>1. IsWellFoundedOn(OpToRel(<, Nat), Nat)
  BY NatLessThanWellFounded
<1>2. PICK x \in T : \A y \in T : ~(<<y, x>> \in OpToRel(<, Nat))
  BY <1>1, WFMin
<1>3. \A y \in T : ~(y < x)
  BY <1>2 DEF OpToRel
<1> QED
  BY <1>3

\* A set of naturals that holds zero and the successors of what it holds.
LEMMA AllNaturals ==
  ASSUME NEW T, 0 \in T, \A n \in Nat : n \in T => n + 1 \in T
  PROVE  \A n \in Nat : n \in T
<1> SUFFICES ASSUME NEW n \in Nat, n \notin T PROVE FALSE
  OBVIOUS
<1> DEFINE U == Nat \ T
<1>1. PICK x \in U : \A y \in U : x <= y
  <2>1. U \in SUBSET Nat /\ U # {}
    OBVIOUS
  <2> HIDE DEF U
  <2> QED
    BY <2>1, LeastNatural
<1>2. x \in Nat /\ x # 0 /\ x - 1 \in Nat
  OBVIOUS
<1>3. x - 1 \in T
  BY <1>1, <1>2
<1>4. x - 1 + 1 = x
  BY <1>2
<1> QED
  BY <1>1, <1>2, <1>3, <1>4

LEMMA MaxOfInterval ==
  ASSUME NEW k \in Nat, NEW s \in SUBSET (1..k), s # {}
  PROVE  Max(s) \in s /\ \A y \in s : Max(s) >= y
<1> DEFINE U == {m \in Nat : \A y \in s : m >= y}
<1>1. U \in SUBSET Nat /\ k \in U
  OBVIOUS
<1>2. PICK m \in U : \A y \in U : m <= y
  <2> HIDE DEF U
  <2> QED
    BY <1>1, LeastNatural
<1>3. m \in s
  <2> SUFFICES ASSUME m \notin s PROVE FALSE
    OBVIOUS
  <2>1. \A y \in s : m > y /\ y \in Nat /\ y >= 1
    BY <1>2
  <2>2. m \in Nat /\ m # 0
    <3>1. PICK y \in s : TRUE
      OBVIOUS
    <3> QED
      BY <1>2, <2>1, <3>1
  <2>3. m - 1 \in U
    BY <2>1, <2>2
  <2> QED
    BY <1>2, <2>2, <2>3
<1>4. m \in s /\ \A y \in s : m >= y
  BY <1>2, <1>3
<1> QED
  BY <1>4 DEF Max

Folds(f, k, b, G) ==
  \A s \in SUBSET (1..k) : f[s] = IF s = {} THEN b ELSE G[<<Max(s), f[s \ {Max(s)}]>>]

\* A function on the subsets of 1..k can be given by what it makes of the
\* largest element and of the rest.
LEMMA FoldExists ==
  ASSUME NEW V, NEW b \in V, NEW G \in [Nat \X V -> V]
  PROVE  \A k \in Nat : \E f \in [SUBSET (1..k) -> V] : Folds(f, k, b, G)
<1> DEFINE T == {k \in Nat : \E f \in [SUBSET (1..k) -> V] : Folds(f, k, b, G)}
<1>1. 0 \in T
  <2> DEFINE f == [s \in SUBSET (1..0) |-> b]
  <2>1. f \in [SUBSET (1..0) -> V] /\ \A s \in SUBSET (1..0) : s = {}
    OBVIOUS
  <2>2. Folds(f, 0, b, G)
    BY <2>1 DEF Folds
  <2> QED
    BY <2>1, <2>2
<1>2. ASSUME NEW k \in Nat, k \in T PROVE k + 1 \in T
  <2>1. PICK h \in [SUBSET (1..k) -> V] : Folds(h, k, b, G)
    BY <1>2
  <2> DEFINE new == k + 1
             f == [s \in SUBSET (1..new) |-> IF new \in s THEN G[<<new, h[s \ {new}]>>] ELSE h[s]]
  <2>2. \A s \in SUBSET (1..new) : /\ s \ {new} \in SUBSET (1..k)
                                   /\ new \notin s => s \in SUBSET (1..k)
    OBVIOUS
  <2> HIDE DEF new
  <2>3. f \in [SUBSET (1..new) -> V]
    <3>1. new \in Nat
      BY DEF new
    <3>2. ASSUME NEW s \in SUBSET (1..new)
          PROVE  (IF new \in s THEN G[<<new, h[s \ {new}]>>] ELSE h[s]) \in V
      BY <2>2, <3>1
    <3> QED
      BY <3>2
  <2>4. ASSUME NEW s \in SUBSET (1..new)
        PROVE  f[s] = IF s = {} THEN b ELSE G[<<Max(s), f[s \ {Max(s)}]>>]
    <3>1. CASE new \in s
      <4>1. Max(s) = new
        <5>1. Max(s) \in s /\ \A y \in s : Max(s) >= y
          <6>1. new \in Nat /\ s # {}
            BY <3>1 DEF new
          <6> QED
            BY <6>1, MaxOfInterval
        <5>2. new = k + 1 /\ new \in Nat
          BY DEF new
        <5>3. Max(s) \in 1..new
          BY <2>4, <5>1
        <5> QED
          BY <3>1, <5>1, <5>2, <5>3
      <4>2. s \ {new} \in SUBSET (1..new) /\ new \notin s \ {new}
        OBVIOUS
      <4>3. f[s \ {new}] = h[s \ {new}]
        BY <4>2
      <4> QED
        BY <3>1, <4>1, <4>3
    <3>2. CASE new \notin s
      <4>1. s \in SUBSET (1..k) /\ f[s] = h[s]
        BY <2>2, <3>2
      <4>2. h[s] = IF s = {} THEN b ELSE G[<<Max(s), h[s \ {Max(s)}]>>]
        BY <2>1, <4>1 DEF Folds
      <4>3. s \ {Max(s)} \in SUBSET (1..new) /\ new \notin s \ {Max(s)}
        BY <3>2
      <4>4. f[s \ {Max(s)}] = h[s \ {Max(s)}]
        BY <4>3
      <4> QED
        BY <4>1, <4>2, <4>4
    <3> QED
      BY <3>1, <3>2
  <2> HIDE DEF f
  <2>5. Folds(f, new, b, G)
    BY <2>4 DEF Folds
  <2>6. new \in T
    <3> HIDE DEF new
    <3>1. new \in Nat
      BY DEF new
    <3> QED
      BY <2>3, <2>5, <3>1
  <2> QED
    BY <2>6 DEF new
<1> HIDE DEF T
<1>3. \A k \in Nat : k \in T
  BY <1>1, <1>2, AllNaturals
<1> QED
  BY <1>3 DEF T

\* Append adds its entry and loses none.
LEMMA AppendContains ==
  ASSUME NEW S, NEW acc \in Seq(S), NEW t \in S
  PROVE  /\ Append(acc, t) \in Seq(S) /\ Contains(Append(acc, t), t)
         /\ \A u : Contains(acc, u) => Contains(Append(acc, t), u)
<1> DEFINE a == Append(acc, t)
<1>1. a \in Seq(S) /\ Len(a) = Len(acc) + 1 /\ Len(acc) \in Nat
  OBVIOUS
<1>2. a[Len(acc) + 1] = t /\ \A m \in 1..Len(acc) : a[m] = acc[m]
  OBVIOUS
<1> HIDE DEF a
<1>3. Len(acc) + 1 \in 1..Len(a) /\ \A m \in 1..Len(acc) : m \in 1..Len(a)
  BY <1>1
<1>4. Contains(a, t) /\ \A u : Contains(acc, u) => Contains(a, u)
  BY <1>2, <1>3 DEF Contains
<1> QED
  BY <1>1, <1>4 DEF a

\* The texts of a batch are a sequence that holds the text of every item.
LEMMA TextsHoldAll ==
  ASSUME NEW items \in Seq(Items)
  PROVE  /\ Texts(items) \in Seq(Keys)
         /\ \A i : Contains(items, i) => Contains(Texts(items), KeyOf[i])
<1> DEFINE n == Len(items)
           add(acc, m) == IF Contains(acc, KeyOf[items[m]]) THEN acc ELSE Append(acc, KeyOf[items[m]])
           Round(f) == [s \in SUBSET (1..n) |-> IF s = {} THEN <<>> ELSE add(f[s \ {Max(s)}], Max(s))]
           iter == CHOOSE f : f = Round(f)
<1>1. n \in Nat /\ DOMAIN items = 1..n /\ \A m \in 1..n : items[m] \in Items /\ KeyOf[items[m]] \in Keys
  BY DEF Keys
<1>2. Texts(items) = iter[1..n]
  BY <1>1 DEF Texts, FoldLeft, MapThenFoldSet
<1>3. \E f : f = Round(f)
  <2> DEFINE G == [x \in Nat \X Seq(Keys) |-> IF x[1] \in 1..n THEN add(x[2], x[1]) ELSE x[2]]
  <2>1. G \in [Nat \X Seq(Keys) -> Seq(Keys)]
    <3>1. ASSUME NEW x \in Nat \X Seq(Keys)
          PROVE  (IF x[1] \in 1..n THEN add(x[2], x[1]) ELSE x[2]) \in Seq(Keys)
      BY <1>1
    <3> QED
      BY <3>1
  <2>2. <<>> \in Seq(Keys)
    OBVIOUS
  <2>3. PICK f \in [SUBSET (1..n) -> Seq(Keys)] : Folds(f, n, <<>>, G)
    <3> HIDE DEF G, n
    <3> QED
      BY <1>1, <2>1, <2>2, FoldExists
  <2>4. ASSUME NEW s \in SUBSET (1..n), s # {} PROVE f[s] = add(f[s \ {Max(s)}], Max(s))
    <3>1. Max(s) \in 1..n
      BY <1>1, <2>4, MaxOfInterval
    <3>2. f[s] = G[<<Max(s), f[s \ {Max(s)}]>>]
      BY <2>3, <2>4 DEF Folds
    <3>3. f[s \ {Max(s)}] \in Seq(Keys)
      BY <2>3
    <3> QED
      BY <3>1, <3>2, <3>3
  <2>5. f[{}] = <<>>
    BY <2>3 DEF Folds
  <2>6. \A s \in SUBSET (1..n) : f[s] = IF s = {} THEN <<>> ELSE add(f[s \ {Max(s)}], Max(s))
    BY <2>4, <2>5
  <2>7. f = Round(f)
    BY <2>3, <2>6
  <2> QED
    BY <2>7
<1>4. iter = Round(iter)
  BY <1>3
<1> HIDE DEF iter
<1>5. \A s \in SUBSET (1..n) : iter[s] = IF s = {} THEN <<>> ELSE add(iter[s \ {Max(s)}], Max(s))
  BY <1>4
<1> DEFINE Holds(s) == /\ iter[s] \in Seq(Keys)
                       /\ \A m \in s : Contains(iter[s], KeyOf[items[m]])
           T == {k \in Nat : k <= n => \A s \in SUBSET (1..k) : Holds(s)}
<1>6. 0 \in T
  <2>1. \A s \in SUBSET (1..0) : s = {}
    OBVIOUS
  <2>2. iter[{}] = <<>> /\ <<>> \in Seq(Keys)
    <3>1. {} \in SUBSET (1..n)
      OBVIOUS
    <3> HIDE DEF n, add, Round
    <3>2. iter[{}] = IF {} = {} THEN <<>> ELSE add(iter[{} \ {Max({})}], Max({}))
      BY <1>5, <3>1
    <3> QED
      BY <3>2
  <2>3. Holds({})
    BY <2>2
  <2> HIDE DEF Holds
  <2> QED
    BY <2>1, <2>3
<1>7. ASSUME NEW k \in Nat, k \in T PROVE k + 1 \in T
  <2> SUFFICES ASSUME k + 1 <= n, NEW s \in SUBSET (1..(k + 1)) PROVE Holds(s)
    <3> HIDE DEF Holds
    <3> QED
      OBVIOUS
  <2>1. CASE s \in SUBSET (1..k)
    BY <1>1, <1>7, <2>1
  <2>2. CASE s \notin SUBSET (1..k)
    <3>1. k + 1 \in s /\ s # {} /\ s \in SUBSET (1..n)
      BY <1>1, <2>2
    <3>2. Max(s) = k + 1
      <4>1. Max(s) \in s /\ \A y \in s : Max(s) >= y
        <5>1. k + 1 \in Nat
          OBVIOUS
        <5> QED
          BY <3>1, <5>1, MaxOfInterval
      <4>2. Max(s) \in 1..(k + 1)
        BY <4>1
      <4> QED
        BY <3>1, <4>1, <4>2
    <3> DEFINE rest == s \ {k + 1}
               acc == iter[rest]
               t == KeyOf[items[k + 1]]
    <3>3. rest \in SUBSET (1..k)
      OBVIOUS
    <3>4. Holds(rest)
      BY <1>1, <1>7, <3>3
    <3>5. iter[s] = IF Contains(acc, t) THEN acc ELSE Append(acc, t)
      BY <1>5, <3>1, <3>2
    <3>6. t \in Keys /\ acc \in Seq(Keys)
      BY <1>1, <3>1, <3>4
    <3> HIDE DEF acc, t
    <3>7. /\ iter[s] \in Seq(Keys) /\ Contains(iter[s], t)
          /\ \A u : Contains(acc, u) => Contains(iter[s], u)
      <4>1. CASE Contains(acc, t)
        BY <3>5, <3>6, <4>1
      <4>2. CASE ~Contains(acc, t)
        <5>1. iter[s] = Append(acc, t)
          BY <3>5, <4>2
        <5> HIDE DEF iter, Holds, T
        <5> QED
          BY <3>6, <5>1, AppendContains
      <4> QED
        BY <4>1, <4>2
    <3>8. \A m \in s : m \in rest \/ m = k + 1
      OBVIOUS
    <3> QED
      BY <3>4, <3>7, <3>8 DEF acc, t
  <2> QED
    BY <2>1, <2>2
<1>8. Holds(1..n)
  <2> HIDE DEF Holds
  <2>1. T \in SUBSET Nat
    OBVIOUS
  <2>2. n \in T
    <3> HIDE DEF T, n
    <3> QED
      BY <1>1, <1>6, <1>7, AllNaturals
  <2> QED
    BY <1>1, <2>2
<1> QED
  BY <1>1, <1>2, <1>8 DEF Contains

(***************************************************************************)
(* The batcher: its queue and its batches.                                 *)
(***************************************************************************)

Entries(s) == {s[i] : i \in 1..Len(s)}
Distinct(s) == \A i, j \in 1..Len(s) : s[i] = s[j] => i = j

LEMMA EntriesCount ==
  ASSUME NEW S, NEW s \in Seq(S)
  PROVE  /\ IsFiniteSet(Entries(s)) /\ Entries(s) \subseteq S
         /\ Cardinality(Entries(s)) \in Nat /\ Len(s) \in Nat
         /\ Cardinality(Entries(s)) <= Len(s)
         /\ Cardinality(Entries(s)) = Len(s) <=> Distinct(s)
<1> DEFINE n == Len(s)
<1>1. n \in Nat /\ s \in [1..n -> S]
  BY LenProperties
<1>2. s \in Surjection(1..n, Entries(s))
  <2>1. s \in [1..n -> Entries(s)]
    <3>1. \A i \in 1..n : s[i] \in Entries(s)
      BY DEF Entries
    <3> QED
      BY <1>1, <3>1
  <2>2. \A x \in Entries(s) : \E i \in 1..n : s[i] = x
    BY DEF Entries
  <2> QED
    BY <2>1, <2>2 DEF Surjection
<1>3. IsFiniteSet(1..n) /\ Cardinality(1..n) = n
  BY <1>1, FS_Interval
<1>4. /\ IsFiniteSet(Entries(s)) /\ Cardinality(Entries(s)) <= n
      /\ Cardinality(Entries(s)) = n <=> s \in Injection(1..n, Entries(s))
  BY <1>2, <1>3, FS_Surjection
<1>5. s \in Injection(1..n, Entries(s)) <=> Distinct(s)
  <2>1. s \in [1..n -> Entries(s)]
    BY <1>2 DEF Surjection
  <2> QED
    BY <2>1 DEF Injection, IsInjective, Distinct
<1>6. Entries(s) \subseteq S
  BY <1>1 DEF Entries
<1> QED
  BY <1>1, <1>4, <1>5, <1>6, FS_CardinalityType

LEMMA FreshEntries ==
  ASSUME TypeOK
  PROVE  /\ Fresh \in Seq(Items) /\ Len(Fresh) = Len(queue) - expired /\ Len(Fresh) \in Nat
         /\ \A k \in 1..Len(Fresh) : Fresh[k] = queue[expired + k] /\ expired + k \in 1..Len(queue)
<1>1. queue \in Seq(Items) /\ expired \in 0..Len(queue) /\ Len(queue) \in Nat
  BY DEF TypeOK
<1>2. expired + 1 \in 1..(Len(queue) + 1) /\ Len(queue) \in (expired + 1 - 1)..Len(queue)
  BY <1>1
<1>3. /\ Fresh \in Seq(Items) /\ Len(Fresh) = Len(queue) - (expired + 1) + 1
      /\ \A k \in 1..(Len(queue) - (expired + 1) + 1) : Fresh[k] = queue[expired + 1 + k - 1]
  BY <1>1, <1>2, SubSeqProperties DEF Fresh
<1> QED
  BY <1>1, <1>3

\* What the loop picks fits both the fresh items and the free batches.
LEMMA PickedBound ==
  ASSUME TypeOK, inflight < MaxInflightBatches
  PROVE  /\ Room \in Nat /\ MaxBatchSize \in Nat /\ MaxBatchSize >= 1 /\ inflight + Room = MaxInflightBatches
         /\ Picked \in Nat /\ Picked <= Len(Fresh)
<1>1. Room \in Nat /\ MaxBatchSize \in Nat /\ MaxBatchSize >= 1 /\ inflight + Room = MaxInflightBatches
  BY BatcherConstants DEF TypeOK, Room
<1>2. Len(Fresh) \in Nat /\ Room * MaxBatchSize \in Nat
  BY <1>1, FreshEntries
<1> QED
  BY <1>1, <1>2 DEF Picked

\* The b-th batch is the b-th stretch of the fresh items.
LEMMA BatchEntries ==
  ASSUME TypeOK, inflight < MaxInflightBatches, NEW b \in 1..Room
  PROVE  /\ Batch(b) \in Seq(Items) /\ Len(Batch(b)) \in Nat /\ Len(Batch(b)) <= MaxBatchSize
         /\ \A k \in 1..Len(Batch(b)) :
              LET p == (b - 1) * MaxBatchSize + k
              IN  p \in 1..Picked /\ p <= b * MaxBatchSize /\ Batch(b)[k] = Fresh[p]
<1> DEFINE M == MaxBatchSize
           lo == (b - 1) * M
           hi == b * M
           last == IF hi < Picked THEN hi ELSE Picked
<1>1. M \in Nat /\ M >= 1 /\ Room \in Nat /\ Picked \in Nat /\ Picked <= Len(Fresh)
  BY PickedBound
<1>2. Fresh \in Seq(Items) /\ Len(Fresh) \in Nat
  BY FreshEntries
<1>3. lo \in Nat /\ hi \in Nat /\ hi = lo + M
  BY <1>1
<1>4. Batch(b) = SubSeq(Fresh, lo + 1, last)
  BY DEF Batch
<1> HIDE DEF lo, hi, M
<1>5. last \in Nat /\ last <= Len(Fresh) /\ last <= hi /\ last <= Picked
  BY <1>1, <1>2, <1>3
<1> HIDE DEF last
<1>6. CASE lo <= last
  <2> DEFINE m == lo + 1
  <2>1. m \in Int /\ last \in Int /\ m = lo + 1
    BY <1>3, <1>5
  <2> HIDE DEF m
  <2>2. \A i \in m..last : Fresh[i] \in Items
    <3>1. \A i \in m..last : i \in 1..Len(Fresh)
      BY <1>2, <1>3, <1>5, <2>1
    <3> QED
      BY <1>2, <3>1
  <2>3. Batch(b) = SubSeq(Fresh, m, last)
    BY <1>4 DEF m
  <2>4. /\ Batch(b) \in Seq(Items) /\ Len(Batch(b)) = IF m <= last THEN last - m + 1 ELSE 0
        /\ \A k \in 1..(last - m + 1) : Batch(b)[k] = Fresh[m + k - 1]
    BY <2>1, <2>2, <2>3, SubSeqProperties
  <2>5. Len(Batch(b)) = last - lo
    BY <1>3, <1>5, <1>6, <2>1, <2>4
  <2>6. ASSUME NEW k \in 1..(last - lo) PROVE Batch(b)[k] = Fresh[lo + k]
    <3>1. k \in 1..(last - m + 1) /\ m + k - 1 = lo + k
      BY <1>3, <1>5, <2>1
    <3> QED
      BY <2>4, <3>1
  <2>7. Len(Batch(b)) \in Nat /\ Len(Batch(b)) <= M
    BY <1>1, <1>3, <1>5, <1>6, <2>5
  <2>8. \A k \in 1..Len(Batch(b)) : lo + k \in 1..Picked /\ lo + k <= hi /\ Batch(b)[k] = Fresh[lo + k]
    BY <1>1, <1>3, <1>5, <2>5, <2>6
  <2> QED
    BY <2>4, <2>7, <2>8 DEF lo, hi, M
<1>7. CASE last < lo
  <2>1. Batch(b) = <<>>
    BY <1>2, <1>3, <1>4, <1>5, <1>7
  <2> QED
    BY <1>1, <2>1 DEF M
<1> QED
  BY <1>3, <1>5, <1>6, <1>7

\* No two batches of a flush have an item in common.
LEMMA BatchesApart ==
  ASSUME TypeOK, Distinct(queue), inflight < MaxInflightBatches,
         NEW b \in 1..Room, NEW c \in 1..Room, b # c,
         NEW j \in 1..Len(Batch(b)), NEW k \in 1..Len(Batch(c))
  PROVE  Batch(b)[j] # Batch(c)[k]
<1> DEFINE M == MaxBatchSize
           lb == (b - 1) * M
           lc == (c - 1) * M
<1>1. M \in Nat /\ M >= 1 /\ Room \in Nat /\ Picked \in Nat /\ Picked <= Len(Fresh)
  BY PickedBound
<1>2. /\ lb + j \in 1..Picked /\ lb + j <= b * M /\ Batch(b)[j] = Fresh[lb + j]
      /\ lc + k \in 1..Picked /\ lc + k <= c * M /\ Batch(c)[k] = Fresh[lc + k]
  BY BatchEntries
<1>3. lb \in Nat /\ lc \in Nat /\ j >= 1 /\ k >= 1 /\ j \in Nat /\ k \in Nat
  BY <1>1, BatchEntries
<1>4. b < c => b * M <= lc
  <2>1. b < c => (c - 1) - b \in Nat
    BY <1>1
  <2>2. b < c => ((c - 1) - b) * M >= 0
    BY <1>1, <2>1
  <2> QED
    BY <1>1, <2>2
<1>5. c < b => c * M <= lb
  <2>1. c < b => (b - 1) - c \in Nat
    BY <1>1
  <2>2. c < b => ((b - 1) - c) * M >= 0
    BY <1>1, <2>1
  <2> QED
    BY <1>1, <2>2
<1>6. lb + j # lc + k
  <2> HIDE DEF lb, lc
  <2>1. b < c \/ c < b
    BY <1>1
  <2>2. b * M \in Nat /\ c * M \in Nat
    BY <1>1
  <2> DEFINE x == b * M
             y == c * M
  <2> HIDE DEF x, y
  <2>3. /\ x \in Nat /\ y \in Nat /\ lb + j <= x /\ lc + k <= y
        /\ (b < c => x <= lc) /\ (c < b => y <= lb)
    BY <1>2, <1>4, <1>5, <2>2 DEF x, y
  <2> QED
    BY <1>3, <2>1, <2>3
<1>7. Fresh[lb + j] = queue[expired + (lb + j)] /\ Fresh[lc + k] = queue[expired + (lc + k)]
      /\ expired + (lb + j) \in 1..Len(queue) /\ expired + (lc + k) \in 1..Len(queue)
  <2> HIDE DEF lb, lc
  <2>1. lb + j \in 1..Len(Fresh) /\ lc + k \in 1..Len(Fresh)
    BY <1>1, <1>2, FreshEntries
  <2> QED
    BY <2>1, FreshEntries
<1> QED
  <2> HIDE DEF lb, lc
  <2>1. expired \in Nat
    BY DEF TypeOK
  <2>2. expired + (lb + j) # expired + (lc + k)
    BY <1>3, <1>6, <2>1
  <2> QED
    BY <1>2, <1>7, <2>2 DEF Distinct

\* A flush starts at most as many batches as there is room for.
LEMMA NewBatchesCount ==
  ASSUME TypeOK, inflight < MaxInflightBatches
  PROVE  Cardinality(NewBatches) \in Nat /\ Cardinality(NewBatches) <= Room
<1> DEFINE B == {b \in 1..Room : Batch(b) # <<>>}
           f == [b \in B |-> [items |-> Batch(b), settled |-> FALSE]]
<1>1. Room \in Nat
  BY PickedBound
<1>2. IsFiniteSet(1..Room) /\ Cardinality(1..Room) = Room
  BY <1>1, FS_Interval
<1>3. IsFiniteSet(B) /\ Cardinality(B) <= Room
  BY <1>2, FS_Subset
<1>4. f \in Surjection(B, NewBatches)
  BY DEF Surjection, NewBatches
<1> HIDE DEF B, f
<1>5. IsFiniteSet(NewBatches) /\ Cardinality(NewBatches) <= Cardinality(B)
  BY <1>3, <1>4, FS_Surjection
<1>6. Cardinality(B) \in Nat /\ Cardinality(NewBatches) \in Nat
  BY <1>3, <1>5, FS_CardinalityType
<1> QED
  BY <1>1, <1>3, <1>5, <1>6

\* Whoever is queued is queued once, and is pending; an item is in one batch
\* that has not settled yet, and is pending until then.  Without this an item
\* whose vector has come could be rejected, or answered again.
BatcherInv ==
  /\ TypeOK /\ OwnVector
  /\ batches \subseteq [items : Seq(Items), settled : BOOLEAN]
  /\ Distinct(queue) /\ \A k \in 1..Len(queue) : state[queue[k]] = "queued"
  /\ \A b \in batches : ~b.settled => \A k \in 1..Len(b.items) : state[b.items[k]] = "embedding"
  /\ \A b, c \in batches : ~b.settled /\ ~c.settled /\ b # c =>
       \A j \in 1..Len(b.items), k \in 1..Len(c.items) : b.items[j] # c.items[k]

LEMMA BatcherStarts == BatcherInit => BatcherInv
<1> SUFFICES ASSUME BatcherInit PROVE BatcherInv
  OBVIOUS
<1> USE DEF BatcherInit
<1>1. TypeOK
  <2>1. queue \in Seq(Items) /\ Len(queue) <= MaxQueue /\ expired \in 0..Len(queue)
    BY BatcherConstants
  <2>2. inflight \in 0..MaxInflightBatches
    BY BatcherConstants
  <2>3. state \in [Items -> States] /\ vector \in [Items -> Keys \cup {NoVector}]
    BY DEF States
  <2> QED
    BY <2>1, <2>2, <2>3 DEF TypeOK
<1>2. OwnVector
  BY DEF OwnVector
<1>3. Distinct(queue) /\ \A k \in 1..Len(queue) : state[queue[k]] = "queued"
  BY DEF Distinct
<1> QED
  BY <1>1, <1>2, <1>3 DEF BatcherInv

\* A step that leaves queue, batches and states alone.
LEMMA BatcherWaits ==
  ASSUME BatcherInv, UNCHANGED <<queue, inflight, batches, state, vector>>,
         timer' \in BOOLEAN, expired' \in 0..Len(queue)
  PROVE  BatcherInv'
BY DEF BatcherInv, TypeOK, OwnVector, Distinct

LEMMA EnqueueKeeps ==
  ASSUME BatcherInv, NEW i \in Items, Enqueue(i) PROVE BatcherInv'
<1> USE DEF BatcherInv
<1>1. /\ state[i] = "new" /\ UNCHANGED <<expired, inflight, batches, vector>>
      /\ state \in [Items -> States] /\ queue \in Seq(Items)
  BY DEF Enqueue, TypeOK
<1>2. ASSUME NEW s, s \in States, s # "resolved", state' = [state EXCEPT ![i] = s]
      PROVE  /\ state' \in [Items -> States] /\ OwnVector' /\ state'[i] = s
             /\ \A j \in Items : j # i => state'[j] = state[j]
             /\ \A b \in batches : ~b.settled =>
                  \A k \in 1..Len(b.items) : state'[b.items[k]] = "embedding"
  <2>1. /\ state' \in [Items -> States] /\ state'[i] = s
        /\ \A j \in Items : j # i => state'[j] = state[j]
    BY <1>1, <1>2
  <2>2. OwnVector'
    BY <1>1, <1>2, <2>1 DEF OwnVector
  <2>3. \A b \in batches : ~b.settled =>
          \A k \in 1..Len(b.items) : state'[b.items[k]] = "embedding"
    BY <1>1, <2>1
  <2> QED
    BY <2>1, <2>2, <2>3
<1>3. CASE Len(queue) >= MaxQueue
  <2>1. state' = [state EXCEPT ![i] = "queue_full"] /\ UNCHANGED <<queue, timer>>
    BY <1>1, <1>3, BatcherConstants DEF Enqueue
  <2>2. /\ state' \in [Items -> States] /\ OwnVector'
        /\ \A j \in Items : j # i => state'[j] = state[j]
        /\ \A b \in batches : ~b.settled =>
             \A k \in 1..Len(b.items) : state'[b.items[k]] = "embedding"
    BY <1>2, <2>1 DEF States
  <2>3. TypeOK'
    BY <1>1, <2>1, <2>2 DEF TypeOK
  <2>4. \A k \in 1..Len(queue) : state'[queue[k]] = "queued"
    BY <1>1, <2>2
  <2> QED
    BY <1>1, <2>1, <2>2, <2>3, <2>4 DEF Distinct
<1>4. CASE Len(queue) < MaxQueue
  <2>1. /\ state' = [state EXCEPT ![i] = "queued"] /\ queue' = Append(queue, i) /\ timer' = TRUE
    BY <1>1, <1>4, BatcherConstants DEF Enqueue
  <2>2. /\ state' \in [Items -> States] /\ OwnVector' /\ state'[i] = "queued"
        /\ \A j \in Items : j # i => state'[j] = state[j]
        /\ \A b \in batches : ~b.settled =>
             \A k \in 1..Len(b.items) : state'[b.items[k]] = "embedding"
    BY <1>2, <2>1 DEF States
  <2>3. /\ queue' \in Seq(Items) /\ Len(queue') = Len(queue) + 1 /\ queue'[Len(queue) + 1] = i
        /\ \A k \in 1..Len(queue) : queue'[k] = queue[k] /\ queue[k] # i
        /\ Len(queue) \in Nat
    BY <1>1, <2>1
  <2>4. TypeOK'
    BY <1>1, <1>4, <2>1, <2>2, <2>3, BatcherConstants DEF TypeOK
  <2>5. Distinct(queue)'
    <3>1. \A j, k \in 1..(Len(queue) + 1) : queue'[j] = queue'[k] => j = k
      <4> SUFFICES ASSUME NEW j \in 1..(Len(queue) + 1), NEW k \in 1..(Len(queue) + 1),
                          queue'[j] = queue'[k]
                   PROVE  j = k
        OBVIOUS
      <4>1. j \in 1..Len(queue) \/ j = Len(queue) + 1
        BY <2>3
      <4>2. k \in 1..Len(queue) \/ k = Len(queue) + 1
        BY <2>3
      <4> QED
        BY <2>3, <4>1, <4>2 DEF Distinct
    <3> QED
      BY <2>3, <3>1 DEF Distinct
  <2>6. \A k \in 1..Len(queue') : state'[queue'[k]] = "queued"
    <3> SUFFICES ASSUME NEW k \in 1..(Len(queue) + 1) PROVE state'[queue'[k]] = "queued"
      BY <2>3
    <3>1. k \in 1..Len(queue) \/ k = Len(queue) + 1
      BY <2>3
    <3> QED
      BY <1>1, <2>2, <2>3, <3>1
  <2> QED
    BY <1>1, <2>2, <2>4, <2>5, <2>6
<1> QED
  BY <1>3, <1>4 DEF Enqueue

Pending == {i \in Items : state[i] \in {"queued", "embedding"}}

\* The batcher's own steps never make an item pending, and take no vector back.
Onward ==
  /\ Pending' \subseteq Pending
  /\ \A i \in Items : vector[i] = KeyOf[i] => vector'[i] = KeyOf[i]

\* The flush that starts batches: the late are rejected, the first of the
\* others are taken, the rest wait on.
LEMMA FlushKeeps ==
  ASSUME BatcherInv, FlushRuns PROVE BatcherInv' /\ Onward
<1>types. TypeOK /\ OwnVector /\ batches \subseteq [items : Seq(Items), settled : BOOLEAN]
  BY DEF BatcherInv
<1>queue. Distinct(queue) /\ \A k \in 1..Len(queue) : state[queue[k]] = "queued"
  BY DEF BatcherInv
<1>flying. /\ \A b \in batches : ~b.settled => \A k \in 1..Len(b.items) : state[b.items[k]] = "embedding"
           /\ \A b, c \in batches : ~b.settled /\ ~c.settled /\ b # c =>
                \A j \in 1..Len(b.items), k \in 1..Len(c.items) : b.items[j] # c.items[k]
  BY DEF BatcherInv
<1> DEFINE late == {queue[k] : k \in 1..expired}
           taken == {Fresh[k] : k \in 1..Picked}
<1>1. /\ TypeOK /\ inflight < MaxInflightBatches /\ expired' = 0 /\ vector' = vector
      /\ queue' = SubSeq(Fresh, Picked + 1, Len(Fresh)) /\ batches' = batches \cup NewBatches
      /\ inflight' = inflight + Cardinality(NewBatches) /\ timer' = (queue' # <<>>)
      /\ state' = [i \in Items |-> IF i \in late THEN "queue_timeout" ELSE
                                   IF i \in taken THEN "embedding" ELSE state[i]]
  BY <1>types DEF FlushRuns
<1>2. /\ queue \in Seq(Items) /\ expired \in 0..Len(queue) /\ Len(queue) \in Nat
      /\ state \in [Items -> States] /\ inflight \in Nat /\ Len(queue) <= MaxQueue /\ MaxQueue \in Nat
      /\ MaxInflightBatches \in Nat
  BY <1>1, BatcherConstants DEF TypeOK
<1>3. /\ Fresh \in Seq(Items) /\ Len(Fresh) = Len(queue) - expired /\ Len(Fresh) \in Nat
      /\ \A k \in 1..Len(Fresh) : Fresh[k] = queue[expired + k] /\ expired + k \in 1..Len(queue)
  BY <1>1, FreshEntries
<1>4. Room \in Nat /\ Picked \in Nat /\ Picked <= Len(Fresh) /\ inflight + Room = MaxInflightBatches
  BY <1>1, PickedBound
<1>5. \A i \in late \cup taken : i \in Items /\ state[i] = "queued"
  <2>1. \A k \in 1..expired : k \in 1..Len(queue)
    BY <1>2
  <2>2. \A k \in 1..Picked : k \in 1..Len(Fresh)
    BY <1>3, <1>4
  <2>3. \A k \in 1..Len(queue) : queue[k] \in Items /\ state[queue[k]] = "queued"
    BY <1>2, <1>queue
  <2>4. \A i \in late : i \in Items /\ state[i] = "queued"
    BY <2>1, <2>3
  <2>5. \A k \in 1..Picked : Fresh[k] \in Items /\ state[Fresh[k]] = "queued"
    BY <1>3, <2>2, <2>3
  <2>6. \A i \in taken : i \in Items /\ state[i] = "queued"
    BY <2>5
  <2> HIDE DEF late, taken
  <2> QED
    BY <2>4, <2>6
<1>6. ASSUME NEW k \in 1..Len(Fresh) PROVE Fresh[k] \notin late
  <2> SUFFICES ASSUME NEW j \in 1..expired, queue[j] = queue[expired + k] PROVE FALSE
    BY <1>3
  <2>1. j \in 1..Len(queue) /\ expired + k \in 1..Len(queue) /\ j # expired + k
    BY <1>2, <1>3
  <2> QED
    BY <2>1, <1>queue DEF Distinct
<1> HIDE DEF late, taken
<1>7. \A i \in Items : state'[i] = IF i \in late THEN "queue_timeout" ELSE
                                   IF i \in taken THEN "embedding" ELSE state[i]
  BY <1>1
<1>8. /\ queue' \in Seq(Items) /\ Len(queue') = Len(Fresh) - Picked /\ Len(queue') \in Nat
      /\ \A k \in 1..Len(queue') : Picked + k \in 1..Len(Fresh) /\ queue'[k] = Fresh[Picked + k]
  <2> DEFINE m == Picked + 1
             n == Len(Fresh)
  <2>1. m \in Int /\ n \in Int /\ m = Picked + 1 /\ n = Len(Fresh)
    BY <1>3, <1>4
  <2>2. \A i \in m..n : Fresh[i] \in Items
    <3>1. \A i \in m..n : i \in 1..Len(Fresh)
      BY <1>3, <1>4
    <3> QED
      BY <1>3, <3>1
  <2>3. queue' = SubSeq(Fresh, m, n)
    BY <1>1
  <2> HIDE DEF m, n
  <2>4. /\ queue' \in Seq(Items) /\ Len(queue') = IF m <= n THEN n - m + 1 ELSE 0
        /\ \A k \in 1..(n - m + 1) : queue'[k] = Fresh[m + k - 1]
    BY <2>1, <2>2, <2>3, SubSeqProperties
  <2>5. Len(queue') = n - Picked
    BY <1>3, <1>4, <2>1, <2>4
  <2>6. ASSUME NEW k \in 1..Len(queue') PROVE Picked + k \in 1..Len(Fresh) /\ queue'[k] = Fresh[Picked + k]
    <3>1. k \in 1..(n - m + 1) /\ m + k - 1 = Picked + k
      BY <1>4, <2>1, <2>5
    <3>2. Picked + k \in 1..Len(Fresh)
      BY <1>3, <1>4, <2>1, <2>5
    <3> QED
      BY <2>4, <3>1, <3>2
  <2> QED
    BY <1>3, <1>4, <2>1, <2>4, <2>5, <2>6
<1>9. \A b \in 1..Room : /\ Batch(b) \in Seq(Items) /\ Len(Batch(b)) \in Nat
                         /\ Len(Batch(b)) <= MaxBatchSize
  BY <1>1, BatchEntries
<1>10. ASSUME NEW b \in 1..Room, NEW k \in 1..Len(Batch(b))
       PROVE  Batch(b)[k] \in taken /\ Batch(b)[k] \notin late /\ Batch(b)[k] \in Items
  <2> DEFINE p == (b - 1) * MaxBatchSize + k
  <2>1. p \in 1..Picked /\ Batch(b)[k] = Fresh[p]
    BY <1>1, BatchEntries
  <2> HIDE DEF p
  <2>2. p \in 1..Len(Fresh)
    BY <1>3, <1>4, <2>1
  <2> QED
    BY <1>3, <1>6, <2>1, <2>2 DEF taken
<1>11. TypeOK'
  <2>1. state' \in [Items -> States]
    <3>1. \A i \in Items : (IF i \in late THEN "queue_timeout" ELSE
                            IF i \in taken THEN "embedding" ELSE state[i]) \in States
      BY <1>2 DEF States
    <3> QED
      BY <1>1, <3>1
  <2>2. inflight' \in 0..MaxInflightBatches
    <3>1. Cardinality(NewBatches) \in Nat /\ Cardinality(NewBatches) <= Room
      BY <1>1, NewBatchesCount
    <3> QED
      BY <1>1, <1>2, <1>4, <3>1
  <2>3. Len(queue') <= MaxQueue /\ expired' \in 0..Len(queue')
    BY <1>1, <1>2, <1>3, <1>4, <1>8
  <2>4. \A b \in NewBatches : /\ b.items \in Seq(Items) /\ b.settled \in BOOLEAN
                              /\ Len(b.items) \in 1..MaxBatchSize
    <3>1. ASSUME NEW b \in 1..Room, Batch(b) # <<>> PROVE Len(Batch(b)) \in 1..MaxBatchSize
      <4>1. Len(Batch(b)) # 0
        BY <1>9, <3>1
      <4> QED
        BY <1>9, <4>1, BatcherConstants
    <3> SUFFICES ASSUME NEW b \in NewBatches
                 PROVE  /\ b.items \in Seq(Items) /\ b.settled \in BOOLEAN
                        /\ Len(b.items) \in 1..MaxBatchSize
      OBVIOUS
    <3>2. PICK x \in 1..Room : b = [items |-> Batch(x), settled |-> FALSE] /\ Batch(x) # <<>>
      BY DEF NewBatches
    <3>3. b.items = Batch(x) /\ b.settled = FALSE
      BY <3>2
    <3> QED
      BY <1>9, <3>1, <3>2, <3>3
  <2> QED
    BY <1>1, <1>8, <2>1, <2>2, <2>3, <2>4 DEF TypeOK
<1>12. OwnVector'
  BY <1>1, <1>5, <1>7, <1>types DEF OwnVector
<1>13. batches' \subseteq [items : Seq(Items), settled : BOOLEAN]
  <2>1. ASSUME NEW b \in NewBatches PROVE b \in [items : Seq(Items), settled : BOOLEAN]
    <3>1. PICK x \in 1..Room : b = [items |-> Batch(x), settled |-> FALSE]
      BY DEF NewBatches
    <3>2. Batch(x) \in Seq(Items)
      BY <1>9
    <3> QED
      BY <3>1, <3>2
  <2> QED
    BY <1>1, <1>types, <2>1
<1>14. Distinct(queue)'
  <2> SUFFICES ASSUME NEW j \in 1..Len(queue'), NEW k \in 1..Len(queue'), queue'[j] = queue'[k]
               PROVE  j = k
    BY DEF Distinct
  <2>1. queue[expired + (Picked + j)] = queue[expired + (Picked + k)]
        /\ expired + (Picked + j) \in 1..Len(queue) /\ expired + (Picked + k) \in 1..Len(queue)
    BY <1>3, <1>8
  <2>2. expired + (Picked + j) = expired + (Picked + k)
    BY <1>queue, <2>1 DEF Distinct
  <2> QED
    BY <1>2, <1>4, <1>8, <2>2
<1>15. \A k \in 1..Len(queue') : state'[queue'[k]] = "queued"
  <2> SUFFICES ASSUME NEW k \in 1..Len(queue') PROVE state'[queue'[k]] = "queued"
    OBVIOUS
  <2> DEFINE q == Picked + k
  <2>1. q \in 1..Len(Fresh) /\ queue'[k] = Fresh[q] /\ q > Picked
    BY <1>4, <1>8
  <2> HIDE DEF q
  <2>2. Fresh[q] = queue[expired + q] /\ expired + q \in 1..Len(queue) /\ Fresh[q] \in Items
    BY <1>3, <2>1
  <2>3. Fresh[q] \notin taken
    <3> SUFFICES ASSUME NEW p \in 1..Picked, Fresh[p] = Fresh[q] PROVE FALSE
      BY DEF taken
    <3>1. Fresh[p] = queue[expired + p] /\ expired + p \in 1..Len(queue) /\ expired + p # expired + q
      BY <1>2, <1>3, <1>4, <2>1
    <3> QED
      BY <1>queue, <2>2, <3>1 DEF Distinct
  <2>4. Fresh[q] \notin late /\ state[Fresh[q]] = "queued"
    BY <1>6, <1>queue, <2>1, <2>2
  <2> QED
    BY <1>7, <2>1, <2>2, <2>3, <2>4
<1>16. ASSUME NEW b \in batches, ~b.settled, NEW k \in 1..Len(b.items)
       PROVE  /\ b.items[k] \in Items /\ state[b.items[k]] = "embedding"
              /\ b.items[k] \notin late \cup taken /\ state'[b.items[k]] = "embedding"
  <2>1. b.items[k] \in Items
    BY <1>types, <1>16
  <2>2. state[b.items[k]] = "embedding"
    BY <1>flying, <1>16
  <2>3. b.items[k] \notin late \cup taken
    BY <1>5, <2>2
  <2> QED
    BY <1>7, <2>1, <2>2, <2>3
<1>17. ASSUME NEW b \in batches', ~b.settled, NEW k \in 1..Len(b.items)
       PROVE  state'[b.items[k]] = "embedding"
  <2>1. CASE b \in batches
    BY <1>16, <1>17, <2>1
  <2>2. CASE b \in NewBatches
    <3>1. PICK c \in 1..Room : b.items = Batch(c)
      BY <2>2 DEF NewBatches
    <3> QED
      BY <1>7, <1>10, <1>17, <3>1
  <2> QED
    BY <1>1, <2>1, <2>2
<1>18. ASSUME NEW b \in batches', NEW c \in batches', ~b.settled, ~c.settled, b # c,
              NEW j \in 1..Len(b.items), NEW k \in 1..Len(c.items)
       PROVE  b.items[j] # c.items[k]
  <2>1. CASE b \in batches /\ c \in batches
    BY <1>flying, <1>18, <2>1
  <2>2. ASSUME NEW d \in batches, ~d.settled, NEW l \in 1..Len(d.items),
               NEW x \in 1..Room, NEW m \in 1..Len(Batch(x))
        PROVE  d.items[l] # Batch(x)[m]
    BY <1>10, <1>16, <2>2
  <2>3. CASE b \in batches /\ c \in NewBatches
    <3>1. PICK x \in 1..Room : c.items = Batch(x)
      BY <2>3 DEF NewBatches
    <3> QED
      BY <1>18, <2>2, <2>3, <3>1
  <2>4. CASE b \in NewBatches /\ c \in batches
    <3>1. PICK x \in 1..Room : b.items = Batch(x)
      BY <2>4 DEF NewBatches
    <3> QED
      BY <1>18, <2>2, <2>4, <3>1
  <2>5. CASE b \in NewBatches /\ c \in NewBatches
    <3>1. PICK x \in 1..Room : b = [items |-> Batch(x), settled |-> FALSE]
      BY <2>5 DEF NewBatches
    <3>2. PICK y \in 1..Room : c = [items |-> Batch(y), settled |-> FALSE]
      BY <2>5 DEF NewBatches
    <3>3. x # y /\ b.items = Batch(x) /\ c.items = Batch(y)
      BY <1>18, <3>1, <3>2
    <3>4. j \in 1..Len(Batch(x)) /\ k \in 1..Len(Batch(y))
      BY <1>18, <3>3
    <3> QED
      BY <1>1, <1>queue, <3>3, <3>4, BatchesApart
  <2> QED
    BY <1>1, <2>1, <2>3, <2>4, <2>5
<1>19. Onward
  BY <1>1, <1>5, <1>7 DEF Onward, Pending
<1> QED
  BY <1>11, <1>12, <1>13, <1>14, <1>15, <1>17, <1>18, <1>19 DEF BatcherInv

\* The index an item is answered from is that of its own text.
LEMMA ItemsFindTheirText ==
  ASSUME NEW items \in Seq(Items), NEW i, Contains(items, i)
  PROVE  Texts(items)[VectorIndex(items, i)] = KeyOf[i]
<1> DEFINE texts == Texts(items)
           P(g) == g \in 1..Len(texts) /\ texts[g] = KeyOf[i]
<1>1. Contains(texts, KeyOf[i])
  BY TextsHoldAll
<1>2. \E g : P(g)
  BY <1>1 DEF Contains
<1>3. VectorIndex(items, i) = CHOOSE g \in 1..Len(texts) : texts[g] = KeyOf[i]
  BY DEF VectorIndex
<1> HIDE DEF texts
<1>4. texts[CHOOSE g \in 1..Len(texts) : texts[g] = KeyOf[i]] = KeyOf[i]
  BY <1>2
<1> QED
  BY <1>3, <1>4 DEF texts

\* A batch settles: of its items alone, each gets the vector of its own text
\* or is rejected.
LEMMA SettlingKeeps ==
  ASSUME BatcherInv, NEW b \in batches, NEW good, BatchSettles(b, good)
  PROVE  BatcherInv' /\ Onward
<1> USE DEF BatcherInv
<1> DEFINE of(i) == VectorIndex(b.items, i)
           in(i) == Contains(b.items, i)
           served(i) == in(i) /\ of(i) <= good
           done == [b EXCEPT !.settled = TRUE]
<1>1. /\ ~b.settled /\ UNCHANGED <<queue, expired, timer, inflight>>
      /\ state' = [i \in Items |-> IF served(i) THEN "resolved" ELSE
                                   IF in(i) THEN "rejected" ELSE state[i]]
      /\ vector' = [i \in Items |-> IF served(i) THEN Texts(b.items)[of(i)] ELSE vector[i]]
      /\ batches' = (batches \ {b}) \cup {done}
  BY DEF BatchSettles
<1>2. /\ TypeOK /\ b.items \in Seq(Items) /\ state \in [Items -> States]
      /\ vector \in [Items -> Keys \cup {NoVector}] /\ b \in [items : Seq(Items), settled : BOOLEAN]
  BY DEF TypeOK
<1>3. done.items = b.items /\ done.settled = TRUE /\ done \in [items : Seq(Items), settled : BOOLEAN]
  BY <1>2
<1>4. \A i : in(i) => Texts(b.items)[of(i)] = KeyOf[i]
  BY <1>2, ItemsFindTheirText
<1>5. \A i : in(i) => state[i] = "embedding"
  BY <1>1 DEF Contains
<1> HIDE DEF of, in, done
<1>6. \A i \in Items : /\ state'[i] = IF served(i) THEN "resolved" ELSE
                                      IF in(i) THEN "rejected" ELSE state[i]
                       /\ vector'[i] = IF served(i) THEN KeyOf[i] ELSE vector[i]
  BY <1>1, <1>4
<1>7. TypeOK'
  <2>1. state' \in [Items -> States]
    <3>1. \A i \in Items : (IF served(i) THEN "resolved" ELSE
                            IF in(i) THEN "rejected" ELSE state[i]) \in States
      BY <1>2 DEF States
    <3> QED
      BY <1>1, <3>1
  <2>2. vector' \in [Items -> Keys \cup {NoVector}]
    <3>1. \A i \in Items : (IF served(i) THEN Texts(b.items)[of(i)] ELSE vector[i]) \in Keys \cup {NoVector}
      BY <1>2, <1>4 DEF Keys
    <3> QED
      BY <1>1, <3>1
  <2>3. \A c \in batches' : /\ c.items \in Seq(Items) /\ c.settled \in BOOLEAN
                            /\ Len(c.items) \in 1..MaxBatchSize
    BY <1>1, <1>3 DEF TypeOK
  <2> QED
    BY <1>1, <2>1, <2>2, <2>3 DEF TypeOK
<1>8. OwnVector'
  BY <1>5, <1>6 DEF OwnVector
<1>9. batches' \subseteq [items : Seq(Items), settled : BOOLEAN]
  BY <1>1, <1>3
<1>10. \A k \in 1..Len(queue) : state'[queue[k]] = "queued"
  <2> SUFFICES ASSUME NEW k \in 1..Len(queue) PROVE state'[queue[k]] = "queued"
    OBVIOUS
  <2>1. queue[k] \in Items /\ state[queue[k]] = "queued"
    BY <1>2 DEF TypeOK
  <2> QED
    BY <1>5, <1>6, <2>1
<1>11. ASSUME NEW c \in batches', ~c.settled, NEW k \in 1..Len(c.items)
       PROVE  c \in batches /\ state'[c.items[k]] = "embedding"
  <2>1. c \in batches /\ c # b
    BY <1>1, <1>3, <1>11
  <2>2. c.items[k] \in Items /\ state[c.items[k]] = "embedding"
    BY <1>2, <1>11, <2>1 DEF TypeOK
  <2>3. ~in(c.items[k])
    BY <1>1, <1>11, <2>1 DEF in, Contains
  <2> QED
    BY <1>6, <2>1, <2>2, <2>3
<1>12. ASSUME NEW c \in batches', NEW d \in batches', ~c.settled, ~d.settled, c # d,
              NEW j \in 1..Len(c.items), NEW k \in 1..Len(d.items)
       PROVE  c.items[j] # d.items[k]
  BY <1>11, <1>12
<1>13. Onward
  BY <1>6 DEF Onward, Pending
<1> QED
  BY <1>1, <1>7, <1>8, <1>9, <1>10, <1>11, <1>12, <1>13 DEF Distinct

LEMMA BatchEndKeeps ==
  ASSUME BatcherInv, NEW b \in batches, BatchEnds(b) PROVE BatcherInv'
<1> USE DEF BatcherInv
<1>1. /\ batches' = batches \ {b} /\ UNCHANGED <<queue, expired, state, vector>>
      /\ inflight' = IF inflight > 0 THEN inflight - 1 ELSE 0
      /\ timer' = (timer \/ queue # <<>>)
  BY DEF BatchEnds
<1>2. inflight' \in 0..MaxInflightBatches
  BY <1>1, BatcherConstants DEF TypeOK
<1>3. TypeOK'
  BY <1>1, <1>2 DEF TypeOK
<1>4. OwnVector'
  BY <1>1 DEF OwnVector
<1>5. /\ batches' \subseteq [items : Seq(Items), settled : BOOLEAN]
      /\ Distinct(queue)' /\ \A k \in 1..Len(queue') : state'[queue'[k]] = "queued"
  BY <1>1 DEF Distinct
<1>6. \A c \in batches' : ~c.settled => \A k \in 1..Len(c.items) : state'[c.items[k]] = "embedding"
  BY <1>1
<1>7. \A c, d \in batches' : ~c.settled /\ ~d.settled /\ c # d =>
        \A j \in 1..Len(c.items), k \in 1..Len(d.items) : c.items[j] # d.items[k]
  BY <1>1
<1> QED
  BY <1>3, <1>4, <1>5, <1>6, <1>7

LEMMA BatcherSteps ==
  ASSUME BatcherInv, Age \/ Flush \/ BatchSettlesSomehow \/ SomeBatchEnds \/ UNCHANGED batcherVars
  PROVE  BatcherInv' /\ Onward
<1>1. CASE Age \/ FlushBusy \/ UNCHANGED batcherVars
  <2>1. /\ expired' \in 0..Len(queue) /\ timer' \in BOOLEAN
        /\ UNCHANGED <<queue, inflight, batches, state, vector>>
    <3>1. expired \in 0..Len(queue) /\ timer \in BOOLEAN /\ Len(queue) \in Nat
      BY DEF BatcherInv, TypeOK
    <3>2. CASE Age
      BY <3>1, <3>2 DEF Age
    <3>3. CASE FlushBusy
      BY <3>1, <3>3 DEF FlushBusy
    <3>4. CASE UNCHANGED batcherVars
      BY <3>1, <3>4 DEF batcherVars
    <3> QED
      BY <1>1, <3>2, <3>3, <3>4
  <2> QED
    BY <2>1, BatcherWaits DEF Onward, Pending
<1>2. CASE SomeBatchEnds
  BY <1>2, BatchEndKeeps DEF SomeBatchEnds, BatchEnds, Onward, Pending
<1> QED
  BY <1>1, <1>2, FlushKeeps, SettlingKeeps DEF Flush, BatchSettlesSomehow

(***************************************************************************)
(* The cache.                                                              *)
(***************************************************************************)

\* A text is taken out of a sequence that holds it at most once.
LEMMA Removal ==
  ASSUME NEW s \in Seq(Keys), Distinct(s), NEW t
  PROVE  LET r == RemoveFirst(s, t)
         IN  /\ r \in Seq(Keys) /\ Distinct(r) /\ Len(r) \in Nat /\ Len(s) \in Nat
             /\ Entries(r) = Entries(s) \ {t}
             /\ Len(r) = IF t \in Entries(s) THEN Len(s) - 1 ELSE Len(s)
<1> DEFINE r == RemoveFirst(s, t)
           n == Len(s)
<1>1. n \in Nat /\ \A k \in 1..n : s[k] \in Keys
  OBVIOUS
<1>2. CASE t \notin Entries(s)
  <2>1. r = s
    BY <1>2 DEF RemoveFirst, Entries
  <2> QED
    BY <1>1, <1>2, <2>1
<1>3. CASE t \in Entries(s)
  <2> DEFINE I == {k \in 1..n : s[k] = t}
             p == CHOOSE x \in I : \A y \in I : x <= y
  <2>1. I \in SUBSET Nat /\ I # {}
    BY <1>1, <1>3 DEF Entries
  <2>2. p \in I /\ r = RemoveAt(s, p)
    <3>1. \E x \in I : \A y \in I : x <= y
      <4> HIDE DEF I
      <4> QED
        BY <2>1, LeastNatural
    <3>2. p \in I
      BY <3>1
    <3>3. r = RemoveAt(s, SelectInSeq(s, LAMBDA v : v = t))
      BY <1>3 DEF RemoveFirst, Entries
    <3>4. SelectInSeq(s, LAMBDA v : v = t) = p
      BY <2>1 DEF SelectInSeq, Min
    <3> QED
      BY <3>2, <3>3, <3>4
  <2>3. p \in 1..n /\ s[p] = t
    BY <2>2
  <2> HIDE DEF p, r, n
  <2>4. r = SubSeq(s, 1, p - 1) \o SubSeq(s, p + 1, n)
    BY <2>2 DEF RemoveAt, n
  <2>5. /\ SubSeq(s, 1, p - 1) \in Seq(Keys) /\ Len(SubSeq(s, 1, p - 1)) = p - 1
        /\ \A k \in 1..(p - 1) : SubSeq(s, 1, p - 1)[k] = s[k]
    BY <1>1, <2>3 DEF n
  <2>6. /\ SubSeq(s, p + 1, n) \in Seq(Keys) /\ Len(SubSeq(s, p + 1, n)) = n - p
        /\ \A k \in 1..(n - p) : SubSeq(s, p + 1, n)[k] = s[p + k]
    BY <1>1, <2>3 DEF n
  <2>7. /\ r \in Seq(Keys) /\ Len(r) = n - 1
        /\ \A k \in 1..(n - 1) : r[k] = IF k < p THEN s[k] ELSE s[k + 1]
    <3> DEFINE a == SubSeq(s, 1, p - 1)
               b == SubSeq(s, p + 1, n)
    <3>1. /\ a \in Seq(Keys) /\ Len(a) = p - 1 /\ \A k \in 1..(p - 1) : a[k] = s[k]
          /\ b \in Seq(Keys) /\ Len(b) = n - p /\ \A k \in 1..(n - p) : b[k] = s[p + k]
          /\ r = a \o b
      BY <2>4, <2>5, <2>6
    <3> HIDE DEF a, b
    <3>2. /\ r \in Seq(Keys) /\ Len(r) = Len(a) + Len(b)
          /\ \A k \in 1..(Len(a) + Len(b)) : r[k] = IF k <= Len(a) THEN a[k] ELSE b[k - Len(a)]
      BY <3>1
    <3>3. ASSUME NEW k \in 1..(n - 1) PROVE r[k] = IF k < p THEN s[k] ELSE s[k + 1]
      <4>1. CASE k < p
        BY <1>1, <2>3, <3>1, <3>2, <4>1
      <4>2. CASE k >= p
        <5>1. k - (p - 1) \in 1..(n - p) /\ p + (k - (p - 1)) = k + 1 /\ ~(k <= p - 1)
          BY <1>1, <2>3, <4>2
        <5>2. r[k] = b[k - (p - 1)]
          BY <1>1, <2>3, <3>1, <3>2, <5>1
        <5> QED
          BY <2>3, <3>1, <4>2, <5>1, <5>2
      <4> QED
        BY <2>3, <4>1, <4>2
    <3> QED
      BY <1>1, <2>3, <3>1, <3>2, <3>3
  <2>8. \A k \in 1..n : s[k] = t => k = p
    BY <2>3 DEF Distinct, n
  <2>9. Distinct(r)
    <3> SUFFICES ASSUME NEW j \in 1..(n - 1), NEW k \in 1..(n - 1), r[j] = r[k] PROVE j = k
      BY <2>7 DEF Distinct
    <3> DEFINE x == IF j < p THEN j ELSE j + 1
               y == IF k < p THEN k ELSE k + 1
    <3>1. x \in 1..n /\ y \in 1..n /\ s[x] = s[y]
      BY <1>1, <2>3, <2>7
    <3>2. x = y
      BY <3>1 DEF Distinct, n
    <3> QED
      BY <1>1, <2>3, <3>2
  <2>10. Entries(r) \subseteq Entries(s) \ {t}
    <3> SUFFICES ASSUME NEW k \in 1..(n - 1) PROVE r[k] \in Entries(s) \ {t}
      BY <2>7 DEF Entries
    <3> DEFINE x == IF k < p THEN k ELSE k + 1
    <3>1. x \in 1..n /\ r[k] = s[x] /\ x # p
      BY <1>1, <2>3, <2>7
    <3> QED
      BY <2>8, <3>1 DEF Entries, n
  <2>11. ASSUME NEW u \in Entries(s), u # t PROVE u \in Entries(r)
    <3>1. PICK x \in 1..n : s[x] = u
      BY <2>11 DEF Entries, n
    <3> DEFINE k == IF x < p THEN x ELSE x - 1
    <3>2. x # p
      BY <2>3, <2>11, <3>1
    <3>3. k \in 1..(n - 1) /\ r[k] = u
      BY <1>1, <2>3, <2>7, <3>1, <3>2
    <3> QED
      BY <2>7, <3>3 DEF Entries
  <2> QED
    BY <1>1, <1>3, <2>3, <2>7, <2>9, <2>10, <2>11 DEF r, n
<1> QED
  BY <1>2, <1>3

\* A text is added at the end, and the oldest entry may be dropped.
LEMMA Addition ==
  ASSUME NEW s \in Seq(Keys), Distinct(s), NEW t \in Keys, t \notin Entries(s)
  PROVE  LET g == Append(s, t)
         IN  /\ g \in Seq(Keys) /\ Distinct(g) /\ Len(g) = Len(s) + 1 /\ Len(s) \in Nat
             /\ Entries(g) = Entries(s) \cup {t}
             /\ Tail(g) \in Seq(Keys) /\ Distinct(Tail(g)) /\ Len(Tail(g)) = Len(s)
             /\ Entries(Tail(g)) \subseteq Entries(g)
<1> DEFINE g == Append(s, t)
           n == Len(s)
<1>1. n \in Nat /\ g \in Seq(Keys) /\ Len(g) = n + 1 /\ g[n + 1] = t /\ \A k \in 1..n : g[k] = s[k]
  OBVIOUS
<1> HIDE DEF g, n
<1>2. Distinct(g)
  <2> SUFFICES ASSUME NEW j \in 1..(n + 1), NEW k \in 1..(n + 1), g[j] = g[k] PROVE j = k
    BY <1>1 DEF Distinct
  <2>1. j \in 1..n \/ j = n + 1
    BY <1>1
  <2>2. k \in 1..n \/ k = n + 1
    BY <1>1
  <2>3. \A i \in 1..n : s[i] # t
    BY DEF Entries, n
  <2> QED
    BY <1>1, <2>1, <2>2, <2>3 DEF Distinct, n
<1>3. Entries(g) = Entries(s) \cup {t}
  <2>1. Entries(g) \subseteq Entries(s) \cup {t}
    <3> SUFFICES ASSUME NEW k \in 1..(n + 1) PROVE g[k] \in Entries(s) \cup {t}
      BY <1>1 DEF Entries
    <3>1. k \in 1..n \/ k = n + 1
      BY <1>1
    <3> QED
      BY <1>1, <3>1 DEF Entries, n
  <2>2. Entries(s) \subseteq Entries(g)
    <3> SUFFICES ASSUME NEW k \in 1..n PROVE s[k] \in Entries(g)
      BY DEF Entries, n
    <3>1. k \in 1..(n + 1)
      BY <1>1
    <3> QED
      BY <1>1, <3>1 DEF Entries
  <2>3. t \in Entries(g)
    <3>1. n + 1 \in 1..(n + 1)
      BY <1>1
    <3> QED
      BY <1>1, <3>1 DEF Entries
  <2> QED
    BY <2>1, <2>2, <2>3
<1>4. /\ Tail(g) \in Seq(Keys) /\ Len(Tail(g)) = n /\ \A k \in 1..n : Tail(g)[k] = g[k + 1]
  <2>1. g # <<>>
    BY <1>1
  <2>2. /\ Tail(g) \in Seq(Keys) /\ Len(Tail(g)) = Len(g) - 1
        /\ \A k \in 1..Len(Tail(g)) : Tail(g)[k] = g[k + 1]
    BY <1>1, <2>1, HeadTailProperties
  <2>3. Len(Tail(g)) = n
    BY <1>1, <2>2
  <2> QED
    BY <2>2, <2>3
<1>5. \A k \in 1..n : k + 1 \in 1..Len(g)
  BY <1>1
<1>6. Distinct(Tail(g))
  <2> SUFFICES ASSUME NEW j \in 1..n, NEW k \in 1..n, g[j + 1] = g[k + 1] PROVE j = k
    BY <1>4 DEF Distinct
  <2>1. j + 1 = k + 1
    BY <1>2, <1>5 DEF Distinct
  <2> QED
    BY <1>1, <2>1
<1>7. Entries(Tail(g)) \subseteq Entries(g)
  BY <1>4, <1>5 DEF Entries
<1> QED
  BY <1>1, <1>2, <1>3, <1>4, <1>6, <1>7 DEF g, n

(***************************************************************************)
(* Requests, flights, batcher and cache together.                          *)
(***************************************************************************)

Types ==
  /\ flightOf \in [Keys -> Items \cup {NoFlight}]
  /\ phase \in [Requests -> {"new", "waiting", "answered", "failed"}]
  /\ joined \in [Requests -> Items \cup {NoFlight}]

\* A pending item is the published flight of its text.
FlightsInv == \A i \in Pending : flightOf[KeyOf[i]] = i

\* Without a batcher nothing is ever queued.
BatcherUse == ~batcherOn => queue = <<>> /\ batches = {} /\ timer = FALSE

\* The cache within its bound, and only of texts whose vector has come.
CacheInv ==
  /\ cache \in Seq(Keys) /\ Len(cache) <= MaxEntries /\ Distinct(cache)
  /\ stale \subseteq Cached
  /\ \A t \in Cached : \E i \in Items : KeyOf[i] = t /\ vector[i] = t

RecallInv == BatcherInv /\ Types /\ FlightsInv /\ BatcherUse /\ CacheInv

LEMMA CachedEntries == Cached = Entries(cache) /\ Cached' = Entries(cache')
BY DEF Cached, Entries

LEMMA RecallStarts == Init => RecallInv
<1> SUFFICES ASSUME Init PROVE RecallInv
  OBVIOUS
<1> USE DEF Init
<1>1. BatcherInv
  BY BatcherStarts
<1>2. Types
  BY DEF Types
<1>3. FlightsInv /\ BatcherUse
  BY DEF FlightsInv, Pending, BatcherUse, BatcherInit
<1>4. CacheInv
  BY RecallConstants DEF CacheInv, Cached, Distinct
<1> QED
  BY <1>1, <1>2, <1>3, <1>4 DEF RecallInv

\* Whatever else happens, what the cache holds keeps its item.
LEMMA CacheStays ==
  ASSUME CacheInv, UNCHANGED <<cache, stale>>,
         \A i \in Items : vector[i] = KeyOf[i] => vector'[i] = KeyOf[i]
  PROVE  CacheInv'
<1>1. Cached' = Cached
  BY DEF Cached
<1>2. \A t \in Cached' : \E i \in Items : KeyOf[i] = t /\ vector'[i] = t
  BY <1>1 DEF CacheInv
<1> QED
  BY <1>1, <1>2 DEF CacheInv, Distinct

LEMMA MissKeepsCache ==
  ASSUME CacheInv, NEW t, CacheMiss(t),
         \A i \in Items : vector[i] = KeyOf[i] => vector'[i] = KeyOf[i]
  PROVE  CacheInv'
<1>1. cache' = RemoveFirst(cache, t) /\ stale' = stale \ {t}
  BY DEF CacheMiss
<1>2. cache \in Seq(Keys) /\ Len(cache) <= MaxEntries /\ Distinct(cache) /\ stale \subseteq Cached
  BY DEF CacheInv
<1>3. /\ cache' \in Seq(Keys) /\ Distinct(cache') /\ Len(cache') \in Nat /\ Len(cache) \in Nat
      /\ Entries(cache') = Entries(cache) \ {t}
      /\ Len(cache') = IF t \in Entries(cache) THEN Len(cache) - 1 ELSE Len(cache)
  BY <1>1, <1>2, Removal
<1>4. Len(cache') <= MaxEntries
  BY <1>2, <1>3, RecallConstants
<1>5. Cached' = Cached \ {t}
  BY <1>3, CachedEntries
<1>6. stale' \subseteq Cached'
  BY <1>1, <1>2, <1>5
<1>7. \A u \in Cached' : \E i \in Items : KeyOf[i] = u /\ vector'[i] = u
  BY <1>5 DEF CacheInv
<1>8. Distinct(cache)'
  BY <1>3 DEF Distinct
<1> QED
  BY <1>3, <1>4, <1>6, <1>7, <1>8 DEF CacheInv

LEMMA HitKeepsCache ==
  ASSUME CacheInv, NEW t \in Cached, cache' = Append(RemoveFirst(cache, t), t),
         UNCHANGED <<stale, vector>>
  PROVE  CacheInv'
<1> DEFINE r == RemoveFirst(cache, t)
<1>1. cache \in Seq(Keys) /\ Len(cache) <= MaxEntries /\ Distinct(cache) /\ stale \subseteq Cached
  BY DEF CacheInv
<1>2. t \in Entries(cache) /\ t \in Keys
  BY <1>1 DEF Cached, Entries
<1>3. /\ r \in Seq(Keys) /\ Distinct(r) /\ Len(r) \in Nat /\ Len(cache) \in Nat
      /\ Entries(r) = Entries(cache) \ {t} /\ Len(r) = Len(cache) - 1
  BY <1>1, <1>2, Removal
<1> HIDE DEF r
<1>4. /\ cache' \in Seq(Keys) /\ Distinct(cache') /\ Len(cache') = Len(r) + 1
      /\ Entries(cache') = Entries(r) \cup {t}
  <2>1. t \notin Entries(r) /\ cache' = Append(r, t)
    BY <1>3 DEF r
  <2> QED
    BY <1>2, <1>3, <2>1, Addition
<1>5. Len(cache') <= MaxEntries
  BY <1>1, <1>3, <1>4
<1>6. Cached' = Cached
  BY <1>2, <1>3, <1>4, CachedEntries
<1>7. \A u \in Cached' : \E i \in Items : KeyOf[i] = u /\ vector'[i] = u
  BY <1>6 DEF CacheInv
<1>8. Distinct(cache)'
  BY <1>4 DEF Distinct
<1> QED
  BY <1>1, <1>4, <1>5, <1>6, <1>7, <1>8 DEF CacheInv

LEMMA SetKeepsCache ==
  ASSUME CacheInv, NEW i \in Items, vector[i] = KeyOf[i], CacheSet(KeyOf[i]), UNCHANGED vector
  PROVE  CacheInv'
<1> DEFINE t == KeyOf[i]
           r == RemoveFirst(cache, t)
           g == Append(r, t)
<1>1. cache \in Seq(Keys) /\ Len(cache) <= MaxEntries /\ Distinct(cache) /\ stale \subseteq Cached
  BY DEF CacheInv
<1>2. /\ cache' = IF Len(g) > MaxEntries THEN Tail(g) ELSE g
      /\ stale' = {u \in stale : Contains(cache', u)} \ {t}
  BY DEF CacheSet
<1>3. t \in Keys /\ vector'[i] = t
  BY DEF Keys
<1>4. /\ r \in Seq(Keys) /\ Distinct(r) /\ Len(r) \in Nat /\ Len(cache) \in Nat
      /\ Entries(r) = Entries(cache) \ {t}
      /\ Len(r) = IF t \in Entries(cache) THEN Len(cache) - 1 ELSE Len(cache)
  BY <1>1, Removal
<1> HIDE DEF t, r
<1>5. /\ g \in Seq(Keys) /\ Distinct(g) /\ Len(g) = Len(r) + 1 /\ Entries(g) = Entries(r) \cup {t}
      /\ Tail(g) \in Seq(Keys) /\ Distinct(Tail(g)) /\ Len(Tail(g)) = Len(r)
      /\ Entries(Tail(g)) \subseteq Entries(g)
  <2>1. t \notin Entries(r)
    BY <1>4
  <2> QED
    BY <1>3, <1>4, <2>1, Addition
<1> HIDE DEF g
<1>6. /\ cache' \in Seq(Keys) /\ Distinct(cache') /\ Entries(cache') \subseteq Entries(cache) \cup {t}
  BY <1>2, <1>4, <1>5
<1>7. Len(cache') <= MaxEntries
  BY <1>1, <1>2, <1>4, <1>5, RecallConstants
<1>8. stale' \subseteq Cached'
  BY <1>2 DEF Contains, Cached
<1>9. \A u \in Cached' : \E j \in Items : KeyOf[j] = u /\ vector'[j] = u
  <2> SUFFICES ASSUME NEW u \in Cached' PROVE \E j \in Items : KeyOf[j] = u /\ vector'[j] = u
    OBVIOUS
  <2>1. u \in Cached \/ u = t
    BY <1>6, CachedEntries
  <2> QED
    BY <1>3, <2>1 DEF CacheInv, t
<1>10. Distinct(cache)'
  BY <1>6 DEF Distinct
<1> QED
  BY <1>6, <1>7, <1>8, <1>9, <1>10 DEF CacheInv

\* The step that starts a flight of the batcher or of its own.
LEMMA TakeOffKeeps ==
  ASSUME BatcherInv, BatcherUse, NEW i \in Items, TakeOff(i), UNCHANGED batcherOn
  PROVE  /\ BatcherInv' /\ BatcherUse' /\ Pending' \subseteq Pending \cup {i} /\ vector' = vector
         /\ state[i] = "new"
<1>1. state \in [Items -> States]
  BY DEF BatcherInv, TypeOK
<1>2. CASE batcherOn /\ Enqueue(i)
  <2>1. BatcherInv'
    BY <1>2, EnqueueKeeps
  <2>2. \A j \in Items : j # i => state'[j] = state[j]
    BY <1>1, <1>2 DEF Enqueue
  <2> QED
    BY <1>2, <2>1, <2>2 DEF Enqueue, BatcherUse, Pending
<1>3. CASE ~(batcherOn /\ Enqueue(i))
  <2>1. /\ ~batcherOn /\ state[i] = "new" /\ state' = [state EXCEPT ![i] = "embedding"]
        /\ UNCHANGED <<queue, expired, timer, inflight, batches, vector>>
    BY <1>3 DEF TakeOff
  <2>2. queue = <<>> /\ batches = {}
    BY <2>1 DEF BatcherUse
  <2>3. /\ state' \in [Items -> States] /\ \A j \in Items : j # i => state'[j] = state[j]
        /\ state'[i] = "embedding"
    BY <1>1, <2>1 DEF States
  <2>4. TypeOK'
    BY <2>1, <2>3 DEF BatcherInv, TypeOK
  <2>5. OwnVector'
    BY <2>1, <2>3 DEF BatcherInv, OwnVector
  <2>6. BatcherInv'
    BY <2>1, <2>2, <2>4, <2>5 DEF BatcherInv, Distinct
  <2> QED
    BY <2>1, <2>3, <2>6 DEF BatcherUse, Pending
<1> QED
  BY <1>2, <1>3

LEMMA RecallSteps == RecallInv /\ [Next]_vars => RecallInv'
<1> SUFFICES ASSUME RecallInv, [Next]_vars PROVE RecallInv'
  OBVIOUS
<1> USE DEF RecallInv
<1>1. ASSUME UNCHANGED recallVars, BatcherInv', Onward, BatcherUse' PROVE RecallInv'
  <2>1. Types'
    BY <1>1 DEF recallVars, Types
  <2>2. FlightsInv'
    BY <1>1 DEF recallVars, FlightsInv, Onward
  <2>3. CacheInv'
    BY <1>1, CacheStays DEF recallVars, Onward
  <2> QED
    BY <1>1, <2>1, <2>2, <2>3
<1>2. ASSUME UNCHANGED <<batcherVars, batcherOn>>
      PROVE  BatcherInv' /\ BatcherUse' /\ Pending' = Pending /\ vector' = vector
  <2>1. BatcherInv'
    BY <1>2, BatcherSteps
  <2> QED
    BY <1>2, <2>1 DEF BatcherUse, Pending, batcherVars
<1>3. CASE UNCHANGED vars
  BY <1>1, <1>2, <1>3 DEF vars, recallVars, Onward
<1>4. CASE BatcherWorks
  <2>1. UNCHANGED recallVars /\ (Age \/ Flush \/ BatchSettlesSomehow \/ SomeBatchEnds)
    BY <1>4 DEF BatcherWorks
  <2>2. BatcherInv' /\ Onward
    BY <2>1, BatcherSteps
  <2>3. batcherOn
    <3> SUFFICES ASSUME ~batcherOn PROVE FALSE
      OBVIOUS
    <3>1. queue = <<>> /\ batches = {} /\ timer = FALSE /\ expired \in 0..Len(queue)
      BY DEF BatcherUse, BatcherInv, TypeOK
    <3> QED
      BY <2>1, <3>1 DEF Age, Flush, FlushBusy, FlushRuns, BatchSettlesSomehow, SomeBatchEnds
  <2> QED
    BY <1>1, <2>1, <2>2, <2>3 DEF BatcherUse, recallVars
<1>5. CASE \E t \in Keys : Expire(t)
  <2>1. PICK t \in Keys : Expire(t)
    BY <1>5
  <2>2. /\ UNCHANGED <<batcherVars, batcherOn, cache, flightOf, phase, joined>>
        /\ t \in Cached /\ stale' = stale \cup {t}
    BY <2>1 DEF Expire
  <2>3. CacheInv'
    <3>1. vector' = vector /\ Cached' = Cached
      BY <2>2 DEF batcherVars, Cached
    <3> QED
      BY <2>2, <3>1 DEF CacheInv, Distinct
  <2> QED
    BY <1>2, <2>2, <2>3 DEF Types, FlightsInv
<1>6. CASE \E q \in Requests : AskHit(q)
  <2>1. PICK q \in Requests : AskHit(q)
    BY <1>6
  <2> DEFINE t == TextAsked[q]
  <2>2. /\ UNCHANGED <<batcherVars, batcherOn, stale, flightOf, joined>> /\ t \in Cached
        /\ cache' = Append(RemoveFirst(cache, t), t) /\ phase' = [phase EXCEPT ![q] = "answered"]
    BY <2>1 DEF AskHit
  <2> HIDE DEF t
  <2>3. vector' = vector
    BY <2>2 DEF batcherVars
  <2>4. CacheInv'
    BY <2>2, <2>3, HitKeepsCache
  <2>5. Types'
    BY <2>2 DEF Types
  <2> QED
    BY <1>2, <2>2, <2>4, <2>5 DEF FlightsInv
<1>7. CASE \E q \in Requests : AskJoins(q)
  <2>1. PICK q \in Requests : AskJoins(q)
    BY <1>7
  <2> DEFINE t == TextAsked[q]
  <2>2. /\ UNCHANGED <<batcherVars, batcherOn, flightOf>> /\ CacheMiss(t) /\ t \in Keys
        /\ joined' = [joined EXCEPT ![q] = flightOf[t]] /\ phase' = [phase EXCEPT ![q] = "waiting"]
    BY <2>1, RecallConstants DEF AskJoins
  <2> HIDE DEF t
  <2>3. vector' = vector
    BY <2>2 DEF batcherVars
  <2>4. CacheInv'
    BY <2>2, <2>3, MissKeepsCache
  <2>5. Types'
    BY <2>2 DEF Types
  <2> QED
    BY <1>2, <2>2, <2>4, <2>5 DEF FlightsInv
<1>8. CASE \E q \in Requests : AskFlies(q)
  <2>1. PICK q \in Requests : AskFlies(q)
    BY <1>8
  <2> DEFINE t == TextAsked[q]
             i == CHOOSE x \in NewFlights(t) : TRUE
  <2>2. /\ flightOf[t] = NoFlight /\ CacheMiss(t) /\ t \in Keys /\ NewFlights(t) # {}
        /\ TakeOff(i) /\ flightOf' = [flightOf EXCEPT ![t] = i]
        /\ joined' = [joined EXCEPT ![q] = i] /\ phase' = [phase EXCEPT ![q] = "waiting"]
        /\ UNCHANGED batcherOn
    BY <2>1, RecallConstants DEF AskFlies
  <2>3. i \in Items /\ KeyOf[i] = t
    BY <2>2 DEF NewFlights
  <2> HIDE DEF t, i
  <2>4. /\ BatcherInv' /\ BatcherUse' /\ Pending' \subseteq Pending \cup {i} /\ vector' = vector
    BY <2>2, <2>3, TakeOffKeeps
  <2>5. CacheInv'
    BY <2>2, <2>4, MissKeepsCache
  <2>6. Types'
    BY <2>2, <2>3 DEF Types
  <2>7. FlightsInv'
    <3> SUFFICES ASSUME NEW j \in Pending' PROVE flightOf'[KeyOf[j]] = j
      BY DEF FlightsInv
    <3>1. CASE j = i
      BY <2>2, <2>3, <3>1 DEF Types
    <3>2. CASE j # i
      <4>1. j \in Pending /\ j \in Items /\ flightOf[KeyOf[j]] = j /\ KeyOf[j] \in Keys
        BY <2>4, <3>2 DEF FlightsInv, Pending, Keys
      <4>2. KeyOf[j] # t
        BY <2>2, <4>1, RecallConstants
      <4> QED
        BY <2>2, <4>1, <4>2 DEF Types
    <3> QED
      BY <3>1, <3>2
  <2> QED
    BY <2>4, <2>5, <2>6, <2>7
<1>9. CASE \E i \in Items : DirectCallEnds(i)
  <2>1. PICK i \in Items : DirectCallEnds(i)
    BY <1>9
  <2>2. /\ ~batcherOn /\ state[i] = "embedding" /\ state \in [Items -> States]
        /\ vector \in [Items -> Keys \cup {NoVector}]
        /\ UNCHANGED <<queue, expired, timer, inflight, batches, recallVars>>
        /\ \/ state' = [state EXCEPT ![i] = "resolved"] /\ vector' = [vector EXCEPT ![i] = KeyOf[i]]
           \/ state' = [state EXCEPT ![i] = "rejected"] /\ vector' = vector
    BY <2>1 DEF DirectCallEnds, BatcherInv, TypeOK
  <2>3. queue = <<>> /\ batches = {}
    BY <2>2 DEF BatcherUse
  <2>4. /\ state' \in [Items -> States] /\ vector' \in [Items -> Keys \cup {NoVector}]
        /\ \A j \in Items : j # i => state'[j] = state[j] /\ vector'[j] = vector[j]
        /\ \/ state'[i] = "resolved" /\ vector'[i] = KeyOf[i]
           \/ state'[i] = "rejected" /\ vector'[i] = vector[i]
    BY <2>2 DEF States, Keys
  <2>5. TypeOK'
    BY <2>2, <2>4 DEF BatcherInv, TypeOK
  <2>6. OwnVector'
    BY <2>2, <2>4 DEF BatcherInv, OwnVector
  <2>7. BatcherInv'
    BY <2>2, <2>3, <2>5, <2>6 DEF BatcherInv, Distinct
  <2>8. Onward
    BY <2>2, <2>4 DEF Onward, Pending
  <2> QED
    BY <1>1, <2>2, <2>7, <2>8 DEF BatcherUse, recallVars
<1>10. CASE \E i \in Items : Lands(i)
  <2>1. PICK i \in Items : Lands(i)
    BY <1>10
  <2>2. /\ state[i] \in Settled /\ CacheAnswer(i) /\ KeyOf[i] \in Keys
        /\ flightOf[KeyOf[i]] = i /\ flightOf' = [flightOf EXCEPT ![KeyOf[i]] = NoFlight]
        /\ AnswerWaiters(i) /\ UNCHANGED <<batcherVars, batcherOn, joined>>
    BY <2>1 DEF Lands, Keys
  <2>3. BatcherInv' /\ BatcherUse' /\ Pending' = Pending /\ vector' = vector
    BY <1>2, <2>2
  <2>4. CacheInv'
    <3>1. CASE cacheOn /\ state[i] = "resolved"
      <4>1. vector[i] = KeyOf[i]
        BY <3>1 DEF BatcherInv, OwnVector
      <4> QED
        BY <2>2, <2>3, <3>1, <4>1, SetKeepsCache DEF CacheAnswer
    <3>2. CASE ~(cacheOn /\ state[i] = "resolved")
      BY <2>2, <2>3, <3>2, CacheStays DEF CacheAnswer
    <3> QED
      BY <3>1, <3>2
  <2>5. Types'
    BY <2>2 DEF Types, AnswerWaiters
  <2>6. FlightsInv'
    <3> SUFFICES ASSUME NEW j \in Pending PROVE flightOf'[KeyOf[j]] = j
      BY <2>3 DEF FlightsInv
    <3>1. j \in Items /\ flightOf[KeyOf[j]] = j /\ KeyOf[j] \in Keys /\ i \notin Pending
      BY <2>2 DEF FlightsInv, Pending, Keys, Settled
    <3>2. KeyOf[j] # KeyOf[i]
      BY <2>2, <3>1
    <3> QED
      BY <2>2, <3>1, <3>2 DEF Types
  <2> QED
    BY <2>3, <2>4, <2>5, <2>6
<1> QED
  BY <1>3, <1>4, <1>5, <1>6, <1>7, <1>8, <1>9, <1>10 DEF Next

LEMMA RecallInvariant == Spec => []RecallInv
BY RecallStarts, RecallSteps, PTL DEF Spec

\* The queue, the batches and the cache stay within their limits, and the
\* cache holds a text once, and none whose flight failed.
THEOREM RecallTypesHold == Spec => []RecallTypeOK
<1>1. RecallInv => RecallTypeOK
  <2> SUFFICES ASSUME RecallInv PROVE RecallTypeOK
    OBVIOUS
  <2> USE DEF RecallInv
  <2>1. Cardinality(Cached) = Len(cache)
    BY EntriesCount, CachedEntries DEF CacheInv
  <2> QED
    BY <2>1 DEF RecallTypeOK, BatcherInv, Types, CacheInv
<1> QED
  BY <1>1, RecallInvariant, PTL

\* Each resolved item has the vector of its own text.
THEOREM VectorsAreOwn == Spec => []OwnVector
<1>1. RecallInv => OwnVector
  BY DEF RecallInv, BatcherInv
<1> QED
  BY <1>1, RecallInvariant, PTL

\* At most one provider request for a text is pending: a pending item is the
\* published flight of its text, and a request flies only if there is none.
THEOREM FlightsAreShared == Spec => []OneFlightPerText
<1>1. RecallInv => OneFlightPerText
  BY DEF RecallInv, FlightsInv, Pending, OneFlightPerText
<1> QED
  BY <1>1, RecallInvariant, PTL
=============================================================================
