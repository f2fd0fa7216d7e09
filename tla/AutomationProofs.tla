-------------------------- MODULE AutomationProofs --------------------------
(***************************************************************************)
(* For every graph: validation accepts exactly the sound ones, and its     *)
(* order fits them.  For every set of submitted graphs and every number of *)
(* versions, cancels and crashes: what a run starts, approves and resumes. *)
(*                                                                         *)
(* Validation is a search and a loop over data, so its part begins with    *)
(* induction over the naturals, taken from the least element of a set, and *)
(* with what sequences of distinct entries have in common.                 *)
(***************************************************************************)
EXTENDS Automation, FiniteSetTheorems, SequenceTheorems, WellFoundedInduction, TLAPS

(***************************************************************************)
(* Naturals, sequences, and sets of ids in their order.                    *)
(***************************************************************************)

LEMMA LeastNatural ==
  ASSUME NEW T \in SUBSET Nat, T # {}
  PROVE  \E x \in T : \A y \in T : x <= y
<1>1. IsWellFoundedOn(OpToRel(<, Nat), Nat)
  BY NatLessThanWellFounded
<1>2. PICK x \in T : \A y \in T : ~(<<y, x>> \in OpToRel(<, Nat))
  BY <1>1, WFMin
<1>3. \A y \in T : ~(y < x)
  BY <1>2 DEF OpToRel
<1> QED
  BY <1>3

\* A set of naturals that holds zero and the successors of what it holds.
LEMMA AllNaturals ==
  ASSUME NEW T, 0 \in T, \A n \in Nat : n \in T => n + 1 \in T
  PROVE  \A n \in Nat : n \in T
<1> SUFFICES ASSUME NEW n \in Nat, n \notin T PROVE FALSE
  OBVIOUS
<1> DEFINE U == Nat \ T
<1>1. PICK x \in U : \A y \in U : x <= y
  <2>1. U \in SUBSET Nat /\ U # {}
    OBVIOUS
  <2> HIDE DEF U
  <2> QED
    BY <2>1, LeastNatural
<1>2. x \in Nat /\ x # 0 /\ x - 1 \in Nat
  OBVIOUS
<1>3. x - 1 \in T
  BY <1>1, <1>2
<1>4. x - 1 + 1 = x
  BY <1>2
<1> QED
  BY <1>1, <1>2, <1>3, <1>4

Approximates(h, n, S, s0, step) ==
  /\ h \in [0..n -> S] /\ h[0] = s0
  /\ \A k \in 0..(n - 1) : h[k + 1] = step[h[k]]

LEMMA Recursion ==
  ASSUME NEW S, NEW s0 \in S, NEW step \in [S -> S]
  PROVE  \E f \in [Nat -> S] : f[0] = s0 /\ \A n \in Nat : f[n + 1] = step[f[n]]
<1> DEFINE A(h, n) == Approximates(h, n, S, s0, step)
<1>1. \A n \in Nat : \E h : A(h, n)
  <2> DEFINE T == {n \in Nat : \E h : A(h, n)}
  <2>1. 0 \in T
    <3>1. A([k \in 0..0 |-> s0], 0)
      BY DEF Approximates
    <3> QED
      BY <3>1
  <2>2. ASSUME NEW n \in Nat, n \in T PROVE n + 1 \in T
    <3>1. PICK h : A(h, n)
      BY <2>2
    <3> DEFINE hh == [k \in 0..(n + 1) |-> IF k <= n THEN h[k] ELSE step[h[n]]]
    <3>2. h \in [0..n -> S] /\ h[0] = s0 /\ \A k \in 0..(n - 1) : h[k + 1] = step[h[k]]
      BY <3>1 DEF Approximates
    <3>3. n \in 0..n /\ h[n] \in S /\ step[h[n]] \in S
      BY <3>2
    <3>4. hh \in [0..(n + 1) -> S]
      <4>1. \A k \in 0..(n + 1) : (IF k <= n THEN h[k] ELSE step[h[n]]) \in S
        BY <3>2, <3>3
      <4> QED
        BY <4>1
    <3>5. hh[0] = s0
      BY <3>2
    <3>6. ASSUME NEW k \in 0..(n + 1 - 1) PROVE hh[k + 1] = step[hh[k]]
      <4>1. CASE k = n
        BY <4>1
      <4>2. CASE k # n
        <5>1. k \in 0..(n - 1) /\ k + 1 <= n /\ k + 1 \in 0..(n + 1) /\ k \in 0..(n + 1)
          BY <4>2
        <5> QED
          BY <3>2, <5>1
      <4> QED
        BY <4>1, <4>2
    <3>7. A(hh, n + 1)
      <4> HIDE DEF hh
      <4> QED
        BY <3>4, <3>5, <3>6 DEF Approximates
    <3> QED
      BY <3>7
  <2>3. \A n \in Nat : n \in T
    <3> HIDE DEF T
    <3> QED
      BY <2>1, <2>2, AllNaturals
  <2> QED
    BY <2>3
<1>2. ASSUME NEW n \in Nat, NEW m \in Nat, NEW g, NEW h, A(g, n), A(h, m), n <= m
      PROVE  \A k \in 0..n : g[k] = h[k]
  <2> DEFINE T == {k \in Nat : k <= n => g[k] = h[k]}
  <2>1. 0 \in T
    BY <1>2 DEF Approximates
  <2>2. ASSUME NEW k \in Nat, k \in T PROVE k + 1 \in T
    <3> SUFFICES ASSUME k + 1 <= n PROVE g[k + 1] = h[k + 1]
      OBVIOUS
    <3>1. k \in 0..(n - 1) /\ k \in 0..(m - 1) /\ g[k] = h[k]
      BY <1>2, <2>2
    <3> QED
      BY <1>2, <3>1 DEF Approximates
  <2>3. \A k \in Nat : k \in T
    <3> HIDE DEF T
    <3> QED
      BY <2>1, <2>2, AllNaturals
  <2> QED
    BY <2>3
<1> DEFINE H(n) == CHOOSE h : A(h, n)
           f == [n \in Nat |-> H(n)[n]]
<1>3. \A n \in Nat : A(H(n), n)
  <2> HIDE DEF A
  <2> QED
    BY <1>1
<1> HIDE DEF H
<1>4. f \in [Nat -> S]
  BY <1>3 DEF Approximates
<1>5. f[0] = s0
  BY <1>3 DEF Approximates
<1>6. ASSUME NEW n \in Nat PROVE f[n + 1] = step[f[n]]
  <2>1. A(H(n), n) /\ A(H(n + 1), n + 1) /\ n + 1 \in Nat /\ n <= n + 1
    BY <1>3
  <2>2. H(n)[n] = H(n + 1)[n]
    <3> HIDE DEF A
    <3> QED
      BY <1>2, <2>1
  <2>3. H(n + 1)[n + 1] = step[H(n + 1)[n]]
    BY <2>1 DEF Approximates
  <2> QED
    BY <2>1, <2>2, <2>3
<1> QED
  BY <1>4, <1>5, <1>6

(***************************************************************************)
(* Sequences by their entries.                                             *)
(***************************************************************************)

Entries(s) == {s[i] : i \in 1..Len(s)}
Distinct(s) == \A i, j \in 1..Len(s) : s[i] = s[j] => i = j

LEMMA SeqWiden ==
  ASSUME NEW S, NEW T, S \subseteq T, NEW s \in Seq(S) PROVE s \in Seq(T)
<1>1. Len(s) \in Nat /\ s \in [1..Len(s) -> S]
  BY LenProperties
<1>2. s \in [1..Len(s) -> T]
  BY <1>1
<1> QED
  BY <1>1, <1>2, SeqDef

LEMMA AppendEntries ==
  ASSUME NEW S, NEW s \in Seq(S), NEW x \in S
  PROVE  /\ Append(s, x) \in Seq(S) /\ Len(Append(s, x)) = Len(s) + 1
         /\ Entries(Append(s, x)) = Entries(s) \cup {x}
         /\ Distinct(s) /\ x \notin Entries(s) => Distinct(Append(s, x))
<1> DEFINE t == Append(s, x)
<1>1. /\ t \in Seq(S) /\ Len(t) = Len(s) + 1 /\ Len(s) \in Nat
      /\ \A i \in 1..Len(s) : t[i] = s[i]
      /\ t[Len(s) + 1] = x
  BY AppendProperties
<1> HIDE DEF t
<1>2. 1..Len(t) = 1..Len(s) \cup {Len(s) + 1}
  BY <1>1
<1>3. Entries(t) = Entries(s) \cup {x}
  BY <1>1, <1>2 DEF Entries
<1>4. ASSUME Distinct(s), x \notin Entries(s) PROVE Distinct(t)
  BY <1>1, <1>2, <1>4 DEF Entries, Distinct
<1> QED
  BY <1>1, <1>3, <1>4 DEF t

LEMMA TailEntries ==
  ASSUME NEW S, NEW s \in Seq(S), s # <<>>
  PROVE  /\ Head(s) \in S /\ Head(s) = s[1] /\ 1 \in 1..Len(s)
         /\ Tail(s) \in Seq(S) /\ Len(Tail(s)) = Len(s) - 1
         /\ Entries(s) = {Head(s)} \cup Entries(Tail(s))
         /\ Distinct(s) => Distinct(Tail(s)) /\ Head(s) \notin Entries(Tail(s))
<1> DEFINE t == Tail(s)
<1>1. /\ Head(s) \in S /\ Head(s) = s[1] /\ 1 \in 1..Len(s) /\ Len(s) \in Nat
      /\ t \in Seq(S) /\ Len(t) = Len(s) - 1
      /\ \A i \in 1..Len(t) : t[i] = s[i + 1]
  BY HeadTailProperties
<1> HIDE DEF t
<1>2. \A i \in 1..Len(t) : i + 1 \in 1..Len(s) /\ i + 1 # 1
  BY <1>1
<1>3. \A i \in 1..Len(s) : i = 1 \/ (i - 1 \in 1..Len(t) /\ t[i - 1] = s[i])
  <2> TAKE i \in 1..Len(s)
  <2> SUFFICES ASSUME i # 1 PROVE i - 1 \in 1..Len(t) /\ t[i - 1] = s[i]
    OBVIOUS
  <2>1. i - 1 \in 1..Len(t) /\ i - 1 + 1 = i
    BY <1>1
  <2> QED
    BY <1>1, <2>1
<1>4. Entries(s) = {Head(s)} \cup Entries(t)
  <2>1. \A x \in Entries(s) : x = Head(s) \/ x \in Entries(t)
    BY <1>1, <1>3 DEF Entries
  <2>2. \A x \in Entries(t) : x \in Entries(s)
    BY <1>1, <1>2 DEF Entries
  <2>3. Head(s) \in Entries(s)
    BY <1>1 DEF Entries
  <2> QED
    BY <2>1, <2>2, <2>3
<1>5. ASSUME Distinct(s) PROVE Distinct(t) /\ Head(s) \notin Entries(t)
  <2>1. \A i, j \in 1..Len(t) : t[i] = t[j] => i + 1 = j + 1
    BY <1>1, <1>2, <1>5 DEF Distinct
  <2>2. \A i \in 1..Len(t) : t[i] # s[1]
    BY <1>1, <1>2, <1>5 DEF Distinct
  <2> QED
    BY <1>1, <2>1, <2>2 DEF Distinct, Entries
<1> QED
  BY <1>1, <1>4, <1>5 DEF t

LEMMA ConcatEntries ==
  ASSUME NEW S, NEW s \in Seq(S), NEW t \in Seq(S)
  PROVE  /\ s \o t \in Seq(S) /\ Len(s \o t) = Len(s) + Len(t)
         /\ Entries(s \o t) = Entries(s) \cup Entries(t)
         /\ Distinct(s) /\ Distinct(t) /\ Entries(s) \cap Entries(t) = {}
              => Distinct(s \o t)
<1> DEFINE u == s \o t
<1>1. /\ u \in Seq(S) /\ Len(u) = Len(s) + Len(t) /\ Len(s) \in Nat /\ Len(t) \in Nat
      /\ \A i \in 1..Len(u) : u[i] = IF i <= Len(s) THEN s[i] ELSE t[i - Len(s)]
  BY ConcatProperties
<1> HIDE DEF u
<1>2. /\ \A i \in 1..Len(s) : i \in 1..Len(u) /\ u[i] = s[i]
      /\ \A i \in 1..Len(t) : Len(s) + i \in 1..Len(u) /\ u[Len(s) + i] = t[i]
  <2>1. ASSUME NEW i \in 1..Len(s) PROVE i \in 1..Len(u) /\ u[i] = s[i]
    BY <1>1
  <2>2. ASSUME NEW i \in 1..Len(t)
        PROVE  Len(s) + i \in 1..Len(u) /\ u[Len(s) + i] = t[i]
    <3>1. Len(s) + i \in 1..Len(u) /\ ~(Len(s) + i <= Len(s)) /\ Len(s) + i - Len(s) = i
      BY <1>1
    <3> QED
      BY <1>1, <3>1
  <2> QED
    BY <2>1, <2>2
<1>3. \A i \in 1..Len(u) :
        \/ i \in 1..Len(s) /\ u[i] = s[i]
        \/ ~(i \in 1..Len(s)) /\ i - Len(s) \in 1..Len(t) /\ u[i] = t[i - Len(s)]
  BY <1>1
<1>4. Entries(u) = Entries(s) \cup Entries(t)
  <2>1. \A x \in Entries(u) : x \in Entries(s) \cup Entries(t)
    BY <1>3 DEF Entries
  <2>2. \A x \in Entries(s) \cup Entries(t) : x \in Entries(u)
    BY <1>2 DEF Entries
  <2> QED
    BY <2>1, <2>2
<1>5. ASSUME Distinct(s), Distinct(t), Entries(s) \cap Entries(t) = {},
             NEW i \in 1..Len(u), NEW j \in 1..Len(u), u[i] = u[j]
      PROVE  i = j
  <2>1. CASE i \in 1..Len(s) /\ j \in 1..Len(s)
    BY <1>3, <1>5, <2>1 DEF Distinct
  <2>2. CASE ~(i \in 1..Len(s)) /\ ~(j \in 1..Len(s))
    <3>1. i - Len(s) = j - Len(s)
      BY <1>3, <1>5, <2>2 DEF Distinct
    <3> QED
      BY <1>1, <3>1
  <2>3. CASE i \in 1..Len(s) /\ ~(j \in 1..Len(s))
    BY <1>3, <1>5, <2>3 DEF Entries
  <2>4. CASE ~(i \in 1..Len(s)) /\ j \in 1..Len(s)
    BY <1>3, <1>5, <2>4 DEF Entries
  <2> QED
    BY <2>1, <2>2, <2>3, <2>4
<1>6. Distinct(s) /\ Distinct(t) /\ Entries(s) \cap Entries(t) = {} => Distinct(u)
  BY <1>5 DEF Distinct
<1> QED
  BY <1>1, <1>4, <1>6 DEF u

\* A sequence has as many entries as places, unless one of them repeats.
LEMMA EntriesCount ==
  ASSUME NEW S, NEW s \in Seq(S)
  PROVE  /\ IsFiniteSet(Entries(s)) /\ Entries(s) \subseteq S
         /\ Cardinality(Entries(s)) \in Nat /\ Len(s) \in Nat
         /\ Cardinality(Entries(s)) <= Len(s)
         /\ Cardinality(Entries(s)) = Len(s) <=> Distinct(s)
<1> DEFINE n == Len(s)
<1>1. n \in Nat /\ s \in [1..n -> S]
  BY LenProperties
<1>2. s \in Surjection(1..n, Entries(s))
  <2>1. s \in [1..n -> Entries(s)]
    <3>1. \A i \in 1..n : s[i] \in Entries(s)
      BY DEF Entries
    <3> QED
      BY <1>1, <3>1
  <2>2. \A x \in Entries(s) : \E i \in 1..n : s[i] = x
    BY DEF Entries
  <2> QED
    BY <2>1, <2>2 DEF Surjection
<1>3. IsFiniteSet(1..n) /\ Cardinality(1..n) = n
  BY <1>1, FS_Interval
<1>4. /\ IsFiniteSet(Entries(s)) /\ Cardinality(Entries(s)) <= n
      /\ Cardinality(Entries(s)) = n <=> s \in Injection(1..n, Entries(s))
  BY <1>2, <1>3, FS_Surjection
<1>5. s \in Injection(1..n, Entries(s)) <=> Distinct(s)
  <2>1. s \in [1..n -> Entries(s)]
    BY <1>2 DEF Surjection
  <2> QED
    BY <2>1 DEF Injection, IsInjective, Distinct
<1>6. Entries(s) \subseteq S
  BY <1>1 DEF Entries
<1> QED
  BY <1>1, <1>4, <1>5, <1>6, FS_CardinalityType

\* A finite set of naturals can be listed in increasing order.
Increasing(s, S) ==
  /\ s \in [1..Cardinality(S) -> S]
  /\ \A j, k \in 1..Cardinality(S) : j < k => s[j] < s[k]

LEMMA SortedExists ==
  ASSUME NEW S \in SUBSET Nat, IsFiniteSet(S) PROVE \E s : Increasing(s, S)
<1> DEFINE Holds(n) == \A R \in SUBSET Nat :
                         IsFiniteSet(R) /\ Cardinality(R) = n => \E s : Increasing(s, R)
           T == {n \in Nat : Holds(n)}
<1>1. 0 \in T
  <2> SUFFICES ASSUME NEW R \in SUBSET Nat, IsFiniteSet(R), Cardinality(R) = 0
               PROVE  \E s : Increasing(s, R)
    OBVIOUS
  <2>1. Increasing([k \in 1..0 |-> 0], R)
    BY DEF Increasing
  <2> QED
    BY <2>1
<1>2. ASSUME NEW n \in Nat, n \in T PROVE n + 1 \in T
  <2> SUFFICES ASSUME NEW R \in SUBSET Nat, IsFiniteSet(R), Cardinality(R) = n + 1
               PROVE  \E s : Increasing(s, R)
    OBVIOUS
  <2>1. R # {}
    BY FS_EmptySet
  <2>2. PICK m \in R : \A x \in R : m <= x
    BY <2>1, LeastNatural
  <2>3. IsFiniteSet(R \ {m}) /\ Cardinality(R \ {m}) = n
    <3>1. /\ IsFiniteSet(R \ {m})
          /\ Cardinality(R \ {m}) = IF m \in R THEN Cardinality(R) - 1 ELSE Cardinality(R)
      BY FS_RemoveElement
    <3>2. m \in R /\ Cardinality(R) = n + 1
      BY <2>2
    <3> HIDE DEF Holds, T
    <3> QED
      BY <3>1, <3>2
  <2>4. PICK s : Increasing(s, R \ {m})
    BY <1>2, <2>3
  <2>5. s \in [1..n -> R \ {m}] /\ \A j, k \in 1..n : j < k => s[j] < s[k]
    BY <2>3, <2>4 DEF Increasing
  <2> DEFINE t == [k \in 1..(n + 1) |-> IF k = 1 THEN m ELSE s[k - 1]]
  <2>6. \A k \in 1..(n + 1) : k # 1 => k - 1 \in 1..n /\ s[k - 1] \in R \ {m}
    BY <2>5
  <2>7. t \in [1..(n + 1) -> R]
    BY <2>6
  <2>8. ASSUME NEW j \in 1..(n + 1), NEW k \in 1..(n + 1), j < k PROVE t[j] < t[k]
    <3>1. k # 1 /\ k - 1 \in 1..n
      BY <2>8
    <3>2. CASE j = 1
      <4>1. s[k - 1] \in R /\ s[k - 1] # m /\ s[k - 1] \in Nat /\ m \in Nat
        BY <2>6, <3>1
      <4>2. m < s[k - 1]
        BY <2>2, <4>1
      <4> QED
        BY <2>8, <3>1, <3>2, <4>2
    <3>3. CASE j # 1
      <4>1. j - 1 \in 1..n /\ j - 1 < k - 1
        BY <2>8, <3>3
      <4>2. s[j - 1] < s[k - 1]
        BY <2>5, <3>1, <4>1
      <4> QED
        BY <2>8, <3>1, <3>3, <4>2
    <3> QED
      BY <3>2, <3>3
  <2>9. Increasing(t, R)
    <3> HIDE DEF t
    <3> QED
      BY <2>7, <2>8 DEF Increasing
  <2> QED
    BY <2>9
<1>3. \A n \in Nat : n \in T
  <2> HIDE DEF T
  <2> QED
    BY <1>1, <1>2, AllNaturals
<1>4. Cardinality(S) \in Nat
  BY FS_CardinalityType
<1> QED
  BY <1>3, <1>4

LEMMA SortedLists ==
  ASSUME NEW S \in SUBSET Nat, IsFiniteSet(S)
  PROVE  /\ Sorted(S) \in Seq(S) /\ Entries(Sorted(S)) = S /\ Distinct(Sorted(S))
<1> DEFINE n == Cardinality(S)
           s == Sorted(S)
<1>1. n \in Nat
  BY FS_CardinalityType
<1>2. s \in [1..n -> S] /\ \A j, k \in 1..n : j < k => s[j] < s[k]
  <2>1. PICK t : Increasing(t, S)
    BY SortedExists
  <2>2. t \in [1..n -> S] /\ \A j, k \in 1..n : j < k => t[j] < t[k]
    BY <2>1 DEF Increasing
  <2> QED
    BY <2>2 DEF Sorted
<1> HIDE DEF n, s
<1>3. s \in Seq(S) /\ Len(s) = n
  BY <1>1, <1>2, SeqDef, LenProperties
<1>4. Distinct(s)
  <2> SUFFICES ASSUME NEW i \in 1..n, NEW j \in 1..n, s[i] = s[j], i < j PROVE FALSE
    BY <1>1, <1>3 DEF Distinct
  <2>1. s[i] < s[j] /\ s[i] \in Nat
    BY <1>2
  <2>2. ~(s[i] < s[i])
    BY <2>1
  <2> QED
    BY <2>1, <2>2
<1>5. Cardinality(Entries(s)) = Cardinality(S) /\ Entries(s) \subseteq S
  BY <1>3, <1>4, EntriesCount DEF n
<1>6. Entries(s) = S
  BY <1>5, FS_Subset
<1> QED
  BY <1>3, <1>4, <1>6 DEF s

(***************************************************************************)
(* Graphs.                                                                 *)
(***************************************************************************)

LEMMA NodesAndEdges ==
  ASSUME NEW g, WellFormed(g)
  PROVE  /\ NodeIds(g) \in SUBSET Nat /\ IsFiniteSet(NodeIds(g)) /\ NodeIds(g) # {}
         /\ NodeIds(g) = Entries(g.ids) /\ Cardinality(NodeIds(g)) \in Nat \ {0}
         /\ SoundEdges(g) \subseteq NodeIds(g) \X NodeIds(g) /\ IsFiniteSet(SoundEdges(g))
         /\ \A e \in SoundEdges(g) :
              e = <<e[1], e[2]>> /\ g.edges[e] \in Nat \ {0}
              /\ e[1] \in NodeIds(g) /\ e[2] \in NodeIds(g) /\ e[1] # e[2]
<1>1. g.ids \in Seq(Nat) /\ g.ids # <<>>
  BY DEF WellFormed
<1>2. NodeIds(g) = Entries(g.ids)
  BY DEF NodeIds, Entries
<1>3. NodeIds(g) \in SUBSET Nat /\ IsFiniteSet(NodeIds(g))
  BY <1>1, <1>2, EntriesCount
<1>4. NodeIds(g) # {}
  <2>1. 1 \in 1..Len(g.ids)
    BY <1>1
  <2> QED
    BY <1>2, <2>1 DEF Entries
<1>5. Cardinality(NodeIds(g)) \in Nat \ {0}
  BY <1>3, <1>4, FS_CardinalityType, FS_EmptySet
<1>6. \A e \in SoundEdges(g) :
        e = <<e[1], e[2]>> /\ g.edges[e] \in Nat \ {0}
        /\ e[1] \in NodeIds(g) /\ e[2] \in NodeIds(g) /\ e[1] # e[2]
  BY DEF SoundEdges, WellFormed
<1>7. SoundEdges(g) \subseteq NodeIds(g) \X NodeIds(g)
  BY <1>6
<1>8. IsFiniteSet(SoundEdges(g))
  <2>1. IsFiniteSet(NodeIds(g) \X NodeIds(g))
    BY <1>3, FS_Product
  <2> QED
    BY <1>7, <2>1, FS_Subset
<1> QED
  BY <1>2, <1>3, <1>4, <1>5, <1>6, <1>7, <1>8

LEMMA SuccessorEdges ==
  ASSUME NEW g, WellFormed(g), NEW m, NEW n
  PROVE  /\ n \in Successors(g, m) <=> <<m, n>> \in SoundEdges(g)
         /\ Successors(g, m) \subseteq NodeIds(g)
<1>1. \A e \in SoundEdges(g) : e = <<e[1], e[2]>> /\ e[2] \in NodeIds(g)
  BY NodesAndEdges
<1> QED
  BY <1>1 DEF Successors

LEMMA WidenedNodes ==
  ASSUME NEW g, WellFormed(g), NEW U
  PROVE  /\ \A x : x \in Widened(g, U) <=> x \in U \/ \E n \in U : <<n, x>> \in SoundEdges(g)
         /\ \A x \in Widened(g, U) : x \in U \cup NodeIds(g)
<1>1. \A n, x : x \in Successors(g, n) <=> <<n, x>> \in SoundEdges(g)
  BY SuccessorEdges
<1>2. \A x : x \in Widened(g, U) <=> x \in U \/ \E n \in U : x \in Successors(g, n)
  BY DEF Widened
<1>3. \A n : Successors(g, n) \subseteq NodeIds(g)
  BY SuccessorEdges
<1> QED
  BY <1>1, <1>2, <1>3

\* What a search from a node has reached after each of its rounds.
LEMMA SearchRounds ==
  ASSUME NEW g, WellFormed(g), NEW from, NEW to
  PROVE  \E level \in [Nat -> SUBSET (NodeIds(g) \cup {from})] :
           /\ level[0] = {from}
           /\ \A k \in Nat : level[k + 1] = Widened(g, level[k])
           /\ HasGraphPath(g, from, to) <=> to \in level[Cardinality(NodeIds(g))]
<1> DEFINE S == SUBSET (NodeIds(g) \cup {from})
           W == [U \in S |-> Widened(g, U)]
           Round(f) == [k \in Nat |-> IF k = 0 THEN {from} ELSE Widened(g, f[k - 1])]
           level == CHOOSE f : f = Round(f)
<1>1. W \in [S -> S] /\ {from} \in S
  <2>1. \A U \in S : Widened(g, U) \in S
    <3> TAKE U \in S
    <3>1. \A x \in Widened(g, U) : x \in NodeIds(g) \cup {from}
      BY WidenedNodes
    <3> QED
      BY <3>1
  <2> QED
    BY <2>1
<1>2. PICK f \in [Nat -> S] : f[0] = {from} /\ \A k \in Nat : f[k + 1] = W[f[k]]
  <2> HIDE DEF S, W
  <2> QED
    BY <1>1, Recursion
<1>3. f = Round(f)
  <2>1. \A k \in Nat : f[k] = IF k = 0 THEN {from} ELSE Widened(g, f[k - 1])
    <3> TAKE k \in Nat
    <3>1. CASE k # 0
      <4>1. k - 1 \in Nat /\ k - 1 + 1 = k
        BY <3>1
      <4>2. f[k] = W[f[k - 1]] /\ f[k - 1] \in S
        BY <1>2, <4>1
      <4> HIDE DEF S
      <4> QED
        BY <3>1, <4>2
    <3> QED
      BY <1>2, <3>1
  <2> HIDE DEF S
  <2> QED
    BY <1>2, <2>1
<1>4. level = Round(level)
  <2> HIDE DEF Round
  <2> QED
    BY <1>3
<1>5. HasGraphPath(g, from, to) <=> to \in level[Cardinality(NodeIds(g))]
  BY DEF HasGraphPath
<1> HIDE DEF level
<1>6. level[0] = {from} /\ \A k \in Nat : level[k + 1] = Widened(g, level[k])
  <2>1. \A k \in Nat : k + 1 \in Nat /\ k + 1 # 0 /\ k + 1 - 1 = k
    OBVIOUS
  <2> QED
    BY <1>4, <2>1
<1>7. level \in [Nat -> S]
  <2> DEFINE T == {k \in Nat : level[k] \in S}
  <2>1. 0 \in T
    BY <1>6
  <2>2. \A k \in Nat : k \in T => k + 1 \in T
    <3> TAKE k \in Nat
    <3>1. ASSUME level[k] \in S PROVE Widened(g, level[k]) \in S
      <4>1. \A x \in Widened(g, level[k]) : x \in NodeIds(g) \cup {from}
        BY <3>1, WidenedNodes
      <4> QED
        BY <4>1
    <3> HIDE DEF S
    <3> QED
      BY <1>6, <3>1
  <2>3. \A k \in Nat : k \in T
    <3> HIDE DEF T
    <3> QED
      BY <2>1, <2>2, AllNaturals
  <2>4. level = [k \in Nat |-> level[k]]
    BY <1>4
  <2> HIDE DEF S
  <2> QED
    BY <2>3, <2>4
<1> QED
  BY <1>5, <1>6, <1>7

\* A path that is found leads from a node to one it precedes.
LEMMA PathPrecedes ==
  ASSUME NEW g, WellFormed(g), NEW from, NEW to, from # to, HasGraphPath(g, from, to)
  PROVE  Precedes(g, from, to)
<1> SUFFICES ASSUME NEW S \in SUBSET NodeIds(g),
                    \A e \in SoundEdges(g) : e[1] \in S \cup {from} => e[2] \in S
             PROVE  to \in S
  BY DEF Precedes
<1>1. PICK level \in [Nat -> SUBSET (NodeIds(g) \cup {from})] :
        /\ level[0] = {from}
        /\ \A k \in Nat : level[k + 1] = Widened(g, level[k])
        /\ HasGraphPath(g, from, to) <=> to \in level[Cardinality(NodeIds(g))]
  BY SearchRounds
<1> DEFINE T == {k \in Nat : \A x \in level[k] : x \in S \cup {from}}
<1>2. 0 \in T
  BY <1>1
<1>3. ASSUME NEW k \in Nat, k \in T PROVE k + 1 \in T
  <2> SUFFICES ASSUME NEW x \in Widened(g, level[k]) PROVE x \in S \cup {from}
    BY <1>1
  <2>1. CASE x \in level[k]
    BY <1>3, <2>1
  <2>2. CASE \E n \in level[k] : <<n, x>> \in SoundEdges(g)
    <3>1. PICK n \in level[k] : <<n, x>> \in SoundEdges(g)
      BY <2>2
    <3>2. n \in S \cup {from}
      BY <1>3, <3>1
    <3>3. <<n, x>>[1] = n /\ <<n, x>>[2] = x
      OBVIOUS
    <3> QED
      BY <3>1, <3>2, <3>3
  <2> QED
    BY <2>1, <2>2, WidenedNodes
<1>4. \A k \in Nat : k \in T
  <2> HIDE DEF T
  <2> QED
    BY <1>2, <1>3, AllNaturals
<1>5. Cardinality(NodeIds(g)) \in Nat
  BY NodesAndEdges
<1> QED
  BY <1>1, <1>4, <1>5

\* A search round that adds nothing ends the search, and there are no more
\* rounds that add something than nodes.
LEMMA PrecedesHasPath ==
  ASSUME NEW g, WellFormed(g), NEW from \in NodeIds(g), NEW to, Precedes(g, from, to)
  PROVE  HasGraphPath(g, from, to)
<1> DEFINE N == Cardinality(NodeIds(g))
<1>1. PICK level \in [Nat -> SUBSET (NodeIds(g) \cup {from})] :
        /\ level[0] = {from}
        /\ \A k \in Nat : level[k + 1] = Widened(g, level[k])
        /\ HasGraphPath(g, from, to) <=> to \in level[N]
  BY SearchRounds
<1>2. /\ IsFiniteSet(NodeIds(g)) /\ N \in Nat
      /\ \A k \in Nat : level[k] \subseteq NodeIds(g)
  BY <1>1, NodesAndEdges
<1>3. \A k \in Nat : IsFiniteSet(level[k]) /\ Cardinality(level[k]) \in Nat
                     /\ Cardinality(level[k]) <= N
  BY <1>2, FS_Subset, FS_CardinalityType
<1>4. \A k \in Nat : level[k] \subseteq level[k + 1]
  BY <1>1 DEF Widened
<1> DEFINE T == {k \in Nat : /\ from \in level[k]
                             /\ \/ level[k + 1] = level[k]
                                \/ Cardinality(level[k]) >= k + 1}
<1>5. 0 \in T
  <2>1. Cardinality(level[0]) = 1
    BY <1>1, FS_Singleton
  <2>2. from \in level[0] /\ Cardinality(level[0]) >= 0 + 1
    BY <1>1, <2>1
  <2> QED
    BY <2>2
<1>6. ASSUME NEW k \in Nat, k \in T PROVE k + 1 \in T
  <2>1. from \in level[k + 1] /\ k + 1 \in Nat
    BY <1>4, <1>6
  <2>2. CASE level[k + 1] = level[k]
    <3>1. level[k + 1 + 1] = level[k + 1]
      BY <1>1, <2>1, <2>2
    <3> QED
      BY <2>1, <3>1
  <2>3. CASE level[k + 1] # level[k] /\ Cardinality(level[k]) >= k + 1
    <3>1. level[k] \in SUBSET level[k + 1] /\ IsFiniteSet(level[k + 1])
      BY <1>3, <1>4, <2>1
    <3>2. /\ Cardinality(level[k]) <= Cardinality(level[k + 1])
          /\ Cardinality(level[k + 1]) # Cardinality(level[k])
      BY <2>3, <3>1, FS_Subset
    <3>3. Cardinality(level[k + 1]) >= k + 1 + 1
      BY <1>3, <2>1, <2>3, <3>2
    <3> QED
      BY <2>1, <3>3
  <2> QED
    BY <1>6, <2>2, <2>3
<1>7. N \in T
  <2>1. \A k \in Nat : k \in T
    <3> HIDE DEF T
    <3> QED
      BY <1>5, <1>6, AllNaturals
  <2> QED
    BY <1>2, <2>1
<1>8. from \in level[N] /\ Widened(g, level[N]) = level[N]
  <2>1. ~(Cardinality(level[N]) >= N + 1)
    BY <1>2, <1>3
  <2> QED
    BY <1>1, <1>2, <1>7, <2>1
<1> DEFINE S == {x \in NodeIds(g) : \E n \in level[N] : <<n, x>> \in SoundEdges(g)}
<1>9. \A x \in S : x \in level[N]
  <2> DEFINE L == level[N]
  <2>1. \A x : x \in Widened(g, L) <=> x \in L \/ \E n \in L : <<n, x>> \in SoundEdges(g)
    BY WidenedNodes
  <2>2. Widened(g, L) = L
    BY <1>8
  <2> HIDE DEF L
  <2>3. \A x, n : n \in L /\ <<n, x>> \in SoundEdges(g) => x \in L
    BY <2>1, <2>2
  <2> QED
    BY <2>3 DEF L
<1>10. ASSUME NEW e \in SoundEdges(g), e[1] \in S \cup {from} PROVE e[2] \in S
  <2>1. e[1] \in level[N]
    BY <1>8, <1>9, <1>10
  <2>2. e = <<e[1], e[2]>> /\ e[2] \in NodeIds(g)
    BY NodesAndEdges
  <2> QED
    BY <1>10, <2>1, <2>2
<1>11. to \in S
  <2>1. S \in SUBSET NodeIds(g)
    OBVIOUS
  <2> HIDE DEF S
  <2> QED
    BY <1>10, <2>1 DEF Precedes
<1> QED
  BY <1>1, <1>9, <1>11

(***************************************************************************)
(* The loop over the queue.                                                *)
(***************************************************************************)

\* The edges into m from nodes not taken yet, and how often they are given.
Waiting(g, Gone, m) == {e \in SoundEdges(g) : e[2] = m /\ e[1] \notin Gone}
Copies(g, W) == UNION {{e} \X (1..g.edges[e]) : e \in W}
Owed(g, Gone, m) == Cardinality(Copies(g, Waiting(g, Gone, m)))

LEMMA WaitingFinite ==
  ASSUME NEW g, WellFormed(g), NEW Gone, NEW m
  PROVE  /\ IsFiniteSet(Copies(g, Waiting(g, Gone, m)))
         /\ Owed(g, Gone, m) \in Nat
         /\ Owed(g, Gone, m) = 0 <=> Waiting(g, Gone, m) = {}
<1> DEFINE W == Waiting(g, Gone, m)
           copies == [e \in W |-> {e} \X (1..g.edges[e])]
           C == {copies[e] : e \in W}
<1>1. IsFiniteSet(W) /\ \A e \in W : g.edges[e] \in Nat \ {0}
  BY NodesAndEdges, FS_Subset DEF Waiting
<1>2. IsFiniteSet(C)
  <2>1. copies \in Surjection(W, C)
    BY DEF Surjection
  <2> HIDE DEF W, copies, C
  <2> QED
    BY <1>1, <2>1, FS_Surjection
<1>3. ASSUME NEW e \in W PROVE IsFiniteSet({e} \X (1..g.edges[e]))
  <2>1. g.edges[e] \in Int
    BY <1>1
  <2>2. IsFiniteSet(1..g.edges[e])
    BY <2>1, FS_Interval
  <2>3. IsFiniteSet({e})
    BY FS_Singleton
  <2> QED
    BY <2>2, <2>3, FS_Product
<1>4. \A T \in C : IsFiniteSet(T)
  BY <1>3
<1>5. Copies(g, W) = UNION C
  BY DEF Copies
<1>6. IsFiniteSet(Copies(g, W))
  <2> HIDE DEF W, copies, C
  <2> QED
    BY <1>2, <1>4, <1>5, FS_UNION
<1>7. \A e \in W : <<e, 1>> \in Copies(g, W)
  BY <1>1 DEF Copies
<1>8. W = {} => Copies(g, W) = {}
  BY DEF Copies
<1> QED
  BY <1>6, <1>7, <1>8, FS_CardinalityType, FS_EmptySet DEF Owed

\* Taking a node settles its edges, and no others.
LEMMA OwedAfter ==
  ASSUME NEW g, WellFormed(g), NEW Gone, NEW n, n \notin Gone, NEW m
  PROVE  Owed(g, Gone \cup {n}, m) =
           IF m \in Successors(g, n) THEN Owed(g, Gone, m) - g.edges[<<n, m>>] ELSE Owed(g, Gone, m)
<1> DEFINE e == <<n, m>>
           W == Waiting(g, Gone, m)
           Own == {e} \X (1..g.edges[e])
<1>1. m \in Successors(g, n) <=> e \in SoundEdges(g)
  BY SuccessorEdges
<1>2. \A x \in SoundEdges(g) : x = <<x[1], x[2]>> /\ g.edges[x] \in Nat \ {0}
  BY NodesAndEdges
<1>3. \A x \in SoundEdges(g) : x[1] = n /\ x[2] = m <=> x = e
  BY <1>2
<1>4. Waiting(g, Gone \cup {n}, m) = W \ {e}
  BY <1>3 DEF Waiting
<1>5. e \in SoundEdges(g) <=> e \in W
  BY <1>3 DEF Waiting
<1>6. CASE e \notin W
  BY <1>1, <1>4, <1>5, <1>6 DEF Owed
<1>7. CASE e \in W
  <2>1. g.edges[e] \in Nat \ {0}
    BY <1>2, <1>5, <1>7
  <2>2. Copies(g, W \ {e}) = Copies(g, W) \ Own
    <3> HIDE DEF e, W
    <3> QED
      BY DEF Copies
  <2>3. Own \subseteq Copies(g, W)
    <3> HIDE DEF e, W
    <3> QED
      BY <1>7 DEF Copies
  <2>4. IsFiniteSet(Own) /\ Cardinality(Own) = g.edges[e]
    <3>1. IsFiniteSet({e}) /\ Cardinality({e}) = 1
      BY FS_Singleton
    <3>2. IsFiniteSet(1..g.edges[e]) /\ Cardinality(1..g.edges[e]) = g.edges[e]
      <4> HIDE DEF e
      <4>1. g.edges[e] \in Int /\ g.edges[e] >= 1
        BY <2>1
      <4>2. /\ IsFiniteSet(1..g.edges[e])
            /\ Cardinality(1..g.edges[e])
                 = IF 1 > g.edges[e] THEN 0 ELSE g.edges[e] - 1 + 1
        BY <4>1, FS_Interval
      <4> QED
        BY <4>1, <4>2
    <3> HIDE DEF e
    <3>3. IsFiniteSet(Own) /\ Cardinality(Own) = 1 * g.edges[e]
      BY <3>1, <3>2, FS_Product
    <3> QED
      BY <2>1, <3>3
  <2>5. Copies(g, W) \cap Own = Own /\ IsFiniteSet(Copies(g, W))
    BY <2>3, WaitingFinite
  <2> HIDE DEF W, Own
  <2>6. Cardinality(Copies(g, W) \ Own)
          = Cardinality(Copies(g, W)) - Cardinality(Copies(g, W) \cap Own)
    BY <2>5, FS_Difference
  <2> QED
    BY <1>1, <1>4, <1>5, <1>7, <2>2, <2>4, <2>5, <2>6 DEF Owed, W
<1> QED
  BY <1>6, <1>7

LEMMA IndegreeOwed ==
  ASSUME NEW g, NEW m PROVE Indegree(g, m) = Owed(g, {}, m)
<1>1. Waiting(g, {}, m) = {e \in SoundEdges(g) : e[2] = m}
  BY DEF Waiting
<1> QED
  BY <1>1 DEF Indegree, Owed, Copies

KahnStates(g) ==
  [queue : Seq(NodeIds(g)), indegree : [NodeIds(g) -> Int], order : Seq(NodeIds(g))]

KahnStart(g) ==
  [queue |-> Sorted(StartNodes(g)),
   indegree |-> [n \in NodeIds(g) |-> Indegree(g, n)], order |-> <<>>]

\* The nodes the loop has taken.
Taken(k) == Entries(k.order)

\* The loop's invariant: nothing is taken or queued twice; the work copy of
\* the indegrees counts the edges from nodes that are not taken; a node is
\* taken or queued as soon as that count is zero; and whatever was taken was
\* taken after all it depends on.
KahnInv(g, k) ==
  /\ k \in KahnStates(g)
  /\ Distinct(k.order) /\ Distinct(k.queue) /\ Taken(k) \cap Entries(k.queue) = {}
  /\ \A m \in NodeIds(g) : k.indegree[m] = Owed(g, Taken(k), m)
  /\ \A m \in NodeIds(g) : k.indegree[m] = 0 <=> m \in Taken(k) \cup Entries(k.queue)
  /\ \A i \in 1..Len(k.order) : \A e \in SoundEdges(g) :
       e[2] = k.order[i] => \E j \in 1..(i - 1) : k.order[j] = e[1]

LEMMA KahnStarts ==
  ASSUME NEW g, WellFormed(g)
  PROVE  KahnInv(g, KahnStart(g))
<1> DEFINE k == KahnStart(g)
           N == NodeIds(g)
<1>1. N \in SUBSET Nat /\ IsFiniteSet(N)
  BY NodesAndEdges
<1>2. StartNodes(g) \in SUBSET N /\ StartNodes(g) \in SUBSET Nat /\ IsFiniteSet(StartNodes(g))
  BY <1>1, FS_Subset DEF StartNodes
<1>3. /\ k.queue \in Seq(StartNodes(g)) /\ Entries(k.queue) = StartNodes(g)
      /\ Distinct(k.queue)
  BY <1>2, SortedLists DEF KahnStart
<1>4. k.queue \in Seq(N)
  BY <1>2, <1>3
<1>5. k.order = <<>> /\ k.order \in Seq(N) /\ Taken(k) = {} /\ Distinct(k.order)
  BY DEF KahnStart, Taken, Entries, Distinct
<1>6. \A m \in N : k.indegree[m] = Owed(g, {}, m) /\ Owed(g, {}, m) \in Nat
  BY IndegreeOwed, WaitingFinite DEF KahnStart
<1>7. k.indegree \in [N -> Int]
  <2>1. k.indegree = [n \in N |-> Indegree(g, n)]
    BY DEF KahnStart
  <2>2. \A n \in N : Indegree(g, n) \in Int
    BY IndegreeOwed, WaitingFinite
  <2> QED
    BY <2>1, <2>2
<1>8. k \in KahnStates(g)
  <2>1. k = [queue |-> k.queue, indegree |-> k.indegree, order |-> k.order]
    BY DEF KahnStart
  <2> HIDE DEF k
  <2> QED
    BY <1>4, <1>5, <1>7, <2>1 DEF KahnStates
<1>9. \A m \in N : k.indegree[m] = 0 <=> m \in StartNodes(g)
  BY <1>6, IndegreeOwed DEF StartNodes
<1>10. Len(k.order) = 0
  BY <1>5
<1> HIDE DEF k
<1>11. KahnInv(g, k)
  BY <1>3, <1>5, <1>6, <1>8, <1>9, <1>10 DEF KahnInv
<1> QED
  BY <1>11 DEF k

LEMMA KahnVisit ==
  ASSUME NEW g, WellFormed(g), NEW k, KahnInv(g, k)
  PROVE  /\ KahnInv(g, Visit(g, k))
         /\ k.queue # <<>> => Len(Visit(g, k).order) = Len(k.order) + 1
         /\ k.queue = <<>> => Visit(g, k) = k
<1> SUFFICES ASSUME k.queue # <<>>
             PROVE  KahnInv(g, Visit(g, k)) /\ Len(Visit(g, k).order) = Len(k.order) + 1
  BY DEF Visit
<1> DEFINE N == NodeIds(g)
           n == Head(k.queue)
           left == Remaining(g, k.indegree, n)
           fresh == {m \in Successors(g, n) : left[m] = 0}
           v == Visit(g, k)
<1>1. /\ k.queue \in Seq(N) /\ k.order \in Seq(N) /\ k.indegree \in [N -> Int]
      /\ N \in SUBSET Nat /\ IsFiniteSet(N)
  BY NodesAndEdges DEF KahnInv, KahnStates
<1>2. /\ n \in N /\ n = k.queue[1] /\ 1 \in 1..Len(k.queue)
      /\ Tail(k.queue) \in Seq(N)
      /\ Entries(k.queue) = {n} \cup Entries(Tail(k.queue))
      /\ Distinct(Tail(k.queue)) /\ n \notin Entries(Tail(k.queue))
  BY <1>1, TailEntries DEF KahnInv
<1>3. n \notin Taken(k) /\ k.indegree[n] = 0
  BY <1>2 DEF KahnInv
<1>4. v.queue = Tail(k.queue) \o Sorted(fresh) /\ v.indegree = left
      /\ v.order = Append(k.order, n)
      /\ v = [queue |-> v.queue, indegree |-> v.indegree, order |-> v.order]
  BY DEF Visit
<1>5. /\ v.order \in Seq(N) /\ Len(v.order) = Len(k.order) + 1 /\ Taken(v) = Taken(k) \cup {n}
      /\ Distinct(v.order)
  BY <1>1, <1>2, <1>3, <1>4, AppendEntries DEF KahnInv, Taken
<1>6. fresh \in SUBSET N /\ fresh \in SUBSET Nat /\ IsFiniteSet(fresh)
  <2>1. fresh \in SUBSET N
    BY SuccessorEdges
  <2> HIDE DEF fresh
  <2> QED
    BY <1>1, <2>1, FS_Subset
<1>7. /\ Sorted(fresh) \in Seq(N) /\ Entries(Sorted(fresh)) = fresh
      /\ Distinct(Sorted(fresh))
  <2> HIDE DEF fresh
  <2>1. /\ Sorted(fresh) \in Seq(fresh) /\ Entries(Sorted(fresh)) = fresh
        /\ Distinct(Sorted(fresh))
    BY <1>6, SortedLists
  <2> QED
    BY <1>6, <2>1, SeqWiden
\* The counts.
<1>8. \A m \in N : m \in Successors(g, n) => g.edges[<<n, m>>] \in Nat \ {0}
  BY SuccessorEdges, NodesAndEdges
<1>9. ASSUME NEW m \in N
      PROVE  left[m] = Owed(g, Taken(v), m) /\ left[m] \in Nat
  <2>1. left[m] = IF m \in Successors(g, n) THEN k.indegree[m] - g.edges[<<n, m>>]
                  ELSE k.indegree[m]
    BY DEF Remaining
  <2>2. k.indegree[m] = Owed(g, Taken(k), m)
    BY DEF KahnInv
  <2>3. Owed(g, Taken(k) \cup {n}, m)
          = IF m \in Successors(g, n) THEN Owed(g, Taken(k), m) - g.edges[<<n, m>>]
            ELSE Owed(g, Taken(k), m)
    BY <1>3, OwedAfter
  <2>4. Owed(g, Taken(v), m) \in Nat
    BY WaitingFinite
  <2> QED
    BY <1>5, <2>1, <2>2, <2>3, <2>4
<1>10. left \in [N -> Int]
  <2>1. left = [m \in N |-> left[m]]
    BY DEF Remaining
  <2> HIDE DEF left
  <2> QED
    BY <1>9, <2>1
\* A successor of n still waited for n.
<1>11. ASSUME NEW m \in N, m \in Successors(g, n)
       PROVE  m \notin Taken(k) \cup Entries(k.queue)
  <2>1. <<n, m>> \in Waiting(g, Taken(k), m)
    <3>1. <<n, m>> \in SoundEdges(g) /\ <<n, m>>[1] = n /\ <<n, m>>[2] = m
      BY <1>11, SuccessorEdges
    <3> QED
      BY <1>3, <3>1 DEF Waiting
  <2>2. Owed(g, Taken(k), m) # 0
    BY <2>1, WaitingFinite
  <2> QED
    BY <2>2 DEF KahnInv
<1>12. ASSUME NEW m \in N, m \notin Successors(g, n) PROVE left[m] = k.indegree[m]
  BY <1>12 DEF Remaining
<1>13. \A m \in fresh : m \in N /\ m \in Successors(g, n) /\ m # n
                        /\ m \notin Taken(k) /\ m \notin Entries(k.queue)
  BY <1>2, <1>6, <1>11
<1>14. /\ v.queue \in Seq(N) /\ Distinct(v.queue)
       /\ Entries(v.queue) = Entries(Tail(k.queue)) \cup fresh
  <2>1. Entries(Tail(k.queue)) \cap Entries(Sorted(fresh)) = {}
    BY <1>2, <1>7, <1>13
  <2> DEFINE a == Tail(k.queue)
             b == Sorted(fresh)
  <2>2. v.queue = a \o b /\ a \in Seq(N) /\ b \in Seq(N) /\ Distinct(a) /\ Distinct(b)
        /\ Entries(b) = fresh /\ Entries(a) \cap Entries(b) = {}
    BY <1>2, <1>4, <1>7, <2>1
  <2> HIDE DEF fresh, a, b, v
  <2>3. v.queue \in Seq(N) /\ Distinct(v.queue) /\ Entries(v.queue) = Entries(a) \cup fresh
    BY <2>2, ConcatEntries
  <2> QED
    BY <2>3 DEF a
<1>15. Taken(v) \cap Entries(v.queue) = {}
  <2>1. Taken(k) \cap Entries(k.queue) = {}
    BY DEF KahnInv
  <2> HIDE DEF fresh, v
  <2> QED
    BY <1>2, <1>5, <1>13, <1>14, <2>1
<1>16. ASSUME NEW m \in N
       PROVE  left[m] = 0 <=> m \in Taken(v) \cup Entries(v.queue)
  <2>1. Taken(v) \cup Entries(v.queue) = Taken(k) \cup Entries(k.queue) \cup fresh
    <3> HIDE DEF fresh, v
    <3> QED
      BY <1>2, <1>5, <1>14
  <2>2. k.indegree[m] = 0 <=> m \in Taken(k) \cup Entries(k.queue)
    BY DEF KahnInv
  <2>3. CASE m \in Successors(g, n)
    BY <1>11, <2>1, <2>3
  <2>4. CASE m \notin Successors(g, n)
    BY <1>12, <2>1, <2>2, <2>4
  <2> QED
    BY <2>3, <2>4
\* The order.
<1>17. ASSUME NEW i \in 1..Len(v.order), NEW e \in SoundEdges(g), e[2] = v.order[i]
       PROVE  \E j \in 1..(i - 1) : v.order[j] = e[1]
  <2>1. /\ Len(k.order) \in Nat /\ Len(v.order) = Len(k.order) + 1
        /\ \A j \in 1..Len(k.order) : v.order[j] = k.order[j]
        /\ v.order[Len(k.order) + 1] = n
    BY <1>1, <1>2, <1>4, AppendProperties
  <2>2. CASE i \in 1..Len(k.order)
    <3>1. \E j \in 1..(i - 1) : k.order[j] = e[1]
      BY <1>17, <2>1, <2>2 DEF KahnInv
    <3>2. \A j \in 1..(i - 1) : j \in 1..Len(k.order)
      BY <2>1, <2>2
    <3> QED
      BY <2>1, <3>1, <3>2
  <2>3. CASE i = Len(k.order) + 1
    <3>1. Owed(g, Taken(k), n) = 0
      BY <1>2, <1>3 DEF KahnInv
    <3>2. Waiting(g, Taken(k), n) = {}
      BY <3>1, WaitingFinite
    <3>3. e[2] = n
      BY <1>17, <2>1, <2>3
    <3>4. e[1] \in Taken(k)
      BY <3>2, <3>3 DEF Waiting
    <3>5. PICK j \in 1..Len(k.order) : k.order[j] = e[1]
      BY <3>4 DEF Taken, Entries
    <3>6. j \in 1..(i - 1)
      BY <2>1, <2>3
    <3> QED
      BY <2>1, <3>5, <3>6
  <2> QED
    BY <2>1, <2>2, <2>3
<1>18. v \in KahnStates(g)
  <2> HIDE DEF v, left
  <2> QED
    BY <1>4, <1>5, <1>10, <1>14 DEF KahnStates
<1>19. \A m \in N : v.indegree[m] = Owed(g, Taken(v), m)
                    /\ (v.indegree[m] = 0 <=> m \in Taken(v) \cup Entries(v.queue))
  BY <1>4, <1>9, <1>16
<1> HIDE DEF v
<1>20. KahnInv(g, v)
  BY <1>5, <1>14, <1>15, <1>17, <1>18, <1>19 DEF KahnInv
<1> QED
  BY <1>5, <1>20 DEF v

\* The order is what the loop has taken after a round for each node: either
\* every node, or all it could ever take.
LEMMA OrderIsTaken ==
  ASSUME NEW g, WellFormed(g)
  PROVE  \E k : /\ KahnInv(g, k) /\ Order(g) = k.order
                /\ k.queue = <<>> \/ Len(k.order) = Cardinality(NodeIds(g))
<1> DEFINE N == Cardinality(NodeIds(g))
           S == {k \in KahnStates(g) : KahnInv(g, k)}
           V == [k \in S |-> Visit(g, k)]
           Round(f) == [i \in Nat |-> IF i = 0 THEN KahnStart(g) ELSE Visit(g, f[i - 1])]
           loop == CHOOSE f : f = Round(f)
<1>1. KahnStart(g) \in S
  BY KahnStarts DEF KahnInv
<1>2. \A k \in S : Visit(g, k) \in S
  BY KahnVisit DEF KahnInv
<1>3. PICK f \in [Nat -> S] : f[0] = KahnStart(g) /\ \A i \in Nat : f[i + 1] = V[f[i]]
  <2>1. V \in [S -> S]
    <3> HIDE DEF S
    <3> QED
      BY <1>2
  <2> HIDE DEF S, V
  <2> QED
    BY <1>1, <2>1, Recursion
<1>4. f = Round(f)
  <2>1. \A i \in Nat : f[i] = IF i = 0 THEN KahnStart(g) ELSE Visit(g, f[i - 1])
    <3> TAKE i \in Nat
    <3>1. CASE i # 0
      <4>1. i - 1 \in Nat /\ i - 1 + 1 = i
        BY <3>1
      <4>2. f[i] = V[f[i - 1]] /\ f[i - 1] \in S
        BY <1>3, <4>1
      <4> HIDE DEF S
      <4> QED
        BY <3>1, <4>2
    <3> QED
      BY <1>3, <3>1
  <2> HIDE DEF S
  <2> QED
    BY <1>3, <2>1
<1>5. loop = Round(loop)
  <2> HIDE DEF Round
  <2> QED
    BY <1>4
<1>6. Order(g) = loop[N].order
  BY DEF Order, KahnStart
<1> HIDE DEF loop
<1>7. loop[0] = KahnStart(g) /\ \A i \in Nat : loop[i + 1] = Visit(g, loop[i])
  <2>1. \A i \in Nat : i + 1 \in Nat /\ i + 1 # 0 /\ i + 1 - 1 = i
    OBVIOUS
  <2> QED
    BY <1>5, <2>1
<1> DEFINE T == {i \in Nat : /\ KahnInv(g, loop[i])
                             /\ loop[i].queue = <<>> \/ Len(loop[i].order) = i}
<1>8. 0 \in T
  <2>1. KahnStart(g).order = <<>>
    BY DEF KahnStart
  <2> QED
    BY <1>7, <2>1, KahnStarts
<1>9. ASSUME NEW i \in Nat, i \in T PROVE i + 1 \in T
  <2>1. KahnInv(g, loop[i]) /\ loop[i + 1] = Visit(g, loop[i]) /\ i + 1 \in Nat
    BY <1>7, <1>9
  <2>2. /\ KahnInv(g, loop[i + 1])
        /\ loop[i].queue # <<>> => Len(loop[i + 1].order) = Len(loop[i].order) + 1
        /\ loop[i].queue = <<>> => loop[i + 1] = loop[i]
    BY <2>1, KahnVisit
  <2>3. CASE loop[i].queue = <<>>
    BY <2>1, <2>2, <2>3
  <2>4. CASE loop[i].queue # <<>>
    BY <1>9, <2>1, <2>2, <2>4
  <2> QED
    BY <2>3, <2>4
<1>10. N \in T
  <2>1. \A i \in Nat : i \in T
    <3> HIDE DEF T
    <3> QED
      BY <1>8, <1>9, AllNaturals
  <2>2. N \in Nat
    BY NodesAndEdges
  <2> QED
    BY <2>1, <2>2
<1> QED
  BY <1>6, <1>10

\* Of two places in a sequence without repetitions that hold what edges lead
\* along, one comes first.
LEMMA BeforeChains ==
  ASSUME NEW S, NEW s \in Seq(S), Distinct(s), NEW x, NEW y, NEW z,
         Before(s, x, y), Before(s, y, z)
  PROVE  Before(s, x, z)
<1>1. PICK i, j \in 1..Len(s) : i < j /\ s[i] = x /\ s[j] = y
  BY DEF Before
<1>2. PICK k, l \in 1..Len(s) : k < l /\ s[k] = y /\ s[l] = z
  BY DEF Before
<1>3. j = k
  BY <1>1, <1>2 DEF Distinct
<1>4. i < l
  BY <1>1, <1>2, <1>3
<1> QED
  BY <1>1, <1>2, <1>4 DEF Before

LEMMA NotBeforeItself ==
  ASSUME NEW S, NEW s \in Seq(S), Distinct(s), NEW x PROVE ~Before(s, x, x)
<1> SUFFICES ASSUME Before(s, x, x) PROVE FALSE
  OBVIOUS
<1>1. PICK i, j \in 1..Len(s) : i < j /\ s[i] = x /\ s[j] = x
  BY DEF Before
<1>2. i = j
  BY <1>1 DEF Distinct
<1> QED
  BY <1>1, <1>2

\* An order that takes every node is topological.
LEMMA CompleteOrderFits ==
  ASSUME NEW g, WellFormed(g), Len(Order(g)) = Cardinality(NodeIds(g))
  PROVE  LET order == Order(g)
         IN  /\ order \in Seq(NodeIds(g)) /\ Distinct(order) /\ Entries(order) = NodeIds(g)
             /\ \A e \in SoundEdges(g) : Before(order, e[1], e[2])
             /\ \A m, n : Precedes(g, m, n) => Before(order, m, n)
<1> DEFINE order == Order(g)
           N == NodeIds(g)
<1>1. PICK k : KahnInv(g, k) /\ order = k.order
  BY OrderIsTaken
<1>2. /\ order \in Seq(N) /\ Distinct(order)
      /\ \A i \in 1..Len(order) : \A e \in SoundEdges(g) :
           e[2] = order[i] => \E j \in 1..(i - 1) : order[j] = e[1]
  BY <1>1 DEF KahnInv, KahnStates
<1>3. Entries(order) = N
  <2>1. Entries(order) \in SUBSET N /\ Cardinality(Entries(order)) = Cardinality(N)
    BY <1>2, EntriesCount
  <2>2. IsFiniteSet(N)
    BY NodesAndEdges
  <2> QED
    BY <2>1, <2>2, FS_Subset
<1> HIDE DEF order
<1>4. ASSUME NEW e \in SoundEdges(g) PROVE Before(order, e[1], e[2])
  <2>1. e[2] \in Entries(order)
    BY <1>3, NodesAndEdges
  <2>2. PICK i \in 1..Len(order) : order[i] = e[2]
    BY <2>1 DEF Entries
  <2>3. PICK j \in 1..(i - 1) : order[j] = e[1]
    BY <1>2, <2>2
  <2>4. j \in 1..Len(order) /\ j < i
    BY <2>2, <2>3
  <2> QED
    BY <2>2, <2>3, <2>4 DEF Before
<1>5. ASSUME NEW m, NEW n, Precedes(g, m, n) PROVE Before(order, m, n)
  <2> DEFINE S == {x \in N : Before(order, m, x)}
  <2>1. ASSUME NEW e \in SoundEdges(g), e[1] \in S \cup {m} PROVE e[2] \in S
    <3>1. Before(order, e[1], e[2]) /\ e[2] \in N
      BY <1>4, NodesAndEdges
    <3>2. CASE e[1] = m
      BY <3>1, <3>2
    <3>3. CASE Before(order, m, e[1])
      BY <1>2, <3>1, <3>3, BeforeChains
    <3> QED
      BY <2>1, <3>2, <3>3
  <2>2. n \in S
    <3>1. S \in SUBSET NodeIds(g)
      OBVIOUS
    <3> HIDE DEF S
    <3> QED
      BY <1>5, <2>1, <3>1 DEF Precedes
  <2> QED
    BY <2>2
<1> QED
  BY <1>2, <1>3, <1>4, <1>5 DEF order

LEMMA PrecedesAlong ==
  ASSUME NEW g, NEW e \in SoundEdges(g)
  PROVE  /\ Precedes(g, e[1], e[2])
         /\ \A x : Precedes(g, x, e[1]) => Precedes(g, x, e[2])
BY DEF Precedes

\* Without a cycle the loop takes every node: of the nodes it had left, one
\* with the fewest nodes before it would have had nothing left to wait for.
LEMMA AcyclicIsTaken ==
  ASSUME NEW g, WellFormed(g), \A n \in NodeIds(g) : ~Precedes(g, n, n)
  PROVE  Len(Order(g)) = Cardinality(NodeIds(g))
<1> DEFINE N == NodeIds(g)
<1>1. PICK k : /\ KahnInv(g, k) /\ Order(g) = k.order
               /\ k.queue = <<>> \/ Len(k.order) = Cardinality(N)
  BY OrderIsTaken
<1>2. IsFiniteSet(N)
  BY NodesAndEdges
<1>3. k.order \in Seq(N) /\ Distinct(k.order) /\ Taken(k) \subseteq N
      /\ Cardinality(Taken(k)) = Len(k.order)
  BY <1>1, EntriesCount DEF KahnInv, KahnStates, Taken
<1> SUFFICES ASSUME k.queue = <<>>, Taken(k) # N PROVE FALSE
  BY <1>1, <1>3
<1> DEFINE U == N \ Taken(k)
           Anc(n) == {x \in N : Precedes(g, x, n)}
           T == {Cardinality(Anc(n)) : n \in U}
<1>4. U # {}
  BY <1>3
<1>5. \A n : Anc(n) \in SUBSET N /\ IsFiniteSet(Anc(n)) /\ Cardinality(Anc(n)) \in Nat
  <2> TAKE n
  <2>1. Anc(n) \in SUBSET N
    OBVIOUS
  <2> HIDE DEF Anc
  <2> QED
    BY <1>2, <2>1, FS_Subset, FS_CardinalityType
<1>6. PICK n \in U : \A m \in U : Cardinality(Anc(n)) <= Cardinality(Anc(m))
  <2>1. T \in SUBSET Nat /\ T # {}
    BY <1>4, <1>5
  <2>2. PICK c \in T : \A d \in T : c <= d
    <3> HIDE DEF T
    <3> QED
      BY <2>1, LeastNatural
  <2> QED
    BY <2>2
<1>7. PICK e \in Waiting(g, Taken(k), n) : TRUE
  <2>1. Entries(k.queue) = {}
    BY DEF Entries
  <2>2. k.indegree[n] # 0 /\ k.indegree[n] = Owed(g, Taken(k), n)
    BY <1>1, <2>1 DEF KahnInv
  <2>3. Waiting(g, Taken(k), n) # {}
    BY <2>2, WaitingFinite
  <2> QED
    BY <2>3
<1> DEFINE m == e[1]
<1>8. e \in SoundEdges(g) /\ e[2] = n /\ m \in U
  <2>1. e \in SoundEdges(g) /\ e[2] = n /\ e[1] \notin Taken(k)
    BY <1>7 DEF Waiting
  <2> QED
    BY <2>1, NodesAndEdges
<1>9. Precedes(g, m, n) /\ \A x : Precedes(g, x, m) => Precedes(g, x, n)
  BY <1>8, PrecedesAlong
<1>10. Anc(m) \in SUBSET Anc(n) /\ m \in Anc(n) /\ m \notin Anc(m)
  BY <1>8, <1>9
<1>11. Cardinality(Anc(m)) < Cardinality(Anc(n))
  <2>1. Cardinality(Anc(m)) <= Cardinality(Anc(n)) /\ Cardinality(Anc(m)) # Cardinality(Anc(n))
    <3> HIDE DEF Anc
    <3> QED
      BY <1>5, <1>10, FS_Subset
  <2> HIDE DEF Anc
  <2> QED
    BY <1>5, <2>1
<1>12. Cardinality(Anc(n)) <= Cardinality(Anc(m))
  BY <1>6, <1>8
<1> HIDE DEF Anc
<1> QED
  BY <1>5, <1>11, <1>12

LEMMA ValidIsSound ==
  ASSUME NEW g, WellFormed(g), IsValid(g)
  PROVE  IsSound(g)
<1> DEFINE N == NodeIds(g)
<1>1. ~Issues(g) /\ Len(Order(g)) = Cardinality(N)
  BY DEF IsValid
<1>2. Cardinality(N) = Len(g.ids)
  <2>1. g.ids \in Seq(Nat) /\ N = Entries(g.ids)
    BY NodesAndEdges DEF WellFormed
  <2>2. \A j, l \in 1..Len(g.ids) : j < l => g.ids[j] # g.ids[l]
    BY <1>1 DEF Issues
  <2>3. Distinct(g.ids)
    BY <2>1, <2>2 DEF Distinct
  <2> QED
    BY <2>1, <2>3, EntriesCount
<1>3. ~g.on_failure /\ DOMAIN g.edges = SoundEdges(g)
  BY <1>1 DEF Issues
<1>4. g.binding # <<>> => g.binding[1] \in N /\ Precedes(g, g.binding[1], g.binding[2])
  BY <1>1, PathPrecedes DEF Issues, BindingIssue
<1>5. ASSUME NEW n \in N PROVE ~Precedes(g, n, n)
  BY <1>1, CompleteOrderFits, NotBeforeItself
<1> QED
  BY <1>2, <1>3, <1>4, <1>5 DEF IsSound

LEMMA SoundIsValid ==
  ASSUME NEW g, WellFormed(g), IsSound(g)
  PROVE  IsValid(g)
<1> DEFINE N == NodeIds(g)
           order == Order(g)
<1>1. \A n \in N : ~Precedes(g, n, n)
  BY DEF IsSound
<1>2. Len(order) = Cardinality(N)
  BY <1>1, AcyclicIsTaken
<1>3. /\ order \in Seq(N) /\ Distinct(order) /\ Entries(order) = N
      /\ \A e \in SoundEdges(g) : Before(order, e[1], e[2])
  BY <1>2, CompleteOrderFits
<1>4. \A j, l \in 1..Len(g.ids) : j < l => g.ids[j] # g.ids[l]
  <2>1. g.ids \in Seq(Nat) /\ N = Entries(g.ids)
    BY NodesAndEdges DEF WellFormed
  <2>2. Distinct(g.ids)
    BY <2>1, EntriesCount DEF IsSound
  <2> QED
    BY <2>2 DEF Distinct
<1>5. ~BindingIssue(g)
  <2> SUFFICES ASSUME g.binding # <<>>
               PROVE  /\ g.binding[1] \in N /\ g.binding[1] # g.binding[2]
                      /\ HasGraphPath(g, g.binding[1], g.binding[2])
    BY DEF BindingIssue
  <2>1. g.binding[1] \in N /\ Precedes(g, g.binding[1], g.binding[2])
    BY DEF IsSound
  <2> QED
    BY <1>1, <2>1, PrecedesHasPath
<1>6. StartNodes(g) # {}
  <2>1. 1 \in 1..Len(order)
    BY <1>2, NodesAndEdges
  <2> DEFINE x == order[1]
  <2>2. x \in N
    BY <1>3, <2>1 DEF Entries
  <2>3. Waiting(g, {}, x) = {}
    <3> SUFFICES ASSUME NEW e \in SoundEdges(g), e[2] = x PROVE FALSE
      BY DEF Waiting
    <3>1. PICK i, j \in 1..Len(order) : i < j /\ order[i] = e[1] /\ order[j] = x
      BY <1>3 DEF Before
    <3>2. j = 1
      BY <1>3, <2>1, <3>1 DEF Distinct
    <3> QED
      BY <3>1, <3>2
  <2>4. Indegree(g, x) = 0
    BY <2>3, IndegreeOwed, WaitingFinite
  <2> QED
    BY <2>2, <2>4 DEF StartNodes
<1>7. ~g.on_failure /\ DOMAIN g.edges = SoundEdges(g)
  BY DEF IsSound
<1>8. ~Issues(g)
  BY <1>4, <1>5, <1>6, <1>7 DEF Issues
<1> QED
  BY <1>2, <1>8 DEF IsValid

\* Whatever graph is sent, validation accepts it exactly when it is sound, and
\* then the order it computes puts every node behind all it depends on.
THEOREM ValidationDecidesSoundness ==
  \A g : WellFormed(g) =>
    /\ IsValid(g) <=> IsSound(g)
    /\ IsValid(g) => OrderFits(g, Order(g))
<1> SUFFICES ASSUME NEW g, WellFormed(g), IsValid(g) PROVE OrderFits(g, Order(g))
  BY ValidIsSound, SoundIsValid
<1> DEFINE order == Order(g)
<1>1. Len(order) = Cardinality(NodeIds(g))
  BY DEF IsValid
<1>2. /\ Entries(order) = NodeIds(g)
      /\ \A e \in SoundEdges(g) : Before(order, e[1], e[2])
      /\ \A m, n : Precedes(g, m, n) => Before(order, m, n)
  BY <1>1, CompleteOrderFits
<1>3. g.binding # <<>> => Precedes(g, g.binding[1], g.binding[2])
  BY ValidIsSound DEF IsSound
<1> QED
  BY <1>1, <1>2, <1>3 DEF OrderFits, Entries

(***************************************************************************)
(* The run: its state.                                                     *)
(***************************************************************************)

Lives == {"none", "queued", "pending", "ready", "running", "paused", "terminal"}
Pauses == {"none", "approval_required", "repair_required"}
Outcomes == {"none", "succeeded", "failed", "rejected", "cancelled"}
Rows == [life : Lives, pause : Pauses, outcome : Outcomes]

RunTypes ==
  /\ nodes \in [Nodes -> Rows] /\ run \in Rows /\ ending \in Rows
  /\ pc \in {"idle", "begin", "step", "work", "await", "close"}
  /\ thread \in {"free", "walker", "canceller"}
  /\ at \in Nat /\ resumes \in Nat /\ cancels \in Nat /\ crashes \in Nat

\* A stored graph lists each node once, after the nodes it depends on.
Walks(g) ==
  /\ g.order \in Seq(Nodes) /\ Distinct(g.order)
  /\ \A k \in 1..Len(g.order) : \A d \in g.deps[g.order[k]] :
       \E j \in 1..(k - 1) : g.order[j] = d

Row(k) == nodes[graph.order[k]]
Places == 1..Len(graph.order)

\* Who has the thread, and what the walker knows where it is.
ControlInv ==
  /\ run.life = "none" => /\ thread = "free" /\ pc = "idle" /\ cancels = 0
                          /\ \A n \in Nodes : nodes[n].outcome = "none"
  /\ pc \in {"begin", "step", "work", "close"} => thread = "walker"
  /\ pc = "await" => thread # "walker"
  /\ pc \in {"step", "work", "await", "close"} => run.life \in {"running", "terminal"}
  /\ pc = "step" => at >= 1
  /\ pc \in {"work", "await"} => at \in Places
  /\ pc = "work" => Row(at).life = "running"
  /\ pc = "await" => /\ graph.kind[Here] = "playbook"
                     /\ Row(at).life = "running" \/ cancels > 0 \/ thread = "canceller"
  /\ pc = "close" => ending.life \in {"paused", "terminal"}

\* The walk goes on, or a resume would make it go on.
Walkable ==
  \/ MayResume
  \/ pc \in {"begin", "step", "work", "await"}
  \/ pc = "close" /\ ending.pause = "approval_required"

\* Rejected by a cancel that is at work, or that a crash may have cut short.
Rejected(k) == Row(k).outcome = "rejected" /\ (crashes > 0 \/ thread = "canceller")

\* What the rows say of each other along the order.
OrderInv ==
  /\ pc \in {"step", "work", "await"} =>
       \A k \in Places : k < at => Row(k).life = "terminal"
  /\ Walkable => \A j, k \in Places :
       j < k /\ Row(j).life = "terminal" /\ Row(j).outcome # "succeeded" /\ ~Rejected(j)
         => Row(k).life = "terminal"
  /\ Walkable /\ cancels > 0 => \A k \in Places : Row(k).life = "terminal"
  /\ \A j, k \in Places : j < k /\ Row(k).life = "paused" => Row(j).life = "terminal"

Approved == {n \in Nodes : graph.kind[n] = "approval" /\ nodes[n].outcome = "succeeded"}

AsksApproval(n) == nodes[n].life = "paused" /\ nodes[n].pause = "approval_required"

\* A walk that was resumed has an approval to give until it meets the node
\* that asked for it.
ApprovalInv ==
  /\ IsFiniteSet(Approved)
  /\ shadow \/ Cardinality(Approved) <= resumes
  /\ resumed /\ pc \in {"begin", "step", "work", "await"} /\ (\E k \in Places : AsksApproval(graph.order[k]))
       => shadow \/ Cardinality(Approved) < resumes

RunInv == RunTypes /\ Walks(graph) /\ ControlInv /\ OrderInv /\ ApprovalInv

VersionInv ==
  /\ versions = [v \in 1..MaxVersion |-> versions[v]]
  /\ \A v \in 1..MaxVersion : Walks(versions[v])
  /\ runs = [r \in {"run"} |-> runs[r]]
  /\ run.life # "none" => LET v == runs["run"].version
                          IN  v \in 1..MaxVersion /\ versions[v] # NoGraph /\ graph = versions[v]

\* The order names nodes.
LEMMA PlacesAreNodes ==
  ASSUME Walks(graph) PROVE \A k \in Places : graph.order[k] \in Nodes
BY DEF Walks, Places

\* A graph that was submitted and found valid is one a run can walk.
LEMMA SubmittedWalks ==
  ASSUME NEW g \in Submitted, IsValid(g) PROVE Walks(Walked(g))
<1> DEFINE order == Order(g)
           N == NodeIds(g)
<1>1. WellFormed(g) /\ N \subseteq Nodes
  BY GraphsAreWellFormed
<1>2. Len(order) = Cardinality(N) /\ DOMAIN g.edges = SoundEdges(g)
  BY DEF IsValid, Issues
<1>3. /\ order \in Seq(N) /\ Distinct(order)
      /\ \A e \in SoundEdges(g) : Before(order, e[1], e[2])
  BY <1>1, <1>2, CompleteOrderFits
<1>4. order \in Seq(Nodes)
  BY <1>1, <1>3, SeqWiden
<1> HIDE DEF order
<1>5. ASSUME NEW k \in 1..Len(order), NEW e \in DOMAIN g.edges, e[2] = order[k]
      PROVE  \E j \in 1..(k - 1) : order[j] = e[1]
  <2>1. PICK i, j \in 1..Len(order) : i < j /\ order[i] = e[1] /\ order[j] = e[2]
    BY <1>2, <1>3, <1>5 DEF Before
  <2>2. j = k
    BY <1>3, <1>5, <2>1 DEF Distinct
  <2>3. i \in 1..(k - 1)
    BY <2>1, <2>2
  <2> QED
    BY <2>1, <2>3
<1>6. Walked(g).order = order
  BY DEF Walked, order
<1>7. \A n \in Nodes : Walked(g).deps[n] = {e[1] : e \in {e \in DOMAIN g.edges : e[2] = n}}
  BY DEF Walked
<1>8. ASSUME NEW k \in 1..Len(order), NEW d \in Walked(g).deps[order[k]]
      PROVE  \E j \in 1..(k - 1) : order[j] = d
  <2>1. order[k] \in Nodes
    BY <1>4
  <2>2. PICK e \in DOMAIN g.edges : e[2] = order[k] /\ d = e[1]
    BY <1>7, <1>8, <2>1
  <2> QED
    BY <1>5, <2>2
<1> QED
  BY <1>3, <1>4, <1>6, <1>8 DEF Walks

LEMMA NoGraphWalks == Walks(NoGraph)
BY DEF NoGraph, Walks, Distinct

LEMMA AutomationStarts == AutomationInit => RunInv /\ VersionInv
<1> SUFFICES ASSUME AutomationInit PROVE RunInv /\ VersionInv
  OBVIOUS
<1> USE DEF AutomationInit, Init
<1>1. graph = NoGraph /\ graph.order = <<>> /\ Places = {}
  BY DEF NoGraph, Places
<1>2. RunTypes
  BY DEF RunTypes, Rows, Lives, Pauses, Outcomes, NodeRow, NoRun
<1>3. \A n \in Nodes : nodes[n].outcome = "none" /\ nodes[n].life = "none"
  BY DEF NodeRow
<1>4. ControlInv
  BY <1>1, <1>3 DEF ControlInv, NoRun
<1>5. OrderInv
  BY <1>1 DEF OrderInv
<1>6. Approved = {}
  BY <1>3 DEF Approved
<1>7. ApprovalInv
  BY <1>1, <1>6, FS_EmptySet DEF ApprovalInv
<1>8. VersionInv
  BY NoGraphWalks DEF VersionInv, D!DefInit, NoRun
<1> QED
  BY <1>1, <1>2, <1>4, <1>5, <1>7, <1>8, NoGraphWalks DEF RunInv

(***************************************************************************)
(* The run: its steps.                                                     *)
(***************************************************************************)

\* A write to the row of the node the walker is at.
LEMMA HereWritten ==
  ASSUME RunTypes, Walks(graph), at \in Places, NEW r \in Rows,
         nodes' = [nodes EXCEPT ![Here] = r]
  PROVE  /\ Here \in Nodes /\ nodes' \in [Nodes -> Rows]
         /\ \A n \in Nodes : nodes'[n] = IF n = Here THEN r ELSE nodes[n]
         /\ \A k \in Places : nodes'[graph.order[k]] = IF k = at THEN r ELSE Row(k)
<1>1. Here \in Nodes /\ nodes \in [Nodes -> Rows]
  BY PlacesAreNodes DEF Here, RunTypes
<1>2. \A n \in Nodes : nodes'[n] = IF n = Here THEN r ELSE nodes[n]
  BY <1>1
<1>3. nodes' \in [Nodes -> Rows]
  BY <1>1
<1>4. \A k \in Places : graph.order[k] = Here => k = at
  BY DEF Here, Walks, Distinct, Places
<1> QED
  BY <1>1, <1>2, <1>3, <1>4, PlacesAreNodes DEF Row, Here

\* Approvals only grow by what a write marks as succeeded.
LEMMA ApprovedSubset ==
  ASSUME IsFiniteSet(Approved), Approved' \subseteq Approved
  PROVE  IsFiniteSet(Approved') /\ Cardinality(Approved') <= Cardinality(Approved)
         /\ Cardinality(Approved) \in Nat /\ Cardinality(Approved') \in Nat
BY FS_Subset, FS_CardinalityType

\* Steps that write no node row.
LEMMA WalkerMovesOn ==
  ASSUME RunInv, Begin \/ SkipTerminal \/ CloseRun \/ FinishRun
  PROVE  RunInv'
<1> USE DEF RunInv
<1>1. graph' = graph /\ nodes' = nodes /\ shadow' = shadow /\ resumes' = resumes
      /\ cancels' = cancels /\ crashes' = crashes /\ Walks(graph)' /\ resumed' = resumed
      /\ thread = "walker"
  BY DEF Begin, SkipTerminal, AtNode, CloseRun, FinishRun, setup, counts
<1>2. Approved' = Approved
  BY <1>1 DEF Approved
<1>3. CASE Begin
  <2> USE <1>3 DEF Begin
  <2>1. RunTypes'
    BY <1>1 DEF RunTypes, Rows, Lives, Pauses, Outcomes
  <2>2. ControlInv'
    BY <1>1 DEF ControlInv
  <2>3. OrderInv'
    BY <1>1 DEF OrderInv, Walkable, MayResume, Rejected, Row, Places
  <2>4. ApprovalInv'
    BY <1>1, <1>2 DEF ApprovalInv, AsksApproval, Places
  <2> QED
    BY <1>1, <2>1, <2>2, <2>3, <2>4
<1>4. CASE SkipTerminal
  <2> USE <1>4 DEF SkipTerminal, AtNode, setup, counts
  <2>1. RunTypes'
    BY <1>1 DEF RunTypes
  <2>2. ControlInv'
    BY <1>1 DEF ControlInv, Row, RunTypes
  <2>3. OrderInv'
    <3>1. Row(at).life = "terminal" /\ at \in Nat /\ at' = at + 1
      BY DEF Row, Here, RunTypes
    <3>2. \A k \in Places : k < at + 1 => Row(k).life = "terminal"
      BY <3>1 DEF OrderInv, Places
    <3> QED
      BY <1>1, <3>1, <3>2 DEF OrderInv, Walkable, MayResume, Rejected, Row, Places
  <2>4. ApprovalInv'
    BY <1>1, <1>2 DEF ApprovalInv, AsksApproval, Places
  <2> QED
    BY <1>1, <2>1, <2>2, <2>3, <2>4
<1>5. CASE CloseRun
  <2> USE <1>5 DEF CloseRun
  <2>1. RunTypes'
    BY <1>1 DEF RunTypes, Rows
  <2>2. ControlInv'
    BY <1>1 DEF ControlInv, RunTypes, Rows
  <2>3. Walkable' => Walkable
    BY DEF Walkable, MayResume, RunTypes, Rows
  <2>4. OrderInv'
    BY <1>1, <2>3 DEF OrderInv, Rejected, Row, Places
  <2>5. ApprovalInv'
    BY <1>1, <1>2 DEF ApprovalInv
  <2> QED
    BY <1>1, <2>1, <2>2, <2>4, <2>5
<1>6. CASE FinishRun
  <2> USE <1>6 DEF FinishRun
  <2>1. RunTypes'
    BY <1>1 DEF RunTypes, Rows, Lives, Outcomes
  <2>2. ControlInv'
    BY <1>1 DEF ControlInv, RunTypes, Rows
  <2>3. ~Walkable'
    BY DEF Walkable, MayResume, RunTypes, Rows
  <2>4. OrderInv'
    BY <1>1, <2>3 DEF OrderInv, Rejected, Row, Places
  <2>5. ApprovalInv'
    BY <1>1, <1>2 DEF ApprovalInv
  <2> QED
    BY <1>1, <2>1, <2>2, <2>4, <2>5
<1> QED
  BY <1>3, <1>4, <1>5, <1>6

LEMMA RowsLeftAlone ==
  ASSUME RunInv, ReplayThrows \/ Resume \/ Crash \/ CancelBegins
  PROVE  RunInv'
<1> USE DEF RunInv
<1>1. graph' = graph /\ nodes' = nodes /\ shadow' = shadow /\ cancels' = cancels /\ Walks(graph)'
  BY DEF ReplayThrows, Resume, Crash, CancelBegins, setup, counts
<1>2. Approved' = Approved
  BY <1>1 DEF Approved
<1>3. RunTypes'
  BY <1>1 DEF RunTypes, Rows, Lives, Pauses, Outcomes, NoRun, ReplayThrows, Resume, Crash,
     CancelBegins, setup, counts, walker
<1>4. ControlInv'
  BY <1>1 DEF ControlInv, Row, Here, Places, ReplayThrows, Resume, Crash, CancelBegins, setup, counts,
     walker, MayResume
<1>5. Walkable' => Walkable
  BY DEF Walkable, MayResume, ReplayThrows, Resume, Crash, CancelBegins, setup, counts, walker
<1>6. OrderInv'
  <2>1. pc' \in {"step", "work", "await"} => pc = pc' /\ at' = at
    BY DEF ReplayThrows, Resume, Crash, CancelBegins, setup, counts, walker
  <2>2. ASSUME NEW k \in Places, Rejected(k) PROVE Rejected(k)'
    BY <1>1, <2>2 DEF Rejected, Row, RunTypes, ReplayThrows, Resume, Crash, CancelBegins, counts
  <2> QED
    BY <1>1, <1>5, <2>1, <2>2 DEF OrderInv, Row, Places
<1>7. ApprovalInv'
  <2>1. CASE Resume
    <3>1. Cardinality(Approved) \in Nat /\ resumes \in Nat
      BY FS_CardinalityType DEF ApprovalInv, RunTypes
    <3> QED
      BY <1>1, <1>2, <2>1, <3>1 DEF ApprovalInv, Resume, setup
  <2>2. CASE ReplayThrows
    BY <1>1, <1>2, <2>2 DEF ApprovalInv, ReplayThrows, counts
  <2>3. CASE Crash
    BY <1>1, <1>2, <2>3 DEF ApprovalInv, Crash
  <2>4. CASE CancelBegins
    BY <1>1, <1>2, <2>4 DEF ApprovalInv, CancelBegins, AsksApproval, Places, walker, counts, setup
  <2> QED
    BY <2>1, <2>2, <2>3, <2>4
<1> QED
  BY <1>1, <1>3, <1>4, <1>6, <1>7

\* The walker marks the node it is at as succeeded and goes on.
LEMMA NodeDone ==
  ASSUME RunInv, pc \in {"step", "work", "await"}, at \in Places, NEW r \in Rows,
         r.life = "terminal", r.outcome = "succeeded",
         nodes' = [nodes EXCEPT ![Here] = r], pc' = "step", at' = at + 1, thread' = "walker",
         UNCHANGED <<graph, shadow, run, resumed, ending, resumes, cancels, crashes>>,
         thread # "canceller",
         \/ shadow
         \/ graph.kind[Here] # "approval"
         \/ resumed /\ pc = "step" /\ AsksApproval(Here)
  PROVE  RunInv'
<1> USE DEF RunInv
<1>1. /\ Here \in Nodes /\ nodes' \in [Nodes -> Rows]
      /\ \A n \in Nodes : nodes'[n] = IF n = Here THEN r ELSE nodes[n]
      /\ \A k \in Places : nodes'[graph.order[k]] = IF k = at THEN r ELSE Row(k)
  BY HereWritten
<1>2. Places' = Places /\ Walks(graph)'
  BY DEF Places
<1>3. RunTypes'
  BY <1>1 DEF RunTypes
<1>4. run.life \in {"running", "terminal"} /\ Walkable /\ at \in Nat
  BY <1>1 DEF ControlInv, Walkable, RunTypes, AsksApproval
<1>5. ControlInv'
  BY <1>4 DEF ControlInv
<1>6. OrderInv'
  <2>1. ASSUME NEW k \in Places, k < at + 1 PROVE nodes'[graph.order[k]].life = "terminal"
    BY <1>1, <1>4, <2>1 DEF OrderInv, Places
  <2>2. ASSUME NEW j \in Places, NEW k \in Places, j < k, nodes'[graph.order[j]].life = "terminal",
               nodes'[graph.order[j]].outcome # "succeeded", ~Rejected(j)'
        PROVE  nodes'[graph.order[k]].life = "terminal"
    <3>1. j # at /\ ~Rejected(j)
      BY <1>1, <1>2, <2>2 DEF Rejected, Row
    <3> QED
      BY <1>1, <1>4, <2>2, <3>1 DEF OrderInv
  <2>3. ASSUME cancels > 0, NEW k \in Places PROVE nodes'[graph.order[k]].life = "terminal"
    BY <1>1, <1>4, <2>3 DEF OrderInv
  <2>4. ASSUME NEW j \in Places, NEW k \in Places, j < k, nodes'[graph.order[k]].life = "paused"
        PROVE  nodes'[graph.order[j]].life = "terminal"
    BY <1>1, <2>4 DEF OrderInv
  <2> QED
    BY <1>2, <2>1, <2>2, <2>3, <2>4 DEF OrderInv, Row
<1>7. ApprovalInv'
  <2>1. Approved' \subseteq Approved \cup {Here}
    BY <1>1 DEF Approved
  <2>2. IsFiniteSet(Approved \cup {Here}) /\ Cardinality(Approved \cup {Here}) <= Cardinality(Approved) + 1
    <3>1. IsFiniteSet(Approved) /\ Cardinality(Approved) \in Nat
      BY FS_CardinalityType DEF ApprovalInv
    <3>2. /\ IsFiniteSet(Approved \cup {Here})
          /\ Cardinality(Approved \cup {Here}) =
               IF Here \in Approved THEN Cardinality(Approved) ELSE Cardinality(Approved) + 1
      BY <3>1, FS_AddElement
    <3> QED
      BY <3>1, <3>2
  <2>3. /\ IsFiniteSet(Approved') /\ Cardinality(Approved') <= Cardinality(Approved) + 1
        /\ Cardinality(Approved) \in Nat /\ Cardinality(Approved') \in Nat /\ resumes \in Nat
    BY <2>1, <2>2, FS_Subset, FS_CardinalityType DEF ApprovalInv, RunTypes
  <2>4. CASE shadow
    BY <2>3, <2>4 DEF ApprovalInv
  <2>5. CASE graph.kind[Here] # "approval"
    <3>1. Approved' = Approved
      BY <1>1, <2>5 DEF Approved
    <3>2. ASSUME NEW k \in Places, nodes'[graph.order[k]].life = "paused",
                 nodes'[graph.order[k]].pause = "approval_required"
          PROVE  AsksApproval(graph.order[k])
      <4>1. k # at
        BY <1>1, <3>2
      <4> QED
        BY <1>1, <3>2, <4>1 DEF AsksApproval, Row
    <3>3. (\E k \in Places : AsksApproval(graph.order[k]))' => \E k \in Places : AsksApproval(graph.order[k])
      BY <1>2, <3>2 DEF AsksApproval
    <3> QED
      BY <2>3, <3>1, <3>3 DEF ApprovalInv
  <2>6. CASE resumed /\ pc = "step" /\ AsksApproval(Here)
    <3>1. shadow \/ Cardinality(Approved) < resumes
      BY <2>6 DEF ApprovalInv, Here
    <3>2. ASSUME NEW k \in Places PROVE nodes'[graph.order[k]].life # "paused"
      <4>1. Row(at).life = "paused"
        BY <2>6 DEF AsksApproval, Row, Here
      <4>2. k < at => Row(k).life # "paused"
        BY <1>4, <2>6 DEF OrderInv
      <4>3. k > at => Row(k).life # "paused"
        BY <4>1 DEF OrderInv
      <4> QED
        BY <1>1, <1>4, <4>2, <4>3 DEF Places
    <3>3. ~(\E k \in Places : AsksApproval(graph.order[k]))'
      BY <1>2, <3>2 DEF AsksApproval
    <3> QED
      BY <2>3, <3>1, <3>3 DEF ApprovalInv
  <2> QED
    BY <2>4, <2>5, <2>6
<1> QED
  BY <1>2, <1>3, <1>5, <1>6, <1>7

\* The walker stops at a node: it pauses, or the node fails.
LEMMA NodeStopped ==
  ASSUME RunInv, pc \in {"work", "await"}, at \in Places, thread' = "walker",
         UNCHANGED <<graph, shadow, run, resumed, resumes, cancels, crashes>>,
         thread # "canceller",
         \/ NodeFails
         \/ PauseForApproval /\ pc = "work"
         \/ NodeStops("paused", "repair_required", "none", "none")
  PROVE  RunInv'
<1> USE DEF RunInv
<1>1. PICK r \in Rows :
        /\ nodes' = [nodes EXCEPT ![Here] = r]
        /\ ending' \in Rows /\ ending'.life = r.life /\ ending'.pause = r.pause
        /\ \/ r.life = "terminal" /\ r.pause = "none" /\ r.outcome = "failed"
           \/ r.life = "paused" /\ r.outcome = nodes[Here].outcome
              /\ (r.pause = "approval_required" => pc = "work")
        /\ pc' = "close" /\ at' = at
  <2>1. Here \in Nodes /\ nodes \in [Nodes -> Rows]
    BY PlacesAreNodes DEF Here, RunTypes
  <2>2. CASE NodeFails
    <3> DEFINE r == NodeRow("terminal", "none", "failed")
    <3>1. r \in Rows
      BY DEF NodeRow, Rows, Lives, Pauses, Outcomes
    <3> QED
      BY <2>2, <3>1 DEF NodeFails, NodeStops, NodeRow, Rows, Lives, Pauses, Outcomes
  <2>3. CASE PauseForApproval /\ pc = "work"
    <3> DEFINE r == NodeRow("paused", "approval_required", nodes[Here].outcome)
    <3>1. r \in Rows
      BY <2>1 DEF NodeRow, Rows, Lives, Pauses, Outcomes
    <3> QED
      BY <2>1, <2>3, <3>1 DEF PauseForApproval, NodeStops, NodeRow, Rows, Lives, Pauses, Outcomes
  <2>4. CASE NodeStops("paused", "repair_required", "none", "none")
    <3> DEFINE r == NodeRow("paused", "repair_required", nodes[Here].outcome)
    <3>1. r \in Rows
      BY <2>1 DEF NodeRow, Rows, Lives, Pauses, Outcomes
    <3> QED
      BY <2>1, <2>4, <3>1 DEF NodeStops, NodeRow, Rows, Lives, Pauses, Outcomes
  <2> QED
    BY <2>2, <2>3, <2>4
<1>2. /\ Here \in Nodes /\ nodes' \in [Nodes -> Rows]
      /\ \A n \in Nodes : nodes'[n] = IF n = Here THEN r ELSE nodes[n]
      /\ \A k \in Places : nodes'[graph.order[k]] = IF k = at THEN r ELSE Row(k)
  BY <1>1, HereWritten
<1>3. Places' = Places /\ Walks(graph)'
  BY DEF Places
<1>4. RunTypes'
  BY <1>1, <1>2 DEF RunTypes
<1>5. run.life \in {"running", "terminal"} /\ Walkable /\ at \in Nat
  BY DEF ControlInv, Walkable, RunTypes
<1>6. ControlInv'
  BY <1>1, <1>5 DEF ControlInv
<1>7. OrderInv'
  <2>1. Walkable' => pc = "work" /\ r.life = "paused"
    BY <1>1, <1>5 DEF Walkable, MayResume
  <2>2. pc = "work" => Row(at).life = "running"
    BY DEF ControlInv
  <2>3. ASSUME Walkable', NEW j \in Places, NEW k \in Places, j < k,
               nodes'[graph.order[j]].life = "terminal", nodes'[graph.order[j]].outcome # "succeeded",
               ~Rejected(j)'
        PROVE  nodes'[graph.order[k]].life = "terminal"
    <3>1. j # at
      BY <1>2, <2>1, <2>3
    <3>2. ~Rejected(j)
      BY <1>2, <1>3, <2>3, <3>1 DEF Rejected, Row
    <3> QED
      BY <1>2, <1>5, <2>1, <2>2, <2>3, <3>1, <3>2 DEF OrderInv
  <2>4. ASSUME Walkable', cancels > 0, NEW k \in Places PROVE nodes'[graph.order[k]].life = "terminal"
    BY <1>5, <2>1, <2>2, <2>4 DEF OrderInv
  <2>5. ASSUME NEW j \in Places, NEW k \in Places, j < k, nodes'[graph.order[k]].life = "paused"
        PROVE  nodes'[graph.order[j]].life = "terminal"
    <3>1. \A i \in Places : i < at => Row(i).life = "terminal"
      BY DEF OrderInv
    <3>2. CASE k = at
      BY <1>2, <2>5, <3>1, <3>2 DEF Places
    <3>3. CASE k # at
      <4>1. Row(k).life = "paused" /\ Row(j).life = "terminal"
        BY <1>2, <2>5, <3>3 DEF OrderInv
      <4>2. j # at
        BY <1>5, <2>2, <4>1 DEF ControlInv, OrderInv
      <4> QED
        BY <1>2, <4>1, <4>2
    <3> QED
      BY <3>2, <3>3
  <2> QED
    BY <1>1, <1>3, <2>3, <2>4, <2>5 DEF OrderInv, Row
<1>8. ApprovalInv'
  <2>1. Approved' \subseteq Approved
    BY <1>1, <1>2 DEF Approved
  <2> QED
    BY <1>1, <2>1, ApprovedSubset DEF ApprovalInv, RunTypes
<1> QED
  BY <1>3, <1>4, <1>6, <1>7, <1>8

\* Rows with the same fields are the same row.
LEMMA SameRow ==
  ASSUME NEW a \in Rows, NEW b \in Rows,
         a.life = b.life, a.pause = b.pause, a.outcome = b.outcome
  PROVE  a = b
BY DEF Rows

\* Two fields of a row written one by one.
LEMMA RowUpdates ==
  ASSUME NEW rows \in [Nodes -> Rows], NEW n \in Nodes
  PROVE  /\ [rows EXCEPT ![n].life = "running", ![n].pause = "none"]
              = [rows EXCEPT ![n] = NodeRow("running", "none", rows[n].outcome)]
         /\ [rows EXCEPT ![n].life = "terminal", ![n].outcome = "succeeded"]
              = [rows EXCEPT ![n] = NodeRow("terminal", rows[n].pause, "succeeded")]
<1>1. rows[n] \in Rows
  OBVIOUS
<1>2. [rows[n] EXCEPT !.life = "running", !.pause = "none"] = NodeRow("running", "none", rows[n].outcome)
  <2> DEFINE a == [rows[n] EXCEPT !.life = "running", !.pause = "none"]
             b == NodeRow("running", "none", rows[n].outcome)
  <2>1. a \in Rows /\ b \in Rows
    BY <1>1 DEF Rows, NodeRow, Lives, Pauses, Outcomes
  <2>2. a.life = b.life /\ a.pause = b.pause /\ a.outcome = b.outcome
    BY <1>1 DEF Rows, NodeRow
  <2> HIDE DEF a, b
  <2>3. a = b
    BY <2>1, <2>2, SameRow
  <2> QED
    BY <2>3 DEF a, b
<1>3. [rows[n] EXCEPT !.life = "terminal", !.outcome = "succeeded"]
        = NodeRow("terminal", rows[n].pause, "succeeded")
  <2> DEFINE a == [rows[n] EXCEPT !.life = "terminal", !.outcome = "succeeded"]
             b == NodeRow("terminal", rows[n].pause, "succeeded")
  <2>1. a \in Rows /\ b \in Rows
    BY <1>1 DEF Rows, NodeRow, Lives, Pauses, Outcomes
  <2>2. a.life = b.life /\ a.pause = b.pause /\ a.outcome = b.outcome
    BY <1>1 DEF Rows, NodeRow
  <2> HIDE DEF a, b
  <2>3. a = b
    BY <2>1, <2>2, SameRow
  <2> QED
    BY <2>3 DEF a, b
<1>4. [rows EXCEPT ![n].life = "running", ![n].pause = "none"]
        = [rows EXCEPT ![n] = [rows[n] EXCEPT !.life = "running", !.pause = "none"]]
  OBVIOUS
<1>5. [rows EXCEPT ![n].life = "terminal", ![n].outcome = "succeeded"]
        = [rows EXCEPT ![n] = [rows[n] EXCEPT !.life = "terminal", !.outcome = "succeeded"]]
  OBVIOUS
<1> QED
  BY <1>2, <1>3, <1>4, <1>5

\* The walker marks the node it is at as running.
LEMMA NodeStarted ==
  ASSUME RunInv, StartNode PROVE RunInv'
<1> USE DEF RunInv
<1>1. at \in Places /\ pc = "step" /\ thread = "walker" /\ Walkable
      /\ UNCHANGED <<graph, shadow, run, at, resumed, ending, resumes, cancels, crashes>>
  BY DEF StartNode, AtNode, ControlInv, RunTypes, Places, Walkable, setup, counts
<1>2. PICK r \in Rows : /\ r.life = "running" /\ r.pause = "none" /\ r.outcome = nodes[Here].outcome
                       /\ nodes' = [nodes EXCEPT ![Here] = r]
  <2>1. Here \in Nodes /\ nodes \in [Nodes -> Rows]
    BY <1>1, PlacesAreNodes DEF Here, RunTypes
  <2> DEFINE r == NodeRow("running", "none", nodes[Here].outcome)
  <2>2. r \in Rows
    BY <2>1 DEF NodeRow, Rows, Lives, Pauses, Outcomes
  <2>3. nodes' = [nodes EXCEPT ![Here] = r]
    BY <2>1, RowUpdates DEF StartNode
  <2> QED
    BY <2>2, <2>3 DEF NodeRow
<1>3. /\ Here \in Nodes /\ nodes' \in [Nodes -> Rows]
      /\ \A n \in Nodes : nodes'[n] = IF n = Here THEN r ELSE nodes[n]
      /\ \A k \in Places : nodes'[graph.order[k]] = IF k = at THEN r ELSE Row(k)
  BY <1>1, <1>2, HereWritten
<1>4. Places' = Places /\ Walks(graph)' /\ Here' = Here /\ Row(at).life # "terminal"
  BY <1>1 DEF Places, Here, StartNode, Row
<1>5. \/ pc' = "await" /\ thread' = "free" /\ graph.kind[Here] = "playbook"
      \/ pc' = "work" /\ thread' = "walker"
  BY <1>1 DEF StartNode
<1>6. RunTypes'
  BY <1>1, <1>3, <1>5 DEF RunTypes
<1>7. run.life \in {"running", "terminal"}
  BY <1>1 DEF ControlInv
<1>8. ControlInv'
  <2>1. nodes'[graph.order[at]].life = "running"
    BY <1>1, <1>2, <1>3
  <2> QED
    BY <1>1, <1>4, <1>5, <1>7, <2>1 DEF ControlInv, Row
<1>9. OrderInv'
  <2>1. ASSUME NEW k \in Places, k < at PROVE nodes'[graph.order[k]].life = "terminal"
    <3>1. Row(k).life = "terminal"
      BY <1>1, <2>1 DEF OrderInv
    <3>2. k # at
      BY <2>1 DEF Places
    <3> QED
      BY <1>3, <3>1, <3>2
  <2>2. ASSUME NEW j \in Places, NEW k \in Places, j < k, nodes'[graph.order[j]].life = "terminal",
               nodes'[graph.order[j]].outcome # "succeeded", ~Rejected(j)'
        PROVE  nodes'[graph.order[k]].life = "terminal"
    <3>1. j # at
      BY <1>2, <1>3, <2>2
    <3>2. ~Rejected(j)
      BY <1>1, <1>3, <1>4, <2>2, <3>1 DEF Rejected, Row
    <3> QED
      BY <1>1, <1>2, <1>3, <1>4, <2>2, <3>1, <3>2 DEF OrderInv
  <2>3. cancels = 0 \/ ~(cancels > 0)
    BY <1>1, <1>4 DEF OrderInv
  <2>4. ASSUME NEW j \in Places, NEW k \in Places, j < k, nodes'[graph.order[k]].life = "paused"
        PROVE  nodes'[graph.order[j]].life = "terminal"
    BY <1>1, <1>2, <1>3, <1>4, <2>4 DEF OrderInv
  <2> QED
    BY <1>1, <1>4, <2>1, <2>2, <2>3, <2>4 DEF OrderInv, Row, RunTypes
<1>10. ApprovalInv'
  <2>1. Approved' = Approved
    BY <1>1, <1>2, <1>3 DEF Approved
  <2>2. ASSUME NEW k \in Places, nodes'[graph.order[k]].life = "paused",
               nodes'[graph.order[k]].pause = "approval_required"
        PROVE  AsksApproval(graph.order[k])
    <3>1. k # at
      BY <1>2, <1>3, <2>2
    <3> QED
      BY <1>3, <2>2, <3>1 DEF AsksApproval, Row
  <2>3. (\E k \in Places : AsksApproval(graph.order[k]))' => \E k \in Places : AsksApproval(graph.order[k])
    BY <1>1, <1>4, <2>2 DEF AsksApproval
  <2> QED
    BY <1>1, <2>1, <2>3 DEF ApprovalInv
<1> QED
  BY <1>4, <1>6, <1>8, <1>9, <1>10

LEMMA NodeDecided ==
  ASSUME RunInv, ApprovePaused \/ DecideApproval \/ DecideCheck \/ ReplayReturns
  PROVE  RunInv'
<1> USE DEF RunInv
<1>1. /\ at \in Places /\ Here \in Nodes /\ nodes \in [Nodes -> Rows] /\ pc \in {"step", "work", "await"}
      /\ UNCHANGED <<graph, shadow, run, resumed, resumes, cancels, crashes>> /\ thread' = "walker"
      /\ thread # "canceller"
  <2>1. at \in Places
    BY DEF ApprovePaused, DecideApproval, DecideCheck, ReplayReturns, AtNode, ControlInv, RunTypes, Places
  <2>2. Here \in Nodes /\ nodes \in [Nodes -> Rows]
    BY <2>1, PlacesAreNodes DEF Here, RunTypes
  <2> QED
    BY <2>1, <2>2
    DEF ApprovePaused, DecideApproval, DecideCheck, ReplayReturns, AtNode, setup, counts
<1>2. CASE ApprovePaused
  <2> DEFINE r == NodeRow("terminal", "none", "succeeded")
  <2>1. r \in Rows /\ r.life = "terminal" /\ r.outcome = "succeeded"
    BY DEF NodeRow, Rows, Lives, Pauses, Outcomes
  <2>2. /\ nodes' = [nodes EXCEPT ![Here] = r] /\ pc' = "step" /\ at' = at + 1
        /\ ending' = ending /\ resumed /\ pc = "step" /\ AsksApproval(Here)
    BY <1>2 DEF ApprovePaused, AtNode, IsApproved, AsksApproval
  <2> HIDE DEF r
  <2> QED
    BY <1>1, <2>1, <2>2, NodeDone
<1>3. ASSUME NodeSucceeds, shadow \/ graph.kind[Here] # "approval" PROVE RunInv'
  <2> DEFINE r == NodeRow("terminal", nodes[Here].pause, "succeeded")
  <2>1. r \in Rows /\ r.life = "terminal" /\ r.outcome = "succeeded"
    BY <1>1 DEF NodeRow, Rows, Lives, Outcomes
  <2>2. nodes' = [nodes EXCEPT ![Here] = r]
    BY <1>1, <1>3, RowUpdates DEF NodeSucceeds
  <2>3. pc' = "step" /\ at' = at + 1 /\ ending' = ending
    BY <1>3 DEF NodeSucceeds
  <2> HIDE DEF r
  <2> QED
    BY <1>1, <1>3, <2>1, <2>2, <2>3, NodeDone
<1>4. CASE DecideApproval
  BY <1>1, <1>3, <1>4, NodeStopped DEF DecideApproval
<1>5. CASE DecideCheck
  BY <1>1, <1>3, <1>5, NodeStopped DEF DecideCheck
<1>6. CASE ReplayReturns
  <2>1. graph.kind[Here] = "playbook"
    BY <1>6 DEF ReplayReturns, ControlInv
  <2> QED
    BY <1>1, <1>3, <1>6, <2>1, NodeStopped DEF ReplayReturns
<1> QED
  BY <1>2, <1>4, <1>5, <1>6

\* A run is created on a graph it can walk.
LEMMA RunCreated ==
  ASSUME RunInv, NEW g, NEW s, Walks(g), CreateRun(g, s) PROVE RunInv'
<1> USE DEF RunInv
<1>1. /\ graph' = g /\ thread' = "walker" /\ pc' = "begin" /\ ~resumed' /\ cancels' = cancels
      /\ at' = at /\ ending' = ending /\ resumes' = resumes /\ crashes' = crashes
      /\ run.life = "none"
      /\ run' = [run EXCEPT !.life = "queued"] /\ cancels = 0
  BY DEF CreateRun, counts, ControlInv
<1>2. /\ nodes' \in [Nodes -> Rows] /\ \A n \in Nodes : nodes'[n].outcome = "none"
      /\ \A n \in Nodes : (\E k \in 1..Len(g.order) : g.order[k] = n) =>
           nodes'[n].life \in {"ready", "pending"}
  BY <1>1 DEF CreateRun, ControlInv, RunTypes, NodeRow, Rows, Lives, Pauses, Outcomes
<1>3. Walks(graph)'
  BY <1>1 DEF Walks
<1>4. ASSUME NEW k \in Places' PROVE nodes'[g.order[k]].life \in {"ready", "pending"}
  BY <1>1, <1>2 DEF Places, Walks
<1>5. RunTypes'
  BY <1>1, <1>2 DEF RunTypes, Rows, Lives
<1>6. run'.life = "queued"
  BY <1>1 DEF RunTypes, Rows
<1>7. ControlInv'
  BY <1>1, <1>6 DEF ControlInv
<1>8. OrderInv'
  BY <1>1, <1>4 DEF OrderInv, Row
<1>9. ApprovalInv'
  <2>1. Approved' = {}
    BY <1>2 DEF Approved
  <2> QED
    BY <1>1, <1>5, <2>1, FS_EmptySet DEF ApprovalInv, RunTypes
<1> QED
  BY <1>3, <1>5, <1>7, <1>8, <1>9

\* A cancel rejects one node that is open.
LEMMA NodeCancelled ==
  ASSUME RunInv, NEW n \in Nodes, CancelNode(n) PROVE RunInv'
<1> USE DEF RunInv
<1>1. /\ UNCHANGED <<graph, shadow, run, pc, at, resumed, ending, thread, resumes, cancels, crashes>>
      /\ thread = "canceller" /\ nodes[n].life # "terminal" /\ run.life # "none"
  BY DEF CancelNode, Open, setup, walker, counts, ControlInv
<1>2. /\ nodes' \in [Nodes -> Rows]
      /\ \A m \in Nodes : m # n => nodes'[m] = nodes[m]
      /\ nodes'[n].life = "terminal" /\ nodes'[n].outcome = "rejected"
  BY DEF CancelNode, RunTypes, Rows, Lives, Outcomes
<1>3. Places' = Places /\ Walks(graph)' /\ \A k \in Places : graph.order[k] \in Nodes
  BY <1>1, PlacesAreNodes DEF Places
<1>4. RunTypes'
  BY <1>1, <1>2 DEF RunTypes
<1>5. pc \notin {"begin", "step", "work", "close"}
  BY <1>1 DEF ControlInv
<1>6. ControlInv'
  BY <1>1, <1>3, <1>5 DEF ControlInv, Here
<1>7. OrderInv'
  <2>1. ASSUME NEW k \in Places, Row(k).life = "terminal" PROVE nodes'[graph.order[k]] = Row(k)
    BY <1>1, <1>2, <1>3, <2>1 DEF Row
  <2>2. ASSUME NEW k \in Places, nodes'[graph.order[k]].life = "paused"
        PROVE  nodes'[graph.order[k]] = Row(k)
    BY <1>2, <1>3, <2>2 DEF Row
  <2>3. ASSUME NEW j \in Places, ~Rejected(j)', nodes'[graph.order[j]].life = "terminal"
        PROVE  nodes'[graph.order[j]] = Row(j) /\ ~Rejected(j)
    <3>1. graph.order[j] # n
      BY <1>1, <1>2, <2>3 DEF Rejected, Row
    <3> QED
      BY <1>1, <1>2, <1>3, <2>3, <3>1 DEF Rejected, Row
  <2>4. Walkable' = Walkable
    BY <1>1 DEF Walkable, MayResume
  <2>5. pc \in {"step", "work", "await"} =>
          \A k \in Places : k < at => nodes'[graph.order[k]].life = "terminal"
    BY <2>1 DEF OrderInv
  <2>6. ASSUME Walkable, NEW j \in Places, NEW k \in Places, j < k,
               nodes'[graph.order[j]].life = "terminal",
               nodes'[graph.order[j]].outcome # "succeeded", ~Rejected(j)'
        PROVE  nodes'[graph.order[k]].life = "terminal"
    BY <2>1, <2>3, <2>6 DEF OrderInv
  <2>7. Walkable /\ cancels > 0 => \A k \in Places : nodes'[graph.order[k]].life = "terminal"
    BY <2>1 DEF OrderInv
  <2>8. ASSUME NEW j \in Places, NEW k \in Places, j < k, nodes'[graph.order[k]].life = "paused"
        PROVE  nodes'[graph.order[j]].life = "terminal"
    BY <2>1, <2>2, <2>8 DEF OrderInv
  <2> QED
    BY <1>1, <1>3, <2>4, <2>5, <2>6, <2>7, <2>8 DEF OrderInv, Row
<1>8. ApprovalInv'
  <2>1. Approved' \subseteq Approved
    BY <1>1, <1>2 DEF Approved
  <2>2. (\E k \in Places : AsksApproval(graph.order[k]))' => \E k \in Places : AsksApproval(graph.order[k])
    BY <1>1, <1>2, <1>3 DEF AsksApproval
  <2> QED
    BY <1>1, <2>1, <2>2, ApprovedSubset DEF ApprovalInv, RunTypes
<1> QED
  BY <1>3, <1>4, <1>6, <1>7, <1>8

\* A cancel that is answered has left no node open, and no pause to resume.
LEMMA RunCancelled ==
  ASSUME RunInv, CancelRun PROVE RunInv'
<1> USE DEF RunInv
<1>1. /\ UNCHANGED <<graph, shadow, nodes, pc, at, resumed, ending, resumes, crashes>>
      /\ thread = "canceller" /\ thread' = "free" /\ cancels' = cancels + 1
      /\ run' = [life |-> "terminal", pause |-> "none", outcome |-> "cancelled"]
  BY DEF CancelRun, setup, walker
<1>2. \A k \in Places : Row(k).life = "terminal"
  BY PlacesAreNodes DEF CancelRun, Open, InGraph, Places, Row
<1>3. Places' = Places /\ Walks(graph)'
  BY <1>1 DEF Places
<1>4. RunTypes'
  BY <1>1 DEF RunTypes, Rows, Lives, Pauses, Outcomes
<1>5. pc \notin {"begin", "step", "work", "close"} /\ cancels' > 0
  BY <1>1 DEF ControlInv, RunTypes
<1>6. ControlInv'
  BY <1>1, <1>3, <1>5 DEF ControlInv, Here
<1>7. OrderInv'
  BY <1>1, <1>2, <1>3, <1>5 DEF OrderInv, Row
<1>8. ApprovalInv'
  <2>1. Approved' = Approved
    BY <1>1 DEF Approved
  <2>2. (\E k \in Places : AsksApproval(graph.order[k]))' => \E k \in Places : AsksApproval(graph.order[k])
    BY <1>1, <1>3 DEF AsksApproval
  <2> QED
    BY <1>1, <2>1, <2>2 DEF ApprovalInv
<1> QED
  BY <1>3, <1>4, <1>6, <1>7, <1>8

(***************************************************************************)
(* The run with the versions of its automation.                            *)
(***************************************************************************)

AutomationInv == RunInv /\ VersionInv

\* The walker, a cancel and a resume leave the graph alone and need a run.
LEMMA StepsNeedRun ==
  ASSUME ControlInv,
         WalkerStep \/ ReplayReturns \/ ReplayThrows \/ CancelBegins \/ CancelStep \/ Resume \/ Crash
  PROVE  run.life # "none" /\ graph' = graph
BY DEF ControlInv, WalkerStep, ReplayReturns, ReplayThrows, CancelBegins, CancelStep, CancelNode,
   CancelRun, Resume, Crash,
   Begin, SkipTerminal, ApprovePaused, StartNode, AtNode, DecideApproval, DecideCheck, CloseRun,
   FinishRun, MayResume, setup

LEMMA AutomationSteps ==
  AutomationInv /\ [AutomationNext]_allVars => AutomationInv'
<1> SUFFICES ASSUME RunInv, VersionInv, [AutomationNext]_allVars PROVE RunInv' /\ VersionInv'
  BY DEF AutomationInv
<1>1. ASSUME UNCHANGED vars PROVE RunInv'
  <2> USE <1>1 DEF vars, RunInv
  <2>1. RunTypes' /\ Walks(graph)'
    BY DEF RunTypes
  <2>2. ControlInv'
    BY DEF ControlInv, Row, Here, Places
  <2>3. OrderInv'
    BY DEF OrderInv, Walkable, MayResume, Rejected, Row, Places
  <2>4. Approved' = Approved
    BY DEF Approved
  <2>5. ApprovalInv'
    BY <2>4 DEF ApprovalInv, AsksApproval, Places
  <2> QED
    BY <2>1, <2>2, <2>3, <2>5
<1>2. ASSUME UNCHANGED <<versions, runs>>, graph' = graph, run'.life # "none" => run.life # "none"
      PROVE  VersionInv'
  BY <1>2 DEF VersionInv
<1>3. ControlInv
  BY DEF RunInv
<1>4. CASE UNCHANGED allVars \/ Validate \/ Respond
  BY <1>1, <1>2, <1>4 DEF allVars, defVars, vars, Validate, Respond
<1>5. CASE CreateDefinition
  <2>1. RunInv'
    BY <1>1, <1>5 DEF CreateDefinition
  <2>2. UNCHANGED <<graph, run>>
    BY <1>5 DEF CreateDefinition, vars
  <2>3. CASE D!UpsertDefinition
    BY <1>2, <2>1, <2>2, <2>3 DEF D!UpsertDefinition
  <2>4. CASE \E g \in Submitted, s \in D!Statuses : IsValid(g) /\ D!InsertVersion(Walked(g), s)
    <3>1. PICK g \in Submitted, s \in D!Statuses : IsValid(g) /\ D!InsertVersion(Walked(g), s)
      BY <2>4
    <3> DEFINE w == Walked(g)
               u == latest + 1
    <3>2. Walks(w)
      BY <3>1, SubmittedWalks
    <3>3. versions[u] = NoGraph /\ versions' = [versions EXCEPT ![u] = w] /\ runs' = runs
      BY <3>1 DEF D!InsertVersion
    <3> HIDE DEF w, u
    <3>4. versions = [v \in 1..MaxVersion |-> versions[v]]
      BY DEF VersionInv
    <3>5. \A v \in 1..MaxVersion : versions'[v] = IF v = u THEN w ELSE versions[v]
      BY <3>3, <3>4
    <3>6. versions' = [v \in 1..MaxVersion |-> versions'[v]]
      BY <3>3, <3>4
    <3>7. \A v \in 1..MaxVersion : Walks(versions'[v])
      BY <3>2, <3>5 DEF VersionInv
    <3>8. run.life # "none" => runs["run"].version \in 1..MaxVersion /\ runs["run"].version # u
      BY <3>3 DEF VersionInv
    <3>9. VersionInv'
      BY <2>2, <3>3, <3>5, <3>6, <3>7, <3>8 DEF VersionInv
    <3> QED
      BY <2>1, <3>9
  <2> QED
    BY <1>5, <2>3, <2>4 DEF CreateDefinition
<1>6. CASE RunVersion
  <2>1. PICK v \in 1..MaxVersion, byVersion, dry \in BOOLEAN :
          D!PinVersion("run", v, byVersion) /\ CreateRun(versions[v], dry)
    BY <1>6 DEF RunVersion
  <2>2. Walks(versions[v])
    BY DEF VersionInv
  <2>3. RunInv'
    BY <2>1, <2>2, RunCreated
  <2>4. /\ runs' = [runs EXCEPT !["run"] = [version |-> v, graph |-> versions[v]]]
        /\ versions' = versions /\ graph' = versions[v] /\ versions[v] # NoGraph
    BY <2>1 DEF D!PinVersion, D!Runnable, CreateRun
  <2>5. runs = [r \in {"run"} |-> runs[r]]
    BY DEF VersionInv
  <2>6. runs' = [r \in {"run"} |-> runs'[r]] /\ runs'["run"].version = v
    BY <2>4, <2>5
  <2>7. VersionInv'
    BY <2>4, <2>6 DEF VersionInv
  <2> QED
    BY <2>3, <2>7
<1>7. CASE RunSteps
  <2>1. WalkerStep \/ ReplayReturns \/ ReplayThrows \/ CancelBegins \/ CancelStep \/ Resume
    BY <1>7 DEF RunSteps
  <2>2. RunInv'
    BY <2>1, WalkerMovesOn, RowsLeftAlone, NodeStarted, NodeDecided, NodeCancelled, RunCancelled
    DEF WalkerStep, CancelStep
  <2>3. VersionInv'
    BY <1>2, <1>3, <1>7, <2>1, StepsNeedRun DEF RunSteps, defVars
  <2> QED
    BY <2>2, <2>3
<1>8. CASE ProcessDies
  <2>1. RunInv'
    BY <1>1, <1>8, RowsLeftAlone DEF ProcessDies
  <2>2. UNCHANGED <<versions, runs>>
    BY <1>8 DEF ProcessDies, D!DieWriting, defVars
  <2>3. graph' = graph /\ (run'.life # "none" => run.life # "none")
    BY <1>3, <1>8, StepsNeedRun DEF ProcessDies, vars
  <2> QED
    BY <1>2, <2>1, <2>2, <2>3
<1> QED
  BY <1>4, <1>5, <1>6, <1>7, <1>8 DEF AutomationNext

LEMMA AutomationInvariant == AutomationSpec => []AutomationInv
<1>1. AutomationInit => AutomationInv
  BY AutomationStarts DEF AutomationInv
<1> QED
  BY <1>1, AutomationSteps, PTL DEF AutomationSpec

(***************************************************************************)
(* What follows.                                                           *)
(***************************************************************************)

\* Outside shadow mode no approval node succeeds without a resume of its own,
\* however often the run was paused, resumed and cancelled.
THEOREM ApprovalsAreAlwaysGiven == AutomationSpec => []ApprovalsAreGiven
<1>1. AutomationInv => ApprovalsAreGiven
  BY DEF AutomationInv, RunInv, ApprovalInv, Approved, ApprovalsAreGiven
<1> QED
  BY <1>1, AutomationInvariant, PTL

\* The graph a run resumes is the one stored under the version its rows name.
THEOREM ResumedGraphIsAlwaysTheSame == AutomationSpec => []ResumedGraphIsTheSame
<1>1. AutomationInv => ResumedGraphIsTheSame
  BY DEF AutomationInv, VersionInv, ResumedGraphIsTheSame
<1> QED
  BY <1>1, AutomationInvariant, PTL

\* Only StartNode marks a node as running.
LEMMA OnlyStartNodeStarts ==
  ASSUME AutomationInv, AutomationNext, NEW n \in Nodes,
         nodes[n].life # "running", nodes'[n].life = "running"
  PROVE  StartNode /\ n = Here /\ at \in Places
<1>1. RunInv /\ RunTypes /\ Walks(graph) /\ nodes \in [Nodes -> Rows]
  BY DEF AutomationInv, RunInv, RunTypes
<1>2. nodes' # nodes
  OBVIOUS
<1>3. CASE RunVersion
  BY <1>3 DEF RunVersion, CreateRun, NodeRow
<1>4. CASE RunSteps
  <2>1. \/ Begin \/ SkipTerminal \/ CloseRun \/ FinishRun \/ ReplayThrows \/ CancelRun \/ Resume
        \/ CancelBegins \/ (\E m \in Nodes : CancelNode(m))
        \/ ApprovePaused \/ DecideApproval \/ DecideCheck \/ ReplayReturns \/ StartNode
    BY <1>4 DEF RunSteps, WalkerStep, CancelStep
  <2>2. ~(\/ Begin \/ SkipTerminal \/ CloseRun \/ FinishRun \/ ReplayThrows \/ CancelRun \/ Resume
          \/ CancelBegins)
    BY <1>2 DEF Begin, SkipTerminal, CloseRun, FinishRun, ReplayThrows, CancelRun, Resume, CancelBegins
  <2>3. ASSUME NEW m \in Nodes, CancelNode(m) PROVE FALSE
    <3>1. /\ nodes'[m].life = "terminal"
          /\ \A i \in Nodes : i # m => nodes'[i] = nodes[i]
      BY <1>1, <2>3 DEF CancelNode, Rows
    <3> QED
      BY <3>1
  <2>4. ASSUME ApprovePaused \/ DecideApproval \/ DecideCheck \/ ReplayReturns PROVE FALSE
    <3>1. at \in Places
      BY <1>1, <2>4 DEF ApprovePaused, DecideApproval, DecideCheck, ReplayReturns, AtNode, RunInv,
         ControlInv, RunTypes, Places
    <3>2. Here \in Nodes
      BY <1>1, <3>1, PlacesAreNodes DEF Here
    <3>3. \A m \in Nodes : m # Here => nodes'[m] = nodes[m]
      BY <1>1, <2>4, <3>2 DEF ApprovePaused, DecideApproval, DecideCheck, ReplayReturns,
         NodeSucceeds, NodeFails, PauseForApproval, NodeStops
    <3>4. nodes'[Here].life \in {"terminal", "paused"}
      BY <1>1, <2>4, <3>2 DEF ApprovePaused, DecideApproval, DecideCheck, ReplayReturns,
         NodeSucceeds, NodeFails, PauseForApproval, NodeStops, NodeRow, Rows
    <3> QED
      BY <3>3, <3>4
  <2>5. StartNode
    BY <2>1, <2>2, <2>3, <2>4
  <2>6. at \in Places
    BY <1>1, <2>5 DEF StartNode, AtNode, RunInv, ControlInv, RunTypes, Places
  <2>7. \A m \in Nodes : m # Here => nodes'[m] = nodes[m]
    BY <1>1, <2>5 DEF StartNode
  <2> QED
    BY <2>5, <2>6, <2>7
<1>5. CASE ProcessDies
  BY <1>2, <1>5 DEF ProcessDies, Crash, vars
<1>6. CASE Validate \/ Respond \/ CreateDefinition
  BY <1>2, <1>6 DEF Validate, Respond, CreateDefinition, vars
<1> QED
  BY <1>3, <1>4, <1>5, <1>6 DEF AutomationNext

\* A node starts only when all it depends on has succeeded: whatever is before
\* it in the order is terminal, and the walk would not have gone on, or been
\* resumed, behind a failure.  Only what a cancel had rejected that a crash cut
\* short does not stop it.
THEOREM NodesStartAfterDependencies == AutomationSpec => StartsAfterDependencies
<1> DEFINE Step == \A n \in Nodes :
             nodes[n].life # "running" /\ nodes'[n].life = "running" =>
               \A d \in graph.deps[n] :
                 \/ nodes[d].outcome = "succeeded"
                 \/ nodes[d].outcome = "rejected" /\ cancels = 0 /\ crashes > 0
<1>1. AutomationInv /\ [AutomationNext]_allVars => [Step]_vars
  <2> SUFFICES ASSUME AutomationInv, AutomationNext, NEW n \in Nodes,
                      nodes[n].life # "running", nodes'[n].life = "running",
                      NEW d \in graph.deps[n]
               PROVE  \/ nodes[d].outcome = "succeeded"
                      \/ nodes[d].outcome = "rejected" /\ cancels = 0 /\ crashes > 0
    BY DEF allVars
  <2>1. StartNode /\ n = Here /\ at \in Places
    BY OnlyStartNodeStarts
  <2>2. /\ Walks(graph) /\ OrderInv /\ RunTypes /\ Row(at).life # "terminal"
        /\ pc = "step" /\ thread = "walker"
    BY <2>1 DEF AutomationInv, RunInv, StartNode, AtNode, Row, Here
  <2>3. PICK j \in 1..(at - 1) : graph.order[j] = d
    BY <2>1, <2>2 DEF Walks, Here, Places
  <2>4. j \in Places /\ j < at
    BY <2>1, <2>3 DEF Places
  <2>5. Row(j).life = "terminal"
    BY <2>2, <2>4 DEF OrderInv
  <2>6. Row(j).outcome = "succeeded" \/ Rejected(j)
    BY <2>1, <2>2, <2>4, <2>5 DEF OrderInv, Walkable
  <2>7. cancels = 0
    BY <2>1, <2>2 DEF OrderInv, Walkable, RunTypes
  <2> QED
    BY <2>2, <2>3, <2>6, <2>7 DEF Row, Rejected
<1>2. AutomationSpec => [][Step]_vars
  BY <1>1, AutomationInvariant, PTL DEF AutomationSpec
<1> QED
  BY <1>2 DEF StartsAfterDependencies

\* While a cancel is at work and once it was answered no node starts: a walk
\* that was awaiting a replay then finds every node terminal, and nothing
\* resumes the run.
THEOREM NothingEverStartsAfterCancel == AutomationSpec => NothingStartsAfterCancel
<1> DEFINE Step == \A n \in Nodes :
             (cancels > 0 \/ thread = "canceller") /\ nodes[n].life # "running"
               => nodes'[n].life # "running"
<1>1. AutomationInv /\ [AutomationNext]_allVars => [Step]_vars
  <2> SUFFICES ASSUME AutomationInv, AutomationNext, cancels > 0 \/ thread = "canceller",
                      NEW n \in Nodes, nodes[n].life # "running", nodes'[n].life = "running"
               PROVE  FALSE
    BY DEF allVars
  <2>1. StartNode /\ n = Here /\ at \in Places
    BY OnlyStartNodeStarts
  <2>2. OrderInv /\ pc = "step" /\ thread = "walker" /\ Row(at).life # "terminal"
    BY <2>1 DEF AutomationInv, RunInv, StartNode, AtNode, Row, Here
  <2> QED
    BY <2>1, <2>2 DEF OrderInv, Walkable
<1>2. AutomationSpec => [][Step]_vars
  BY <1>1, AutomationInvariant, PTL DEF AutomationSpec
<1> QED
  BY <1>2 DEF NothingStartsAfterCancel

\* What validation is about to answer.
AnswerInv ==
  answer = NoAnswer \/ \E g \in Drafts :
    answer = [draft |-> g, valid |-> IsValid(g), order |-> Order(g)]

\* Whatever draft validation answers, the answer is right.
THEOREM ValidationIsAlwaysRight == AutomationSpec => []ValidationIsRight
<1>1. AutomationInit => AnswerInv
  BY DEF AutomationInit, AnswerInv
<1>2. AnswerInv /\ [AutomationNext]_allVars => AnswerInv'
  <2> SUFFICES ASSUME AnswerInv, [AutomationNext]_allVars PROVE AnswerInv'
    OBVIOUS
  <2>1. CASE answer' = answer
    BY <2>1 DEF AnswerInv
  <2>2. CASE answer' = NoAnswer
    BY <2>2 DEF AnswerInv, NoAnswer
  <2>3. CASE Validate
    BY <2>3 DEF Validate, AnswerInv
  <2> QED
    BY <2>1, <2>2, <2>3
    DEF AutomationNext, allVars, Respond, CreateDefinition, RunVersion, RunSteps, ProcessDies
<1>3. AnswerInv => ValidationIsRight
  <2> SUFFICES ASSUME NEW g \in Drafts,
                      answer = [draft |-> g, valid |-> IsValid(g), order |-> Order(g)]
               PROVE  ValidationIsRight
    BY DEF AnswerInv, ValidationIsRight
  <2>1. answer.draft = g /\ answer.order = Order(g) /\ answer.valid = IsValid(g)
    OBVIOUS
  <2>2. WellFormed(g)
    BY GraphsAreWellFormed
  <2>3. (IsValid(g) <=> IsSound(g)) /\ (IsValid(g) => OrderFits(g, Order(g)))
    BY <2>2, ValidationDecidesSoundness
  <2>4. IsValid(g) = IsSound(g)
    BY <2>3 DEF IsValid, IsSound
  <2> QED
    BY <2>1, <2>3, <2>4 DEF ValidationIsRight
<1> QED
  BY <1>1, <1>2, <1>3, PTL DEF AutomationSpec
=============================================================================
