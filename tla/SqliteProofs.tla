---------------------------- MODULE SqliteProofs ----------------------------
(***************************************************************************)
(* Proofs about a session of the SQLite review: what its operators compute *)
(* for databases, requests and bounds of any size, the invariant that a    *)
(* session keeps, and the properties that follow from it.                  *)
(*                                                                         *)
(* SessionInv says where the answer on the screen comes from: it is what   *)
(* the operation computes from the archive as it was when the reviewer     *)
(* read its fingerprint or as it is now (ViewOk).  A walk over pages that  *)
(* carries the fingerprint has shown a contiguous part of one ordered      *)
(* result (WalkOk), and a reference that is followed starts from a row of  *)
(* that archive (ShownOk).  It is inductive because SQLite keeps what      *)
(* IsDatabase says of every file, and because a request that carries a     *)
(* fingerprint is answered from that archive or refused.                   *)
(***************************************************************************)
EXTENDS SqliteSession, FiniteSetTheorems, SequenceTheorems, WellFoundedInduction, TLAPS

\* Ascending lists a finite set of numbers, each once, from the least on.
LEMMA AscendingLists ==
  ASSUME NEW S \in SUBSET Nat, IsFiniteSet(S)
  PROVE  /\ Cardinality(S) \in Nat
         /\ Ascending(S) \in [1 .. Cardinality(S) -> S]
         /\ \A i, j \in 1 .. Cardinality(S) : i < j => Ascending(S)[i] < Ascending(S)[j]
         /\ \A x \in S : \E n \in 1 .. Cardinality(S) : Ascending(S)[n] = x
         /\ \A n \in 1 .. Cardinality(S) :
              Cardinality({x \in S : x <= Ascending(S)[n]}) = n
<1> DEFINE m == Cardinality(S)
           I == 1 .. Cardinality(S)
           below(x) == {y \in S : y <= x}
           rank == [x \in S |-> Cardinality(below(x))]
           Lists(f) == \A i, j \in I : i < j => f[i] < f[j]
<1>0. m \in Nat /\ IsFiniteSet(I) /\ Cardinality(I) = m
  <2>1. m \in Nat
    BY FS_CardinalityType
  <2> QED
    BY <2>1, FS_Interval
<1>a. \A x \in S : x \in Nat
  OBVIOUS
<1>b. \A n \in I : n \in Nat
  BY <1>0
<1>1. \A x \in S : IsFiniteSet(below(x)) /\ Cardinality(below(x)) \in 1 .. m
  <2> SUFFICES ASSUME NEW x \in S
               PROVE  IsFiniteSet(below(x)) /\ Cardinality(below(x)) \in 1 .. m
    OBVIOUS
  <2>1. below(x) \in SUBSET S /\ x \in below(x)
    OBVIOUS
  <2> HIDE DEF below
  <2>2. IsFiniteSet(below(x)) /\ Cardinality(below(x)) <= m
    BY <2>1, FS_Subset
  <2>3. Cardinality(below(x)) \in Nat /\ Cardinality(below(x)) # 0
    BY <2>1, <2>2, FS_CardinalityType, FS_EmptySet
  <2> QED
    BY <1>0, <2>2, <2>3
<1>2. ASSUME NEW x \in S, NEW y \in S, x < y
      PROVE  rank[x] < rank[y]
  <2>1. below(x) \in SUBSET below(y) /\ below(x) # below(y)
    <3>1. y \in below(y) /\ y \notin below(x)
      BY <1>2, <1>a
    <3>2. \A z \in S : z <= x => z <= y
      BY <1>2, <1>a
    <3> QED
      BY <3>1, <3>2
  <2> HIDE DEF below, m
  <2>2. IsFiniteSet(below(y)) /\ Cardinality(below(x)) \in Nat /\ Cardinality(below(y)) \in Nat
    BY <1>0, <1>1
  <2>3. Cardinality(below(x)) <= Cardinality(below(y))
        /\ Cardinality(below(x)) # Cardinality(below(y))
    BY <2>1, <2>2, FS_Subset
  <2> QED
    BY <2>2, <2>3
<1>3. rank \in [S -> I] /\ \A x, y \in S : rank[x] = rank[y] => x = y
  <2>1. rank \in [S -> I]
    BY <1>1
  <2>2. \A x \in S : rank[x] \in Nat
    BY <1>0, <2>1
  <2> HIDE DEF rank
  <2>3. \A x, y \in S : x < y \/ y < x \/ x = y
    OBVIOUS
  <2> QED
    BY <1>2, <2>1, <2>2, <2>3
<1>4. \A n \in I : \E x \in S : rank[x] = n
  <2> HIDE DEF rank, I
  <2>1. rank \in Injection(S, I)
    BY <1>3 DEF Injection, IsInjective
  <2>2. rank \in Surjection(S, I)
    BY <1>0, <2>1, FS_Injection
  <2> QED
    BY <2>2 DEF Surjection
<1>5. \E f \in [I -> S] : Lists(f)
  <2> DEFINE f == [n \in I |-> CHOOSE x \in S : rank[x] = n]
  <2>1. \A n \in I : f[n] \in S /\ rank[f[n]] = n
    <3> HIDE DEF rank, I
    <3> QED
      BY <1>4
  <2>2. f \in [I -> S]
    BY <2>1
  <2> HIDE DEF f
  <2>3. ASSUME NEW i \in I, NEW j \in I, i < j
        PROVE  f[i] < f[j]
    <3>1. f[i] \in Nat /\ f[j] \in Nat /\ i \in Nat /\ j \in Nat
      BY <1>a, <1>b, <2>1
    <3>2. rank[f[i]] = i /\ rank[f[j]] = j /\ f[i] \in S /\ f[j] \in S
      BY <2>1
    <3> HIDE DEF rank, I
    <3>3. f[j] < f[i] => j < i
      BY <1>2, <3>2
    <3>4. f[i] # f[j]
      BY <2>3, <3>1, <3>2
    <3> QED
      BY <2>3, <3>1, <3>3, <3>4
  <2> QED
    BY <2>2, <2>3
<1> DEFINE A == Ascending(S)
<1>6. A \in [I -> S] /\ Lists(A)
  <2>1. A = CHOOSE f \in [I -> S] : \A i, j \in DOMAIN f : i < j => f[i] < f[j]
    BY DEF Ascending
  <2>2. \E f \in [I -> S] : \A i, j \in DOMAIN f : i < j => f[i] < f[j]
    BY <1>5
  <2> HIDE DEF A, I
  <2> QED
    BY <2>1, <2>2
<1> HIDE DEF A
<1>c. \A i \in I : A[i] \in Nat
  <2> HIDE DEF I
  <2> QED
    BY <1>a, <1>6
<1>7. \A i, j \in I : i <= j <=> A[i] <= A[j]
  BY <1>6, <1>b, <1>c
<1>8. \A x \in S : \E n \in I : A[n] = x
  <2> HIDE DEF I
  <2>1. A \in Injection(I, S)
    <3>1. \A i, j \in I : A[i] = A[j] => i = j
      <4>1. \A i, j \in I : i \in Nat /\ j \in Nat /\ A[i] \in Nat /\ A[j] \in Nat
        BY <1>b, <1>c
      <4> QED
        BY <1>7, <4>1
    <3> QED
      BY <1>6, <3>1 DEF Injection, IsInjective
  <2>2. A \in Surjection(I, S)
    BY <1>0, <2>1, FS_Injection
  <2> QED
    BY <2>2 DEF Surjection
<1>9. ASSUME NEW n \in I
      PROVE  Cardinality({x \in S : x <= A[n]}) = n
  <2> DEFINE T == {x \in S : x <= A[n]}
             g == [i \in 1 .. n |-> A[i]]
  <2>0. n \in Nat /\ \A i \in 1 .. n : i \in I /\ i <= n
    BY <1>0
  <2>1. g \in [1 .. n -> T]
    BY <1>6, <1>7, <2>0
  <2>2. \A x \in T : \E i \in 1 .. n : g[i] = x
    <3> SUFFICES ASSUME NEW x \in T
                 PROVE  \E i \in 1 .. n : A[i] = x
      OBVIOUS
    <3>1. PICK i \in I : A[i] = x
      BY <1>8
    <3>2. i <= n
      BY <1>7, <3>1
    <3>3. i \in 1 .. n
      BY <1>0, <3>2
    <3> QED
      BY <3>1, <3>3
  <2>3. \A i, j \in 1 .. n : g[i] = g[j] => i = j
    <3>1. \A i \in 1 .. n : A[i] \in Nat /\ i \in Nat
      BY <1>c, <2>0
    <3> QED
      BY <1>7, <2>0, <3>1
  <2> HIDE DEF g, T
  <2>4. g \in Surjection(1 .. n, T) /\ g \in Injection(1 .. n, T)
    BY <2>1, <2>2, <2>3 DEF Surjection, Injection, IsInjective
  <2>5. IsFiniteSet(1 .. n) /\ Cardinality(1 .. n) = n
    <3>1. n >= 1
      BY <1>0
    <3> QED
      BY <2>0, <3>1, FS_Interval
  <2>6. Cardinality(T) = n
    BY <2>4, <2>5, FS_Surjection
  <2> QED
    BY <2>6 DEF T
<1> QED
  BY <1>0, <1>6, <1>8, <1>9 DEF A

\* A set of naturals that is not empty has a least element.
LEMMA LeastOf ==
  ASSUME NEW T \in SUBSET Nat, T # {}
  PROVE  \E x \in T : \A y \in T : x <= y
<1>1. PICK x \in T : \A y \in T : <<y, x>> \notin OpToRel(<, Nat)
  BY NatLessThanWellFounded, WFMin, Zenon
<1>2. ASSUME NEW y \in T, ~(x <= y)
      PROVE  FALSE
  <2>1. x \in Nat /\ y \in Nat /\ y < x
    BY <1>2
  <2>2. <<y, x>> \in OpToRel(<, Nat)
    BY <2>1 DEF OpToRel
  <2> QED
    BY <1>1, <2>2
<1> QED
  BY <1>2

\* Counting the elements below: a finite set under a strict total order R is
\* enumerated, each element once and in order, by the number below each.
LEMMA RankLists ==
  ASSUME NEW S, IsFiniteSet(S), NEW R,
         \A x \in S : <<x, x>> \notin R,
         \A x, y, z \in S : <<x, y>> \in R /\ <<y, z>> \in R => <<x, z>> \in R,
         \A x, y \in S : x = y \/ <<x, y>> \in R \/ <<y, x>> \in R
  PROVE  /\ Cardinality(S) \in Nat
         /\ \A x \in S : Cardinality({y \in S : <<y, x>> \in R}) \in 0 .. (Cardinality(S) - 1)
         /\ \A x, y \in S : <<x, y>> \in R =>
              Cardinality({z \in S : <<z, x>> \in R}) < Cardinality({z \in S : <<z, y>> \in R})
         /\ \A n \in 1 .. Cardinality(S) :
              \E x \in S : Cardinality({y \in S : <<y, x>> \in R}) = n - 1
<1> DEFINE n == Cardinality(S)
           Below(x) == {y \in S : <<y, x>> \in R}
           I == 0 .. (n - 1)
           rank == [x \in S |-> Cardinality(Below(x))]
<1>1. n \in Nat /\ IsFiniteSet(I) /\ Cardinality(I) = n
  <2>1. n \in Nat
    BY FS_CardinalityType
  <2>2. 0 \in Int /\ n - 1 \in Int
    BY <2>1
  <2> QED
    BY <2>1, <2>2, FS_Interval
<1>2. ASSUME NEW x \in S
      PROVE  IsFiniteSet(Below(x)) /\ Cardinality(Below(x)) \in I
  <2>1. /\ IsFiniteSet(Below(x)) /\ Cardinality(Below(x)) <= n
        /\ n = Cardinality(Below(x)) => S = Below(x)
    BY FS_Subset
  <2>2. x \notin Below(x)
    OBVIOUS
  <2>3. n # Cardinality(Below(x))
    BY <2>1, <2>2, Zenon
  <2>4. Cardinality(Below(x)) \in Nat
    BY <2>1, FS_CardinalityType, Zenon
  <2> QED
    BY <1>1, <2>1, <2>3, <2>4
<1>3. ASSUME NEW x \in S, NEW y \in S, <<x, y>> \in R
      PROVE  Cardinality(Below(x)) < Cardinality(Below(y))
  <2>1. Below(x) \in SUBSET Below(y)
    BY <1>3
  <2>2. x \in Below(y) /\ x \notin Below(x)
    BY <1>3
  <2>3. /\ Cardinality(Below(x)) <= Cardinality(Below(y))
        /\ Cardinality(Below(y)) = Cardinality(Below(x)) => Below(y) = Below(x)
    BY <1>2, <2>1, FS_Subset, Zenon
  <2>4. Cardinality(Below(y)) # Cardinality(Below(x))
    BY <2>2, <2>3, Zenon
  <2>5. Cardinality(Below(x)) \in I /\ Cardinality(Below(y)) \in I
    BY <1>2, Zenon
  <2> QED
    BY <2>3, <2>4, <2>5
<1>4. rank \in Injection(S, I)
  <2>1. rank \in [S -> I]
    BY <1>2
  <2>2. ASSUME NEW x \in S, NEW y \in S, rank[x] = rank[y]
        PROVE  x = y
    <3>1. Cardinality(Below(x)) = Cardinality(Below(y))
      BY <2>2
    <3>2. Cardinality(Below(x)) \in I
      BY <1>2, Zenon
    <3>3. ~(Cardinality(Below(x)) < Cardinality(Below(y))) /\ ~(Cardinality(Below(y)) < Cardinality(Below(x)))
      BY <3>1, <3>2
    <3> QED
      BY <1>3, <3>3, ZenonT(60)
  <2> QED
    BY <2>1, <2>2 DEF Injection, IsInjective
<1>5. rank \in Surjection(S, I)
  BY <1>1, <1>4, FS_Injection, Zenon
<1>6. ASSUME NEW k \in 1 .. n
      PROVE  \E x \in S : Cardinality(Below(x)) = k - 1
  <2>1. k - 1 \in I
    BY <1>1
  <2>2. PICK x \in S : rank[x] = k - 1
    BY <1>5, <2>1, Zenon DEF Surjection
  <2> QED
    BY <2>2
<1> QED
  BY <1>1, <1>2, <1>3, <1>6

(***************************************************************************)
(* The order of rows.                                                      *)
(***************************************************************************)

\* The sort keys of SQLite's order.
SortKeys == Int \X Int \X Int

\* The sort key of a value is one of them.
LEMMA SortKeyType ==
  ASSUME NEW v \in SqlValues
  PROVE  SortKey(v) \in SortKeys
<1>1. CASE v = Null
  BY <1>1 DEF SortKey, SortKeys, Null, Numeric
<1>2. CASE v \in [kind : {"integer"}, num : -Int64..(Int64 - 1), form : {0}]
  <2>1. v.kind = "integer" /\ v.num \in -Int64 .. (Int64 - 1)
    BY <1>2
  <2>2. v.num \in Int
    BY <2>1, ReaderAssumption
  <2> QED
    BY <2>1, <2>2 DEF SortKey, SortKeys, Numeric
<1>3. CASE v \in [kind : {"real"}, num : Int, form : {0, 2}]
  BY <1>3 DEF SortKey, SortKeys, Numeric
<1>4. CASE v \in [kind : {"text"}, num : Int, form : {0, 1}]
  BY <1>4 DEF SortKey, SortKeys, Numeric
<1>5. CASE v \in [kind : {"blob"}, num : Int, form : {0}]
  BY <1>5 DEF SortKey, SortKeys, Numeric
<1> QED
  BY <1>1, <1>2, <1>3, <1>4, <1>5 DEF SqlValues

\* Keys compare component by component.
LEMMA PrecedesIs ==
  ASSUME NEW k \in SortKeys, NEW l \in SortKeys
  PROVE  Precedes(k, l) <=> \/ k[1] < l[1]
                            \/ k[1] = l[1] /\ k[2] < l[2]
                            \/ k[1] = l[1] /\ k[2] = l[2] /\ k[3] < l[3]
<1>1. \A i \in 1 .. 3 : i = 1 \/ i = 2 \/ i = 3
  OBVIOUS
<1>2. 1 .. (1 - 1) = {} /\ 1 .. (2 - 1) = {1} /\ 1 .. (3 - 1) = {1, 2}
  OBVIOUS
<1>3. 1 \in 1 .. 3 /\ 2 \in 1 .. 3 /\ 3 \in 1 .. 3
  OBVIOUS
<1>4. ASSUME Precedes(k, l)
      PROVE  \/ k[1] < l[1]
             \/ k[1] = l[1] /\ k[2] < l[2]
             \/ k[1] = l[1] /\ k[2] = l[2] /\ k[3] < l[3]
  <2>1. PICK i \in 1 .. 3 : k[i] < l[i] /\ \A j \in 1 .. (i - 1) : k[j] = l[j]
    BY <1>4 DEF Precedes
  <2> QED
    BY <1>1, <1>2, <2>1
<1>5. CASE k[1] < l[1]
  BY <1>2, <1>3, <1>5 DEF Precedes
<1>6. CASE k[1] = l[1] /\ k[2] < l[2]
  <2>1. k[2] < l[2] /\ \A j \in 1 .. (2 - 1) : k[j] = l[j]
    BY <1>2, <1>6
  <2> QED
    BY <1>3, <2>1 DEF Precedes
<1>7. CASE k[1] = l[1] /\ k[2] = l[2] /\ k[3] < l[3]
  <2>1. k[3] < l[3] /\ \A j \in 1 .. (3 - 1) : k[j] = l[j]
    BY <1>2, <1>7
  <2> QED
    BY <1>3, <2>1 DEF Precedes
<1> QED
  BY <1>4, <1>5, <1>6, <1>7

\* SQLite's order of values is a strict total order of their keys.
LEMMA PrecedesOrders ==
  /\ \A k \in SortKeys : ~Precedes(k, k)
  /\ \A k, l, m \in SortKeys : Precedes(k, l) /\ Precedes(l, m) => Precedes(k, m)
  /\ \A k, l \in SortKeys : k = l \/ Precedes(k, l) \/ Precedes(l, k)
<1>1. \A k \in SortKeys : k[1] \in Int /\ k[2] \in Int /\ k[3] \in Int
  BY DEF SortKeys
<1>2. ASSUME NEW k \in SortKeys
      PROVE  ~Precedes(k, k)
  BY <1>1, PrecedesIs
<1>3. ASSUME NEW k \in SortKeys, NEW l \in SortKeys, NEW m \in SortKeys,
             Precedes(k, l), Precedes(l, m)
      PROVE  Precedes(k, m)
  <2>1. k[1] \in Int /\ k[2] \in Int /\ k[3] \in Int
    BY <1>1
  <2>2. l[1] \in Int /\ l[2] \in Int /\ l[3] \in Int
    BY <1>1
  <2>3. m[1] \in Int /\ m[2] \in Int /\ m[3] \in Int
    BY <1>1
  <2>4. \/ k[1] < l[1]
        \/ k[1] = l[1] /\ k[2] < l[2]
        \/ k[1] = l[1] /\ k[2] = l[2] /\ k[3] < l[3]
    BY <1>3, PrecedesIs
  <2>5. \/ l[1] < m[1]
        \/ l[1] = m[1] /\ l[2] < m[2]
        \/ l[1] = m[1] /\ l[2] = m[2] /\ l[3] < m[3]
    BY <1>3, PrecedesIs
  <2>6. \/ k[1] < m[1]
        \/ k[1] = m[1] /\ k[2] < m[2]
        \/ k[1] = m[1] /\ k[2] = m[2] /\ k[3] < m[3]
    BY <2>1, <2>2, <2>3, <2>4, <2>5
  <2> QED
    BY <2>6, PrecedesIs
<1>4. ASSUME NEW k \in SortKeys, NEW l \in SortKeys, k # l
      PROVE  Precedes(k, l) \/ Precedes(l, k)
  <2>1. k[1] # l[1] \/ k[2] # l[2] \/ k[3] # l[3]
    BY <1>4 DEF SortKeys
  <2>2. k[1] \in Int /\ k[2] \in Int /\ k[3] \in Int
    BY <1>1
  <2>3. l[1] \in Int /\ l[2] \in Int /\ l[3] \in Int
    BY <1>1
  <2> QED
    BY <2>1, <2>2, <2>3, PrecedesIs
<1> QED
  BY <1>2, <1>3, <1>4

\* A row has a value of every name: of a column, or its own identity.
LEMMA FieldType ==
  ASSUME NEW o, RowsTyped(o), NEW r \in o.rows, NEW name
  PROVE  Field(r, name) \in SqlValues
<1>1. CASE name \in DOMAIN r.vals
  BY <1>1 DEF Field, RowsTyped
<1>2. CASE name \notin DOMAIN r.vals
  <2>1. r.id \in -Int64 .. (Int64 - 1)
    BY DEF RowsTyped
  <2>2. [kind |-> "integer", num |-> r.id, form |-> 0] \in [kind : {"integer"}, num : -Int64..(Int64 - 1), form : {0}]
    BY <2>1
  <2>3. Field(r, name) = [kind |-> "integer", num |-> r.id, form |-> 0]
    BY <1>2 DEF Field
  <2> QED
    BY <2>2, <2>3 DEF SqlValues
<1> QED
  BY <1>1, <1>2

\* ORDER BY is a strict total order of rows that differ in a key.
LEMMA RowBeforeOrders ==
  ASSUME NEW ks, NEW n \in Nat, DOMAIN ks = 1 .. n, NEW S,
         \A r \in S : \A i \in 1 .. n : SortKey(Field(r, ks[i].column)) \in SortKeys,
         \A x, y \in S : x # y =>
           \E i \in 1 .. n : SortKey(Field(x, ks[i].column)) # SortKey(Field(y, ks[i].column))
  PROVE  /\ \A x \in S : ~RowBefore(ks, x, x)
         /\ \A x, y, z \in S : RowBefore(ks, x, y) /\ RowBefore(ks, y, z) => RowBefore(ks, x, z)
         /\ \A x, y \in S : x = y \/ RowBefore(ks, x, y) \/ RowBefore(ks, y, x)
<1> DEFINE K(x, i) == SortKey(Field(x, ks[i].column))
           Less(i, k, l) == IF ks[i].direction = "asc" THEN Precedes(k, l) ELSE Precedes(l, k)
<1>1. \A x, y \in S : RowBefore(ks, x, y) <=>
        \E i \in 1 .. n : (\A j \in 1 .. (i - 1) : K(x, j) = K(y, j)) /\ Less(i, K(x, i), K(y, i))
  BY DEF RowBefore
<1>2. \A x \in S : \A i \in 1 .. n : K(x, i) \in SortKeys
  OBVIOUS
<1>3. \A x, y \in S : x # y => \E i \in 1 .. n : K(x, i) # K(y, i)
  OBVIOUS
<1>4. /\ \A i \in 1 .. n : \A k \in SortKeys : ~Less(i, k, k)
      /\ \A i \in 1 .. n : \A k, l, m \in SortKeys : Less(i, k, l) /\ Less(i, l, m) => Less(i, k, m)
      /\ \A i \in 1 .. n : \A k, l \in SortKeys : k = l \/ Less(i, k, l) \/ Less(i, l, k)
  BY PrecedesOrders
<1> HIDE DEF K, Less
<1>5. ASSUME NEW x \in S
      PROVE  ~RowBefore(ks, x, x)
  BY <1>1, <1>2, <1>4
<1>6. ASSUME NEW x \in S, NEW y \in S, NEW z \in S, RowBefore(ks, x, y), RowBefore(ks, y, z)
      PROVE  RowBefore(ks, x, z)
  <2>1. PICK i \in 1 .. n : (\A j \in 1 .. (i - 1) : K(x, j) = K(y, j)) /\ Less(i, K(x, i), K(y, i))
    BY <1>1, <1>6
  <2>2. PICK l \in 1 .. n : (\A j \in 1 .. (l - 1) : K(y, j) = K(z, j)) /\ Less(l, K(y, l), K(z, l))
    BY <1>1, <1>6
  <2>3. CASE i < l
    <3>1. \A j \in 1 .. (i - 1) : K(x, j) = K(z, j)
      BY <2>1, <2>2, <2>3
    <3>2. K(y, i) = K(z, i)
      BY <2>2, <2>3
    <3> QED
      BY <1>1, <2>1, <3>1, <3>2
  <2>4. CASE l < i
    <3>1. \A j \in 1 .. (l - 1) : K(x, j) = K(z, j)
      BY <2>1, <2>2, <2>4
    <3>2. K(x, l) = K(y, l)
      BY <2>1, <2>4
    <3> QED
      BY <1>1, <2>2, <3>1, <3>2
  <2>5. CASE i = l
    <3>1. \A j \in 1 .. (i - 1) : K(x, j) = K(z, j)
      BY <2>1, <2>2, <2>5
    <3>2. Less(i, K(x, i), K(z, i))
      BY <1>2, <1>4, <2>1, <2>2, <2>5
    <3> QED
      BY <1>1, <3>1, <3>2
  <2> QED
    BY <2>3, <2>4, <2>5
<1>7. ASSUME NEW x \in S, NEW y \in S, x # y
      PROVE  RowBefore(ks, x, y) \/ RowBefore(ks, y, x)
  <2> DEFINE T == {i \in 1 .. n : K(x, i) # K(y, i)}
  <2>1. T \in SUBSET Nat /\ T # {}
    BY <1>3, <1>7
  <2>2. PICK i \in T : \A j \in T : i <= j
    BY <2>1, LeastOf, Zenon
  <2>3. i \in 1 .. n /\ K(x, i) # K(y, i)
    BY <2>2
  <2>4. \A j \in 1 .. (i - 1) : K(x, j) = K(y, j)
    <3>1. ASSUME NEW j \in 1 .. (i - 1), K(x, j) # K(y, j)
          PROVE  FALSE
      <4>1. j \in 1 .. n /\ j < i
        BY <2>3
      <4>2. j \in T
        BY <3>1, <4>1
      <4>3. i <= j
        BY <2>2, <4>2
      <4> QED
        BY <2>3, <4>1, <4>3
    <3> QED
      BY <3>1
  <2>5. Less(i, K(x, i), K(y, i)) \/ Less(i, K(y, i), K(x, i))
    BY <1>2, <1>4, <2>3
  <2> QED
    BY <1>1, <2>3, <2>4, <2>5
<1> QED
  BY <1>5, <1>6, <1>7

\* The rows are finitely many and ORDER BY tells them apart.
IsOrdered(rows, sel) ==
  /\ IsFiniteSet(rows)
  /\ \A x \in rows : ~RowBefore(Ordering(sel), x, x)
  /\ \A x, y, z \in rows :
       RowBefore(Ordering(sel), x, y) /\ RowBefore(Ordering(sel), y, z) => RowBefore(Ordering(sel), x, z)
  /\ \A x, y \in rows : x = y \/ RowBefore(Ordering(sel), x, y) \/ RowBefore(Ordering(sel), y, x)

\* Part of what is ordered is ordered.
LEMMA OrderedPart ==
  ASSUME NEW S, NEW sel, IsOrdered(S, sel), NEW T, T \subseteq S
  PROVE  IsOrdered(T, sel)
<1>1. IsFiniteSet(T)
  BY FS_Subset DEF IsOrdered
<1> QED
  BY <1>1, Zenon DEF IsOrdered

\* A function on an initial segment is a sequence.
LEMMA SegmentLen ==
  ASSUME NEW n \in Nat, NEW s, DOMAIN s = 1 .. n
  PROVE  Len(s) = n
OBVIOUS

\* The result has one place for each row.
LEMMA InOrderLen ==
  ASSUME NEW rows, IsFiniteSet(rows), NEW sel
  PROVE  /\ Cardinality(rows) \in Nat
         /\ DOMAIN InOrder(rows, sel) = 1 .. Cardinality(rows)
         /\ Len(InOrder(rows, sel)) = Cardinality(rows)
<1>1. Cardinality(rows) \in Nat
  BY FS_CardinalityType
<1>2. DOMAIN InOrder(rows, sel) = 1 .. Cardinality(rows)
  BY DEF InOrder
<1> QED
  BY <1>1, <1>2, SegmentLen, Zenon

\* The ordered result is a function on an initial segment.
LEMMA InOrderIs ==
  ASSUME NEW rows, NEW sel
  PROVE  InOrder(rows, sel) = [i \in 1 .. Cardinality(rows) |-> InOrder(rows, sel)[i]]
BY DEF InOrder

\* Every row has one place, and the places follow the order.
LEMMA InOrderLists ==
  ASSUME NEW rows, NEW sel, IsOrdered(rows, sel)
  PROVE  /\ InOrder(rows, sel) \in [1 .. Cardinality(rows) -> rows]
         /\ \A i, j \in 1 .. Cardinality(rows) : i < j =>
              RowBefore(Ordering(sel), InOrder(rows, sel)[i], InOrder(rows, sel)[j])
         /\ \A x \in rows : \E i \in 1 .. Cardinality(rows) : InOrder(rows, sel)[i] = x
<1> DEFINE n == Cardinality(rows)
           R == {p \in rows \X rows : RowBefore(Ordering(sel), p[1], p[2])}
           Below(x) == {y \in rows : <<y, x>> \in R}
           Rank(x) == Cardinality({y \in rows : RowBefore(Ordering(sel), y, x)})
           s == InOrder(rows, sel)
<1>1. \A x, y \in rows : <<x, y>> \in R <=> RowBefore(Ordering(sel), x, y)
  OBVIOUS
<1>2. \A x \in rows : Below(x) = {y \in rows : RowBefore(Ordering(sel), y, x)}
  BY <1>1
<1>3. /\ n \in Nat
      /\ \A x \in rows : Cardinality(Below(x)) \in 0 .. (n - 1)
      /\ \A x, y \in rows : <<x, y>> \in R => Cardinality(Below(x)) < Cardinality(Below(y))
      /\ \A i \in 1 .. n : \E x \in rows : Cardinality(Below(x)) = i - 1
  <2>1. IsFiniteSet(rows)
    BY DEF IsOrdered
  <2>2. /\ \A x \in rows : <<x, x>> \notin R
        /\ \A x, y, z \in rows : <<x, y>> \in R /\ <<y, z>> \in R => <<x, z>> \in R
        /\ \A x, y \in rows : x = y \/ <<x, y>> \in R \/ <<y, x>> \in R
    BY <1>1, Zenon DEF IsOrdered
  <2> HIDE DEF R
  <2> QED
    BY <2>1, <2>2, RankLists, ZenonT(60)
<1>4. /\ \A x \in rows : Rank(x) \in 0 .. (n - 1)
      /\ \A x, y \in rows : RowBefore(Ordering(sel), x, y) => Rank(x) < Rank(y)
      /\ \A i \in 1 .. n : \E x \in rows : Rank(x) = i - 1
  BY <1>1, <1>2, <1>3
<1>5. \A i \in 1 .. n : s[i] = CHOOSE r \in rows : Rank(r) = i - 1
  BY DEF InOrder
<1>6. DOMAIN s = 1 .. n /\ s = [i \in 1 .. n |-> s[i]]
  <2>1. s = [i \in 1 .. n |-> s[i]]
    BY InOrderIs
  <2> HIDE DEF s, n, R, Below, Rank
  <2> QED
    BY <2>1
<1> HIDE DEF R, s, Rank
<1>7. \A i \in 1 .. n : s[i] \in rows /\ Rank(s[i]) = i - 1
  BY <1>4, <1>5
<1>8. \A x, y \in rows : Rank(x) < Rank(y) => RowBefore(Ordering(sel), x, y)
  <2>1. ASSUME NEW x \in rows, NEW y \in rows, Rank(x) < Rank(y)
        PROVE  RowBefore(Ordering(sel), x, y)
    <3>1. Rank(x) \in Int /\ Rank(y) \in Int
      BY <1>3, <1>4
    <3>2. x # y
      BY <2>1, <3>1
    <3>3. ~RowBefore(Ordering(sel), y, x)
      BY <1>4, <2>1, <3>1
    <3> QED
      BY <3>2, <3>3, Zenon DEF IsOrdered
  <2> QED
    BY <2>1
<1>9. \A x, y \in rows : Rank(x) = Rank(y) => x = y
  <2>1. ASSUME NEW x \in rows, NEW y \in rows, Rank(x) = Rank(y), x # y
        PROVE  FALSE
    <3>1. Rank(x) \in Int /\ Rank(y) \in Int
      BY <1>3, <1>4
    <3>2. RowBefore(Ordering(sel), x, y) \/ RowBefore(Ordering(sel), y, x)
      BY <2>1, Zenon DEF IsOrdered
    <3>3. Rank(x) < Rank(y) \/ Rank(y) < Rank(x)
      BY <1>4, <3>2
    <3> QED
      BY <2>1, <3>1, <3>3
  <2> QED
    BY <2>1
<1>10. ASSUME NEW i \in 1 .. n, NEW j \in 1 .. n, i < j
       PROVE  RowBefore(Ordering(sel), s[i], s[j])
  <2>1. Rank(s[i]) < Rank(s[j])
    BY <1>3, <1>7, <1>10
  <2> QED
    BY <1>7, <1>8, <2>1
<1>11. ASSUME NEW x \in rows
       PROVE  \E i \in 1 .. n : s[i] = x
  <2>1. Rank(x) + 1 \in 1 .. n /\ Rank(x) \in Int
    BY <1>3, <1>4
  <2>2. Rank(s[Rank(x) + 1]) = Rank(x) /\ s[Rank(x) + 1] \in rows
    BY <1>7, <2>1
  <2> QED
    BY <1>9, <2>1, <2>2
<1> QED
  BY <1>6, <1>7, <1>10, <1>11 DEF s

\* An enumeration that follows the order is the result.
LEMMA InOrderUnique ==
  ASSUME NEW rows, NEW sel, IsOrdered(rows, sel), NEW n \in Nat, NEW f \in [1 .. n -> rows],
         \A i, j \in 1 .. n : i < j => RowBefore(Ordering(sel), f[i], f[j]),
         \A x \in rows : \E i \in 1 .. n : f[i] = x
  PROVE  f = InOrder(rows, sel)
<1> DEFINE Before(x, y) == RowBefore(Ordering(sel), x, y)
           Below(x) == {y \in rows : Before(y, x)}
<1>1. /\ IsFiniteSet(rows) /\ \A x \in rows : ~Before(x, x)
      /\ \A x, y, z \in rows : Before(x, y) /\ Before(y, z) => Before(x, z)
      /\ \A x, y \in rows : x = y \/ Before(x, y) \/ Before(y, x)
  BY Zenon DEF IsOrdered
<1>2. \A i, j \in 1 .. n : i < j => Before(f[i], f[j])
  OBVIOUS
<1>3. \A i \in 1 .. Cardinality(rows) : InOrder(rows, sel)[i] = CHOOSE r \in rows : Cardinality(Below(r)) = i - 1
  BY DEF InOrder
<1> HIDE DEF Before
<1>4. \A i, j \in 1 .. n : f[i] = f[j] => i = j
  <2>1. ASSUME NEW i \in 1 .. n, NEW j \in 1 .. n, f[i] = f[j], i # j
        PROVE  FALSE
    <3>1. i < j \/ j < i
      BY <2>1
    <3>2. Before(f[i], f[j]) \/ Before(f[j], f[i])
      BY <1>2, <3>1
    <3>3. f[i] \in rows /\ f[j] \in rows
      OBVIOUS
    <3> QED
      BY <1>1, <2>1, <3>2, <3>3
  <2> QED
    BY <2>1
<1>5. ASSUME NEW i \in 1 .. n
      PROVE  Cardinality(Below(f[i])) = i - 1
  <2> DEFINE g == [j \in 1 .. (i - 1) |-> f[j]]
  <2>1. \A j \in 1 .. (i - 1) : j \in 1 .. n /\ j < i
    OBVIOUS
  <2>2. \A j \in 1 .. (i - 1) : g[j] \in Below(f[i])
    BY <1>2, <2>1
  <2>3. ASSUME NEW y \in Below(f[i])
        PROVE  \E j \in 1 .. (i - 1) : g[j] = y
    <3>1. y \in rows /\ Before(y, f[i])
      OBVIOUS
    <3>2. PICK j \in 1 .. n : f[j] = y
      BY <3>1
    <3>3. ~(i < j) /\ i # j
      BY <1>1, <1>2, <3>1, <3>2
    <3>4. j \in 1 .. (i - 1)
      BY <3>3
    <3> QED
      BY <3>2, <3>4
  <2>4. \A j, k \in 1 .. (i - 1) : g[j] = g[k] => j = k
    BY <1>4, <2>1
  <2>5. g \in Bijection(1 .. (i - 1), Below(f[i]))
    BY <2>2, <2>3, <2>4 DEF Bijection, Injection, Surjection, IsInjective
  <2>6. i - 1 \in Nat
    OBVIOUS
  <2>7. ExistsBijection(1 .. (i - 1), Below(f[i]))
    BY <2>5, Zenon DEF ExistsBijection
  <2> QED
    BY <2>6, <2>7, FS_CountingElements
<1>6. Cardinality(rows) = n
  <2>1. f \in Bijection(1 .. n, rows)
    BY <1>4 DEF Bijection, Injection, Surjection, IsInjective
  <2>2. ExistsBijection(1 .. n, rows)
    BY <2>1, Zenon DEF ExistsBijection
  <2> QED
    BY <2>2, FS_CountingElements
<1>7. ASSUME NEW i \in 1 .. n, NEW r \in rows, Cardinality(Below(r)) = i - 1
      PROVE  r = f[i]
  <2>1. PICK j \in 1 .. n : f[j] = r
    OBVIOUS
  <2>2. j - 1 = i - 1
    BY <1>5, <1>7, <2>1
  <2> QED
    BY <2>1, <2>2
<1>8. ASSUME NEW i \in 1 .. n
      PROVE  InOrder(rows, sel)[i] = f[i]
  <2>1. f[i] \in rows /\ Cardinality(Below(f[i])) = i - 1
    BY <1>5
  <2>2. InOrder(rows, sel)[i] = CHOOSE r \in rows : Cardinality(Below(r)) = i - 1
    BY <1>3, <1>6
  <2> QED
    BY <1>7, <2>1, <2>2
<1>9. InOrder(rows, sel) = [i \in 1 .. Cardinality(rows) |-> InOrder(rows, sel)[i]]
  BY InOrderIs
<1> QED
  BY <1>6, <1>8, <1>9

\* What Picked takes: the elements at the positions, once each and in order.
LEMMA PickedIs ==
  ASSUME NEW s, NEW n \in Nat, NEW at, at \subseteq 1 .. n
  PROVE  /\ Cardinality(at) \in Nat /\ Ascending(at) \in [1 .. Cardinality(at) -> at]
         /\ DOMAIN Picked(s, at) = 1 .. Cardinality(at) /\ Len(Picked(s, at)) = Cardinality(at)
         /\ \A i \in 1 .. Cardinality(at) : Picked(s, at)[i] = s[Ascending(at)[i]]
         /\ \A i, j \in 1 .. Cardinality(at) : i < j => Ascending(at)[i] < Ascending(at)[j]
         /\ \A x \in at : \E i \in 1 .. Cardinality(at) : Ascending(at)[i] = x
<1>1. at \in SUBSET Nat
  OBVIOUS
<1>2. IsFiniteSet(at)
  <2>1. IsFiniteSet(1 .. n)
    BY FS_Interval
  <2> QED
    BY <2>1, FS_Subset
<1>3. /\ Cardinality(at) \in Nat /\ Ascending(at) \in [1 .. Cardinality(at) -> at]
      /\ \A i, j \in 1 .. Cardinality(at) : i < j => Ascending(at)[i] < Ascending(at)[j]
      /\ \A x \in at : \E i \in 1 .. Cardinality(at) : Ascending(at)[i] = x
  BY <1>1, <1>2, AscendingLists, Zenon
<1>4. DOMAIN Ascending(at) = 1 .. Cardinality(at)
  BY <1>3
<1>5. DOMAIN Picked(s, at) = 1 .. Cardinality(at)
  BY <1>4 DEF Picked
<1>6. \A i \in 1 .. Cardinality(at) : Picked(s, at)[i] = s[Ascending(at)[i]]
  BY <1>4 DEF Picked
<1>7. Len(Picked(s, at)) = Cardinality(at)
  BY <1>3, <1>5, SegmentLen, Zenon
<1> QED
  BY <1>3, <1>5, <1>6, <1>7

\* A sequence, its positions and its elements.
LEMMA SequenceIs ==
  ASSUME NEW s, IsSequence(s)
  PROVE  /\ Len(s) \in Nat /\ DOMAIN s = 1 .. Len(s) /\ s = [i \in 1 .. Len(s) |-> s[i]]
         /\ ToSet(s) = {s[i] : i \in 1 .. Len(s)} /\ IsFiniteSet(ToSet(s))
<1>1. s \in Seq(ToSet(s))
  BY DEF IsSequence
<1>2. Len(s) \in Nat /\ DOMAIN s = 1 .. Len(s) /\ s \in [1 .. Len(s) -> ToSet(s)]
  BY <1>1, LenProperties
<1>3. ToSet(s) = {s[i] : i \in 1 .. Len(s)}
  BY <1>2 DEF ToSet
<1>4. s \in Surjection(1 .. Len(s), ToSet(s))
  BY <1>2, <1>3 DEF Surjection
<1>5. IsFiniteSet(1 .. Len(s))
  BY <1>2, FS_Interval
<1>6. IsFiniteSet(ToSet(s))
  BY <1>4, <1>5, FS_Surjection
<1> QED
  BY <1>2, <1>3, <1>6

\* A function on an initial segment is a sequence of its values.
LEMMA SegmentSequence ==
  ASSUME NEW n \in Nat, NEW s, s = [i \in 1 .. n |-> s[i]]
  PROVE  IsSequence(s) /\ Len(s) = n /\ DOMAIN s = 1 .. n
<1>1. DOMAIN s = 1 .. n
  OBVIOUS
<1>2. Len(s) = n
  BY <1>1, SegmentLen
<1>3. \A i \in 1 .. n : s[i] \in ToSet(s)
  BY <1>1 DEF ToSet
<1>4. s \in [1 .. n -> ToSet(s)]
  BY <1>3
<1>5. s \in Seq(ToSet(s))
  BY <1>4, SeqDef
<1> QED
  BY <1>1, <1>2, <1>5 DEF IsSequence

(***************************************************************************)
(* Tables, as the inventory tells of them, and locators.                   *)
(***************************************************************************)

\* The object of a name.
LEMMA ObjectIs ==
  ASSUME NEW db, IsDatabase(db), NEW o \in db.objects
  PROVE  Object(db, o.name) = o
<1>1. \A p \in db.objects : p.name = o.name => p = o
  BY Zenon DEF IsDatabase
<1> QED
  BY <1>1, Zenon DEF Object

\* What the inventory says of a listed object.
LEMMA InventoryIs ==
  ASSUME NEW db, IsDatabase(db), NEW name \in DOMAIN inventory(db)
  PROVE  LET o == Object(db, name)
             t == inventory(db)[name] IN
         /\ o \in db.objects /\ o.name = name /\ o \in Listed(db)
         /\ t.kind = o.kind /\ t.row_selection_supported = (o.kind = "table")
         /\ t.without_rowid = o.without_rowid
         /\ o.kind = "table" => t.columns = o.columns /\ t.foreign_keys = foreign_keys(o)
<1> DEFINE t == inventory(db)[name]
           o == Object(db, name)
<1>1. name \in {p.name : p \in Listed(db)}
  BY DEF inventory
<1>2. PICK p \in Listed(db) : p.name = name
  BY <1>1
<1>3. p \in db.objects
  BY DEF Listed
<1>4. o = p
  BY <1>2, <1>3, ObjectIs
<1>5. /\ t.kind = o.kind /\ t.row_selection_supported = (o.kind = "table")
      /\ t.without_rowid = o.without_rowid
      /\ o.kind = "table" => t.columns = o.columns /\ t.foreign_keys = foreign_keys(o)
  BY <1>1 DEF inventory
<1> QED
  BY <1>2, <1>3, <1>4, <1>5

\* The table that an accepted selection names.
LEMMA SelectedTable ==
  ASSUME NEW db, IsDatabase(db), NEW recipe, selection_recipeAccepts(recipe, inventory(db))
  PROVE  LET o == Object(db, recipe.table)
             t == inventory(db)[recipe.table] IN
         /\ recipe.table \in DOMAIN inventory(db)
         /\ o \in db.objects /\ o.name = recipe.table /\ o.kind = "table"
         /\ t.columns = o.columns /\ t.without_rowid = o.without_rowid /\ t.foreign_keys = foreign_keys(o)
         /\ IsSequence(o.columns) /\ IsFiniteSet(o.rows) /\ RowsTyped(o) /\ KeysDiffer(o) /\ KeysPresent(o)
         /\ LocatorOf(t) # <<>>
<1>1. /\ recipe.table \in DOMAIN inventory(db)
      /\ inventory(db)[recipe.table].row_selection_supported
      /\ LocatorOf(inventory(db)[recipe.table]) # <<>>
  BY Zenon DEF selection_recipeAccepts
<1>2. /\ Object(db, recipe.table) \in db.objects /\ Object(db, recipe.table).name = recipe.table
      /\ Object(db, recipe.table).kind = "table"
      /\ inventory(db)[recipe.table].columns = Object(db, recipe.table).columns
      /\ inventory(db)[recipe.table].without_rowid = Object(db, recipe.table).without_rowid
      /\ inventory(db)[recipe.table].foreign_keys = foreign_keys(Object(db, recipe.table))
  BY <1>1, InventoryIs
<1> QED
  BY <1>1, <1>2, Zenon DEF IsDatabase

\* The rowid aliases that no column hides, in their order.
LEMMA FreeAliasesAre ==
  ASSUME NEW t, NEW at, at = {i \in 1 .. 3 : Aliases[i] \notin {folded(name) : name \in ColumnNames(t)}}
  PROVE  /\ Cardinality(at) \in Nat /\ Ascending(at) \in [1 .. Cardinality(at) -> at]
         /\ DOMAIN FreeAliases(t) = 1 .. Cardinality(at)
         /\ \A i \in 1 .. Cardinality(at) : FreeAliases(t)[i] = Aliases[Ascending(at)[i]]
<1>1. FreeAliases(t) = Picked(Aliases, at)
  BY DEF FreeAliases
<1>2. at \subseteq 1 .. 3
  OBVIOUS
<1>3. ASSUME NEW s, NEW n \in Nat, n = 3
      PROVE  /\ Cardinality(at) \in Nat /\ Ascending(at) \in [1 .. Cardinality(at) -> at]
             /\ DOMAIN Picked(s, at) = 1 .. Cardinality(at)
             /\ \A i \in 1 .. Cardinality(at) : Picked(s, at)[i] = s[Ascending(at)[i]]
  <2>1. at \subseteq 1 .. n
    BY <1>2, <1>3
  <2>2. Cardinality(at) \in Nat /\ Ascending(at) \in [1 .. Cardinality(at) -> at]
    BY <2>1, PickedIs
  <2>3. DOMAIN Picked(s, at) = 1 .. Cardinality(at)
    BY <2>1, PickedIs
  <2>4. \A i \in 1 .. Cardinality(at) : Picked(s, at)[i] = s[Ascending(at)[i]]
    BY <2>1, PickedIs
  <2> QED
    BY <2>2, <2>3, <2>4
<1>4. PICK s, n : s = Aliases /\ n = 3
  OBVIOUS
<1>5. /\ Cardinality(at) \in Nat /\ Ascending(at) \in [1 .. Cardinality(at) -> at]
      /\ DOMAIN Picked(s, at) = 1 .. Cardinality(at)
      /\ \A i \in 1 .. Cardinality(at) : Picked(s, at)[i] = s[Ascending(at)[i]]
  <2>1. n \in Nat /\ n = 3
    BY <1>4
  <2> QED
    BY <1>3, <2>1
<1> QED
  BY <1>1, <1>4, <1>5

\* The first alias that no column hides.
LEMMA FreeAliasIs ==
  ASSUME NEW t, FreeAliases(t) # <<>>
  PROVE  /\ FreeAliases(t)[1] \in ToSet(Aliases)
         /\ FreeAliases(t)[1] \notin ColumnNames(t)
<1> DEFINE at == {i \in 1 .. 3 : Aliases[i] \notin {folded(name) : name \in ColumnNames(t)}}
           k == Cardinality(at)
<1>1. /\ k \in Nat /\ Ascending(at) \in [1 .. k -> at]
      /\ DOMAIN FreeAliases(t) = 1 .. k
      /\ \A i \in 1 .. k : FreeAliases(t)[i] = Aliases[Ascending(at)[i]]
  <2> HIDE DEF at
  <2> QED
    BY FreeAliasesAre DEF at
<1>2. k # 0
  <2> SUFFICES ASSUME k = 0
               PROVE  FALSE
    OBVIOUS
  <2>1. at = {}
    <3> DEFINE three == 3
    <3>3. 1 \in Int /\ three \in Int
      OBVIOUS
    <3> HIDE DEF three
    <3>4. IsFiniteSet(1 .. three)
      BY <3>3, FS_Interval, Zenon
    <3>1. IsFiniteSet(1 .. 3)
      BY <3>4 DEF three
    <3>2. IsFiniteSet(at)
      BY <3>1, FS_Subset
    <3> QED
      BY <3>2, FS_EmptySet
  <2>2. FreeAliases(t) = [n \in DOMAIN Ascending(at) |-> Aliases[Ascending(at)[n]]]
    BY DEF FreeAliases, Picked
  <2>3. DOMAIN Ascending(at) = 1 .. 0
    BY <1>1
  <2>4. FreeAliases(t) = <<>>
    BY <2>2, <2>3
  <2> QED
    BY <2>4
<1>3. 1 \in 1 .. k
  BY <1>1, <1>2
<1>4. FreeAliases(t)[1] = Aliases[Ascending(at)[1]] /\ Ascending(at)[1] \in at
  BY <1>1, <1>3
<1> HIDE DEF k
<1>5. /\ FreeAliases(t)[1] \in ToSet(Aliases)
      /\ FreeAliases(t)[1] \notin {folded(name) : name \in ColumnNames(t)}
  BY <1>4 DEF Aliases, ToSet
<1>6. folded(FreeAliases(t)[1]) = FreeAliases(t)[1]
  BY <1>5, SessionAssumption
<1> QED
  BY <1>5, <1>6

\* The locator of a table is a sequence of names; it tells two rows of the
\* table apart and is never NULL.
LEMMA LocatorIs ==
  ASSUME NEW o, NEW t, t.columns = o.columns, t.without_rowid = o.without_rowid,
         IsSequence(o.columns), RowsTyped(o), KeysDiffer(o), KeysPresent(o), LocatorOf(t) # <<>>
  PROVE  /\ IsSequence(LocatorOf(t))
         /\ \A x, y \in o.rows : x # y =>
              \E i \in DOMAIN LocatorOf(t) : SortKey(Field(x, LocatorOf(t)[i])) # SortKey(Field(y, LocatorOf(t)[i]))
         /\ \A x \in o.rows : \A i \in DOMAIN LocatorOf(t) : Field(x, LocatorOf(t)[i]) # Null
<1>1. CASE t.without_rowid
  <2> DEFINE pk == {c \in ToSet(t.columns) : c.pk # 0}
             L == PrimaryKey(t)
  <2>1. LocatorOf(t) = L
    BY <1>1 DEF LocatorOf
  <2>2. PrimaryKey(t) = PrimaryKey(o)
    BY DEF PrimaryKey
  <2>3. IsFiniteSet(ToSet(t.columns))
    BY SequenceIs
  <2>4. IsFiniteSet(pk)
    BY <2>3, FS_Subset
  <2>5. Cardinality(pk) \in Nat
    BY <2>4, FS_CardinalityType
  <2>6. L = [i \in 1 .. Cardinality(pk) |-> L[i]]
    BY DEF PrimaryKey
  <2> HIDE DEF pk, L
  <2>7. IsSequence(L)
    BY <2>5, <2>6, SegmentSequence
  <2>8. ASSUME NEW x \in o.rows, NEW y \in o.rows, x # y
        PROVE  \E i \in DOMAIN L : SortKey(Field(x, L[i])) # SortKey(Field(y, L[i]))
    <3>1. PICK c \in ToSet(PrimaryKey(o)) : SortKey(Field(x, c)) # SortKey(Field(y, c))
      BY <1>1, <2>8 DEF KeysDiffer
    <3>2. PICK i \in DOMAIN L : c = L[i]
      BY <2>2, <3>1 DEF ToSet, L
    <3> QED
      BY <3>1, <3>2
  <2>9. ASSUME NEW x \in o.rows, NEW i \in DOMAIN L
        PROVE  Field(x, L[i]) # Null
    <3>1. L[i] \in ToSet(PrimaryKey(o))
      BY <2>2 DEF ToSet, L
    <3> QED
      BY <1>1, <3>1 DEF KeysPresent
  <2> QED
    BY <2>1, <2>7, <2>8, <2>9
<1>2. CASE ~t.without_rowid
  <2> DEFINE a == FreeAliases(t)[1]
  <2>1. LocatorOf(t) = <<a>> /\ FreeAliases(t) # <<>>
    BY <1>2 DEF LocatorOf
  <2>2. a \notin ColumnNames(t)
    BY <2>1, FreeAliasIs
  <2>3. ColumnNames(t) = ColumnNames(o)
    BY DEF ColumnNames
  <2>4. \A x \in o.rows : Field(x, a) = [kind |-> "integer", num |-> x.id, form |-> 0]
    BY <2>2, <2>3 DEF Field, RowsTyped
  <2> HIDE DEF a
  <2>5. IsSequence(<<a>>)
    <3>1. <<a>> = [i \in 1 .. 1 |-> <<a>>[i]]
      OBVIOUS
    <3> QED
      BY <3>1, SegmentSequence
  <2>6. DOMAIN <<a>> = {1} /\ <<a>>[1] = a
    OBVIOUS
  <2>7. ASSUME NEW x \in o.rows, NEW y \in o.rows, x # y
        PROVE  SortKey(Field(x, a)) # SortKey(Field(y, a))
    <3>1. x.id # y.id
      BY <1>2, <2>7 DEF KeysDiffer
    <3>2. SortKey(Field(x, a)) = <<1, x.id, 0>> /\ SortKey(Field(y, a)) = <<1, y.id, 0>>
      BY <2>4 DEF SortKey, Numeric
    <3> QED
      BY <3>1, <3>2
  <2>8. \A x \in o.rows : Field(x, a) # Null
    BY <2>4 DEF Null
  <2> QED
    BY <2>1, <2>5, <2>6, <2>7, <2>8
<1> QED
  BY <1>1, <1>2

\* The order of an accepted selection tells the rows of its table apart.
LEMMA SelectionOrders ==
  ASSUME NEW db, IsDatabase(db), NEW recipe, selection_recipeAccepts(recipe, inventory(db)),
         IsSequence(recipe.order_by), NEW sel, sel.order_by = recipe.order_by,
         sel.locator = LocatorOf(inventory(db)[recipe.table])
  PROVE  IsOrdered(Object(db, recipe.table).rows, sel)
<1> DEFINE o == Object(db, recipe.table)
           t == inventory(db)[recipe.table]
           L == LocatorOf(t)
           lead == recipe.order_by
           tail == [i \in DOMAIN L |-> [column |-> L[i], direction |-> "asc"]]
           ks == Ordering(sel)
           n == Len(lead) + Len(L)
<1>1. /\ t.columns = o.columns /\ t.without_rowid = o.without_rowid /\ IsFiniteSet(o.rows)
      /\ IsSequence(o.columns) /\ RowsTyped(o) /\ KeysDiffer(o) /\ KeysPresent(o) /\ L # <<>>
  BY SelectedTable
<1> HIDE DEF o, t
<1>2. /\ IsSequence(L)
      /\ \A x, y \in o.rows : x # y =>
           \E i \in DOMAIN L : SortKey(Field(x, L[i])) # SortKey(Field(y, L[i]))
  BY <1>1, LocatorIs
<1>3. ks = lead \o tail
  BY DEF Ordering, t
<1> HIDE DEF L, ks
<1>4. Len(lead) \in Nat /\ lead \in Seq(ToSet(lead))
  BY SequenceIs DEF IsSequence
<1>5. Len(L) \in Nat /\ DOMAIN L = 1 .. Len(L)
  BY <1>2, SequenceIs
<1>6. tail = [i \in 1 .. Len(L) |-> tail[i]]
  BY <1>5
<1>7. IsSequence(tail) /\ Len(tail) = Len(L)
  <2> HIDE DEF tail
  <2> QED
    BY <1>5, <1>6, SegmentSequence
<1> DEFINE All == ToSet(lead) \cup ToSet(tail)
<1>8. lead \in Seq(All) /\ tail \in Seq(All)
  BY <1>4, <1>7, SeqMonotonic DEF IsSequence
<1>9. /\ ks \in Seq(All) /\ Len(ks) = n
      /\ \A i \in 1 .. n : ks[i] = IF i <= Len(lead) THEN lead[i] ELSE tail[i - Len(lead)]
  <2> HIDE DEF All, tail, lead
  <2>1. /\ lead \o tail \in Seq(All) /\ Len(lead \o tail) = Len(lead) + Len(tail)
        /\ \A i \in 1 .. Len(lead) + Len(tail) :
             (lead \o tail)[i] = IF i <= Len(lead) THEN lead[i] ELSE tail[i - Len(lead)]
    BY <1>8, ConcatProperties, Zenon
  <2>2. n = Len(lead) + Len(tail)
    BY <1>7
  <2> HIDE DEF n
  <2> QED
    BY <1>3, <2>1, <2>2, Zenon
<1>10. n \in Nat /\ DOMAIN ks = 1 .. n
  <2>1. n \in Nat
    BY <1>4, <1>5
  <2> QED
    BY <1>9, <2>1, LenProperties
<1>11. \A i \in 1 .. Len(L) : Len(lead) + i \in 1 .. n /\ ks[Len(lead) + i].column = L[i]
  <2>1. ASSUME NEW i \in 1 .. Len(L)
        PROVE  Len(lead) + i \in 1 .. n /\ ks[Len(lead) + i].column = L[i]
    <3>1. Len(lead) + i \in 1 .. n /\ ~(Len(lead) + i <= Len(lead)) /\ Len(lead) + i - Len(lead) = i
      BY <1>4, <1>5
    <3>2. ks[Len(lead) + i] = tail[i]
      <4> HIDE DEF tail, n, lead
      <4> QED
        BY <1>9, <3>1
    <3>3. tail[i] = [column |-> L[i], direction |-> "asc"]
      BY <1>5
    <3> QED
      BY <3>1, <3>2, <3>3
  <2> QED
    BY <2>1
<1>12. \A r \in o.rows : \A i \in 1 .. n : SortKey(Field(r, ks[i].column)) \in SortKeys
  BY <1>1, FieldType, SortKeyType
<1>13. ASSUME NEW x \in o.rows, NEW y \in o.rows, x # y
       PROVE  \E i \in 1 .. n : SortKey(Field(x, ks[i].column)) # SortKey(Field(y, ks[i].column))
  <2>1. PICK i \in 1 .. Len(L) : SortKey(Field(x, L[i])) # SortKey(Field(y, L[i]))
    BY <1>2, <1>5, <1>13
  <2> QED
    BY <1>11, <2>1
<1> HIDE DEF n, lead
<1>14. /\ \A x \in o.rows : ~RowBefore(ks, x, x)
       /\ \A x, y, z \in o.rows : RowBefore(ks, x, y) /\ RowBefore(ks, y, z) => RowBefore(ks, x, z)
       /\ \A x, y \in o.rows : x = y \/ RowBefore(ks, x, y) \/ RowBefore(ks, y, x)
  BY <1>10, <1>12, <1>13, RowBeforeOrders
<1> QED
  BY <1>1, <1>14 DEF IsOrdered, ks, o

(***************************************************************************)
(* Cells, pages and parts of a result.                                     *)
(***************************************************************************)

\* A stored value is a record of its three parts.
LEMMA ValueIs ==
  ASSUME NEW v \in SqlValues
  PROVE  /\ v = [kind |-> v.kind, num |-> v.num, form |-> v.form]
         /\ v.kind \in {"null", "integer", "real", "text", "blob"}
         /\ v.kind = "null" <=> v = Null
         /\ v.num \in Int
         /\ v.kind = "null" => v.num = 0 /\ v.form = 0
         /\ v.kind = "integer" => v.form = 0 /\ -Int64 <= v.num /\ v.num < Int64
         /\ v.kind = "real" => v.form \in {0, 2}
         /\ v.kind = "blob" => v.form = 0
         /\ v.kind = "text" => v.form \in {0, 1}
<1>1. CASE v = Null
  BY <1>1 DEF Null
<1>2. CASE v \in [kind : {"integer"}, num : -Int64..(Int64 - 1), form : {0}]
  <2>1. Int64 \in Nat
    BY ReaderAssumption
  <2> QED
    BY <1>2, <2>1 DEF Null
<1>3. CASE v \in [kind : {"real"}, num : Int, form : {0, 2}]
  BY <1>3 DEF Null
<1>4. CASE v \in [kind : {"text"}, num : Int, form : {0, 1}]
  BY <1>4 DEF Null
<1>5. CASE v \in [kind : {"blob"}, num : Int, form : {0}]
  BY <1>5 DEF Null
<1> QED
  BY <1>1, <1>2, <1>3, <1>4, <1>5 DEF SqlValues

\* What a cell shows of a finite value is accepted as a parameter and means
\* the value; of an infinity there is no cell a request may use.
LEMMA CellIs ==
  ASSUME NEW v \in SqlValues
  PROVE  /\ cell(v).type = v.kind
         /\ cellAccepts(v) => parameterAccepts(cell(v)) /\ parameter(cell(v)) = v
         /\ parameterAccepts(cell(v)) => cellAccepts(v)
<1> USE ValueIs
<1>1. cell(v) = [type |-> v.kind, num |-> v.num, form |-> v.form]
  BY DEF cell
<1>2. ASSUME cellAccepts(v)
      PROVE  parameterAccepts(cell(v))
  <2>1. CASE v.kind = "null"
    BY <1>1, <2>1 DEF parameterAccepts
  <2>2. CASE v.kind = "integer"
    BY <1>1, <2>2 DEF parameterAccepts
  <2>3. CASE v.kind = "real"
    BY <1>1, <1>2, <2>3 DEF parameterAccepts, cellAccepts, Finite
  <2>4. CASE v.kind = "text"
    BY <1>1, <2>4 DEF parameterAccepts
  <2>5. CASE v.kind = "blob"
    BY <1>1, <2>5 DEF parameterAccepts
  <2> QED
    BY <2>1, <2>2, <2>3, <2>4, <2>5
<1>3. ASSUME cellAccepts(v)
      PROVE  parameter(cell(v)) = v
  <2>1. v.kind = "real" => v.form = 0
    BY <1>3 DEF cellAccepts, Finite
  <2> QED
    BY <1>1, <2>1 DEF parameter
<1>4. ASSUME parameterAccepts(cell(v))
      PROVE  cellAccepts(v)
  BY <1>1, <1>4 DEF parameterAccepts, cellAccepts, Finite
<1> QED
  BY <1>1, <1>2, <1>3, <1>4

\* The cells of a row, one for each name.
LEMMA CellsAre ==
  ASSUME NEW r, NEW names
  PROVE  /\ DOMAIN Cells(r, names) = DOMAIN names
         /\ \A i \in DOMAIN names : Cells(r, names)[i] = cell(Field(r, names[i]))
BY DEF Cells

\* The cells of a row are a sequence as long as that of the names.
LEMMA CellsSequence ==
  ASSUME NEW r, NEW names, IsSequence(names)
  PROVE  /\ IsSequence(Cells(r, names)) /\ Len(Cells(r, names)) = Len(names)
         /\ Cells(r, names) = [i \in 1 .. Len(names) |-> Cells(r, names)[i]]
<1>1. Len(names) \in Nat /\ DOMAIN names = 1 .. Len(names)
  BY SequenceIs
<1>2. Cells(r, names) = [i \in 1 .. Len(names) |-> Cells(r, names)[i]]
  BY <1>1 DEF Cells
<1> QED
  BY <1>1, <1>2, SegmentSequence

\* A row that is shown answers to the locator it is shown with, and no other
\* row of the table does.
LEMMA AnchorIs ==
  ASSUME NEW db, NEW table, NEW o, o = Object(db, table), RowsTyped(o), NEW L, IsSequence(L),
         \A x, y \in o.rows : x # y => \E i \in DOMAIN L : SortKey(Field(x, L[i])) # SortKey(Field(y, L[i])),
         \A x \in o.rows : \A i \in DOMAIN L : Field(x, L[i]) # Null,
         NEW r \in o.rows, \A i \in DOMAIN L : cellAccepts(Field(r, L[i]))
  PROVE  /\ anchor_rowAccepts(db, table, L, Cells(r, L))
         /\ anchor_row(db, table, L, Cells(r, L)) = r
<1> DEFINE cs == Cells(r, L)
           A == Anchored(db, table, L, cs)
<1>1. DOMAIN cs = DOMAIN L /\ Len(cs) = Len(L) /\ \A i \in DOMAIN L : cs[i] = cell(Field(r, L[i]))
  BY CellsAre, CellsSequence
<1> HIDE DEF cs
<1>2. \A i \in DOMAIN L : Field(r, L[i]) \in SqlValues
  BY FieldType
<1>3. \A i \in DOMAIN L : parameterAccepts(cs[i]) /\ parameter(cs[i]) = Field(r, L[i]) /\ cs[i].type # "null"
  <2>1. ASSUME NEW i \in DOMAIN L
        PROVE  parameterAccepts(cs[i]) /\ parameter(cs[i]) = Field(r, L[i]) /\ cs[i].type # "null"
    <3>1. cs[i] = cell(Field(r, L[i])) /\ Field(r, L[i]) \in SqlValues /\ cellAccepts(Field(r, L[i]))
          /\ Field(r, L[i]) # Null
      BY <1>1, <1>2
    <3>2. Field(r, L[i]).kind # "null"
      BY <3>1, ValueIs
    <3> QED
      BY <3>1, <3>2, CellIs
  <2> QED
    BY <2>1
<1>4. anchor_filterAccepts(L, cs)
  BY <1>1, <1>3 DEF anchor_filterAccepts, ToSet
<1>5. A = {r}
  <2>1. A = {x \in o.rows : \A i \in DOMAIN L : Field(x, L[i]) = Field(r, L[i])}
    BY <1>3 DEF Anchored
  <2>2. r \in A
    BY <2>1
  <2>3. ASSUME NEW x \in A, x # r
        PROVE  FALSE
    <3>1. x \in o.rows /\ \A i \in DOMAIN L : Field(x, L[i]) = Field(r, L[i])
      BY <2>1, <2>3
    <3>2. PICK i \in DOMAIN L : SortKey(Field(x, L[i])) # SortKey(Field(r, L[i]))
      BY <2>3, <3>1
    <3> QED
      BY <3>1, <3>2
  <2> QED
    BY <2>2, <2>3
<1> HIDE DEF A
<1>6. Cardinality(A) = 1
  BY <1>5, FS_Singleton
<1>7. anchor_rowAccepts(db, table, L, cs)
  BY <1>4, <1>6 DEF anchor_rowAccepts, A
<1>8. anchor_row(db, table, L, cs) = r
  BY <1>5 DEF anchor_row, A
<1> QED
  BY <1>7, <1>8 DEF cs

\* One page of a result w of n rows: the rows from the offset on, as many as
\* the limit allows; it says that there are more exactly when there are, and
\* where they begin.
PageShows(page, w, n, sel, offset, limit) ==
  /\ page.selection = sel /\ page.offset = offset /\ page.limit = limit
  /\ Len(page.rows) \in Nat /\ DOMAIN page.rows = 1 .. Len(page.rows) /\ IsSequence(page.rows)
  /\ Len(page.rows) <= limit
  /\ \A i \in 1 .. Len(page.rows) :
       offset + i \in 1 .. n /\ page.rows[i] = RowCells(w[offset + i], sel)
  /\ page.has_more <=> offset + limit < n
  /\ page.has_more => Len(page.rows) = limit /\ page.next_offset = offset + limit
  /\ ~page.has_more /\ offset <= n => offset + Len(page.rows) = n
  /\ offset >= n => Len(page.rows) = 0

\* The part of a result that is read, and how many rows it has.
PartLen(n, from, to) == IF to < n THEN to - from + 1 ELSE IF from <= n + 1 THEN n - from + 1 ELSE 0

\* What is read between two positions of a result.
LEMMA UpToIs ==
  ASSUME NEW w, IsSequence(w), NEW from \in Nat, NEW to \in Nat, from >= 1, from <= to + 1
  PROVE  /\ IsSequence(UpTo(w, from, to)) /\ Len(UpTo(w, from, to)) = PartLen(Len(w), from, to)
         /\ \A i \in 1 .. PartLen(Len(w), from, to) :
              from + i - 1 \in 1 .. Len(w) /\ UpTo(w, from, to)[i] = w[from + i - 1]
<1> DEFINE n == Len(w)
           last == IF to < n THEN to ELSE n
           m == PartLen(n, from, to)
           u == UpTo(w, from, to)
<1> SUFFICES /\ IsSequence(u) /\ Len(u) = m
             /\ \A i \in 1 .. m : from + i - 1 \in 1 .. n /\ u[i] = w[from + i - 1]
  OBVIOUS
<1>1. n \in Nat /\ DOMAIN w = 1 .. n
  BY SequenceIs
<1> HIDE DEF n
<1>2. u = SubSeq(w, from, last)
  BY DEF UpTo, n
<1>3. last \in Nat /\ from \in Int /\ last \in Int
  BY <1>1
<1>4. \A i \in from .. last : w[i] \in ToSet(w)
  BY <1>1 DEF ToSet
<1>5. CASE from <= last + 1
  <2> HIDE DEF last, u
  <2>1. /\ SubSeq(w, from, last) \in Seq(ToSet(w))
        /\ Len(SubSeq(w, from, last)) = last - from + 1
        /\ \A i \in 1 .. (last - from + 1) : SubSeq(w, from, last)[i] = w[from + i - 1]
    BY <1>3, <1>4, <1>5, SubSeqProperties
  <2>2. m = last - from + 1 /\ m \in Nat
    BY <1>1, <1>3, <1>5 DEF last, PartLen
  <2> HIDE DEF m
  <2>3. DOMAIN u = 1 .. m /\ Len(u) = m /\ u \in [1 .. m -> ToSet(w)]
    BY <1>2, <2>1, <2>2, LenProperties
  <2>4. IsSequence(u)
    <3>1. u = [i \in 1 .. m |-> u[i]]
      BY <2>3
    <3> QED
      BY <2>2, <3>1, SegmentSequence
  <2>5. \A i \in 1 .. m : from + i - 1 \in 1 .. n
    BY <1>1, <2>2 DEF last, PartLen
  <2>6. \A i \in 1 .. m : u[i] = w[from + i - 1]
    BY <1>2, <2>1, <2>2
  <2> QED
    BY <2>3, <2>4, <2>5, <2>6
<1>6. CASE ~(from <= last + 1)
  <2> HIDE DEF last, u
  <2>1. SubSeq(w, from, last) = <<>>
    BY <1>3, <1>6, SubSeqProperties
  <2>2. m = 0
    BY <1>1, <1>6 DEF last, PartLen
  <2>3. 1 .. 0 = {} /\ Len(<<>>) = 0 /\ IsSequence(<<>>)
    BY DEF IsSequence
  <2> HIDE DEF m
  <2> QED
    BY <1>2, <2>1, <2>2, <2>3
<1> QED
  BY <1>5, <1>6

\* The rows of a page, one for each row of a sequence.
ShownRows(u, sel) == [i \in DOMAIN u |-> RowCells(u[i], sel)]

\* A page has a row for each row of the part.
LEMMA ShownRowsAre ==
  ASSUME NEW u, IsSequence(u), NEW sel
  PROVE  /\ Len(ShownRows(u, sel)) = Len(u) /\ DOMAIN ShownRows(u, sel) = 1 .. Len(u)
         /\ IsSequence(ShownRows(u, sel))
         /\ \A i \in 1 .. Len(u) : ShownRows(u, sel)[i] = RowCells(u[i], sel)
<1>1. Len(u) \in Nat /\ DOMAIN u = 1 .. Len(u)
  BY SequenceIs
<1>2. ShownRows(u, sel) = [i \in 1 .. Len(u) |-> ShownRows(u, sel)[i]]
  BY <1>1 DEF ShownRows
<1>3. \A i \in 1 .. Len(u) : ShownRows(u, sel)[i] = RowCells(u[i], sel)
  BY <1>1 DEF ShownRows
<1>4. IsSequence(ShownRows(u, sel)) /\ Len(ShownRows(u, sel)) = Len(u) /\ DOMAIN ShownRows(u, sel) = 1 .. Len(u)
  BY <1>1, <1>2, SegmentSequence
<1> QED
  BY <1>3, <1>4

\* A part, by the positions it is given for.
Fits(n, base, count) == IF base + count < n THEN count ELSE IF base <= n THEN n - base ELSE 0

\* What is read from a base, as many rows as asked for.
LEMMA PartIs ==
  ASSUME NEW w, IsSequence(w), NEW base \in Nat, NEW count \in Nat
  PROVE  /\ Fits(Len(w), base, count) \in Nat /\ IsSequence(UpTo(w, base + 1, base + count))
         /\ Len(UpTo(w, base + 1, base + count)) = Fits(Len(w), base, count)
         /\ \A i \in 1 .. Fits(Len(w), base, count) :
              base + i \in 1 .. Len(w) /\ UpTo(w, base + 1, base + count)[i] = w[base + i]
<1>0. PICK m : m = Fits(Len(w), base, count)
  OBVIOUS
<1>1. PICK from \in Nat : from = base + 1
  OBVIOUS
<1>2. PICK to \in Nat : to = base + count
  OBVIOUS
<1>3. from >= 1 /\ from <= to + 1
  BY <1>1, <1>2
<1>4. Len(w) \in Nat
  BY SequenceIs
<1>5. PartLen(Len(w), from, to) = m /\ m \in Nat
  BY <1>0, <1>1, <1>2, <1>4 DEF PartLen, Fits
<1>6. /\ IsSequence(UpTo(w, from, to)) /\ Len(UpTo(w, from, to)) = PartLen(Len(w), from, to)
      /\ \A i \in 1 .. PartLen(Len(w), from, to) :
           from + i - 1 \in 1 .. Len(w) /\ UpTo(w, from, to)[i] = w[from + i - 1]
  BY <1>3, UpToIs, Zenon
<1>7. \A i \in 1 .. m : from + i - 1 = base + i
  BY <1>1, <1>5
<1>8. \A i \in 1 .. m : base + i \in 1 .. Len(w) /\ UpTo(w, from, to)[i] = w[base + i]
  BY <1>5, <1>6, <1>7
<1> QED
  BY <1>0, <1>1, <1>2, <1>5, <1>6, <1>8

\* selected_rows gives a page of the ordered rows.
LEMMA SelectedPage ==
  ASSUME NEW rows, IsFiniteSet(rows), NEW sel, NEW offset \in Nat, NEW limit \in Nat \ {0}
  PROVE  PageShows(selected_rows(rows, sel, offset, limit), InOrder(rows, sel), Cardinality(rows),
                   sel, offset, limit)
<1>1. PICK n \in Nat : n = Cardinality(rows)
  BY InOrderLen
<1>2. PICK w : w = InOrder(rows, sel)
  OBVIOUS
<1>3. IsSequence(w) /\ Len(w) = n
  <2>1. w = [i \in 1 .. n |-> w[i]]
    BY <1>1, <1>2, InOrderIs
  <2> QED
    BY <2>1, SegmentSequence
<1>4. PICK read : read = ReadAhead(rows, sel, offset, limit)
  OBVIOUS
<1>5. PICK ahead : ahead = Fits(n, offset, limit + 1)
  OBVIOUS
<1>6. /\ ahead \in Nat /\ IsSequence(read) /\ Len(read) = ahead
      /\ \A i \in 1 .. ahead : offset + i \in 1 .. n /\ read[i] = w[offset + i]
  <2>1. PICK count \in Nat : count = limit + 1
    OBVIOUS
  <2>2. offset + count = offset + limit + 1
    BY <2>1
  <2>3. ahead = Fits(Len(w), offset, count)
    BY <1>3, <1>5, <2>1
  <2>4. /\ Fits(Len(w), offset, count) \in Nat /\ IsSequence(UpTo(w, offset + 1, offset + count))
        /\ Len(UpTo(w, offset + 1, offset + count)) = Fits(Len(w), offset, count)
        /\ \A i \in 1 .. Fits(Len(w), offset, count) : offset + i \in 1 .. Len(w) /\ UpTo(w, offset + 1, offset + count)[i] = w[offset + i]
    BY <1>3, PartIs, ZenonT(60)
  <2>5. read = UpTo(w, offset + 1, offset + count)
    BY <1>2, <1>4, <2>2 DEF ReadAhead
  <2> QED
    BY <1>3, <2>3, <2>4, <2>5
<1>7. PICK m : m = IF limit < ahead THEN limit ELSE ahead
  OBVIOUS
<1>8. PICK u : u = UpTo(read, 1, limit)
  OBVIOUS
<1>9. m \in Nat /\ IsSequence(u) /\ Len(u) = m /\ \A i \in 1 .. m : i \in 1 .. ahead /\ u[i] = read[i]
  <2>1. PICK base \in Nat : base = 0
    OBVIOUS
  <2>2. m = Fits(Len(read), base, limit)
    BY <1>6, <1>7, <2>1 DEF Fits
  <2>3. limit \in Nat /\ IsSequence(read)
    BY <1>6
  <2>4. /\ Fits(Len(read), base, limit) \in Nat /\ IsSequence(UpTo(read, base + 1, base + limit))
        /\ Len(UpTo(read, base + 1, base + limit)) = Fits(Len(read), base, limit)
        /\ \A i \in 1 .. Fits(Len(read), base, limit) : base + i \in 1 .. Len(read) /\ UpTo(read, base + 1, base + limit)[i] = read[base + i]
    BY <2>3, PartIs, ZenonT(60)
  <2>5. base + 1 = 1 /\ base + limit = limit /\ \A i \in 1 .. m : base + i = i
    BY <2>1, <2>2, <2>4
  <2> QED
    BY <1>6, <1>8, <2>2, <2>4, <2>5
<1>10. PICK page : page = Page(u, sel, offset, limit, limit < ahead)
  OBVIOUS
<1>11. selected_rows(rows, sel, offset, limit) = page
  <2>1. (Len(read) > limit) = (limit < ahead)
    BY <1>6
  <2>2. selected_rows(rows, sel, offset, limit) = Page(u, sel, offset, limit, Len(read) > limit)
    BY <1>4, <1>8 DEF selected_rows, PageOf
  <2> QED
    BY <1>10, <2>1, <2>2
<1>12. /\ page.selection = sel /\ page.offset = offset /\ page.limit = limit
       /\ page.rows = ShownRows(u, sel)
       /\ limit < ahead => page.next_offset = offset + Len(u)
  BY <1>10 DEF Page, ShownRows
<1>13. page.has_more <=> limit < ahead
  <2>1. page.has_more = (limit < ahead)
    BY <1>10 DEF Page
  <2> QED
    BY <2>1, Zenon
<1>14. /\ limit < ahead <=> offset + limit < n
       /\ limit < ahead => m = limit
       /\ ~(limit < ahead) /\ offset <= n => offset + m = n
       /\ offset >= n => m = 0
       /\ m <= limit
  BY <1>5, <1>6, <1>7 DEF Fits
<1>15. \A i \in 1 .. m : offset + i \in 1 .. n /\ u[i] = w[offset + i]
  BY <1>6, <1>9
<1>16. /\ Len(page.rows) = m /\ DOMAIN page.rows = 1 .. m /\ IsSequence(page.rows)
       /\ \A i \in 1 .. m : page.rows[i] = RowCells(u[i], sel)
  BY <1>9, <1>12, ShownRowsAre
<1>17. PageShows(page, w, n, sel, offset, limit)
  BY <1>9, <1>12, <1>13, <1>14, <1>15, <1>16 DEF PageShows
<1> QED
  BY <1>1, <1>2, <1>11, <1>17

\* A page of a group is a page of its members.
LEMMA GroupPageIs ==
  ASSUME NEW of, IsSequence(of), NEW sel, NEW offset \in Nat, NEW limit \in Nat \ {0}
  PROVE  PageShows(GroupPage(of, sel, offset, limit), of, Len(of), sel, offset, limit)
<1>1. PICK n \in Nat : n = Len(of)
  BY SequenceIs
<1>2. PICK u : u = UpTo(of, offset + 1, offset + limit)
  OBVIOUS
<1>3. PICK m : m = Fits(Len(of), offset, limit)
  OBVIOUS
<1>4. m \in Nat /\ IsSequence(u) /\ Len(u) = m /\ \A i \in 1 .. m : offset + i \in 1 .. n /\ u[i] = of[offset + i]
  <2>1. limit \in Nat
    OBVIOUS
  <2>2. /\ Fits(Len(of), offset, limit) \in Nat /\ IsSequence(UpTo(of, offset + 1, offset + limit))
        /\ Len(UpTo(of, offset + 1, offset + limit)) = Fits(Len(of), offset, limit)
        /\ \A i \in 1 .. Fits(Len(of), offset, limit) :
             offset + i \in 1 .. Len(of) /\ UpTo(of, offset + 1, offset + limit)[i] = of[offset + i]
    BY <2>1, PartIs, ZenonT(60)
  <2> QED
    BY <1>1, <1>2, <1>3, <2>2
<1>5. PICK page : page = GroupPage(of, sel, offset, limit)
  OBVIOUS
<1>6. /\ page.selection = sel /\ page.offset = offset /\ page.limit = limit
      /\ page.rows = ShownRows(u, sel)
      /\ offset + limit < n => page.next_offset = offset + Len(u)
  BY <1>1, <1>2, <1>5 DEF GroupPage, Page, ShownRows
<1>7. page.has_more <=> offset + limit < n
  <2>1. page.has_more = (offset + limit < n)
    BY <1>1, <1>5 DEF GroupPage, Page
  <2> QED
    BY <2>1, Zenon
<1>8. /\ offset + limit < n => m = limit
      /\ ~(offset + limit < n) /\ offset <= n => offset + m = n
      /\ offset >= n => m = 0
      /\ m <= limit
  BY <1>1, <1>3 DEF Fits
<1>9. /\ Len(page.rows) = m /\ DOMAIN page.rows = 1 .. m /\ IsSequence(page.rows)
      /\ \A i \in 1 .. m : page.rows[i] = RowCells(u[i], sel)
  <2>1. IsSequence(u)
    BY <1>4
  <2>2. /\ Len(ShownRows(u, sel)) = Len(u) /\ DOMAIN ShownRows(u, sel) = 1 .. Len(u)
        /\ IsSequence(ShownRows(u, sel))
        /\ \A i \in 1 .. Len(u) : ShownRows(u, sel)[i] = RowCells(u[i], sel)
    BY <2>1, ShownRowsAre, Zenon
  <2> QED
    BY <1>4, <1>6, <2>2
<1>10. PageShows(page, of, n, sel, offset, limit)
  BY <1>4, <1>6, <1>7, <1>8, <1>9 DEF PageShows
<1> QED
  BY <1>1, <1>5, <1>10

(***************************************************************************)
(* Selections, and references followed either way.                         *)
(***************************************************************************)

\* The rows that a page reads can all be shown.
LEMMA SelectedRowsAccepted ==
  ASSUME NEW rows, IsFiniteSet(rows), NEW sel, NEW offset \in Nat, NEW limit \in Nat \ {0},
         selected_rowsAccepts(rows, sel, offset, limit)
  PROVE  \A i \in 1 .. limit : offset + i \in 1 .. Cardinality(rows) =>
           RowAccepts(InOrder(rows, sel)[offset + i], sel)
<1>1. PICK n \in Nat : n = Cardinality(rows)
  BY InOrderLen
<1>2. PICK w : w = InOrder(rows, sel)
  OBVIOUS
<1>3. IsSequence(w) /\ Len(w) = n
  <2>1. w = [i \in 1 .. n |-> w[i]]
    BY <1>1, <1>2, InOrderIs
  <2> QED
    BY <2>1, SegmentSequence
<1>4. PICK count \in Nat : count = limit + 1
  OBVIOUS
<1>5. /\ Fits(Len(w), offset, count) \in Nat /\ IsSequence(UpTo(w, offset + 1, offset + count))
      /\ Len(UpTo(w, offset + 1, offset + count)) = Fits(Len(w), offset, count)
      /\ \A i \in 1 .. Fits(Len(w), offset, count) :
           offset + i \in 1 .. Len(w) /\ UpTo(w, offset + 1, offset + count)[i] = w[offset + i]
  <2>1. IsSequence(w)
    BY <1>3
  <2> QED
    BY <2>1, PartIs, ZenonT(60)
<1>6. ReadAhead(rows, sel, offset, limit) = UpTo(w, offset + 1, offset + count)
  <2>1. offset + count = offset + limit + 1
    BY <1>4
  <2> QED
    BY <1>2, <2>1 DEF ReadAhead
<1>7. PICK read : read = UpTo(w, offset + 1, offset + count)
  OBVIOUS
<1>8. \A i \in DOMAIN read : RowAccepts(read[i], sel)
  BY <1>6, <1>7 DEF selected_rowsAccepts, ToSet
<1>9. DOMAIN read = 1 .. Fits(n, offset, count)
  BY <1>3, <1>5, <1>7, SequenceIs
<1>10. ASSUME NEW i \in 1 .. limit, offset + i \in 1 .. n
       PROVE  RowAccepts(w[offset + i], sel)
  <2>1. i \in 1 .. Fits(n, offset, count)
    BY <1>4, <1>10 DEF Fits
  <2> QED
    BY <1>3, <1>5, <1>7, <1>8, <1>9, <2>1
<1> QED
  BY <1>1, <1>2, <1>10

\* What is asked of a selection, in parts.
LEMMA AcceptedSelection ==
  ASSUME NEW recipe, NEW tables, selection_recipeAccepts(recipe, tables)
  PROVE  LET t == tables[recipe.table]
             available == ToSet(StoredNames(t)) IN
         /\ recipe.table \in DOMAIN tables /\ t.row_selection_supported /\ LocatorOf(t) # <<>>
         /\ t.without_rowid => ToSet(LocatorOf(t)) \subseteq available
         /\ ToSet(recipe.columns) \subseteq available /\ Len(recipe.columns) <= MaxColumns
         /\ recipe.columns = <<>> => available # {}
         /\ \A f \in ToSet(recipe.where) : f.column \in available /\ filterAccepts(f)
BY Zenon DEF selection_recipeAccepts

\* selection_recipe: what the selection takes from its recipe.
LEMMA SelectionIs ==
  ASSUME NEW recipe, NEW tables
  PROVE  LET sel == selection_recipe(recipe, tables)
             t == tables[recipe.table] IN
         /\ sel.table = recipe.table /\ sel.where = recipe.where /\ sel.order_by = recipe.order_by
         /\ sel.locator = LocatorOf(t)
         /\ recipe.columns = <<>> => sel.columns = StoredNames(t)
         /\ recipe.columns # <<>> => sel.columns = recipe.columns
BY DEF selection_recipe

\* A command that is not refused was within its bounds, named the database it
\* ran on, and is answered by its operation.
LEMMA MainIs ==
  ASSUME NEW db, NEW after, NEW a, NEW v, v = main(db, after, a), v.op # "refused"
  PROVE  /\ a.op \in Paged => a.offset \in 0 .. MaxOffset /\ a.limit \in 1 .. MaxLimit
         /\ a.op = "rows" => a.expected = <<>> \/ a.expected = <<db>>
         /\ v = Answer(db, inventory(db), after, inventory(after), a)
<1>1. Refused.op = "refused"
  BY DEF Refused
<1> QED
  BY <1>1 DEF main, PageBoundsAccept, sha

\* The answer of each operation.
LEMMA AnswerIs ==
  ASSUME NEW db, NEW tables, NEW after, NEW afterTables, NEW a
  PROVE  LET v == Answer(db, tables, after, afterTables, a) IN
         /\ a.op = "schema" => v = [op |-> "schema", database_sha256 |-> sha(db), objects |-> tables]
         /\ a.op = "rows" =>
              v = IF selection_recipeAccepts(a.recipe, tables)
                  THEN RowsAnswer(db, a, selection_recipe(a.recipe, tables)) ELSE Refused
         /\ a.op = "related" => v = relation_rows(db, tables, a.request, a.offset, a.limit)
         /\ a.op = "referencing" => v = referencing_rows(db, tables, a.request, a.offset, a.limit)
         /\ a.op = "query" => v = query_output(db, a.statement, a.database_sha256, a.max_rows)
         /\ a.op = "summarize" => v = summarize(db, tables, a.request)
         /\ a.op = "group-rows" => v = group_rows(db, tables, a.request, a.key, a.offset, a.limit)
         /\ a.op = "crosstab" => v = crosstab(db, tables, a.request)
         /\ a.op = "histogram" => v = distribution(db, tables, a.request)
         /\ a.op = "compare" => v = comparison_output(a.request, db, tables, after, afterTables)
         /\ a.op = "compare-schema" =>
              v = schema_comparison_output(a.before_sha256, a.after_sha256, a.table, db, tables, after, afterTables)
BY DEF Answer

\* The rows of a page are ordered rows of a table, by an accepted selection.
IsPageOf(page, db, rows, recipe, sel, offset, limit) ==
  /\ selection_recipeAccepts(recipe, inventory(db)) /\ sel = selection_recipe(recipe, inventory(db))
  /\ rows \subseteq Object(db, recipe.table).rows /\ IsOrdered(rows, sel) /\ IsFiniteSet(rows)
  /\ PageShows(page, InOrder(rows, sel), Cardinality(rows), sel, offset, limit)
  /\ \A i \in 1 .. Len(page.rows) : RowAccepts(InOrder(rows, sel)[offset + i], sel)

\* selected_rows: an accepted page is the part of the result it was asked for.
LEMMA SelectedPageIs ==
  ASSUME NEW db, IsDatabase(db), NEW recipe, selection_recipeAccepts(recipe, inventory(db)),
         IsSequence(recipe.order_by), NEW sel, sel = selection_recipe(recipe, inventory(db)),
         NEW rows, rows \subseteq Object(db, recipe.table).rows,
         NEW offset, offset \in 0 .. MaxOffset, NEW limit, limit \in 1 .. MaxLimit,
         selected_rowsAccepts(rows, sel, offset, limit)
  PROVE  IsPageOf(selected_rows(rows, sel, offset, limit), db, rows, recipe, sel, offset, limit)
<1>1. sel.order_by = recipe.order_by /\ sel.locator = LocatorOf(inventory(db)[recipe.table])
  BY SelectionIs
<1>2. IsOrdered(Object(db, recipe.table).rows, sel)
  BY <1>1, SelectionOrders
<1>3. IsOrdered(rows, sel)
  BY <1>2, OrderedPart
<1>4. IsFiniteSet(rows)
  BY <1>3 DEF IsOrdered
<1>5. offset \in Nat /\ limit \in Nat \ {0}
  BY ReaderAssumption
<1>6. PICK page : page = selected_rows(rows, sel, offset, limit)
  OBVIOUS
<1>7. PageShows(page, InOrder(rows, sel), Cardinality(rows), sel, offset, limit)
  BY <1>4, <1>5, <1>6, SelectedPage
<1>8. \A i \in 1 .. limit : offset + i \in 1 .. Cardinality(rows) => RowAccepts(InOrder(rows, sel)[offset + i], sel)
  BY <1>4, <1>5, SelectedRowsAccepted
<1>9. /\ Len(page.rows) \in Nat /\ Len(page.rows) <= limit
      /\ \A i \in 1 .. Len(page.rows) : offset + i \in 1 .. Cardinality(rows)
  BY <1>7 DEF PageShows
<1>10. \A i \in 1 .. Len(page.rows) : i \in 1 .. limit
  BY <1>5, <1>9
<1>11. \A i \in 1 .. Len(page.rows) : RowAccepts(InOrder(rows, sel)[offset + i], sel)
  BY <1>8, <1>9, <1>10
<1> QED
  BY <1>3, <1>4, <1>6, <1>7, <1>11 DEF IsPageOf

\* rows.
LEMMA RowsIs ==
  ASSUME NEW db, IsDatabase(db), NEW after, NEW a, NEW v, v = main(db, after, a), v.op # "refused",
         a.op = "rows", SelectionArguments(a.recipe),
         NEW sel, sel = selection_recipe(a.recipe, inventory(db))
  PROVE  /\ v.op = "rows" /\ v.database_sha256 = db /\ v.request = a.recipe
         /\ IsPageOf(v.page, db, Filtered(db, sel), a.recipe, sel, a.offset, a.limit)
<1>1. a.offset \in 0 .. MaxOffset /\ a.limit \in 1 .. MaxLimit
  BY MainIs DEF Paged
<1>2. selection_recipeAccepts(a.recipe, inventory(db)) /\ v = RowsAnswer(db, a, sel)
  <2>1. v = Answer(db, inventory(db), after, inventory(after), a)
    BY MainIs
  <2>2. Refused.op = "refused"
    BY DEF Refused
  <2> QED
    BY <2>1, <2>2, AnswerIs
<1>3. PICK rows : rows = Filtered(db, sel)
  OBVIOUS
<1>4. /\ selected_rowsAccepts(rows, sel, a.offset, a.limit)
      /\ v = [op |-> "rows", database_sha256 |-> sha(db), request |-> a.recipe,
              page |-> selected_rows(rows, sel, a.offset, a.limit)]
  <2>1. Refused.op = "refused"
    BY DEF Refused
  <2> QED
    BY <1>2, <1>3, <2>1 DEF RowsAnswer, RowsPage
<1>5. rows \subseteq Object(db, a.recipe.table).rows
  <2>1. sel.table = a.recipe.table
    BY SelectionIs
  <2> QED
    BY <1>3, <2>1 DEF Filtered
<1>6. IsSequence(a.recipe.order_by)
  BY DEF SelectionArguments
<1>7. IsPageOf(selected_rows(rows, sel, a.offset, a.limit), db, rows, a.recipe, sel, a.offset, a.limit)
  BY <1>1, <1>2, <1>4, <1>5, <1>6, SelectedPageIs
<1> QED
  BY <1>3, <1>4, <1>7 DEF sha

\* related: the parents of the row the request names.
LEMMA RelatedIs ==
  ASSUME NEW db, IsDatabase(db), NEW after, NEW a, NEW v, v = main(db, after, a), v.op # "refused",
         a.op = "related", SelectionArguments(a.request),
         NEW tables, tables = inventory(db), NEW q, q = a.request,
         NEW rel, rel = RelationOf(tables, q.table, q.foreign_key), NEW c, c = Anchor(db, tables, q),
         NEW found, found = ParentsOf(db, tables, rel, c),
         NEW sel, sel = selection_recipe(Recipe(rel.parent, q), tables)
  PROVE  /\ v.op = "related" /\ v.database_sha256 = db /\ v.request = q /\ q.database_sha256 = db
         /\ selection_recipeAccepts(Bare(q.table), tables) /\ RelationAccepts(tables, q.table, q.foreign_key)
         /\ AnchorAccepts(db, tables, q)
         /\ v.source_values = Cells(c, rel.child_columns)
         /\ v.reference_status = (CASE HasNull(c, rel.child_columns) -> "null-reference"
                                    [] found # {} -> "matching-parent-rows"
                                    [] OTHER -> "no-matching-parent")
         /\ IsPageOf(v.page, db, found, Recipe(rel.parent, q), sel, a.offset, a.limit)
<1>1. a.offset \in 0 .. MaxOffset /\ a.limit \in 1 .. MaxLimit
  BY MainIs DEF Paged
<1>2. v = relation_rows(db, tables, q, a.offset, a.limit)
  <2>1. v = Answer(db, inventory(db), after, inventory(after), a)
    BY MainIs
  <2> QED
    BY <2>1, AnswerIs
<1>3. Refused.op = "refused"
  BY DEF Refused
<1>4. /\ Fingerprinted(q, db) /\ selection_recipeAccepts(Bare(q.table), tables)
      /\ RelationAccepts(tables, q.table, q.foreign_key)
      /\ v = RelatedTo(db, tables, q, rel, c, a.offset, a.limit)
  BY <1>2, <1>3 DEF relation_rows
<1>5. PICK recipe : recipe = Recipe(rel.parent, q)
  OBVIOUS
<1>6. /\ selection_recipeAccepts(recipe, tables) /\ AnchorAccepts(db, tables, q)
      /\ v = RelatedAnswer(db, q, rel, c, found, sel, a.offset, a.limit)
  BY <1>3, <1>4, <1>5 DEF RelatedTo
<1>7. /\ selected_rowsAccepts(found, sel, a.offset, a.limit)
      /\ v = [op |-> "related", database_sha256 |-> sha(db), request |-> q,
              source_values |-> Cells(c, rel.child_columns),
              reference_status |-> CASE HasNull(c, rel.child_columns) -> "null-reference"
                                     [] found # {} -> "matching-parent-rows"
                                     [] OTHER -> "no-matching-parent",
              page |-> selected_rows(found, sel, a.offset, a.limit)]
  BY <1>3, <1>6 DEF RelatedAnswer
<1>8. recipe.table = rel.parent /\ recipe.order_by = q.order_by
  BY <1>5 DEF Recipe
<1>9. found \subseteq Object(db, recipe.table).rows
  BY <1>8 DEF ParentsOf
<1>10. IsSequence(recipe.order_by)
  BY <1>8 DEF SelectionArguments
<1>11. IsPageOf(selected_rows(found, sel, a.offset, a.limit), db, found, recipe, sel, a.offset, a.limit)
  BY <1>1, <1>5, <1>6, <1>7, <1>9, <1>10, SelectedPageIs
<1>12. /\ v.op = "related" /\ v.database_sha256 = db /\ v.request = q
       /\ v.source_values = Cells(c, rel.child_columns)
       /\ v.page = selected_rows(found, sel, a.offset, a.limit)
  BY <1>7 DEF sha
<1>13. v.reference_status = (CASE HasNull(c, rel.child_columns) -> "null-reference"
                               [] found # {} -> "matching-parent-rows"
                               [] OTHER -> "no-matching-parent")
  BY <1>7
<1>14. q.database_sha256 = db
  BY <1>4 DEF Fingerprinted, sha
<1> QED
  BY <1>4, <1>5, <1>6, <1>11, <1>12, <1>13, <1>14

\* referencing: the children of the row the request names.
LEMMA ReferencingIs ==
  ASSUME NEW db, IsDatabase(db), NEW after, NEW a, NEW v, v = main(db, after, a), v.op # "refused",
         a.op = "referencing", SelectionArguments(a.request),
         NEW tables, tables = inventory(db), NEW q, q = a.request,
         NEW rel, rel = RelationOf(tables, q.child_table, q.foreign_key), NEW p, p = Anchor(db, tables, q),
         NEW sel, sel = selection_recipe(Recipe(q.child_table, q), tables),
         NEW found, found = ChildrenOf(db, tables, rel, p, sel)
  PROVE  /\ v.op = "referencing" /\ v.database_sha256 = db /\ v.request = q /\ q.database_sha256 = db
         /\ selection_recipeAccepts(Bare(q.table), tables) /\ RelationAccepts(tables, q.child_table, q.foreign_key)
         /\ rel.parent = q.table /\ AnchorAccepts(db, tables, q)
         /\ v.source_values = Cells(p, rel.parent_columns)
         /\ v.reference_status = ReferencingStatus(p, rel, found, v.page)
         /\ IsPageOf(v.page, db, found, Recipe(q.child_table, q), sel, a.offset, a.limit)
<1>1. a.offset \in 0 .. MaxOffset /\ a.limit \in 1 .. MaxLimit
  BY MainIs DEF Paged
<1>2. v = referencing_rows(db, tables, q, a.offset, a.limit)
  <2>1. v = Answer(db, inventory(db), after, inventory(after), a)
    BY MainIs
  <2> QED
    BY <2>1, AnswerIs
<1>3. Refused.op = "refused"
  BY DEF Refused
<1>4. PICK recipe : recipe = Recipe(q.child_table, q)
  OBVIOUS
<1>5. /\ Fingerprinted(q, db) /\ selection_recipeAccepts(Bare(q.table), tables)
      /\ selection_recipeAccepts(recipe, tables)
      /\ RelationAccepts(tables, q.child_table, q.foreign_key)
      /\ v = ReferencingTo(db, tables, q, rel, p, sel, a.offset, a.limit)
  BY <1>2, <1>3, <1>4 DEF referencing_rows
<1>6. /\ rel.parent = q.table /\ AnchorAccepts(db, tables, q)
      /\ v = ReferencingAnswer(db, q, rel, p, found, sel, a.offset, a.limit)
  BY <1>3, <1>5 DEF ReferencingTo
<1>7. PICK page : page = selected_rows(found, sel, a.offset, a.limit)
  OBVIOUS
<1>8. /\ selected_rowsAccepts(found, sel, a.offset, a.limit)
      /\ v = ReferencingPage(db, q, rel, p, found, page)
  BY <1>3, <1>6, <1>7 DEF ReferencingAnswer
<1>9. /\ v.op = "referencing" /\ v.database_sha256 = db /\ v.request = q
      /\ v.source_values = Cells(p, rel.parent_columns)
      /\ v.reference_status = ReferencingStatus(p, rel, found, page) /\ v.page = page
  BY <1>8 DEF ReferencingPage, sha
<1>10. recipe.table = q.child_table /\ recipe.order_by = q.order_by
  BY <1>4 DEF Recipe
<1>11. found \subseteq Object(db, recipe.table).rows
  <2>1. sel.table = recipe.table
    BY <1>4, SelectionIs
  <2> QED
    BY <2>1 DEF ChildrenOf, Filtered
<1>12. IsSequence(recipe.order_by)
  BY <1>10 DEF SelectionArguments
<1>13. IsPageOf(page, db, found, recipe, sel, a.offset, a.limit)
  BY <1>1, <1>4, <1>5, <1>7, <1>8, <1>11, <1>12, SelectedPageIs
<1>14. q.database_sha256 = db
  BY <1>5 DEF Fingerprinted, sha
<1> QED
  BY <1>4, <1>5, <1>6, <1>9, <1>13, <1>14

(***************************************************************************)
(* Scans: summaries, groups, crosstabs and histograms.                     *)
(***************************************************************************)

\* The empty sequence.
LEMMA EmptySequence == IsSequence(<<>>) /\ Len(<<>>) = 0 /\ ToSet(<<>>) = {} /\ DOMAIN <<>> = {}
BY DEF IsSequence, ToSet

\* A scan that answers has every row of the selection, in order.
LEMMA ScanIs ==
  ASSUME NEW db, IsDatabase(db), NEW recipe, selection_recipeAccepts(recipe, inventory(db)),
         IsSequence(recipe.order_by), NEW sel, sel.order_by = recipe.order_by, sel.table = recipe.table,
         sel.locator = LocatorOf(inventory(db)[recipe.table]),
         NEW F, F = Filtered(db, sel), NEW s, s = scan(db, sel)
  PROVE  /\ F \subseteq Object(db, recipe.table).rows /\ IsOrdered(F, sel) /\ IsFiniteSet(F)
         /\ IsSequence(InOrder(F, sel)) /\ Len(InOrder(F, sel)) = Cardinality(F) /\ ToSet(InOrder(F, sel)) = F
         /\ s.ok <=> Cardinality(F) <= MaxRows /\ \A r \in F : RowAccepts(r, sel)
         /\ s.ok => s.rows = InOrder(F, sel)
<1>1. F \subseteq Object(db, recipe.table).rows
  BY DEF Filtered
<1>2. IsOrdered(F, sel)
  BY <1>1, SelectionOrders, OrderedPart
<1>3. IsFiniteSet(F)
  BY <1>2 DEF IsOrdered
<1>4. PICK w : w = InOrder(F, sel)
  OBVIOUS
<1>5. PICK n \in Nat : n = Cardinality(F)
  BY <1>3, InOrderLen
<1>6. IsSequence(w) /\ Len(w) = n /\ DOMAIN w = 1 .. n
  <2>1. w = [i \in 1 .. n |-> w[i]]
    BY <1>4, <1>5, InOrderIs
  <2> QED
    BY <2>1, SegmentSequence
<1>7. ToSet(w) = F
  <2>1. w \in [1 .. n -> F] /\ \A x \in F : \E i \in 1 .. n : w[i] = x
    BY <1>2, <1>4, <1>5, InOrderLists
  <2> QED
    BY <1>6, <2>1 DEF ToSet
<1>8. s = ScanAnswer(w, sel)
  BY <1>4 DEF scan
<1>9. s.ok <=> n <= MaxRows /\ \A r \in F : RowAccepts(r, sel)
  BY <1>6, <1>7, <1>8 DEF ScanAnswer, Unanswered
<1>10. s.ok => s.rows = w
  BY <1>8 DEF ScanAnswer, Unanswered
<1> QED
  BY <1>1, <1>2, <1>3, <1>4, <1>5, <1>6, <1>7, <1>9, <1>10

\* The recipe of a table, columns and filters.
LEMMA SelectingIs ==
  ASSUME NEW table, NEW columns, NEW where
  PROVE  LET recipe == Selecting(table, columns, where) IN
         /\ recipe.table = table /\ recipe.columns = columns /\ recipe.where = where /\ recipe.order_by = <<>>
         /\ IsSequence(recipe.order_by)
BY EmptySequence DEF Selecting

\* The two selections of a summary differ only in their columns.
MembersOf(q, tables) == summary_recipe(q, tables, TRUE)
SummaryOf(q, tables) == summary_recipe(q, tables, FALSE)

\* summary_recipe with every column, which the members of a group are read with.
LEMMA MembersSelection ==
  ASSUME NEW q, NEW tables, NEW sel, sel = MembersOf(q, tables)
  PROVE  /\ sel.table = q.table /\ sel.where = q.where /\ sel.order_by = <<>>
         /\ sel.locator = LocatorOf(tables[q.table])
         /\ sel.columns = StoredNames(tables[q.table])
<1>1. PICK recipe : recipe = Selecting(q.table, <<>>, q.where)
  OBVIOUS
<1>2. sel = selection_recipe(recipe, tables)
  BY <1>1 DEF MembersOf, summary_recipe
<1>3. recipe.table = q.table /\ recipe.where = q.where /\ recipe.order_by = <<>> /\ recipe.columns = <<>>
  BY <1>1 DEF Selecting
<1>4. /\ sel.table = recipe.table /\ sel.where = recipe.where /\ sel.order_by = recipe.order_by
      /\ sel.locator = LocatorOf(tables[recipe.table])
  BY <1>2, SelectionIs
<1>5. sel.columns = StoredNames(tables[recipe.table])
  BY <1>2, <1>3, SelectionIs
<1> QED
  BY <1>3, <1>4, <1>5

\* summary_recipe with the columns that a summary needs.
LEMMA SummarySelection ==
  ASSUME NEW q, NEW tables, NEW sel, sel = SummaryOf(q, tables)
  PROVE  /\ sel.table = q.table /\ sel.where = q.where /\ sel.order_by = <<>>
         /\ sel.locator = LocatorOf(tables[q.table])
         /\ SummaryColumns(q) # <<>> => sel.columns = SummaryColumns(q)
<1>1. PICK recipe : recipe = Selecting(q.table, SummaryColumns(q), q.where)
  OBVIOUS
<1>2. PICK base : base = selection_recipe(recipe, tables)
  OBVIOUS
<1>3. /\ recipe.table = q.table /\ recipe.where = q.where /\ recipe.order_by = <<>>
      /\ recipe.columns = SummaryColumns(q)
  BY <1>1 DEF Selecting
<1>4. /\ base.table = q.table /\ base.where = q.where /\ base.order_by = <<>>
      /\ base.locator = LocatorOf(tables[q.table])
      /\ SummaryColumns(q) # <<>> => base.columns = SummaryColumns(q)
  BY <1>2, <1>3, SelectionIs
<1>5. base = [table |-> base.table, where |-> base.where, order_by |-> base.order_by,
              columns |-> base.columns, locator |-> base.locator]
  BY <1>2 DEF selection_recipe
<1>6. sel = IF SummaryColumns(q) = <<>> THEN [base EXCEPT !.columns = SubSeq(base.columns, 1, 1)] ELSE base
  BY <1>1, <1>2 DEF SummaryOf, summary_recipe
<1>7. CASE SummaryColumns(q) = <<>>
  <2>1. PICK cut : cut = SubSeq(base.columns, 1, 1)
    OBVIOUS
  <2>2. sel = [base EXCEPT !.columns = cut]
    BY <1>6, <1>7, <2>1
  <2>3. /\ sel.table = base.table /\ sel.where = base.where /\ sel.order_by = base.order_by
        /\ sel.locator = base.locator
    BY <1>5, <2>2
  <2> QED
    BY <1>4, <1>7, <2>3
<1>8. CASE SummaryColumns(q) # <<>>
  BY <1>4, <1>6, <1>8
<1> QED
  BY <1>7, <1>8

\* What is picked is a sequence of the values at those positions.
LEMMA PickedSequence ==
  ASSUME NEW s, IsSequence(s), NEW at, at \subseteq DOMAIN s
  PROVE  /\ IsSequence(Picked(s, at)) /\ Len(Picked(s, at)) = Cardinality(at)
         /\ ToSet(Picked(s, at)) = {s[i] : i \in at}
<1>1. PICK n \in Nat : n = Len(s)
  BY SequenceIs
<1>2. DOMAIN s = 1 .. n
  BY <1>1, SequenceIs
<1>3. at \subseteq 1 .. n
  BY <1>2
<1>4. /\ Cardinality(at) \in Nat /\ Ascending(at) \in [1 .. Cardinality(at) -> at]
      /\ DOMAIN Picked(s, at) = 1 .. Cardinality(at) /\ Len(Picked(s, at)) = Cardinality(at)
      /\ \A i \in 1 .. Cardinality(at) : Picked(s, at)[i] = s[Ascending(at)[i]]
      /\ \A x \in at : \E i \in 1 .. Cardinality(at) : Ascending(at)[i] = x
  <2>1. Cardinality(at) \in Nat /\ Ascending(at) \in [1 .. Cardinality(at) -> at]
    BY <1>3, PickedIs
  <2>2. DOMAIN Picked(s, at) = 1 .. Cardinality(at) /\ Len(Picked(s, at)) = Cardinality(at)
    BY <1>3, PickedIs
  <2>3. \A i \in 1 .. Cardinality(at) : Picked(s, at)[i] = s[Ascending(at)[i]]
    BY <1>3, PickedIs
  <2>4. \A x \in at : \E i \in 1 .. Cardinality(at) : Ascending(at)[i] = x
    BY <1>3, PickedIs
  <2> QED
    BY <2>1, <2>2, <2>3, <2>4
<1>5. PICK p : p = Picked(s, at)
  OBVIOUS
<1>6. p = [i \in 1 .. Cardinality(at) |-> p[i]]
  <2>1. DOMAIN Ascending(at) = 1 .. Cardinality(at)
    BY <1>4
  <2> QED
    BY <1>5, <2>1 DEF Picked
<1>7. IsSequence(p)
  BY <1>4, <1>6, SegmentSequence
<1>8. ToSet(p) = {s[i] : i \in at}
  <2>1. ASSUME NEW x \in ToSet(p)
        PROVE  x \in {s[i] : i \in at}
    <3>1. PICK i \in 1 .. Cardinality(at) : x = p[i]
      BY <1>4, <1>5 DEF ToSet
    <3>2. Ascending(at)[i] \in at /\ p[i] = s[Ascending(at)[i]]
      BY <1>4, <1>5
    <3> QED
      BY <3>1, <3>2
  <2>2. ASSUME NEW k \in at
        PROVE  s[k] \in ToSet(p)
    <3>1. PICK i \in 1 .. Cardinality(at) : Ascending(at)[i] = k
      BY <1>4
    <3>2. p[i] = s[k] /\ i \in DOMAIN p
      BY <1>4, <1>5, <3>1
    <3> QED
      BY <3>2 DEF ToSet
  <2> QED
    BY <2>1, <2>2
<1> QED
  BY <1>4, <1>5, <1>7, <1>8

\* The members of a group.
LEMMA OfGroupIs ==
  ASSUME NEW w, IsSequence(w), NEW q, NEW key
  PROVE  /\ IsSequence(OfGroup(w, q, key))
         /\ \A r \in ToSet(OfGroup(w, q, key)) : r \in ToSet(w) /\ Cells(r, q.group_by) = key
<1>1. PICK at : at = {i \in DOMAIN w : Cells(w[i], q.group_by) = key}
  OBVIOUS
<1>2. OfGroup(w, q, key) = Picked(w, at)
  BY <1>1 DEF OfGroup
<1>3. at \subseteq DOMAIN w
  BY <1>1
<1>4. IsSequence(Picked(w, at)) /\ ToSet(Picked(w, at)) = {w[i] : i \in at}
  BY <1>3, PickedSequence
<1>5. \A i \in at : w[i] \in ToSet(w) /\ Cells(w[i], q.group_by) = key
  BY <1>1 DEF ToSet
<1> QED
  BY <1>2, <1>4, <1>5

\* An accepted summary carries the fingerprint and is an accepted selection.
LEMMA SummaryAccepted ==
  ASSUME NEW q, NEW db, NEW tables, summary_recipeAccepts(q, db, tables)
  PROVE  /\ q.database_sha256 = db
         /\ selection_recipeAccepts(Selecting(q.table, SummaryColumns(q), q.where), tables)
BY DEF summary_recipeAccepts, sha

\* The rows a summary is of, whichever columns it shows.
LEMMA SummaryScan ==
  ASSUME NEW db, IsDatabase(db), NEW tables, tables = inventory(db), NEW q, summary_recipeAccepts(q, db, tables),
         NEW sel, sel.table = q.table, sel.order_by = <<>>, sel.locator = LocatorOf(tables[q.table]),
         NEW F, F = Filtered(db, sel), NEW s, s = scan(db, sel)
  PROVE  /\ F \subseteq Object(db, q.table).rows /\ IsOrdered(F, sel) /\ IsFiniteSet(F)
         /\ IsSequence(InOrder(F, sel)) /\ Len(InOrder(F, sel)) = Cardinality(F) /\ ToSet(InOrder(F, sel)) = F
         /\ s.ok <=> Cardinality(F) <= MaxRows /\ \A r \in F : RowAccepts(r, sel)
         /\ s.ok => s.rows = InOrder(F, sel)
<1>1. PICK recipe : recipe = Selecting(q.table, SummaryColumns(q), q.where)
  OBVIOUS
<1>2. recipe.table = q.table /\ recipe.order_by = <<>> /\ IsSequence(recipe.order_by)
  BY <1>1, SelectingIs
<1>3. selection_recipeAccepts(recipe, inventory(db))
  BY <1>1, SummaryAccepted
<1>4. /\ sel.table = recipe.table /\ sel.order_by = recipe.order_by
      /\ sel.locator = LocatorOf(inventory(db)[recipe.table])
  BY <1>2
<1>5. /\ F \subseteq Object(db, recipe.table).rows /\ IsOrdered(F, sel) /\ IsFiniteSet(F)
      /\ IsSequence(InOrder(F, sel)) /\ Len(InOrder(F, sel)) = Cardinality(F) /\ ToSet(InOrder(F, sel)) = F
      /\ s.ok <=> Cardinality(F) <= MaxRows /\ \A r \in F : RowAccepts(r, sel)
      /\ s.ok => s.rows = InOrder(F, sel)
  BY <1>2, <1>3, <1>4, ScanIs
<1> QED
  BY <1>2, <1>5

\* group-rows: a page of the members of the group, or a refusal.
LEMMA GroupRowsIs ==
  ASSUME NEW db, IsDatabase(db), NEW tables, tables = inventory(db), NEW q, NEW key, NEW offset, NEW limit,
         NEW v, v = group_rows(db, tables, q, key, offset, limit),
         NEW sel, sel = MembersOf(q, tables), NEW F, F = Filtered(db, sel),
         NEW of, of = OfGroup(InOrder(F, sel), q, key)
  PROVE  /\ v = Refused \/ v = GroupAnswer(db, q, key, of, Cardinality(F), GroupPage(of, sel, offset, limit))
         /\ v # Refused <=> /\ summary_recipeAccepts(q, db, tables) /\ group_keyAccepts(key, Len(q.group_by))
                            /\ Cardinality(F) <= MaxRows /\ \A r \in F : RowAccepts(r, sel)
<1>1. PICK s : s = scan(db, sel)
  OBVIOUS
<1>2. PICK answer : answer = GroupAnswer(db, q, key, of, Cardinality(F), GroupPage(of, sel, offset, limit))
  OBVIOUS
<1>3. answer # Refused
  <2>1. answer.op = "group-rows" /\ Refused.op = "refused"
    BY <1>2 DEF GroupAnswer, Refused
  <2> QED
    BY <2>1
<1>4. CASE summary_recipeAccepts(q, db, tables) /\ group_keyAccepts(key, Len(q.group_by))
  <2>1. v = MembersAnswer(db, q, key, sel, s, offset, limit)
    BY <1>1, <1>4 DEF group_rows, Members, MembersOf
  <2>2. sel.table = q.table /\ sel.order_by = <<>> /\ sel.locator = LocatorOf(tables[q.table])
    BY MembersSelection
  <2>3. /\ Len(InOrder(F, sel)) = Cardinality(F)
        /\ s.ok <=> Cardinality(F) <= MaxRows /\ \A r \in F : RowAccepts(r, sel)
        /\ s.ok => s.rows = InOrder(F, sel)
    BY <1>1, <1>4, <2>2, SummaryScan
  <2>4. s.ok => v = answer
    BY <1>2, <2>1, <2>3 DEF MembersAnswer, OpenedGroup
  <2>5. ~s.ok => v = Refused
    BY <2>1 DEF MembersAnswer
  <2> QED
    BY <1>2, <1>3, <1>4, <2>3, <2>4, <2>5
<1>5. CASE ~(summary_recipeAccepts(q, db, tables) /\ group_keyAccepts(key, Len(q.group_by)))
  <2>1. v = Refused
    BY <1>5 DEF group_rows
  <2> QED
    BY <1>5, <2>1
<1> QED
  BY <1>4, <1>5

\* The fields of the answer that opens a group.
LEMMA GroupAnswerIs ==
  ASSUME NEW db, NEW q, NEW key, NEW of, NEW total, NEW page, NEW v, v = GroupAnswer(db, q, key, of, total, page)
  PROVE  /\ v.op = "group-rows" /\ v.database_sha256 = db /\ v.request = q /\ v.key = key
         /\ v.total_group_rows = Len(of) /\ v.selected_row_count = total /\ v.page = page
BY DEF GroupAnswer, sha

\* summarize: the groups of a complete scan.
LEMMA SummarizeIs ==
  ASSUME NEW db, IsDatabase(db), NEW tables, tables = inventory(db), NEW q, NEW v, v = summarize(db, tables, q),
         v.op # "refused", NEW sel, sel = SummaryOf(q, tables), NEW F, F = Filtered(db, sel)
  PROVE  /\ summary_recipeAccepts(q, db, tables)
         /\ v.op = "summarize" /\ v.database_sha256 = db /\ v.request = q
         /\ v.groups = groups(InOrder(F, sel), q, sel)
         /\ v.selected_row_count = Cardinality(F) /\ Cardinality(F) <= MaxRows
         /\ \A r \in F : RowAccepts(r, sel)
<1>1. PICK s : s = scan(db, sel)
  OBVIOUS
<1>2. Refused.op = "refused"
  BY DEF Refused
<1>3. summary_recipeAccepts(q, db, tables) /\ v = SummaryAnswer(db, q, sel, s)
  BY <1>1, <1>2 DEF summarize, Summarized, SummaryOf
<1>4. sel.table = q.table /\ sel.order_by = <<>> /\ sel.locator = LocatorOf(tables[q.table])
  BY SummarySelection
<1>5. /\ Len(InOrder(F, sel)) = Cardinality(F)
      /\ s.ok <=> Cardinality(F) <= MaxRows /\ \A r \in F : RowAccepts(r, sel)
      /\ s.ok => s.rows = InOrder(F, sel)
  BY <1>1, <1>3, <1>4, SummaryScan
<1>6. s.ok
  BY <1>2, <1>3 DEF SummaryAnswer
<1>7. v = [op |-> "summarize", database_sha256 |-> sha(db), request |-> q,
           groups |-> groups(s.rows, q, sel), selected_row_count |-> Len(s.rows)]
  BY <1>3, <1>6 DEF SummaryAnswer
<1>8. /\ v.op = "summarize" /\ v.database_sha256 = db /\ v.request = q
      /\ v.groups = groups(s.rows, q, sel) /\ v.selected_row_count = Len(s.rows)
  BY <1>7 DEF sha
<1> QED
  BY <1>3, <1>5, <1>6, <1>8

\* The complete scan behind a crosstab and a distribution.
LEMMA WholeScan ==
  ASSUME NEW db, IsDatabase(db), NEW tables, tables = inventory(db), NEW table, NEW columns, NEW where,
         selection_recipeAccepts(Selecting(table, columns, where), tables),
         NEW sel, sel = selection_recipe(Selecting(table, <<>>, where), tables),
         NEW F, F = Filtered(db, sel), NEW s, s = scan(db, sel)
  PROVE  /\ F \subseteq Object(db, table).rows /\ IsOrdered(F, sel) /\ IsFiniteSet(F)
         /\ IsSequence(InOrder(F, sel)) /\ Len(InOrder(F, sel)) = Cardinality(F) /\ ToSet(InOrder(F, sel)) = F
         /\ s.ok <=> Cardinality(F) <= MaxRows /\ \A r \in F : RowAccepts(r, sel)
         /\ s.ok => s.rows = InOrder(F, sel)
<1>1. PICK recipe : recipe = Selecting(table, columns, where)
  OBVIOUS
<1>2. recipe.table = table /\ recipe.order_by = <<>> /\ IsSequence(recipe.order_by)
  BY <1>1, SelectingIs
<1>3. PICK all : all = Selecting(table, <<>>, where)
  OBVIOUS
<1>4. all.table = table /\ all.order_by = <<>>
  BY <1>3, SelectingIs
<1>5. /\ sel.table = recipe.table /\ sel.order_by = recipe.order_by
      /\ sel.locator = LocatorOf(inventory(db)[recipe.table])
  BY <1>2, <1>3, <1>4, SelectionIs
<1>6. selection_recipeAccepts(recipe, inventory(db))
  BY <1>1
<1>7. /\ F \subseteq Object(db, recipe.table).rows /\ IsOrdered(F, sel) /\ IsFiniteSet(F)
      /\ IsSequence(InOrder(F, sel)) /\ Len(InOrder(F, sel)) = Cardinality(F) /\ ToSet(InOrder(F, sel)) = F
      /\ s.ok <=> Cardinality(F) <= MaxRows /\ \A r \in F : RowAccepts(r, sel)
      /\ s.ok => s.rows = InOrder(F, sel)
  BY <1>2, <1>5, <1>6, ScanIs
<1> QED
  BY <1>2, <1>7

\* crosstab: it counts the rows of a complete scan.
LEMMA CrosstabIs ==
  ASSUME NEW db, IsDatabase(db), NEW tables, tables = inventory(db), NEW q, NEW v, v = crosstab(db, tables, q),
         v.op # "refused", NEW sel, sel = selection_recipe(Selecting(q.table, <<>>, q.where), tables),
         NEW F, F = Filtered(db, sel)
  PROVE  /\ q.database_sha256 = db /\ v.op = "crosstab" /\ v.database_sha256 = db /\ v.request = q
         /\ v.selected_row_count = Cardinality(F)
<1>1. PICK s : s = scan(db, sel)
  OBVIOUS
<1>2. Refused.op = "refused"
  BY DEF Refused
<1>3. /\ q.database_sha256 = sha(db)
      /\ selection_recipeAccepts(Selecting(q.table, <<q.row_column, q.column_column>>, q.where), tables)
      /\ v = CrosstabAnswer(db, q, sel, s)
  BY <1>1, <1>2 DEF crosstab, CrosstabOf
<1>4. Len(InOrder(F, sel)) = Cardinality(F) /\ (s.ok => s.rows = InOrder(F, sel))
  <2>1. PICK columns : columns = <<q.row_column, q.column_column>>
    OBVIOUS
  <2>2. selection_recipeAccepts(Selecting(q.table, columns, q.where), tables)
    BY <1>3, <2>1
  <2> QED
    BY <1>1, <2>2, WholeScan
<1>5. s.ok
  BY <1>2, <1>3 DEF CrosstabAnswer
<1>6. PICK rk, ck, members : v = Crosstab(db, q, sel, Len(s.rows), members, rk, ck)
  BY <1>2, <1>3 DEF CrosstabAnswer
<1>7. v.op = "crosstab" /\ v.database_sha256 = db /\ v.request = q /\ v.selected_row_count = Len(s.rows)
  BY <1>6 DEF Crosstab, sha
<1> QED
  BY <1>3, <1>4, <1>5, <1>7 DEF sha

\* Each band shows its rows of the whole result w; the boundaries ascend.
BandsShow(v, q, w, sel) ==
  v.bands = [b \in 0 .. Len(q.boundaries) |-> ShownRows(OfBand(w, q, b), sel)]
EdgesAscend(q) ==
  /\ Len(q.boundaries) >= 1
  /\ \A i \in DOMAIN q.boundaries : parameterAccepts(q.boundaries[i]) /\ q.boundaries[i].type \in Numeric
  /\ \A i \in 2 .. Len(q.boundaries) : q.boundaries[i - 1].num < q.boundaries[i].num
ColumnSelected(q, tables) == selection_recipeAccepts(Selecting(q.table, <<q.column>>, q.where), tables)

\* distribution: each band shows its rows of a complete scan.
LEMMA DistributionIs ==
  ASSUME NEW db, IsDatabase(db), NEW tables, tables = inventory(db), NEW q, NEW v, v = distribution(db, tables, q),
         v.op # "refused", NEW sel, sel = selection_recipe(Selecting(q.table, <<>>, q.where), tables),
         NEW F, F = Filtered(db, sel)
  PROVE  /\ q.database_sha256 = db /\ v.op = "histogram" /\ v.database_sha256 = db /\ v.request = q
         /\ v.selected_row_count = Cardinality(F)
         /\ BandsShow(v, q, InOrder(F, sel), sel) /\ EdgesAscend(q)
         /\ ColumnSelected(q, tables)
<1>1. PICK s : s = scan(db, sel)
  OBVIOUS
<1>2. Refused.op = "refused"
  BY DEF Refused
<1>3. /\ q.database_sha256 = sha(db) /\ Len(q.boundaries) \in 1 .. MaxEdges
      /\ \A i \in DOMAIN q.boundaries : parameterAccepts(q.boundaries[i]) /\ q.boundaries[i].type \in Numeric
      /\ \A i \in 2 .. Len(q.boundaries) : q.boundaries[i - 1].num < q.boundaries[i].num
      /\ selection_recipeAccepts(Selecting(q.table, <<q.column>>, q.where), tables)
      /\ v = BandsAnswer(db, q, sel, s)
  BY <1>1, <1>2 DEF distribution, Distributed
<1>4. Len(InOrder(F, sel)) = Cardinality(F) /\ (s.ok => s.rows = InOrder(F, sel))
  <2>1. PICK columns : columns = <<q.column>>
    OBVIOUS
  <2>2. selection_recipeAccepts(Selecting(q.table, columns, q.where), tables)
    BY <1>3, <2>1
  <2> QED
    BY <1>1, <2>2, WholeScan
<1>5. s.ok
  BY <1>2, <1>3 DEF BandsAnswer
<1>6. /\ v.op = "histogram" /\ v.database_sha256 = db /\ v.request = q /\ v.selected_row_count = Len(s.rows)
      /\ v.bands = [b \in 0 .. Len(q.boundaries) |-> ShownRows(OfBand(s.rows, q, b), sel)]
  BY <1>3, <1>5 DEF BandsAnswer, ShownRows, sha
<1>7. BandsShow(v, q, InOrder(F, sel), sel) /\ ColumnSelected(q, tables)
  BY <1>3, <1>4, <1>5, <1>6 DEF BandsShow, ColumnSelected
<1>8. Len(q.boundaries) >= 1
  BY <1>3
<1>9. EdgesAscend(q)
  BY <1>3, <1>8 DEF EdgesAscend
<1> QED
  BY <1>3, <1>4, <1>5, <1>6, <1>7, <1>9 DEF sha

(***************************************************************************)
(* Queries and comparisons.                                                *)
(***************************************************************************)

\* A finite set is listed by its cardinality.
LEMMA SetToSeqIs ==
  ASSUME NEW S, IsFiniteSet(S)
  PROVE  /\ Cardinality(S) \in Nat /\ DOMAIN SetToSeq(S) = 1 .. Cardinality(S)
         /\ Len(SetToSeq(S)) = Cardinality(S)
<1>1. PICK n \in Nat : n = Cardinality(S) /\ ExistsBijection(1 .. n, S)
  BY FS_CardinalityType
<1>2. PICK f : f \in Bijection(1 .. n, S)
  BY <1>1 DEF ExistsBijection
<1>3. f \in [1 .. n -> S] /\ IsInjective(f)
  BY <1>2 DEF Bijection, Injection, IsInjective
<1>4. SetToSeq(S) = CHOOSE g \in [1 .. n -> S] : IsInjective(g)
  BY <1>1 DEF SetToSeq
<1>5. SetToSeq(S) \in [1 .. n -> S]
  BY <1>3, <1>4
<1>6. DOMAIN SetToSeq(S) = 1 .. n
  BY <1>5
<1>7. Len(SetToSeq(S)) = n
  BY <1>6, SegmentLen
<1> QED
  BY <1>1, <1>6, <1>7

\* query_output: the authorizer lets a statement read ordinary tables only.
LEMMA QueryIs ==
  ASSUME NEW db, IsDatabase(db), NEW st, ToSet(st.columns) # {}, NEW fingerprint, NEW max_rows,
         NEW v, v = query_output(db, st, fingerprint, max_rows), v.op # "refused"
  PROVE  /\ fingerprint = db /\ v.op = "query" /\ v.statement = st
         /\ Len(v.rows) = Cardinality(ResultRows(db, st))
<1>1. Refused.op = "refused"
  BY DEF Refused
<1>2. PICK all : all = QueryResult(db, st)
  OBVIOUS
<1>3. QueryPermitted(db, st, fingerprint, max_rows) /\ v = QueryAnswer(db, st, max_rows, all)
  BY <1>1, <1>2 DEF query_output, QueryOutput
<1>4. fingerprint = db /\ \A a \in Accesses(db, st) : read_authorizer(inventory(db), a)
  BY <1>3 DEF QueryPermitted, sha
<1>5. PICK c \in ToSet(st.columns) : TRUE
  OBVIOUS
<1>6. PICK o : o = Object(db, st.object)
  OBVIOUS
<1>7. PICK a : a = [action |-> "read", table |-> IF o.kind = "view" THEN o.base ELSE st.object, column |-> c,
                    db |-> "main", origin |-> IF o.kind = "view" THEN st.object ELSE "none"]
  OBVIOUS
<1>8. a \in Accesses(db, st)
  BY <1>5, <1>6, <1>7 DEF Accesses
<1>9. /\ a.action = "read" /\ a.table = IF o.kind = "view" THEN o.base ELSE st.object
      /\ a.origin = IF o.kind = "view" THEN st.object ELSE "none"
  BY <1>7
<1>10. a.origin = "none" /\ a.table \in OrdinaryTables(inventory(db))
  BY <1>4, <1>8, <1>9 DEF read_authorizer
<1>11. a.table \in DOMAIN inventory(db)
  BY <1>10 DEF OrdinaryTables
<1>12. PICK t : t = Object(db, a.table)
  OBVIOUS
<1>13. t \in db.objects
  BY <1>11, <1>12, InventoryIs
<1>14. IsFiniteSet(t.rows)
  BY <1>13, Zenon DEF IsDatabase
<1>15. ResultRows(db, st) = t.rows
  BY <1>6, <1>9, <1>12 DEF ResultRows
<1>16. Cardinality(t.rows) \in Nat /\ DOMAIN all = 1 .. Cardinality(t.rows)
  BY <1>2, <1>14, <1>15, SetToSeqIs DEF QueryResult
<1>17. /\ v.op = "query" /\ v.statement = st
       /\ v.rows = [i \in DOMAIN all |-> Cells(all[i], st.columns)]
  BY <1>3 DEF QueryAnswer
<1>18. DOMAIN v.rows = 1 .. Cardinality(t.rows)
  BY <1>16, <1>17
<1>19. Len(v.rows) = Cardinality(t.rows)
  BY <1>16, <1>18, SegmentLen
<1> QED
  BY <1>4, <1>15, <1>17, <1>19

\* compare-schema: what it says of the objects, and where rows can be read.
SchemaSays(v, old, new, table, before, b, after, a) ==
  /\ v.op = "compare-schema" /\ old = before /\ new = after
  /\ v.objects = [n \in DOMAIN b \cup DOMAIN a |-> SchemaChange(b, a, n)]
  /\ v.row_navigation["before"] = navigation(table, b, before)
  /\ v.row_navigation["after"] = navigation(table, a, after)

\* schema_comparison_output: what it says of the two inventories.
LEMMA SchemaIs ==
  ASSUME NEW before, NEW b, NEW after, NEW a, NEW old, NEW new, NEW table, NEW v,
         v = schema_comparison_output(old, new, table, before, b, after, a), v.op # "refused"
  PROVE  SchemaSays(v, old, new, table, before, b, after, a)
<1>1. Refused.op = "refused"
  BY DEF Refused
<1>2. old = before /\ new = after
  BY <1>1 DEF schema_comparison_output, snapshotAccepts, sha
<1>3. PICK changes :
        v = [op |-> "compare-schema", before_sha256 |-> old, after_sha256 |-> new,
             objects |-> [n \in DOMAIN b \cup DOMAIN a |-> SchemaChange(b, a, n)], selected |-> table,
             column_changes |-> changes,
             row_navigation |-> [before |-> navigation(table, b, before), after |-> navigation(table, a, after)]]
  BY <1>1 DEF schema_comparison_output
<1>4. /\ v.op = "compare-schema"
      /\ v.objects = [n \in DOMAIN b \cup DOMAIN a |-> SchemaChange(b, a, n)]
      /\ v.row_navigation = [before |-> navigation(table, b, before), after |-> navigation(table, a, after)]
  BY <1>3
<1> QED
  BY <1>2, <1>4 DEF SchemaSays

\* Rows that agree in all columns agree in a key made of some of them.
LEMMA ValuesGiveKey ==
  ASSUME NEW x, NEW y, NEW columns, NEW keys, ToSet(keys) \subseteq ToSet(columns),
         Cells(x, columns) = Cells(y, columns)
  PROVE  Cells(x, keys) = Cells(y, keys)
<1>1. ASSUME NEW i \in DOMAIN keys
      PROVE  cell(Field(x, keys[i])) = cell(Field(y, keys[i]))
  <2>1. PICK j \in DOMAIN columns : columns[j] = keys[i]
    BY DEF ToSet
  <2>2. Cells(x, columns)[j] = cell(Field(x, columns[j])) /\ Cells(y, columns)[j] = cell(Field(y, columns[j]))
    BY CellsAre
  <2> QED
    BY <2>1, <2>2
<1> QED
  BY <1>1 DEF Cells

\* One side of a comparison: every row of the table, by its key.
LEMMA ComparisonSide ==
  ASSUME NEW db, IsDatabase(db), NEW tables, tables = inventory(db), NEW fingerprint, NEW q,
         comparisonScanAccepts(db, tables, fingerprint, q),
         NEW sel, sel = comparisonSelection(tables, q), NEW R, R = Object(db, q.table).rows,
         NEW side, side = comparisonScan(db, sel, q)
  PROVE  /\ fingerprint = db /\ side.columns = sel.columns /\ IsFiniteSet(R)
         /\ DOMAIN side.indexed = {KeyOf(r, q) : r \in R}
         /\ \A r \in R : side.indexed[KeyOf(r, q)].values = Cells(r, sel.columns)
         /\ \A x, y \in R : KeyOf(x, q) = KeyOf(y, q) => x = y
         /\ ToSet(q.key_columns) \subseteq ToSet(sel.columns)
<1>1. PICK recipe : recipe = Selecting(q.table, q.columns, <<>>)
  OBVIOUS
<1>2. recipe.table = q.table /\ recipe.where = <<>> /\ IsSequence(recipe.order_by)
  BY <1>1, SelectingIs
<1>3. PICK s : s = scan(db, sel)
  OBVIOUS
<1>4. fingerprint = db /\ selection_recipeAccepts(recipe, inventory(db)) /\ Indexable(s, sel, q)
  BY <1>1, <1>3 DEF comparisonScanAccepts, IndexableScan, sha
<1>5. /\ sel.table = q.table /\ sel.where = <<>> /\ sel.order_by = recipe.order_by /\ sel.table = recipe.table
      /\ sel.locator = LocatorOf(inventory(db)[recipe.table])
  BY <1>1, <1>2, SelectionIs DEF comparisonSelection
<1>6. R = Filtered(db, sel)
  BY <1>5, EmptySequence DEF Filtered
<1>7. /\ ToSet(q.key_columns) \subseteq ToSet(sel.columns) /\ s.ok
      /\ \A i, j \in DOMAIN s.rows : KeyOf(s.rows[i], q) = KeyOf(s.rows[j], q) => i = j
  BY <1>4 DEF Indexable
<1>8. IsFiniteSet(R) /\ ToSet(s.rows) = R
  BY <1>2, <1>3, <1>4, <1>5, <1>6, <1>7, ScanIs
<1>9. ASSUME NEW x \in R, NEW y \in R, KeyOf(x, q) = KeyOf(y, q)
      PROVE  x = y
  <2>1. PICK i \in DOMAIN s.rows : x = s.rows[i]
    BY <1>8 DEF ToSet
  <2>2. PICK j \in DOMAIN s.rows : y = s.rows[j]
    BY <1>8 DEF ToSet
  <2> QED
    BY <1>7, <1>9, <2>1, <2>2
<1>10. side = Indexed(R, sel, q)
  BY <1>3, <1>8 DEF comparisonScan
<1>11. /\ side.columns = sel.columns
       /\ side.indexed = [k \in {KeyOf(r, q) : r \in R} |-> RowCells(CHOOSE r \in R : KeyOf(r, q) = k, sel)]
  BY <1>10 DEF Indexed
<1>12. ASSUME NEW r \in R
       PROVE  side.indexed[KeyOf(r, q)].values = Cells(r, sel.columns)
  <2>1. PICK k \in {KeyOf(x, q) : x \in R} : k = KeyOf(r, q)
    OBVIOUS
  <2>2. side.indexed[k] = RowCells(CHOOSE x \in R : KeyOf(x, q) = k, sel)
    BY <1>11
  <2>3. (CHOOSE x \in R : KeyOf(x, q) = k) = r
    BY <1>9, <2>1
  <2>4. side.indexed[k] = RowCells(r, sel)
    BY <2>2, <2>3
  <2> QED
    BY <2>1, <2>4 DEF RowCells
<1> QED
  BY <1>4, <1>7, <1>8, <1>9, <1>11, <1>12

\* As many keys as rows.
LEMMA KeysCounted ==
  ASSUME NEW R, IsFiniteSet(R), NEW q, \A x, y \in R : KeyOf(x, q) = KeyOf(y, q) => x = y,
         NEW K, K = {KeyOf(r, q) : r \in R}
  PROVE  IsFiniteSet(K) /\ Cardinality(K) = Cardinality(R)
<1>1. PICK f : f = [r \in R |-> KeyOf(r, q)]
  OBVIOUS
<1>2. f \in Bijection(R, K)
  BY <1>1 DEF Bijection, Injection, Surjection, IsInjective
<1>3. ExistsBijection(R, K)
  BY <1>2, Zenon DEF ExistsBijection
<1> QED
  BY <1>3, FS_Bijection, Zenon

\* What became of a key that either side has.
LEMMA ChangeIs ==
  ASSUME NEW B, NEW A, NEW k, k \in DOMAIN B \cup DOMAIN A
  PROVE  /\ Change(B, A, k) = "added" <=> k \notin DOMAIN B
         /\ Change(B, A, k) = "removed" <=> k \notin DOMAIN A
         /\ Change(B, A, k) = "unchanged" => k \in DOMAIN B /\ k \in DOMAIN A /\ B[k].values = A[k].values
<1>1. CASE k \notin DOMAIN B
  <2>1. Change(B, A, k) = "added"
    BY <1>1 DEF Change
  <2> QED
    BY <1>1, <2>1
<1>2. CASE k \notin DOMAIN A
  <2>1. Change(B, A, k) = "removed"
    BY <1>2 DEF Change
  <2> QED
    BY <1>2, <2>1
<1>3. CASE k \in DOMAIN B /\ k \in DOMAIN A
  <2>1. CASE B[k].values = A[k].values
    <3>1. Change(B, A, k) = "unchanged"
      BY <1>3, <2>1 DEF Change
    <3> QED
      BY <1>3, <2>1, <3>1
  <2>2. CASE B[k].values # A[k].values
    <3>1. Change(B, A, k) = "changed"
      BY <1>3, <2>2 DEF Change
    <3> QED
      BY <1>3, <3>1
  <2> QED
    BY <2>1, <2>2
<1> QED
  BY <1>1, <1>2, <1>3

\* What became of every key of either side.
TellsChanges(change, B, A) ==
  DOMAIN change = DOMAIN B \cup DOMAIN A /\ \A k \in DOMAIN change : change[k] = Change(B, A, k)

\* Every key whose row changed, with its row on either side.
ListsChanges(changes, B, A) ==
  /\ DOMAIN changes = {k \in DOMAIN B \cup DOMAIN A : Change(B, A, k) # "unchanged"}
  /\ \A k \in DOMAIN changes :
       /\ changes[k]["before"] = IF k \in DOMAIN B THEN <<B[k]>> ELSE <<>>
       /\ changes[k]["after"] = IF k \in DOMAIN A THEN <<A[k]>> ELSE <<>>

\* The answer of a comparison of two indexed sides.
ComparesAs(v, q, columns, B, A) ==
  /\ v.op = "compare" /\ v.request = q /\ v.columns = columns
  /\ v.before_rows = Cardinality(DOMAIN B) /\ v.after_rows = Cardinality(DOMAIN A)
  /\ v.counts["added"] = Cardinality(DOMAIN A \ DOMAIN B)
  /\ v.counts["removed"] = Cardinality(DOMAIN B \ DOMAIN A)
  /\ ListsChanges(v.changes, B, A)

\* What the answer of a comparison says.
LEMMA ComparisonIs ==
  ASSUME NEW q, NEW columns, NEW B, NEW A, NEW change, TellsChanges(change, B, A),
         NEW v, v = ComparisonAnswer(q, columns, B, A, change)
  PROVE  ComparesAs(v, q, columns, B, A)
<1>1. /\ v.op = "compare" /\ v.request = q /\ v.columns = columns
      /\ v.before_rows = Cardinality(DOMAIN B) /\ v.after_rows = Cardinality(DOMAIN A)
  BY DEF ComparisonAnswer
<1>2. DOMAIN change = DOMAIN B \cup DOMAIN A /\ \A k \in DOMAIN change : change[k] = Change(B, A, k)
  BY DEF TellsChanges
<1>3. /\ v.counts["added"] = Cardinality({k \in DOMAIN change : change[k] = "added"})
      /\ v.counts["removed"] = Cardinality({k \in DOMAIN change : change[k] = "removed"})
  BY DEF ComparisonAnswer
<1>4. {k \in DOMAIN change : change[k] = "added"} = DOMAIN A \ DOMAIN B
  BY <1>2, ChangeIs
<1>5. {k \in DOMAIN change : change[k] = "removed"} = DOMAIN B \ DOMAIN A
  BY <1>2, ChangeIs
<1>6. v.changes = [k \in {l \in DOMAIN change : change[l] # "unchanged"} |->
        [change |-> change[k], changed_columns |-> Differing(B, A, k, columns),
         before |-> IF k \in DOMAIN B THEN <<B[k]>> ELSE <<>>,
         after |-> IF k \in DOMAIN A THEN <<A[k]>> ELSE <<>>]]
  BY DEF ComparisonAnswer
<1>7. DOMAIN v.changes = {k \in DOMAIN B \cup DOMAIN A : Change(B, A, k) # "unchanged"}
  BY <1>2, <1>6
<1>8. \A k \in DOMAIN v.changes :
        /\ v.changes[k]["before"] = IF k \in DOMAIN B THEN <<B[k]>> ELSE <<>>
        /\ v.changes[k]["after"] = IF k \in DOMAIN A THEN <<A[k]>> ELSE <<>>
  <2>1. SUFFICES ASSUME NEW k \in DOMAIN v.changes
                 PROVE  /\ v.changes[k]["before"] = IF k \in DOMAIN B THEN <<B[k]>> ELSE <<>>
                        /\ v.changes[k]["after"] = IF k \in DOMAIN A THEN <<A[k]>> ELSE <<>>
    BY Zenon
  <2> QED
    <3>1. PICK b : b = IF k \in DOMAIN B THEN <<B[k]>> ELSE <<>>
      OBVIOUS
    <3>2. PICK a : a = IF k \in DOMAIN A THEN <<A[k]>> ELSE <<>>
      OBVIOUS
    <3>3. v.changes[k] = [change |-> change[k], changed_columns |-> Differing(B, A, k, columns),
                          before |-> b, after |-> a]
      BY <1>6, <3>1, <3>2
    <3>4. v.changes[k]["before"] = b /\ v.changes[k]["after"] = a
      BY <3>3
    <3> QED
      BY <3>1, <3>2, <3>4
<1>9. ListsChanges(v.changes, B, A)
  BY <1>7, <1>8 DEF ListsChanges
<1> QED
  BY <1>1, <1>3, <1>4, <1>5, <1>9 DEF ComparesAs

\* The rows a comparison lists, of one side.
Touched(changes, f) ==
  {changes[k][f][1].values : k \in {j \in DOMAIN changes : changes[j][f] # <<>>}}

\* Taking away what changed and adding what it became turns the rows of one
\* side into those of the other.
LEMMA ChangesPatch ==
  ASSUME NEW B, NEW A, NEW changes, ListsChanges(changes, B, A),
         \A k, l \in DOMAIN B : B[k].values = B[l].values => k = l
  PROVE  ({B[k].values : k \in DOMAIN B} \ Touched(changes, "before")) \cup Touched(changes, "after")
           = {A[k].values : k \in DOMAIN A}
<1> USE DEF ListsChanges
<1> DEFINE TB == {B[k].values : k \in {l \in DOMAIN B : Change(B, A, l) # "unchanged"}}
           TA == {A[k].values : k \in {l \in DOMAIN A : Change(B, A, l) # "unchanged"}}
<1>1. Touched(changes, "before") = TB
  <2>1. \A k \in DOMAIN changes : changes[k]["before"] # <<>> <=> k \in DOMAIN B
    <3>1. ASSUME NEW k \in DOMAIN changes
          PROVE  changes[k]["before"] # <<>> <=> k \in DOMAIN B
      <4>1. PICK e : e = B[k]
        OBVIOUS
      <4>2. <<e>> # <<>>
        OBVIOUS
      <4>3. changes[k]["before"] = IF k \in DOMAIN B THEN <<e>> ELSE <<>>
        BY <4>1
      <4> QED
        BY <4>2, <4>3
    <3> QED
      BY <3>1
  <2>2. \A k \in DOMAIN changes : k \in DOMAIN B => changes[k]["before"][1] = B[k]
    <3>1. ASSUME NEW k \in DOMAIN changes, k \in DOMAIN B
          PROVE  changes[k]["before"][1] = B[k]
      <4>1. changes[k]["before"] = <<B[k]>>
        BY <3>1
      <4> QED
        BY <4>1
    <3> QED
      BY <3>1
  <2>3. {j \in DOMAIN changes : changes[j]["before"] # <<>>} = {l \in DOMAIN B : Change(B, A, l) # "unchanged"}
    BY <2>1
  <2> QED
    BY <2>2, <2>3 DEF Touched
<1>2. Touched(changes, "after") = TA
  <2>1. \A k \in DOMAIN changes : changes[k]["after"] # <<>> <=> k \in DOMAIN A
    <3>1. ASSUME NEW k \in DOMAIN changes
          PROVE  changes[k]["after"] # <<>> <=> k \in DOMAIN A
      <4>1. PICK e : e = A[k]
        OBVIOUS
      <4>2. <<e>> # <<>>
        OBVIOUS
      <4>3. changes[k]["after"] = IF k \in DOMAIN A THEN <<e>> ELSE <<>>
        BY <4>1
      <4> QED
        BY <4>2, <4>3
    <3> QED
      BY <3>1
  <2>2. \A k \in DOMAIN changes : k \in DOMAIN A => changes[k]["after"][1] = A[k]
    <3>1. ASSUME NEW k \in DOMAIN changes, k \in DOMAIN A
          PROVE  changes[k]["after"][1] = A[k]
      <4>1. changes[k]["after"] = <<A[k]>>
        BY <3>1
      <4> QED
        BY <4>1
    <3> QED
      BY <3>1
  <2>3. {j \in DOMAIN changes : changes[j]["after"] # <<>>} = {l \in DOMAIN A : Change(B, A, l) # "unchanged"}
    BY <2>1
  <2> QED
    BY <2>2, <2>3 DEF Touched
<1>3. \A k \in DOMAIN B \cup DOMAIN A :
        Change(B, A, k) = "unchanged" => k \in DOMAIN B /\ k \in DOMAIN A /\ B[k].values = A[k].values
  BY ChangeIs
<1>4. ASSUME NEW x \in ({B[k].values : k \in DOMAIN B} \ TB) \cup TA
      PROVE  x \in {A[k].values : k \in DOMAIN A}
  <2>1. CASE x \in TA
    BY <2>1
  <2>2. CASE x \in {B[k].values : k \in DOMAIN B} \ TB
    <3>1. PICK k \in DOMAIN B : x = B[k].values
      BY <2>2
    <3>2. Change(B, A, k) = "unchanged"
      BY <2>2, <3>1
    <3> QED
      BY <1>3, <3>1, <3>2
  <2> QED
    BY <1>4, <2>1, <2>2
<1>5. ASSUME NEW k \in DOMAIN A
      PROVE  A[k].values \in ({B[l].values : l \in DOMAIN B} \ TB) \cup TA
  <2>1. CASE Change(B, A, k) # "unchanged"
    BY <2>1
  <2>2. CASE Change(B, A, k) = "unchanged"
    <3>1. k \in DOMAIN B /\ B[k].values = A[k].values
      BY <1>3, <2>2
    <3>2. B[k].values \notin TB
      BY <2>2, <3>1
    <3> QED
      BY <3>1, <3>2
  <2> QED
    BY <2>1, <2>2
<1> HIDE DEF TA, TB
<1>6. ({B[k].values : k \in DOMAIN B} \ TB) \cup TA = {A[k].values : k \in DOMAIN A}
  BY <1>4, <1>5
<1> QED
  BY <1>1, <1>2, <1>6

\* One side by its keys.
Indexes(I, R, q, columns) ==
  /\ DOMAIN I = {KeyOf(r, q) : r \in R}
  /\ \A r \in R : I[KeyOf(r, q)].values = Cells(r, columns)

\* The rows of one side as the index holds them.
LEMMA IndexedRows ==
  ASSUME NEW R, NEW q, NEW columns, NEW I, Indexes(I, R, q, columns)
  PROVE  {I[k].values : k \in DOMAIN I} = {Cells(r, columns) : r \in R}
  BY DEF Indexes

\* Rows that differ in their keys differ in the columns that hold the keys.
LEMMA IndexedDiffer ==
  ASSUME NEW R, NEW q, NEW columns, ToSet(q.key_columns) \subseteq ToSet(columns),
         NEW I, Indexes(I, R, q, columns)
  PROVE  \A k, l \in DOMAIN I : I[k].values = I[l].values => k = l
<1> SUFFICES ASSUME NEW k \in DOMAIN I, NEW l \in DOMAIN I, I[k].values = I[l].values
             PROVE  k = l
  OBVIOUS
<1>1. PICK x \in R : k = KeyOf(x, q)
  BY DEF Indexes
<1>2. PICK y \in R : l = KeyOf(y, q)
  BY DEF Indexes
<1>3. Cells(x, columns) = Cells(y, columns)
  BY <1>1, <1>2 DEF Indexes
<1>4. Cells(x, q.key_columns) = Cells(y, q.key_columns)
  BY <1>3, ValuesGiveKey
<1> QED
  BY <1>1, <1>2, <1>4 DEF KeyOf

\* Keys gained less keys lost is the difference of the counts.
LEMMA KeysBalance ==
  ASSUME NEW B, NEW A, IsFiniteSet(B), IsFiniteSet(A)
  PROVE  Cardinality(B) + Cardinality(A \ B) - Cardinality(B \ A) = Cardinality(A)
<1>1. IsFiniteSet(A \ B) /\ Cardinality(A \ B) = Cardinality(A) - Cardinality(A \cap B)
  BY FS_Difference
<1>2. IsFiniteSet(B \ A) /\ Cardinality(B \ A) = Cardinality(B) - Cardinality(B \cap A)
  BY FS_Difference
<1>3. A \cap B = B \cap A
  OBVIOUS
<1>4. IsFiniteSet(B \cap A)
  BY FS_Intersection
<1>5. Cardinality(A) \in Nat /\ Cardinality(B) \in Nat /\ Cardinality(B \cap A) \in Nat
  BY <1>4, FS_CardinalityType
<1>6. PICK m, n, k : m = Cardinality(A) /\ n = Cardinality(B) /\ k = Cardinality(B \cap A)
  OBVIOUS
<1>7. Cardinality(A \ B) = m - k /\ Cardinality(B \ A) = n - k
  BY <1>1, <1>2, <1>3, <1>6
<1>8. m \in Nat /\ n \in Nat /\ k \in Nat
  BY <1>5, <1>6
<1>9. n + (m - k) - (n - k) = m
  BY <1>8
<1> QED
  BY <1>6, <1>7, <1>9

\* The two sides of a comparison that was answered.
LEMMA ComparedSides ==
  ASSUME NEW q, NEW db, NEW b, NEW after, NEW a, NEW v, v = comparison_output(q, db, b, after, a),
         v.op # "refused", NEW B, B = comparisonScan(db, comparisonSelection(b, q), q),
         NEW A, A = comparisonScan(after, comparisonSelection(a, q), q)
  PROVE  /\ comparisonScanAccepts(db, b, q.before_sha256, q)
         /\ comparisonScanAccepts(after, a, q.after_sha256, q)
         /\ B.columns = A.columns
         /\ v = ComparisonAnswer(q, B.columns, B.indexed, A.indexed,
                  [k \in DOMAIN B.indexed \cup DOMAIN A.indexed |-> Change(B.indexed, A.indexed, k)])
<1>1. v # Refused
  BY DEF Refused
<1>2. /\ comparisonScanAccepts(db, b, q.before_sha256, q)
      /\ comparisonScanAccepts(after, a, q.after_sha256, q)
      /\ v = CompareSides(q, B, A)
  BY <1>1 DEF comparison_output
<1> QED
  BY <1>1, <1>2 DEF CompareSides

\* The changes, applied to the rows of one side, give those of the other.
Patches(v, R, S) ==
  ({Cells(r, v.columns) : r \in R} \ Touched(v.changes, "before")) \cup Touched(v.changes, "after")
    = {Cells(r, v.columns) : r \in S}

\* A comparison lists the whole difference.
LEMMA CompareIs ==
  ASSUME NEW q, NEW db, IsDatabase(db), NEW after, IsDatabase(after), NEW v,
         v = comparison_output(q, db, inventory(db), after, inventory(after)), v.op # "refused",
         NEW R, R = Object(db, q.table).rows, NEW S, S = Object(after, q.table).rows
  PROVE  /\ v.op = "compare" /\ v.request = q /\ q.before_sha256 = db /\ q.after_sha256 = after
         /\ Patches(v, R, S)
         /\ v.before_rows = Cardinality(R) /\ v.after_rows = Cardinality(S)
         /\ v.before_rows + v.counts["added"] - v.counts["removed"] = v.after_rows
<1>1. PICK b : b = inventory(db)
  OBVIOUS
<1>2. PICK a : a = inventory(after)
  OBVIOUS
<1>3. PICK bs : bs = comparisonSelection(b, q)
  OBVIOUS
<1>4. PICK as : as = comparisonSelection(a, q)
  OBVIOUS
<1>5. PICK B : B = comparisonScan(db, bs, q)
  OBVIOUS
<1>6. PICK A : A = comparisonScan(after, as, q)
  OBVIOUS
<1>7. v = comparison_output(q, db, b, after, a)
  BY <1>1, <1>2
<1>8. /\ comparisonScanAccepts(db, b, q.before_sha256, q)
      /\ comparisonScanAccepts(after, a, q.after_sha256, q)
      /\ B.columns = A.columns
      /\ v = ComparisonAnswer(q, B.columns, B.indexed, A.indexed,
               [k \in DOMAIN B.indexed \cup DOMAIN A.indexed |-> Change(B.indexed, A.indexed, k)])
  <2>1. B = comparisonScan(db, comparisonSelection(b, q), q)
    BY <1>3, <1>5
  <2>2. A = comparisonScan(after, comparisonSelection(a, q), q)
    BY <1>4, <1>6
  <2> QED
    BY <1>7, <2>1, <2>2, ComparedSides
<1>9. /\ q.before_sha256 = db /\ B.columns = bs.columns /\ IsFiniteSet(R)
      /\ DOMAIN B.indexed = {KeyOf(r, q) : r \in R}
      /\ \A r \in R : B.indexed[KeyOf(r, q)].values = Cells(r, bs.columns)
      /\ \A x, y \in R : KeyOf(x, q) = KeyOf(y, q) => x = y
      /\ ToSet(q.key_columns) \subseteq ToSet(bs.columns)
  BY <1>1, <1>3, <1>5, <1>8, ComparisonSide
<1>10. /\ q.after_sha256 = after /\ A.columns = as.columns /\ IsFiniteSet(S)
       /\ DOMAIN A.indexed = {KeyOf(r, q) : r \in S}
       /\ \A r \in S : A.indexed[KeyOf(r, q)].values = Cells(r, as.columns)
       /\ \A x, y \in S : KeyOf(x, q) = KeyOf(y, q) => x = y
  BY <1>2, <1>4, <1>6, <1>8, ComparisonSide
<1>11. PICK I : I = B.indexed
  OBVIOUS
<1>12. PICK J : J = A.indexed
  OBVIOUS
<1>13. PICK columns : columns = B.columns
  OBVIOUS
<1>14. PICK change : change = [k \in DOMAIN I \cup DOMAIN J |-> Change(I, J, k)]
  OBVIOUS
<1>15. v = ComparisonAnswer(q, columns, I, J, change)
  BY <1>8, <1>11, <1>12, <1>13, <1>14
<1>15a. TellsChanges(change, I, J)
  BY <1>14 DEF TellsChanges
<1>16. ComparesAs(v, q, columns, I, J)
  BY <1>15, <1>15a, ComparisonIs
<1>17. /\ v.op = "compare" /\ v.request = q /\ v.columns = columns
       /\ v.before_rows = Cardinality(DOMAIN I) /\ v.after_rows = Cardinality(DOMAIN J)
       /\ v.counts["added"] = Cardinality(DOMAIN J \ DOMAIN I)
       /\ v.counts["removed"] = Cardinality(DOMAIN I \ DOMAIN J)
       /\ ListsChanges(v.changes, I, J)
  BY <1>16, Zenon DEF ComparesAs
<1>18. Indexes(I, R, q, columns) /\ ToSet(q.key_columns) \subseteq ToSet(columns)
  BY <1>9, <1>11, <1>13 DEF Indexes
<1>19. Indexes(J, S, q, columns)
  BY <1>8, <1>10, <1>12, <1>13 DEF Indexes
<1>20. \A k, l \in DOMAIN I : I[k].values = I[l].values => k = l
  BY <1>18, IndexedDiffer
<1>21. {I[k].values : k \in DOMAIN I} = {Cells(r, columns) : r \in R}
  BY <1>18, IndexedRows
<1>22. {J[k].values : k \in DOMAIN J} = {Cells(r, columns) : r \in S}
  BY <1>19 DEF Indexes
<1>23. ({I[k].values : k \in DOMAIN I} \ Touched(v.changes, "before")) \cup Touched(v.changes, "after")
         = {J[k].values : k \in DOMAIN J}
  BY <1>17, <1>20, ChangesPatch
<1>24. IsFiniteSet(DOMAIN I) /\ Cardinality(DOMAIN I) = Cardinality(R)
  BY <1>9, <1>18, KeysCounted DEF Indexes
<1>25. IsFiniteSet(DOMAIN J) /\ Cardinality(DOMAIN J) = Cardinality(S)
  BY <1>10, <1>19, KeysCounted DEF Indexes
<1>26. Cardinality(DOMAIN I) + Cardinality(DOMAIN J \ DOMAIN I) - Cardinality(DOMAIN I \ DOMAIN J)
         = Cardinality(DOMAIN J)
  BY <1>24, <1>25, KeysBalance
<1>27. Patches(v, R, S)
  <2>1. {I[k].values : k \in DOMAIN I} = {Cells(r, v.columns) : r \in R}
    BY <1>17, <1>21
  <2>2. {J[k].values : k \in DOMAIN J} = {Cells(r, v.columns) : r \in S}
    BY <1>17, <1>22
  <2> QED
    BY <1>23, <2>1, <2>2, Zenon DEF Patches
<1>28. v.before_rows = Cardinality(R) /\ v.after_rows = Cardinality(S)
  BY <1>17, <1>24, <1>25
<1>29. v.before_rows + v.counts["added"] - v.counts["removed"] = v.after_rows
  BY <1>17, <1>26
<1> QED
  BY <1>9, <1>10, <1>17, <1>27, <1>28, <1>29

\* Two tables with the same columns are read alike.
LEMMA ColumnsDecide ==
  ASSUME NEW l, NEW r, l.columns = r.columns, l.without_rowid = r.without_rowid
  PROVE  StoredNames(l) = StoredNames(r) /\ LocatorOf(l) = LocatorOf(r)
<1>1. Stored(l) = Stored(r)
  BY DEF Stored
<1>2. StoredNames(l) = StoredNames(r)
  BY <1>1 DEF StoredNames
<1>3. PrimaryKey(l) = PrimaryKey(r)
  BY DEF PrimaryKey
<1>4. ColumnNames(l) = ColumnNames(r)
  BY DEF ColumnNames
<1>5. FreeAliases(l) = FreeAliases(r)
  BY <1>4 DEF FreeAliases
<1>6. LocatorOf(l) = LocatorOf(r)
  BY <1>3, <1>5 DEF LocatorOf
<1> QED
  BY <1>2, <1>6

\* What a schema comparison calls unchanged.
LEMMA UnchangedIs ==
  ASSUME NEW b, NEW a, NEW name, name \in DOMAIN b \cup DOMAIN a, SchemaChange(b, a, name) = "unchanged"
  PROVE  /\ name \in DOMAIN b /\ name \in DOMAIN a
         /\ b[name].kind = a[name].kind /\ b[name].columns = a[name].columns
         /\ b[name].without_rowid = a[name].without_rowid
<1>1. /\ name \in DOMAIN b /\ name \in DOMAIN a /\ ChangedFields(b[name], a[name]) = {}
  BY DEF SchemaChange
<1>2. \A f \in {"kind", "without_rowid", "columns", "foreign_keys"} : b[name][f] = a[name][f]
  BY <1>1 DEF ChangedFields
<1>3. b[name]["kind"] = a[name]["kind"] /\ b[name]["columns"] = a[name]["columns"]
      /\ b[name]["without_rowid"] = a[name]["without_rowid"]
  BY <1>2
<1> QED
  BY <1>1, <1>3

\* A selection is accepted or not.
LEMMA AcceptsIsBoolean ==
  ASSUME NEW recipe, NEW tables
  PROVE  selection_recipeAccepts(recipe, tables) \in BOOLEAN
  BY Zenon DEF selection_recipeAccepts

\* What a selection asks of the table depends on its columns alone.
LEMMA SameAcceptance ==
  ASSUME NEW recipe, NEW b, NEW a, NEW n, n = recipe.table, n \in DOMAIN b, n \in DOMAIN a,
         b[n].row_selection_supported = a[n].row_selection_supported,
         b[n].without_rowid = a[n].without_rowid,
         StoredNames(b[n]) = StoredNames(a[n]), LocatorOf(b[n]) = LocatorOf(a[n]),
         selection_recipeAccepts(recipe, b)
  PROVE  selection_recipeAccepts(recipe, a)
  BY DEF selection_recipeAccepts

\* A table that is called unchanged is read the same way on both sides.
LEMMA UnchangedAlike ==
  ASSUME NEW before, IsDatabase(before), NEW after, IsDatabase(after),
         NEW b, b = inventory(before), NEW a, a = inventory(after),
         NEW name, name \in DOMAIN b \cup DOMAIN a, SchemaChange(b, a, name) = "unchanged"
  PROVE  /\ selection_recipeAccepts(Bare(name), b) = selection_recipeAccepts(Bare(name), a)
         /\ selection_recipe(Bare(name), b) = selection_recipe(Bare(name), a)
<1>1. /\ name \in DOMAIN b /\ name \in DOMAIN a
      /\ b[name].kind = a[name].kind /\ b[name].columns = a[name].columns
      /\ b[name].without_rowid = a[name].without_rowid
  BY UnchangedIs
<1>2. StoredNames(b[name]) = StoredNames(a[name]) /\ LocatorOf(b[name]) = LocatorOf(a[name])
  BY <1>1, ColumnsDecide
<1>3. b[name].row_selection_supported = a[name].row_selection_supported
  <2>1. b[name].row_selection_supported = (b[name].kind = "table")
    BY <1>1, InventoryIs
  <2>2. a[name].row_selection_supported = (a[name].kind = "table")
    BY <1>1, InventoryIs
  <2> QED
    BY <1>1, <2>1, <2>2
<1>4. Bare(name).table = name /\ Bare(name).columns = <<>> /\ Bare(name).where = <<>>
      /\ Bare(name).order_by = <<>>
  BY DEF Bare, Selecting
<1>5. selection_recipeAccepts(Bare(name), b) => selection_recipeAccepts(Bare(name), a)
  BY <1>1, <1>2, <1>3, <1>4, SameAcceptance
<1>6. selection_recipeAccepts(Bare(name), a) => selection_recipeAccepts(Bare(name), b)
  BY <1>1, <1>2, <1>3, <1>4, SameAcceptance
<1>7. selection_recipe(Bare(name), b) = selection_recipe(Bare(name), a)
  BY <1>2, <1>4 DEF selection_recipe
<1>8. /\ selection_recipeAccepts(Bare(name), b) \in BOOLEAN
      /\ selection_recipeAccepts(Bare(name), a) \in BOOLEAN
  BY AcceptsIsBoolean, Zenon
<1>9. selection_recipeAccepts(Bare(name), b) = selection_recipeAccepts(Bare(name), a)
  BY <1>5, <1>6, <1>8
<1> QED
  BY <1>7, <1>9

(***************************************************************************)
(* Answers, and walks over their pages.                                    *)
(***************************************************************************)

\* The operation named in an answer about bands or about two sides.
LEMMA HistogramOp ==
  ASSUME NEW db, NEW tables, NEW q, NEW v, v = distribution(db, tables, q), v.op # "refused"
  PROVE  v.op = "histogram"
<1>1. v # Refused
  BY DEF Refused
<1>2. v = Distributed(db, q, selection_recipe(Selecting(q.table, <<>>, q.where), tables))
  BY <1>1 DEF distribution
<1> QED
  BY <1>1, <1>2 DEF Distributed, BandsAnswer

\* A comparison that is not refused is a comparison.
LEMMA CompareOp ==
  ASSUME NEW db, NEW b, NEW after, NEW a, NEW q, NEW v, v = comparison_output(q, db, b, after, a),
         v.op # "refused"
  PROVE  v.op = "compare"
<1>1. v # Refused
  BY DEF Refused
<1>2. PICK B : B = comparisonScan(db, comparisonSelection(b, q), q)
  OBVIOUS
<1>3. PICK A : A = comparisonScan(after, comparisonSelection(a, q), q)
  OBVIOUS
<1>4. v = CompareSides(q, B, A)
  BY <1>1, <1>2, <1>3 DEF comparison_output
<1> QED
  BY <1>1, <1>4 DEF CompareSides, ComparisonAnswer

\* A schema comparison that is not refused is one.
LEMMA SchemaOp ==
  ASSUME NEW before, NEW b, NEW after, NEW a, NEW old, NEW new, NEW table, NEW v,
         v = schema_comparison_output(old, new, table, before, b, after, a), v.op # "refused"
  PROVE  v.op = "compare-schema"
<1>1. v # Refused
  BY DEF Refused
<1> QED
  BY <1>1 DEF schema_comparison_output

\* An answer is the answer of the operation asked for.
LEMMA MainOp ==
  ASSUME NEW db, IsDatabase(db), NEW after, IsDatabase(after), NEW s, NEW a, IsCommand(a, s),
         NEW v, v = main(db, after, a), v.op # "refused"
  PROVE  v.op = a.op
<1>1. a.op \in Operations
  BY DEF IsCommand
<1>2. PICK tables : tables = inventory(db)
  OBVIOUS
<1>3. PICK w : w = inventory(after)
  OBVIOUS
<1>4. v = Answer(db, tables, after, w, a)
  BY <1>2, <1>3, MainIs
<1>5. CASE a.op = "schema"
  <2>1. v = [op |-> "schema", database_sha256 |-> sha(db), objects |-> tables]
    BY <1>4, <1>5, AnswerIs
  <2> QED
    BY <1>5, <2>1
<1>6. CASE a.op = "rows"
  <2>1. SelectionArguments(a.recipe)
    BY <1>6 DEF IsCommand
  <2> QED
    BY <1>6, <2>1, RowsIs
<1>7. CASE a.op = "related"
  <2>1. SelectionArguments(a.request)
    BY <1>7 DEF IsCommand
  <2> QED
    BY <1>7, <2>1, RelatedIs
<1>8. CASE a.op = "referencing"
  <2>1. SelectionArguments(a.request)
    BY <1>8 DEF IsCommand
  <2> QED
    BY <1>8, <2>1, ReferencingIs
<1>9. CASE a.op = "query"
  <2>1. ToSet(a.statement.columns) # {}
    BY <1>9 DEF IsCommand
  <2>2. v = query_output(db, a.statement, a.database_sha256, a.max_rows)
    BY <1>4, <1>9, AnswerIs
  <2>3. PICK st, fp, m : st = a.statement /\ fp = a.database_sha256 /\ m = a.max_rows
    OBVIOUS
  <2>4. v = query_output(db, st, fp, m) /\ ToSet(st.columns) # {}
    BY <2>1, <2>2, <2>3
  <2>5. v.op = "query"
    BY <2>4, QueryIs
  <2> QED
    BY <1>9, <2>5
<1>10. CASE a.op = "summarize"
  <2>1. v = summarize(db, tables, a.request)
    BY <1>4, <1>10, AnswerIs
  <2> QED
    BY <1>2, <1>10, <2>1, SummarizeIs
<1>11. CASE a.op = "group-rows"
  <2>1. v = group_rows(db, tables, a.request, a.key, a.offset, a.limit)
    BY <1>4, <1>11, AnswerIs
  <2>2. v # Refused
    BY DEF Refused
  <2>3. PICK sel : sel = MembersOf(a.request, tables)
    OBVIOUS
  <2>4. PICK F : F = Filtered(db, sel)
    OBVIOUS
  <2>5. PICK of : of = OfGroup(InOrder(F, sel), a.request, a.key)
    OBVIOUS
  <2>6. v = GroupAnswer(db, a.request, a.key, of, Cardinality(F), GroupPage(of, sel, a.offset, a.limit))
    BY <1>2, <2>1, <2>2, <2>3, <2>4, <2>5, GroupRowsIs
  <2> QED
    BY <1>11, <2>6, GroupAnswerIs
<1>12. CASE a.op = "crosstab"
  <2>1. v = crosstab(db, tables, a.request)
    BY <1>4, <1>12, AnswerIs
  <2> QED
    BY <1>2, <1>12, <2>1, CrosstabIs
<1>13. CASE a.op = "histogram"
  <2>1. v = distribution(db, tables, a.request)
    BY <1>4, <1>13, AnswerIs
  <2>2. PICK q : q = a.request
    OBVIOUS
  <2>3. v = distribution(db, tables, q)
    BY <2>1, <2>2
  <2>4. v.op = "histogram"
    BY <2>3, HistogramOp
  <2> QED
    BY <1>13, <2>4
<1>14. CASE a.op = "compare"
  <2>1. v = comparison_output(a.request, db, tables, after, w)
    BY <1>4, <1>14, AnswerIs
  <2>2. PICK q : q = a.request
    OBVIOUS
  <2>3. v = comparison_output(q, db, inventory(db), after, inventory(after))
    BY <1>2, <1>3, <2>1, <2>2
  <2>4. v.op = "compare"
    BY <2>3, CompareOp
  <2> QED
    BY <1>14, <2>4
<1>15. CASE a.op = "compare-schema"
  <2>1. v = schema_comparison_output(a.before_sha256, a.after_sha256, a.table, db, tables, after, w)
    BY <1>4, <1>15, AnswerIs
  <2>2. PICK old, new, table : old = a.before_sha256 /\ new = a.after_sha256 /\ table = a.table
    OBVIOUS
  <2>3. v = schema_comparison_output(old, new, table, db, tables, after, w)
    BY <2>1, <2>2
  <2>4. v.op = "compare-schema"
    BY <2>3, SchemaOp
  <2> QED
    BY <1>15, <2>4
<1> QED
  BY <1>1, <1>5, <1>6, <1>7, <1>8, <1>9, <1>10, <1>11, <1>12, <1>13, <1>14, <1>15 DEF Operations, Paged, Scans

\* A command was answered from one database.
AnswerOf(v, db, s, a) ==
  /\ IsCommand(a, s) /\ IsDatabase(db) /\ IsDatabase(s["after"])
  /\ v = main(db, s["after"], a) /\ v.op # "refused"

\* The request of a command that is answered page by page, the selection it
\* makes and its whole result.
RequestOf(a) == IF a.op = "rows" THEN a.recipe ELSE a.request
RelationFor(tables, a) ==
  IF a.op = "related" THEN RelationOf(tables, a.request.table, a.request.foreign_key)
  ELSE RelationOf(tables, a.request.child_table, a.request.foreign_key)
SelectionFor(tables, a) ==
  IF a.op = "rows" THEN selection_recipe(a.recipe, tables)
  ELSE IF a.op = "group-rows" THEN MembersOf(a.request, tables)
  ELSE IF a.op = "related" THEN selection_recipe(Recipe(RelationFor(tables, a).parent, a.request), tables)
  ELSE selection_recipe(Recipe(a.request.child_table, a.request), tables)
ResultOf(db, tables, a, sel) ==
  IF a.op = "rows" THEN InOrder(Filtered(db, sel), sel)
  ELSE IF a.op = "group-rows" THEN OfGroup(InOrder(Filtered(db, sel), sel), a.request, a.key)
  ELSE IF a.op = "related"
       THEN InOrder(ParentsOf(db, tables, RelationFor(tables, a), Anchor(db, tables, a.request)), sel)
       ELSE InOrder(ChildrenOf(db, tables, RelationFor(tables, a), Anchor(db, tables, a.request), sel), sel)

\* A page of the ordered rows, with their number as the length of the whole.
LEMMA OrderedPage ==
  ASSUME NEW page, NEW db, NEW rows, NEW recipe, NEW sel, NEW offset, NEW limit,
         IsPageOf(page, db, rows, recipe, sel, offset, limit), NEW w, w = InOrder(rows, sel)
  PROVE  PageShows(page, w, Len(w), sel, offset, limit) /\ Len(w) \in Nat /\ IsSequence(w)
<1>1. /\ PageShows(page, w, Cardinality(rows), sel, offset, limit) /\ IsFiniteSet(rows)
  BY DEF IsPageOf
<1>2. Len(w) = Cardinality(rows) /\ Cardinality(rows) \in Nat
  BY <1>1, InOrderLen
<1>3. w = [i \in 1 .. Cardinality(rows) |-> w[i]]
  BY InOrderIs
<1>4. IsSequence(w)
  BY <1>2, <1>3, SegmentSequence
<1> QED
  BY <1>1, <1>2, <1>4

\* What a page of an answer shows.
LEMMA PagedIs ==
  ASSUME NEW v, NEW db, NEW s, NEW a, AnswerOf(v, db, s, a), a.op \in Paged,
         NEW tables, tables = inventory(db), NEW sel, sel = SelectionFor(tables, a),
         NEW w, w = ResultOf(db, tables, a, sel)
  PROVE  /\ v.op = a.op /\ v.database_sha256 = db /\ v.request = RequestOf(a)
         /\ a.op # "rows" => a.request.database_sha256 = db
         /\ a.op = "rows" => a.expected \in {<<>>, <<db>>}
         /\ a.offset \in 0 .. MaxOffset /\ a.limit \in 1 .. MaxLimit
         /\ PageShows(v.page, w, Len(w), sel, a.offset, a.limit)
         /\ Len(w) \in Nat
<1>1. PICK after : after = s["after"]
  OBVIOUS
<1>2. v = main(db, after, a) /\ v.op # "refused" /\ IsDatabase(db)
  BY <1>1 DEF AnswerOf
<1>3. a.offset \in 0 .. MaxOffset /\ a.limit \in 1 .. MaxLimit
  BY <1>2, MainIs
<1>4. a.op = "rows" => a.expected \in {<<>>, <<db>>}
  BY <1>2, MainIs
<1>5. CASE a.op = "rows"
  <2>1. SelectionArguments(a.recipe)
    BY <1>5 DEF AnswerOf, IsCommand
  <2>2. sel = selection_recipe(a.recipe, tables)
    BY <1>5 DEF SelectionFor
  <2>3. w = InOrder(Filtered(db, sel), sel)
    BY <1>5 DEF ResultOf
  <2>4. /\ v.op = "rows" /\ v.database_sha256 = db /\ v.request = a.recipe
        /\ IsPageOf(v.page, db, Filtered(db, sel), a.recipe, sel, a.offset, a.limit)
    BY <1>2, <1>5, <2>1, <2>2, RowsIs
  <2>5. PageShows(v.page, w, Len(w), sel, a.offset, a.limit) /\ Len(w) \in Nat
    BY <2>3, <2>4, OrderedPage
  <2> QED
    BY <1>3, <1>4, <1>5, <2>4, <2>5 DEF RequestOf
<1>6. CASE a.op = "related"
  <2>1. SelectionArguments(a.request)
    BY <1>6 DEF AnswerOf, IsCommand
  <2>2. PICK q : q = a.request
    OBVIOUS
  <2>3. PICK rel : rel = RelationOf(tables, q.table, q.foreign_key)
    OBVIOUS
  <2>4. PICK c : c = Anchor(db, tables, q)
    OBVIOUS
  <2>5. PICK found : found = ParentsOf(db, tables, rel, c)
    OBVIOUS
  <2>6. RelationFor(tables, a) = rel
    BY <1>6, <2>2, <2>3 DEF RelationFor
  <2>7. sel = selection_recipe(Recipe(rel.parent, q), tables)
    BY <1>6, <2>2, <2>6 DEF SelectionFor
  <2>8. w = InOrder(found, sel)
    BY <1>6, <2>2, <2>4, <2>5, <2>6 DEF ResultOf
  <2>9. /\ v.op = "related" /\ v.database_sha256 = db /\ v.request = q /\ q.database_sha256 = db
    BY <1>2, <1>6, <2>1, <2>2, <2>3, <2>4, <2>5, <2>7, RelatedIs
  <2>10. IsPageOf(v.page, db, found, Recipe(rel.parent, q), sel, a.offset, a.limit)
    BY <1>2, <1>6, <2>1, <2>2, <2>3, <2>4, <2>5, <2>7, RelatedIs
  <2>11. PageShows(v.page, w, Len(w), sel, a.offset, a.limit) /\ Len(w) \in Nat
    BY <2>8, <2>10, OrderedPage
  <2> QED
    BY <1>3, <1>4, <1>6, <2>2, <2>9, <2>11 DEF RequestOf
<1>7. CASE a.op = "referencing"
  <2>1. SelectionArguments(a.request)
    BY <1>7 DEF AnswerOf, IsCommand
  <2>2. PICK q : q = a.request
    OBVIOUS
  <2>3. PICK rel : rel = RelationOf(tables, q.child_table, q.foreign_key)
    OBVIOUS
  <2>4. PICK p : p = Anchor(db, tables, q)
    OBVIOUS
  <2>5. PICK found : found = ChildrenOf(db, tables, rel, p, sel)
    OBVIOUS
  <2>6. RelationFor(tables, a) = rel
    BY <1>7, <2>2, <2>3 DEF RelationFor
  <2>7. sel = selection_recipe(Recipe(q.child_table, q), tables)
    BY <1>7, <2>2 DEF SelectionFor
  <2>8. w = InOrder(found, sel)
    BY <1>7, <2>2, <2>4, <2>5, <2>6 DEF ResultOf
  <2>9. /\ v.op = "referencing" /\ v.database_sha256 = db /\ v.request = q /\ q.database_sha256 = db
    BY <1>2, <1>7, <2>1, <2>2, <2>3, <2>4, <2>5, <2>7, ReferencingIs
  <2>10. IsPageOf(v.page, db, found, Recipe(q.child_table, q), sel, a.offset, a.limit)
    BY <1>2, <1>7, <2>1, <2>2, <2>3, <2>4, <2>5, <2>7, ReferencingIs
  <2>11. PageShows(v.page, w, Len(w), sel, a.offset, a.limit) /\ Len(w) \in Nat
    BY <2>8, <2>10, OrderedPage
  <2> QED
    BY <1>3, <1>4, <1>7, <2>2, <2>9, <2>11 DEF RequestOf
<1>8. CASE a.op = "group-rows"
  <2>1. v = group_rows(db, tables, a.request, a.key, a.offset, a.limit)
    BY <1>2, <1>8, MainIs, AnswerIs
  <2>2. PICK q, key, offset, limit : q = a.request /\ key = a.key /\ offset = a.offset /\ limit = a.limit
    OBVIOUS
  <2>3. v = group_rows(db, tables, q, key, offset, limit)
    BY <2>1, <2>2
  <2>4. sel = MembersOf(q, tables)
    BY <1>8, <2>2 DEF SelectionFor
  <2>5. PICK F : F = Filtered(db, sel)
    OBVIOUS
  <2>6. w = OfGroup(InOrder(F, sel), q, key)
    BY <1>8, <2>2, <2>5 DEF ResultOf
  <2>7. v # Refused
    BY <1>2 DEF Refused
  <2>8. v = GroupAnswer(db, q, key, w, Cardinality(F), GroupPage(w, sel, offset, limit))
    BY <1>2, <2>3, <2>4, <2>5, <2>6, <2>7, GroupRowsIs
  <2>9. summary_recipeAccepts(q, db, tables)
    BY <1>2, <2>3, <2>4, <2>5, <2>6, <2>7, GroupRowsIs
  <2>10. q.database_sha256 = db
    BY <2>9, SummaryAccepted
  <2>11. /\ v.op = "group-rows" /\ v.database_sha256 = db /\ v.request = q
         /\ v.page = GroupPage(w, sel, offset, limit)
    BY <2>8, GroupAnswerIs
  <2>12. IsSequence(InOrder(F, sel))
    <3>1. /\ sel.table = q.table /\ sel.order_by = <<>> /\ sel.locator = LocatorOf(tables[q.table])
      BY <2>4, MembersSelection
    <3> QED
      BY <1>2, <2>5, <2>9, <3>1, SummaryScan
  <2>13. IsSequence(w)
    BY <2>6, <2>12, OfGroupIs
  <2>14. Len(w) \in Nat
    BY <2>13, SequenceIs
  <2>15. offset \in Nat /\ limit \in Nat \ {0}
    BY <1>3, <2>2, ReaderAssumption
  <2>16. PageShows(v.page, w, Len(w), sel, offset, limit)
    BY <2>11, <2>13, <2>15, GroupPageIs
  <2> QED
    BY <1>3, <1>4, <1>8, <2>2, <2>10, <2>11, <2>14, <2>16 DEF RequestOf
<1> QED
  BY <1>5, <1>6, <1>7, <1>8 DEF Paged

\* The pages seen so far are the part of the whole result that ends with the
\* page on the screen.
Follows(sn, w, sel, v, a) ==
  /\ sn.start \in Nat /\ IsSequence(sn.rows)
  /\ \A i \in DOMAIN sn.rows : sn.start + i <= Len(w) /\ sn.rows[i] = RowCells(w[sn.start + i], sel)
  /\ sn.start + Len(sn.rows) = a.offset + Len(v.page.rows)
WalkOf(sn, v, db, a) ==
  Follows(sn, ResultOf(db, inventory(db), a, SelectionFor(inventory(db), a)),
          SelectionFor(inventory(db), a), v, a)

\* The first page of a walk.
LEMMA FreshWalk ==
  ASSUME NEW v, NEW db, NEW s, NEW a, AnswerOf(v, db, s, a), a.op \in Paged,
         NEW sn, sn = [start |-> a.offset, rows |-> v.page.rows]
  PROVE  WalkOf(sn, v, db, a)
<1>1. PICK tables : tables = inventory(db)
  OBVIOUS
<1>2. PICK sel : sel = SelectionFor(tables, a)
  OBVIOUS
<1>3. PICK w : w = ResultOf(db, tables, a, sel)
  OBVIOUS
<1>4. a.offset \in 0 .. MaxOffset /\ PageShows(v.page, w, Len(w), sel, a.offset, a.limit) /\ Len(w) \in Nat
  BY <1>1, <1>2, <1>3, PagedIs
<1>5. sn.start = a.offset /\ sn.rows = v.page.rows
  OBVIOUS
<1>6. a.offset \in Nat
  BY <1>4, ReaderAssumption
<1>7. /\ Len(v.page.rows) \in Nat /\ DOMAIN v.page.rows = 1 .. Len(v.page.rows) /\ IsSequence(v.page.rows)
      /\ \A i \in 1 .. Len(v.page.rows) :
           a.offset + i \in 1 .. Len(w) /\ v.page.rows[i] = RowCells(w[a.offset + i], sel)
  BY <1>4 DEF PageShows
<1>8. \A i \in DOMAIN sn.rows : sn.start + i <= Len(w) /\ sn.rows[i] = RowCells(w[sn.start + i], sel)
  BY <1>4, <1>5, <1>6, <1>7
<1>9. sn.start + Len(sn.rows) = a.offset + Len(v.page.rows)
  BY <1>5
<1>10. Follows(sn, w, sel, v, a)
  BY <1>5, <1>6, <1>7, <1>8, <1>9 DEF Follows
<1> QED
  BY <1>1, <1>2, <1>3, <1>10 DEF WalkOf

\* Two commands ask for the same result.
AsksTheSame(b, a) ==
  /\ b.op = a.op /\ b.side = a.side
  /\ a.op = "rows" => b.recipe = a.recipe /\ b.expected = a.expected
  /\ a.op # "rows" => b.request = a.request
  /\ a.op = "group-rows" => b.key = a.key

TurnsTo(b, a, n) == AsksTheSame(b, a) /\ b.offset = n /\ b.limit = a.limit

\* A command that asks for another page of the same result.
LEMMA AnotherPage ==
  ASSUME NEW a, NEW s, IsCommand(a, s), a.op \in Paged, NEW n, NEW b, b = [a EXCEPT !.offset = n]
  PROVE  IsCommand(b, s) /\ TurnsTo(b, a, n)
<1>1. /\ DOMAIN a = Arguments(a.op) /\ a.op \in Operations /\ a.side \in {"before", "after"}
      /\ a.op = "rows" => SelectionArguments(a.recipe) /\ a.expected \in {<<>>, <<sha(s[a.side])>>}
      /\ a.op \in {"related", "referencing"} => SelectionArguments(a.request)
      /\ a.op \in Scans \cup (Paged \ {"rows"}) => a.request.database_sha256 = sha(s[a.side])
      /\ a.op \in Scans \cup {"group-rows"} => IsSequence(a.request.where)
      /\ a.op \in {"summarize", "group-rows"} => IsSequence(a.request.group_by) /\ IsSequence(a.request.measures)
  BY DEF IsCommand
<1>2. a.op \in {"rows", "related", "referencing", "group-rows"}
  BY DEF Paged
<1>3. {"op", "side", "offset", "limit"} \subseteq DOMAIN a
  BY <1>1, <1>2 DEF Arguments, Scans
<1>4. a.op = "rows" => {"recipe", "expected"} \subseteq DOMAIN a
  BY <1>1 DEF Arguments, Scans
<1>5. a.op # "rows" => "request" \in DOMAIN a
  BY <1>1, <1>2 DEF Arguments, Scans
<1>6. a.op = "group-rows" => "key" \in DOMAIN a
  BY <1>1 DEF Arguments, Scans
<1>7. DOMAIN b = DOMAIN a /\ \A f \in DOMAIN a : f # "offset" => b[f] = a[f]
  OBVIOUS
<1>8. b.offset = n
  BY <1>3
<1>9. b.op = a.op /\ b.side = a.side /\ b.limit = a.limit
  BY <1>3, <1>7
<1>10. a.op = "rows" => b.recipe = a.recipe /\ b.expected = a.expected
  BY <1>4, <1>7
<1>11. a.op # "rows" => b.request = a.request
  BY <1>5, <1>7
<1>12. a.op = "group-rows" => b.key = a.key
  BY <1>6, <1>7
<1>13. IsCommand(b, s)
  <2>1. /\ b.op \in Operations /\ DOMAIN b = Arguments(b.op) /\ b.side \in {"before", "after"}
    BY <1>1, <1>7, <1>9
  <2>2. b.op = "rows" => SelectionArguments(b.recipe) /\ b.expected \in {<<>>, <<sha(s[b.side])>>}
    BY <1>1, <1>9, <1>10
  <2>3. b.op \in {"related", "referencing"} => SelectionArguments(b.request)
    BY <1>1, <1>9, <1>11
  <2>4. b.op \in Scans \cup (Paged \ {"rows"}) => b.request.database_sha256 = sha(s[b.side])
    BY <1>1, <1>2, <1>9, <1>11 DEF Scans
  <2>5. b.op \in Scans \cup {"group-rows"} => IsSequence(b.request.where)
    BY <1>1, <1>2, <1>9, <1>11 DEF Scans
  <2>6. b.op \in {"summarize", "group-rows"} => IsSequence(b.request.group_by) /\ IsSequence(b.request.measures)
    BY <1>1, <1>2, <1>9, <1>11
  <2>7. b.op \notin {"histogram", "query", "compare", "compare-schema"}
    BY <1>2, <1>9
  <2> QED
    BY <2>1, <2>2, <2>3, <2>4, <2>5, <2>6, <2>7 DEF IsCommand
<1> QED
  BY <1>8, <1>9, <1>10, <1>11, <1>12, <1>13 DEF AsksTheSame, TurnsTo

\* It selects the same rows.
LEMMA SameResult ==
  ASSUME NEW a, NEW b, NEW tables, NEW db, NEW sel, a.op \in Paged, AsksTheSame(b, a)
  PROVE  /\ SelectionFor(tables, b) = SelectionFor(tables, a)
         /\ ResultOf(db, tables, b, sel) = ResultOf(db, tables, a, sel)
<1>1. a.op \in {"rows", "related", "referencing", "group-rows"}
  BY DEF Paged
<1>2. a.op \in {"related", "referencing"} => RelationFor(tables, b) = RelationFor(tables, a)
  BY DEF RelationFor, AsksTheSame
<1>3. SelectionFor(tables, b) = SelectionFor(tables, a)
  BY <1>1, <1>2 DEF SelectionFor, AsksTheSame
<1>4. ResultOf(db, tables, b, sel) = ResultOf(db, tables, a, sel)
  BY <1>1, <1>2 DEF ResultOf, AsksTheSame
<1> QED
  BY <1>3, <1>4

\* Two parts that meet.
LEMMA PartsMeet ==
  ASSUME NEW x, NEW y, IsSequence(x), IsSequence(y), NEW z, z = x \o y
  PROVE  /\ IsSequence(z) /\ Len(z) = Len(x) + Len(y) /\ DOMAIN z = 1 .. (Len(x) + Len(y))
         /\ \A i \in 1 .. Len(x) : z[i] = x[i]
         /\ \A i \in 1 .. Len(y) : z[Len(x) + i] = y[i]
<1>1. Len(x) \in Nat /\ Len(y) \in Nat
  BY SequenceIs
<1>2. PICK S : S = ToSet(x) \cup ToSet(y)
  OBVIOUS
<1>3. x \in Seq(S) /\ y \in Seq(S)
  <2>1. ToSet(x) \subseteq S /\ ToSet(y) \subseteq S
    BY <1>2
  <2>2. x \in Seq(ToSet(x)) /\ y \in Seq(ToSet(y))
    BY DEF IsSequence
  <2> QED
    BY <2>1, <2>2
<1>4. z \in Seq(S) /\ Len(z) = Len(x) + Len(y)
      /\ \A i \in 1 .. Len(z) : z[i] = IF i <= Len(x) THEN x[i] ELSE y[i - Len(x)]
  BY <1>3
<1>5. DOMAIN z = 1 .. (Len(x) + Len(y))
  BY <1>4
<1>6. z \in [1 .. Len(z) -> S] /\ Len(z) \in Nat
  BY <1>4, LenProperties
<1>7. z = [i \in 1 .. Len(z) |-> z[i]]
  BY <1>6
<1>8. IsSequence(z)
  BY <1>6, <1>7, SegmentSequence
<1>9. \A i \in 1 .. Len(x) : z[i] = x[i]
  BY <1>1, <1>4
<1>10. \A i \in 1 .. Len(y) : z[Len(x) + i] = y[i]
  BY <1>1, <1>4
<1> QED
  BY <1>4, <1>5, <1>8, <1>9, <1>10

\* The next page of a walk.
LEMMA NextWalk ==
  ASSUME NEW v, NEW db, NEW s, NEW a, AnswerOf(v, db, s, a), a.op \in Paged, v.page.has_more,
         NEW b, TurnsTo(b, a, v.page.next_offset), NEW u, AnswerOf(u, db, s, b),
         NEW sn, WalkOf(sn, v, db, a), NEW sm, sm.start = sn.start, sm.rows = sn.rows \o u.page.rows
  PROVE  WalkOf(sm, u, db, b)
<1>1. PICK tables : tables = inventory(db)
  OBVIOUS
<1>2. PICK sel : sel = SelectionFor(tables, a)
  OBVIOUS
<1>3. PICK w : w = ResultOf(db, tables, a, sel)
  OBVIOUS
<1>4. /\ a.offset \in 0 .. MaxOffset /\ a.limit \in 1 .. MaxLimit
      /\ PageShows(v.page, w, Len(w), sel, a.offset, a.limit) /\ Len(w) \in Nat
  BY <1>1, <1>2, <1>3, PagedIs
<1>6. AsksTheSame(b, a) /\ b.offset = v.page.next_offset /\ b.limit = a.limit
  BY DEF TurnsTo
<1>7. sel = SelectionFor(tables, b) /\ w = ResultOf(db, tables, b, sel)
  <2>1. SelectionFor(tables, b) = SelectionFor(tables, a)
    BY <1>6, SameResult
  <2>2. ResultOf(db, tables, b, sel) = ResultOf(db, tables, a, sel)
    BY <1>6, SameResult
  <2> QED
    BY <1>2, <1>3, <2>1, <2>2
<1>8. b.op \in Paged
  BY <1>6 DEF AsksTheSame
<1>9. PageShows(u.page, w, Len(w), sel, b.offset, b.limit)
  BY <1>1, <1>7, <1>8, PagedIs
<1>10. /\ Len(v.page.rows) = a.limit /\ b.offset = a.offset + a.limit
  BY <1>4, <1>6 DEF PageShows
<1>11. Follows(sn, w, sel, v, a)
  BY <1>1, <1>2, <1>3 DEF WalkOf
<1>12. PICK x : x = sn.rows
  OBVIOUS
<1>13. PICK y : y = u.page.rows
  OBVIOUS
<1>14. PICK z : z = sm.rows
  OBVIOUS
<1>15. PICK f : f = sn.start
  OBVIOUS
<1>16. PICK n : n = Len(w)
  OBVIOUS
<1>17. /\ f \in Nat /\ IsSequence(x) /\ f + Len(x) = b.offset
       /\ \A i \in DOMAIN x : f + i <= n /\ x[i] = RowCells(w[f + i], sel)
  BY <1>10, <1>11, <1>12, <1>15, <1>16 DEF Follows
<1>18. /\ IsSequence(y)
       /\ \A i \in 1 .. Len(y) : b.offset + i \in 1 .. n /\ y[i] = RowCells(w[b.offset + i], sel)
  BY <1>9, <1>13, <1>16 DEF PageShows
<1>19. Len(x) \in Nat /\ Len(y) \in Nat /\ DOMAIN x = 1 .. Len(x)
  BY <1>17, <1>18, SequenceIs
<1>20. z = x \o y
  BY <1>12, <1>13, <1>14
<1>21. /\ IsSequence(z) /\ Len(z) = Len(x) + Len(y) /\ DOMAIN z = 1 .. (Len(x) + Len(y))
       /\ \A i \in 1 .. Len(x) : z[i] = x[i]
       /\ \A i \in 1 .. Len(y) : z[Len(x) + i] = y[i]
  <2>1. IsSequence(x) /\ IsSequence(y)
    BY <1>17, <1>18
  <2> QED
    <3>0. Len(z) = Len(x) + Len(y) /\ DOMAIN z = 1 .. (Len(x) + Len(y))
      BY <1>20, <2>1, PartsMeet
    <3>1. IsSequence(z)
      BY <1>20, <2>1, PartsMeet
    <3>2. \A i \in 1 .. Len(x) : z[i] = x[i]
      BY <1>20, <2>1, PartsMeet
    <3>3. \A i \in 1 .. Len(y) : z[Len(x) + i] = y[i]
      BY <1>20, <2>1, PartsMeet
    <3> QED
      BY <3>0, <3>1, <3>2, <3>3
<1>22. n \in Nat
  BY <1>4, <1>16
<1>23. ASSUME NEW i \in DOMAIN z
       PROVE  f + i <= n /\ z[i] = RowCells(w[f + i], sel)
  <2>1. i \in 1 .. (Len(x) + Len(y))
    BY <1>21
  <2>2. CASE i \in 1 .. Len(x)
    BY <1>17, <1>19, <1>21, <2>2
  <2>3. CASE i \notin 1 .. Len(x)
    <3>1. PICK j : j = i - Len(x)
      OBVIOUS
    <3>2. j \in 1 .. Len(y) /\ i = Len(x) + j
      BY <1>19, <2>1, <2>3, <3>1
    <3>3. z[i] = y[j]
      BY <1>21, <3>2
    <3>4. b.offset + j \in 1 .. n /\ y[j] = RowCells(w[b.offset + j], sel)
      BY <1>18, <3>2
    <3>5. b.offset + j = f + i
      <4>1. j \in Int
        BY <3>2
      <4> QED
        BY <1>17, <1>19, <3>2, <4>1
    <3>6. f + i <= n
      BY <1>22, <3>4, <3>5
    <3> QED
      BY <3>3, <3>4, <3>5, <3>6
  <2> QED
    BY <2>2, <2>3
<1>24. f + Len(z) = b.offset + Len(y)
  BY <1>17, <1>19, <1>21
<1>25. Follows(sm, w, sel, u, b)
  BY <1>13, <1>14, <1>15, <1>16, <1>17, <1>21, <1>23, <1>24, ZenonT(60) DEF Follows
<1> QED
  BY <1>1, <1>7, <1>25 DEF WalkOf

(***************************************************************************)
(* The invariant of a session.                                             *)
(***************************************************************************)

Sides == {"before", "after"}

\* The archives: only the first may be another than the one the reviewer read.
DatabasesOk(c, p) ==
  /\ DOMAIN c = Sides /\ DOMAIN p = Sides /\ c["after"] = p["after"]
  /\ \A s \in Sides : IsDatabase(c[s]) /\ IsDatabase(p[s])

\* The last answer is that of an archive as it was or as it is.
ViewOk(c, p, v, a) ==
  \/ v = Idle /\ a = Idle
  \/ IsCommand(a, p) /\ v.op = "refused"
  \/ \E db \in {c[a.side], p[a.side]} : AnswerOf(v, db, p, a)

\* A walk that is pinned to the fingerprint.
WalkOk(p, v, a, sn) ==
  (a.op \in Paged /\ AnswerOf(v, p[a.side], p, a) /\ (a.op = "rows" => a.expected # <<>>)) =>
    WalkOf(sn, v, p[a.side], a)

\* The row on the screen when a reference is followed, and its locator.
ShowsRow(sh, db, t, a) ==
  \E r \in Object(db, a.request.table).rows :
    /\ sh[1].values = Cells(r, StoredNames(t))
    /\ a.request.locator = Cells(r, LocatorOf(t))
ShownOk(p, v, a, sh) ==
  (a.op \in {"related", "referencing"} /\ AnswerOf(v, p[a.side], p, a)) =>
    ShowsRow(sh, p[a.side], inventory(p[a.side])[a.request.table], a)

SessionOk(c, p, v, a, sn, sh) ==
  /\ DatabasesOk(c, p) /\ ViewOk(c, p, v, a) /\ DOMAIN sn = {"start", "rows"}
  /\ WalkOk(p, v, a, sn) /\ ShownOk(p, v, a, sh)

\* The commands of a reviewer who follows what is on the screen.
LEMMA FollowedCommand ==
  ASSUME NEW s, NEW op \in {"related", "referencing"}, NEW side \in Sides, NEW offset, NEW q,
         q.database_sha256 = sha(s[side]), SelectionArguments(q),
         NEW a, a = [op |-> op, side |-> side, offset |-> offset, limit |-> 1, request |-> q]
  PROVE  IsCommand(a, s) /\ a.op = op /\ a.side = side /\ a.request = q
<1>1. a.op = op /\ a.side = side /\ a.request = q /\ DOMAIN a = {"op", "side", "offset", "limit", "request"}
  OBVIOUS
<1>2. Arguments(op) = {"op", "side", "request", "offset", "limit"}
  BY DEF Arguments, Scans
<1>3. op \in Operations
  BY DEF Operations, Paged
<1>4. DOMAIN a = Arguments(a.op)
  BY <1>1, <1>2
<1>5. a.op \notin {"rows", "group-rows", "summarize", "crosstab", "histogram", "query", "compare", "compare-schema"}
  BY <1>1
<1> HIDE DEF Sides
<1>6. IsCommand(a, s)
  BY <1>1, <1>3, <1>4, <1>5 DEF IsCommand, Scans, Sides
<1> QED
  BY <1>1, <1>6

\* Opening a group of a summary is a command.
LEMMA OpenedCommand ==
  ASSUME NEW s, NEW b, IsCommand(b, s), b.op = "summarize", NEW key,
         NEW a, a = [op |-> "group-rows", side |-> b.side, request |-> b.request, key |-> key,
                     offset |-> 0, limit |-> 1]
  PROVE  IsCommand(a, s) /\ a.op = "group-rows" /\ a.side = b.side
<1>1. a.op = "group-rows" /\ a.side = b.side /\ a.request = b.request
      /\ DOMAIN a = {"op", "side", "request", "key", "offset", "limit"}
  OBVIOUS
<1>2. Arguments("group-rows") = {"op", "side", "request", "key", "offset", "limit"}
  BY DEF Arguments, Scans
<1>3. "group-rows" \in Operations
  BY DEF Operations, Paged
<1>4. DOMAIN a = Arguments(a.op) /\ a.op \in Operations
  BY <1>1, <1>2, <1>3
<1>5. /\ b.side \in {"before", "after"} /\ b.request.database_sha256 = sha(s[b.side])
      /\ IsSequence(b.request.where) /\ IsSequence(b.request.group_by) /\ IsSequence(b.request.measures)
  BY DEF IsCommand, Scans
<1>6. IsCommand(a, s)
  BY <1>1, <1>4, <1>5 DEF IsCommand
<1> QED
  BY <1>1, <1>6

\* Going to the rows of a schema comparison is a command.
LEMMA NavigatedCommand ==
  ASSUME NEW s, NEW side \in Sides, NEW table,
         NEW a, a = [op |-> "rows", side |-> side, recipe |-> Bare(table), expected |-> <<sha(s[side])>>,
                     offset |-> 0, limit |-> 1]
  PROVE  IsCommand(a, s) /\ a.op = "rows" /\ a.side = side
<1>1. a.op = "rows" /\ a.side = side /\ a.recipe = Bare(table) /\ a.expected = <<sha(s[side])>>
      /\ DOMAIN a = {"op", "side", "recipe", "expected", "offset", "limit"}
  OBVIOUS
<1>2. Arguments("rows") = {"op", "side", "recipe", "expected", "offset", "limit"}
  BY DEF Arguments, Scans
<1>3. "rows" \in Operations
  BY DEF Operations, Paged
<1>4. DOMAIN a = Arguments(a.op) /\ a.op \in Operations
  BY <1>1, <1>2, <1>3
<1>5. SelectionArguments(Bare(table))
  <2>1. Bare(table).columns = <<>> /\ Bare(table).where = <<>> /\ Bare(table).order_by = <<>>
    BY DEF Bare, Selecting
  <2> QED
    BY <2>1, EmptySequence DEF SelectionArguments
<1>6. a.expected \in {<<>>, <<sha(s[a.side])>>}
  BY <1>1
<1>7. a.side \in {"before", "after"}
  BY <1>1 DEF Sides
<1>8. a.op = "rows" => SelectionArguments(a.recipe)
  BY <1>1, <1>5
<1>9. a.op \notin Scans \cup {"related", "referencing", "group-rows", "query", "compare", "compare-schema"}
  BY <1>1 DEF Scans
<1>10. a.op \notin Paged \ {"rows"}
  BY <1>1
<1>11. IsCommand(a, s)
  BY <1>4, <1>6, <1>7, <1>8, <1>9, <1>10 DEF IsCommand, Scans
<1> QED
  BY <1>1, <1>11

\* An answer of the archive as it is now.
LEMMA RunAnswers ==
  ASSUME NEW c, NEW p, DatabasesOk(c, p), NEW a, IsCommand(a, p),
         NEW v, v \in {main(c[a.side], c["after"], a), Refused}
  PROVE  v.op = "refused" \/ AnswerOf(v, c[a.side], p, a)
<1>1. a.side \in Sides
  BY DEF IsCommand, Sides
<1>2. IsDatabase(c[a.side]) /\ IsDatabase(p["after"]) /\ c["after"] = p["after"]
  BY <1>1 DEF DatabasesOk, Sides
<1>3. Refused.op = "refused"
  BY DEF Refused
<1>4. CASE v = Refused
  BY <1>3, <1>4
<1>5. CASE v = main(c[a.side], c["after"], a)
  BY <1>2, <1>5 DEF AnswerOf
<1> QED
  BY <1>4, <1>5

\* A new command: a walk begins.
LEMMA FreshOk ==
  ASSUME NEW c, NEW p, DatabasesOk(c, p), NEW a, IsCommand(a, p),
         NEW v, v \in {main(c[a.side], c["after"], a), Refused}, NEW sh, ShownOk(p, v, a, sh),
         NEW sn, sn = [start |-> IF a.op \in Paged THEN a.offset ELSE 0,
                       rows |-> IF v.op \in Paged THEN v.page.rows ELSE <<>>]
  PROVE  SessionOk(c, p, v, a, sn, sh)
<1>1. v.op = "refused" \/ AnswerOf(v, c[a.side], p, a)
  BY RunAnswers
<1>2. ViewOk(c, p, v, a)
  BY <1>1 DEF ViewOk
<1>3. DOMAIN sn = {"start", "rows"}
  OBVIOUS
<1>4. WalkOk(p, v, a, sn)
  <2>1. SUFFICES ASSUME a.op \in Paged, AnswerOf(v, p[a.side], p, a)
                 PROVE  WalkOf(sn, v, p[a.side], a)
    BY DEF WalkOk
  <2>2. v.op = a.op
    BY <2>1, PagedIs
  <2>3. v.op \in Paged
    BY <2>1, <2>2
  <2>4. sn = [start |-> a.offset, rows |-> v.page.rows]
    BY <2>1, <2>3
  <2> QED
    BY <2>1, <2>4, FreshWalk
<1> QED
  BY <1>2, <1>3, <1>4 DEF SessionOk

\* The next page: the walk goes on, on the database it began with.
LEMMA NextOk ==
  ASSUME NEW c, NEW p, NEW v, NEW a, NEW sn, NEW sh, SessionOk(c, p, v, a, sn, sh),
         v.op \in Paged, v.page.has_more, NEW b, IsCommand(b, p), TurnsTo(b, a, v.page.next_offset),
         NEW u, u \in {main(c[b.side], c["after"], b), Refused},
         NEW sm, DOMAIN sm = {"start", "rows"}, sm.start = sn.start,
         u.op \in Paged => sm.rows = sn.rows \o u.page.rows
  PROVE  SessionOk(c, p, u, b, sm, sh)
<1>1. DatabasesOk(c, p) /\ ViewOk(c, p, v, a) /\ DOMAIN sn = {"start", "rows"}
      /\ WalkOk(p, v, a, sn) /\ ShownOk(p, v, a, sh)
  BY DEF SessionOk
<1>2. v.op # "idle" /\ v.op # "refused"
  BY DEF Paged
<1>3. v # Idle
  BY <1>2 DEF Idle
<1>4. PICK db \in {c[a.side], p[a.side]} : AnswerOf(v, db, p, a)
  BY <1>1, <1>2, <1>3 DEF ViewOk
<1>5. IsCommand(a, p) /\ IsDatabase(db) /\ IsDatabase(p["after"]) /\ v = main(db, p["after"], a)
  BY <1>4 DEF AnswerOf
<1>6. v.op = a.op
  BY <1>2, <1>5, MainOp
<1>7. a.op \in Paged
  BY <1>6
<1>11. b.op = a.op /\ b.side = a.side
  BY DEF TurnsTo, AsksTheSame
<1>12. a.op = "rows" => b.recipe = a.recipe /\ b.expected = a.expected
  BY DEF TurnsTo, AsksTheSame
<1>13. a.op # "rows" => b.request = a.request
  BY DEF TurnsTo, AsksTheSame
<1>14. u.op = "refused" \/ AnswerOf(u, c[b.side], p, b)
  BY <1>1, RunAnswers
<1>15. ViewOk(c, p, u, b)
  BY <1>14 DEF ViewOk
<1>17. a.side \in Sides
  BY <1>5 DEF IsCommand, Sides
<1>18. a.op # "rows" => db = p[a.side]
  <2>1. SUFFICES ASSUME a.op # "rows"
                 PROVE  db = p[a.side]
    OBVIOUS
  <2>2. a.request.database_sha256 = db
    BY <1>4, <1>7, <2>1, PagedIs
  <2>3. a.request.database_sha256 = sha(p[a.side])
    BY <1>5, <1>7, <2>1 DEF IsCommand
  <2> QED
    BY <2>2, <2>3 DEF sha
<1>19. a.op = "rows" /\ a.expected # <<>> => db = p[a.side]
  <2>1. SUFFICES ASSUME a.op = "rows", a.expected # <<>>
                 PROVE  db = p[a.side]
    OBVIOUS
  <2>2. a.expected = <<db>>
    BY <1>4, <1>7, <2>1, PagedIs
  <2>3. a.expected = <<sha(p[a.side])>>
    BY <1>5, <2>1 DEF IsCommand
  <2> QED
    BY <2>2, <2>3 DEF sha
<1>20. WalkOk(p, u, b, sm)
  <2>1. SUFFICES ASSUME b.op \in Paged, AnswerOf(u, p[b.side], p, b), b.op = "rows" => b.expected # <<>>
                 PROVE  WalkOf(sm, u, p[b.side], b)
    BY DEF WalkOk
  <2>2. a.op = "rows" => a.expected # <<>>
    BY <1>11, <1>12, <2>1
  <2>3. db = p[a.side] /\ db = p[b.side]
    BY <1>11, <1>18, <1>19, <2>2
  <2>4. WalkOf(sn, v, db, a)
    BY <1>1, <1>4, <1>7, <2>2, <2>3 DEF WalkOk
  <2>5. AnswerOf(u, db, p, b)
    BY <2>1, <2>3
  <2>6. u.op = b.op
    BY <2>1, PagedIs
  <2>7. u.op \in Paged
    BY <2>1, <2>6
  <2>8. sm.start = sn.start /\ sm.rows = sn.rows \o u.page.rows
    BY <2>7
  <2>9. WalkOf(sm, u, db, b)
    BY <1>4, <1>7, <2>4, <2>5, <2>8, NextWalk
  <2> QED
    BY <2>3, <2>9
<1>21. ShownOk(p, u, b, sh)
  <2>1. SUFFICES ASSUME b.op \in {"related", "referencing"}, AnswerOf(u, p[b.side], p, b)
                 PROVE  ShowsRow(sh, p[b.side], inventory(p[b.side])[b.request.table], b)
    BY DEF ShownOk
  <2>2. a.op # "rows" /\ a.op \in {"related", "referencing"}
    BY <1>11, <2>1
  <2>3. AnswerOf(v, p[a.side], p, a)
    BY <1>4, <1>18, <2>2
  <2>4. ShowsRow(sh, p[a.side], inventory(p[a.side])[a.request.table], a)
    BY <1>1, <2>2, <2>3 DEF ShownOk
  <2>5. b.request = a.request /\ b.side = a.side
    BY <1>11, <1>13, <2>2
  <2> QED
    BY <2>4, <2>5 DEF ShowsRow
<1> QED
  BY <1>1, <1>15, <1>20, <1>21 DEF SessionOk

\* Another archive takes the place of the first.
LEMMA ReplaceOk ==
  ASSUME NEW c, NEW p, NEW v, NEW a, NEW sn, NEW sh, SessionOk(c, p, v, a, sn, sh), c = p,
         NEW db, IsDatabase(db), NEW d, d = [c EXCEPT !["before"] = db]
  PROVE  SessionOk(d, p, v, a, sn, sh)
<1>1. DatabasesOk(c, p) /\ ViewOk(c, p, v, a) /\ DOMAIN sn = {"start", "rows"}
      /\ WalkOk(p, v, a, sn) /\ ShownOk(p, v, a, sh)
  BY DEF SessionOk
<1>2. DatabasesOk(d, p)
  <2>1. DOMAIN c = Sides /\ DOMAIN p = Sides /\ \A s \in Sides : IsDatabase(c[s]) /\ IsDatabase(p[s])
    BY <1>1 DEF DatabasesOk
  <2>2. "before" \in Sides /\ "after" \in Sides /\ \A s \in Sides : s = "before" \/ s = "after"
    BY DEF Sides
  <2>3. DOMAIN d = Sides /\ d["before"] = db /\ d["after"] = c["after"]
    BY <2>1, <2>2
  <2>4. \A s \in Sides : IsDatabase(d[s])
    BY <2>1, <2>2, <2>3
  <2> QED
    BY <2>1, <2>3, <2>4 DEF DatabasesOk
<1>3. ViewOk(d, p, v, a)
  <2>1. c[a.side] = p[a.side]
    OBVIOUS
  <2>2. \A x \in {c[a.side], p[a.side]} : x \in {d[a.side], p[a.side]}
    BY <2>1
  <2> QED
    BY <1>1, <2>2 DEF ViewOk
<1> QED
  BY <1>1, <1>2, <1>3 DEF SessionOk

\* A row of a page of all columns, by its locator.
LEMMA RowShown ==
  ASSUME NEW v, NEW db, NEW s, NEW a, AnswerOf(v, db, s, a), a.op = "rows", a.recipe.columns = <<>>,
         NEW i \in DOMAIN v.page.rows, NEW table, table = a.recipe.table,
         NEW t, t = inventory(db)[table]
  PROVE  \E r \in Object(db, table).rows :
           v.page.rows[i].values = Cells(r, StoredNames(t)) /\ v.page.rows[i].locator = Cells(r, LocatorOf(t))
<1>1. PICK after : after = s["after"]
  OBVIOUS
<1>2. v = main(db, after, a) /\ v.op # "refused" /\ IsDatabase(db) /\ SelectionArguments(a.recipe)
  BY <1>1 DEF AnswerOf, IsCommand
<1>3. PICK recipe : recipe = a.recipe
  OBVIOUS
<1>4. PICK sel : sel = selection_recipe(recipe, inventory(db))
  OBVIOUS
<1>5. PICK F : F = Filtered(db, sel)
  OBVIOUS
<1>6. IsPageOf(v.page, db, F, recipe, sel, a.offset, a.limit)
  BY <1>2, <1>3, <1>4, <1>5, RowsIs
<1>7. /\ F \subseteq Object(db, recipe.table).rows /\ IsOrdered(F, sel)
      /\ PageShows(v.page, InOrder(F, sel), Cardinality(F), sel, a.offset, a.limit)
  BY <1>6 DEF IsPageOf
<1>8. /\ a.offset + i \in 1 .. Cardinality(F)
      /\ v.page.rows[i] = RowCells(InOrder(F, sel)[a.offset + i], sel)
  BY <1>7 DEF PageShows
<1>9. PICK r : r = InOrder(F, sel)[a.offset + i]
  OBVIOUS
<1>10. r \in F
  <2>1. InOrder(F, sel) \in [1 .. Cardinality(F) -> F]
    BY <1>7, InOrderLists
  <2> QED
    BY <1>8, <1>9, <2>1
<1>11. sel.locator = LocatorOf(t) /\ sel.columns = StoredNames(t)
  BY <1>3, <1>4, SelectionIs
<1>12. v.page.rows[i] = RowCells(r, sel)
  BY <1>8, <1>9
<1>13. v.page.rows[i].values = Cells(r, StoredNames(t)) /\ v.page.rows[i].locator = Cells(r, LocatorOf(t))
  BY <1>11, <1>12 DEF RowCells
<1> QED
  BY <1>3, <1>7, <1>10, <1>13

\* The invariant of a session.
SessionInv == SessionOk(copies, pinned, view, args, seen, shown)

\* An answer on the screen is that of the operation asked for.
LEMMA ScreenIs ==
  ASSUME NEW c, NEW p, NEW v, NEW a, NEW sn, NEW sh, SessionOk(c, p, v, a, sn, sh),
         v.op \notin {"idle", "refused"}
  PROVE  /\ IsCommand(a, p) /\ v.op = a.op /\ a.side \in Sides /\ DatabasesOk(c, p)
         /\ \E db \in {c[a.side], p[a.side]} : AnswerOf(v, db, p, a)
<1>1. DatabasesOk(c, p) /\ ViewOk(c, p, v, a)
  BY DEF SessionOk
<1>2. v # Idle
  BY DEF Idle
<1>3. PICK db \in {c[a.side], p[a.side]} : AnswerOf(v, db, p, a)
  BY <1>1, <1>2 DEF ViewOk
<1>4. IsCommand(a, p) /\ IsDatabase(db) /\ IsDatabase(p["after"]) /\ v = main(db, p["after"], a)
  BY <1>3 DEF AnswerOf
<1>5. v.op = a.op
  BY <1>4, MainOp
<1>6. a.side \in Sides
  BY <1>4 DEF IsCommand, Sides
<1> QED
  BY <1>1, <1>3, <1>4, <1>5, <1>6

\* Nothing is shown of a command that follows no row.
LEMMA NothingShown ==
  ASSUME NEW p, NEW v, NEW a, NEW sh, a.op \notin {"related", "referencing"}
  PROVE  ShownOk(p, v, a, sh)
  BY DEF ShownOk

\* The walk that a new command begins.
LEMMA NewWalkIs ==
  NewWalk = [start |-> IF args'.op \in Paged THEN args'.offset ELSE 0,
             rows |-> IF view'.op \in Paged THEN view'.page.rows ELSE <<>>]
  BY DEF NewWalk, NewRows

\* A new command keeps the invariant.
LEMMA RunStep ==
  ASSUME DatabasesOk(copies, pinned), NEW a, IsCommand(a, pinned), Run(a), seen' = NewWalk,
         ShownOk(pinned, view', a, shown')
  PROVE  SessionInv'
<1>1. view' \in {main(copies[a.side], copies["after"], a), Refused} /\ args' = a
      /\ copies' = copies /\ pinned' = pinned
  BY DEF Run
<1>2. PICK c, p, v, sn, sh : c = copies /\ p = pinned /\ v = view' /\ sn = seen' /\ sh = shown'
  OBVIOUS
<1>3. sn = [start |-> IF a.op \in Paged THEN a.offset ELSE 0,
            rows |-> IF v.op \in Paged THEN v.page.rows ELSE <<>>]
  BY <1>1, <1>2, NewWalkIs
<1>4. v \in {main(c[a.side], c["after"], a), Refused} /\ DatabasesOk(c, p) /\ IsCommand(a, p) /\ ShownOk(p, v, a, sh)
  BY <1>1, <1>2
<1>5. SessionOk(c, p, v, a, sn, sh)
  BY <1>3, <1>4, FreshOk
<1> QED
  BY <1>1, <1>2, <1>5 DEF SessionInv

\* A new command keeps the invariant.
LEMMA CommandStep ==
  ASSUME SessionInv, pinned \in Sessions, NEW op, op \in {"schema", "rows", "query", "summarize", "crosstab",
         "histogram", "compare", "compare-schema"}, Command(op)
  PROVE  SessionInv'
<1>1. PICK a \in Requests(pinned) : a.op = op /\ Run(a)
  BY DEF Command
<1>2. seen' = NewWalk
  BY DEF Command
<1>3. IsCommand(a, pinned)
  BY SessionAssumption
<1>4. DatabasesOk(copies, pinned)
  BY DEF SessionInv, SessionOk
<1>5. a.op \notin {"related", "referencing"}
  BY <1>1
<1>6. ShownOk(pinned, view', a, shown')
  BY <1>5, NothingShown
<1> QED
  BY <1>1, <1>2, <1>3, <1>4, <1>6, RunStep

\* So does the next page, whichever archive it is read from.
LEMMA NextPageStep ==
  ASSUME SessionInv, NextPage
  PROVE  SessionInv'
<1>1. PICK c, p, v, a, sn, sh :
        c = copies /\ p = pinned /\ v = view /\ a = args /\ sn = seen /\ sh = shown
  OBVIOUS
<1>2. SessionOk(c, p, v, a, sn, sh)
  BY <1>1 DEF SessionInv
<1>3. v.op \in Paged /\ v.page.has_more
  BY <1>1 DEF NextPage
<1>4. v.op \notin {"idle", "refused"}
  BY <1>3 DEF Paged
<1>5. IsCommand(a, p) /\ v.op = a.op
  BY <1>2, <1>4, ScreenIs
<1>6. PICK n : n = v.page.next_offset
  OBVIOUS
<1>7. PICK b : b = [a EXCEPT !.offset = n]
  OBVIOUS
<1>8. /\ view' \in {main(copies[b.side], copies["after"], b), Refused} /\ args' = b
      /\ copies' = copies /\ pinned' = pinned /\ shown' = shown
  BY <1>1, <1>6, <1>7 DEF NextPage, Run
<1>9. IsCommand(b, p) /\ TurnsTo(b, a, n)
  <2>1. a.op \in Paged
    BY <1>3, <1>5
  <2> QED
    BY <1>5, <1>7, <2>1, AnotherPage
<1>10. PICK u, sm : u = view' /\ sm = seen'
  OBVIOUS
<1>11. DOMAIN sn = {"start", "rows"}
  BY <1>2 DEF SessionOk
<1>12. PICK new : new = NewRows
  OBVIOUS
<1>13. sm = [sn EXCEPT !.rows = @ \o new]
  BY <1>1, <1>10, <1>12 DEF NextPage
<1>14. DOMAIN sm = {"start", "rows"} /\ sm.start = sn.start /\ sm.rows = sn.rows \o new
  BY <1>11, <1>13
<1>15. u.op \in Paged => new = u.page.rows
  BY <1>10, <1>12 DEF NewRows
<1>16. u \in {main(c[b.side], c["after"], b), Refused}
  BY <1>1, <1>8, <1>10
<1>17. TurnsTo(b, a, v.page.next_offset)
  BY <1>6, <1>9
<1>18. u.op \in Paged => sm.rows = sn.rows \o u.page.rows
  BY <1>14, <1>15
<1>19. IsCommand(b, p)
  BY <1>9
<1>20. SessionOk(c, p, u, b, sm, sh)
  <2>1. DOMAIN sm = {"start", "rows"} /\ sm.start = sn.start
    BY <1>14
  <2> QED
    BY <1>2, <1>3, <1>16, <1>17, <1>18, <1>19, <2>1, NextOk
<1> QED
  BY <1>1, <1>8, <1>10, <1>20 DEF SessionInv

\* So does an archive that is replaced: the answers on the screen stay answers.
LEMMA ReplaceStep ==
  ASSUME SessionInv, pinned \in Sessions, Replace
  PROVE  SessionInv'
<1>1. copies = pinned
  BY DEF Replace
<1>2. PICK db \in Replacement(copies["before"]) : copies' = [copies EXCEPT !["before"] = db]
  BY DEF Replace
<1>3. IsDatabase(db)
  BY <1>1, <1>2, SessionAssumption
<1>4. pinned' = pinned /\ view' = view /\ args' = args /\ seen' = seen /\ shown' = shown
  BY DEF Replace
<1>5. SessionOk(copies, pinned, view, args, seen, shown)
  BY DEF SessionInv
<1>6. SessionOk(copies', pinned, view, args, seen, shown)
  BY <1>1, <1>2, <1>3, <1>5, ReplaceOk
<1> QED
  BY <1>4, <1>6 DEF SessionInv

\* The request that follows a row.
LEMMA FollowIs ==
  ASSUME NEW op \in {"related", "referencing"}, args.side \in Sides, NEW table, NEW row, NEW child, NEW id,
         NEW offset, NEW a, a = Follow(op, table, row, child, id, offset)
  PROVE  /\ IsCommand(a, pinned) /\ a.op = op /\ a.side = args.side
         /\ a.request.table = table /\ a.request.locator = row.locator
<1>1. PICK side : side = args.side
  OBVIOUS
<1>2. PICK q : q = [database_sha256 |-> sha(pinned[side]), table |-> table, locator |-> row.locator,
                    child_table |-> child, foreign_key |-> id,
                    columns |-> <<>>, where |-> <<>>, order_by |-> <<>>]
  OBVIOUS
<1>3. a = [op |-> op, side |-> side, offset |-> offset, limit |-> 1, request |-> q]
  BY <1>1, <1>2 DEF Follow
<1>4. /\ q.database_sha256 = sha(pinned[side]) /\ q.table = table /\ q.locator = row.locator
      /\ q.columns = <<>> /\ q.where = <<>> /\ q.order_by = <<>>
  BY <1>2
<1>5. SelectionArguments(q)
  BY <1>4, EmptySequence DEF SelectionArguments
<1>6. IsCommand(a, pinned) /\ a.op = op /\ a.side = side /\ a.request = q
  <2>1. side \in Sides
    BY <1>1
  <2>2. q.database_sha256 = sha(pinned[side])
    BY <1>4
  <2> QED
    BY <1>3, <1>5, <2>1, <2>2, FollowedCommand
<1> QED
  BY <1>1, <1>4, <1>6

\* So does a reference that is followed.
LEMMA DrillStep ==
  ASSUME SessionInv, NEW op \in {"related", "referencing"}, Drill(op)
  PROVE  SessionInv'
<1>1. view.op = "rows" /\ view.request.columns = <<>> /\ seen' = NewWalk
  BY DEF Drill
<1>2. PICK i, child, id, offset :
        /\ i \in DOMAIN view.page.rows
        /\ Run(Follow(op, view.request.table, view.page.rows[i], child, id, offset))
        /\ shown' = <<view.page.rows[i]>>
  BY DEF Drill
<1>3. SessionOk(copies, pinned, view, args, seen, shown)
  BY DEF SessionInv
<1>4. view.op \notin {"idle", "refused"}
  BY <1>1
<1>5. /\ IsCommand(args, pinned) /\ view.op = args.op /\ args.side \in Sides /\ DatabasesOk(copies, pinned)
  BY <1>3, <1>4, ScreenIs
<1>6. \E db \in {copies[args.side], pinned[args.side]} : AnswerOf(view, db, pinned, args)
  BY <1>3, <1>4, ScreenIs
<1>7. PICK table : table = view.request.table
  OBVIOUS
<1>8. PICK row : row = view.page.rows[i]
  OBVIOUS
<1>9. PICK a : a = Follow(op, table, row, child, id, offset)
  OBVIOUS
<1>10. /\ IsCommand(a, pinned) /\ a.op = op /\ a.side = args.side
       /\ a.request.table = table /\ a.request.locator = row.locator
  BY <1>5, <1>9, FollowIs
<1>11. Run(a) /\ shown' = <<row>>
  BY <1>2, <1>7, <1>8, <1>9
<1>12. view' \in {main(copies[a.side], copies["after"], a), Refused}
  BY <1>11 DEF Run
<1>13. ShownOk(pinned, view', a, shown')
  <2>1. SUFFICES ASSUME AnswerOf(view', pinned[a.side], pinned, a)
                 PROVE  ShowsRow(shown', pinned[a.side], inventory(pinned[a.side])[a.request.table], a)
    BY DEF ShownOk
  <2>2. view'.op # "refused"
    BY <2>1 DEF AnswerOf
  <2>3. AnswerOf(view', copies[a.side], pinned, a)
    BY <1>5, <1>10, <1>12, <2>2, RunAnswers
  <2>4. a.op \in Paged /\ a.op # "rows"
    BY <1>10 DEF Paged
  <2>5. a.request.database_sha256 = copies[a.side]
    BY <2>3, <2>4, PagedIs
  <2>6. a.request.database_sha256 = pinned[a.side]
    BY <2>1, <2>4, PagedIs
  <2>7. AnswerOf(view, pinned[args.side], pinned, args)
    BY <1>6, <1>10, <2>5, <2>6
  <2>8. PICK db : db = pinned[args.side]
    OBVIOUS
  <2>9. PICK v, b : v = view /\ b = args
    OBVIOUS
  <2>10. AnswerOf(v, db, pinned, b) /\ b.op = "rows"
    BY <1>1, <1>5, <2>7, <2>8, <2>9
  <2>11. v.request = b.recipe
    <3>1. b.op \in Paged
      BY <2>10 DEF Paged
    <3>2. v.request = RequestOf(b)
      BY <2>10, <3>1, PagedIs
    <3> QED
      BY <2>10, <3>2 DEF RequestOf
  <2>12. b.recipe.columns = <<>> /\ table = b.recipe.table /\ i \in DOMAIN v.page.rows
    BY <1>1, <1>2, <1>7, <2>9, <2>11
  <2>13. PICK t : t = inventory(db)[table]
    OBVIOUS
  <2>14. \E r \in Object(db, table).rows :
           v.page.rows[i].values = Cells(r, StoredNames(t)) /\ v.page.rows[i].locator = Cells(r, LocatorOf(t))
    BY <2>10, <2>12, <2>13, RowShown
  <2>15. shown'[1] = v.page.rows[i] /\ a.request.locator = v.page.rows[i].locator
    BY <1>8, <1>10, <1>11, <2>9
  <2>16. pinned[a.side] = db /\ a.request.table = table
    BY <1>10, <2>8
  <2>17. ShowsRow(shown', db, t, a)
    BY <2>14, <2>15, <2>16 DEF ShowsRow
  <2> QED
    BY <2>13, <2>16, <2>17
<1> QED
  BY <1>1, <1>5, <1>10, <1>11, <1>13, RunStep

\* So does a group that is opened.
LEMMA OpenGroupStep ==
  ASSUME SessionInv, OpenGroup
  PROVE  SessionInv'
<1>1. view.op = "summarize" /\ seen' = NewWalk
  BY DEF OpenGroup
<1>2. PICK key :
        Run([op |-> "group-rows", side |-> args.side, request |-> view.request, key |-> key,
             offset |-> 0, limit |-> 1])
  BY DEF OpenGroup
<1>3. SessionOk(copies, pinned, view, args, seen, shown)
  BY DEF SessionInv
<1>4. view.op \notin {"idle", "refused"}
  BY <1>1
<1>5. /\ IsCommand(args, pinned) /\ view.op = args.op /\ DatabasesOk(copies, pinned)
      /\ \E db \in {copies[args.side], pinned[args.side]} : AnswerOf(view, db, pinned, args)
  BY <1>3, <1>4, ScreenIs
<1>6. view.request = args.request
  <2>1. PICK db : AnswerOf(view, db, pinned, args)
    BY <1>5
  <2>2. PICK v, q, tables : v = view /\ q = args.request /\ tables = inventory(db)
    OBVIOUS
  <2>3. v = main(db, pinned["after"], args) /\ v.op # "refused" /\ IsDatabase(db)
    BY <2>1, <2>2 DEF AnswerOf
  <2>4. v = Answer(db, tables, pinned["after"], inventory(pinned["after"]), args)
    BY <2>2, <2>3, MainIs
  <2>5. v = summarize(db, tables, q)
    BY <1>1, <1>5, <2>2, <2>4, AnswerIs
  <2>6. v.request = q
    BY <2>2, <2>3, <2>5, SummarizeIs
  <2> QED
    BY <2>2, <2>6
<1>7. PICK b : b = args
  OBVIOUS
<1>8. PICK a : a = [op |-> "group-rows", side |-> b.side, request |-> b.request, key |-> key,
                    offset |-> 0, limit |-> 1]
  OBVIOUS
<1>9. Run(a)
  BY <1>2, <1>6, <1>7, <1>8
<1>10. IsCommand(b, pinned) /\ b.op = "summarize"
  BY <1>1, <1>5, <1>7
<1>11. IsCommand(a, pinned) /\ a.op = "group-rows"
  BY <1>8, <1>10, OpenedCommand
<1>12. ShownOk(pinned, view', a, shown')
  BY <1>11, NothingShown
<1> QED
  BY <1>1, <1>5, <1>9, <1>11, <1>12, RunStep

\* So does the way from a schema comparison to rows.
LEMMA NavigateStep ==
  ASSUME SessionInv, NEW side \in Sides, Navigate(side)
  PROVE  SessionInv'
<1>1. view.op = "compare-schema" /\ seen' = NewWalk
  BY DEF Navigate
<1>2. Run([op |-> "rows", side |-> side, recipe |-> view.row_navigation[side].recipe,
           expected |-> <<view.row_navigation[side].expected>>, offset |-> 0, limit |-> 1])
  BY DEF Navigate
<1>3. SessionOk(copies, pinned, view, args, seen, shown)
  BY DEF SessionInv
<1>4. view.op \notin {"idle", "refused"}
  BY <1>1
<1>5. /\ IsCommand(args, pinned) /\ view.op = args.op /\ DatabasesOk(copies, pinned)
      /\ \E db \in {copies[args.side], pinned[args.side]} : AnswerOf(view, db, pinned, args)
  BY <1>3, <1>4, ScreenIs
<1>6. \E table : /\ view.row_navigation[side].recipe = Bare(table)
                 /\ view.row_navigation[side].expected = sha(pinned[side])
  <2>1. PICK db : AnswerOf(view, db, pinned, args)
    BY <1>5
  <2>2. PICK v, after, b, a : v = view /\ after = pinned["after"] /\ b = inventory(db) /\ a = inventory(after)
    OBVIOUS
  <2>3. PICK old, new, table : old = args.before_sha256 /\ new = args.after_sha256 /\ table = args.table
    OBVIOUS
  <2>4. v = main(db, after, args) /\ v.op # "refused" /\ IsDatabase(db)
    BY <2>1, <2>2 DEF AnswerOf
  <2>5. v = Answer(db, b, after, a, args)
    BY <2>2, <2>4, MainIs
  <2>6. v = schema_comparison_output(old, new, table, db, b, after, a)
    BY <1>1, <1>5, <2>3, <2>5, AnswerIs
  <2>7. v.op # "refused"
    BY <2>4
  <2>8. SchemaSays(v, old, new, table, db, b, after, a)
    BY <2>6, <2>7, SchemaIs
  <2>9. old = db /\ new = after /\ v.row_navigation["before"] = navigation(table, b, db)
    BY <2>8 DEF SchemaSays
  <2>10. v.row_navigation["after"] = navigation(table, a, after)
    BY <2>8 DEF SchemaSays
  <2>11. args.op = "compare-schema"
    BY <1>1, <1>5
  <2>12. old = sha(pinned["before"]) /\ new = sha(pinned["after"])
    BY <1>5, <2>3, <2>11 DEF IsCommand
  <2>13. sha(db) = sha(pinned["before"]) /\ sha(after) = sha(pinned["after"])
    BY <2>9, <2>12 DEF sha
  <2>14. \A tables, d : /\ navigation(table, tables, d).recipe = Bare(table)
                        /\ navigation(table, tables, d).expected = sha(d)
    BY DEF navigation
  <2>15. CASE side = "before"
    BY <2>2, <2>9, <2>13, <2>14, <2>15
  <2>16. CASE side = "after"
    BY <2>2, <2>10, <2>13, <2>14, <2>16
  <2> QED
    BY <2>15, <2>16 DEF Sides
<1>7. PICK table : /\ view.row_navigation[side].recipe = Bare(table)
                   /\ view.row_navigation[side].expected = sha(pinned[side])
  BY <1>6
<1>8. PICK a : a = [op |-> "rows", side |-> side, recipe |-> Bare(table), expected |-> <<sha(pinned[side])>>,
                    offset |-> 0, limit |-> 1]
  OBVIOUS
<1>9. Run(a)
  BY <1>2, <1>7, <1>8
<1>10. IsCommand(a, pinned) /\ a.op = "rows"
  BY <1>8, NavigatedCommand
<1>11. ShownOk(pinned, view', a, shown')
  BY <1>10, NothingShown
<1> QED
  BY <1>1, <1>5, <1>9, <1>10, <1>11, RunStep

\* Every step of a session keeps its invariant and the fingerprints read.
LEMMA SessionStep ==
  ASSUME SessionInv, pinned \in Sessions, SessionNext
  PROVE  SessionInv' /\ pinned' = pinned
<1>1. CASE \E op \in {"schema", "rows", "query", "summarize", "crosstab", "histogram",
                      "compare", "compare-schema"} : Command(op)
  <2>1. PICK op \in {"schema", "rows", "query", "summarize", "crosstab", "histogram",
                     "compare", "compare-schema"} : Command(op)
    BY <1>1
  <2>2. SessionInv'
    BY <2>1, CommandStep
  <2> QED
    BY <2>1, <2>2 DEF Command, Run
<1>2. CASE NextPage
  <2>1. SessionInv'
    BY <1>2, NextPageStep
  <2> QED
    BY <1>2, <2>1 DEF NextPage, Run
<1>3. CASE \E op \in {"related", "referencing"} : Drill(op)
  <2>1. PICK op \in {"related", "referencing"} : Drill(op)
    BY <1>3
  <2>2. SessionInv'
    BY <2>1, DrillStep
  <2> QED
    BY <2>1, <2>2 DEF Drill, Run
<1>4. CASE OpenGroup
  <2>1. SessionInv'
    BY <1>4, OpenGroupStep
  <2> QED
    BY <1>4, <2>1 DEF OpenGroup, Run
<1>5. CASE \E side \in {"before", "after"} : Navigate(side)
  <2>1. PICK side \in Sides : Navigate(side)
    BY <1>5 DEF Sides
  <2>2. SessionInv'
    BY <2>1, NavigateStep
  <2> QED
    BY <2>1, <2>2 DEF Navigate, Run
<1>6. CASE Replace
  <2>1. SessionInv'
    BY <1>6, ReplaceStep
  <2> QED
    BY <1>6, <2>1 DEF Replace
<1> QED
  BY <1>1, <1>2, <1>3, <1>4, <1>5, <1>6 DEF SessionNext

(***************************************************************************)
(* What the invariant says of the screen.                                  *)
(***************************************************************************)

\* An answer on the screen.
LEMMA OnScreen ==
  ASSUME SessionInv, view.op \notin {"idle", "refused"}
  PROVE  /\ IsCommand(args, pinned) /\ view.op = args.op /\ args.side \in Sides
         /\ IsDatabase(pinned["before"]) /\ IsDatabase(pinned["after"]) /\ IsDatabase(pinned[args.side])
         /\ \E db : AnswerOf(view, db, pinned, args)
<1>1. SessionOk(copies, pinned, view, args, seen, shown)
  BY DEF SessionInv
<1>2. IsCommand(args, pinned) /\ view.op = args.op /\ args.side \in Sides /\ DatabasesOk(copies, pinned)
  BY <1>1, ScreenIs
<1>3. \E db \in {copies[args.side], pinned[args.side]} : AnswerOf(view, db, pinned, args)
  BY <1>1, ScreenIs
<1>4. \E db : AnswerOf(view, db, pinned, args)
  BY <1>3
<1> QED
  BY <1>2, <1>4 DEF DatabasesOk, Sides

\* An answer says what the operation computes.
LEMMA AnswerFrom ==
  ASSUME NEW v, NEW db, NEW s, NEW a, AnswerOf(v, db, s, a)
  PROVE  /\ IsDatabase(db) /\ IsDatabase(s["after"]) /\ IsCommand(a, s) /\ v.op # "refused"
         /\ v = Answer(db, inventory(db), s["after"], inventory(s["after"]), a)
<1>1. /\ IsDatabase(db) /\ IsDatabase(s["after"]) /\ IsCommand(a, s) /\ v.op # "refused"
      /\ v = main(db, s["after"], a)
  BY DEF AnswerOf
<1> QED
  BY <1>1, MainIs

\* Answers lie within the bounds of their requests.
LEMMA SessionTyped ==
  ASSUME SessionInv
  PROVE  SessionTypeOK
<1>1. DatabasesOk(copies, pinned) /\ ViewOk(copies, pinned, view, args)
  BY DEF SessionInv, SessionOk
<1>2. DOMAIN copies = {"before", "after"} /\ DOMAIN pinned = {"before", "after"}
  BY <1>1 DEF DatabasesOk, Sides
<1>3. Idle.op = "idle" /\ Idle.side = "before"
  BY DEF Idle
<1>4. CASE view.op \in {"idle", "refused"}
  <2>1. args.side \in {"before", "after"}
    <3>1. CASE view = Idle /\ args = Idle
      BY <1>3, <3>1
    <3>2. CASE IsCommand(args, pinned)
      BY <3>2 DEF IsCommand
    <3>3. CASE \E db \in {copies[args.side], pinned[args.side]} : AnswerOf(view, db, pinned, args)
      BY <3>3 DEF AnswerOf, IsCommand
    <3> QED
      BY <1>1, <3>1, <3>2, <3>3 DEF ViewOk
  <2>2. view.op \notin Paged
    BY <1>4 DEF Paged
  <2> QED
    BY <1>2, <1>4, <2>1, <2>2 DEF SessionTypeOK
<1>5. CASE view.op \notin {"idle", "refused"}
  <2>1. /\ IsCommand(args, pinned) /\ view.op = args.op /\ args.side \in Sides
        /\ \E db : AnswerOf(view, db, pinned, args)
    BY <1>5, OnScreen
  <2>2. view.op \in Operations
    BY <2>1 DEF IsCommand
  <2>3. ASSUME view.op \in Paged
        PROVE  /\ view.page.offset \in 0 .. MaxOffset /\ view.page.limit \in 1 .. MaxLimit
               /\ Len(view.page.rows) <= view.page.limit
    <3>1. PICK db : AnswerOf(view, db, pinned, args)
      BY <2>1
    <3>2. PICK v, a, tables, sel, w :
            /\ v = view /\ a = args /\ tables = inventory(db)
            /\ sel = SelectionFor(tables, a) /\ w = ResultOf(db, tables, a, sel)
      OBVIOUS
    <3>3. AnswerOf(v, db, pinned, a) /\ a.op \in Paged
      BY <2>1, <2>3, <3>1, <3>2
    <3>4. a.offset \in 0 .. MaxOffset /\ a.limit \in 1 .. MaxLimit
      BY <3>2, <3>3, PagedIs
    <3>5. PageShows(v.page, w, Len(w), sel, a.offset, a.limit)
      BY <3>2, <3>3, PagedIs
    <3>6. v.page.offset = a.offset /\ v.page.limit = a.limit /\ Len(v.page.rows) <= a.limit
      BY <3>5 DEF PageShows
    <3> QED
      BY <3>2, <3>4, <3>6
  <2> QED
    BY <1>2, <2>1, <2>2, <2>3 DEF SessionTypeOK, Sides
<1> QED
  BY <1>4, <1>5

\* The changes a comparison lists lead from one side to the other.
LEMMA PatchesHold ==
  ASSUME SessionInv
  PROVE  ComparisonPatches
<1>1. SUFFICES ASSUME view.op = "compare"
               PROVE  ComparisonPatches
  BY DEF ComparisonPatches, Answered
<1>2. view.op \notin {"idle", "refused"}
  BY <1>1
<1>3. PICK db : AnswerOf(view, db, pinned, args)
  BY <1>2, OnScreen
<1>4. args.op = "compare" /\ IsCommand(args, pinned)
  BY <1>1, <1>2, OnScreen
<1>5. PICK v, after, q : v = view /\ after = pinned["after"] /\ q = args.request
  OBVIOUS
<1>6. /\ IsDatabase(db) /\ IsDatabase(after) /\ v.op # "refused"
      /\ v = Answer(db, inventory(db), after, inventory(after), args)
  BY <1>3, <1>5, AnswerFrom
<1>7. v = comparison_output(q, db, inventory(db), after, inventory(after))
  BY <1>4, <1>5, <1>6, AnswerIs
<1>8. PICK R, S : R = Object(db, q.table).rows /\ S = Object(after, q.table).rows
  OBVIOUS
<1>9. v.op = "compare" /\ v.request = q /\ q.before_sha256 = db /\ q.after_sha256 = after
  BY <1>6, <1>7, <1>8, CompareIs
<1>10. Patches(v, R, S)
  BY <1>6, <1>7, <1>8, CompareIs
<1>11. /\ v.before_rows = Cardinality(R) /\ v.after_rows = Cardinality(S)
       /\ v.before_rows + v.counts["added"] - v.counts["removed"] = v.after_rows
  BY <1>6, <1>7, <1>8, CompareIs
<1>12. q.before_sha256 = sha(pinned["before"])
  BY <1>4, <1>5 DEF IsCommand
<1>13. db = pinned["before"]
  BY <1>9, <1>12 DEF sha
<1>14. R = Object(pinned["before"], view.request.table).rows /\ S = Object(pinned["after"], view.request.table).rows
  BY <1>5, <1>8, <1>9, <1>13
<1>15. /\ view.before_rows = Cardinality(R) /\ view.after_rows = Cardinality(S)
       /\ view.before_rows + view.counts["added"] - view.counts["removed"] = view.after_rows
  BY <1>5, <1>11
<1>16. Patches(view, R, S)
  BY <1>5, <1>10
<1> QED
  BY <1>14, <1>15, <1>16 DEF ComparisonPatches, Patches, Touched

\* A table that is called unchanged is read alike.
LEMMA AlikeHolds ==
  ASSUME SessionInv
  PROVE  UnchangedReadsAlike /\ NavigationUsable
<1>1. SUFFICES ASSUME view.op = "compare-schema"
               PROVE  UnchangedReadsAlike /\ NavigationUsable
  BY DEF UnchangedReadsAlike, NavigationUsable, Answered
<1>2. view.op \notin {"idle", "refused"}
  BY <1>1
<1>3. PICK db : AnswerOf(view, db, pinned, args)
  BY <1>2, OnScreen
<1>4. args.op = "compare-schema" /\ IsCommand(args, pinned)
  BY <1>1, <1>2, OnScreen
<1>5. PICK v, after, b, a : v = view /\ after = pinned["after"] /\ b = inventory(db) /\ a = inventory(after)
  OBVIOUS
<1>6. PICK old, new, table : old = args.before_sha256 /\ new = args.after_sha256 /\ table = args.table
  OBVIOUS
<1>7. /\ IsDatabase(db) /\ IsDatabase(after) /\ v.op # "refused" /\ v = Answer(db, b, after, a, args)
  BY <1>3, <1>5, AnswerFrom
<1>8. v = schema_comparison_output(old, new, table, db, b, after, a)
  BY <1>4, <1>6, <1>7, AnswerIs
<1>9. SchemaSays(v, old, new, table, db, b, after, a)
  BY <1>7, <1>8, SchemaIs
<1>10. old = sha(pinned["before"]) /\ old = db
  BY <1>4, <1>6, <1>9 DEF IsCommand, SchemaSays
<1>11. db = pinned["before"] /\ b = inventory(pinned["before"]) /\ a = inventory(pinned["after"])
  BY <1>5, <1>10 DEF sha
<1>12. UnchangedReadsAlike
  <2>1. v.objects = [n \in DOMAIN b \cup DOMAIN a |-> SchemaChange(b, a, n)]
    BY <1>9 DEF SchemaSays
  <2>2. ASSUME NEW name \in DOMAIN v.objects, v.objects[name] = "unchanged"
        PROVE  /\ selection_recipeAccepts(Bare(name), b) = selection_recipeAccepts(Bare(name), a)
               /\ selection_recipe(Bare(name), b) = selection_recipe(Bare(name), a)
    <3>1. name \in DOMAIN b \cup DOMAIN a /\ SchemaChange(b, a, name) = "unchanged"
      BY <2>1, <2>2
    <3> QED
      BY <1>5, <1>7, <3>1, UnchangedAlike
  <2> QED
    BY <1>5, <1>11, <2>2 DEF UnchangedReadsAlike
<1>13. NavigationUsable
  <2>1. v.row_navigation["before"] = navigation(table, b, db)
        /\ v.row_navigation["after"] = navigation(table, a, after)
    BY <1>9 DEF SchemaSays
  <2>2. ASSUME NEW side \in {"before", "after"}, view.row_navigation[side].available
        PROVE  /\ selection_recipeAccepts(view.row_navigation[side].recipe, inventory(pinned[side]))
               /\ view.row_navigation[side].expected = sha(pinned[side])
    <3>1. view.row_navigation[side] = navigation(table, inventory(pinned[side]), pinned[side])
      BY <1>5, <1>11, <2>1
    <3>2. PICK nav : nav = view.row_navigation[side]
      OBVIOUS
    <3>3. PICK tables, d : tables = inventory(pinned[side]) /\ d = pinned[side]
      OBVIOUS
    <3>4. nav = [available |-> (table \in DOMAIN tables /\ selection_recipeAccepts(Bare(table), tables)),
                 recipe |-> Bare(table), expected |-> sha(d)]
      BY <3>1, <3>2, <3>3 DEF navigation
    <3>5. nav.recipe = Bare(table) /\ nav.expected = sha(d)
          /\ nav.available = (table \in DOMAIN tables /\ selection_recipeAccepts(Bare(table), tables))
      BY <3>4
    <3>6. nav.available
      BY <2>2, <3>2
    <3>7. selection_recipeAccepts(Bare(table), tables)
      BY <3>5, <3>6
    <3> QED
      BY <3>2, <3>3, <3>5, <3>7
  <2> QED
    BY <2>2 DEF NavigationUsable
<1> QED
  BY <1>12, <1>13

\* A query is answered whole.
LEMMA QueryHolds ==
  ASSUME SessionInv
  PROVE  QueryCompleteOrRefused
<1>1. SUFFICES ASSUME view.op = "query"
               PROVE  Len(view.rows) = Cardinality(ResultRows(Db, view.statement))
  BY DEF QueryCompleteOrRefused, Answered
<1>2. view.op \notin {"idle", "refused"}
  BY <1>1
<1>3. PICK db : AnswerOf(view, db, pinned, args)
  BY <1>2, OnScreen
<1>4. args.op = "query" /\ IsCommand(args, pinned)
  BY <1>1, <1>2, OnScreen
<1>5. PICK v, st, fp, m : v = view /\ st = args.statement /\ fp = args.database_sha256 /\ m = args.max_rows
  OBVIOUS
<1>6. v = query_output(db, st, fp, m) /\ IsDatabase(db) /\ v.op # "refused"
  BY <1>3, <1>4, <1>5, AnswerFrom, AnswerIs
<1>7. ToSet(st.columns) # {} /\ fp = sha(pinned[args.side])
  BY <1>4, <1>5 DEF IsCommand
<1>8. fp = db /\ v.statement = st /\ Len(v.rows) = Cardinality(ResultRows(db, st))
  BY <1>6, <1>7, QueryIs
<1> QED
  BY <1>5, <1>7, <1>8 DEF Db, sha

\* Selections of one table by the same filters find the same rows.
LEMMA SameFiltered ==
  ASSUME NEW db, NEW x, NEW y, x.table = y.table, x.where = y.where
  PROVE  Filtered(db, x) = Filtered(db, y)
  BY DEF Filtered

\* distribution: the number of rows it has read.
LEMMA DistributionCounts ==
  ASSUME NEW db, IsDatabase(db), NEW tables, tables = inventory(db), NEW q, NEW v, v = distribution(db, tables, q),
         v.op # "refused", NEW sel, sel = selection_recipe(Selecting(q.table, <<>>, q.where), tables),
         NEW F, F = Filtered(db, sel)
  PROVE  q.database_sha256 = db /\ v.request = q /\ v.selected_row_count = Cardinality(F)
  BY DistributionIs

\* A scan answers for every row selected.
LEMMA ScanHolds ==
  ASSUME SessionInv
  PROVE  ScanIsWhole
<1>1. SUFFICES ASSUME view.op \in Scans
               PROVE  view.selected_row_count =
                        Cardinality(Filtered(Db, selection_recipe(
                          Selecting(view.request.table, <<>>, view.request.where), Tables)))
  BY DEF ScanIsWhole
<1>2. view.op \notin {"idle", "refused"}
  BY <1>1 DEF Scans
<1>3. PICK db : AnswerOf(view, db, pinned, args)
  BY <1>2, OnScreen
<1>4. args.op = view.op /\ IsCommand(args, pinned)
  BY <1>2, OnScreen
<1>5. PICK v, q, tables, after : v = view /\ q = args.request /\ tables = inventory(db) /\ after = pinned["after"]
  OBVIOUS
<1>6. IsDatabase(db) /\ v.op # "refused" /\ v = Answer(db, tables, after, inventory(after), args)
  BY <1>3, <1>5, AnswerFrom
<1>7. q.database_sha256 = sha(pinned[args.side])
  BY <1>1, <1>4, <1>5 DEF IsCommand
<1>8. PICK sel : sel = selection_recipe(Selecting(q.table, <<>>, q.where), tables)
  OBVIOUS
<1>9. PICK F : F = Filtered(db, sel)
  OBVIOUS
<1>10. q.database_sha256 = db /\ v.request = q /\ v.selected_row_count = Cardinality(F)
  <2>1. CASE view.op = "summarize"
    <3>1. v = summarize(db, tables, q)
      BY <1>4, <1>5, <1>6, <2>1, AnswerIs
    <3>2. PICK s : s = SummaryOf(q, tables)
      OBVIOUS
    <3>3. s.table = q.table /\ s.where = q.where
      BY <3>2, SummarySelection
    <3>4. sel.table = q.table /\ sel.where = q.where
      BY <1>8, SelectionIs, SelectingIs
    <3>5. F = Filtered(db, s)
      BY <1>9, <3>3, <3>4, SameFiltered
    <3>6. summary_recipeAccepts(q, db, tables) /\ v.request = q /\ v.selected_row_count = Cardinality(F)
      BY <1>5, <1>6, <3>1, <3>2, <3>5, SummarizeIs
    <3> QED
      BY <3>6, SummaryAccepted
  <2>2. CASE view.op = "crosstab"
    <3>1. v = crosstab(db, tables, q)
      BY <1>4, <1>5, <1>6, <2>2, AnswerIs
    <3> QED
      BY <1>5, <1>6, <1>8, <1>9, <3>1, CrosstabIs
  <2>3. CASE view.op = "histogram"
    <3>1. v = distribution(db, tables, q)
      BY <1>4, <1>5, <1>6, <2>3, AnswerIs
    <3>2. q.database_sha256 = db /\ v.request = q /\ v.selected_row_count = Cardinality(F)
      BY <1>5, <1>6, <1>8, <1>9, <3>1, DistributionCounts
    <3> QED
      BY <3>2
  <2> QED
    BY <1>1, <2>1, <2>2, <2>3 DEF Scans
<1>11. db = Db /\ tables = Tables
  BY <1>5, <1>7, <1>10 DEF Db, Tables, sha
<1> QED
  BY <1>5, <1>8, <1>9, <1>10, <1>11

\* The pages of a pinned walk are one pass.
LEMMA PassHolds ==
  ASSUME SessionInv
  PROVE  PagesAreOnePass
<1>1. SUFFICES ASSUME view.op \in Paged, OnPinned, view.op = "rows" => args.expected # <<>>
               PROVE  IsPartOf(Whole(Tables, view.request, view.page.selection))
  BY DEF PagesAreOnePass
<1>2. view.op \notin {"idle", "refused"}
  BY <1>1 DEF Paged
<1>3. PICK db : AnswerOf(view, db, pinned, args)
  BY <1>2, OnScreen
<1>4. args.op = view.op
  BY <1>2, OnScreen
<1>5. PICK v, a, sn : v = view /\ a = args /\ sn = seen
  OBVIOUS
<1>6. AnswerOf(v, db, pinned, a) /\ a.op \in Paged
  BY <1>1, <1>3, <1>4, <1>5
<1>7. PICK tables : tables = inventory(db)
  OBVIOUS
<1>8. PICK sel : sel = SelectionFor(tables, a)
  OBVIOUS
<1>9. PICK w : w = ResultOf(db, tables, a, sel)
  OBVIOUS
<1>10. v.database_sha256 = db /\ v.request = RequestOf(a)
  BY <1>6, <1>7, <1>8, <1>9, PagedIs
<1>11. /\ a.offset \in 0 .. MaxOffset /\ a.limit \in 1 .. MaxLimit
       /\ PageShows(v.page, w, Len(w), sel, a.offset, a.limit) /\ Len(w) \in Nat
  BY <1>6, <1>7, <1>8, <1>9, PagedIs
<1>12. db = Db /\ tables = Tables /\ db = pinned[args.side]
  BY <1>1, <1>5, <1>7, <1>10 DEF OnPinned, Db, Tables, sha
<1>13. WalkOf(sn, v, db, a)
  <2>1. WalkOk(pinned, view, args, seen)
    BY DEF SessionInv, SessionOk
  <2> QED
    BY <1>1, <1>4, <1>5, <1>6, <1>12, <2>1 DEF WalkOk
<1>14. Follows(sn, w, sel, v, a)
  BY <1>7, <1>8, <1>9, <1>13 DEF WalkOf
<1>15. v.page.selection = sel
  BY <1>11 DEF PageShows
<1>16. Whole(tables, v.request, sel) = w
  <2>1. CASE a.op = "rows"
    BY <1>4, <1>5, <1>9, <1>12, <2>1 DEF Whole, ResultOf
  <2>2. CASE a.op = "group-rows"
    BY <1>4, <1>5, <1>9, <1>10, <1>12, <2>2 DEF Whole, ResultOf, RequestOf
  <2>3. CASE a.op = "related"
    BY <1>4, <1>5, <1>9, <1>10, <1>12, <2>3 DEF Whole, ResultOf, RequestOf, RelationFor
  <2>4. CASE a.op = "referencing"
    BY <1>4, <1>5, <1>9, <1>10, <1>12, <2>4 DEF Whole, ResultOf, RequestOf, RelationFor
  <2> QED
    BY <1>6, <2>1, <2>2, <2>3, <2>4 DEF Paged
<1>17. PICK n, m, k, f, o : /\ n = Len(w) /\ m = Len(sn.rows) /\ k = Len(v.page.rows) /\ f = sn.start
                            /\ o = a.offset
  OBVIOUS
<1>18. /\ f \in Nat /\ IsSequence(sn.rows) /\ f + m = o + k
       /\ \A i \in DOMAIN sn.rows : f + i <= n /\ sn.rows[i] = RowCells(w[f + i], sel)
  BY <1>14, <1>17 DEF Follows
<1>19. m \in Nat /\ DOMAIN sn.rows = 1 .. m
  BY <1>17, <1>18, SequenceIs
<1>20. /\ n \in Nat /\ o \in Nat /\ k \in Nat
       /\ ~v.page.has_more /\ o <= n => o + k = n
       /\ o >= n => k = 0
  BY <1>11, <1>17, ReaderAssumption DEF PageShows
<1>21. (~v.page.has_more /\ f <= n) => f + m = n
  <2>1. SUFFICES ASSUME ~v.page.has_more, f <= n
                 PROVE  f + m = n
    OBVIOUS
  <2>2. CASE o <= n
    BY <1>18, <1>20, <2>1, <2>2
  <2>3. CASE ~(o <= n)
    <3>1. k = 0 /\ f + m = o /\ m >= 1
      BY <1>18, <1>19, <1>20, <2>1, <2>3
    <3>2. m \in DOMAIN sn.rows
      BY <1>19, <3>1
    <3>3. f + m <= n
      BY <1>18, <3>2
    <3> QED
      BY <1>18, <1>19, <1>20, <2>3, <3>1, <3>3
  <2> QED
    BY <2>2, <2>3
<1>22. IsPartOf(w)
  BY <1>5, <1>15, <1>17, <1>18, <1>21 DEF IsPartOf
<1> QED
  BY <1>5, <1>12, <1>15, <1>16, <1>22

\* relation_rows: the status, whatever page was asked for.
ParentsStatus(c, rel, found) ==
  CASE HasNull(c, rel.child_columns) -> "null-reference"
    [] found # {} -> "matching-parent-rows"
    [] OTHER -> "no-matching-parent"

\* relation_rows: the status speaks of all parents, whatever the page.
LEMMA RelatedStatus ==
  ASSUME NEW db, NEW tables, NEW q, NEW offset, NEW limit, NEW v, v = relation_rows(db, tables, q, offset, limit),
         v.op # "refused", NEW rel, rel = RelationOf(tables, q.table, q.foreign_key),
         NEW c, c = Anchor(db, tables, q), NEW found, found = ParentsOf(db, tables, rel, c)
  PROVE  v.reference_status = ParentsStatus(c, rel, found)
<1>1. Refused.op = "refused"
  BY DEF Refused
<1>2. v = RelatedTo(db, tables, q, rel, c, offset, limit)
  BY <1>1 DEF relation_rows
<1>3. PICK sel : v = RelatedAnswer(db, q, rel, c, found, sel, offset, limit)
  BY <1>1, <1>2 DEF RelatedTo
<1> QED
  BY <1>1, <1>3 DEF RelatedAnswer, ParentsStatus

\* The status of the children, whatever page was asked for.
LEMMA ChildrenStatus ==
  ASSUME NEW p, NEW rel, NEW found, IsFiniteSet(found), HasNull(p, rel.parent_columns) => found = {},
         NEW page, NEW w, NEW sel, NEW offset \in Nat, NEW limit \in Nat \ {0},
         PageShows(page, w, Cardinality(found), sel, offset, limit)
  PROVE  ReferencingStatus(p, rel, found, page) =
           IF HasNull(p, rel.parent_columns) THEN "null-parent-key"
           ELSE IF found # {} THEN "matching-child-rows" ELSE "no-matching-child-rows"
<1>1. PICK n, k : n = Cardinality(found) /\ k = Len(page.rows)
  OBVIOUS
<1>2. n \in Nat /\ (n = 0 <=> found = {})
  BY <1>1, FS_CardinalityType, FS_EmptySet
<1>3. /\ page.offset = offset /\ k \in Nat /\ DOMAIN page.rows = 1 .. k /\ k <= limit
      /\ offset >= n => k = 0
      /\ page.has_more => k = limit
      /\ ~page.has_more /\ offset <= n => offset + k = n
  BY <1>1 DEF PageShows
<1>4. page.rows # <<>> <=> k # 0
  <2>1. IsSequence(page.rows)
    BY DEF PageShows
  <2>2. page.rows = <<>> => k = 0
    BY <1>1, EmptySequence
  <2>3. k = 0 => page.rows = <<>>
    <3>1. page.rows \in Seq(ToSet(page.rows))
      BY <2>1 DEF IsSequence
    <3> QED
      BY <1>1, <3>1, EmptySeq
  <2> QED
    BY <2>2, <2>3
<1>5. k # 0 => found # {}
  BY <1>2, <1>3
<1>6. found # {} /\ offset = 0 => k # 0
  BY <1>2, <1>3
<1>7. (page.rows # <<>> \/ (page.offset > 0 /\ found # {})) <=> found # {}
  BY <1>3, <1>4, <1>5, <1>6
<1> QED
  BY <1>7 DEF ReferencingStatus

\* referencing_rows: the status belongs to a page of the children.
LEMMA ReferencingShows ==
  ASSUME NEW db, NEW tables, NEW q, NEW offset, NEW limit, NEW v,
         v = referencing_rows(db, tables, q, offset, limit), v.op # "refused",
         NEW rel, rel = RelationOf(tables, q.child_table, q.foreign_key), NEW p, p = Anchor(db, tables, q),
         NEW sel, sel = selection_recipe(Recipe(q.child_table, q), tables),
         NEW found, found = ChildrenOf(db, tables, rel, p, sel)
  PROVE  v.reference_status = ReferencingStatus(p, rel, found, selected_rows(found, sel, offset, limit))
<1>1. Refused.op = "refused"
  BY DEF Refused
<1>2. v = ReferencingTo(db, tables, q, rel, p, sel, offset, limit)
  BY <1>1 DEF referencing_rows
<1>3. v = ReferencingAnswer(db, q, rel, p, found, sel, offset, limit)
  BY <1>1, <1>2 DEF ReferencingTo
<1>4. PICK page : page = selected_rows(found, sel, offset, limit)
  OBVIOUS
<1>5. v = ReferencingPage(db, q, rel, p, found, page)
  BY <1>1, <1>3, <1>4 DEF ReferencingAnswer
<1>6. v.reference_status = ReferencingStatus(p, rel, found, page)
  BY <1>5 DEF ReferencingPage
<1> QED
  BY <1>4, <1>6

\* The status of a reference does not depend on the page.
LEMMA StatusHolds ==
  ASSUME SessionInv
  PROVE  StatusIgnoresPage
<1>1. ASSUME view.op = "related", OnPinned, NEW first, first = relation_rows(Db, Tables, args.request, 0, args.limit),
             first.op # "refused"
      PROVE  first.reference_status = view.reference_status
  <2>1. view.op \notin {"idle", "refused"}
    BY <1>1
  <2>2. PICK db : AnswerOf(view, db, pinned, args)
    BY <2>1, OnScreen
  <2>3. args.op = "related"
    BY <1>1, <2>1, OnScreen
  <2>4. PICK v, q, tables, after, o, l : /\ v = view /\ q = args.request /\ tables = inventory(db)
                                         /\ after = pinned["after"] /\ o = args.offset /\ l = args.limit
    OBVIOUS
  <2>5. v.op # "refused" /\ v = Answer(db, tables, after, inventory(after), args)
    BY <2>2, <2>4, AnswerFrom
  <2>6. v = relation_rows(db, tables, q, o, l)
    BY <2>3, <2>4, <2>5, AnswerIs
  <2>7. PICK rel, c, found : /\ rel = RelationOf(tables, q.table, q.foreign_key)
                             /\ c = Anchor(db, tables, q) /\ found = ParentsOf(db, tables, rel, c)
    OBVIOUS
  <2>8. v.database_sha256 = db
    <3>1. AnswerOf(v, db, pinned, args) /\ args.op \in Paged
      BY <2>2, <2>3, <2>4 DEF Paged
    <3> QED
      BY <3>1, PagedIs
  <2>9. db = Db /\ tables = Tables
    BY <1>1, <2>4, <2>8 DEF OnPinned, Db, Tables, sha
  <2>10. PICK zero : zero = 0
    OBVIOUS
  <2>11. first = relation_rows(db, tables, q, zero, l)
    BY <1>1, <2>4, <2>9, <2>10
  <2>12. PICK status : status = ParentsStatus(c, rel, found)
    OBVIOUS
  <2>13. v.reference_status = status
    BY <2>5, <2>6, <2>7, <2>12, RelatedStatus
  <2>14. first.reference_status = status
    BY <1>1, <2>7, <2>11, <2>12, RelatedStatus
  <2> QED
    BY <2>4, <2>13, <2>14
<1>2. ASSUME view.op = "referencing", OnPinned,
             NEW first, first = referencing_rows(Db, Tables, args.request, 0, args.limit), first.op # "refused"
      PROVE  first.reference_status = view.reference_status
  <2>1. view.op \notin {"idle", "refused"}
    BY <1>2
  <2>2. PICK db : AnswerOf(view, db, pinned, args)
    BY <2>1, OnScreen
  <2>3. args.op = "referencing" /\ IsCommand(args, pinned)
    BY <1>2, <2>1, OnScreen
  <2>4. PICK v, q, tables, after, o, l : /\ v = view /\ q = args.request /\ tables = inventory(db)
                                         /\ after = pinned["after"] /\ o = args.offset /\ l = args.limit
    OBVIOUS
  <2>5. IsDatabase(db) /\ v.op # "refused" /\ v = Answer(db, tables, after, inventory(after), args)
    BY <2>2, <2>4, AnswerFrom
  <2>6. v = referencing_rows(db, tables, q, o, l)
    BY <2>3, <2>4, <2>5, AnswerIs
  <2>7. PICK rel, p, sel : /\ rel = RelationOf(tables, q.child_table, q.foreign_key)
                           /\ p = Anchor(db, tables, q)
                           /\ sel = selection_recipe(Recipe(q.child_table, q), tables)
    OBVIOUS
  <2>8. PICK found : found = ChildrenOf(db, tables, rel, p, sel)
    OBVIOUS
  <2>9. AnswerOf(v, db, pinned, args) /\ args.op \in Paged
    BY <2>2, <2>3, <2>4 DEF Paged
  <2>10. v.database_sha256 = db
    BY <2>9, PagedIs
  <2>11. o \in 0 .. MaxOffset /\ l \in 1 .. MaxLimit
    BY <2>4, <2>9, PagedIs
  <2>12. db = Db /\ tables = Tables
    BY <1>2, <2>4, <2>10 DEF OnPinned, Db, Tables, sha
  <2>13. PICK zero : zero = 0
    OBVIOUS
  <2>14. first = referencing_rows(db, tables, q, zero, l)
    BY <1>2, <2>4, <2>12, <2>13
  <2>15. IsFiniteSet(found)
    <3>1. SelectionArguments(args.request) /\ v = main(db, after, args)
      BY <2>2, <2>3, <2>4 DEF AnswerOf, IsCommand
    <3>2. IsPageOf(v.page, db, found, Recipe(q.child_table, q), sel, args.offset, args.limit)
      BY <2>3, <2>4, <2>5, <2>7, <2>8, <3>1, ReferencingIs
    <3> QED
      BY <3>2 DEF IsPageOf
  <2>16. HasNull(p, rel.parent_columns) => found = {}
    BY <2>8 DEF ChildrenOf
  <2>17. zero \in Nat /\ o \in Nat /\ l \in Nat \ {0}
    BY <2>11, <2>13, ReaderAssumption
  <2>18. PICK status : status = (IF HasNull(p, rel.parent_columns) THEN "null-parent-key"
                                 ELSE IF found # {} THEN "matching-child-rows" ELSE "no-matching-child-rows")
    OBVIOUS
  <2>19. ASSUME NEW x \in Nat
         PROVE  ReferencingStatus(p, rel, found, selected_rows(found, sel, x, l)) = status
    <3>1. PICK page, w : page = selected_rows(found, sel, x, l) /\ w = InOrder(found, sel)
      OBVIOUS
    <3>2. PageShows(page, w, Cardinality(found), sel, x, l)
      BY <2>15, <2>17, <3>1, SelectedPage
    <3>3. ReferencingStatus(p, rel, found, page) = status
      BY <2>15, <2>16, <2>17, <2>18, <3>2, ChildrenStatus
    <3> QED
      BY <3>1, <3>3
  <2>20. v.reference_status = ReferencingStatus(p, rel, found, selected_rows(found, sel, o, l))
    BY <2>5, <2>6, <2>7, <2>8, ReferencingShows
  <2>21. first.reference_status = ReferencingStatus(p, rel, found, selected_rows(found, sel, zero, l))
    BY <1>2, <2>7, <2>8, <2>14, ReferencingShows
  <2> QED
    BY <2>4, <2>17, <2>19, <2>20, <2>21
<1> QED
  BY <1>1, <1>2 DEF StatusIgnoresPage, Answered

\* A locator that showed a row, when the reader accepts it, finds that row.
LEMMA AnchorFinds ==
  ASSUME NEW db, IsDatabase(db), NEW tables, tables = inventory(db), NEW q,
         selection_recipeAccepts(Bare(q.table), tables), AnchorAccepts(db, tables, q),
         NEW r, r \in Object(db, q.table).rows, q.locator = Cells(r, LocatorOf(tables[q.table]))
  PROVE  Anchor(db, tables, q) = r
<1>1. PICK table, o, t, L, recipe : /\ table = q.table /\ o = Object(db, table) /\ t = tables[table]
                                    /\ L = LocatorOf(t) /\ recipe = Bare(table)
  OBVIOUS
<1>2. recipe.table = table
  BY <1>1, SelectingIs DEF Bare
<1>3. selection_recipeAccepts(recipe, inventory(db))
  BY <1>1
<1>4. /\ t.columns = o.columns /\ t.without_rowid = o.without_rowid
      /\ IsSequence(o.columns) /\ RowsTyped(o) /\ KeysDiffer(o) /\ KeysPresent(o) /\ L # <<>>
  BY <1>1, <1>2, <1>3, SelectedTable
<1>5. /\ IsSequence(L)
      /\ \A x, y \in o.rows : x # y => \E i \in DOMAIN L : SortKey(Field(x, L[i])) # SortKey(Field(y, L[i]))
      /\ \A x \in o.rows : \A i \in DOMAIN L : Field(x, L[i]) # Null
  BY <1>1, <1>4, LocatorIs
<1>6. r \in o.rows /\ q.locator = Cells(r, L)
  BY <1>1
<1>7. \A i \in DOMAIN L : cellAccepts(Field(r, L[i]))
  <2>1. SUFFICES ASSUME NEW i \in DOMAIN L
                 PROVE  cellAccepts(Field(r, L[i]))
    OBVIOUS
  <2>2. \A u \in ToSet(q.locator) : parameterAccepts(u)
    BY <1>1 DEF AnchorAccepts, anchor_rowAccepts, anchor_filterAccepts
  <2>3. q.locator[i] = cell(Field(r, L[i])) /\ i \in DOMAIN q.locator
    BY <1>6, CellsAre
  <2>4. parameterAccepts(cell(Field(r, L[i])))
    BY <2>2, <2>3 DEF ToSet
  <2>5. Field(r, L[i]) \in SqlValues
    BY <1>4, <1>6, FieldType
  <2> QED
    BY <2>4, <2>5, CellIs
<1>8. anchor_row(db, table, L, Cells(r, L)) = r
  BY <1>1, <1>4, <1>5, <1>6, <1>7, AnchorIs
<1> QED
  BY <1>1, <1>6, <1>8 DEF Anchor

\* What the row followed is shown with, and what the answer says of it.
Repeats(v, sh, columns, names) ==
  \A i \in DOMAIN columns : \A j \in DOMAIN names : names[j] = columns[i] => v.source_values[i] = sh[1].values[j]

\* The values of a row agree wherever they are shown.
LEMMA CellsRepeat ==
  ASSUME NEW r, NEW v, NEW sh, NEW columns, NEW names, v.source_values = Cells(r, columns),
         sh[1].values = Cells(r, names)
  PROVE  Repeats(v, sh, columns, names)
<1>1. SUFFICES ASSUME NEW i \in DOMAIN columns, NEW j \in DOMAIN names, names[j] = columns[i]
               PROVE  v.source_values[i] = sh[1].values[j]
  BY DEF Repeats
<1>2. v.source_values[i] = cell(Field(r, columns[i]))
  BY CellsAre
<1>3. sh[1].values[j] = cell(Field(r, names[j]))
  BY CellsAre
<1> QED
  BY <1>1, <1>2, <1>3

\* A row followed from the screen is the row the answer is about.
LEMMA DrillHolds ==
  ASSUME SessionInv
  PROVE  DrillbackFinds
<1>1. ASSUME view.op \in {"related", "referencing"}
      PROVE  /\ view.op = "related" =>
                  Repeats(view, shown, RelationOf(Tables, args.request.table, args.request.foreign_key).child_columns,
                          StoredNames(Tables[args.request.table]))
             /\ view.op = "referencing" =>
                  Repeats(view, shown, RelationOf(Tables, args.request.child_table, args.request.foreign_key).parent_columns,
                          StoredNames(Tables[args.request.table]))
  <2>1. view.op \notin {"idle", "refused"}
    BY <1>1
  <2>2. PICK db : AnswerOf(view, db, pinned, args)
    BY <2>1, OnScreen
  <2>3. args.op = view.op /\ IsCommand(args, pinned)
    BY <2>1, OnScreen
  <2>4. PICK v, a, q, tables, after : /\ v = view /\ a = args /\ q = a.request /\ tables = inventory(db)
                                      /\ after = pinned["after"]
    OBVIOUS
  <2>5. IsDatabase(db) /\ v.op # "refused" /\ v = main(db, after, a) /\ SelectionArguments(q)
    BY <1>1, <2>2, <2>3, <2>4 DEF AnswerOf, IsCommand
  <2>6. q.database_sha256 = sha(pinned[args.side])
    BY <1>1, <2>3, <2>4 DEF IsCommand, Paged, Scans
  <2>7. PICK c : c = Anchor(db, tables, q)
    OBVIOUS
  <2>8. PICK rel : rel = RelationFor(tables, a)
    OBVIOUS
  <2>9. PICK columns : columns = IF view.op = "related" THEN rel.child_columns ELSE rel.parent_columns
    OBVIOUS
  <2>10. /\ q.database_sha256 = db /\ selection_recipeAccepts(Bare(q.table), tables)
         /\ AnchorAccepts(db, tables, q) /\ v.source_values = Cells(c, columns)
    <3>1. CASE view.op = "related"
      <4>1. rel = RelationOf(tables, q.table, q.foreign_key) /\ a.op = "related" /\ columns = rel.child_columns
        BY <2>3, <2>4, <2>8, <2>9, <3>1 DEF RelationFor
      <4>2. PICK found, sel : found = ParentsOf(db, tables, rel, c) /\ sel = selection_recipe(Recipe(rel.parent, q), tables)
        OBVIOUS
      <4>3. SelectionArguments(a.request)
        BY <2>4, <2>5
      <4>4. q.database_sha256 = db
        BY <2>4, <2>5, <2>7, <4>1, <4>2, <4>3, RelatedIs
      <4>5. selection_recipeAccepts(Bare(q.table), tables) /\ AnchorAccepts(db, tables, q)
        BY <2>4, <2>5, <2>7, <4>1, <4>2, <4>3, RelatedIs
      <4>6. v.source_values = Cells(c, rel.child_columns)
        BY <2>4, <2>5, <2>7, <4>1, <4>2, <4>3, RelatedIs
      <4> QED
        BY <4>1, <4>4, <4>5, <4>6
    <3>2. CASE view.op = "referencing"
      <4>1. rel = RelationOf(tables, q.child_table, q.foreign_key) /\ a.op = "referencing" /\ columns = rel.parent_columns
        BY <2>3, <2>4, <2>8, <2>9, <3>2 DEF RelationFor
      <4>2. PICK sel : sel = selection_recipe(Recipe(q.child_table, q), tables)
        OBVIOUS
      <4>3. PICK found : found = ChildrenOf(db, tables, rel, c, sel)
        OBVIOUS
      <4>4. SelectionArguments(a.request)
        BY <2>4, <2>5
      <4>5. q.database_sha256 = db
        BY <2>4, <2>5, <2>7, <4>1, <4>2, <4>3, <4>4, ReferencingIs
      <4>6. selection_recipeAccepts(Bare(q.table), tables) /\ AnchorAccepts(db, tables, q)
        BY <2>4, <2>5, <2>7, <4>1, <4>2, <4>3, <4>4, ReferencingIs
      <4>7. v.source_values = Cells(c, rel.parent_columns)
        BY <2>4, <2>5, <2>7, <4>1, <4>2, <4>3, <4>4, ReferencingIs
      <4> QED
        BY <4>1, <4>5, <4>6, <4>7
    <3> QED
      BY <1>1, <3>1, <3>2
  <2>11. db = pinned[args.side] /\ tables = Tables
    BY <2>4, <2>6, <2>10 DEF sha, Tables, Db
  <2>12. PICK r \in Object(db, q.table).rows :
           shown[1].values = Cells(r, StoredNames(tables[q.table])) /\ q.locator = Cells(r, LocatorOf(tables[q.table]))
    <3>1. ShownOk(pinned, view, args, shown)
      BY DEF SessionInv, SessionOk
    <3>2. ShowsRow(shown, db, tables[q.table], a)
      BY <1>1, <2>2, <2>3, <2>4, <2>11, <3>1 DEF ShownOk
    <3> QED
      BY <2>4, <3>2 DEF ShowsRow
  <2>13. c = r
    BY <2>4, <2>5, <2>7, <2>10, <2>12, AnchorFinds
  <2>14. PICK names : names = StoredNames(tables[q.table])
    OBVIOUS
  <2>15. Repeats(v, shown, columns, names)
    BY <2>10, <2>12, <2>13, <2>14, CellsRepeat
  <2>16. view.op = "related" => columns = RelationOf(Tables, args.request.table, args.request.foreign_key).child_columns
    BY <2>3, <2>4, <2>8, <2>9, <2>11 DEF RelationFor
  <2>17. view.op = "referencing" =>
           columns = RelationOf(Tables, args.request.child_table, args.request.foreign_key).parent_columns
    BY <2>3, <2>4, <2>8, <2>9, <2>11 DEF RelationFor
  <2> QED
    BY <2>4, <2>11, <2>14, <2>15, <2>16, <2>17
<1> QED
  BY <1>1 DEF DrillbackFinds, Answered, Repeats

\* A row on a page of rows is a selected row, and every cell of it can be shown.
ShowsSelected(v, db, sel, i) ==
  \E r \in Filtered(db, sel) : v.page.rows[i] = RowCells(r, sel) /\ RowAccepts(r, sel)

\* Every row of a page of rows is one.
LEMMA PageRowIs ==
  ASSUME NEW v, NEW db, NEW s, NEW a, AnswerOf(v, db, s, a), a.op = "rows",
         NEW sel, sel = selection_recipe(a.recipe, inventory(db)), NEW i \in DOMAIN v.page.rows
  PROVE  ShowsSelected(v, db, sel, i)
<1>1. PICK after : after = s["after"]
  OBVIOUS
<1>2. IsDatabase(db) /\ v = main(db, after, a) /\ v.op # "refused" /\ SelectionArguments(a.recipe)
  BY <1>1 DEF AnswerOf, IsCommand
<1>3. IsPageOf(v.page, db, Filtered(db, sel), a.recipe, sel, a.offset, a.limit)
  BY <1>2, RowsIs
<1>4. PICK F, w, n, o : /\ F = Filtered(db, sel) /\ w = InOrder(F, sel) /\ n = Cardinality(F) /\ o = a.offset
  OBVIOUS
<1>5. IsOrdered(F, sel) /\ IsFiniteSet(F) /\ PageShows(v.page, w, n, sel, o, a.limit)
  BY <1>3, <1>4 DEF IsPageOf
<1>6. i \in 1 .. Len(v.page.rows) /\ o + i \in 1 .. n /\ v.page.rows[i] = RowCells(w[o + i], sel)
  BY <1>5 DEF PageShows
<1>7. RowAccepts(w[o + i], sel)
  BY <1>3, <1>4, <1>6 DEF IsPageOf
<1>8. w \in [1 .. n -> F]
  BY <1>4, <1>5, InOrderLists
<1>9. w[o + i] \in F
  BY <1>6, <1>8
<1> QED
  BY <1>4, <1>6, <1>7, <1>9 DEF ShowsSelected

\* The table of an accepted selection, and the locator that tells its rows apart.
Locates(o, L) ==
  /\ IsSequence(L) /\ RowsTyped(o)
  /\ \A x, y \in o.rows : x # y => \E i \in DOMAIN L : SortKey(Field(x, L[i])) # SortKey(Field(y, L[i]))
  /\ \A x \in o.rows : \A i \in DOMAIN L : Field(x, L[i]) # Null

\* The locator of a selectable table tells its rows apart.
LEMMA LocatorLocates ==
  ASSUME NEW db, IsDatabase(db), NEW recipe, selection_recipeAccepts(recipe, inventory(db)),
         NEW o, o = Object(db, recipe.table), NEW L, L = LocatorOf(inventory(db)[recipe.table])
  PROVE  Locates(o, L)
<1>1. PICK t : t = inventory(db)[recipe.table]
  OBVIOUS
<1>2. /\ t.columns = o.columns /\ t.without_rowid = o.without_rowid
      /\ IsSequence(o.columns) /\ RowsTyped(o) /\ KeysDiffer(o) /\ KeysPresent(o) /\ L # <<>>
  BY <1>1, SelectedTable
<1> QED
  BY <1>1, <1>2, LocatorIs DEF Locates

\* The locator of an accepted row finds the row.
LEMMA LocatorFinds ==
  ASSUME NEW db, NEW table, NEW o, o = Object(db, table), NEW sel, Locates(o, sel.locator),
         NEW r \in o.rows, RowAccepts(r, sel)
  PROVE  /\ anchor_rowAccepts(db, table, sel.locator, Cells(r, sel.locator))
         /\ anchor_row(db, table, sel.locator, Cells(r, sel.locator)) = r
<1>1. PICK L : L = sel.locator
  OBVIOUS
<1>2. \A i \in DOMAIN L : cellAccepts(Field(r, L[i]))
  BY <1>1 DEF RowAccepts, ToSet
<1>3. /\ IsSequence(L) /\ RowsTyped(o)
      /\ \A x, y \in o.rows : x # y => \E i \in DOMAIN L : SortKey(Field(x, L[i])) # SortKey(Field(y, L[i]))
      /\ \A x \in o.rows : \A i \in DOMAIN L : Field(x, L[i]) # Null
  BY <1>1 DEF Locates
<1>4. anchor_rowAccepts(db, table, L, Cells(r, L)) /\ anchor_row(db, table, L, Cells(r, L)) = r
  BY <1>2, <1>3, AnchorIs
<1> QED
  BY <1>1, <1>4

\* The answer of rows on the database that the reviewer pinned.
LEMMA PinnedRows ==
  ASSUME SessionInv, view.op = "rows", OnPinned
  PROVE  /\ AnswerOf(view, Db, pinned, args) /\ args.op = "rows" /\ IsDatabase(Db)
         /\ view.page.selection = selection_recipe(args.recipe, Tables)
         /\ selection_recipeAccepts(args.recipe, Tables)
<1>1. view.op \notin {"idle", "refused"}
  OBVIOUS
<1>2. PICK db : AnswerOf(view, db, pinned, args)
  BY <1>1, OnScreen
<1>3. args.op = "rows"
  BY <1>1, OnScreen
<1>4. PICK v, a, after, sel : v = view /\ a = args /\ after = pinned["after"] /\ sel = selection_recipe(a.recipe, inventory(db))
  OBVIOUS
<1>5. IsDatabase(db) /\ v = main(db, after, a) /\ v.op # "refused" /\ SelectionArguments(a.recipe) /\ a.op = "rows"
  BY <1>2, <1>3, <1>4 DEF AnswerOf, IsCommand
<1>6. v.database_sha256 = db /\ IsPageOf(v.page, db, Filtered(db, sel), a.recipe, sel, a.offset, a.limit)
  BY <1>4, <1>5, RowsIs
<1>7. db = Db /\ inventory(db) = Tables
  BY <1>4, <1>6 DEF OnPinned, Tables, sha
<1>8. v.page.selection = sel /\ selection_recipeAccepts(a.recipe, inventory(db))
  BY <1>6 DEF IsPageOf, PageShows
<1> QED
  BY <1>2, <1>3, <1>4, <1>5, <1>7, <1>8

\* A locator that rows shows identifies the row shown.
LEMMA LocatorHolds ==
  ASSUME SessionInv
  PROVE  LocatorUnique
<1>1. SUFFICES ASSUME view.op = "rows", OnPinned, NEW i \in DOMAIN view.page.rows,
                      NEW sel, sel = view.page.selection
               PROVE  /\ anchor_rowAccepts(Db, sel.table, sel.locator, view.page.rows[i].locator)
                      /\ RowCells(anchor_row(Db, sel.table, sel.locator, view.page.rows[i].locator), sel)
                           = view.page.rows[i]
  BY DEF LocatorUnique, Answered
<1>2. /\ AnswerOf(view, Db, pinned, args) /\ args.op = "rows" /\ IsDatabase(Db)
      /\ sel = selection_recipe(args.recipe, Tables) /\ selection_recipeAccepts(args.recipe, Tables)
  BY <1>1, PinnedRows
<1>3. PICK v, a, db : v = view /\ a = args /\ db = Db
  OBVIOUS
<1>4. ShowsSelected(v, db, sel, i)
  BY <1>1, <1>2, <1>3, PageRowIs DEF Tables
<1>5. PICK r \in Filtered(db, sel) : v.page.rows[i] = RowCells(r, sel) /\ RowAccepts(r, sel)
  BY <1>4 DEF ShowsSelected
<1>6. PICK recipe, o : recipe = a.recipe /\ o = Object(db, recipe.table)
  OBVIOUS
<1>7. sel.table = recipe.table /\ sel.locator = LocatorOf(inventory(db)[recipe.table])
  BY <1>2, <1>3, <1>6, SelectionIs DEF Tables
<1>8. Locates(o, sel.locator)
  BY <1>2, <1>3, <1>6, <1>7, LocatorLocates DEF Tables
<1>9. r \in o.rows
  BY <1>5, <1>6, <1>7 DEF Filtered
<1>10. v.page.rows[i].locator = Cells(r, sel.locator)
  BY <1>5 DEF RowCells
<1>11. PICK table : table = sel.table
  OBVIOUS
<1>12. o = Object(db, table)
  BY <1>6, <1>7, <1>11
<1>13. /\ anchor_rowAccepts(db, table, sel.locator, Cells(r, sel.locator))
       /\ anchor_row(db, table, sel.locator, Cells(r, sel.locator)) = r
  BY <1>5, <1>8, <1>9, <1>12, LocatorFinds
<1> QED
  BY <1>3, <1>5, <1>10, <1>11, <1>13

\* The filter that asks for a value as it is shown.
ValueFilter(column, value) ==
  [column |-> column, op |-> "eq", value |-> value, upper |-> value, low |-> TRUE, high |-> TRUE]

\* The fields of that filter.
LEMMA ValueFilterFields ==
  ASSUME NEW column, NEW value, NEW f, f = ValueFilter(column, value)
  PROVE  f.column = column /\ f.op = "eq" /\ f.value = value
  BY Zenon DEF ValueFilter

\* The filter for a value that can be shown is accepted and matches the value.
LEMMA ValueFilterIs ==
  ASSUME NEW column, NEW v \in SqlValues, cellAccepts(v), NEW f, f.column = column, f.op = "eq", f.value = cell(v)
  PROVE  filterAccepts(f) /\ filterMatches(f, v)
<1>1. parameterAccepts(cell(v)) /\ parameter(cell(v)) = v /\ cell(v).type = v.kind
  BY CellIs
<1>2. filterAccepts(f)
  BY <1>1 DEF filterAccepts, Thresholds
<1>3. filterMatches(f, v)
  BY <1>1 DEF filterMatches
<1> QED
  BY <1>2, <1>3

\* A list of one.
LEMMA OneListed ==
  ASSUME NEW f, NEW where, where = <<f>>
  PROVE  ToSet(where) = {f} /\ Len(where) = 1
  BY DEF ToSet

\* One accepted filter of a table that can be read is an accepted selection.
LEMMA FilterSelects ==
  ASSUME NEW recipe, NEW tables, selection_recipeAccepts(recipe, tables), NEW t, t = tables[recipe.table],
         NEW f, f.column \in ToSet(StoredNames(t)), filterAccepts(f), NEW where, ToSet(where) = {f}, Len(where) = 1,
         NEW asked, asked = Selecting(recipe.table, <<>>, where)
  PROVE  selection_recipeAccepts(asked, tables)
<1>1. asked.table = recipe.table /\ asked.columns = <<>> /\ asked.where = where /\ asked.order_by = <<>>
  BY SelectingIs
<1>2. PICK available : available = ToSet(StoredNames(t))
  OBVIOUS
<1>3. /\ recipe.table \in DOMAIN tables /\ LocatorOf(t) # <<>> 
      /\ t.without_rowid => ToSet(LocatorOf(t)) \subseteq available
  BY <1>2, AcceptedSelection
<1>4. t.row_selection_supported
  BY Zenon DEF selection_recipeAccepts
<1>5. ToSet(asked.columns) \subseteq available /\ Len(asked.columns) <= MaxColumns /\ available # {}
  BY <1>1, <1>2, EmptySequence, ReaderAssumption
<1>6. Len(asked.where) <= MaxFilters /\ \A g \in ToSet(asked.where) : g.column \in available /\ filterAccepts(g)
  <2>1. MaxFilters \in Nat \ {0}
    BY ReaderAssumption
  <2>2. Len(asked.where) <= MaxFilters
    <3>1. Len(asked.where) = Len(where)
      BY <1>1, Zenon
    <3>2. PICK n : n = Len(asked.where)
      OBVIOUS
    <3>3. n = 1
      BY <3>1, <3>2
    <3>4. n <= MaxFilters
      BY <2>1, <3>3
    <3> QED
      BY <3>2, <3>4
  <2>3. ToSet(asked.where) = {f}
    BY <1>1
  <2>4. \A g \in ToSet(asked.where) : g = f
    BY <2>3
  <2>5. f.column \in available
    BY <1>2
  <2> QED
    BY <2>2, <2>4, <2>5
<1>7. Len(asked.order_by) <= MaxOrder
  BY <1>1, EmptySequence, ReaderAssumption
<1>8. \A o \in ToSet(asked.order_by) : o.column \in available /\ o.direction \in {"asc", "desc"}
  BY <1>1, EmptySequence
<1>9. Distinct(asked.columns)
  BY <1>1, EmptySequence, FS_EmptySet DEF Distinct
<1>10. Distinct([i \in DOMAIN asked.order_by |-> asked.order_by[i].column])
  <2>1. PICK names : names = [i \in DOMAIN asked.order_by |-> asked.order_by[i].column]
    OBVIOUS
  <2>2. names = <<>>
    BY <1>1, <2>1, EmptySequence
  <2>3. Distinct(names)
    BY <2>2, EmptySequence, FS_EmptySet DEF Distinct
  <2> QED
    BY <2>1, <2>3
<1> QED
  BY <1>1, <1>2, <1>3, <1>4, <1>5, <1>6, <1>7, <1>8, <1>9, <1>10 DEF selection_recipeAccepts

\* The columns a selection shows are columns of its table.
LEMMA SelectedColumns ==
  ASSUME NEW recipe, NEW tables, selection_recipeAccepts(recipe, tables), NEW sel, sel = selection_recipe(recipe, tables)
  PROVE  ToSet(sel.columns) \subseteq ToSet(StoredNames(tables[recipe.table]))
<1>1. ToSet(recipe.columns) \subseteq ToSet(StoredNames(tables[recipe.table]))
  BY AcceptedSelection
<1>2. sel.columns = StoredNames(tables[recipe.table]) \/ sel.columns = recipe.columns
  BY SelectionIs
<1> QED
  BY <1>1, <1>2

\* A value on the screen selects the row that showed it.
Selects(db, tables, sel, row, f) ==
  LET recipe == Selecting(sel.table, <<>>, <<f>>) IN
  /\ selection_recipeAccepts(recipe, tables)
  /\ \E r \in Filtered(db, selection_recipe(recipe, tables)) : Cells(r, sel.locator) = row.locator

\* So a value on the screen selects its row.
LEMMA ValueSelects ==
  ASSUME NEW db, IsDatabase(db), NEW tables, tables = inventory(db), NEW recipe,
         selection_recipeAccepts(recipe, tables), NEW sel, sel = selection_recipe(recipe, tables),
         NEW r \in Filtered(db, sel), RowAccepts(r, sel), NEW row, row = RowCells(r, sel),
         NEW j \in DOMAIN sel.columns, NEW f, f.column = sel.columns[j], f.op = "eq", f.value = row.values[j]
  PROVE  Selects(db, tables, sel, row, f)
<1>1. PICK o, t, column, v : /\ o = Object(db, recipe.table) /\ t = tables[recipe.table] /\ column = sel.columns[j]
                             /\ v = Field(r, column)
  OBVIOUS
<1>2. sel.table = recipe.table
  BY SelectionIs
<1>3. RowsTyped(o) /\ r \in o.rows
  <2>1. RowsTyped(o)
    BY <1>1, SelectedTable
  <2> QED
    BY <1>1, <1>2, <2>1 DEF Filtered
<1>4. column \in ToSet(sel.columns)
  BY <1>1 DEF ToSet
<1>5. column \in ToSet(StoredNames(t))
  BY <1>1, <1>4, SelectedColumns
<1>6. v \in SqlValues /\ cellAccepts(v)
  BY <1>1, <1>3, <1>4, FieldType DEF RowAccepts
<1>7. row.values = Cells(r, sel.columns) /\ row.locator = Cells(r, sel.locator)
  BY DEF RowCells
<1>8. f.value = cell(v)
  BY <1>1, <1>7, CellsAre
<1>9. filterAccepts(f) /\ filterMatches(f, v) /\ f.column = column
  BY <1>1, <1>6, <1>8, ValueFilterIs
<1>10. PICK where : where = <<f>>
  OBVIOUS
<1>11. ToSet(where) = {f} /\ Len(where) = 1
  BY <1>10, OneListed
<1>12. PICK asked, found : asked = Selecting(recipe.table, <<>>, where) /\ found = selection_recipe(asked, tables)
  OBVIOUS
<1>13. selection_recipeAccepts(asked, tables)
  BY <1>1, <1>5, <1>9, <1>11, <1>12, FilterSelects
<1>14. found.table = recipe.table /\ found.where = where
  <2>1. asked.table = recipe.table /\ asked.where = where
    BY <1>12, SelectingIs
  <2> QED
    BY <1>12, <2>1, SelectionIs
<1>15. r \in Filtered(db, found)
  BY <1>1, <1>3, <1>9, <1>11, <1>14 DEF Filtered
<1> QED
  BY <1>2, <1>7, <1>10, <1>12, <1>13, <1>15 DEF Selects

\* A value on the screen can be put into a filter as it stands.
LEMMA ValueHolds ==
  ASSUME SessionInv
  PROVE  ShownValueSelects
<1>1. ASSUME view.op = "rows", OnPinned, NEW i \in DOMAIN view.page.rows,
             NEW sel, sel = view.page.selection, NEW j \in DOMAIN sel.columns, NEW f,
             f = ValueFilter(sel.columns[j], view.page.rows[i].values[j])
      PROVE  Selects(Db, Tables, sel, view.page.rows[i], f)
  <2>1. /\ AnswerOf(view, Db, pinned, args) /\ args.op = "rows" /\ IsDatabase(Db)
        /\ sel = selection_recipe(args.recipe, Tables) /\ selection_recipeAccepts(args.recipe, Tables)
    BY <1>1, PinnedRows
  <2>2. PICK v, a, db, tables, row : v = view /\ a = args /\ db = Db /\ tables = Tables /\ row = view.page.rows[i]
    OBVIOUS
  <2>3. tables = inventory(db)
    BY <2>2 DEF Tables
  <2>4. ShowsSelected(v, db, sel, i)
    BY <1>1, <2>1, <2>2, PageRowIs DEF Tables
  <2>5. PICK r \in Filtered(db, sel) : row = RowCells(r, sel) /\ RowAccepts(r, sel)
    BY <2>2, <2>4 DEF ShowsSelected
  <2>6. f.column = sel.columns[j] /\ f.op = "eq" /\ f.value = row.values[j]
    BY <1>1, <2>2, ValueFilterFields
  <2>7. PICK recipe : recipe = args.recipe
    OBVIOUS
  <2>8. IsDatabase(db) /\ sel = selection_recipe(recipe, tables) /\ selection_recipeAccepts(recipe, tables)
    BY <2>1, <2>2, <2>7
  <2>9. Selects(db, tables, sel, row, f)
    BY <1>1, <2>3, <2>5, <2>6, <2>8, ValueSelects
  <2> QED
    BY <2>2, <2>9
<1> QED
  BY <1>1, Zenon DEF ShownValueSelects, Answered, Selects, ValueFilter

\* The order of a result depends on the columns it is ordered by and the locator.
LEMMA SameOrder ==
  ASSUME NEW rows, NEW x, NEW y, x.order_by = y.order_by, x.locator = y.locator
  PROVE  InOrder(rows, x) = InOrder(rows, y)
<1>1. Ordering(x) = Ordering(y)
  BY DEF Ordering
<1> QED
  BY <1>1 DEF InOrder

\* groups: a group for the key of every row, with the rows that have it.
LEMMA GroupsAre ==
  ASSUME NEW w, NEW q, NEW sel, NEW G, G = groups(w, q, sel), NEW key \in DOMAIN G
  PROVE  /\ \E r \in ToSet(w) : key = Cells(r, q.group_by)
         /\ G[key].row_count = Len(OfGroup(w, q, key))
         /\ G[key].locators = Locators(OfGroup(w, q, key), sel)
<1>1. DOMAIN G = {Cells(r, q.group_by) : r \in ToSet(w)}
  BY Zenon DEF groups
<1>2. \E r \in ToSet(w) : key = Cells(r, q.group_by)
  BY <1>1
<1>3. G[key].row_count = Len(OfGroup(w, q, key))
  BY <1>1, Zenon DEF groups
<1>4. G[key].locators = Locators(OfGroup(w, q, key), sel)
  BY <1>1, Zenon DEF groups
<1> QED
  BY <1>2, <1>3, <1>4

\* The key of an accepted row is a canonical one.
LEMMA KeyAccepted ==
  ASSUME NEW r, NEW names, IsSequence(names), NEW key, key = Cells(r, names),
         \A name \in ToSet(names) : Field(r, name) \in SqlValues /\ cellAccepts(Field(r, name))
  PROVE  group_keyAccepts(key, Len(names))
<1>1. Len(key) = Len(names)
  BY CellsSequence
<1>2. ASSUME NEW t \in ToSet(key)
      PROVE  parameterAccepts(t) /\ cell(parameter(t)) = t
  <2>1. PICK i \in DOMAIN key : t = key[i]
    BY <1>2 DEF ToSet
  <2>2. PICK v : v = Field(r, names[i])
    OBVIOUS
  <2>3. i \in DOMAIN names /\ t = cell(v)
    BY <2>1, <2>2, CellsAre
  <2>4. v \in SqlValues /\ cellAccepts(v)
    BY <2>2, <2>3 DEF ToSet
  <2> QED
    BY <2>3, <2>4, CellIs
<1> QED
  BY <1>1, <1>2 DEF group_keyAccepts

\* Another spelling of a key: what is not canonical is refused.
Spelt(key) == [i \in DOMAIN key |-> [type |-> key[i].type, num |-> key[i].num,
                                     form |-> IF key[i].type = "real" THEN 1 ELSE key[i].form]]

\* A spelling that is accepted is the one that was shown.
LEMMA SpeltRefused ==
  ASSUME NEW r, NEW names, NEW key, key = Cells(r, names), NEW width, group_keyAccepts(Spelt(key), width)
  PROVE  Spelt(key) = key
<1>1. PICK u : u = Spelt(key)
  OBVIOUS
<1>2. DOMAIN u = DOMAIN key
  BY <1>1 DEF Spelt
<1>3. ASSUME NEW i \in DOMAIN key
      PROVE  u[i] = key[i]
  <2>1. u[i] = [type |-> key[i].type, num |-> key[i].num,
                form |-> IF key[i].type = "real" THEN 1 ELSE key[i].form]
    BY <1>1, <1>3 DEF Spelt
  <2>2. cell(parameter(u[i])) = u[i]
    BY <1>1, <1>2, <1>3 DEF group_keyAccepts, ToSet
  <2>3. u[i].type # "real"
    <3>1. SUFFICES ASSUME u[i].type = "real"
                   PROVE  FALSE
      OBVIOUS
    <3>2. u[i].form = 1
      BY <2>1, <3>1
    <3>3. parameter(u[i]).form = 0
      BY <3>1 DEF parameter
    <3>4. cell(parameter(u[i])).form = 0
      BY <3>3 DEF cell
    <3> QED
      BY <2>2, <3>2, <3>4
  <2>4. key[i] = cell(Field(r, names[i]))
    BY <1>3, CellsAre
  <2>5. key[i] = [type |-> key[i].type, num |-> key[i].num, form |-> key[i].form]
    BY <2>4 DEF cell
  <2> QED
    BY <2>1, <2>3, <2>5
<1>4. key = [i \in DOMAIN key |-> key[i]]
  BY DEF Cells
<1>5. u = [i \in DOMAIN u |-> u[i]]
  BY <1>1 DEF Spelt
<1> QED
  BY <1>1, <1>2, <1>3, <1>4, <1>5

\* The members of a group are found by its key and shown in the order of the summary.
OpensAs(m, g) ==
  /\ m.op = "group-rows" /\ m.total_group_rows = g.row_count
  /\ LocatorsOf(m.page.rows) = SubSeq(g.locators, 1, Len(m.page.rows))

\* The first page of a group shows the first of its locators.
LEMMA GroupShows ==
  ASSUME NEW page, NEW of, IsSequence(of), NEW S, NEW M, S.locator = M.locator, NEW limit,
         PageShows(page, of, Len(of), M, 0, limit), NEW locators, locators = Locators(of, S)
  PROVE  LocatorsOf(page.rows) = SubSeq(locators, 1, Len(page.rows))
<1>1. PICK n, k, zero : n = Len(of) /\ k = Len(page.rows) /\ zero = 0
  OBVIOUS
<1>2. PageShows(page, of, n, M, zero, limit)
  BY <1>1
<1>3. n \in Nat /\ DOMAIN of = 1 .. n
  BY <1>1, SequenceIs
<1>4. k \in Nat /\ DOMAIN page.rows = 1 .. k /\ \A i \in 1 .. k : zero + i \in 1 .. n /\ page.rows[i] = RowCells(of[zero + i], M)
  BY <1>1, <1>2 DEF PageShows
<1>5. \A i \in 1 .. k : i \in 1 .. n /\ page.rows[i] = RowCells(of[i], M)
  BY <1>1, <1>4
<1>6. locators = [i \in 1 .. n |-> Cells(of[i], S.locator)]
  BY <1>3 DEF Locators
<1>7. IsSequence(locators) /\ Len(locators) = n /\ DOMAIN locators = 1 .. n
  BY <1>3, <1>6, SegmentSequence
<1>8. k <= n
  BY <1>3, <1>4, <1>5
<1>9. ASSUME NEW i \in 1 .. k
      PROVE  page.rows[i].locator = locators[i]
  <2>1. i \in 1 .. n /\ page.rows[i] = RowCells(of[i], M)
    BY <1>5, <1>9
  <2>2. page.rows[i].locator = Cells(of[i], M.locator)
    BY <2>1 DEF RowCells
  <2>3. locators[i] = Cells(of[i], S.locator)
    BY <1>6, <2>1
  <2> QED
    BY <2>2, <2>3
<1>10. LocatorsOf(page.rows) = [i \in 1 .. k |-> locators[i]]
  BY <1>4, <1>9 DEF LocatorsOf
<1>11. SubSeq(locators, 1, k) = [i \in 1 .. k |-> locators[i]]
  BY <1>3, <1>4, <1>7, <1>8
<1> QED
  BY <1>1, <1>10, <1>11

\* A summary reads the columns it groups by.
LEMMA GroupColumns ==
  ASSUME NEW q, IsSequence(q.group_by), IsSequence(q.measures), NEW name \in ToSet(q.group_by)
  PROVE  name \in ToSet(SummaryColumns(q)) /\ SummaryColumns(q) # <<>>
<1>1. PICK x, at : x = q.group_by /\ at = {i \in DOMAIN q.measures : q.measures[i] \notin ToSet(q.group_by)}
  OBVIOUS
<1>2. PICK y, z : y = Picked(q.measures, at) /\ z = SummaryColumns(q)
  OBVIOUS
<1>3. z = x \o y
  BY <1>1, <1>2 DEF SummaryColumns
<1>4. IsSequence(x) /\ IsSequence(y)
  <2>1. at \subseteq DOMAIN q.measures
    BY <1>1
  <2> QED
    BY <1>1, <1>2, <2>1, PickedSequence
<1>5. /\ Len(x) \in Nat /\ Len(y) \in Nat /\ DOMAIN z = 1 .. (Len(x) + Len(y))
      /\ \A i \in 1 .. Len(x) : z[i] = x[i]
  BY <1>3, <1>4, PartsMeet, SequenceIs
<1>6. PICK i \in 1 .. Len(x) : name = x[i]
  BY <1>1, <1>4, SequenceIs
<1>7. i \in DOMAIN z /\ z[i] = name
  BY <1>5, <1>6
<1>8. name \in ToSet(z)
  BY <1>7 DEF ToSet
<1>9. z # <<>>
  BY <1>8, EmptySequence
<1> QED
  BY <1>2, <1>8, <1>9

\* Opening a group of a summary, on the database that was summarized.
LEMMA GroupOpens ==
  ASSUME NEW db, IsDatabase(db), NEW tables, tables = inventory(db), NEW q, IsSequence(q.group_by), IsSequence(q.measures),
         NEW v, v = summarize(db, tables, q), v.op # "refused", NEW key \in DOMAIN v.groups,
         NEW M, M = MembersOf(q, tables), NEW m, m = group_rows(db, tables, q, key, 0, MaxLimit)
  PROVE  /\ (\A r \in Filtered(db, M) : RowAccepts(r, M)) => OpensAs(m, v.groups[key])
         /\ ~(\A r \in Filtered(db, M) : RowAccepts(r, M)) => m.op = "refused"
<1>1. PICK S, F : S = SummaryOf(q, tables) /\ F = Filtered(db, S)
  OBVIOUS
<1>2. PICK w : w = InOrder(F, S)
  OBVIOUS
<1>3. /\ summary_recipeAccepts(q, db, tables) /\ v.groups = groups(w, q, S)
      /\ Cardinality(F) <= MaxRows /\ \A r \in F : RowAccepts(r, S)
  BY <1>1, <1>2, SummarizeIs
<1>4. /\ S.table = q.table /\ S.where = q.where /\ S.order_by = <<>> /\ S.locator = LocatorOf(tables[q.table])
      /\ SummaryColumns(q) # <<>> => S.columns = SummaryColumns(q)
  BY <1>1, SummarySelection
<1>5. M.table = q.table /\ M.where = q.where /\ M.order_by = <<>> /\ M.locator = LocatorOf(tables[q.table])
  BY MembersSelection
<1>6. F = Filtered(db, M)
  BY <1>1, <1>4, <1>5, SameFiltered
<1>7. w = InOrder(F, M)
  BY <1>2, <1>4, <1>5, SameOrder
<1>8. PICK of : of = OfGroup(w, q, key)
  OBVIOUS
<1>9. /\ \E r \in ToSet(w) : key = Cells(r, q.group_by)
      /\ v.groups[key].row_count = Len(of) /\ v.groups[key].locators = Locators(of, S)
  BY <1>3, <1>8, GroupsAre
<1>10. PICK s : s = scan(db, S)
  OBVIOUS
<1>11. F \subseteq Object(db, q.table).rows /\ IsSequence(w) /\ ToSet(w) = F
  BY <1>1, <1>2, <1>3, <1>4, <1>10, SummaryScan
<1>12. group_keyAccepts(key, Len(q.group_by))
  <2>1. PICK r \in F : key = Cells(r, q.group_by)
    BY <1>9, <1>11
  <2>2. RowsTyped(Object(db, q.table))
    <3>1. PICK recipe : recipe = Selecting(q.table, SummaryColumns(q), q.where)
      OBVIOUS
    <3>2. recipe.table = q.table /\ selection_recipeAccepts(recipe, inventory(db))
      BY <1>3, <3>1, SummaryAccepted, SelectingIs
    <3> QED
      BY <3>2, SelectedTable
  <2>3. ASSUME NEW name \in ToSet(q.group_by)
        PROVE  Field(r, name) \in SqlValues /\ cellAccepts(Field(r, name))
    <3>1. r \in Object(db, q.table).rows
      BY <1>11, <2>1
    <3>2. Field(r, name) \in SqlValues
      BY <2>2, <3>1, FieldType
    <3>3. name \in ToSet(SummaryColumns(q)) /\ SummaryColumns(q) # <<>>
      BY <2>3, GroupColumns
    <3>4. name \in ToSet(S.columns)
      BY <1>4, <3>3
    <3>5. RowAccepts(r, S)
      BY <1>3, <2>1
    <3> QED
      BY <3>2, <3>4, <3>5 DEF RowAccepts
  <2> QED
    BY <2>1, <2>3, KeyAccepted
<1>13. PICK zero, limit : zero = 0 /\ limit = MaxLimit
  OBVIOUS
<1>14. m = group_rows(db, tables, q, key, zero, limit) /\ zero \in Nat /\ limit \in Nat \ {0}
  BY <1>13, ReaderAssumption
<1>15. PICK page : page = GroupPage(of, M, zero, limit)
  OBVIOUS
<1>16. /\ m = Refused \/ m = GroupAnswer(db, q, key, of, Cardinality(F), page)
       /\ m # Refused <=> /\ summary_recipeAccepts(q, db, tables) /\ group_keyAccepts(key, Len(q.group_by))
                           /\ Cardinality(F) <= MaxRows /\ \A r \in F : RowAccepts(r, M)
  BY <1>6, <1>7, <1>8, <1>14, <1>15, GroupRowsIs
<1>17. ASSUME \A r \in F : RowAccepts(r, M)
       PROVE  OpensAs(m, v.groups[key])
  <2>1. m = GroupAnswer(db, q, key, of, Cardinality(F), page)
    BY <1>3, <1>12, <1>16, <1>17
  <2>2. m.op = "group-rows" /\ m.total_group_rows = Len(of) /\ m.page = page
    BY <2>1, GroupAnswerIs
  <2>3. IsSequence(of)
    BY <1>8, <1>11, OfGroupIs
  <2>4. PageShows(page, of, Len(of), M, zero, limit)
    BY <1>14, <1>15, <2>3, GroupPageIs
  <2>5. PICK locators : locators = Locators(of, S)
    OBVIOUS
  <2>6. LocatorsOf(page.rows) = SubSeq(locators, 1, Len(page.rows))
    BY <1>4, <1>5, <1>13, <2>3, <2>4, <2>5, GroupShows
  <2> QED
    BY <1>9, <2>2, <2>5, <2>6 DEF OpensAs
<1>18. ASSUME ~(\A r \in F : RowAccepts(r, M))
       PROVE  m.op = "refused"
  <2>1. m = Refused
    BY <1>16, <1>18
  <2> QED
    BY <2>1 DEF Refused
<1> QED
  BY <1>6, <1>17, <1>18

\* What opening a group of the summary on the screen answers, by its key and
\* by another spelling of it.
GroupFound(db, tables, q, g, key) ==
  IF \A r \in Filtered(db, MembersOf(q, tables)) : RowAccepts(r, MembersOf(q, tables))
  THEN OpensAs(group_rows(db, tables, q, key, 0, MaxLimit), g)
  ELSE group_rows(db, tables, q, key, 0, MaxLimit).op = "refused"
GroupCounted(m, g) == m.op # "refused" => m.total_group_rows = g.row_count

\* Every group of a summary opens so, or is refused.
LEMMA GroupAnswers ==
  ASSUME NEW db, IsDatabase(db), NEW tables, tables = inventory(db), NEW q, IsSequence(q.group_by), IsSequence(q.measures),
         NEW v, v = summarize(db, tables, q), v.op # "refused", NEW key \in DOMAIN v.groups
  PROVE  /\ GroupFound(db, tables, q, v.groups[key], key)
         /\ GroupCounted(group_rows(db, tables, q, Spelt(key), 0, MaxLimit), v.groups[key])
<1>1. PICK M, m, g : M = MembersOf(q, tables) /\ m = group_rows(db, tables, q, key, 0, MaxLimit) /\ g = v.groups[key]
  OBVIOUS
<1>2. /\ (\A r \in Filtered(db, M) : RowAccepts(r, M)) => OpensAs(m, g)
      /\ ~(\A r \in Filtered(db, M) : RowAccepts(r, M)) => m.op = "refused"
  BY <1>1, GroupOpens
<1>3. GroupFound(db, tables, q, g, key)
  BY <1>1, <1>2 DEF GroupFound
<1>4. GroupCounted(m, g)
  BY <1>2 DEF GroupCounted, OpensAs
<1>5. PICK k, u : k = Spelt(key) /\ u = group_rows(db, tables, q, k, 0, MaxLimit)
  OBVIOUS
<1>6. GroupCounted(u, g)
  <2>1. CASE group_keyAccepts(k, Len(q.group_by))
    <3>1. PICK r : key = Cells(r, q.group_by)
      <4>1. PICK S : S = SummaryOf(q, tables)
        OBVIOUS
      <4>2. PICK w : v.groups = groups(w, q, S)
        BY <4>1, SummarizeIs
      <4> QED
        BY <4>2, GroupsAre
    <3>2. k = key
      BY <1>5, <2>1, <3>1, SpeltRefused
    <3> QED
      BY <1>1, <1>4, <1>5, <3>2
  <2>2. CASE ~group_keyAccepts(k, Len(q.group_by))
    <3>1. u = Refused
      BY <1>5, <2>2 DEF group_rows
    <3> QED
      BY <3>1 DEF GroupCounted, Refused
  <2> QED
    BY <2>1, <2>2
<1> QED
  BY <1>1, <1>3, <1>5, <1>6

\* A group that a summary lists means the rows it was computed from.
LEMMA GroupHolds ==
  ASSUME SessionInv
  PROVE  GroupMeansItsRows
<1>1. ASSUME view.op = "summarize", NEW key \in DOMAIN view.groups
      PROVE  /\ GroupFound(Db, Tables, view.request, view.groups[key], key)
             /\ GroupCounted(group_rows(Db, Tables, view.request, Spelt(key), 0, MaxLimit), view.groups[key])
  <2>1. view.op \notin {"idle", "refused"}
    BY <1>1
  <2>2. PICK db : AnswerOf(view, db, pinned, args)
    BY <2>1, OnScreen
  <2>3. args.op = "summarize" /\ IsCommand(args, pinned)
    BY <1>1, <2>1, OnScreen
  <2>4. PICK v, q, tables, after : v = view /\ q = args.request /\ tables = inventory(db) /\ after = pinned["after"]
    OBVIOUS
  <2>5. IsDatabase(db) /\ v.op # "refused" /\ v = Answer(db, tables, after, inventory(after), args)
    BY <2>2, <2>4, AnswerFrom
  <2>6. v = summarize(db, tables, q)
    BY <2>3, <2>4, <2>5, AnswerIs
  <2>7. IsSequence(q.group_by) /\ IsSequence(q.measures) /\ q.database_sha256 = sha(pinned[args.side])
    BY <2>3, <2>4 DEF IsCommand, Scans
  <2>8. PICK S, F : S = SummaryOf(q, tables) /\ F = Filtered(db, S)
    OBVIOUS
  <2>9. summary_recipeAccepts(q, db, tables) /\ v.request = q
    BY <2>4, <2>5, <2>6, <2>8, SummarizeIs
  <2>10. db = Db /\ tables = Tables
    BY <2>4, <2>7, <2>9, SummaryAccepted DEF sha, Db, Tables
  <2>11. key \in DOMAIN v.groups
    BY <1>1, <2>4
  <2>12. /\ GroupFound(db, tables, q, v.groups[key], key)
         /\ GroupCounted(group_rows(db, tables, q, Spelt(key), 0, MaxLimit), v.groups[key])
    BY <2>4, <2>5, <2>6, <2>7, <2>11, GroupAnswers
  <2> QED
    BY <2>4, <2>9, <2>10, <2>12
<1> QED
  BY <1>1, Zenon DEF GroupMeansItsRows, Answered, GroupFound, GroupCounted, OpensAs, MembersOf, Spelt

\* What a command shows can be handed to the next one.
LEMMA FollowedHolds ==
  ASSUME SessionInv
  PROVE  ShownCanBeFollowed
  BY LocatorHolds, ValueHolds, DrillHolds, GroupHolds, AlikeHolds DEF ShownCanBeFollowed

\* No answer is a part that looks like the whole.
LEMMA CompleteHolds ==
  ASSUME SessionInv
  PROVE  AnswersComplete
  BY PassHolds, StatusHolds, QueryHolds, ScanHolds DEF AnswersComplete

(***************************************************************************)
(* Questions that can be asked in two ways.                                *)
(***************************************************************************)

\* A comparison of two values that succeeds has no NULL on either side.
LEMMA ComparedNotNull ==
  ASSUME NEW la, NEW l, NEW ra, NEW r, Compared(la, l, ra, r)
  PROVE  l # Null /\ r # Null
<1>1. PICK applied : SqlEqual(WithAffinity(applied, l), WithAffinity(applied, r))
  BY DEF Compared
<1>2. WithAffinity(applied, l) # Null /\ WithAffinity(applied, r) # Null
  BY <1>1 DEF SqlEqual
<1>3. WithAffinity(applied, Null) = Null
  <2>1. Null.kind = "null"
    BY DEF Null
  <2> QED
    BY <2>1 DEF WithAffinity
<1> QED
  BY <1>2, <1>3

\* Following a reference and inverting it use one comparison.
LEMMA MatchesAgree ==
  ASSUME NEW rel, NEW tables, NEW p, NEW c
  PROVE  OutgoingMatches(rel, tables, p, c) <=> IncomingMatches(rel, tables, p, c)
  BY DEF OutgoingMatches, IncomingMatches

\* A match has no NULL in the key of the child or of the parent.
LEMMA MatchesNotNull ==
  ASSUME NEW rel, DOMAIN rel.parent_columns = DOMAIN rel.child_columns, NEW tables, NEW p, NEW c,
         OutgoingMatches(rel, tables, p, c)
  PROVE  ~HasNull(p, rel.parent_columns) /\ ~HasNull(c, rel.child_columns)
<1>1. ASSUME NEW i \in DOMAIN rel.parent_columns
      PROVE  Field(p, rel.parent_columns[i]) # Null /\ Field(c, rel.child_columns[i]) # Null
  <2>1. Compared(AffinityOf(tables[rel.parent], rel.parent_columns[i]), Field(p, rel.parent_columns[i]),
                 "none", Field(c, rel.child_columns[i]))
    BY <1>1 DEF OutgoingMatches
  <2>2. PICK la, ra, l, r : /\ la = AffinityOf(tables[rel.parent], rel.parent_columns[i]) /\ ra = "none"
                            /\ l = Field(p, rel.parent_columns[i]) /\ r = Field(c, rel.child_columns[i])
    OBVIOUS
  <2>3. Compared(la, l, ra, r)
    BY <2>1, <2>2
  <2>4. l # Null /\ r # Null
    BY <2>3, ComparedNotNull
  <2> QED
    BY <2>2, <2>4
<1> QED
  BY <1>1 DEF HasNull, ToSet

\* What a row refers to and what refers to a row are inverse.
Inverts(db, tables, rel, c) ==
  LET sel == selection_recipe(Bare(rel.child), tables) IN
  \A q \in Object(db, rel.parent).rows :
    (q \in ParentsOf(db, tables, rel, c)) = (c \in ChildrenOf(db, tables, rel, q, sel))

\* Parents and children are the two sides of one comparison.
LEMMA RelationInverts ==
  ASSUME NEW db, NEW tables, NEW rel, DOMAIN rel.parent_columns = DOMAIN rel.child_columns,
         NEW c, c \in Object(db, rel.child).rows
  PROVE  Inverts(db, tables, rel, c)
<1>1. PICK sel : sel = selection_recipe(Bare(rel.child), tables)
  OBVIOUS
<1>2. SUFFICES ASSUME NEW q \in Object(db, rel.parent).rows
               PROVE  (q \in ParentsOf(db, tables, rel, c)) <=> (c \in ChildrenOf(db, tables, rel, q, sel))
  BY <1>1 DEF Inverts
<1>3. c \in Filtered(db, sel)
  <2>1. PICK recipe : recipe = Bare(rel.child)
    OBVIOUS
  <2>2. recipe.table = rel.child /\ recipe.where = <<>>
    BY <2>1, SelectingIs DEF Bare
  <2>3. sel.table = rel.child /\ sel.where = <<>>
    BY <1>1, <2>1, <2>2, SelectionIs
  <2> QED
    BY <2>3, EmptySequence DEF Filtered
<1>4. q \in ParentsOf(db, tables, rel, c) <=> OutgoingMatches(rel, tables, q, c)
  BY <1>2, MatchesNotNull DEF ParentsOf
<1>5. c \in ChildrenOf(db, tables, rel, q, sel) <=> IncomingMatches(rel, tables, q, c)
  BY <1>3, MatchesNotNull, MatchesAgree DEF ChildrenOf
<1> QED
  BY <1>4, <1>5, MatchesAgree

\* The relations of a table pair as many columns of the child as of the parent.
LEMMA RelationColumns ==
  ASSUME NEW db, IsDatabase(db), NEW tables, tables = inventory(db), NEW table, NEW id,
         selection_recipeAccepts(Bare(table), tables), RelationAccepts(tables, table, id),
         NEW rel, rel = RelationOf(tables, table, id)
  PROVE  rel.child = table /\ DOMAIN rel.parent_columns = DOMAIN rel.child_columns
<1>1. PICK recipe, o : recipe = Bare(table) /\ o = Object(db, table)
  OBVIOUS
<1>2. recipe.table = table
  BY <1>1, SelectingIs DEF Bare
<1>3. /\ o \in db.objects /\ o.name = table /\ tables[table].foreign_keys = foreign_keys(o)
  BY <1>1, <1>2, SelectedTable
<1>4. PICK r : r = CHOOSE x \in Relation(tables, table, id) : TRUE
  OBVIOUS
<1>5. r \in Relation(tables, table, id) /\ resolve_relationshipAccepts(r, tables) /\ rel = resolve_relationship(r, tables)
  BY <1>4 DEF RelationAccepts, RelationOf
<1>6. r \in foreign_keys(o)
  BY <1>3, <1>5 DEF Relation
<1>7. PICK fk, rs : /\ fk \in FkIds(o) /\ rs = Declared(o, fk) /\ r.child_table = o.name
                    /\ r.columns = [k \in DOMAIN rs |-> rs[k].from]
                    /\ r.referenced_columns = [k \in DOMAIN rs |-> rs[k].to]
  <2>1. PICK fk \in FkIds(o) :
          r = [id |-> fk, child_table |-> o.name, referenced_table |-> Declared(o, fk)[1].parent,
               columns |-> [k \in DOMAIN Declared(o, fk) |-> Declared(o, fk)[k].from],
               referenced_columns |-> [k \in DOMAIN Declared(o, fk) |-> Declared(o, fk)[k].to]]
    BY <1>6, Zenon DEF foreign_keys
  <2>2. PICK rs : rs = Declared(o, fk)
    OBVIOUS
  <2>3. r.child_table = o.name
    BY <2>1
  <2>4. r.columns = [k \in DOMAIN rs |-> rs[k].from]
    BY <2>1, <2>2
  <2>5. r.referenced_columns = [k \in DOMAIN rs |-> rs[k].to]
    BY <2>1, <2>2
  <2> QED
    BY <2>2, <2>3, <2>4, <2>5
<1>8. DOMAIN rs = 1 .. Len(rs) /\ Len(rs) \in Nat
  <2>1. IsSequence(o.fk)
    BY <1>3 DEF IsDatabase
  <2>2. PICK at : at = {i \in DOMAIN o.fk : o.fk[i].id = fk}
    OBVIOUS
  <2>3. at \subseteq DOMAIN o.fk /\ rs = Picked(o.fk, at)
    BY <1>7, <2>2 DEF Declared
  <2>4. IsSequence(rs)
    BY <2>1, <2>3, PickedSequence
  <2> QED
    BY <2>4, SequenceIs
<1>9. PICK n \in Parents(r, tables) :
        Len(TargetColumns(r, tables[n])) = Len(r.columns) /\ tables[n].row_selection_supported
  BY <1>5 DEF resolve_relationshipAccepts
<1>10. PICK parent : parent = CHOOSE x \in Parents(r, tables) : TRUE
  OBVIOUS
<1>11. parent \in Parents(r, tables)
  BY <1>9, <1>10
<1>12. parent = n
  <2>1. parent \in DOMAIN tables /\ n \in DOMAIN tables /\ folded(parent) = folded(n)
    BY <1>9, <1>11 DEF Parents
  <2>2. PICK x, y : x = Object(db, parent) /\ y = Object(db, n)
    OBVIOUS
  <2>3. x \in db.objects /\ x.name = parent
    BY <2>1, <2>2, InventoryIs
  <2>4. y \in db.objects /\ y.name = n
    BY <2>1, <2>2, InventoryIs
  <2> QED
    BY <2>1, <2>3, <2>4 DEF IsDatabase
<1>13. PICK target : target = TargetColumns(r, tables[parent])
  OBVIOUS
<1>14. Len(target) = Len(r.columns) /\ DOMAIN r.columns = 1 .. Len(rs) /\ Len(r.columns) = Len(rs)
  BY <1>7, <1>8, <1>9, <1>12, <1>13
<1>15. DOMAIN target = 1 .. Len(target)
  <2>1. CASE Implicit(r)
    <3>1. target = PrimaryKey(tables[parent])
      BY <1>13, <2>1 DEF TargetColumns
    <3>2. PICK pk, x : pk = {c \in ToSet(tables[n].columns) : c.pk # 0} /\ x = Object(db, n)
      OBVIOUS
    <3>3. n \in DOMAIN tables
      BY <1>9 DEF Parents
    <3>4. /\ x \in db.objects /\ tables[n].row_selection_supported = (x.kind = "table")
          /\ x.kind = "table" => tables[n].columns = x.columns
      BY <3>2, <3>3, InventoryIs
    <3>5. tables[n].columns = x.columns
      BY <1>9, <3>4
    <3>6. IsSequence(x.columns)
      BY <3>4 DEF IsDatabase
    <3>7. IsFiniteSet(ToSet(tables[n].columns))
      BY <3>5, <3>6, SequenceIs
    <3>8. IsFiniteSet(pk)
      BY <3>2, <3>7, FS_Subset
    <3>9. Cardinality(pk) \in Nat
      BY <3>8, FS_CardinalityType
    <3>10. DOMAIN target = 1 .. Cardinality(pk)
      BY <1>12, <3>1, <3>2 DEF PrimaryKey
    <3> QED
      BY <3>9, <3>10, SegmentLen
  <2>2. CASE ~Implicit(r)
    <3>1. target = r.referenced_columns
      BY <1>13, <2>2 DEF TargetColumns
    <3>2. DOMAIN target = 1 .. Len(rs)
      BY <1>7, <1>8, <3>1
    <3> QED
      BY <1>8, <3>2
  <2> QED
    BY <2>1, <2>2
<1>16. /\ rel.child = r.child_table /\ rel.child_columns = Resolve(r.columns, tables[r.child_table])
       /\ rel.parent_columns = Resolve(target, tables[parent])
  BY <1>5, <1>10, <1>13 DEF resolve_relationship
<1>17. DOMAIN rel.parent_columns = DOMAIN target /\ DOMAIN rel.child_columns = DOMAIN r.columns
  BY <1>16 DEF Resolve
<1> QED
  BY <1>3, <1>7, <1>14, <1>15, <1>16, <1>17

\* An accepted locator names a row of the table.
LEMMA AnchorIsRow ==
  ASSUME NEW db, NEW tables, NEW q, AnchorAccepts(db, tables, q)
  PROVE  Anchor(db, tables, q) \in Object(db, q.table).rows
<1>1. PICK A : A = Anchored(db, q.table, LocatorOf(tables[q.table]), q.locator)
  OBVIOUS
<1>2. Cardinality(A) = 1
  BY <1>1 DEF AnchorAccepts, anchor_rowAccepts
<1>3. A # {}
  <2>1. SUFFICES ASSUME A = {}
                 PROVE  FALSE
    OBVIOUS
  <2>2. Cardinality(A) = 0
    BY <2>1, FS_EmptySet
  <2> QED
    BY <1>2, <2>2
<1>4. Anchor(db, tables, q) \in A
  BY <1>1, <1>3 DEF Anchor, anchor_row
<1> QED
  BY <1>1, <1>4 DEF Anchored

\* The parents on the screen and the children of a row are inverse.
LEMMA InverseHolds ==
  ASSUME SessionInv
  PROVE  ReferencingInvertsRelated
<1>1. ASSUME view.op = "related", OnPinned
      PROVE  Inverts(Db, Tables, RelationOf(Tables, args.request.table, args.request.foreign_key),
                     Anchor(Db, Tables, args.request))
  <2>1. view.op \notin {"idle", "refused"}
    BY <1>1
  <2>2. PICK db : AnswerOf(view, db, pinned, args)
    BY <2>1, OnScreen
  <2>3. args.op = "related"
    BY <1>1, <2>1, OnScreen
  <2>4. PICK v, a, q, tables, after : /\ v = view /\ a = args /\ q = a.request /\ tables = inventory(db)
                                      /\ after = pinned["after"]
    OBVIOUS
  <2>5. IsDatabase(db) /\ v.op # "refused" /\ v = main(db, after, a) /\ SelectionArguments(a.request) /\ a.op = "related"
    BY <2>2, <2>3, <2>4 DEF AnswerOf, IsCommand
  <2>6. PICK rel, c : rel = RelationOf(tables, q.table, q.foreign_key) /\ c = Anchor(db, tables, q)
    OBVIOUS
  <2>7. PICK found, sel : found = ParentsOf(db, tables, rel, c) /\ sel = selection_recipe(Recipe(rel.parent, q), tables)
    OBVIOUS
  <2>8. v.database_sha256 = db
    BY <2>4, <2>5, <2>6, <2>7, RelatedIs
  <2>9. selection_recipeAccepts(Bare(q.table), tables)
    BY <2>4, <2>5, <2>6, <2>7, RelatedIs
  <2>10. RelationAccepts(tables, q.table, q.foreign_key)
    BY <2>4, <2>5, <2>6, <2>7, RelatedIs
  <2>11. AnchorAccepts(db, tables, q)
    BY <2>4, <2>5, <2>6, <2>7, RelatedIs
  <2>12. db = Db /\ tables = Tables
    BY <1>1, <2>4, <2>8 DEF OnPinned, Db, Tables, sha
  <2>13. PICK table, id : table = q.table /\ id = q.foreign_key
    OBVIOUS
  <2>14. rel.child = table /\ DOMAIN rel.parent_columns = DOMAIN rel.child_columns
    BY <2>4, <2>5, <2>6, <2>9, <2>10, <2>13, RelationColumns
  <2>15. c \in Object(db, rel.child).rows
    BY <2>6, <2>11, <2>13, <2>14, AnchorIsRow
  <2>16. Inverts(db, tables, rel, c)
    BY <2>14, <2>15, RelationInverts
  <2> QED
    BY <2>4, <2>6, <2>12, <2>16
<1> QED
  BY <1>1, Zenon DEF ReferencingInvertsRelated, Answered, Inverts, TableRows

\* A threshold filter.
LEMMA ThresholdIs ==
  ASSUME NEW v, NEW f, f.value = cell(v), NEW x
  PROVE  /\ f.op = "gte" => (filterMatches(f, x) <=> x.kind = v.kind /\ x.num >= v.num)
         /\ f.op = "gt" => (filterMatches(f, x) <=> x.kind = v.kind /\ x.num > v.num)
         /\ f.op = "lte" => (filterMatches(f, x) <=> x.kind = v.kind /\ x.num <= v.num)
         /\ f.op = "lt" => (filterMatches(f, x) <=> x.kind = v.kind /\ x.num < v.num)
<1>1. f.value.type = v.kind /\ f.value.num = v.num
  BY DEF cell
<1> QED
  BY <1>1 DEF filterMatches

\* A range filter.
LEMMA RangeIs ==
  ASSUME NEW v, NEW w, NEW f, f.op = "between", f.value = cell(v), f.upper = cell(w), filterAccepts(f), NEW x
  PROVE  /\ w.kind = v.kind
         /\ filterMatches(f, x) <=> x.kind = v.kind /\ Within(x.num, f)
<1>1. f.value.type = v.kind /\ f.upper.type = w.kind
  BY DEF cell
<1>2. f.upper.type = f.value.type
  BY DEF filterAccepts
<1>3. filterMatches(f, x) <=> x.kind = v.kind /\ Within(x.num, f)
  BY <1>1 DEF filterMatches
<1> QED
  BY <1>1, <1>2, <1>3

\* A range filter is two threshold filters, with the ends it includes.
LEMMA RangeSplits ==
  ASSUME NEW v, NEW w, NEW low \in BOOLEAN, NEW high \in BOOLEAN, NEW x
  PROVE  RangeComposes(v, w, low, high, x)
<1>1. PICK range, least, most : /\ range = ShownFilter("between", v, w, low, high)
                                /\ least = ShownFilter(LowerOp(low), v, w, low, high)
                                /\ most = ShownFilter(UpperOp(high), w, w, low, high)
  OBVIOUS
<1>2. SUFFICES ASSUME filterAccepts(range)
               PROVE  filterMatches(range, x) <=> filterMatches(least, x) /\ filterMatches(most, x)
  BY <1>1, Zenon DEF RangeComposes
<1>3. /\ range.op = "between" /\ range.value = cell(v) /\ range.upper = cell(w)
      /\ range.low = low /\ range.high = high
      /\ least.op = LowerOp(low) /\ least.value = cell(v)
      /\ most.op = UpperOp(high) /\ most.value = cell(w)
  BY <1>1, Zenon DEF ShownFilter
<1>5. range.value = cell(v) /\ range.upper = cell(w) /\ range.op = "between"
  BY <1>3, Zenon
<1>6. w.kind = v.kind /\ (filterMatches(range, x) <=> x.kind = v.kind /\ Within(x.num, range))
  BY <1>2, <1>5, RangeIs
<1>7. range.value.num = v.num /\ range.upper.num = w.num
  BY <1>5 DEF cell
<1>8. filterMatches(least, x) <=> x.kind = v.kind /\ (IF low THEN x.num >= v.num ELSE x.num > v.num)
  <2>1. least.value = cell(v)
    BY <1>3, Zenon
  <2>2. CASE low
    <3>1. least.op = "gte"
      BY <1>3, <2>2, Zenon DEF LowerOp
    <3>2. filterMatches(least, x) <=> x.kind = v.kind /\ x.num >= v.num
      BY <2>1, <3>1, ThresholdIs
    <3> QED
      BY <2>2, <3>2, Zenon
  <2>3. CASE ~low
    <3>1. least.op = "gt"
      BY <1>3, <2>3, Zenon DEF LowerOp
    <3>2. filterMatches(least, x) <=> x.kind = v.kind /\ x.num > v.num
      BY <2>1, <3>1, ThresholdIs
    <3> QED
      BY <2>3, <3>2, Zenon
  <2> QED
    BY <2>2, <2>3, Zenon
<1>9. filterMatches(most, x) <=> x.kind = w.kind /\ (IF high THEN x.num <= w.num ELSE x.num < w.num)
  <2>1. most.value = cell(w)
    BY <1>3, Zenon
  <2>2. CASE high
    <3>1. most.op = "lte"
      BY <1>3, <2>2, Zenon DEF UpperOp
    <3>2. filterMatches(most, x) <=> x.kind = w.kind /\ x.num <= w.num
      BY <2>1, <3>1, ThresholdIs
    <3> QED
      BY <2>2, <3>2, Zenon
  <2>3. CASE ~high
    <3>1. most.op = "lt"
      BY <1>3, <2>3, Zenon DEF UpperOp
    <3>2. filterMatches(most, x) <=> x.kind = w.kind /\ x.num < w.num
      BY <2>1, <3>1, ThresholdIs
    <3> QED
      BY <2>3, <3>2, Zenon
  <2> QED
    BY <2>2, <2>3, Zenon
<1>10. Within(x.num, range) <=> /\ IF low THEN x.num >= v.num ELSE x.num > v.num
                                /\ IF high THEN x.num <= w.num ELSE x.num < w.num
  BY <1>3, <1>7, Zenon DEF Within
<1> QED
  BY <1>6, <1>8, <1>9, <1>10, Zenon

\* A text that starts with another contains it.
LEMMA StartsContains ==
  ASSUME NEW v, NEW w, NEW low \in BOOLEAN, NEW high \in BOOLEAN
  PROVE  PrefixComposes(v, w, low, high)
<1>1. PICK f, g : f = ShownFilter("starts_with", v, v, low, high) /\ g = ShownFilter("contains", v, v, low, high)
  OBVIOUS
<1>2. SUFFICES ASSUME filterMatches(f, w)
               PROVE  filterMatches(g, w)
  BY <1>1, Zenon DEF PrefixComposes
<1>3. f.op = "starts_with" /\ f.value = cell(v) /\ g.op = "contains" /\ g.value = cell(v)
  BY <1>1, Zenon DEF ShownFilter
<1>4. w.kind = f.value.type /\ Instr(w, parameter(f.value)) = 1
  BY <1>2, <1>3 DEF filterMatches
<1>5. Instr(w, parameter(g.value)) > 0 /\ w.kind = g.value.type
  BY <1>3, <1>4
<1> QED
  BY <1>3, <1>5 DEF filterMatches

\* Ranges and thresholds, prefixes and parts agree.
LEMMA FiltersHold == FiltersCompose
  BY RangeSplits, StartsContains, Zenon DEF FiltersCompose

\* The boundaries of a histogram ascend, any two of them.
LEMMA EdgesOrdered ==
  ASSUME NEW e, NEW n \in Nat, DOMAIN e = 1 .. n, \A i \in 1 .. n : e[i].num \in Int,
         \A i \in 2 .. n : e[i - 1].num < e[i].num,
         NEW i \in 1 .. n, NEW j \in 1 .. n, i <= j
  PROVE  e[i].num <= e[j].num
<1>1. SUFFICES ASSUME ~(e[i].num <= e[j].num)
               PROVE  FALSE
  OBVIOUS
<1>2. PICK T : T = {k \in i .. n : ~(e[i].num <= e[k].num)}
  OBVIOUS
<1>3. T \in SUBSET Nat /\ j \in T
  BY <1>1, <1>2
<1>4. PICK k \in T : \A y \in T : k <= y
  BY <1>3, LeastOf
<1>5. k \in i .. n /\ ~(e[i].num <= e[k].num)
  BY <1>2, <1>4
<1>6. k # i
  BY <1>5
<1>7. k - 1 \in i .. n /\ k \in 2 .. n /\ k - 1 \in 1 .. n
  BY <1>5, <1>6
<1>8. k - 1 \notin T
  BY <1>4, <1>7
<1>9. e[i].num <= e[k - 1].num
  BY <1>2, <1>7, <1>8
<1>10. e[k - 1].num < e[k].num
  BY <1>7
<1>11. e[i].num \in Int /\ e[k - 1].num \in Int /\ e[k].num \in Int
  BY <1>5, <1>7
<1> QED
  BY <1>5, <1>9, <1>10, <1>11

\* bisect_right: the band of a number lies between two boundaries.
Falls(e, n, b, x) == (b = 0 \/ e[b].num <= x) /\ (b = n \/ x < e[b + 1].num)

\* The band of a number is the one that it falls into.
LEMMA BandIs ==
  ASSUME NEW e, NEW n \in Nat, DOMAIN e = 1 .. n, \A i \in 1 .. n : e[i].num \in Int,
         \A i \in 2 .. n : e[i - 1].num < e[i].num, NEW v, v.num \in Int, NEW b \in 0 .. n
  PROVE  BandOf(e, v) = b <=> Falls(e, n, b, v.num)
<1>1. PICK x, T : x = v.num /\ T = {i \in 1 .. n : e[i].num <= x}
  OBVIOUS
<1>2. BandOf(e, v) = Cardinality(T)
  BY <1>1 DEF BandOf
<1>3. \E m \in 0 .. n : T = 1 .. m
  <2>1. CASE T = {}
    <3>1. T = 1 .. 0
      BY <2>1
    <3>2. PICK m : m = 0
      OBVIOUS
    <3>3. m \in 0 .. n /\ T = 1 .. m
      BY <3>1, <3>2
    <3> QED
      BY <3>3
  <2>2. CASE T # {}
    <3>1. PICK D : D = {n - i : i \in T}
      OBVIOUS
    <3>2. D \in SUBSET Nat /\ D # {}
      BY <1>1, <2>2, <3>1
    <3>3. PICK d \in D : \A y \in D : d <= y
      BY <3>2, LeastOf
    <3>4. PICK m \in T : d = n - m
      BY <3>1, <3>3
    <3>5. ASSUME NEW i \in T
          PROVE  i <= m
      <4>1. d <= n - i
        BY <3>1, <3>3, <3>5
      <4> QED
        BY <1>1, <3>4, <3>5, <4>1
    <3>6. ASSUME NEW i \in 1 .. m
          PROVE  i \in T
      <4>1. m \in 1 .. n /\ e[m].num <= x /\ i \in 1 .. n /\ i <= m
        BY <1>1, <3>4, <3>6
      <4>2. e[i].num <= e[m].num
        BY <4>1, EdgesOrdered
      <4>3. e[i].num \in Int /\ e[m].num \in Int /\ x \in Int
        BY <1>1, <4>1
      <4> QED
        BY <1>1, <4>1, <4>2, <4>3
    <3>7. T = 1 .. m /\ m \in 0 .. n
      BY <1>1, <3>4, <3>5, <3>6
    <3> QED
      BY <3>7
  <2> QED
    BY <2>1, <2>2
<1>4. PICK m \in 0 .. n : T = 1 .. m
  BY <1>3
<1>5. Cardinality(T) = m
  <2>1. PICK one : one = 1
    OBVIOUS
  <2>2. Cardinality(one .. m) = IF one > m THEN 0 ELSE m - one + 1
    BY <2>1, FS_Interval
  <2> QED
    BY <1>4, <2>1, <2>2
<1>6. b = 0 \/ (b \in 1 .. n /\ (e[b].num <= x <=> b <= m))
  <2>1. b # 0 => b \in 1 .. n
    OBVIOUS
  <2>2. b \in 1 .. n => (e[b].num <= x <=> b \in T)
    BY <1>1
  <2> QED
    BY <1>4, <2>1, <2>2
<1>7. b = n \/ (x < e[b + 1].num <=> ~(b + 1 <= m))
  <2>1. SUFFICES ASSUME b # n
                 PROVE  x < e[b + 1].num <=> ~(b + 1 <= m)
    OBVIOUS
  <2>2. PICK c : c = b + 1
    OBVIOUS
  <2>3. c \in 1 .. n
    BY <2>1, <2>2
  <2>4. e[c].num <= x <=> c \in T
    BY <1>1, <2>3
  <2>5. e[c].num \in Int /\ x \in Int
    BY <1>1, <2>3
  <2>6. x < e[c].num <=> ~(e[c].num <= x)
    BY <2>5
  <2>7. c \in T <=> c <= m
    BY <1>4, <2>3
  <2> QED
    BY <2>2, <2>4, <2>6, <2>7
<1>8. b = m <=> (b = 0 \/ b <= m) /\ (b = n \/ ~(b + 1 <= m))
  BY <1>4
<1> QED
  BY <1>1, <1>2, <1>5, <1>6, <1>7, <1>8 DEF Falls

\* The filter of a band's lower boundary, and of its upper one.
LEMMA LowerEdgeIs ==
  ASSUME NEW q, NEW e, NEW kind, NEW f, f = BandEdge(q, "gte", e, kind), NEW x
  PROVE  filterMatches(f, x) <=> x.kind = kind /\ x.num >= e.num
<1>1. f.op = "gte" /\ f.value = [type |-> kind, num |-> e.num, form |-> e.form]
  BY Zenon DEF BandEdge
<1>2. f.value.type = kind /\ f.value.num = e.num
  BY <1>1
<1> QED
  BY <1>1, <1>2 DEF filterMatches

\* The filter of an upper boundary.
LEMMA UpperEdgeIs ==
  ASSUME NEW q, NEW e, NEW kind, NEW f, f = BandEdge(q, "lt", e, kind), NEW x
  PROVE  filterMatches(f, x) <=> x.kind = kind /\ x.num < e.num
<1>1. f.op = "lt" /\ f.value = [type |-> kind, num |-> e.num, form |-> e.form]
  BY Zenon DEF BandEdge
<1>2. f.value.type = kind /\ f.value.num = e.num
  BY <1>1
<1> QED
  BY <1>1, <1>2 DEF filterMatches

\* Two lists in a row hold what either holds.
LEMMA JoinedSets ==
  ASSUME NEW x, NEW y, IsSequence(x), IsSequence(y), NEW z, z = x \o y
  PROVE  IsSequence(z) /\ ToSet(z) = ToSet(x) \cup ToSet(y)
<1>1. PICK n, m : n = Len(x) /\ m = Len(y)
  OBVIOUS
<1>2. n \in Nat /\ m \in Nat /\ DOMAIN x = 1 .. n /\ DOMAIN y = 1 .. m
  BY <1>1, SequenceIs
<1>3. /\ IsSequence(z) /\ DOMAIN z = 1 .. (n + m)
      /\ \A i \in 1 .. n : z[i] = x[i]
      /\ \A i \in 1 .. m : z[n + i] = y[i]
  <2>1. IsSequence(z) /\ DOMAIN z = 1 .. (Len(x) + Len(y))
    BY PartsMeet
  <2>2. \A i \in 1 .. Len(x) : z[i] = x[i]
    BY PartsMeet
  <2>3. \A i \in 1 .. Len(y) : z[Len(x) + i] = y[i]
    BY PartsMeet
  <2> QED
    BY <1>1, <2>1, <2>2, <2>3
<1>4. ASSUME NEW t \in ToSet(z)
      PROVE  t \in ToSet(x) \cup ToSet(y)
  <2>1. PICK k \in 1 .. (n + m) : t = z[k]
    BY <1>3, <1>4 DEF ToSet
  <2>2. CASE k <= n
    <3>1. k \in 1 .. n /\ t = x[k]
      BY <1>2, <1>3, <2>1, <2>2
    <3> QED
      BY <1>2, <3>1 DEF ToSet
  <2>3. CASE ~(k <= n)
    <3>1. k - n \in 1 .. m /\ n + (k - n) = k
      BY <1>2, <2>1, <2>3
    <3>2. t = y[k - n]
      BY <1>3, <2>1, <3>1
    <3> QED
      BY <1>2, <3>1, <3>2 DEF ToSet
  <2> QED
    BY <2>2, <2>3
<1>5. ASSUME NEW t \in ToSet(x)
      PROVE  t \in ToSet(z)
  <2>1. PICK k \in 1 .. n : t = x[k]
    BY <1>2, <1>5 DEF ToSet
  <2>2. k \in 1 .. (n + m) /\ t = z[k]
    BY <1>2, <1>3, <2>1
  <2> QED
    BY <1>3, <2>2 DEF ToSet
<1>6. ASSUME NEW t \in ToSet(y)
      PROVE  t \in ToSet(z)
  <2>1. PICK k \in 1 .. m : t = y[k]
    BY <1>2, <1>6 DEF ToSet
  <2>2. n + k \in 1 .. (n + m) /\ t = z[n + k]
    BY <1>2, <1>3, <2>1
  <2> QED
    BY <1>3, <2>2 DEF ToSet
<1> QED
  BY <1>3, <1>4, <1>5, <1>6

\* A list of one is a list.
LEMMA OneIsSequence ==
  ASSUME NEW f, NEW s, s = <<f>>
  PROVE  IsSequence(s) /\ ToSet(s) = {f}
<1>1. PICK one : one = 1
  OBVIOUS
<1>2. s = [i \in 1 .. one |-> s[i]] /\ one \in Nat
  BY <1>1
<1>3. IsSequence(s)
  BY <1>2, SegmentSequence
<1> QED
  BY <1>3, OneListed

\* The filters of a band.
EdgeSet(q, n, b, kind) ==
  (IF b = 0 THEN {} ELSE {BandEdge(q, "gte", q.boundaries[b], kind)})
  \cup (IF b = n THEN {} ELSE {BandEdge(q, "lt", q.boundaries[b + 1], kind)})

\* The filters of a band, as a set.
LEMMA BandFiltersAre ==
  ASSUME NEW q, NEW n, n = Len(q.boundaries), NEW b, NEW kind, NEW z, z = BandFilters(q, b, kind)
  PROVE  IsSequence(z) /\ ToSet(z) = EdgeSet(q, n, b, kind)
<1>1. PICK f, g : f = BandEdge(q, "gte", q.boundaries[b], kind) /\ g = BandEdge(q, "lt", q.boundaries[b + 1], kind)
  OBVIOUS
<1>2. PICK x, y : x = (IF b = 0 THEN <<>> ELSE <<f>>) /\ y = (IF b = n THEN <<>> ELSE <<g>>)
  OBVIOUS
<1>3. z = x \o y
  BY <1>1, <1>2 DEF BandFilters
<1>4. IsSequence(x) /\ ToSet(x) = IF b = 0 THEN {} ELSE {f}
  BY <1>2, EmptySequence, OneIsSequence
<1>5. IsSequence(y) /\ ToSet(y) = IF b = n THEN {} ELSE {g}
  BY <1>2, EmptySequence, OneIsSequence
<1>6. IsSequence(z) /\ ToSet(z) = ToSet(x) \cup ToSet(y)
  BY <1>3, <1>4, <1>5, JoinedSets
<1> QED
  BY <1>1, <1>4, <1>5, <1>6 DEF EdgeSet

\* The rows that the filters of a band select for one storage class.
BandRows(db, q, b, kind) == Filtered(db, Selecting(q.table, <<>>, q.where \o BandFilters(q, b, kind)))
BandAsks(q, n, b, kind, x) ==
  /\ b = 0 \/ (x.kind = kind /\ x.num >= q.boundaries[b].num)
  /\ b = n \/ (x.kind = kind /\ x.num < q.boundaries[b + 1].num)

\* What the filters of a band add to the selection.
LEMMA BandSelects ==
  ASSUME NEW db, NEW q, IsSequence(q.where), NEW n, n = Len(q.boundaries), NEW b, NEW kind, NEW F,
         F = Filtered(db, Selecting(q.table, <<>>, q.where)), NEW r, NEW x, x = Field(r, q.column)
  PROVE  r \in BandRows(db, q, b, kind) <=> r \in F /\ BandAsks(q, n, b, kind, x)
<1>1. PICK z, w : z = BandFilters(q, b, kind) /\ w = q.where \o z
  OBVIOUS
<1>2. PICK d, e : d = q.boundaries[b] /\ e = q.boundaries[b + 1]
  OBVIOUS
<1>3. PICK f, g : f = BandEdge(q, "gte", d, kind) /\ g = BandEdge(q, "lt", e, kind)
  OBVIOUS
<1>4. IsSequence(z) /\ ToSet(z) = EdgeSet(q, n, b, kind)
  BY <1>1, BandFiltersAre
<1>5. IsSequence(z) /\ ToSet(z) = (IF b = 0 THEN {} ELSE {f}) \cup (IF b = n THEN {} ELSE {g})
  BY <1>2, <1>3, <1>4 DEF EdgeSet
<1>6. IsSequence(w) /\ ToSet(w) = ToSet(q.where) \cup ToSet(z)
  BY <1>1, <1>5, JoinedSets
<1>7. PICK s, t : s = Selecting(q.table, <<>>, q.where) /\ t = Selecting(q.table, <<>>, w)
  OBVIOUS
<1>8. s.table = q.table /\ s.where = q.where /\ t.table = q.table /\ t.where = w
  BY <1>7, SelectingIs
<1>9. r \in Filtered(db, t) <=> r \in Filtered(db, s) /\ \A h \in ToSet(z) : filterMatches(h, Field(r, h.column))
  BY <1>6, <1>8 DEF Filtered
<1>10. f.column = q.column /\ (filterMatches(f, x) <=> x.kind = kind /\ x.num >= d.num)
  <2>1. f.column = q.column
    BY <1>3, Zenon DEF BandEdge
  <2>2. filterMatches(f, x) <=> x.kind = kind /\ x.num >= d.num
    BY <1>3, LowerEdgeIs
  <2> QED
    BY <2>1, <2>2
<1>11. g.column = q.column /\ (filterMatches(g, x) <=> x.kind = kind /\ x.num < e.num)
  <2>1. g.column = q.column
    BY <1>3, Zenon DEF BandEdge
  <2>2. filterMatches(g, x) <=> x.kind = kind /\ x.num < e.num
    BY <1>3, UpperEdgeIs
  <2> QED
    BY <2>1, <2>2
<1>12. (\A h \in ToSet(z) : filterMatches(h, Field(r, h.column))) <=>
         (b = 0 \/ filterMatches(f, x)) /\ (b = n \/ filterMatches(g, x))
  BY <1>5, <1>10, <1>11
<1> QED
  BY <1>1, <1>2, <1>7, <1>9, <1>10, <1>11, <1>12 DEF BandRows, BandAsks

\* A band holds the selected rows whose number falls into it.
LEMMA InBandIs ==
  ASSUME NEW db, NEW q, IsSequence(q.where), IsSequence(q.boundaries), EdgesAscend(q),
         \A d \in ToSet(q.boundaries) : d.num \in Int, NEW b \in 0 .. Len(q.boundaries),
         NEW F, F = Filtered(db, Selecting(q.table, <<>>, q.where)),
         NEW r, NEW x, x = Field(r, q.column), x \in SqlValues
  PROVE  r \in InBand(db, q, b) <=> r \in F /\ x.kind \in Numeric /\ BandOf(q.boundaries, x) = b
<1>1. PICK e, n : e = q.boundaries /\ n = Len(q.boundaries)
  OBVIOUS
<1>2. n \in Nat /\ DOMAIN e = 1 .. n /\ n >= 1
  BY <1>1, SequenceIs DEF EdgesAscend
<1>3. \A i \in 1 .. n : e[i].num \in Int
  BY <1>1, <1>2 DEF ToSet
<1>4. \A i \in 2 .. n : e[i - 1].num < e[i].num
  BY <1>1 DEF EdgesAscend
<1>5. x.num \in Int
  BY ValueIs
<1>6. BandOf(e, x) = b <=> Falls(e, n, b, x.num)
  BY <1>1, <1>2, <1>3, <1>4, <1>5, BandIs
<1>7. PICK G : G = [kind \in Numeric |-> BandRows(db, q, b, kind)]
  OBVIOUS
<1>8. r \in InBand(db, q, b) <=> \E kind \in Numeric : r \in G[kind]
  BY <1>7 DEF InBand, BandRows
<1>9. \A kind \in Numeric : r \in G[kind] <=> r \in F /\ BandAsks(q, n, b, kind, x)
  BY <1>1, <1>7, BandSelects
<1>10. b # 0 => (x.num >= e[b].num <=> e[b].num <= x.num)
  BY <1>1, <1>2, <1>3, <1>5
<1>11. b # 0 \/ b # n
  BY <1>2
<1>12. \A kind : BandAsks(q, n, b, kind, x) <=> x.kind = kind /\ Falls(e, n, b, x.num)
  BY <1>1, <1>10, <1>11 DEF BandAsks, Falls
<1>13. ASSUME NEW kind \in Numeric
       PROVE  r \in G[kind] <=> r \in F /\ x.kind = kind /\ BandOf(e, x) = b
  BY <1>6, <1>9, <1>12, <1>13
<1> QED
  BY <1>1, <1>8, <1>13

\* The rows at some positions of an ordered result are the ordered result of
\* the rows that are there.
LEMMA PickedInOrder ==
  ASSUME NEW F, NEW sel, IsOrdered(F, sel), NEW w, w = InOrder(F, sel),
         NEW at, at \subseteq DOMAIN w, NEW T, T \subseteq F,
         \A i \in DOMAIN w : i \in at <=> w[i] \in T
  PROVE  Picked(w, at) = InOrder(T, sel)
<1>1. PICK n : n = Cardinality(F)
  OBVIOUS
<1>2. /\ w \in [1 .. n -> F]
      /\ \A i, j \in 1 .. n : i < j => RowBefore(Ordering(sel), w[i], w[j])
      /\ \A x \in F : \E i \in 1 .. n : w[i] = x
  BY <1>1, InOrderLists
<1>3. IsFiniteSet(F)
  BY DEF IsOrdered
<1>4. n \in Nat /\ DOMAIN w = 1 .. n
  BY <1>1, <1>2, <1>3, FS_CardinalityType
<1>5. PICK m, a, f : m = Cardinality(at) /\ a = Ascending(at) /\ f = Picked(w, at)
  OBVIOUS
<1>6. at \subseteq 1 .. n
  BY <1>4
<1>7. m \in Nat /\ a \in [1 .. m -> at] /\ DOMAIN f = 1 .. m
  BY <1>4, <1>5, <1>6, PickedIs
<1>8. \A i \in 1 .. m : f[i] = w[a[i]]
  BY <1>4, <1>5, <1>6, PickedIs
<1>9. \A i, j \in 1 .. m : i < j => a[i] < a[j]
  BY <1>4, <1>5, <1>6, PickedIs
<1>10. \A x \in at : \E i \in 1 .. m : a[i] = x
  BY <1>4, <1>5, <1>6, PickedIs
<1>11. f = [i \in 1 .. m |-> f[i]]
  BY <1>5, <1>7 DEF Picked
<1>12. \A i \in 1 .. m : f[i] \in T
  BY <1>4, <1>6, <1>7, <1>8
<1>13. f \in [1 .. m -> T]
  BY <1>11, <1>12
<1>14. ASSUME NEW i \in 1 .. m, NEW j \in 1 .. m, i < j
       PROVE  RowBefore(Ordering(sel), f[i], f[j])
  <2>1. a[i] \in 1 .. n /\ a[j] \in 1 .. n /\ a[i] < a[j]
    BY <1>6, <1>7, <1>9, <1>14
  <2>2. RowBefore(Ordering(sel), w[a[i]], w[a[j]])
    BY <1>2, <2>1
  <2> QED
    BY <1>8, <1>14, <2>2
<1>15. ASSUME NEW x \in T
       PROVE  \E i \in 1 .. m : f[i] = x
  <2>1. PICK k \in 1 .. n : w[k] = x
    BY <1>2, <1>15
  <2>2. k \in at
    BY <1>4, <1>15, <2>1
  <2>3. PICK i \in 1 .. m : a[i] = k
    BY <1>10, <2>2
  <2> QED
    BY <1>8, <2>1, <2>3
<1>16. IsOrdered(T, sel)
  BY OrderedPart
<1>17. f = InOrder(T, sel)
  BY <1>7, <1>13, <1>14, <1>15, <1>16, InOrderUnique, ZenonT(60)
<1> QED
  BY <1>5, <1>17

\* A band shows the locators of the rows that its filters select.
LEMMA BandShows ==
  ASSUME NEW db, IsDatabase(db), NEW tables, tables = inventory(db), NEW q, IsSequence(q.where), IsSequence(q.boundaries),
         \A d \in ToSet(q.boundaries) : d.num \in Int, EdgesAscend(q), ColumnSelected(q, tables),
         NEW sel, sel = selection_recipe(Selecting(q.table, <<>>, q.where), tables),
         NEW F, F = Filtered(db, sel), NEW b \in 0 .. Len(q.boundaries)
  PROVE  OfBand(InOrder(F, sel), q, b) = InOrder(InBand(db, q, b), sel)
<1>1. PICK w : w = InOrder(F, sel)
  OBVIOUS
<1>2. PICK columns : columns = <<q.column>>
  OBVIOUS
<1>3. selection_recipeAccepts(Selecting(q.table, columns, q.where), tables)
  BY <1>2 DEF ColumnSelected
<1>4. F \subseteq Object(db, q.table).rows /\ IsOrdered(F, sel) /\ ToSet(w) = F
  <2>1. PICK s : s = scan(db, sel)
    OBVIOUS
  <2>2. F \subseteq Object(db, q.table).rows /\ IsOrdered(F, sel)
    BY <1>3, <2>1, WholeScan
  <2>3. ToSet(InOrder(F, sel)) = F
    BY <1>3, <2>1, WholeScan
  <2> QED
    BY <1>1, <2>2, <2>3
<1>5. PICK recipe : recipe = Selecting(q.table, <<>>, q.where)
  OBVIOUS
<1>6. recipe.table = q.table /\ recipe.where = q.where
  BY <1>5, SelectingIs
<1>7. sel.table = recipe.table /\ sel.where = recipe.where
  BY <1>5, SelectionIs
<1>8. F = Filtered(db, recipe)
  BY <1>7, SameFiltered
<1>9. RowsTyped(Object(db, q.table))
  <2>1. PICK m : m = Selecting(q.table, columns, q.where)
    OBVIOUS
  <2>2. m.table = q.table
    BY <2>1, SelectingIs
  <2> QED
    BY <1>3, <2>1, <2>2, SelectedTable
<1>10. ASSUME NEW r \in F
       PROVE  Field(r, q.column) \in SqlValues
  BY <1>4, <1>9, FieldType
<1>11. ASSUME NEW r \in F
       PROVE  r \in InBand(db, q, b) <=> Field(r, q.column).kind \in Numeric /\ BandOf(q.boundaries, Field(r, q.column)) = b
  <2>1. PICK x : x = Field(r, q.column)
    OBVIOUS
  <2>2. x \in SqlValues
    BY <1>10, <1>11, <2>1
  <2>3. F = Filtered(db, Selecting(q.table, <<>>, q.where))
    BY <1>5, <1>8
  <2>4. r \in InBand(db, q, b) <=> r \in F /\ x.kind \in Numeric /\ BandOf(q.boundaries, x) = b
    BY <2>1, <2>2, <2>3, InBandIs
  <2> QED
    BY <1>11, <2>1, <2>4
<1>12. PICK T : T = InBand(db, q, b)
  OBVIOUS
<1>13. T \subseteq F
  <2>1. PICK G : G = [kind \in Numeric |-> BandRows(db, q, b, kind)]
    OBVIOUS
  <2>2. \A r : r \in T <=> \E kind \in Numeric : r \in G[kind]
    BY <1>12, <2>1 DEF InBand, BandRows
  <2>3. ASSUME NEW r, NEW kind \in Numeric, r \in G[kind]
        PROVE  r \in F
    <3>1. PICK n, x : n = Len(q.boundaries) /\ x = Field(r, q.column)
      OBVIOUS
    <3>2. r \in BandRows(db, q, b, kind)
      BY <2>1, <2>3
    <3>3. F = Filtered(db, Selecting(q.table, <<>>, q.where))
      BY <1>5, <1>8
    <3> QED
      BY <3>1, <3>2, <3>3, BandSelects
  <2> QED
    BY <2>2, <2>3
<1>14. PICK at : at = {i \in DOMAIN w : Field(w[i], q.column).kind \in Numeric
                                         /\ BandOf(q.boundaries, Field(w[i], q.column)) = b}
  OBVIOUS
<1>15. at \subseteq DOMAIN w
  BY <1>14
<1>16. \A i \in DOMAIN w : i \in at <=> w[i] \in T
  <2>1. ASSUME NEW i \in DOMAIN w
        PROVE  w[i] \in F
    BY <1>4, <2>1 DEF ToSet
  <2> QED
    BY <1>11, <1>12, <1>14, <2>1
<1>17. Picked(w, at) = InOrder(T, sel)
  BY <1>1, <1>4, <1>13, <1>15, <1>16, PickedInOrder
<1> QED
  BY <1>1, <1>12, <1>14, <1>17 DEF OfBand

\* The locators shown are those of the rows shown.
LEMMA ShownLocators ==
  ASSUME NEW u, NEW sel
  PROVE  LocatorsOf(ShownRows(u, sel)) = Locators(u, sel)
  BY DEF LocatorsOf, ShownRows, RowCells, Locators

\* A band is a pair of filters.
LEMMA BandsHold ==
  ASSUME SessionInv
  PROVE  BandsAreRanges
<1>1. SUFFICES ASSUME view.op = "histogram", NEW q, q = view.request, NEW sel,
                      sel = selection_recipe(Selecting(q.table, <<>>, q.where), Tables), NEW b \in DOMAIN view.bands
               PROVE  LocatorsOf(view.bands[b]) = Locators(InOrder(InBand(Db, q, b), sel), sel)
  BY DEF BandsAreRanges, Answered
<1>2. view.op \notin {"idle", "refused"}
  BY <1>1
<1>3. PICK db : AnswerOf(view, db, pinned, args)
  BY <1>2, OnScreen
<1>4. args.op = view.op /\ IsCommand(args, pinned)
  BY <1>2, OnScreen
<1>5. PICK v, a, tables, after : v = view /\ a = args.request /\ tables = inventory(db) /\ after = pinned["after"]
  OBVIOUS
<1>6. IsDatabase(db) /\ v.op # "refused" /\ v = Answer(db, tables, after, inventory(after), args)
  BY <1>3, <1>5, AnswerFrom
<1>7. v = distribution(db, tables, a)
  BY <1>1, <1>4, <1>5, <1>6, AnswerIs
<1>8. a.database_sha256 = sha(pinned[args.side])
  BY <1>1, <1>4, <1>5 DEF IsCommand, Scans
<1>9. PICK chosen, F : chosen = selection_recipe(Selecting(a.table, <<>>, a.where), tables) /\ F = Filtered(db, chosen)
  OBVIOUS
<1>10. a.database_sha256 = db /\ v.request = a
  BY <1>5, <1>6, <1>7, <1>9, DistributionCounts
<1>11. BandsShow(v, a, InOrder(F, chosen), chosen)
  BY <1>5, <1>6, <1>7, <1>9, DistributionIs
<1>12. EdgesAscend(a) /\ ColumnSelected(a, tables)
  BY <1>5, <1>6, <1>7, <1>9, DistributionIs
<1>13. db = Db /\ tables = Tables
  BY <1>5, <1>8, <1>10 DEF Db, Tables, sha
<1>14. q = a /\ sel = chosen
  BY <1>1, <1>5, <1>9, <1>10, <1>13
<1>15. IsSequence(q.where) /\ IsSequence(q.boundaries) /\ \A e \in ToSet(q.boundaries) : e.num \in Int
  BY <1>1, <1>4, <1>5, <1>14 DEF IsCommand, Scans
<1>16. PICK w : w = InOrder(F, sel)
  OBVIOUS
<1>17. v.bands = [i \in 0 .. Len(q.boundaries) |-> ShownRows(OfBand(w, q, i), sel)]
  BY <1>11, <1>14, <1>16 DEF BandsShow
<1>18. b \in 0 .. Len(q.boundaries) /\ v.bands[b] = ShownRows(OfBand(w, q, b), sel)
  BY <1>1, <1>5, <1>17
<1>19. OfBand(w, q, b) = InOrder(InBand(db, q, b), sel)
  <2>1. EdgesAscend(q) /\ ColumnSelected(q, tables)
    BY <1>12, <1>14
  <2>2. sel = selection_recipe(Selecting(q.table, <<>>, q.where), tables) /\ F = Filtered(db, sel)
    BY <1>9, <1>14
  <2> QED
    BY <1>5, <1>6, <1>15, <1>16, <1>18, <2>1, <2>2, BandShows
<1>20. LocatorsOf(v.bands[b]) = Locators(OfBand(w, q, b), sel)
  BY <1>18, ShownLocators
<1> QED
  BY <1>5, <1>13, <1>19, <1>20

\* Two commands that ask the same question agree.
LEMMA QuestionsHold ==
  ASSUME SessionInv
  PROVE  QuestionsAgree
  BY FiltersHold, InverseHolds, BandsHold, PatchesHold, AlikeHolds DEF QuestionsAgree

(***************************************************************************)
(* Counts, sums and extremes.  A sum over a finite set is the value at it  *)
(* of any function that adds up (SumIs), whichever order a fold takes; a   *)
(* measure is followed row by row through the scan (MeasureOverIs).        *)
(***************************************************************************)

\* What it means that V adds up fun over the subsets of S.
AddsUp(V, fun, S) ==
  /\ V \in [SUBSET S -> Int] /\ V[{}] = 0
  /\ \A s \in SUBSET S : \A x \in s : V[s] = fun[x] + V[s \ {x}]
SumStep(fun, V, s) == IF s = {} THEN 0 ELSE fun[CHOOSE x \in s : TRUE] + V[s \ {CHOOSE x \in s : TRUE}]
IsSum(fun, S, V) == V = [s \in SUBSET S |-> SumStep(fun, V, s)]

\* SumFunctionOnSet takes the value at the whole set of the function it defines.
LEMMA SumUnfolds ==
  ASSUME NEW fun, NEW S
  PROVE  SumFunctionOnSet(fun, S) = (CHOOSE V : IsSum(fun, S, V))[S]
  BY Zenon DEF SumFunctionOnSet, FoldFunctionOnSet, MapThenFoldSet, IsSum, SumStep

\* The sum over a finite set, whichever element the fold takes next.
LEMMA SumIs ==
  ASSUME NEW S, IsFiniteSet(S), NEW fun, NEW V, AddsUp(V, fun, S)
  PROVE  SumFunctionOnSet(fun, S) = V[S]
<1>1. /\ V \in [SUBSET S -> Int] /\ V[{}] = 0
      /\ \A s \in SUBSET S : \A x \in s : V[s] = fun[x] + V[s \ {x}]
  BY DEF AddsUp
<1>2. \A s \in SUBSET S : s # {} => (CHOOSE x \in s : TRUE) \in s
  BY Zenon
<1>3. \A s \in SUBSET S : V[s] = SumStep(fun, V, s)
  BY <1>1, <1>2 DEF SumStep
<1>4. IsSum(fun, S, V)
  BY <1>1, <1>3 DEF IsSum
<1>5. PICK W : W = CHOOSE U : IsSum(fun, S, U)
  OBVIOUS
<1>6. IsSum(fun, S, W)
  BY <1>4, <1>5
<1>7. \A s \in SUBSET S : W[s] = SumStep(fun, W, s)
  BY <1>6, Zenon DEF IsSum
<1>8. PICK bad : bad = {s \in SUBSET S : W[s] # V[s]}
  OBVIOUS
<1>9. \A s \in SUBSET S : IsFiniteSet(s) /\ Cardinality(s) \in Nat
  BY FS_Subset, FS_CardinalityType
<1>10. ASSUME bad # {}
       PROVE  FALSE
  <2>1. PICK sizes : sizes = {Cardinality(s) : s \in bad}
    OBVIOUS
  <2>2. sizes \in SUBSET Nat /\ sizes # {}
    BY <1>8, <1>9, <1>10, <2>1
  <2>3. PICK n \in sizes : \A m \in sizes : n <= m
    BY <2>2, LeastOf
  <2>4. PICK s \in bad : n = Cardinality(s)
    BY <2>1, <2>3
  <2>5. s \in SUBSET S /\ W[s] # V[s]
    BY <1>8, <2>4
  <2>6. s # {}
    BY <1>1, <1>7, <2>5 DEF SumStep
  <2>7. PICK x : x = CHOOSE y \in s : TRUE
    OBVIOUS
  <2>8. x \in s
    BY <1>2, <2>5, <2>6, <2>7
  <2>9. PICK r : r = s \ {x}
    OBVIOUS
  <2>10. r \in SUBSET S
    BY <2>5, <2>9
  <2>11. Cardinality(r) = Cardinality(s) - 1
    BY <1>9, <2>5, <2>8, <2>9, FS_RemoveElement
  <2>12. r \notin bad
    <3>1. Cardinality(r) \in Nat /\ Cardinality(s) \in Nat
      BY <1>9, <2>5, <2>10
    <3>2. r \in bad => Cardinality(r) \in sizes
      BY <2>1
    <3> QED
      BY <2>3, <2>4, <2>11, <3>1, <3>2
  <2>13. W[r] = V[r]
    BY <1>8, <2>10, <2>12
  <2>14. W[s] = fun[x] + W[r]
    BY <1>7, <2>5, <2>6, <2>7, <2>9 DEF SumStep
  <2>15. V[s] = fun[x] + V[r]
    BY <1>1, <2>5, <2>8, <2>9
  <2> QED
    BY <2>5, <2>13, <2>14, <2>15
<1>11. S \in SUBSET S
  OBVIOUS
<1>12. W[S] = V[S]
  BY <1>8, <1>10, <1>11
<1> QED
  BY <1>5, <1>12, SumUnfolds

\* A finite set of numbers has a sum.
LEMMA SumExists ==
  ASSUME NEW S, IsFiniteSet(S), NEW fun, \A x \in S : fun[x] \in Int
  PROVE  \E V : AddsUp(V, fun, S)
<1>1. PICK bad : bad = {s \in SUBSET S : ~ \E V : AddsUp(V, fun, s)}
  OBVIOUS
<1>2. \A s \in SUBSET S : IsFiniteSet(s) /\ Cardinality(s) \in Nat
  BY FS_Subset, FS_CardinalityType
<1>3. ASSUME bad # {}
      PROVE  FALSE
  <2>1. PICK sizes : sizes = {Cardinality(s) : s \in bad}
    OBVIOUS
  <2>2. sizes \in SUBSET Nat /\ sizes # {}
    BY <1>1, <1>2, <1>3, <2>1
  <2>3. PICK n \in sizes : \A m \in sizes : n <= m
    BY <2>2, LeastOf
  <2>4. PICK t \in bad : n = Cardinality(t)
    BY <2>1, <2>3
  <2>5. t \in SUBSET S /\ ~ \E V : AddsUp(V, fun, t)
    BY <1>1, <2>4
  <2>6. t # {}
    <3>1. SUFFICES ASSUME t = {}
                   PROVE  \E V : AddsUp(V, fun, t)
      BY <2>5
    <3>2. PICK V : V = [s \in SUBSET t |-> 0]
      OBVIOUS
    <3>3. AddsUp(V, fun, t)
      BY <3>1, <3>2 DEF AddsUp
    <3> QED
      BY <3>3
  <2>7. PICK x : x \in t
    BY <2>6
  <2>8. PICK r : r = t \ {x}
    OBVIOUS
  <2>9. r \in SUBSET S /\ r \in SUBSET t /\ x \notin r
    BY <2>5, <2>8
  <2>10. Cardinality(r) = Cardinality(t) - 1
    BY <1>2, <2>5, <2>7, <2>8, FS_RemoveElement
  <2>11. r \notin bad
    <3>1. Cardinality(r) \in Nat /\ Cardinality(t) \in Nat
      BY <1>2, <2>5, <2>9
    <3>2. r \in bad => Cardinality(r) \in sizes
      BY <2>1
    <3> QED
      BY <2>3, <2>4, <2>10, <3>1, <3>2
  <2>12. PICK V : AddsUp(V, fun, r)
    BY <1>1, <2>9, <2>11
  <2>13. /\ V \in [SUBSET r -> Int] /\ V[{}] = 0
         /\ \A s \in SUBSET r : \A y \in s : V[s] = fun[y] + V[s \ {y}]
    BY <2>12 DEF AddsUp
  <2>14. PICK f \in Int : f = fun[x]
    BY <2>5, <2>7
  <2>15. PICK W : W = [s \in SUBSET t |-> IF x \in s THEN f + V[s \ {x}] ELSE V[s]]
    OBVIOUS
  <2>16. \A s \in SUBSET t : s \ {x} \in SUBSET r /\ (x \notin s => s \in SUBSET r)
    BY <2>8
  <2>17. W \in [SUBSET t -> Int]
    BY <2>13, <2>15, <2>16
  <2>18. W[{}] = 0
    BY <2>13, <2>15
  <2>19. ASSUME NEW s \in SUBSET t, NEW y \in s
         PROVE  W[s] = fun[y] + W[s \ {y}]
    <3>1. PICK rest : rest = s \ {y}
      OBVIOUS
    <3>2. rest \in SUBSET t
      BY <3>1
    <3>3. CASE y = x
      <4>1. W[s] = f + V[rest]
        BY <2>15, <3>1, <3>3
      <4>2. W[rest] = V[rest]
        BY <2>15, <3>1, <3>2, <3>3
      <4> QED
        BY <2>14, <3>1, <3>3, <4>1, <4>2
    <3>4. CASE y # x /\ x \in s
      <4>1. PICK u, v : u = s \ {x} /\ v = rest \ {x}
        OBVIOUS
      <4>2. W[s] = f + V[u] /\ W[rest] = f + V[v]
        BY <2>15, <3>1, <3>2, <3>4, <4>1
      <4>3. v = u \ {y} /\ y \in u /\ u \in SUBSET r /\ v \in SUBSET r
        BY <2>16, <3>1, <3>2, <3>4, <4>1
      <4>4. V[u] = fun[y] + V[v] /\ V[u] \in Int /\ V[v] \in Int
        BY <2>13, <4>3
      <4>5. fun[y] \in Int
        BY <2>5
      <4> QED
        BY <3>1, <4>2, <4>4, <4>5
    <3>5. CASE x \notin s
      <4>1. W[s] = V[s] /\ W[rest] = V[rest]
        BY <2>15, <3>1, <3>2, <3>5
      <4>2. s \in SUBSET r
        BY <2>16, <3>5
      <4> QED
        BY <2>13, <3>1, <4>1, <4>2
    <3> QED
      BY <3>3, <3>4, <3>5
  <2>20. AddsUp(W, fun, t)
    BY <2>17, <2>18, <2>19 DEF AddsUp
  <2> QED
    BY <2>5, <2>20
<1> QED
  BY <1>1, <1>3

\* How often each key occurs, summed over some keys: the places with one of them.
With(I, key, s) == {i \in I : key[i] \in s}
LEMMA CountsSum ==
  ASSUME NEW I, IsFiniteSet(I), NEW key, NEW S, IsFiniteSet(S), NEW fun,
         \A x \in S : fun[x] = Cardinality(With(I, key, {x}))
  PROVE  SumFunctionOnSet(fun, S) = Cardinality(With(I, key, S))
<1>1. PICK V : V = [s \in SUBSET S |-> Cardinality(With(I, key, s))]
  OBVIOUS
<1>2. \A s : With(I, key, s) \subseteq I /\ IsFiniteSet(With(I, key, s))
             /\ Cardinality(With(I, key, s)) \in Nat
  <2>1. \A s : With(I, key, s) \subseteq I
    BY DEF With
  <2> QED
    BY <2>1, FS_Subset, FS_CardinalityType
<1>3. V \in [SUBSET S -> Int]
  BY <1>1, <1>2
<1>4. V[{}] = 0
  <2>1. With(I, key, {}) = {}
    BY DEF With
  <2> QED
    BY <1>1, <2>1, FS_EmptySet
<1>5. ASSUME NEW s \in SUBSET S, NEW x \in s
      PROVE  V[s] = fun[x] + V[s \ {x}]
  <2>1. PICK a, b, c : a = With(I, key, {x}) /\ b = With(I, key, s \ {x}) /\ c = With(I, key, s)
    OBVIOUS
  <2>2. a \cap b = {} /\ a \cup b = c
    BY <2>1 DEF With
  <2>3. IsFiniteSet(a) /\ IsFiniteSet(b)
    BY <1>2, <2>1
  <2>4. Cardinality(c) = Cardinality(a) + Cardinality(b)
    <3>1. Cardinality(a \cup b) = Cardinality(a) + Cardinality(b) - Cardinality(a \cap b)
      BY <2>3, FS_Union
    <3>2. Cardinality(a \cap b) = 0
      BY <2>2, FS_EmptySet
    <3>3. Cardinality(a) \in Nat /\ Cardinality(b) \in Nat
      BY <2>3, FS_CardinalityType
    <3>4. PICK m \in Nat, k \in Nat : m = Cardinality(a) /\ k = Cardinality(b)
      BY <3>3
    <3>5. Cardinality(a \cup b) = m + k - 0
      BY <3>1, <3>2, <3>4
    <3>6. Cardinality(a \cup b) = m + k
      BY <3>5
    <3> QED
      BY <2>2, <3>4, <3>6
  <2>5. V[s] = Cardinality(c) /\ V[s \ {x}] = Cardinality(b)
    BY <1>1, <2>1
  <2>6. fun[x] = Cardinality(a)
    BY <2>1
  <2> QED
    BY <2>4, <2>5, <2>6
<1>6. AddsUp(V, fun, S)
  BY <1>3, <1>4, <1>5 DEF AddsUp
<1>7. SumFunctionOnSet(fun, S) = V[S]
  BY <1>6, SumIs
<1> QED
  BY <1>1, <1>7

\* What is found, when the places in nums are met in order, is what the first
\* of those with the least number shows.
FirstLeast(found, nums, num, ev) ==
  IF nums = {} THEN found = <<>>
  ELSE \E i \in nums : /\ found = ev[i]
                       /\ \A j \in nums : num[i] <= num[j]
                       /\ \A j \in nums : j < i => num[i] < num[j]
FirstMost(found, nums, num, ev) ==
  IF nums = {} THEN found = <<>>
  ELSE \E i \in nums : /\ found = ev[i]
                       /\ \A j \in nums : num[j] <= num[i]
                       /\ \A j \in nums : j < i => num[j] < num[i]
Lower(found, n, num, ev) ==
  IF found = <<>> THEN ev[n] ELSE IF num[n] < found[1] THEN ev[n] ELSE found
Higher(found, n, num, ev) ==
  IF found = <<>> THEN ev[n] ELSE IF num[n] > found[1] THEN ev[n] ELSE found

\* A later place is shown only when its number is lower.
LEMMA LeastStep ==
  ASSUME NEW nums \in SUBSET Nat, NEW n \in Nat, \A j \in nums : j < n, NEW num, NEW ev,
         \A j \in nums \cup {n} : num[j] \in Int /\ ev[j] # <<>> /\ ev[j][1] = num[j],
         NEW found, FirstLeast(found, nums, num, ev)
  PROVE  FirstLeast(Lower(found, n, num, ev), nums \cup {n}, num, ev)
<1>1. PICK all : all = nums \cup {n}
  OBVIOUS
<1>2. all # {} /\ n \in all /\ nums \subseteq all
  BY <1>1
<1>3. PICK next : next = Lower(found, n, num, ev)
  OBVIOUS
<1>4. CASE nums = {}
  <2>1. found = <<>>
    BY <1>4 DEF FirstLeast
  <2>2. next = ev[n]
    BY <1>3, <2>1 DEF Lower
  <2>3. \A j \in all : j = n
    BY <1>1, <1>4
  <2>4. \A j \in all : num[n] <= num[j] /\ (j < n => num[n] < num[j])
    BY <2>3
  <2>5. FirstLeast(next, all, num, ev)
    BY <1>2, <2>2, <2>4 DEF FirstLeast
  <2> QED
    BY <1>1, <1>3, <2>5
<1>5. CASE nums # {}
  <2>1. PICK i \in nums : /\ found = ev[i]
                          /\ \A j \in nums : num[i] <= num[j]
                          /\ \A j \in nums : j < i => num[i] < num[j]
    BY <1>5 DEF FirstLeast
  <2>2. found # <<>> /\ found[1] = num[i] /\ num[i] \in Int /\ num[n] \in Int
    BY <2>1
  <2>3. CASE num[n] < num[i]
    <3>1. next = ev[n]
      BY <1>3, <2>2, <2>3 DEF Lower
    <3>2. \A j \in nums : num[n] < num[j]
      BY <2>1, <2>2, <2>3
    <3>3. \A j \in all : num[n] <= num[j] /\ (j < n => num[n] < num[j])
      <4>1. \A j \in nums : num[n] <= num[j]
        <5>1. ASSUME NEW j \in nums
              PROVE  num[n] <= num[j]
          <6>1. num[j] \in Int
            OBVIOUS
          <6> QED
            BY <2>2, <3>2, <6>1
        <5> QED
          BY <5>1
      <4>2. num[n] <= num[n] /\ ~(n < n)
        BY <2>2
      <4> QED
        BY <1>1, <3>2, <4>1, <4>2
    <3>4. FirstLeast(next, all, num, ev)
      BY <1>2, <3>1, <3>3 DEF FirstLeast
    <3> QED
      BY <1>1, <1>3, <3>4
  <2>4. CASE ~(num[n] < num[i])
    <3>1. next = ev[i]
      BY <1>3, <2>1, <2>2, <2>4 DEF Lower
    <3>2. ~(n < i)
      BY <2>1
    <3>3. \A j \in all : num[i] <= num[j] /\ (j < i => num[i] < num[j])
      BY <1>1, <2>1, <2>2, <2>4, <3>2
    <3>4. i \in all
      BY <1>2, <2>1
    <3>5. FirstLeast(next, all, num, ev)
      BY <1>2, <3>1, <3>3, <3>4 DEF FirstLeast
    <3> QED
      BY <1>1, <1>3, <3>5
  <2> QED
    BY <2>3, <2>4
<1> QED
  BY <1>4, <1>5

\* A later place is shown only when its number is higher.
LEMMA MostStep ==
  ASSUME NEW nums \in SUBSET Nat, NEW n \in Nat, \A j \in nums : j < n, NEW num, NEW ev,
         \A j \in nums \cup {n} : num[j] \in Int /\ ev[j] # <<>> /\ ev[j][1] = num[j],
         NEW found, FirstMost(found, nums, num, ev)
  PROVE  FirstMost(Higher(found, n, num, ev), nums \cup {n}, num, ev)
<1>1. PICK all : all = nums \cup {n}
  OBVIOUS
<1>2. all # {} /\ n \in all /\ nums \subseteq all
  BY <1>1
<1>3. PICK next : next = Higher(found, n, num, ev)
  OBVIOUS
<1>4. CASE nums = {}
  <2>1. found = <<>>
    BY <1>4 DEF FirstMost
  <2>2. next = ev[n]
    BY <1>3, <2>1 DEF Higher
  <2>3. \A j \in all : j = n
    BY <1>1, <1>4
  <2>4. \A j \in all : num[j] <= num[n] /\ (j < n => num[j] < num[n])
    BY <2>3
  <2>5. FirstMost(next, all, num, ev)
    BY <1>2, <2>2, <2>4 DEF FirstMost
  <2> QED
    BY <1>1, <1>3, <2>5
<1>5. CASE nums # {}
  <2>1. PICK i \in nums : /\ found = ev[i]
                          /\ \A j \in nums : num[j] <= num[i]
                          /\ \A j \in nums : j < i => num[j] < num[i]
    BY <1>5 DEF FirstMost
  <2>2. found # <<>> /\ found[1] = num[i] /\ num[i] \in Int /\ num[n] \in Int
    BY <2>1
  <2>3. CASE num[n] > num[i]
    <3>1. next = ev[n]
      BY <1>3, <2>2, <2>3 DEF Higher
    <3>2. \A j \in nums : num[j] < num[n]
      BY <2>1, <2>2, <2>3
    <3>3. \A j \in all : num[j] <= num[n] /\ (j < n => num[j] < num[n])
      <4>1. \A j \in nums : num[j] <= num[n]
        <5>1. ASSUME NEW j \in nums
              PROVE  num[j] <= num[n]
          <6>1. num[j] \in Int
            OBVIOUS
          <6> QED
            BY <2>2, <3>2, <6>1
        <5> QED
          BY <5>1
      <4>2. num[n] <= num[n] /\ ~(n < n)
        BY <2>2
      <4> QED
        BY <1>1, <3>2, <4>1, <4>2
    <3>4. FirstMost(next, all, num, ev)
      BY <1>2, <3>1, <3>3 DEF FirstMost
    <3> QED
      BY <1>1, <1>3, <3>4
  <2>4. CASE ~(num[n] > num[i])
    <3>1. next = ev[i]
      BY <1>3, <2>1, <2>2, <2>4 DEF Higher
    <3>2. ~(n < i)
      BY <2>1
    <3>3. \A j \in all : num[j] <= num[i] /\ (j < i => num[j] < num[i])
      BY <1>1, <2>1, <2>2, <2>4, <3>2
    <3>4. i \in all
      BY <1>2, <2>1
    <3>5. FirstMost(next, all, num, ev)
      BY <1>2, <3>1, <3>3, <3>4 DEF FirstMost
    <3> QED
      BY <1>1, <1>3, <3>5
  <2> QED
    BY <2>3, <2>4
<1> QED
  BY <1>4, <1>5

\* What Measure.add leaves, field by field.
LEMMA MeasureAddIs ==
  ASSUME NEW m, m = [counts |-> m.counts, total |-> m.total, minimum |-> m.minimum, maximum |-> m.maximum],
         DOMAIN m.counts = {"null", "integer", "real", "text", "blob"}, NEW v \in SqlValues, NEW locator,
         NEW shows, shows = <<v.num, cell(v), locator>>, NEW a, a = MeasureAdd(m, v, locator)
  PROVE  /\ a = [counts |-> a.counts, total |-> a.total, minimum |-> a.minimum, maximum |-> a.maximum]
         /\ DOMAIN a.counts = DOMAIN m.counts
         /\ \A k \in DOMAIN m.counts : a.counts[k] = IF k = v.kind THEN m.counts[k] + 1 ELSE m.counts[k]
         /\ v.kind \notin Numeric => a.total = m.total /\ a.minimum = m.minimum /\ a.maximum = m.maximum
         /\ v.kind \in Numeric =>
              /\ a.total = m.total + v.num
              /\ a.minimum = IF m.minimum = <<>> THEN shows ELSE IF v.num < m.minimum[1] THEN shows ELSE m.minimum
              /\ a.maximum = IF m.maximum = <<>> THEN shows ELSE IF v.num > m.maximum[1] THEN shows ELSE m.maximum
<1>1. v.kind \in DOMAIN m.counts
  BY ValueIs
<1>2. PICK counts : counts = [m.counts EXCEPT ![v.kind] = m.counts[v.kind] + 1]
  OBVIOUS
<1>3. /\ DOMAIN counts = DOMAIN m.counts
      /\ \A k \in DOMAIN m.counts : counts[k] = IF k = v.kind THEN m.counts[k] + 1 ELSE m.counts[k]
  BY <1>1, <1>2
<1>4. PICK counted : counted = [counts |-> counts, total |-> m.total, minimum |-> m.minimum, maximum |-> m.maximum]
  OBVIOUS
<1>5. counted = [m EXCEPT !.counts[v.kind] = @ + 1]
  BY <1>2, <1>4
<1>6. CASE v.kind \notin Numeric
  <2>1. a = counted
    BY <1>5, <1>6 DEF MeasureAdd
  <2> QED
    BY <1>3, <1>4, <1>6, <2>1
<1>7. CASE v.kind \in Numeric
  <2>1. PICK low, high :
          /\ low = IF m.minimum = <<>> THEN shows ELSE IF v.num < m.minimum[1] THEN shows ELSE m.minimum
          /\ high = IF m.maximum = <<>> THEN shows ELSE IF v.num > m.maximum[1] THEN shows ELSE m.maximum
    OBVIOUS
  <2>2. a = [counted EXCEPT !.total = counted.total + v.num,
               !.minimum = IF counted.minimum = <<>> THEN shows
                           ELSE IF v.num < counted.minimum[1] THEN shows ELSE counted.minimum,
               !.maximum = IF counted.maximum = <<>> THEN shows
                           ELSE IF v.num > counted.maximum[1] THEN shows ELSE counted.maximum]
    BY <1>5, <1>7, Zenon DEF MeasureAdd
  <2>3. counted.minimum = m.minimum /\ counted.maximum = m.maximum /\ counted.total = m.total
    BY <1>4
  <2>4. a = [counted EXCEPT !.total = m.total + v.num, !.minimum = low, !.maximum = high]
    BY <2>1, <2>2, <2>3, Zenon
  <2>5. a = [counts |-> counts, total |-> m.total + v.num, minimum |-> low, maximum |-> high]
    BY <1>4, <2>4
  <2>6. a.counts = counts /\ a.total = m.total + v.num /\ a.minimum = low /\ a.maximum = high
    BY <2>5
  <2> QED
    BY <1>3, <1>7, <2>1, <2>5, <2>6, Zenon
<1> QED
  BY <1>6, <1>7

\* What a measure is after the values at some places, which have these kinds,
\* numbers and evidence; V sums numbers.
Met(m, at, kind, num, ev, V) ==
  /\ m = [counts |-> m.counts, total |-> m.total, minimum |-> m.minimum, maximum |-> m.maximum]
  /\ DOMAIN m.counts = {"null", "integer", "real", "text", "blob"}
  /\ \A k \in DOMAIN m.counts : m.counts[k] = Cardinality(With(at, kind, {k}))
  /\ m.total = V[With(at, kind, Numeric)]
  /\ FirstLeast(m.minimum, With(at, kind, Numeric), num, ev)
  /\ FirstMost(m.maximum, With(at, kind, Numeric), num, ev)

\* One more value.
LEMMA MeasureMeets ==
  ASSUME NEW at \in SUBSET Nat, IsFiniteSet(at), NEW n \in Nat, \A j \in at : j < n,
         NEW kind, NEW num, NEW ev, \A j \in at \cup {n} : num[j] \in Int /\ ev[j] # <<>> /\ ev[j][1] = num[j],
         NEW v \in SqlValues, NEW locator, kind[n] = v.kind, num[n] = v.num, ev[n] = <<v.num, cell(v), locator>>,
         NEW S, NEW V, AddsUp(V, num, S), With(at \cup {n}, kind, Numeric) \subseteq S,
         NEW m, Met(m, at, kind, num, ev, V)
  PROVE  Met(MeasureAdd(m, v, locator), at \cup {n}, kind, num, ev, V)
<1>1. PICK a, all, old, new :
        /\ a = MeasureAdd(m, v, locator) /\ all = at \cup {n}
        /\ old = With(at, kind, Numeric) /\ new = With(all, kind, Numeric)
  OBVIOUS
<1>2. /\ m = [counts |-> m.counts, total |-> m.total, minimum |-> m.minimum, maximum |-> m.maximum]
      /\ DOMAIN m.counts = {"null", "integer", "real", "text", "blob"}
      /\ \A k \in DOMAIN m.counts : m.counts[k] = Cardinality(With(at, kind, {k}))
      /\ m.total = V[old] /\ FirstLeast(m.minimum, old, num, ev) /\ FirstMost(m.maximum, old, num, ev)
  BY <1>1 DEF Met
<1>3. PICK shows : shows = <<v.num, cell(v), locator>>
  OBVIOUS
<1>4. /\ a = [counts |-> a.counts, total |-> a.total, minimum |-> a.minimum, maximum |-> a.maximum]
      /\ DOMAIN a.counts = DOMAIN m.counts
      /\ \A k \in DOMAIN m.counts : a.counts[k] = IF k = v.kind THEN m.counts[k] + 1 ELSE m.counts[k]
      /\ v.kind \notin Numeric => a.total = m.total /\ a.minimum = m.minimum /\ a.maximum = m.maximum
      /\ v.kind \in Numeric =>
           /\ a.total = m.total + v.num
           /\ a.minimum = IF m.minimum = <<>> THEN shows ELSE IF v.num < m.minimum[1] THEN shows ELSE m.minimum
           /\ a.maximum = IF m.maximum = <<>> THEN shows ELSE IF v.num > m.maximum[1] THEN shows ELSE m.maximum
  BY <1>1, <1>2, <1>3, MeasureAddIs
<1>5. n \notin at
  OBVIOUS
<1>6. ASSUME NEW s
      PROVE  /\ kind[n] \in s => With(all, kind, s) = With(at, kind, s) \cup {n}
             /\ kind[n] \notin s => With(all, kind, s) = With(at, kind, s)
  BY <1>1 DEF With
<1>7. ASSUME NEW k \in DOMAIN a.counts
      PROVE  a.counts[k] = Cardinality(With(all, kind, {k}))
  <2>1. PICK w : w = With(at, kind, {k})
    OBVIOUS
  <2>2. IsFiniteSet(w) /\ n \notin w
    <3>1. w \subseteq at
      BY <2>1 DEF With
    <3> QED
      BY <1>5, <3>1, FS_Subset
  <2>3. m.counts[k] = Cardinality(w) /\ k \in DOMAIN m.counts
    BY <1>2, <1>4, <1>7, <2>1
  <2>4. CASE k = v.kind
    <3>1. Cardinality(w \cup {n}) = Cardinality(w) + 1
      BY <2>2, FS_AddElement
    <3>2. With(all, kind, {k}) = w \cup {n}
      BY <1>6, <2>1, <2>4
    <3>3. a.counts[k] = m.counts[k] + 1
      BY <1>4, <2>3, <2>4
    <3> QED
      BY <2>3, <3>1, <3>2, <3>3
  <2>5. CASE k # v.kind
    <3>1. With(all, kind, {k}) = w
      BY <1>6, <2>1, <2>5
    <3>2. a.counts[k] = m.counts[k]
      BY <1>4, <2>3, <2>5
    <3> QED
      BY <2>3, <3>1, <3>2
  <2> QED
    BY <2>4, <2>5
<1>8. a.total = V[new] /\ FirstLeast(a.minimum, new, num, ev) /\ FirstMost(a.maximum, new, num, ev)
  <2>1. CASE v.kind \notin Numeric
    <3>1. new = old
      BY <1>1, <1>6, <2>1
    <3> QED
      BY <1>2, <1>4, <2>1, <3>1
  <2>2. CASE v.kind \in Numeric
    <3>1. new = old \cup {n} /\ n \notin old /\ old \subseteq at
      <4>1. old \subseteq at
        BY <1>1 DEF With
      <4> QED
        BY <1>1, <1>5, <1>6, <2>2, <4>1
    <3>2. a.total = V[new]
      <4>1. new \in SUBSET S /\ n \in new /\ new \ {n} = old
        BY <1>1, <3>1
      <4>2. V[new] = num[n] + V[old]
        BY <4>1 DEF AddsUp
      <4>3. V[old] \in Int /\ num[n] \in Int
        <5>1. old \in SUBSET S
          BY <4>1
        <5> QED
          BY <5>1 DEF AddsUp
      <4> QED
        BY <1>2, <1>4, <2>2, <4>2, <4>3
    <3>3. PICK low, high : low = Lower(m.minimum, n, num, ev) /\ high = Higher(m.maximum, n, num, ev)
      OBVIOUS
    <3>4. ev[n] = shows /\ num[n] = v.num
      BY <1>3
    <3>5. a.minimum = low
      BY <1>4, <2>2, <3>3, <3>4 DEF Lower
    <3>6. a.maximum = high
      BY <1>4, <2>2, <3>3, <3>4 DEF Higher
    <3>7. old \in SUBSET Nat /\ \A j \in old : j < n
      BY <3>1
    <3>8. \A j \in old \cup {n} : num[j] \in Int /\ ev[j] # <<>> /\ ev[j][1] = num[j]
      BY <3>1
    <3>9. FirstLeast(low, old \cup {n}, num, ev)
      BY <1>2, <3>3, <3>7, <3>8, LeastStep
    <3>10. FirstMost(high, old \cup {n}, num, ev)
      BY <1>2, <3>3, <3>7, <3>8, MostStep
    <3> QED
      BY <3>1, <3>2, <3>5, <3>6, <3>9, <3>10
  <2> QED
    BY <2>1, <2>2
<1>9. Met(a, all, kind, num, ev, V)
  BY <1>1, <1>2, <1>4, <1>7, <1>8 DEF Met
<1> QED
  BY <1>1, <1>9

\* The measure of a group after each row of a scan.
MeasureNext(m, w, q, key, name, locator, i) ==
  IF Cells(w[i], q.group_by) # key THEN m ELSE MeasureAdd(m, Field(w[i], name), Cells(w[i], locator))
MeasuresTo(g, n, w, q, key, name, locator) ==
  g = [i \in 0 .. n |-> IF i = 0 THEN NoMeasure ELSE MeasureNext(g[i - 1], w, q, key, name, locator, i)]

LEMMA MeasureUnfolds ==
  ASSUME NEW w, NEW q, NEW key, NEW name, NEW locator
  PROVE  MeasureOver(w, q, key, name, locator) =
           (CHOOSE g : MeasuresTo(g, Len(w), w, q, key, name, locator))[Len(w)]
  BY Zenon DEF MeasureOver, MeasuresTo, MeasureNext

\* A scan of any length has such measures.
LEMMA MeasuresExist ==
  ASSUME NEW n \in Nat, NEW w, NEW q, NEW key, NEW name, NEW locator
  PROVE  \E g : MeasuresTo(g, n, w, q, key, name, locator)
<1>1. PICK bad : bad = {k \in Nat : ~ \E g : MeasuresTo(g, k, w, q, key, name, locator)}
  OBVIOUS
<1>2. ASSUME bad # {}
      PROVE  FALSE
  <2>1. PICK k \in bad : \A j \in bad : k <= j
    <3>1. bad \in SUBSET Nat
      BY <1>1
    <3> QED
      BY <1>2, <3>1, LeastOf
  <2>2. k \in Nat /\ ~ \E g : MeasuresTo(g, k, w, q, key, name, locator)
    BY <1>1, <2>1
  <2>3. CASE k = 0
    <3>1. PICK g : g = [i \in 0 .. 0 |-> NoMeasure]
      OBVIOUS
    <3>2. MeasuresTo(g, 0, w, q, key, name, locator)
      BY <3>1 DEF MeasuresTo
    <3> QED
      BY <2>2, <2>3, <3>2
  <2>4. CASE k # 0
    <3>1. k - 1 \in Nat /\ k - 1 \notin bad
      BY <2>1, <2>2, <2>4
    <3>2. PICK g : MeasuresTo(g, k - 1, w, q, key, name, locator)
      BY <1>1, <3>1
    <3>3. PICK e : e = MeasureNext(g[k - 1], w, q, key, name, locator, k)
      OBVIOUS
    <3>4. PICK h : h = [i \in 0 .. k |-> IF i = k THEN e ELSE g[i]]
      OBVIOUS
    <3>5. ASSUME NEW i \in 0 .. k
          PROVE  h[i] = IF i = 0 THEN NoMeasure ELSE MeasureNext(h[i - 1], w, q, key, name, locator, i)
      <4>1. CASE i = k
        <5>1. h[i] = e /\ h[i - 1] = g[k - 1]
          BY <2>2, <2>4, <3>4, <4>1
        <5> QED
          BY <2>4, <3>3, <4>1, <5>1
      <4>2. CASE i # k
        <5>1. i \in 0 .. (k - 1) /\ h[i] = g[i]
          BY <2>2, <3>4, <3>5, <4>2
        <5>2. i # 0 => h[i - 1] = g[i - 1]
          BY <2>2, <3>4, <5>1
        <5>3. g[i] = IF i = 0 THEN NoMeasure ELSE MeasureNext(g[i - 1], w, q, key, name, locator, i)
          BY <3>2, <5>1 DEF MeasuresTo
        <5> QED
          BY <5>1, <5>2, <5>3
      <4> QED
        BY <4>1, <4>2
    <3>6. MeasuresTo(h, k, w, q, key, name, locator)
      BY <3>4, <3>5 DEF MeasuresTo
    <3> QED
      BY <2>2, <3>6
  <2> QED
    BY <2>3, <2>4
<1> QED
  BY <1>1, <1>2

\* A measure begins with nothing met.
LEMMA NothingMet ==
  ASSUME NEW kind, NEW num, NEW ev, NEW S, NEW V, AddsUp(V, num, S)
  PROVE  Met(NoMeasure, {}, kind, num, ev, V)
<1>1. \A s : With({}, kind, s) = {}
  BY DEF With
<1>2. NoMeasure = [counts |-> NoMeasure.counts, total |-> NoMeasure.total,
                   minimum |-> NoMeasure.minimum, maximum |-> NoMeasure.maximum]
  BY DEF NoMeasure
<1>3. /\ DOMAIN NoMeasure.counts = {"null", "integer", "real", "text", "blob"}
      /\ \A k \in DOMAIN NoMeasure.counts : NoMeasure.counts[k] = 0
  BY DEF NoMeasure
<1>4. NoMeasure.total = 0 /\ NoMeasure.minimum = <<>> /\ NoMeasure.maximum = <<>>
  BY DEF NoMeasure
<1>5. V[{}] = 0
  BY DEF AddsUp
<1>6. Cardinality({}) = 0
  BY FS_EmptySet
<1>7. FirstLeast(<<>>, {}, num, ev) /\ FirstMost(<<>>, {}, num, ev)
  BY DEF FirstLeast, FirstMost
<1> QED
  BY <1>1, <1>2, <1>3, <1>4, <1>5, <1>6, <1>7 DEF Met

\* A measure over a whole scan has met the rows of the group and no others.
KindsOf(w, name) == [i \in 1 .. Len(w) |-> Field(w[i], name).kind]
NumbersOf(w, name) == [i \in 1 .. Len(w) |-> Field(w[i], name).num]
EvidenceOf(w, name, locator) ==
  [i \in 1 .. Len(w) |-> <<Field(w[i], name).num, cell(Field(w[i], name)), Cells(w[i], locator)>>]
PlacesOf(w, q, key) == {i \in 1 .. Len(w) : Cells(w[i], q.group_by) = key}

LEMMA MeasureOverIs ==
  ASSUME NEW w, IsSequence(w), NEW q, NEW key, NEW name, NEW locator,
         \A r \in ToSet(w) : Field(r, name) \in SqlValues,
         NEW kind, kind = KindsOf(w, name), NEW num, num = NumbersOf(w, name), NEW ev, ev = EvidenceOf(w, name, locator),
         NEW group, group = PlacesOf(w, q, key),
         NEW V, AddsUp(V, num, With(group, kind, Numeric))
  PROVE  Met(MeasureOver(w, q, key, name, locator), group, kind, num, ev, V)
<1>1. PICK n \in Nat : n = Len(w)
  BY SequenceIs
<1>2. PICK g : MeasuresTo(g, n, w, q, key, name, locator) /\ MeasureOver(w, q, key, name, locator) = g[n]
  <2>1. PICK g : g = CHOOSE h : MeasuresTo(h, n, w, q, key, name, locator)
    OBVIOUS
  <2>2. MeasuresTo(g, n, w, q, key, name, locator)
    BY <2>1, MeasuresExist, Zenon
  <2>3. MeasureOver(w, q, key, name, locator) = g[n]
    BY <1>1, <2>1, MeasureUnfolds, Zenon
  <2> QED
    BY <2>2, <2>3
<1>3. \A i \in 0 .. n : g[i] = IF i = 0 THEN NoMeasure ELSE MeasureNext(g[i - 1], w, q, key, name, locator, i)
  BY <1>2, Zenon DEF MeasuresTo
<1>4. ASSUME NEW i \in 1 .. n
      PROVE  /\ Field(w[i], name) \in SqlValues /\ kind[i] = Field(w[i], name).kind /\ num[i] = Field(w[i], name).num
             /\ ev[i] = <<Field(w[i], name).num, cell(Field(w[i], name)), Cells(w[i], locator)>>
             /\ num[i] \in Int /\ ev[i] # <<>> /\ ev[i][1] = num[i]
  <2>1. w[i] \in ToSet(w)
    BY <1>1, SequenceIs
  <2>2. PICK v : v = Field(w[i], name)
    OBVIOUS
  <2>3. v \in SqlValues /\ v.num \in Int
    BY <2>1, <2>2, ValueIs
  <2>4. kind[i] = v.kind /\ num[i] = v.num /\ ev[i] = <<v.num, cell(v), Cells(w[i], locator)>>
    BY <1>1, <2>2 DEF KindsOf, NumbersOf, EvidenceOf
  <2> QED
    BY <2>2, <2>3, <2>4
<1>5. PICK S : S = With(group, kind, Numeric)
  OBVIOUS
<1>6. PICK part : part = [i \in 0 .. n |-> {j \in group : j <= i}]
  OBVIOUS
<1>7. group \subseteq 1 .. n /\ IsFiniteSet(group)
  <2>1. group \subseteq 1 .. n
    BY <1>1 DEF PlacesOf
  <2>2. IsFiniteSet(1 .. n)
    BY FS_Interval
  <2> QED
    BY <2>1, <2>2, FS_Subset
<1>8. PICK bad : bad = {i \in 0 .. n : ~Met(g[i], part[i], kind, num, ev, V)}
  OBVIOUS
<1>9. ASSUME bad # {}
      PROVE  FALSE
  <2>1. PICK k \in bad : \A j \in bad : k <= j
    <3>1. bad \in SUBSET Nat
      BY <1>8
    <3> QED
      BY <1>9, <3>1, LeastOf
  <2>2. k \in 0 .. n /\ ~Met(g[k], part[k], kind, num, ev, V)
    BY <1>8, <2>1
  <2>3. CASE k = 0
    <3>1. part[0] = {}
      BY <1>6, <1>7
    <3>2. g[0] = NoMeasure
      BY <1>3
    <3>3. Met(NoMeasure, {}, kind, num, ev, V)
      BY NothingMet
    <3> QED
      BY <2>2, <2>3, <3>1, <3>2, <3>3
  <2>4. CASE k # 0
    <3>1. k \in 1 .. n /\ k - 1 \in 0 .. n /\ k - 1 \notin bad
      BY <2>1, <2>2, <2>4
    <3>2. PICK m, at : m = g[k - 1] /\ at = part[k - 1]
      OBVIOUS
    <3>3. Met(m, at, kind, num, ev, V)
      BY <1>8, <3>1, <3>2
    <3>4. g[k] = MeasureNext(m, w, q, key, name, locator, k)
      BY <1>3, <2>2, <2>4, <3>2
    <3>5. at = {j \in group : j <= k - 1} /\ part[k] = {j \in group : j <= k}
      BY <1>6, <2>2, <3>1, <3>2
    <3>6. CASE k \notin group
      <4>1. part[k] = at
        BY <1>7, <3>1, <3>5, <3>6
      <4>2. Cells(w[k], q.group_by) # key
        BY <1>1, <3>1, <3>6 DEF PlacesOf
      <4>3. g[k] = m
        BY <3>4, <4>2 DEF MeasureNext
      <4> QED
        BY <2>2, <3>3, <4>1, <4>3
    <3>7. CASE k \in group
      <4>1. part[k] = at \cup {k}
        BY <1>7, <3>1, <3>5, <3>7
      <4>2. Cells(w[k], q.group_by) = key
        BY <3>7 DEF PlacesOf
      <4>3. PICK v, l : v = Field(w[k], name) /\ l = Cells(w[k], locator)
        OBVIOUS
      <4>4. g[k] = MeasureAdd(m, v, l)
        BY <3>4, <4>2, <4>3 DEF MeasureNext
      <4>5. v \in SqlValues /\ kind[k] = v.kind /\ num[k] = v.num /\ ev[k] = <<v.num, cell(v), l>>
        BY <1>4, <3>1, <4>3
      <4>6. at \in SUBSET Nat /\ at \cup {k} \subseteq 1 .. n /\ \A j \in at : j < k
        BY <1>7, <3>1, <3>5
      <4>7. IsFiniteSet(at)
        BY <1>7, <3>5, FS_Subset
      <4>8. \A j \in at \cup {k} : num[j] \in Int /\ ev[j] # <<>> /\ ev[j][1] = num[j]
        BY <1>4, <4>6
      <4>9. With(at \cup {k}, kind, Numeric) \subseteq S
        BY <1>5, <3>5, <3>7 DEF With
      <4>10. AddsUp(V, num, S)
        BY <1>5
      <4>11. Met(MeasureAdd(m, v, l), at \cup {k}, kind, num, ev, V)
        <5>1. k \in Nat
          BY <3>1
        <5> QED
          BY <3>3, <4>5, <4>6, <4>7, <4>8, <4>9, <4>10, <5>1, MeasureMeets, ZenonT(60)
      <4> QED
        BY <2>2, <4>1, <4>4, <4>11
    <3> QED
      BY <3>6, <3>7
  <2> QED
    BY <2>3, <2>4
<1>10. n \in 0 .. n
  OBVIOUS
<1>11. part[n] = group
  BY <1>6, <1>7, <1>10
<1>12. Met(g[n], group, kind, num, ev, V)
  BY <1>8, <1>9, <1>10, <1>11
<1> QED
  BY <1>2, <1>12

\* The extremes of a measure are those of a summary that is exact.
LEMMA MeasureOutputIs ==
  ASSUME NEW m, NEW group, IsFiniteSet(group), NEW kind, NEW num, NEW ev, NEW V, Met(m, group, kind, num, ev, V),
         NEW N, N = With(group, kind, Numeric), NEW o, o = MeasureOutput(m)
  PROVE  /\ o.storage_counts = m.counts /\ o.minimum = m.minimum /\ o.maximum = m.maximum
         /\ N = {} => o.sum = <<>>
         /\ N # {} => o.sum = <<m.total>>
<1>1. PICK a, b : a = With(group, kind, {"integer"}) /\ b = With(group, kind, {"real"})
  OBVIOUS
<1>2. IsFiniteSet(a) /\ IsFiniteSet(b)
  <2>1. a \subseteq group /\ b \subseteq group
    BY <1>1 DEF With
  <2> QED
    BY <2>1, FS_Subset
<1>3. N = {} <=> a = {} /\ b = {}
  BY <1>1 DEF With, Numeric
<1>4. PICK i \in Nat, r \in Nat : i = Cardinality(a) /\ r = Cardinality(b)
  BY <1>2, FS_CardinalityType
<1>5. N = {} <=> i = 0 /\ r = 0
  BY <1>2, <1>3, <1>4, FS_EmptySet
<1>6. m.counts["integer"] = i /\ m.counts["real"] = r
  BY <1>1, <1>4 DEF Met
<1>7. PICK count : count = i + r
  OBVIOUS
<1>8. N = {} <=> count = 0
  BY <1>4, <1>5, <1>7
<1>9. o = [storage_counts |-> m.counts, numeric_count |-> count,
           sum |-> IF count = 0 THEN <<>> ELSE <<m.total>>,
           mean |-> IF count = 0 THEN <<>> ELSE <<m.total, count>>,
           minimum |-> m.minimum, maximum |-> m.maximum]
  BY <1>6, <1>7, Zenon DEF MeasureOutput
<1> QED
  BY <1>8, <1>9

\* A measure of a group, as a summary shows it, is exact.
LEMMA MeasureHolds ==
  ASSUME NEW w, IsSequence(w), NEW q, NEW key, NEW name, NEW locator,
         \A r \in ToSet(w) : Field(r, name) \in SqlValues,
         NEW group, group = {i \in DOMAIN w : Cells(w[i], q.group_by) = key},
         NEW o, o = MeasureOutput(MeasureOver(w, q, key, name, locator))
  PROVE  MeasureExact(o, w, group, name, locator)
<1>1. Len(w) \in Nat /\ DOMAIN w = 1 .. Len(w)
  BY SequenceIs
<1>2. PICK kind, num, ev :
        kind = KindsOf(w, name) /\ num = NumbersOf(w, name) /\ ev = EvidenceOf(w, name, locator)
  OBVIOUS
<1>3. group = PlacesOf(w, q, key) /\ group \subseteq 1 .. Len(w)
  BY <1>1 DEF PlacesOf
<1>4. PICK N : N = With(group, kind, Numeric)
  OBVIOUS
<1>5. N \subseteq group /\ IsFiniteSet(group) /\ IsFiniteSet(N)
  <2>1. N \subseteq group
    BY <1>4 DEF With
  <2>2. IsFiniteSet(1 .. Len(w))
    BY <1>1, FS_Interval
  <2> QED
    BY <1>3, <2>1, <2>2, FS_Subset
<1>6. ASSUME NEW i \in group
      PROVE  /\ kind[i] = Field(w[i], name).kind /\ num[i] = Field(w[i], name).num /\ num[i] \in Int
             /\ ev[i] = <<Field(w[i], name).num, cell(Field(w[i], name)), Cells(w[i], locator)>>
  <2>1. i \in 1 .. Len(w)
    BY <1>3
  <2>2. w[i] \in ToSet(w)
    BY <1>1, <2>1, SequenceIs
  <2>3. Field(w[i], name).num \in Int
    BY <2>2, ValueIs
  <2>4. kind[i] = Field(w[i], name).kind /\ num[i] = Field(w[i], name).num
    BY <1>2, <2>1 DEF KindsOf, NumbersOf
  <2>5. ev[i] = <<Field(w[i], name).num, cell(Field(w[i], name)), Cells(w[i], locator)>>
    BY <1>2, <2>1 DEF EvidenceOf
  <2> QED
    BY <2>3, <2>4, <2>5
<1>7. PICK V : AddsUp(V, num, N)
  <2>1. \A i \in N : num[i] \in Int
    BY <1>5, <1>6
  <2> QED
    BY <1>5, <2>1, SumExists
<1>8. PICK m : m = MeasureOver(w, q, key, name, locator)
  OBVIOUS
<1>9. Met(m, group, kind, num, ev, V)
  BY <1>2, <1>3, <1>4, <1>7, <1>8, MeasureOverIs, ZenonT(60)
<1>10. /\ o.storage_counts = m.counts /\ o.minimum = m.minimum /\ o.maximum = m.maximum
       /\ N = {} => o.sum = <<>>
       /\ N # {} => o.sum = <<m.total>>
  BY <1>4, <1>5, <1>8, <1>9, MeasureOutputIs
<1>11. N = {i \in group : Field(w[i], name).kind \in Numeric}
  BY <1>4, <1>6 DEF With
<1>12. \A k \in DOMAIN o.storage_counts :
         o.storage_counts[k] = Cardinality({i \in group : Field(w[i], name).kind = k})
  <2>1. ASSUME NEW k \in DOMAIN o.storage_counts
        PROVE  o.storage_counts[k] = Cardinality({i \in group : Field(w[i], name).kind = k})
    <3>1. With(group, kind, {k}) = {i \in group : Field(w[i], name).kind = k}
      BY <1>6 DEF With
    <3>2. m.counts[k] = Cardinality(With(group, kind, {k}))
      BY <1>9, <1>10 DEF Met
    <3> QED
      BY <1>10, <3>1, <3>2
  <2> QED
    BY <2>1
<1>13. SumFunction([i \in N |-> Field(w[i], name).num]) = m.total
  <2>1. PICK f : f = [i \in N |-> Field(w[i], name).num]
    OBVIOUS
  <2>2. DOMAIN f = N /\ \A i \in N : f[i] = num[i]
    BY <1>5, <1>6, <2>1
  <2>3. AddsUp(V, f, N)
    <3>1. V \in [SUBSET N -> Int] /\ V[{}] = 0
      BY <1>7 DEF AddsUp
    <3>2. ASSUME NEW s \in SUBSET N, NEW x \in s
          PROVE  V[s] = f[x] + V[s \ {x}]
      <4>1. V[s] = num[x] + V[s \ {x}]
        BY <1>7 DEF AddsUp
      <4> QED
        BY <2>2, <4>1
    <3> QED
      BY <3>1, <3>2 DEF AddsUp
  <2>4. SumFunctionOnSet(f, N) = V[N]
    BY <1>5, <2>3, SumIs
  <2>5. SumFunction(f) = SumFunctionOnSet(f, N)
    BY <2>2, Zenon DEF SumFunction
  <2>6. m.total = V[N]
    BY <1>4, <1>9 DEF Met
  <2> QED
    BY <2>1, <2>4, <2>5, <2>6, Zenon
<1>14. ASSUME N = {}
       PROVE  o.sum = <<>> /\ o.minimum = <<>> /\ o.maximum = <<>>
  BY <1>4, <1>9, <1>10, <1>14 DEF Met, FirstLeast, FirstMost
<1>15. ASSUME N # {}
       PROVE  \E i \in N :
         /\ o.minimum = <<Field(w[i], name).num, cell(Field(w[i], name)), Cells(w[i], locator)>>
         /\ \A j \in N : Field(w[i], name).num <= Field(w[j], name).num
         /\ \A j \in N : j < i => Field(w[i], name).num < Field(w[j], name).num
  <2>1. FirstLeast(m.minimum, N, num, ev)
    BY <1>4, <1>9 DEF Met
  <2>2. PICK i \in N : /\ m.minimum = ev[i]
                       /\ \A j \in N : num[i] <= num[j]
                       /\ \A j \in N : j < i => num[i] < num[j]
    BY <1>15, <2>1 DEF FirstLeast
  <2>3. o.minimum = <<Field(w[i], name).num, cell(Field(w[i], name)), Cells(w[i], locator)>>
    BY <1>5, <1>6, <1>10, <2>2
  <2>4. \A j \in N : num[j] = Field(w[j], name).num
    BY <1>5, <1>6
  <2> QED
    BY <2>2, <2>3, <2>4
<1>16. ASSUME N # {}
       PROVE  \E i \in N :
         /\ o.maximum = <<Field(w[i], name).num, cell(Field(w[i], name)), Cells(w[i], locator)>>
         /\ \A j \in N : Field(w[j], name).num <= Field(w[i], name).num
         /\ \A j \in N : j < i => Field(w[j], name).num < Field(w[i], name).num
  <2>1. FirstMost(m.maximum, N, num, ev)
    BY <1>4, <1>9 DEF Met
  <2>2. PICK i \in N : /\ m.maximum = ev[i]
                       /\ \A j \in N : num[j] <= num[i]
                       /\ \A j \in N : j < i => num[j] < num[i]
    BY <1>16, <2>1 DEF FirstMost
  <2>3. o.maximum = <<Field(w[i], name).num, cell(Field(w[i], name)), Cells(w[i], locator)>>
    BY <1>5, <1>6, <1>10, <2>2
  <2>4. \A j \in N : num[j] = Field(w[j], name).num
    BY <1>5, <1>6
  <2> QED
    BY <2>2, <2>3, <2>4
<1>17. N # {} => o.sum = <<SumFunction([i \in N |-> Field(w[i], name).num])>>
  BY <1>10, <1>13, Zenon
<1> QED
  BY <1>11, <1>12, <1>14, <1>15, <1>16, <1>17, Zenon DEF MeasureExact

\* groups: how many rows have each key, and the measures of each group.
GroupsShow(G, w, q, locator) ==
  /\ DOMAIN G = {Cells(w[i], q.group_by) : i \in DOMAIN w}
  /\ \A key \in DOMAIN G :
       /\ G[key].row_count = Cardinality({i \in DOMAIN w : Cells(w[i], q.group_by) = key})
       /\ \A name \in ToSet(q.measures) :
            G[key].measures[name] = MeasureOutput(MeasureOver(w, q, key, name, locator))

LEMMA GroupIs ==
  ASSUME NEW w, IsSequence(w), NEW q, NEW sel, NEW G, G = groups(w, q, sel)
  PROVE  GroupsShow(G, w, q, sel.locator)
<1>1. DOMAIN G = {Cells(r, q.group_by) : r \in ToSet(w)}
  BY Zenon DEF groups
<1>2. DOMAIN G = {Cells(w[i], q.group_by) : i \in DOMAIN w}
  BY <1>1 DEF ToSet
<1>3. ASSUME NEW key \in DOMAIN G
      PROVE  G[key].row_count = Cardinality({i \in DOMAIN w : Cells(w[i], q.group_by) = key})
  <2>1. PICK at : at = {i \in DOMAIN w : Cells(w[i], q.group_by) = key}
    OBVIOUS
  <2>2. at \subseteq DOMAIN w /\ OfGroup(w, q, key) = Picked(w, at)
    BY <2>1 DEF OfGroup
  <2>3. Len(OfGroup(w, q, key)) = Cardinality(at)
    BY <2>2, PickedSequence
  <2>4. G[key].row_count = Len(OfGroup(w, q, key))
    BY <1>3, GroupsAre
  <2> QED
    BY <2>1, <2>3, <2>4
<1>4. ASSUME NEW key \in DOMAIN G, NEW name \in ToSet(q.measures)
      PROVE  G[key].measures[name] = MeasureOutput(MeasureOver(w, q, key, name, sel.locator))
  BY <1>1, <1>4, Zenon DEF groups
<1> QED
  BY <1>2, <1>3, <1>4 DEF GroupsShow

\* The keys of a sequence are finitely many.
LEMMA KeysFinite ==
  ASSUME NEW n \in Nat, NEW key, DOMAIN key = 1 .. n, NEW K, K = {key[i] : i \in 1 .. n}
  PROVE  IsFiniteSet(K)
<1>1. PICK f : f = [i \in 1 .. n |-> key[i]]
  OBVIOUS
<1>2. f \in Surjection(1 .. n, K)
  BY <1>1 DEF Surjection
<1>3. IsFiniteSet(1 .. n)
  BY FS_Interval
<1> QED
  BY <1>2, <1>3, FS_Surjection

\* The groups of a summary have every row once.
LEMMA GroupsCount ==
  ASSUME NEW w, IsSequence(w), NEW q, NEW sel, NEW G, G = groups(w, q, sel)
  PROVE  SumFunction([key \in DOMAIN G |-> G[key].row_count]) = Len(w)
<1>1. PICK n \in Nat : n = Len(w) /\ DOMAIN w = 1 .. n
  BY SequenceIs
<1>2. PICK key, I : key = [i \in 1 .. n |-> Cells(w[i], q.group_by)] /\ I = 1 .. n
  OBVIOUS
<1>3. PICK K : K = DOMAIN G
  OBVIOUS
<1>4. K = {Cells(w[i], q.group_by) : i \in DOMAIN w}
  <2>1. GroupsShow(G, w, q, sel.locator)
    BY GroupIs
  <2> QED
    BY <1>3, <2>1, Zenon DEF GroupsShow
<1>5. K = {key[i] : i \in 1 .. n}
  BY <1>1, <1>2, <1>4
<1>6. IsFiniteSet(K) /\ IsFiniteSet(I)
  <2>1. DOMAIN key = 1 .. n
    BY <1>2
  <2>2. IsFiniteSet(K)
    BY <1>5, <2>1, KeysFinite
  <2>3. IsFiniteSet(1 .. n)
    BY FS_Interval
  <2> QED
    BY <1>2, <2>2, <2>3
<1>7. PICK f : f = [k \in K |-> G[k].row_count]
  OBVIOUS
<1>8. ASSUME NEW k \in K
      PROVE  f[k] = Cardinality(With(I, key, {k}))
  <2>1. With(I, key, {k}) = {i \in DOMAIN w : Cells(w[i], q.group_by) = k}
    BY <1>1, <1>2 DEF With
  <2>2. f[k] = G[k].row_count
    BY <1>7
  <2>3. G[k].row_count = Cardinality({i \in DOMAIN w : Cells(w[i], q.group_by) = k})
    <3>1. GroupsShow(G, w, q, sel.locator)
      BY GroupIs
    <3> QED
      BY <1>3, <1>8, <3>1, Zenon DEF GroupsShow
  <2> QED
    BY <2>1, <2>2, <2>3
<1>9. SumFunctionOnSet(f, K) = Cardinality(With(I, key, K))
  BY <1>6, <1>8, CountsSum
<1>10. With(I, key, K) = 1 .. n
  BY <1>2, <1>5 DEF With
<1>11. Cardinality(1 .. n) = n
  BY FS_Interval
<1>12. SumFunction(f) = SumFunctionOnSet(f, K)
  <2>1. DOMAIN f = K
    BY <1>7
  <2> QED
    BY <2>1, Zenon DEF SumFunction
<1> QED
  BY <1>1, <1>3, <1>7, <1>9, <1>10, <1>11, <1>12, Zenon

\* What a summary shows is exact.
LEMMA SummaryHolds ==
  ASSUME SessionInv
  PROVE  SummaryExact
<1>1. PICK q, sel : q = view.request /\ sel = summary_recipe(q, Tables, FALSE)
  OBVIOUS
<1>2. PICK all : all = InOrder(Filtered(Db, sel), sel)
  OBVIOUS
<1>3. ASSUME view.op = "summarize"
      PROVE  /\ IsSequence(all) /\ view.groups = groups(all, q, sel)
             /\ \A r \in ToSet(all) : \A name : Field(r, name) \in SqlValues
  <2>1. view.op \notin {"idle", "refused"}
    BY <1>3
  <2>2. PICK db : AnswerOf(view, db, pinned, args)
    BY <2>1, OnScreen
  <2>3. args.op = "summarize" /\ IsCommand(args, pinned)
    BY <1>3, <2>1, OnScreen
  <2>4. PICK v, p, tables, after : v = view /\ p = args.request /\ tables = inventory(db) /\ after = pinned["after"]
    OBVIOUS
  <2>5. IsDatabase(db) /\ v.op # "refused" /\ v = Answer(db, tables, after, inventory(after), args)
    BY <2>2, <2>4, AnswerFrom
  <2>6. v = summarize(db, tables, p)
    BY <2>3, <2>4, <2>5, AnswerIs
  <2>7. p.database_sha256 = sha(pinned[args.side])
    BY <2>3, <2>4 DEF IsCommand, Scans
  <2>8. PICK S, F : S = SummaryOf(p, tables) /\ F = Filtered(db, S)
    OBVIOUS
  <2>9. /\ summary_recipeAccepts(p, db, tables) /\ v.request = p /\ v.groups = groups(InOrder(F, S), p, S)
    BY <2>4, <2>5, <2>6, <2>8, SummarizeIs
  <2>10. db = Db /\ tables = Tables
    BY <2>4, <2>7, <2>9, SummaryAccepted DEF sha, Db, Tables
  <2>11. p = q /\ S = sel /\ InOrder(F, S) = all
    BY <1>1, <1>2, <2>4, <2>8, <2>9, <2>10 DEF SummaryOf
  <2>12. S.table = p.table /\ S.order_by = <<>> /\ S.locator = LocatorOf(tables[p.table])
    BY <2>8, SummarySelection
  <2>13. F \subseteq Object(db, p.table).rows /\ IsSequence(InOrder(F, S)) /\ ToSet(InOrder(F, S)) = F
    <3>1. PICK s : s = scan(db, S)
      OBVIOUS
    <3> QED
      BY <2>4, <2>5, <2>8, <2>9, <2>12, <3>1, SummaryScan
  <2>14. RowsTyped(Object(db, p.table))
    <3>1. PICK recipe : recipe = Selecting(p.table, SummaryColumns(p), p.where)
      OBVIOUS
    <3>2. recipe.table = p.table /\ selection_recipeAccepts(recipe, inventory(db))
      BY <2>4, <2>9, <3>1, SummaryAccepted, SelectingIs
    <3> QED
      BY <2>5, <3>2, SelectedTable
  <2>15. \A r \in F : \A name : Field(r, name) \in SqlValues
    BY <2>13, <2>14, FieldType
  <2> QED
    BY <2>4, <2>9, <2>11, <2>13, <2>15
<1>4. ASSUME view.op = "summarize"
      PROVE  SumFunction([key \in DOMAIN view.groups |-> view.groups[key].row_count]) = Len(all)
  BY <1>3, <1>4, GroupsCount, Zenon
<1>5. ASSUME view.op = "summarize", NEW key \in DOMAIN view.groups, NEW name \in ToSet(q.measures)
      PROVE  MeasureExact(view.groups[key].measures[name], all,
                          {i \in DOMAIN all : Cells(all[i], q.group_by) = key}, name, sel.locator)
  <2>1. PICK G : G = view.groups
    OBVIOUS
  <2>2. IsSequence(all) /\ G = groups(all, q, sel) /\ \A r \in ToSet(all) : Field(r, name) \in SqlValues
    BY <1>3, <1>5, <2>1
  <2>3. PICK o : o = G[key].measures[name]
    OBVIOUS
  <2>4. o = MeasureOutput(MeasureOver(all, q, key, name, sel.locator))
    <3>1. GroupsShow(G, all, q, sel.locator)
      BY <2>2, GroupIs
    <3> QED
      BY <1>5, <2>1, <2>3, <3>1, Zenon DEF GroupsShow
  <2>5. PICK group : group = {i \in DOMAIN all : Cells(all[i], q.group_by) = key}
    OBVIOUS
  <2>6. MeasureExact(o, all, group, name, sel.locator)
    BY <2>2, <2>4, <2>5, MeasureHolds, Zenon
  <2> QED
    BY <2>1, <2>3, <2>5, <2>6
<1> QED
  BY <1>1, <1>2, <1>4, <1>5, Zenon DEF SummaryExact, Answered

\* Nothing follows a sequence when nothing is measured.
LEMMA NothingPicked ==
  ASSUME NEW x, IsSequence(x)
  PROVE  x \o Picked(<<>>, {}) = x
<1>1. PICK y : y = Picked(<<>>, {})
  OBVIOUS
<1>2. IsSequence(y) /\ Len(y) = 0
  <2>1. {} \subseteq DOMAIN <<>> /\ Cardinality({}) = 0
    BY FS_EmptySet
  <2> QED
    BY <1>1, <2>1, EmptySequence, PickedSequence
<1>3. y = <<>>
  BY <1>2, EmptySeq DEF IsSequence
<1> QED
  BY <1>1, <1>3 DEF IsSequence

\* A summary that only counts: by some columns of a selection, without measures.
CountBy(db, table, columns, where) ==
  [database_sha256 |-> db, table |-> table, group_by |-> columns, measures |-> <<>>, where |-> where]

LEMMA CountColumns ==
  ASSUME NEW db, NEW table, NEW columns, IsSequence(columns), NEW where, NEW p, p = CountBy(db, table, columns, where)
  PROVE  /\ p.database_sha256 = db /\ p.table = table /\ p.group_by = columns /\ p.measures = <<>> /\ p.where = where
         /\ SummaryColumns(p) = columns
<1>1. p.database_sha256 = db /\ p.table = table /\ p.group_by = columns /\ p.measures = <<>> /\ p.where = where
  BY DEF CountBy
<1>2. DOMAIN p.measures = {}
  BY <1>1, EmptySequence
<1>3. {i \in DOMAIN p.measures : p.measures[i] \notin ToSet(p.group_by)} = {}
  BY <1>2
<1>4. SummaryColumns(p) = p.group_by \o Picked(p.measures, {})
  BY <1>3, Zenon DEF SummaryColumns
<1>5. SummaryColumns(p) = columns \o Picked(<<>>, {})
  BY <1>1, <1>4
<1> QED
  BY <1>1, <1>5, NothingPicked

\* Fewer of the columns of an accepted selection are an accepted selection.
Fewer(columns, wide) ==
  /\ IsSequence(columns) /\ columns # <<>> /\ ToSet(columns) \subseteq ToSet(wide) /\ Distinct(columns)
  /\ Len(columns) <= Len(wide)

LEMMA FewerAccepted ==
  ASSUME NEW tables, NEW table, NEW wide, IsSequence(wide), NEW where,
         selection_recipeAccepts(Selecting(table, wide, where), tables), NEW columns, Fewer(columns, wide)
  PROVE  selection_recipeAccepts(Selecting(table, columns, where), tables)
<1>1. PICK x, y : x = Selecting(table, wide, where) /\ y = Selecting(table, columns, where)
  OBVIOUS
<1>2. /\ x.table = table /\ x.columns = wide /\ x.where = where /\ x.order_by = <<>>
      /\ y.table = table /\ y.columns = columns /\ y.where = where /\ y.order_by = <<>>
  BY <1>1, SelectingIs
<1>3. y.table = x.table /\ y.where = x.where /\ y.order_by = x.order_by
  BY <1>2
<1>4. PICK available : available = ToSet(StoredNames(tables[table]))
  OBVIOUS
<1>5. selection_recipeAccepts(x, tables)
  BY <1>1
<1>6. ToSet(wide) \subseteq available /\ Len(wide) <= MaxColumns
  BY <1>2, <1>4, <1>5, AcceptedSelection
<1>7. ToSet(columns) \subseteq available /\ Distinct(columns) /\ columns # <<>>
  BY <1>6 DEF Fewer
<1>8. Len(columns) <= MaxColumns
  <2>1. Len(columns) \in Nat /\ Len(wide) \in Nat /\ MaxColumns \in Nat
    BY SequenceIs, ReaderAssumption DEF Fewer
  <2>2. Len(columns) <= Len(wide)
    BY DEF Fewer
  <2> QED
    BY <1>6, <2>1, <2>2
<1>9. /\ ToSet(y.columns) \subseteq ToSet(StoredNames(tables[y.table])) /\ Distinct(y.columns)
      /\ Len(y.columns) <= MaxColumns /\ y.columns # <<>>
  BY <1>2, <1>4, <1>7, <1>8
<1>10. selection_recipeAccepts(y, tables)
  BY <1>3, <1>5, <1>9, Zenon DEF selection_recipeAccepts
<1> QED
  BY <1>1, <1>10

\* What the groups of such a count show of the rows w.
LocatedAt(w, at, locator) == [i \in DOMAIN Picked(w, at) |-> Cells(Picked(w, at)[i], locator)]
SharedBy(w, columns, key) == {i \in DOMAIN w : Cells(w[i], columns) = key}
CountsBy(G, w, columns, locator) ==
  /\ DOMAIN G = {Cells(w[i], columns) : i \in DOMAIN w}
  /\ \A key \in DOMAIN G : /\ G[key].row_count = Cardinality(SharedBy(w, columns, key))
                           /\ G[key].locators = LocatedAt(w, SharedBy(w, columns, key), locator)

\* A selection that was scanned whole can be counted by fewer of its columns.
LEMMA CountedBy ==
  ASSUME NEW db, IsDatabase(db), NEW tables, tables = inventory(db), NEW table, NEW where,
         NEW wide, IsSequence(wide), selection_recipeAccepts(Selecting(table, wide, where), tables),
         NEW columns, Fewer(columns, wide), Len(columns) <= MaxGrouping,
         NEW sel, sel = selection_recipe(Selecting(table, <<>>, where), tables),
         NEW F, F = Filtered(db, sel), Cardinality(F) <= MaxRows, \A r \in F : RowAccepts(r, sel),
         NEW w, w = InOrder(F, sel), NEW p, p = CountBy(db, table, columns, where),
         NEW G, G = summarize(db, tables, p).groups
  PROVE  CountsBy(G, w, columns, sel.locator)
<1>1. /\ p.database_sha256 = db /\ p.table = table /\ p.group_by = columns /\ p.measures = <<>> /\ p.where = where
      /\ SummaryColumns(p) = columns
  <2>1. IsSequence(columns)
    BY DEF Fewer
  <2> QED
    BY <2>1, CountColumns
<1>2. summary_recipeAccepts(p, db, tables)
  <2>1. selection_recipeAccepts(Selecting(table, columns, where), tables)
    BY FewerAccepted
  <2>2. selection_recipeAccepts(Selecting(p.table, SummaryColumns(p), p.where), tables)
    BY <1>1, <2>1
  <2>3. Len(<<>>) <= MaxGrouping /\ Distinct(<<>>)
    <3>1. Len(<<>>) = 0 /\ Cardinality(ToSet(<<>>)) = 0
      BY EmptySequence, FS_EmptySet
    <3> QED
      BY <3>1, ExploreAssumption DEF Distinct
  <2>4. \A names \in {p.group_by, p.measures} : Len(names) <= MaxGrouping /\ Distinct(names)
    BY <1>1, <2>3 DEF Fewer
  <2> QED
    BY <1>1, <2>2, <2>4 DEF summary_recipeAccepts, sha
<1>3. PICK S : S = SummaryOf(p, tables)
  OBVIOUS
<1>4. /\ S.table = table /\ S.where = where /\ S.order_by = <<>> /\ S.locator = LocatorOf(tables[table])
      /\ S.columns = columns
  <2>1. columns # <<>>
    BY DEF Fewer
  <2>2. /\ S.table = p.table /\ S.where = p.where /\ S.order_by = <<>> /\ S.locator = LocatorOf(tables[p.table])
        /\ SummaryColumns(p) # <<>> => S.columns = SummaryColumns(p)
    BY <1>3, SummarySelection
  <2> QED
    BY <1>1, <2>1, <2>2
<1>5. /\ sel.table = table /\ sel.where = where /\ sel.order_by = <<>> /\ sel.locator = LocatorOf(tables[table])
      /\ sel.columns = StoredNames(tables[table])
  <2>1. PICK r : r = Selecting(table, <<>>, where)
    OBVIOUS
  <2>2. r.table = table /\ r.columns = <<>> /\ r.where = where /\ r.order_by = <<>>
    BY <2>1, SelectingIs
  <2>3. sel = selection_recipe(r, tables)
    BY <2>1
  <2>4. /\ sel.table = r.table /\ sel.where = r.where /\ sel.order_by = r.order_by
        /\ sel.locator = LocatorOf(tables[r.table]) /\ sel.columns = StoredNames(tables[r.table])
    BY <2>2, <2>3, SelectionIs
  <2> QED
    BY <2>2, <2>4
<1>6. F = Filtered(db, S) /\ w = InOrder(F, S)
  <2>1. Filtered(db, S) = Filtered(db, sel)
    BY <1>4, <1>5, SameFiltered
  <2>2. InOrder(F, S) = InOrder(F, sel)
    BY <1>4, <1>5, SameOrder
  <2> QED
    BY <2>1, <2>2
<1>7. PICK s : s = scan(db, S)
  OBVIOUS
<1>8. /\ IsSequence(w)
      /\ s.ok <=> Cardinality(F) <= MaxRows /\ \A r \in F : RowAccepts(r, S)
      /\ s.ok => s.rows = w
  <2>1. S.table = p.table /\ S.order_by = <<>> /\ S.locator = LocatorOf(tables[p.table])
    BY <1>1, <1>4
  <2> QED
    BY <1>2, <1>6, <1>7, <2>1, SummaryScan
<1>9. \A r \in F : RowAccepts(r, S)
  <2>1. ToSet(columns) \subseteq ToSet(StoredNames(tables[table]))
    <3>1. PICK x : x = Selecting(table, wide, where)
      OBVIOUS
    <3>2. x.table = table /\ x.columns = wide /\ selection_recipeAccepts(x, tables)
      BY <3>1, SelectingIs
    <3>3. ToSet(wide) \subseteq ToSet(StoredNames(tables[table]))
      BY <3>2, AcceptedSelection
    <3> QED
      BY <3>3 DEF Fewer
  <2> QED
    BY <1>4, <1>5, <2>1 DEF RowAccepts
<1>10. s.ok /\ s.rows = w
  BY <1>8, <1>9
<1>11. G = groups(w, p, S)
  <2>1. summarize(db, tables, p) = SummaryAnswer(db, p, S, s)
    BY <1>2, <1>3, <1>7 DEF summarize, Summarized, SummaryOf
  <2>2. SummaryAnswer(db, p, S, s) =
          [op |-> "summarize", database_sha256 |-> sha(db), request |-> p,
           groups |-> groups(w, p, S), selected_row_count |-> Len(w)]
    BY <1>10 DEF SummaryAnswer
  <2> QED
    BY <2>1, <2>2
<1>12. GroupsShow(G, w, p, S.locator)
  BY <1>8, <1>11, GroupIs
<1>13. DOMAIN G = {Cells(w[i], columns) : i \in DOMAIN w}
  BY <1>1, <1>12 DEF GroupsShow
<1>14. ASSUME NEW key \in DOMAIN G
       PROVE  /\ G[key].row_count = Cardinality(SharedBy(w, columns, key))
              /\ G[key].locators = LocatedAt(w, SharedBy(w, columns, key), sel.locator)
  <2>1. G[key].row_count = Cardinality(SharedBy(w, columns, key))
    <3>1. G[key].row_count = Cardinality({i \in DOMAIN w : Cells(w[i], p.group_by) = key})
      BY <1>12, <1>14, Zenon DEF GroupsShow
    <3>2. {i \in DOMAIN w : Cells(w[i], p.group_by) = key} = SharedBy(w, columns, key)
      BY <1>1 DEF SharedBy
    <3> QED
      BY <3>1, <3>2
  <2>2. G[key].locators = Locators(OfGroup(w, p, key), S)
    BY <1>11, <1>14, GroupsAre
  <2>3. OfGroup(w, p, key) = Picked(w, SharedBy(w, columns, key))
    BY <1>1, Zenon DEF OfGroup, SharedBy
  <2>4. S.locator = sel.locator
    BY <1>4, <1>5
  <2> QED
    BY <2>1, <2>2, <2>3, <2>4, Zenon DEF Locators, LocatedAt
<1> QED
  BY <1>13, <1>14 DEF CountsBy

\* The keys of an axis, and the rows of a cell.
AxisKeys(w, name) == {AxisKey(Field(w[i], name)) : i \in DOMAIN w}
InCell(w, q, rc) ==
  {i \in DOMAIN w : <<AxisKey(Field(w[i], q.row_column)), AxisKey(Field(w[i], q.column_column))>> = rc}
AxisPairs(w, q) == AxisKeys(w, q.row_column) \X AxisKeys(w, q.column_column)
CrosstabShows(v, w, q, sel) ==
  /\ DOMAIN v.counts = AxisPairs(w, q) /\ DOMAIN v.cells = AxisPairs(w, q)
  /\ \A rc \in AxisPairs(w, q) : /\ v.counts[rc] = Cardinality(InCell(w, q, rc))
                                 /\ v.cells[rc] = ShownRows(Picked(w, InCell(w, q, rc)), sel)
  /\ v.row_totals = [k \in AxisKeys(w, q.row_column) |->
                       SumFunctionOnSet(v.counts, {k} \X AxisKeys(w, q.column_column))]
  /\ v.column_totals = [k \in AxisKeys(w, q.column_column) |->
                          SumFunctionOnSet(v.counts, AxisKeys(w, q.row_column) \X {k})]

CrosstabRead(v, db, tables, q, sel, F, w) ==
  /\ q.database_sha256 = db /\ q.row_column # q.column_column
  /\ selection_recipeAccepts(Selecting(q.table, <<q.row_column, q.column_column>>, q.where), tables)
  /\ IsSequence(w) /\ Cardinality(F) <= MaxRows /\ \A r \in F : RowAccepts(r, sel)
  /\ CrosstabShows(v, w, q, sel)

\* crosstab: the cells and the totals of a complete scan.
LEMMA CrosstabCounts ==
  ASSUME NEW db, IsDatabase(db), NEW tables, tables = inventory(db), NEW q, NEW v, v = crosstab(db, tables, q),
         v.op # "refused", NEW sel, sel = selection_recipe(Selecting(q.table, <<>>, q.where), tables),
         NEW F, F = Filtered(db, sel), NEW w, w = InOrder(F, sel)
  PROVE  CrosstabRead(v, db, tables, q, sel, F, w)
<1>1. PICK s : s = scan(db, sel)
  OBVIOUS
<1>2. Refused.op = "refused"
  BY DEF Refused
<1>3. /\ q.database_sha256 = sha(db) /\ q.row_column # q.column_column
      /\ selection_recipeAccepts(Selecting(q.table, <<q.row_column, q.column_column>>, q.where), tables)
      /\ v = CrosstabAnswer(db, q, sel, s)
  BY <1>1, <1>2 DEF crosstab, CrosstabOf
<1>4. /\ IsSequence(w)
      /\ s.ok <=> Cardinality(F) <= MaxRows /\ \A r \in F : RowAccepts(r, sel)
      /\ s.ok => s.rows = w
  <2>1. PICK columns : columns = <<q.row_column, q.column_column>>
    OBVIOUS
  <2>2. selection_recipeAccepts(Selecting(q.table, columns, q.where), tables)
    BY <1>3, <2>1
  <2> QED
    BY <1>1, <2>2, WholeScan
<1>5. s.ok
  BY <1>2, <1>3 DEF CrosstabAnswer
<1>6. s.rows = w
  BY <1>4, <1>5
<1>7. PICK rk, ck : rk = AxisKeys(w, q.row_column) /\ ck = AxisKeys(w, q.column_column)
  OBVIOUS
<1>8. PICK members : members = [rc \in rk \X ck |-> OfCell(w, q, rc)]
  OBVIOUS
<1>9. v = Crosstab(db, q, sel, Len(w), members, rk, ck)
  <2>1. /\ {AxisKey(Field(r, q.row_column)) : r \in ToSet(w)} = rk
        /\ {AxisKey(Field(r, q.column_column)) : r \in ToSet(w)} = ck
    BY <1>7 DEF AxisKeys, ToSet
  <2>2. v = IF \/ ~s.ok \/ Cardinality(rk) > MaxCategories \/ Cardinality(ck) > MaxCategories
            THEN Refused
            ELSE Crosstab(db, q, sel, Len(w), [rc \in rk \X ck |-> OfCell(w, q, rc)], rk, ck)
    BY <1>3, <1>6, <2>1, Zenon DEF CrosstabAnswer
  <2> QED
    BY <1>2, <1>8, <2>2
<1>10. PICK counts : counts = [rc \in DOMAIN members |-> Len(members[rc])]
  OBVIOUS
<1>11. /\ v.counts = counts
       /\ v.row_totals = [k \in rk |-> SumFunctionOnSet(counts, {k} \X ck)]
       /\ v.column_totals = [k \in ck |-> SumFunctionOnSet(counts, rk \X {k})]
       /\ v.cells = [rc \in DOMAIN members |-> ShownRows(members[rc], sel)]
  <2>1. PICK rows, columns, cells :
          /\ rows = [k \in rk |-> SumFunctionOnSet(counts, {k} \X ck)]
          /\ columns = [k \in ck |-> SumFunctionOnSet(counts, rk \X {k})]
          /\ cells = [rc \in DOMAIN members |-> ShownRows(members[rc], sel)]
    OBVIOUS
  <2>2. v = [op |-> "crosstab", database_sha256 |-> sha(db), request |-> q, counts |-> counts,
             row_totals |-> rows, column_totals |-> columns, cells |-> cells,
             columns |-> sel.columns, selected_row_count |-> Len(w)]
    BY <1>9, <1>10, <2>1, Zenon DEF Crosstab, ShownRows
  <2> QED
    BY <2>1, <2>2
<1>12. DOMAIN members = rk \X ck
  BY <1>8
<1>13. ASSUME NEW rc \in rk \X ck
       PROVE  /\ v.counts[rc] = Cardinality(InCell(w, q, rc))
              /\ v.cells[rc] = ShownRows(Picked(w, InCell(w, q, rc)), sel)
  <2>1. PICK at : at = InCell(w, q, rc)
    OBVIOUS
  <2>2. members[rc] = Picked(w, at) /\ at \subseteq DOMAIN w
    BY <1>8, <1>13, <2>1 DEF OfCell, InCell
  <2>3. Len(Picked(w, at)) = Cardinality(at)
    BY <1>4, <2>2, PickedSequence
  <2>4. v.counts[rc] = Len(members[rc]) /\ v.cells[rc] = ShownRows(members[rc], sel)
    BY <1>10, <1>11, <1>12, <1>13
  <2> QED
    BY <2>1, <2>2, <2>3, <2>4
<1>14. CrosstabShows(v, w, q, sel)
  <2>1. DOMAIN v.counts = rk \X ck /\ DOMAIN v.cells = rk \X ck
    BY <1>10, <1>11, <1>12
  <2>2. rk \X ck = AxisPairs(w, q)
    BY <1>7 DEF AxisPairs
  <2>3. /\ v.row_totals = [k \in rk |-> SumFunctionOnSet(v.counts, {k} \X ck)]
        /\ v.column_totals = [k \in ck |-> SumFunctionOnSet(v.counts, rk \X {k})]
    BY <1>11
  <2>4. v.row_totals = [k \in AxisKeys(w, q.row_column) |->
                          SumFunctionOnSet(v.counts, {k} \X AxisKeys(w, q.column_column))]
    BY <1>7, <2>3
  <2>5. v.column_totals = [k \in AxisKeys(w, q.column_column) |->
                             SumFunctionOnSet(v.counts, AxisKeys(w, q.row_column) \X {k})]
    BY <1>7, <2>3
  <2>6. \A rc \in AxisPairs(w, q) : /\ v.counts[rc] = Cardinality(InCell(w, q, rc))
                                    /\ v.cells[rc] = ShownRows(Picked(w, InCell(w, q, rc)), sel)
    BY <1>13, <2>2
  <2>7. DOMAIN v.counts = AxisPairs(w, q) /\ DOMAIN v.cells = AxisPairs(w, q)
    BY <2>1, <2>2
  <2> QED
    BY <2>4, <2>5, <2>6, <2>7, Zenon DEF CrosstabShows
<1> QED
  BY <1>3, <1>4, <1>5, <1>14 DEF sha, CrosstabRead

\* Lists of two names and of one, and the cells of a row by them.
LEMMA TwoNamed ==
  ASSUME NEW a, NEW b, a # b, NEW names, names = <<a, b>>
  PROVE  /\ IsSequence(names) /\ names # <<>> /\ ToSet(names) = {a, b} /\ Len(names) = 2 /\ Distinct(names)
         /\ \A r : Cells(r, names) = <<cell(Field(r, a)), cell(Field(r, b))>>
<1>1. DOMAIN names = 1 .. 2 /\ Len(names) = 2 /\ names[1] = a /\ names[2] = b /\ names # <<>>
  OBVIOUS
<1>2. names = [i \in 1 .. 2 |-> names[i]]
  BY <1>1
<1>3. IsSequence(names)
  BY <1>2, SegmentSequence
<1>4. ToSet(names) = {a, b}
  BY <1>1 DEF ToSet
<1>5. Cardinality({a, b}) = 2
  <2>1. Cardinality({a}) = 1 /\ IsFiniteSet({a}) /\ b \notin {a}
    BY FS_Singleton
  <2>2. Cardinality({a} \cup {b}) = Cardinality({a}) + 1
    BY <2>1, FS_AddElement
  <2>3. {a} \cup {b} = {a, b}
    OBVIOUS
  <2> QED
    BY <2>1, <2>2, <2>3
<1>6. ASSUME NEW r
      PROVE  Cells(r, names) = <<cell(Field(r, a)), cell(Field(r, b))>>
  <2>1. PICK x, y : x = cell(Field(r, a)) /\ y = cell(Field(r, b))
    OBVIOUS
  <2>2. Cells(r, names) = [i \in 1 .. 2 |-> cell(Field(r, names[i]))]
    BY <1>1 DEF Cells
  <2>3. [i \in 1 .. 2 |-> cell(Field(r, names[i]))] = <<x, y>>
    BY <1>1, <2>1
  <2> QED
    BY <2>1, <2>2, <2>3
<1> QED
  BY <1>1, <1>3, <1>4, <1>5, <1>6 DEF Distinct

LEMMA OneNamed ==
  ASSUME NEW a, NEW names, names = <<a>>
  PROVE  /\ IsSequence(names) /\ names # <<>> /\ ToSet(names) = {a} /\ Len(names) = 1 /\ Distinct(names)
         /\ \A r : Cells(r, names) = <<cell(Field(r, a))>>
<1>1. DOMAIN names = 1 .. 1 /\ Len(names) = 1 /\ names[1] = a /\ names # <<>>
  OBVIOUS
<1>2. names = [i \in 1 .. 1 |-> names[i]]
  BY <1>1
<1>3. IsSequence(names)
  BY <1>2, SegmentSequence
<1>4. ToSet(names) = {a}
  BY <1>1 DEF ToSet
<1>5. Cardinality({a}) = 1
  BY FS_Singleton
<1>6. ASSUME NEW r
      PROVE  Cells(r, names) = <<cell(Field(r, a))>>
  <2>1. PICK x : x = cell(Field(r, a))
    OBVIOUS
  <2>2. Cells(r, names) = [i \in 1 .. 1 |-> cell(Field(r, names[i]))]
    BY <1>1 DEF Cells
  <2>3. [i \in 1 .. 1 |-> cell(Field(r, names[i]))] = <<x>>
    BY <1>1, <2>1
  <2> QED
    BY <2>1, <2>2, <2>3
<1> QED
  BY <1>1, <1>3, <1>4, <1>5, <1>6 DEF Distinct

\* A cell of a crosstab and the group of both its keys have the same rows.
LEMMA CellIsGroup ==
  ASSUME NEW w, NEW q, q.row_column # q.column_column, NEW columns, columns = <<q.row_column, q.column_column>>, NEW rc
  PROVE  InCell(w, q, rc) = SharedBy(w, columns, rc)
<1>1. \A r : Cells(r, columns) = <<cell(Field(r, q.row_column)), cell(Field(r, q.column_column))>>
  BY TwoNamed
<1> QED
  BY <1>1 DEF InCell, SharedBy, AxisKey

LEMMA CellsCounted ==
  ASSUME NEW w, IsSequence(w), NEW q, q.row_column # q.column_column, NEW sel, NEW v, CrosstabShows(v, w, q, sel),
         NEW columns, columns = <<q.row_column, q.column_column>>, NEW both, CountsBy(both, w, columns, sel.locator)
  PROVE  /\ DOMAIN both = {rc \in DOMAIN v.counts : v.counts[rc] > 0}
         /\ \A rc \in DOMAIN both : v.counts[rc] = both[rc].row_count
                                    /\ LocatorsOf(v.cells[rc]) = both[rc].locators
<1>1. PICK D : D = AxisPairs(w, q)
  OBVIOUS
<1>2. /\ DOMAIN v.counts = D /\ DOMAIN v.cells = D
      /\ \A rc \in D : /\ v.counts[rc] = Cardinality(SharedBy(w, columns, rc))
                       /\ v.cells[rc] = ShownRows(Picked(w, SharedBy(w, columns, rc)), sel)
  BY <1>1, CellIsGroup DEF CrosstabShows
<1>3. \A rc : IsFiniteSet(SharedBy(w, columns, rc)) /\ SharedBy(w, columns, rc) \subseteq DOMAIN w
  <2>1. \A rc : SharedBy(w, columns, rc) \subseteq DOMAIN w
    BY DEF SharedBy
  <2>2. DOMAIN w = 1 .. Len(w) /\ Len(w) \in Nat
    BY SequenceIs
  <2>3. IsFiniteSet(DOMAIN w)
    BY <2>2, FS_Interval
  <2> QED
    BY <2>1, <2>3, FS_Subset
<1>4. DOMAIN both \subseteq D
  <2>1. ASSUME NEW rc \in DOMAIN both
        PROVE  rc \in D
    <3>1. PICK i \in DOMAIN w : rc = Cells(w[i], columns)
      BY DEF CountsBy
    <3>2. PICK x, y : x = AxisKey(Field(w[i], q.row_column)) /\ y = AxisKey(Field(w[i], q.column_column))
      OBVIOUS
    <3>3. rc = <<x, y>>
      BY <3>1, <3>2, TwoNamed DEF AxisKey
    <3>4. x \in AxisKeys(w, q.row_column) /\ y \in AxisKeys(w, q.column_column)
      BY <3>2 DEF AxisKeys
    <3> QED
      BY <1>1, <3>3, <3>4 DEF AxisPairs
  <2> QED
    BY <2>1
<1>5. ASSUME NEW rc \in D
      PROVE  rc \in DOMAIN both <=> v.counts[rc] > 0
  <2>1. PICK at : at = SharedBy(w, columns, rc)
    OBVIOUS
  <2>2. rc \in DOMAIN both <=> at # {}
    <3>1. DOMAIN both = {Cells(w[i], columns) : i \in DOMAIN w}
      BY DEF CountsBy
    <3>2. at = {i \in DOMAIN w : Cells(w[i], columns) = rc}
      BY <2>1 DEF SharedBy
    <3> QED
      BY <3>1, <3>2
  <2>3. at # {} <=> Cardinality(at) > 0
    <3>1. IsFiniteSet(at)
      BY <1>3, <2>1
    <3>2. Cardinality(at) \in Nat /\ (Cardinality(at) = 0 <=> at = {})
      BY <3>1, FS_CardinalityType, FS_EmptySet
    <3> QED
      BY <3>2
  <2>4. v.counts[rc] = Cardinality(at)
    BY <1>2, <1>5, <2>1
  <2> QED
    BY <2>2, <2>3, <2>4
<1>6. DOMAIN both = {rc \in DOMAIN v.counts : v.counts[rc] > 0}
  BY <1>2, <1>4, <1>5
<1>7. ASSUME NEW rc \in DOMAIN both
      PROVE  v.counts[rc] = both[rc].row_count /\ LocatorsOf(v.cells[rc]) = both[rc].locators
  <2>1. PICK at, u : at = SharedBy(w, columns, rc) /\ u = Picked(w, at)
    OBVIOUS
  <2>2. rc \in D
    BY <1>4, <1>7
  <2>3. both[rc].row_count = Cardinality(at) /\ both[rc].locators = LocatedAt(w, at, sel.locator)
    BY <1>7, <2>1 DEF CountsBy
  <2>4. v.counts[rc] = Cardinality(at) /\ v.cells[rc] = ShownRows(u, sel)
    BY <1>2, <2>1, <2>2
  <2>5. LocatorsOf(ShownRows(u, sel)) = [i \in DOMAIN u |-> Cells(u[i], sel.locator)]
    BY DEF LocatorsOf, ShownRows, RowCells
  <2>6. LocatedAt(w, at, sel.locator) = [i \in DOMAIN u |-> Cells(u[i], sel.locator)]
    BY <2>1, Zenon DEF LocatedAt
  <2> QED
    BY <2>3, <2>4, <2>5, <2>6
<1> QED
  BY <1>6, <1>7

\* A total along an axis and the group of its key.
TotalsAgree(axis, of) ==
  /\ DOMAIN of = {<<k>> : k \in DOMAIN axis}
  /\ \A k \in DOMAIN axis : axis[k] = of[<<k>>].row_count

\* The cells of a crosstab, summed over some of them.
LEMMA CellsSum ==
  ASSUME NEW w, IsSequence(w), NEW q, NEW sel, NEW v, CrosstabShows(v, w, q, sel), NEW S \in SUBSET AxisPairs(w, q),
         NEW at, at = {i \in DOMAIN w : <<AxisKey(Field(w[i], q.row_column)), AxisKey(Field(w[i], q.column_column))>> \in S}
  PROVE  SumFunctionOnSet(v.counts, S) = Cardinality(at)
<1>1. PICK n \in Nat : n = Len(w) /\ DOMAIN w = 1 .. n
  BY SequenceIs
<1>2. PICK row, column : /\ row = [i \in 1 .. n |-> AxisKey(Field(w[i], q.row_column))]
                         /\ column = [i \in 1 .. n |-> AxisKey(Field(w[i], q.column_column))]
  OBVIOUS
<1>3. PICK rk, ck : rk = {row[i] : i \in 1 .. n} /\ ck = {column[i] : i \in 1 .. n}
  OBVIOUS
<1>4. AxisKeys(w, q.row_column) = rk /\ AxisKeys(w, q.column_column) = ck
  BY <1>1, <1>2, <1>3 DEF AxisKeys
<1>5. IsFiniteSet(rk) /\ IsFiniteSet(ck)
  <2>1. DOMAIN row = 1 .. n /\ DOMAIN column = 1 .. n
    BY <1>2
  <2>2. IsFiniteSet(rk)
    BY <1>3, <2>1, KeysFinite
  <2>3. IsFiniteSet(ck)
    BY <1>3, <2>1, KeysFinite
  <2> QED
    BY <2>2, <2>3
<1>6. IsFiniteSet(S)
  <2>1. IsFiniteSet(rk \X ck)
    BY <1>5, FS_Product
  <2>2. S \subseteq rk \X ck
    BY <1>4 DEF AxisPairs
  <2> QED
    BY <2>1, <2>2, FS_Subset
<1>7. PICK key, I : key = [i \in 1 .. n |-> <<row[i], column[i]>>] /\ I = 1 .. n
  OBVIOUS
<1>8. \A i \in 1 .. n : key[i] = <<AxisKey(Field(w[i], q.row_column)), AxisKey(Field(w[i], q.column_column))>>
  BY <1>2, <1>7
<1>9. ASSUME NEW x \in S
      PROVE  v.counts[x] = Cardinality(With(I, key, {x}))
  <2>1. With(I, key, {x}) = InCell(w, q, x)
    BY <1>1, <1>7, <1>8 DEF With, InCell
  <2>2. v.counts[x] = Cardinality(InCell(w, q, x))
    BY <1>9, Zenon DEF CrosstabShows
  <2> QED
    BY <2>1, <2>2
<1>10. IsFiniteSet(I)
  BY <1>7, FS_Interval
<1>11. SumFunctionOnSet(v.counts, S) = Cardinality(With(I, key, S))
  BY <1>6, <1>9, <1>10, CountsSum
<1>12. With(I, key, S) = at
  BY <1>1, <1>7, <1>8 DEF With
<1> QED
  BY <1>11, <1>12

LEMMA RowTotals ==
  ASSUME NEW w, IsSequence(w), NEW q, NEW sel, NEW v, CrosstabShows(v, w, q, sel),
         NEW columns, columns = <<q.row_column>>, NEW of, CountsBy(of, w, columns, sel.locator)
  PROVE  TotalsAgree(v.row_totals, of)
<1>1. PICK rk, ck : rk = AxisKeys(w, q.row_column) /\ ck = AxisKeys(w, q.column_column)
  OBVIOUS
<1>2. \A r : Cells(r, columns) = <<AxisKey(Field(r, q.row_column))>>
  BY OneNamed DEF AxisKey
<1>3. DOMAIN v.row_totals = rk
  BY <1>1 DEF CrosstabShows
<1>4. DOMAIN of = {<<k>> : k \in rk}
  BY <1>1, <1>2 DEF CountsBy, AxisKeys
<1>5. ASSUME NEW k \in rk
      PROVE  v.row_totals[k] = of[<<k>>].row_count
  <2>1. PICK S : S = {k} \X ck
    OBVIOUS
  <2>2. PICK at : at = {i \in DOMAIN w :
                          <<AxisKey(Field(w[i], q.row_column)), AxisKey(Field(w[i], q.column_column))>> \in S}
    OBVIOUS
  <2>3. S \in SUBSET AxisPairs(w, q)
    BY <1>1, <2>1 DEF AxisPairs
  <2>4. SumFunctionOnSet(v.counts, S) = Cardinality(at)
    BY <2>2, <2>3, CellsSum
  <2>5. v.row_totals[k] = SumFunctionOnSet(v.counts, S)
    BY <1>1, <2>1 DEF CrosstabShows
  <2>6. at = SharedBy(w, columns, <<k>>)
    <3>1. \A i \in DOMAIN w : AxisKey(Field(w[i], q.column_column)) \in ck
      BY <1>1 DEF AxisKeys
    <3>2. \A i \in DOMAIN w : i \in at <=> AxisKey(Field(w[i], q.row_column)) = k
      BY <2>1, <2>2, <3>1
    <3>3. \A i \in DOMAIN w : i \in SharedBy(w, columns, <<k>>) <=> AxisKey(Field(w[i], q.row_column)) = k
      BY <1>2 DEF SharedBy
    <3>4. at \subseteq DOMAIN w /\ SharedBy(w, columns, <<k>>) \subseteq DOMAIN w
      BY <2>2 DEF SharedBy
    <3> QED
      BY <3>2, <3>3, <3>4
  <2>7. of[<<k>>].row_count = Cardinality(SharedBy(w, columns, <<k>>))
    <3>1. <<k>> \in DOMAIN of
      BY <1>4
    <3> QED
      BY <3>1, Zenon DEF CountsBy
  <2> QED
    BY <2>4, <2>5, <2>6, <2>7
<1> QED
  BY <1>3, <1>4, <1>5, Zenon DEF TotalsAgree

LEMMA ColumnTotals ==
  ASSUME NEW w, IsSequence(w), NEW q, NEW sel, NEW v, CrosstabShows(v, w, q, sel),
         NEW columns, columns = <<q.column_column>>, NEW of, CountsBy(of, w, columns, sel.locator)
  PROVE  TotalsAgree(v.column_totals, of)
<1>1. PICK rk, ck : rk = AxisKeys(w, q.row_column) /\ ck = AxisKeys(w, q.column_column)
  OBVIOUS
<1>2. \A r : Cells(r, columns) = <<AxisKey(Field(r, q.column_column))>>
  BY OneNamed DEF AxisKey
<1>3. DOMAIN v.column_totals = ck
  BY <1>1 DEF CrosstabShows
<1>4. DOMAIN of = {<<k>> : k \in ck}
  BY <1>1, <1>2 DEF CountsBy, AxisKeys
<1>5. ASSUME NEW k \in ck
      PROVE  v.column_totals[k] = of[<<k>>].row_count
  <2>1. PICK S : S = rk \X {k}
    OBVIOUS
  <2>2. PICK at : at = {i \in DOMAIN w :
                          <<AxisKey(Field(w[i], q.row_column)), AxisKey(Field(w[i], q.column_column))>> \in S}
    OBVIOUS
  <2>3. S \in SUBSET AxisPairs(w, q)
    BY <1>1, <2>1 DEF AxisPairs
  <2>4. SumFunctionOnSet(v.counts, S) = Cardinality(at)
    BY <2>2, <2>3, CellsSum
  <2>5. v.column_totals[k] = SumFunctionOnSet(v.counts, S)
    BY <1>1, <2>1 DEF CrosstabShows
  <2>6. at = SharedBy(w, columns, <<k>>)
    <3>1. \A i \in DOMAIN w : AxisKey(Field(w[i], q.row_column)) \in rk
      BY <1>1 DEF AxisKeys
    <3>2. \A i \in DOMAIN w : i \in at <=> AxisKey(Field(w[i], q.column_column)) = k
      BY <2>1, <2>2, <3>1
    <3>3. \A i \in DOMAIN w : i \in SharedBy(w, columns, <<k>>) <=> AxisKey(Field(w[i], q.column_column)) = k
      BY <1>2 DEF SharedBy
    <3>4. at \subseteq DOMAIN w /\ SharedBy(w, columns, <<k>>) \subseteq DOMAIN w
      BY <2>2 DEF SharedBy
    <3> QED
      BY <3>2, <3>3, <3>4
  <2>7. of[<<k>>].row_count = Cardinality(SharedBy(w, columns, <<k>>))
    <3>1. <<k>> \in DOMAIN of
      BY <1>4
    <3> QED
      BY <3>1, Zenon DEF CountsBy
  <2> QED
    BY <2>4, <2>5, <2>6, <2>7
<1> QED
  BY <1>3, <1>4, <1>5, Zenon DEF TotalsAgree

\* The summary by some columns that a crosstab is compared with.
SummaryBy(columns) ==
  summarize(Db, Tables, [database_sha256 |-> view.request.database_sha256, table |-> view.request.table,
                         group_by |-> columns, measures |-> <<>>, where |-> view.request.where]).groups

\* A crosstab and the summaries by its columns count the same rows.
LEMMA CrosstabHolds ==
  ASSUME SessionInv
  PROVE  CrosstabAgreesWithSummary
<1>1. PICK q : q = view.request
  OBVIOUS
<1>2. ASSUME view.op = "crosstab"
      PROVE  /\ TotalsAgree(view.row_totals, SummaryBy(<<q.row_column>>))
             /\ TotalsAgree(view.column_totals, SummaryBy(<<q.column_column>>))
             /\ DOMAIN SummaryBy(<<q.row_column, q.column_column>>) = {rc \in DOMAIN view.counts : view.counts[rc] > 0}
             /\ \A rc \in DOMAIN SummaryBy(<<q.row_column, q.column_column>>) :
                  /\ view.counts[rc] = SummaryBy(<<q.row_column, q.column_column>>)[rc].row_count
                  /\ LocatorsOf(view.cells[rc]) = SummaryBy(<<q.row_column, q.column_column>>)[rc].locators
  <2>1. view.op \notin {"idle", "refused"}
    BY <1>2
  <2>2. PICK db : AnswerOf(view, db, pinned, args)
    BY <2>1, OnScreen
  <2>3. args.op = "crosstab" /\ IsCommand(args, pinned)
    BY <1>2, <2>1, OnScreen
  <2>4. PICK v, p, tables, after : v = view /\ p = args.request /\ tables = inventory(db) /\ after = pinned["after"]
    OBVIOUS
  <2>5. IsDatabase(db) /\ v.op # "refused" /\ v = Answer(db, tables, after, inventory(after), args)
    BY <2>2, <2>4, AnswerFrom
  <2>6. v = crosstab(db, tables, p)
    BY <2>3, <2>4, <2>5, AnswerIs
  <2>7. p.database_sha256 = sha(pinned[args.side])
    BY <2>3, <2>4 DEF IsCommand, Scans
  <2>8. PICK sel, F, w : /\ sel = selection_recipe(Selecting(p.table, <<>>, p.where), tables)
                         /\ F = Filtered(db, sel) /\ w = InOrder(F, sel)
    OBVIOUS
  <2>9. /\ p.database_sha256 = db /\ p.row_column # p.column_column
        /\ selection_recipeAccepts(Selecting(p.table, <<p.row_column, p.column_column>>, p.where), tables)
        /\ IsSequence(w) /\ Cardinality(F) <= MaxRows /\ \A r \in F : RowAccepts(r, sel)
        /\ CrosstabShows(v, w, p, sel)
    <3>1. CrosstabRead(v, db, tables, p, sel, F, w)
      BY <2>4, <2>5, <2>6, <2>8, CrosstabCounts
    <3> QED
      BY <3>1 DEF CrosstabRead
  <2>10. v.request = p
    BY <2>4, <2>5, <2>6, <2>8, CrosstabIs
  <2>11. db = Db /\ tables = Tables /\ p = q
    BY <1>1, <2>4, <2>7, <2>9, <2>10 DEF sha, Db, Tables
  <2>12. ASSUME NEW columns
         PROVE  SummaryBy(columns) = summarize(db, tables, CountBy(db, p.table, columns, p.where)).groups
    BY <1>1, <2>9, <2>11, Zenon DEF SummaryBy, CountBy
  <2>13. PICK wide, row, column :
           wide = <<p.row_column, p.column_column>> /\ row = <<p.row_column>> /\ column = <<p.column_column>>
    OBVIOUS
  <2>14. IsSequence(wide) /\ wide # <<>> /\ ToSet(wide) = {p.row_column, p.column_column} /\ Len(wide) = 2
         /\ Distinct(wide)
    BY <2>9, <2>13, TwoNamed
  <2>15. IsSequence(row) /\ row # <<>> /\ ToSet(row) = {p.row_column} /\ Len(row) = 1 /\ Distinct(row)
    BY <2>13, OneNamed
  <2>16. IsSequence(column) /\ column # <<>> /\ ToSet(column) = {p.column_column} /\ Len(column) = 1 /\ Distinct(column)
    BY <2>13, OneNamed
  <2>17. Fewer(wide, wide) /\ Fewer(row, wide) /\ Fewer(column, wide)
    BY <2>14, <2>15, <2>16 DEF Fewer
  <2>18. Len(wide) <= MaxGrouping /\ Len(row) <= MaxGrouping /\ Len(column) <= MaxGrouping
    BY <2>14, <2>15, <2>16, ExploreAssumption
  <2>19. selection_recipeAccepts(Selecting(p.table, wide, p.where), tables)
    BY <2>9, <2>13
  <2>20. ASSUME NEW columns, Fewer(columns, wide), Len(columns) <= MaxGrouping
         PROVE  CountsBy(SummaryBy(columns), w, columns, sel.locator)
    <3>1. PICK request, G : request = CountBy(db, p.table, columns, p.where) /\ G = summarize(db, tables, request).groups
      OBVIOUS
    <3>2. SummaryBy(columns) = G
      BY <2>12, <3>1
    <3>3. PICK table, where : table = p.table /\ where = p.where
      OBVIOUS
    <3>4. CountsBy(G, w, columns, sel.locator)
      BY <2>4, <2>5, <2>8, <2>9, <2>14, <2>19, <2>20, <3>1, <3>3, CountedBy
    <3> QED
      BY <3>2, <3>4
  <2>21. CountsBy(SummaryBy(wide), w, wide, sel.locator)
    BY <2>17, <2>18, <2>20
  <2>22. CountsBy(SummaryBy(row), w, row, sel.locator)
    BY <2>17, <2>18, <2>20
  <2>23. CountsBy(SummaryBy(column), w, column, sel.locator)
    BY <2>17, <2>18, <2>20
  <2>24. TotalsAgree(v.row_totals, SummaryBy(row))
    BY <2>9, <2>13, <2>22, RowTotals
  <2>25. TotalsAgree(v.column_totals, SummaryBy(column))
    BY <2>9, <2>13, <2>23, ColumnTotals
  <2>26. PICK both : both = SummaryBy(wide)
    OBVIOUS
  <2>27. /\ DOMAIN both = {rc \in DOMAIN v.counts : v.counts[rc] > 0}
         /\ \A rc \in DOMAIN both : v.counts[rc] = both[rc].row_count
                                    /\ LocatorsOf(v.cells[rc]) = both[rc].locators
    BY <2>9, <2>13, <2>21, <2>26, CellsCounted
  <2>28. both = SummaryBy(<<q.row_column, q.column_column>>)
    BY <2>11, <2>13, <2>26
  <2> QED
    BY <2>4, <2>11, <2>13, <2>24, <2>25, <2>27, <2>28
<1> QED
  BY <1>1, <1>2, Zenon DEF CrosstabAgreesWithSummary, SummaryBy, TotalsAgree, Answered

\* Summaries and crosstabs are exact.
LEMMA SummariesHold ==
  ASSUME SessionInv
  PROVE  SummariesExact
  BY SummaryHolds, CrosstabHolds DEF SummariesExact

\* A session begins with nothing on the screen.
LEMMA SessionInvInit ==
  ASSUME NEW s, DOMAIN s = Sides, IsDatabase(s["before"]), IsDatabase(s["after"]), SessionInit(s)
  PROVE  SessionInv
<1>1. copies = s /\ pinned = s /\ view = Idle /\ args = Idle
  BY DEF SessionInit
<1>2. DOMAIN seen = {"start", "rows"}
  BY DEF SessionInit
<1>3. DatabasesOk(copies, pinned)
  BY <1>1 DEF DatabasesOk, Sides
<1>4. ViewOk(copies, pinned, view, args)
  BY <1>1 DEF ViewOk
<1>5. Idle.op = "idle"
  BY DEF Idle
<1>6. WalkOk(pinned, view, args, seen)
  BY <1>1, <1>5 DEF WalkOk, Paged
<1>7. ShownOk(pinned, view, args, shown)
  BY <1>1, <1>5 DEF ShownOk
<1> QED
  BY <1>2, <1>3, <1>4, <1>6, <1>7 DEF SessionInv, SessionOk

\* A step that leaves a session alone keeps its invariant.
LEMMA SessionKept ==
  ASSUME SessionInv, UNCHANGED sessionVars
  PROVE  SessionInv' /\ pinned' = pinned
  BY Zenon DEF SessionInv, sessionVars
=============================================================================
