------------------------- MODULE ReviewToolsProofs --------------------------
(***************************************************************************)
(* Proofs about the retained-report tools.                                 *)
(*                                                                         *)
(* First what the readers and the comparisons of the coverage and the      *)
(* JUnit review do, as lemmas about the operators that model them, for     *)
(* reports of any size and every value of the bounds.  The LCOV reader     *)
(* keeps three facts about its state q and the report read so far:         *)
(* LcovType, Attributed (whose test name an observation carries) and       *)
(* Counted (every accepted DA line is in one place).  The JUnit handlers   *)
(* keep JunitInv, which relates their state to the elements o that are     *)
(* open in the document.                                                   *)
(*                                                                         *)
(* Then the invariant of a run, ReportInv: in every phase what the reader  *)
(* has made of the report read so far, and once the two are compared that  *)
(* the outcome is the comparison of two readings that satisfied it.        *)
(*                                                                         *)
(* Then the check of the review ZIP: what `bundle' accepts, for archives   *)
(* of any size edited in any way, is what Consistent describes.            *)
(*                                                                         *)
(* Last the tools together: a session of the SQLite review keeps the       *)
(* invariant of SqliteProofs, and its properties follow.                   *)
(***************************************************************************)
EXTENDS ReviewTools, SqliteProofs

(***************************************************************************)
(* The two comparisons, as functions of two readings.                      *)
(***************************************************************************)
\* What is compared at a coordinate does not depend on the order of the sides.
LEMMA StatusMirrors ==
  ASSUME NEW old, NEW new, old # <<>> \/ new # <<>>
  PROVE  Status(new, old) = Mirror(Status(old, new)) /\ Basis(new, old) = Basis(old, new)
  BY DEF Status, Basis, Conflict, BothReport, Mirror

\* Nor does what is said of an identity: turning the sides round mirrors it.
LEMMA CaseStatusMirrors ==
  ASSUME NEW old, NEW new, old # <<>> \/ new # <<>>
  PROVE  CaseStatus(new, old) = Mirror(CaseStatus(old, new))
  BY DEF CaseStatus, Mirror

Row(b, a, k) ==
  [status |-> Status(aggregate(b, k), aggregate(a, k)),
   basis |-> Basis(aggregate(b, k), aggregate(a, k)),
   before |-> aggregate(b, k), after |-> aggregate(a, k)]
CaseRow(b, a, id) ==
  [status |-> CaseStatus(Side(grouped(b), id), Side(grouped(a), id)),
   before |-> Side(grouped(b), id), after |-> Side(grouped(a), id)]

\* The rows of a comparison.
LEMMA CompareRows ==
  ASSUME NEW b, NEW a, NEW changes_only \in BOOLEAN
  PROVE  /\ DOMAIN compare(b, a, changes_only).rows \subseteq DOMAIN b \cup DOMAIN a
         /\ ~changes_only =>
              DOMAIN compare(b, a, changes_only).rows = DOMAIN b \cup DOMAIN a
         /\ \A k \in DOMAIN compare(b, a, changes_only).rows :
              compare(b, a, changes_only).rows[k] = Row(b, a, k)
  BY DEF compare, Row

\* The same for a comparison of test cases: a row for each identity.
LEMMA CompareCaseRows ==
  ASSUME NEW b, NEW a, NEW changes_only \in BOOLEAN
  PROVE  /\ DOMAIN compare_cases(b, a, changes_only).rows
              \subseteq DOMAIN grouped(b) \cup DOMAIN grouped(a)
         /\ ~changes_only => DOMAIN compare_cases(b, a, changes_only).rows
                               = DOMAIN grouped(b) \cup DOMAIN grouped(a)
         /\ \A id \in DOMAIN compare_cases(b, a, changes_only).rows :
              compare_cases(b, a, changes_only).rows[id] = CaseRow(b, a, id)
  BY DEF compare_cases, CaseRow

\* Two sides that name different source texts are never called alike.
LEMMA OneSource ==
  ASSUME NEW old, NEW new,
         old = <<>> \/ IsFiniteSet(old[1].checksums),
         new = <<>> \/ IsFiniteSet(new[1].checksums),
         Status(old, new) \notin {"checksum-conflict", "source-changed"}
  PROVE  Cardinality((IF old = <<>> THEN {} ELSE old[1].checksums)
                     \cup (IF new = <<>> THEN {} ELSE new[1].checksums)) <= 1
<1> DEFINE S == IF old = <<>> THEN {} ELSE old[1].checksums
           T == IF new = <<>> THEN {} ELSE new[1].checksums
<1>1. ~Conflict(old) /\ ~Conflict(new)
  BY DEF Status
<1>2. ~(BothReport(old, new) /\ old[1].checksums # new[1].checksums)
  BY <1>1 DEF Status
<1>3. Cardinality(S) <= 1 /\ Cardinality(T) <= 1
  BY <1>1, FS_CardinalityType, FS_EmptySet DEF Conflict
<1>4. S \cup T \in {S, T}
  BY <1>2 DEF BothReport
<1> QED
  BY <1>3, <1>4

(***************************************************************************)
(* The LCOV reader.                                                        *)
(***************************************************************************)
\* The empty text: no test name, no checksum.
NoText == ""
Texts == {l.text : l \in Lines} \cup {NoText}
Observations == [record : Nat, test_name : Texts, hits : Nat, checksum : Texts]
IsGroups(g) == \A k \in DOMAIN g : g[k] \in Seq(Observations)

\* The checksums of an observed coordinate are finitely many.
LEMMA ChecksumsFinite ==
  ASSUME NEW g, IsGroups(g), NEW k
  PROVE  aggregate(g, k) = <<>> \/ IsFiniteSet(aggregate(g, k)[1].checksums)
<1> SUFFICES ASSUME k \in DOMAIN g
             PROVE  IsFiniteSet(aggregate(g, k)[1].checksums)
  BY DEF aggregate
<1> DEFINE s == g[k]
           carried == {row.checksum : row \in ToSet(s)}
<1>1. s \in Seq(Observations)
  BY DEF IsGroups
<1>2. aggregate(g, k)[1].checksums = carried \ {NoText}
  BY DEF aggregate, NoText
<1>3. IsFiniteSet(carried)
  <2> DEFINE f == [i \in 1 .. Len(s) |-> s[i].checksum]
  <2>0. ToSet(s) = {s[i] : i \in 1 .. Len(s)}
    BY <1>1 DEF ToSet
  <2>1. f \in Surjection(1 .. Len(s), carried)
    <3>1. f \in [1 .. Len(s) -> carried]
      BY <2>0
    <3>2. \A c \in carried : \E i \in 1 .. Len(s) : f[i] = c
      BY <2>0
    <3> QED
      BY <3>1, <3>2 DEF Surjection
  <2>2. IsFiniteSet(1 .. Len(s))
    BY <1>1, FS_Interval
  <2> QED
    BY <2>1, <2>2, FS_Surjection
<1> QED
  BY <1>2, <1>3, FS_Subset

IsRecord(r) ==
  /\ r \in [path : {r.path}, lines : {r.lines}, counters : {r.counters}]
  /\ \A n \in DOMAIN r.lines : r.lines[n] \in Observations

\* The types of the reader's state.
LcovType(q) ==
  /\ q \in [current : {q.current}, test_name : Texts, pending_test : BOOLEAN,
            records : 0 .. MaxRecords, count : 0 .. MaxObservations, groups : {q.groups}]
  /\ IsGroups(q.groups)
  /\ q.current = <<>> \/ (q.current = <<q.current[1]>> /\ IsRecord(q.current[1]))

\* Every line of a report keeps them.
LEMMA LcovTypeStep ==
  ASSUME NEW q, LcovType(q), NEW l \in Lines, lineAccepts(q, l)
  PROVE  LcovType(lcov(q, l))
<1> USE CoverageAssumption
<1>0. l.text \in Texts /\ NoText \in Texts
  BY DEF Texts
<1>1. CASE l.tag = "TN"
  <2>1. lcov(q, l) = [q EXCEPT !.test_name = l.text, !.pending_test = TRUE]
    BY <1>1 DEF lcov
  <2> QED
    BY <1>0, <2>1 DEF LcovType
<1>2. CASE l.tag = "SF"
  <2> DEFINE new == [path |-> l.text, lines |-> <<>>, counters |-> <<>>]
             n == q.records + 1
  <2>1. lcov(q, l) = [q EXCEPT !.records = n, !.current = <<new>>]
    BY <1>2 DEF lcov
  <2>2. q.records < MaxRecords
    BY <1>2 DEF lineAccepts
  <2>3. IsRecord(new)
    BY DEF IsRecord
  <2> HIDE DEF new
  <2>4. n \in 0 .. MaxRecords
    BY <2>2 DEF LcovType
  <2> HIDE DEF n
  <2>5. lcov(q, l) = [current |-> <<new>>, test_name |-> q.test_name,
                      pending_test |-> q.pending_test, records |-> n, count |-> q.count,
                      groups |-> q.groups]
    BY <2>1 DEF LcovType
  <2> QED
    BY <2>3, <2>4, <2>5 DEF LcovType
<1>3. CASE l.tag = "end_of_record"
  <2> DEFINE r == q.current[1]
  <2>1. lcov(q, l) = [q EXCEPT !.groups = Joined(q.groups, r), !.current = <<>>,
                        !.test_name = NoText, !.pending_test = FALSE]
    BY <1>3 DEF lcov, EndOfRecord, NoText
  <2>2. q.current # <<>>
    BY <1>3 DEF lineAccepts
  <2>3. IsGroups(Joined(q.groups, r))
    BY <2>2 DEF LcovType, IsGroups, IsRecord, Joined, Coordinates
  <2> QED
    BY <1>0, <2>1, <2>3 DEF LcovType
<1>4. CASE l.tag = "DA"
  <2> DEFINE r == q.current[1]
             obs == [record |-> q.records, test_name |-> q.test_name, hits |-> l.m,
                     checksum |-> l.text]
             new == [r EXCEPT !.lines = Added(r.lines, l.n, obs)]
             n == q.count + 1
  <2>1. q.current = <<r>> /\ IsRecord(r) /\ q.count < MaxObservations /\ l.m \in Nat
    BY <1>4 DEF lineAccepts, LcovType
  <2>2. lcov(q, l) = [q EXCEPT !.count = n, !.current = <<new>>]
    <3>1. lcov(q, l) = [q EXCEPT !.count = @ + 1,
                          !.current[1].lines = Added(@, l.n, obs)]
      BY <1>4 DEF lcov
    <3>2. [q.current EXCEPT ![1].lines = Added(@, l.n, obs)] = <<new>>
      BY <2>1
    <3> HIDE DEF new, obs
    <3> QED
      BY <3>1, <3>2 DEF LcovType
  <2>3. obs \in Observations
    BY <1>0, <2>1 DEF LcovType, Observations
  <2>4. IsRecord(new)
    BY <2>1, <2>3 DEF IsRecord, Added
  <2> HIDE DEF new
  <2>5. n \in 0 .. MaxObservations
    BY <2>1 DEF LcovType
  <2> HIDE DEF n
  <2>6. lcov(q, l) = [current |-> <<new>>, test_name |-> q.test_name,
                      pending_test |-> q.pending_test, records |-> q.records, count |-> n,
                      groups |-> q.groups]
    BY <2>2 DEF LcovType
  <2> QED
    BY <2>4, <2>5, <2>6 DEF LcovType
<1>5. CASE l.tag \in {"LF", "LH"}
  <2> DEFINE r == q.current[1]
             new == [r EXCEPT !.counters = Added(r.counters, l.tag, l.n)]
  <2>1. q.current = <<r>> /\ IsRecord(r)
    BY <1>5 DEF lineAccepts, LcovType
  <2>2. lcov(q, l) = [q EXCEPT !.current = <<new>>]
    BY <1>5, <2>1 DEF lcov, LcovType
  <2>3. IsRecord(new)
    BY <2>1 DEF IsRecord
  <2> HIDE DEF new
  <2> QED
    BY <2>2, <2>3 DEF LcovType
<1>6. CASE l.tag \notin {"TN", "SF", "end_of_record", "DA", "LF", "LH"}
  BY <1>6 DEF lcov
<1> QED
  BY <1>1, <1>2, <1>3, <1>4, <1>5, <1>6

\* The observations of a coordinate: their records are those read so far, in the
\* order of the report, and their test names the ones given to these records.
GroupAttributed(g, h, last) ==
  \A i \in 1 .. Len(g) :
    /\ g[i].record \in 1 .. last /\ g[i].test_name = h[g[i].record]
    /\ \A j \in 1 .. Len(g) : i < j => g[i].record < g[j].record

\* h are the test names given to the records and t the one for the next.
Attributed(q, h, t) ==
  /\ h \in Seq(Texts) /\ t \in Texts /\ Len(h) = q.records
  /\ q.current = <<>> => t = q.test_name
  /\ q.current # <<>> =>
       /\ t = NoText /\ q.records > 0 /\ h[q.records] = q.test_name
       /\ \A n \in DOMAIN q.current[1].lines :
            /\ q.current[1].lines[n].record = q.records
            /\ q.current[1].lines[n].test_name = q.test_name
  /\ \A k \in DOMAIN q.groups :
       GroupAttributed(q.groups[k], h, IF q.current = <<>> THEN q.records ELSE q.records - 1)

\* Every line of a report keeps the attribution.
LEMMA AttributedStep ==
  ASSUME NEW q, LcovType(q), NEW h, NEW t, Attributed(q, h, t),
         NEW l \in Lines, lineAccepts(q, l)
  PROVE  Attributed(lcov(q, l), IF l.tag = "SF" THEN Append(h, t) ELSE h,
                    CASE l.tag = "TN" -> l.text [] l.tag = "SF" -> NoText [] OTHER -> t)
<1> USE CoverageAssumption
<1>0. l.text \in Texts /\ NoText \in Texts
  BY DEF Texts
<1>1. CASE l.tag = "TN"
  <2>1. lcov(q, l) = [q EXCEPT !.test_name = l.text, !.pending_test = TRUE]
    BY <1>1 DEF lcov
  <2>2. q.current = <<>>
    BY <1>1 DEF lineAccepts
  <2>3. Attributed(lcov(q, l), h, l.text)
    BY <1>0, <2>1, <2>2 DEF Attributed, LcovType
  <2> QED
    BY <1>1, <2>3
<1>2. CASE l.tag = "SF"
  <2> DEFINE new == [path |-> l.text, lines |-> <<>>, counters |-> <<>>]
             g == Append(h, t)
             n == q.records + 1
  <2>1. lcov(q, l) = [current |-> <<new>>, test_name |-> q.test_name,
                      pending_test |-> q.pending_test, records |-> n, count |-> q.count,
                      groups |-> q.groups]
    BY <1>2 DEF lcov, LcovType
  <2>2. q.current = <<>> /\ t = q.test_name /\ q.records \in Nat
    <3>1. q.current = <<>>
      BY <1>2 DEF lineAccepts
    <3> QED
      BY <3>1 DEF Attributed, LcovType
  <2>3. g \in Seq(Texts) /\ Len(g) = n /\ n > 0 /\ g[n] = t /\ n - 1 = q.records
    BY <2>2 DEF Attributed
  <2>4. \A i \in 1 .. q.records : g[i] = h[i]
    BY <2>2 DEF Attributed
  <2>5. \A k \in DOMAIN q.groups : GroupAttributed(q.groups[k], g, n - 1)
    <3> HIDE DEF g
    <3> QED
      BY <2>2, <2>3, <2>4 DEF Attributed, GroupAttributed
  <2>6. DOMAIN new.lines = {}
    OBVIOUS
  <2>7. Attributed(lcov(q, l), g, NoText)
    <3> HIDE DEF g, n, new
    <3> QED
      BY <1>0, <2>1, <2>2, <2>3, <2>5, <2>6 DEF Attributed
  <2> QED
    BY <1>2, <2>7
<1>3. CASE l.tag = "end_of_record"
  <2> DEFINE r == q.current[1]
             new == Joined(q.groups, r)
  <2>1. lcov(q, l) = [q EXCEPT !.groups = new, !.current = <<>>,
                        !.test_name = NoText, !.pending_test = FALSE]
    BY <1>3 DEF lcov, EndOfRecord, NoText
  <2>2. q.current # <<>> /\ IsRecord(r) /\ IsGroups(q.groups) /\ q.records \in Nat
    BY <1>3 DEF lineAccepts, LcovType
  <2>3. ASSUME NEW k \in DOMAIN new
        PROVE  GroupAttributed(new[k], h, q.records)
    <3> DEFINE old == IF k \in DOMAIN q.groups THEN q.groups[k] ELSE <<>>
    <3>1. old \in Seq(Observations) /\ GroupAttributed(old, h, q.records - 1)
      <4>1. CASE k \in DOMAIN q.groups
        BY <2>2, <4>1 DEF IsGroups, Attributed
      <4>2. CASE k \notin DOMAIN q.groups
        BY <4>2 DEF GroupAttributed
      <4> QED
        BY <4>1, <4>2
    <3>2. CASE k \notin Coordinates(r)
      <4>1. new[k] = old
        BY <2>3, <3>1, <3>2 DEF Joined
      <4> QED
        BY <3>1, <4>1, <2>2 DEF GroupAttributed
    <3>3. CASE k \in Coordinates(r)
      <4> DEFINE x == r.lines[k[2]]
      <4>1. new[k] = old \o <<x>>
        BY <2>3, <3>3 DEF Joined
      <4>2. x \in Observations /\ x.record = q.records /\ x.test_name = h[q.records]
        BY <3>3, <2>2 DEF Coordinates, IsRecord, Attributed
      <4> HIDE DEF x, old
      <4>3. /\ Len(new[k]) = Len(old) + 1 /\ new[k][Len(old) + 1] = x
            /\ \A i \in 1 .. Len(old) : new[k][i] = old[i]
        BY <3>1, <4>1, <4>2
      <4>4. q.records > 0
        BY <2>2 DEF Attributed
      <4> HIDE DEF new
      <4>5. Len(old) \in Nat
        BY <3>1
      <4>6. ASSUME NEW i \in 1 .. Len(old)
            PROVE  /\ new[k][i].record \in 1 .. q.records
                   /\ new[k][i].test_name = h[new[k][i].record]
                   /\ new[k][i].record < q.records
                   /\ \A j \in 1 .. Len(old) : i < j => new[k][i].record < new[k][j].record
        <5>1. /\ old[i].record \in 1 .. q.records - 1 /\ old[i].test_name = h[old[i].record]
              /\ \A j \in 1 .. Len(old) : i < j => old[i].record < old[j].record
          BY <3>1 DEF GroupAttributed
        <5>2. old[i].record \in 1 .. q.records /\ old[i].record < q.records
          BY <2>2, <5>1
        <5> QED
          BY <5>1, <5>2, <4>3, Zenon
      <4>7. SUFFICES ASSUME NEW i \in 1 .. Len(new[k])
                     PROVE  /\ new[k][i].record \in 1 .. q.records
                            /\ new[k][i].test_name = h[new[k][i].record]
                            /\ \A j \in 1 .. Len(new[k]) :
                                 i < j => new[k][i].record < new[k][j].record
        BY Zenon DEF GroupAttributed
      <4>8. CASE i = Len(old) + 1
        <5>1. q.records \in 1 .. q.records
          BY <2>2, <4>4
        <5>2. \A j \in 1 .. Len(new[k]) : ~(i < j)
          BY <4>3, <4>5, <4>8
        <5> QED
          BY <4>2, <4>3, <4>8, <5>1, <5>2
      <4>9. CASE i # Len(old) + 1
        <5>1. i \in 1 .. Len(old)
          BY <4>3, <4>5, <4>9
        <5>2. \A j \in 1 .. Len(new[k]) : j \in 1 .. Len(old) \/ j = Len(old) + 1
          BY <4>3, <4>5
        <5>3. new[k][Len(old) + 1].record = q.records
          BY <4>2, <4>3
        <5> QED
          BY <4>6, <5>1, <5>2, <5>3
      <4> QED
        BY <4>8, <4>9
    <3> QED
      BY <3>2, <3>3
  <2>4. Attributed(lcov(q, l), h, t)
    <3> HIDE DEF new
    <3> QED
      BY <2>1, <2>2, <2>3 DEF Attributed, LcovType
  <2> QED
    BY <1>3, <2>4
<1>4. CASE l.tag = "DA"
  <2> DEFINE r == q.current[1]
             obs == [record |-> q.records, test_name |-> q.test_name, hits |-> l.m,
                     checksum |-> l.text]
             new == [r EXCEPT !.lines = Added(r.lines, l.n, obs)]
             n == q.count + 1
  <2>1. q.current = <<r>> /\ IsRecord(r)
    BY <1>4 DEF lineAccepts, LcovType
  <2>2. lcov(q, l) = [q EXCEPT !.count = n, !.current = <<new>>]
    <3>1. lcov(q, l) = [q EXCEPT !.count = @ + 1,
                          !.current[1].lines = Added(@, l.n, obs)]
      BY <1>4 DEF lcov
    <3>2. [q.current EXCEPT ![1].lines = Added(@, l.n, obs)] = <<new>>
      BY <2>1
    <3> HIDE DEF new, obs
    <3> QED
      BY <3>1, <3>2 DEF LcovType
  <2>3. \A i \in DOMAIN new.lines :
          new.lines[i].record = q.records /\ new.lines[i].test_name = q.test_name
    BY <2>1 DEF IsRecord, Added, Attributed
  <2>4. Attributed(lcov(q, l), h, t)
    <3> HIDE DEF new, n
    <3> QED
      BY <2>1, <2>2, <2>3 DEF Attributed, LcovType
  <2> QED
    BY <1>4, <2>4
<1>5. CASE l.tag \in {"LF", "LH"}
  <2> DEFINE r == q.current[1]
             new == [r EXCEPT !.counters = Added(r.counters, l.tag, l.n)]
  <2>1. q.current = <<r>> /\ IsRecord(r)
    BY <1>5 DEF lineAccepts, LcovType
  <2>2. lcov(q, l) = [q EXCEPT !.current = <<new>>]
    BY <1>5, <2>1 DEF lcov, LcovType
  <2>3. new.lines = r.lines
    BY <2>1 DEF IsRecord
  <2>4. Attributed(lcov(q, l), h, t)
    <3> HIDE DEF new
    <3> QED
      BY <2>1, <2>2, <2>3 DEF Attributed, LcovType
  <2> QED
    BY <1>5, <2>4
<1>6. CASE l.tag \notin {"TN", "SF", "end_of_record", "DA", "LF", "LH"}
  BY <1>6 DEF lcov
<1> QED
  BY <1>1, <1>2, <1>3, <1>4, <1>5, <1>6

(***************************************************************************)
(* The JUnit reader.                                                       *)
(***************************************************************************)
\* The cases of one identity: at least one, each case of the report that has it,
\* and each as often as the report has it.
LEMMA GroupedCases ==
  ASSUME NEW S, NEW cases \in Seq(S), NEW id \in DOMAIN grouped(cases)
  PROVE  /\ grouped(cases)[id] \in Seq(S) /\ Len(grouped(cases)[id]) > 0
         /\ \A n \in 1 .. Len(grouped(cases)[id]) : \E i \in DOMAIN cases :
              Identity(cases[i]) = id /\ grouped(cases)[id][n] = cases[i]
         /\ \A i \in DOMAIN cases : Identity(cases[i]) = id =>
              \E n \in 1 .. Len(grouped(cases)[id]) : grouped(cases)[id][n] = cases[i]
         /\ (\A i, j \in DOMAIN cases : cases[i] = cases[j] => i = j) =>
              \A n, m \in 1 .. Len(grouped(cases)[id]) :
                grouped(cases)[id][n] = grouped(cases)[id][m] => n = m
<1> DEFINE at == {i \in DOMAIN cases : Identity(cases[i]) = id}
           A == Ascending(at)
           c == Cardinality(at)
           g == grouped(cases)[id]
<1>1. at \in SUBSET Nat /\ IsFiniteSet(at) /\ at # {}
  <2>1. at \in SUBSET (1 .. Len(cases)) /\ Len(cases) \in Nat
    OBVIOUS
  <2>2. IsFiniteSet(1 .. Len(cases))
    BY <2>1, FS_Interval
  <2>3. at # {}
    BY DEF grouped, ToSet
  <2> HIDE DEF at
  <2>4. IsFiniteSet(at)
    BY <2>1, <2>2, FS_Subset
  <2> QED
    BY <2>1, <2>3, <2>4
<1>2. g = [n \in DOMAIN A |-> cases[A[n]]]
  <2>1. g = Picked(cases, at)
    BY DEF grouped
  <2> HIDE DEF at, g
  <2> QED
    BY <2>1 DEF Picked
<1>3. \A i : i \in at <=> i \in DOMAIN cases /\ Identity(cases[i]) = id
  OBVIOUS
<1> HIDE DEF at
<1>4. /\ c \in Nat /\ A \in [1 .. c -> at]
      /\ \A i, j \in 1 .. c : i < j => A[i] < A[j]
      /\ \A x \in at : \E n \in 1 .. c : A[n] = x
  BY <1>1, AscendingLists
<1>5. c > 0
  <2>1. c # 0
    BY <1>1, FS_EmptySet
  <2> QED
    BY <1>4, <2>1
<1> HIDE DEF A, c
<1>6. g = [n \in 1 .. c |-> cases[A[n]]]
  BY <1>2, <1>4
<1>7. \A n \in 1 .. c : A[n] \in DOMAIN cases /\ Identity(cases[A[n]]) = id /\ cases[A[n]] \in S
  BY <1>3, <1>4
<1>8. g \in Seq(S) /\ Len(g) = c
  <2> HIDE DEF g
  <2> QED
    BY <1>4, <1>6, <1>7
<1>9. \A n, m \in 1 .. c : A[n] = A[m] => n = m
  <2>0. \A x \in at : x \in Nat
    BY <1>1
  <2>1. \A n \in 1 .. c : n \in Nat /\ A[n] \in Nat
    BY <1>4, <2>0
  <2> QED
    BY <1>4, <2>1
<1>10. \A n \in 1 .. c : g[n] = cases[A[n]]
  BY <1>6
<1> HIDE DEF g
<1>11. \A n \in 1 .. Len(g) : \E i \in DOMAIN cases : Identity(cases[i]) = id /\ g[n] = cases[i]
  BY <1>7, <1>8, <1>10
<1>12. \A i \in DOMAIN cases : Identity(cases[i]) = id => \E n \in 1 .. Len(g) : g[n] = cases[i]
  <2> SUFFICES ASSUME NEW i \in DOMAIN cases, Identity(cases[i]) = id
               PROVE  \E n \in 1 .. Len(g) : g[n] = cases[i]
    OBVIOUS
  <2>1. PICK n \in 1 .. c : A[n] = i
    BY <1>3, <1>4
  <2> QED
    BY <1>8, <1>10, <2>1
<1>13. (\A i, j \in DOMAIN cases : cases[i] = cases[j] => i = j) =>
         \A n, m \in 1 .. Len(g) : g[n] = g[m] => n = m
  BY <1>7, <1>8, <1>9, <1>10
<1> QED
  BY <1>5, <1>8, <1>11, <1>12, <1>13 DEF g

\* Cases are listed under an identity exactly when the report has one.
LEMMA GroupedIdentities ==
  ASSUME NEW S, NEW cases \in Seq(S)
  PROVE  \A id : id \in DOMAIN grouped(cases) <=> \E i \in DOMAIN cases : Identity(cases[i]) = id
  BY DEF grouped, ToSet

\* A row of the comparison the other way round.
Turned(row) == [row EXCEPT !.status = Mirror(@), !.before = row.after, !.after = row.before]
\* Turning a row of coverage round leaves its basis alone.
LEMMA TurnedRow ==
  ASSUME NEW s, NEW g, NEW x, NEW y, NEW row,
         row = [status |-> s, basis |-> g, before |-> x, after |-> y]
  PROVE  Turned(row) = [status |-> Mirror(s), basis |-> g, before |-> y, after |-> x]
<1>1. PICK q : q = Turned(row)
  OBVIOUS
<1>2. q = [status |-> Mirror(s), basis |-> g, before |-> y, after |-> x]
  BY <1>1 DEF Turned
<1> QED
  BY <1>1, <1>2

\* The same for a row of test cases.
LEMMA TurnedCaseRow ==
  ASSUME NEW s, NEW x, NEW y, NEW row, row = [status |-> s, before |-> x, after |-> y]
  PROVE  Turned(row) = [status |-> Mirror(s), before |-> y, after |-> x]
<1>1. PICK q : q = Turned(row)
  OBVIOUS
<1>2. q = [status |-> Mirror(s), before |-> y, after |-> x]
  BY <1>1 DEF Turned
<1> QED
  BY <1>1, <1>2

\* Comparing two readings the other way round says the same, mirrored.
LEMMA CompareMirrors ==
  ASSUME NEW b, NEW a, NEW changes_only \in BOOLEAN,
         NEW k \in DOMAIN compare(b, a, changes_only).rows
  PROVE  /\ k \in DOMAIN compare(a, b, FALSE).rows
         /\ compare(a, b, FALSE).rows[k] = Turned(compare(b, a, changes_only).rows[k])
<1>1. k \in DOMAIN b \cup DOMAIN a /\ compare(b, a, changes_only).rows[k] = Row(b, a, k)
  BY CompareRows
<1>2. k \in DOMAIN compare(a, b, FALSE).rows /\ compare(a, b, FALSE).rows[k] = Row(a, b, k)
  <2>1. DOMAIN compare(a, b, FALSE).rows = DOMAIN a \cup DOMAIN b
    BY CompareRows
  <2> QED
    BY <1>1, <2>1, CompareRows
<1>3. aggregate(b, k) # <<>> \/ aggregate(a, k) # <<>>
  BY <1>1 DEF aggregate
<1>4. /\ Status(aggregate(a, k), aggregate(b, k)) = Mirror(Status(aggregate(b, k), aggregate(a, k)))
      /\ Basis(aggregate(a, k), aggregate(b, k)) = Basis(aggregate(b, k), aggregate(a, k))
  BY <1>3, StatusMirrors
<1>5. Row(a, b, k) = Turned(Row(b, a, k))
  BY <1>4, TurnedRow DEF Row
<1> QED
  BY <1>1, <1>2, <1>5

\* The same for the cases of two JUnit reports.
LEMMA CompareCasesMirrors ==
  ASSUME NEW S, NEW b \in Seq(S), NEW a \in Seq(S), NEW changes_only \in BOOLEAN,
         NEW id \in DOMAIN compare_cases(b, a, changes_only).rows
  PROVE  /\ id \in DOMAIN compare_cases(a, b, FALSE).rows
         /\ compare_cases(a, b, FALSE).rows[id] = Turned(compare_cases(b, a, changes_only).rows[id])
<1>1. /\ id \in DOMAIN grouped(b) \cup DOMAIN grouped(a)
      /\ compare_cases(b, a, changes_only).rows[id] = CaseRow(b, a, id)
  BY CompareCaseRows
<1>2. /\ id \in DOMAIN compare_cases(a, b, FALSE).rows
      /\ compare_cases(a, b, FALSE).rows[id] = CaseRow(a, b, id)
  BY <1>1, CompareCaseRows
<1> DEFINE old == Side(grouped(b), id)
           new == Side(grouped(a), id)
<1>3. old # <<>> \/ new # <<>>
  <2>1. CASE id \in DOMAIN grouped(b)
    <3>1. old = grouped(b)[id]
      BY <2>1 DEF Side
    <3>2. Len(grouped(b)[id]) > 0
      BY <2>1, GroupedCases
    <3> HIDE DEF old
    <3> QED
      BY <3>1, <3>2
  <2>2. CASE id \in DOMAIN grouped(a)
    <3>1. new = grouped(a)[id]
      BY <2>2 DEF Side
    <3>2. Len(grouped(a)[id]) > 0
      BY <2>2, GroupedCases
    <3> HIDE DEF new
    <3> QED
      BY <3>1, <3>2
  <2> QED
    BY <1>1, <2>1, <2>2
<1> HIDE DEF old, new
<1>4. CaseStatus(new, old) = Mirror(CaseStatus(old, new))
  BY <1>3, CaseStatusMirrors
<1>5. CaseRow(a, b, id) = Turned(CaseRow(b, a, id))
  BY <1>4, TurnedCaseRow DEF CaseRow, old, new
<1> QED
  BY <1>1, <1>2, <1>5

\* The state the three handlers share is a record of these fields.
IsState(q) == q = [stack |-> q.stack, suites |-> q.suites, cases |-> q.cases,
                   current |-> q.current, diagnostic |-> q.diagnostic]
Spoken(c, n) == [c EXCEPT !.diagnostics[n].text = @ + 1]

\* What start makes of it, field by field.
LEMMA StartIs ==
  ASSUME NEW q, IsState(q), NEW tag, NEW attrs, NEW r, r = start(q, tag, attrs)
  PROVE  /\ IsState(r) /\ r.stack = Append(q.stack, tag) /\ r.cases = q.cases
         /\ r.suites = IF tag = "testsuite" THEN Append(q.suites, SuiteName(attrs)) ELSE q.suites
         /\ r.diagnostic = IF tag \in Outcomes THEN Len(q.current[1].diagnostics) + 1
                           ELSE q.diagnostic
         /\ tag = "testcase" => r.current = <<Case(q, attrs)>>
         /\ tag \in Outcomes =>
              r.current = <<Noted(q.current[1], tag)>>
         /\ tag \notin {"testcase"} \cup Outcomes => r.current = q.current
<1> DEFINE su == IF tag = "testsuite" THEN Append(q.suites, SuiteName(attrs)) ELSE q.suites
           di == IF tag \in Outcomes THEN Len(q.current[1].diagnostics) + 1 ELSE q.diagnostic
           cu == CASE tag = "testcase" -> <<Case(q, attrs)>>
                   [] tag \in Outcomes ->
                        <<Noted(q.current[1], tag)>>
                   [] OTHER -> q.current
           st == Append(q.stack, tag)
<1>1. r = [q EXCEPT !.stack = st, !.suites = su, !.diagnostic = di, !.current = cu]
  BY DEF start
<1>2. /\ tag = "testcase" => cu = <<Case(q, attrs)>>
      /\ tag \in Outcomes =>
           cu = <<Noted(q.current[1], tag)>>
      /\ tag \notin {"testcase"} \cup Outcomes => cu = q.current
  BY DEF Outcomes
<1> HIDE DEF su, di, cu, st
<1>3. r = [stack |-> st, suites |-> su, cases |-> q.cases, current |-> cu, diagnostic |-> di]
  BY <1>1 DEF IsState
<1>4. IsState(r) /\ r.stack = st /\ r.suites = su /\ r.cases = q.cases /\ r.current = cu
      /\ r.diagnostic = di
  BY <1>3 DEF IsState
<1> QED
  BY <1>2, <1>4 DEF su, di, st

\* What end makes of it.
LEMMA EndIs ==
  ASSUME NEW q, IsState(q), NEW tag, NEW r, r = end(q, tag)
  PROVE  /\ IsState(r) /\ r.stack = Front(q.stack)
         /\ r.suites = IF tag = "testsuite" THEN Front(q.suites) ELSE q.suites
         /\ r.diagnostic = IF tag \in Outcomes THEN 0 ELSE q.diagnostic
         /\ r.cases = IF tag = "testcase" THEN Append(q.cases, Closed(q.current[1])) ELSE q.cases
         /\ r.current = IF tag = "testcase" THEN <<>> ELSE q.current
<1> DEFINE st == Front(q.stack)
           su == IF tag = "testsuite" THEN Front(q.suites) ELSE q.suites
           di == IF tag \in Outcomes THEN 0 ELSE q.diagnostic
           ca == IF tag = "testcase" THEN Append(q.cases, Closed(q.current[1])) ELSE q.cases
           cu == IF tag = "testcase" THEN <<>> ELSE q.current
<1>1. r = [q EXCEPT !.stack = st, !.suites = su, !.diagnostic = di, !.cases = ca, !.current = cu]
  BY DEF end
<1> HIDE DEF st, su, di, ca, cu
<1>2. r = [stack |-> st, suites |-> su, cases |-> ca, current |-> cu, diagnostic |-> di]
  BY <1>1 DEF IsState
<1>3. IsState(r) /\ r.stack = st /\ r.suites = su /\ r.cases = ca /\ r.current = cu
      /\ r.diagnostic = di
  BY <1>2 DEF IsState
<1> QED
  BY <1>3 DEF st, su, di, ca, cu

\* What text makes of it: one piece more in the open diagnostic, if one is open.
LEMMA TextIs ==
  ASSUME NEW q, IsState(q), NEW c, q.current = <<c>> \/ q.diagnostic = 0, NEW r, r = text(q)
  PROVE  /\ IsState(r) /\ r.stack = q.stack /\ r.suites = q.suites /\ r.cases = q.cases
         /\ r.diagnostic = q.diagnostic
         /\ r.current = IF q.diagnostic = 0 THEN q.current
                        ELSE <<Spoken(c, q.diagnostic)>>
<1>1. CASE q.diagnostic = 0
  BY <1>1 DEF text
<1>2. CASE q.diagnostic # 0
  <2>1. q.current = <<c>>
    BY <1>2
  <2>2. r = [q EXCEPT !.current[1].diagnostics[q.diagnostic].text = @ + 1]
    BY <1>2 DEF text
  <2>3. PICK cu : cu = <<Spoken(c, q.diagnostic)>>
    OBVIOUS
  <2>4. [q.current EXCEPT ![1].diagnostics[q.diagnostic].text = @ + 1] = cu
    BY <2>1, <2>3 DEF Spoken
  <2>5. r = [stack |-> q.stack, suites |-> q.suites, cases |-> q.cases, current |-> cu,
             diagnostic |-> q.diagnostic]
    BY <2>2, <2>4 DEF IsState
  <2> QED
    BY <1>2, <2>3, <2>5 DEF IsState
<1> QED
  BY <1>1, <1>2

(***************************************************************************)
(* The inductive invariant of the JUnit handlers.                          *)
(***************************************************************************)
Tags == {e.tag : e \in Elements}
Attributes == {e.attrs : e \in Elements}
SuiteNames == {SuiteName(a) : a \in Attributes}
Diagnostics == [kind : Outcomes, text : Nat]
Cases == [suite_path : Seq(SuiteNames), name : {a.name : a \in Attributes}, test_index : Nat,
          time : {a.time : a \in Attributes}, status : {a.status : a \in Attributes},
          result : {a.result : a \in Attributes}, diagnostics : Seq(Diagnostics),
          outcome : {"none", "skipped", "error", "failed", "passed"}]
Opened == [tag : Tags, name : {a.name : a \in Attributes}]

\* The types of the state the handlers share; o are the open elements.
JunitType(q, o) ==
  /\ IsState(q) /\ o \in Seq(Opened)
  /\ q.stack = [i \in 1 .. Len(o) |-> o[i].tag] /\ Len(o) <= MaxDepth
  /\ q.suites \in Seq(SuiteNames) /\ q.cases \in Seq(Cases) /\ q.diagnostic \in Nat
  /\ Len(q.cases) <= MaxCases
  /\ q.current # <<>> =>
       /\ q.current = <<q.current[1]>> /\ q.current[1] \in Cases /\ Len(q.cases) < MaxCases

\* Where an element may stand: the root, outcomes innermost and in a testcase.
Nested(o) ==
  /\ Len(o) > 0 => o[1].tag \in {"testsuites", "testsuite"}
  /\ \A i \in 1 .. Len(o) :
       /\ o[i].tag = "testsuites" => i = 1
       /\ o[i].tag \in Outcomes => i = Len(o) /\ i > 1 /\ o[i - 1].tag = "testcase"

\* The suites are the elements next to the root, and suites holds their names.
Root(o) == IF Len(o) > 0 /\ o[1].tag = "testsuites" THEN 1 ELSE 0
SuitesHeld(q, o) ==
  /\ Root(o) + Len(q.suites) <= Len(o)
  /\ \A i \in 1 .. Len(o) :
       o[i].tag = "testsuite" <=> i \in Root(o) + 1 .. Root(o) + Len(q.suites)
  /\ \A i \in 1 .. Len(q.suites) : q.suites[i] = SuiteName(o[Root(o) + i])

\* A case is current while its element is open, and there is one such element.
CurrentHeld(q, o) ==
  /\ q.current = <<>> => \A i \in 1 .. Len(o) : o[i].tag # "testcase"
  /\ q.current # <<>> =>
       /\ \E t \in 1 .. Len(o) :
            o[t].tag = "testcase" /\ \A i \in 1 .. Len(o) : o[i].tag = "testcase" => i = t
       /\ q.current[1].suite_path = q.suites /\ q.current[1].test_index = Len(q.cases) + 1

\* A diagnostic is open while an outcome is the innermost element: the last.
Inner(o) == IF Len(o) = 0 THEN "none" ELSE o[Len(o)].tag
DiagnosticHeld(q, o) ==
  /\ q.diagnostic # 0 <=> Inner(o) \in Outcomes
  /\ q.diagnostic # 0 =>
       /\ q.diagnostic = Len(q.current[1].diagnostics)
       /\ q.current[1].diagnostics[q.diagnostic].kind = Inner(o)

\* A closed case has its outcome, and is not skipped and failing at once.
Decided(c) ==
  c.outcome = OutcomeOf(c) /\ ~(Skipped(c) /\ Kinds(c) \cap {"error", "failure"} # {})
CasesDecided(cases) ==
  \A i \in 1 .. Len(cases) : cases[i].test_index = i /\ Decided(cases[i])

JunitInv(q, o) ==
  /\ JunitType(q, o) /\ Nested(o) /\ SuitesHeld(q, o) /\ CurrentHeld(q, o)
  /\ DiagnosticHeld(q, o) /\ CasesDecided(q.cases)

\* Every accepted start tag keeps it.
LEMMA JunitStart ==
  ASSUME NEW q, NEW o, JunitInv(q, o), NEW e \in Elements, startAccepts(q, e.tag, e.attrs),
         NEW r, r = start(q, e.tag, e.attrs),
         NEW u, u = Append(o, [tag |-> e.tag, name |-> e.attrs.name])
  PROVE  JunitInv(r, u)
<1> DEFINE tag == e.tag
           new == [tag |-> e.tag, name |-> e.attrs.name]
           n == Len(o)
<1>1. JunitType(q, o) /\ Nested(o) /\ SuitesHeld(q, o) /\ CurrentHeld(q, o)
      /\ DiagnosticHeld(q, o) /\ CasesDecided(q.cases)
  BY DEF JunitInv
<1>2. o \in Seq(Opened) /\ n \in Nat /\ IsState(q)
  BY <1>1 DEF JunitType
<1>3. new \in Opened /\ new.tag = tag /\ new.name = e.attrs.name
  BY DEF Opened, Tags, Attributes
<1> HIDE DEF new
<1>4. /\ u \in Seq(Opened) /\ Len(u) = n + 1 /\ u[n + 1] = new
      /\ \A i \in 1 .. n : u[i] = o[i]
  BY <1>2, <1>3 DEF new
<1>5. /\ IsState(r) /\ r.stack = Append(q.stack, tag) /\ r.cases = q.cases
      /\ r.suites = IF tag = "testsuite" THEN Append(q.suites, SuiteName(e.attrs)) ELSE q.suites
      /\ r.diagnostic = IF tag \in Outcomes THEN Len(q.current[1].diagnostics) + 1
                        ELSE q.diagnostic
      /\ tag = "testcase" => r.current = <<Case(q, e.attrs)>>
      /\ tag \in Outcomes =>
           r.current = <<Noted(q.current[1], tag)>>
      /\ tag \notin {"testcase"} \cup Outcomes => r.current = q.current
  BY <1>2, StartIs
<1>6. /\ Len(q.stack) = n /\ (q.stack = <<>> <=> n = 0)
      /\ n > 0 => Parent(q) = o[n].tag
  BY <1>1, <1>2 DEF JunitType, Parent
<1>7. /\ n < MaxDepth
      /\ n = 0 => tag \in {"testsuites", "testsuite"}
      /\ n > 0 =>
           /\ tag # "testsuites" /\ o[n].tag \notin Outcomes
           /\ tag = "testsuite" => o[n].tag \in {"testsuites", "testsuite"} /\ q.current = <<>>
           /\ tag = "testcase" => /\ o[n].tag = "testsuite" /\ q.current = <<>>
                                  /\ Len(q.cases) < MaxCases
           /\ tag \in Outcomes => o[n].tag = "testcase" /\ q.current # <<>>
  <2>1. n < MaxDepth /\ (n = 0 => tag \in {"testsuites", "testsuite"})
    BY <1>6 DEF startAccepts
  <2>2. n > 0 =>
           /\ tag # "testsuites" /\ o[n].tag \notin Outcomes
           /\ tag = "testsuite" => o[n].tag \in {"testsuites", "testsuite"} /\ q.current = <<>>
           /\ tag = "testcase" => /\ o[n].tag = "testsuite" /\ q.current = <<>>
                                  /\ Len(q.cases) < MaxCases
           /\ tag \in Outcomes => o[n].tag = "testcase" /\ q.current # <<>>
    BY <1>6 DEF startAccepts, Outcomes
  <2> QED
    BY <2>1, <2>2
<1>8. n = 0 => tag \notin {"testcase"} \cup Outcomes
  BY <1>7 DEF Outcomes
<1>9. tag \in Outcomes => /\ q.current = <<q.current[1]>> /\ q.current[1] \in Cases
                          /\ q.current[1].diagnostics \in Seq(Diagnostics)
                          /\ Len(q.current[1].diagnostics) \in Nat
  <2> SUFFICES ASSUME tag \in Outcomes
               PROVE  /\ q.current = <<q.current[1]>> /\ q.current[1] \in Cases
                      /\ q.current[1].diagnostics \in Seq(Diagnostics)
                      /\ Len(q.current[1].diagnostics) \in Nat
    OBVIOUS
  <2>1. q.current # <<>>
    BY <1>2, <1>7, <1>8
  <2>2. q.current = <<q.current[1]>> /\ q.current[1] \in Cases
    BY <1>1, <2>1 DEF JunitType
  <2>3. q.current[1].diagnostics \in Seq(Diagnostics)
    BY <2>2 DEF Cases
  <2> QED
    BY <2>2, <2>3
<1>10. JunitType(r, u)
  <2>1. r.stack = [i \in 1 .. Len(u) |-> u[i].tag] /\ Len(u) <= MaxDepth
    <3>1. q.stack \in Seq(Tags) /\ tag \in Tags
      <4>1. \A i \in 1 .. n : o[i].tag \in Tags
        <5>1. \A i \in 1 .. n : o[i] \in Opened
          BY <1>2
        <5> QED
          BY <5>1 DEF Opened
      <4> QED
        BY <1>1, <1>2, <4>1 DEF JunitType, Tags
    <3>2. q.stack = [i \in 1 .. n |-> o[i].tag]
      BY <1>1 DEF JunitType
    <3> QED
      BY <1>2, <1>3, <1>4, <1>5, <1>7, <3>1, <3>2, JunitAssumption
  <2>2. r.suites \in Seq(SuiteNames) /\ r.diagnostic \in Nat
    BY <1>1, <1>5, <1>9 DEF JunitType, SuiteNames, Attributes
  <2>3. r.cases \in Seq(Cases) /\ Len(r.cases) <= MaxCases
    BY <1>1, <1>5 DEF JunitType
  <2>4. r.current # <<>> =>
          r.current = <<r.current[1]>> /\ r.current[1] \in Cases /\ Len(r.cases) < MaxCases
    <3>1. CASE tag = "testcase"
      <4>1. Case(q, e.attrs) \in Cases
        <5>1. q.suites \in Seq(SuiteNames) /\ Len(q.cases) + 1 \in Nat /\ e.attrs \in Attributes
          BY <1>1 DEF JunitType, Attributes
        <5> QED
          BY <5>1 DEF Case, Cases
      <4> QED
        BY <1>2, <1>5, <1>7, <1>8, <3>1, <4>1
    <3>2. CASE tag \in Outcomes
      <4> DEFINE d == [kind |-> tag, text |-> 0]
      <4>0. PICK c : c = [q.current[1] EXCEPT !.diagnostics = Append(@, d)]
        OBVIOUS
      <4>1. d \in Diagnostics
        BY <3>2 DEF Diagnostics
      <4> HIDE DEF d
      <4>2. Append(q.current[1].diagnostics, d) \in Seq(Diagnostics)
        BY <1>9, <3>2, <4>1
      <4>3. c \in Cases
        BY <1>9, <3>2, <4>0, <4>2 DEF Cases
      <4>4. r.current = <<c>>
        BY <1>5, <3>2, <4>0 DEF d, Noted
      <4>5. Len(r.cases) < MaxCases
        BY <1>1, <1>2, <1>5, <1>7, <1>8, <3>2 DEF JunitType
      <4> QED
        BY <4>3, <4>4, <4>5
    <3>3. CASE tag \notin {"testcase"} \cup Outcomes
      BY <1>1, <1>5, <3>3 DEF JunitType
    <3> QED
      BY <3>1, <3>2, <3>3
  <2> QED
    BY <1>4, <1>5, <2>1, <2>2, <2>3, <2>4 DEF JunitType
<1>11. Nested(u)
  <2>1. Len(u) > 0 => u[1].tag \in {"testsuites", "testsuite"}
    <3>1. CASE n = 0
      BY <1>3, <1>4, <1>7, <3>1
    <3>2. CASE n > 0
      BY <1>1, <1>2, <1>4, <3>2 DEF Nested
    <3> QED
      BY <1>2, <3>1, <3>2
  <2>2. ASSUME NEW i \in 1 .. Len(u)
        PROVE  /\ u[i].tag = "testsuites" => i = 1
               /\ u[i].tag \in Outcomes => i = Len(u) /\ i > 1 /\ u[i - 1].tag = "testcase"
    <3>1. CASE i = n + 1
      BY <1>2, <1>3, <1>4, <1>7, <1>8, <3>1
    <3>2. CASE i # n + 1
      <4>1. i \in 1 .. n /\ n > 0
        BY <1>2, <1>4, <3>2
      <4>2. o[i].tag \in Outcomes => i = n
        BY <1>1, <4>1 DEF Nested
      <4>3. o[i].tag \notin Outcomes
        BY <1>7, <4>1, <4>2
      <4> QED
        BY <1>1, <1>4, <4>1, <4>3 DEF Nested
    <3> QED
      BY <3>1, <3>2
  <2> QED
    BY <2>1, <2>2 DEF Nested
<1>12. SuitesHeld(r, u)
  <2> DEFINE a == Root(o)
             d == Len(q.suites)
  <2>0. /\ a \in {0, 1} /\ d \in Nat /\ a + d <= n
        /\ \A i \in 1 .. n : o[i].tag = "testsuite" <=> i \in a + 1 .. a + d
        /\ \A i \in 1 .. d : q.suites[i] = SuiteName(o[a + i])
        /\ q.suites \in Seq(SuiteNames)
    <3>1. a \in {0, 1}
      BY DEF Root
    <3>2. q.suites \in Seq(SuiteNames) /\ d \in Nat
      BY <1>1 DEF JunitType
    <3>3. a + d <= n /\ (\A i \in 1 .. n : o[i].tag = "testsuite" <=> i \in a + 1 .. a + d)
          /\ \A i \in 1 .. d : q.suites[i] = SuiteName(o[a + i])
      BY <1>1, Zenon DEF SuitesHeld
    <3> QED
      BY <3>1, <3>2, <3>3
  <2>1. CASE n = 0
    <3>1. a = 0 /\ d = 0 /\ q.suites = <<>>
      BY <2>0, <2>1
    <3>2. CASE tag = "testsuite"
      <4>1. Root(u) = 0
        BY <1>3, <1>4, <2>1, <3>2 DEF Root
      <4>2. r.suites = <<SuiteName(e.attrs)>> /\ Len(r.suites) = 1 /\ r.suites[1] = SuiteName(e.attrs)
        BY <1>5, <3>1, <3>2
      <4>3. SuiteName(u[1]) = SuiteName(e.attrs)
        BY <1>3, <1>4, <2>1 DEF SuiteName
      <4>4. Len(u) = 1 /\ u[1].tag = "testsuite"
        BY <1>3, <1>4, <2>1, <3>2
      <4>5. \A i \in 1 .. 1 : r.suites[i] = SuiteName(u[0 + i])
        BY <4>2, <4>3
      <4>6. \A i \in 1 .. 1 : u[i].tag = "testsuite" <=> i \in 0 + 1 .. 0 + 1
        BY <4>4
      <4> QED
        BY <4>1, <4>2, <4>4, <4>5, <4>6 DEF SuitesHeld
    <3>3. CASE tag = "testsuites"
      <4>1. Root(u) = 1
        BY <1>3, <1>4, <2>1, <3>3 DEF Root
      <4>2. r.suites = <<>> /\ Len(r.suites) = 0
        BY <1>5, <3>1, <3>3
      <4> QED
        BY <1>3, <1>4, <2>1, <3>3, <4>1, <4>2 DEF SuitesHeld
    <3> QED
      BY <1>7, <2>1, <3>2, <3>3
  <2>2. CASE n > 0
    <3>1. Root(u) = a
      BY <1>2, <1>4, <2>2 DEF Root
    <3>2. CASE tag = "testsuite"
      <4>1. a + d = n
        <5>1. CASE o[n].tag = "testsuite"
          BY <1>2, <2>0, <2>2, <5>1
        <5>2. CASE o[n].tag = "testsuites"
          <6>1. n = 1 /\ o[1].tag = "testsuites"
            <7>1. n \in 1 .. n
              BY <1>2, <2>2
            <7>2. n = 1
              BY <1>1, <5>2, <7>1 DEF Nested
            <7> QED
              BY <5>2, <7>2
          <6>2. a = 1
            BY <6>1 DEF Root
          <6> QED
            BY <2>0, <6>1, <6>2
        <5> QED
          BY <1>7, <2>2, <3>2, <5>1, <5>2
      <4>2. /\ Len(r.suites) = d + 1 /\ r.suites[d + 1] = SuiteName(e.attrs)
            /\ \A i \in 1 .. d : r.suites[i] = q.suites[i]
        BY <1>5, <2>0, <3>2
      <4>3. SuiteName(u[n + 1]) = SuiteName(e.attrs)
        BY <1>3, <1>4 DEF SuiteName
      <4> HIDE DEF a, d
      <4>4. ASSUME NEW i \in 1 .. n + 1
            PROVE  u[i].tag = "testsuite" <=> i \in a + 1 .. a + (d + 1)
        <5>1. CASE i = n + 1
          BY <1>2, <1>3, <1>4, <2>0, <3>2, <4>1, <5>1
        <5>2. CASE i # n + 1
          <6>1. i \in 1 .. n
            BY <1>2, <5>2
          <6>2. i \in a + 1 .. a + d <=> i \in a + 1 .. a + (d + 1)
            BY <1>2, <2>0, <4>1, <6>1
          <6> QED
            BY <1>4, <2>0, <6>1, <6>2
        <5> QED
          BY <5>1, <5>2
      <4>5. ASSUME NEW i \in 1 .. d + 1
            PROVE  r.suites[i] = SuiteName(u[a + i])
        <5>1. CASE i = d + 1
          <6>1. a + i = n + 1
            BY <2>0, <4>1, <5>1
          <6> QED
            BY <4>2, <4>3, <5>1, <6>1
        <5>2. CASE i # d + 1
          <6>1. i \in 1 .. d /\ a + i \in 1 .. n
            BY <1>2, <2>0, <4>1, <5>2
          <6> QED
            BY <1>4, <2>0, <4>2, <6>1
        <5> QED
          BY <5>1, <5>2
      <4>6. a + (d + 1) <= n + 1
        BY <1>2, <2>0
      <4> QED
        BY <1>4, <3>1, <4>2, <4>4, <4>5, <4>6 DEF SuitesHeld
    <3>3. CASE tag # "testsuite"
      <4>1. r.suites = q.suites
        BY <1>5, <3>3
      <4> HIDE DEF a, d
      <4>2. ASSUME NEW i \in 1 .. n + 1
            PROVE  u[i].tag = "testsuite" <=> i \in a + 1 .. a + d
        <5>1. CASE i = n + 1
          BY <1>2, <1>3, <1>4, <2>0, <3>3, <5>1
        <5>2. CASE i # n + 1
          <6>1. i \in 1 .. n
            BY <1>2, <5>2
          <6> QED
            BY <1>4, <2>0, <6>1
        <5> QED
          BY <5>1, <5>2
      <4>3. ASSUME NEW i \in 1 .. d
            PROVE  r.suites[i] = SuiteName(u[a + i])
        <5>1. a + i \in 1 .. n
          BY <1>2, <2>0
        <5> QED
          BY <1>4, <2>0, <4>1, <5>1
      <4>4. a + d <= n + 1 /\ Len(r.suites) = d
        BY <1>2, <2>0, <4>1 DEF d
      <4> QED
        BY <1>4, <3>1, <4>1, <4>2, <4>3, <4>4 DEF SuitesHeld
    <3> QED
      BY <3>2, <3>3
  <2> QED
    BY <1>2, <2>1, <2>2
<1>13. CurrentHeld(r, u)
  <2>1. CASE tag = "testcase"
    <3>1. n > 0 /\ q.current = <<>> /\ \A i \in 1 .. n : o[i].tag # "testcase"
      BY <1>1, <1>2, <1>7, <1>8, <2>1 DEF CurrentHeld
    <3>2. u[n + 1].tag = "testcase" /\ \A i \in 1 .. n + 1 : u[i].tag = "testcase" => i = n + 1
      BY <1>2, <1>3, <1>4, <2>1, <3>1
    <3>3. /\ r.current[1].suite_path = q.suites /\ r.current[1].test_index = Len(q.cases) + 1
          /\ r.current # <<>> /\ r.suites = q.suites /\ r.cases = q.cases
      BY <1>5, <2>1 DEF Case
    <3>4. n + 1 \in 1 .. Len(u)
      BY <1>2, <1>4
    <3> QED
      BY <1>4, <3>2, <3>3, <3>4 DEF CurrentHeld
  <2>2. CASE tag # "testcase"
    <3>1. /\ r.current = <<>> <=> q.current = <<>>
          /\ q.current # <<>> => /\ r.current[1].suite_path = q.current[1].suite_path
                                 /\ r.current[1].test_index = q.current[1].test_index
      <4>1. CASE tag \in Outcomes
        <5>1. PICK c : c = [q.current[1] EXCEPT !.diagnostics = Append(@, [kind |-> tag, text |-> 0])]
          OBVIOUS
        <5>2. c.suite_path = q.current[1].suite_path /\ c.test_index = q.current[1].test_index
          BY <1>9, <4>1, <5>1 DEF Cases
        <5>3. r.current = <<c>> /\ q.current = <<q.current[1]>>
          BY <1>5, <1>9, <4>1, <5>1 DEF Noted
        <5>4. r.current # <<>> /\ q.current # <<>> /\ r.current[1] = c
          BY <5>3
        <5> QED
          BY <5>2, <5>4
      <4>2. CASE tag \notin Outcomes
        BY <1>5, <2>2, <4>2
      <4> QED
        BY <4>1, <4>2
    <3>2. \A i \in 1 .. n + 1 : u[i].tag = "testcase" <=> i \in 1 .. n /\ o[i].tag = "testcase"
      BY <1>2, <1>3, <1>4, <2>2
    <3>3. q.current # <<>> => r.suites = q.suites
      BY <1>1, <1>2, <1>5, <1>7 DEF CurrentHeld
    <3>4. CASE q.current = <<>>
      BY <1>1, <1>4, <3>1, <3>2, <3>4 DEF CurrentHeld
    <3>5. CASE q.current # <<>>
      <4>1. PICK t \in 1 .. n : o[t].tag = "testcase" /\ \A i \in 1 .. n : o[i].tag = "testcase" => i = t
        BY <1>1, <3>5 DEF CurrentHeld
      <4>2. /\ t \in 1 .. n + 1 /\ u[t].tag = "testcase"
            /\ \A i \in 1 .. n + 1 : u[i].tag = "testcase" => i = t
        BY <1>2, <3>2, <4>1
      <4>3. /\ r.current[1].suite_path = r.suites /\ r.current[1].test_index = Len(r.cases) + 1
            /\ r.current # <<>>
        BY <1>1, <1>5, <3>1, <3>3, <3>5 DEF CurrentHeld
      <4> QED
        BY <1>4, <4>2, <4>3, SMTT(40) DEF CurrentHeld
    <3> QED
      BY <3>4, <3>5
  <2> QED
    BY <2>1, <2>2
<1>14. DiagnosticHeld(r, u)
  <2>1. Inner(u) = tag
    BY <1>2, <1>3, <1>4 DEF Inner
  <2>2. CASE tag \in Outcomes
    <3>1. r.diagnostic = Len(q.current[1].diagnostics) + 1
      BY <1>5, <2>2
    <3> DEFINE d == [kind |-> tag, text |-> 0]
    <3>2. PICK c : c = [q.current[1] EXCEPT !.diagnostics = Append(@, d)]
      OBVIOUS
    <3>3. r.current = <<c>>
      BY <1>5, <2>2, <3>2 DEF Noted
    <3>4. d \in Diagnostics /\ d.kind = tag
      BY <2>2 DEF Diagnostics
    <3> HIDE DEF d
    <3>5. c.diagnostics = Append(q.current[1].diagnostics, d)
      BY <1>9, <2>2, <3>2 DEF Cases
    <3>6. /\ Len(c.diagnostics) = Len(q.current[1].diagnostics) + 1
          /\ c.diagnostics[Len(q.current[1].diagnostics) + 1] = d
      BY <1>9, <2>2, <3>4, <3>5
    <3> QED
      BY <1>9, <2>1, <2>2, <3>1, <3>3, <3>4, <3>6 DEF DiagnosticHeld
  <2>3. CASE tag \notin Outcomes
    <3>1. q.diagnostic = 0
      <4>1. Inner(o) \notin Outcomes
        BY <1>2, <1>7 DEF Inner, Outcomes
      <4> QED
        BY <1>1, <4>1 DEF DiagnosticHeld
    <3> QED
      BY <1>5, <2>1, <2>3, <3>1 DEF DiagnosticHeld
  <2> QED
    BY <2>2, <2>3
<1> QED
  BY <1>1, <1>5, <1>10, <1>11, <1>12, <1>13, <1>14 DEF JunitInv

\* A sequence without its last element.
LEMMA FrontIs ==
  ASSUME NEW S, NEW s \in Seq(S), Len(s) > 0
  PROVE  /\ Front(s) \in Seq(S) /\ Len(Front(s)) = Len(s) - 1
         /\ \A i \in 1 .. Len(s) - 1 : Front(s)[i] = s[i]
<1> DEFINE n == Len(s) - 1
<1>1. n \in Int /\ 1 \in Int /\ n >= 0 /\ n - 1 + 1 = n /\ \A i \in 1 .. n : s[i] \in S
  OBVIOUS
<1> HIDE DEF n
<1>2. /\ SubSeq(s, 1, n) \in Seq(S) /\ Len(SubSeq(s, 1, n)) = IF 1 <= n THEN n - 1 + 1 ELSE 0
      /\ \A i \in 1 .. n - 1 + 1 : SubSeq(s, 1, n)[i] = s[1 + i - 1]
  BY <1>1, SubSeqProperties
<1>3. Len(SubSeq(s, 1, n)) = n
  BY <1>1, <1>2
<1>4. \A i \in 1 .. n : SubSeq(s, 1, n)[i] = s[i]
  BY <1>1, <1>2
<1> QED
  BY <1>2, <1>3, <1>4 DEF Front, n

\* The outcome of a case does not depend on a field outcome it had before.
LEMMA ClosedIs ==
  ASSUME NEW c \in Cases, ~(Skipped(c) /\ Kinds(c) \cap {"error", "failure"} # {})
  PROVE  /\ Closed(c) \in Cases /\ Decided(Closed(c))
         /\ Closed(c).test_index = c.test_index
<1>1. PICK d : d = Closed(c)
  OBVIOUS
<1>2. PICK o : o = OutcomeOf(c)
  OBVIOUS
<1>3. o \in {"none", "skipped", "error", "failed", "passed"}
  BY <1>2 DEF OutcomeOf
<1>4. d = [c EXCEPT !.outcome = o]
  BY <1>1, <1>2 DEF Closed
<1>5. /\ d \in Cases /\ d.test_index = c.test_index /\ d.outcome = o
      /\ d.status = c.status /\ d.result = c.result /\ d.diagnostics = c.diagnostics
  BY <1>3, <1>4 DEF Cases
<1>6. Kinds(d) = Kinds(c)
  BY <1>5 DEF Kinds
<1>7. Skipped(d) <=> Skipped(c)
  BY <1>5, <1>6 DEF Skipped
<1>8. OutcomeOf(d) = OutcomeOf(c)
  BY <1>6, <1>7 DEF OutcomeOf
<1> QED
  BY <1>1, <1>2, <1>5, <1>6, <1>7, <1>8 DEF Decided

\* Every accepted end tag keeps the invariant.
LEMMA JunitEnd ==
  ASSUME NEW q, NEW o, JunitInv(q, o), o # <<>>, NEW tag, tag = o[Len(o)].tag,
         endAccepts(q, tag), NEW r, r = end(q, tag), NEW u, u = Front(o)
  PROVE  JunitInv(r, u)
<1> DEFINE n == Len(o)
<1>1. JunitType(q, o) /\ Nested(o) /\ SuitesHeld(q, o) /\ CurrentHeld(q, o)
      /\ DiagnosticHeld(q, o) /\ CasesDecided(q.cases)
  BY DEF JunitInv
<1>2. o \in Seq(Opened) /\ n \in Nat /\ n > 0 /\ IsState(q) /\ n \in 1 .. n /\ n - 1 \in Nat
  BY <1>1 DEF JunitType
<1>3. /\ u \in Seq(Opened) /\ Len(u) = n - 1
      /\ \A i \in 1 .. n - 1 : u[i] = o[i] /\ i \in 1 .. n
  BY <1>2, FrontIs
<1>4. /\ IsState(r) /\ r.stack = Front(q.stack)
      /\ r.suites = IF tag = "testsuite" THEN Front(q.suites) ELSE q.suites
      /\ r.diagnostic = IF tag \in Outcomes THEN 0 ELSE q.diagnostic
      /\ r.cases = IF tag = "testcase" THEN Append(q.cases, Closed(q.current[1])) ELSE q.cases
      /\ r.current = IF tag = "testcase" THEN <<>> ELSE q.current
  BY <1>2, EndIs
<1> DEFINE a == Root(o)
           d == Len(q.suites)
<1>5. /\ a \in {0, 1} /\ d \in Nat /\ a + d <= n
      /\ \A i \in 1 .. n : o[i].tag = "testsuite" <=> i \in a + 1 .. a + d
      /\ \A i \in 1 .. d : q.suites[i] = SuiteName(o[a + i])
      /\ q.suites \in Seq(SuiteNames)
  <2>1. a \in {0, 1}
    BY DEF Root
  <2>2. q.suites \in Seq(SuiteNames) /\ d \in Nat
    BY <1>1 DEF JunitType
  <2>3. a + d <= n /\ (\A i \in 1 .. n : o[i].tag = "testsuite" <=> i \in a + 1 .. a + d)
        /\ \A i \in 1 .. d : q.suites[i] = SuiteName(o[a + i])
    BY <1>1, Zenon DEF SuitesHeld
  <2> QED
    BY <2>1, <2>2, <2>3
<1>6. tag = "testcase" => /\ q.current # <<>> /\ q.current = <<q.current[1]>>
                          /\ q.current[1] \in Cases /\ Len(q.cases) < MaxCases
                          /\ q.current[1].test_index = Len(q.cases) + 1
  <2>1. tag = "testcase" => q.current # <<>>
    BY <1>1, <1>2 DEF CurrentHeld
  <2> QED
    BY <1>1, <2>1 DEF CurrentHeld, JunitType
<1>7. tag = "testcase" =>
        /\ Closed(q.current[1]) \in Cases /\ Decided(Closed(q.current[1]))
        /\ Closed(q.current[1]).test_index = Len(q.cases) + 1
  BY <1>6, ClosedIs DEF endAccepts
<1>8. q.cases \in Seq(Cases) /\ Len(q.cases) \in Nat
  BY <1>1 DEF JunitType
<1>9. tag = "testsuite" => a + d = n /\ d > 0
  <2> HIDE DEF a, d
  <2>1. tag = "testsuite" => n \in a + 1 .. a + d
    BY <1>2, <1>5
  <2> HIDE DEF n
  <2> QED
    BY <1>2, <1>5, <2>1
<1>10. JunitType(r, u)
  <2>1. r.stack = [i \in 1 .. Len(u) |-> u[i].tag] /\ Len(u) <= MaxDepth
    <3>1. q.stack \in Seq(Tags) /\ Len(q.stack) = n
      <4>0. \A i \in 1 .. n : o[i] \in Opened
        BY <1>2
      <4>1. \A i \in 1 .. n : o[i].tag \in Tags
        BY <4>0 DEF Opened
      <4> QED
        BY <1>1, <1>2, <4>1 DEF JunitType
    <3>2. \A i \in 1 .. n : q.stack[i] = o[i].tag
      BY <1>1 DEF JunitType
    <3>3. /\ r.stack \in Seq(Tags) /\ Len(r.stack) = n - 1
          /\ \A i \in 1 .. n - 1 : r.stack[i] = q.stack[i]
      BY <1>2, <1>4, <3>1, FrontIs
    <3>4. Len(u) <= MaxDepth
      BY <1>1, <1>2, <1>3, JunitAssumption DEF JunitType
    <3>5. \A i \in 1 .. n - 1 : r.stack[i] = u[i].tag
      BY <1>3, <3>2, <3>3
    <3>6. r.stack = [i \in 1 .. n - 1 |-> u[i].tag]
      <4>1. PICK t : t = r.stack
        OBVIOUS
      <4>2. t \in Seq(Tags) /\ Len(t) = n - 1
        BY <3>3, <4>1
      <4> HIDE DEF n
      <4>3. DOMAIN t = 1 .. n - 1 /\ t = [i \in 1 .. n - 1 |-> t[i]]
        BY <1>2, <4>2
      <4>4. \A i \in 1 .. n - 1 : t[i] = u[i].tag
        BY <3>5, <4>1, Zenon
      <4>5. [i \in 1 .. n - 1 |-> t[i]] = [i \in 1 .. n - 1 |-> u[i].tag]
        BY <4>4, Zenon
      <4> QED
        BY <4>1, <4>3, <4>5, Zenon
    <3> QED
      BY <1>3, <3>4, <3>6
  <2>2. r.suites \in Seq(SuiteNames) /\ r.diagnostic \in Nat
    <3>1. tag = "testsuite" => Front(q.suites) \in Seq(SuiteNames)
      <4> HIDE DEF a
      <4> QED
        BY <1>5, <1>9, FrontIs
    <3> QED
      BY <1>1, <1>4, <1>5, <3>1 DEF JunitType
  <2>3. r.cases \in Seq(Cases) /\ Len(r.cases) <= MaxCases
    BY <1>1, <1>4, <1>6, <1>7, <1>8, JunitAssumption DEF JunitType
  <2>4. r.current # <<>> =>
          r.current = <<r.current[1]>> /\ r.current[1] \in Cases /\ Len(r.cases) < MaxCases
    BY <1>1, <1>4 DEF JunitType
  <2> QED
    BY <1>3, <1>4, <2>1, <2>2, <2>3, <2>4 DEF JunitType
<1>11. Nested(u)
  <2>1. Len(u) > 0 => u[1].tag \in {"testsuites", "testsuite"}
    BY <1>1, <1>2, <1>3 DEF Nested
  <2>2. ASSUME NEW i \in 1 .. n - 1
        PROVE  (u[i].tag = "testsuites" => i = 1) /\ u[i].tag \notin Outcomes
    <3>1. i \in 1 .. n /\ u[i] = o[i] /\ i # n
      BY <1>2, <1>3
    <3> QED
      BY <1>1, <3>1 DEF Nested
  <2> QED
    BY <1>3, <2>1, <2>2 DEF Nested
<1>12. SuitesHeld(r, u)
  <2>1. CASE tag = "testsuite"
    <3> DEFINE s == Front(q.suites)
    <3>1. r.suites = s /\ Len(s) = d - 1 /\ \A i \in 1 .. d - 1 : s[i] = q.suites[i]
      <4> HIDE DEF a
      <4> QED
        BY <1>4, <1>5, <1>9, <2>1, FrontIs
    <3>2. Root(u) = a
      <4>1. CASE n = 1
        <5>1. Root(u) = 0
          BY <1>3, <4>1 DEF Root
        <5>2. a = 0
          BY <2>1, <4>1 DEF Root
        <5> QED
          BY <5>1, <5>2
      <4>2. CASE n # 1
        <5>1. n - 1 > 0 /\ 1 \in 1 .. n - 1
          <6> HIDE DEF n
          <6> QED
            BY <1>2, <4>2
        <5> QED
          BY <1>2, <1>3, <5>1 DEF Root
      <4> QED
        BY <4>1, <4>2
    <3> HIDE DEF a, d, s
    <3>3. ASSUME NEW i \in 1 .. n - 1
          PROVE  u[i].tag = "testsuite" <=> i \in a + 1 .. a + (d - 1)
      <4>1. i \in a + 1 .. a + d <=> i \in a + 1 .. a + (d - 1)
        BY <1>2, <1>5, <1>9, <2>1
      <4> QED
        BY <1>3, <1>5, <4>1
    <3>4. ASSUME NEW i \in 1 .. d - 1
          PROVE  r.suites[i] = SuiteName(u[a + i])
      <4>1. i \in 1 .. d /\ a + i \in 1 .. n - 1
        BY <1>2, <1>5, <1>9, <2>1
      <4> QED
        BY <1>3, <1>5, <3>1, <4>1
    <3>5. a + (d - 1) <= n - 1
      BY <1>2, <1>5, <1>9, <2>1
    <3> QED
      BY <1>3, <3>1, <3>2, <3>3, <3>4, <3>5 DEF SuitesHeld
  <2>2. CASE tag # "testsuite"
    <3>1. r.suites = q.suites
      BY <1>4, <2>2
    <3>2. CASE tag = "testsuites"
      <4>1. n = 1
        BY <1>1, <1>2, <3>2 DEF Nested
      <4>2. a = 1 /\ d = 0
        <5>1. a = 1
          <6>1. o[1].tag = "testsuites"
            BY <3>2, <4>1
          <6> QED
            BY <4>1, <6>1 DEF Root
        <5> QED
          BY <1>5, <4>1, <5>1
      <4>3. Len(u) = 0 /\ Root(u) = 0
        BY <1>3, <4>1 DEF Root
      <4> QED
        BY <3>1, <4>2, <4>3 DEF SuitesHeld
    <3>3. CASE tag # "testsuites"
      <4>1. n > 1
        BY <1>1, <1>2, <2>2, <3>3 DEF Nested
      <4>2. Root(u) = a
        <5>1. n - 1 > 0 /\ 1 \in 1 .. n - 1
          BY <1>2, <4>1
        <5> QED
          BY <1>2, <1>3, <5>1 DEF Root
      <4> HIDE DEF a, d
      <4>3. a + d <= n - 1
        BY <1>2, <1>5, <2>2, <4>1
      <4>4. ASSUME NEW i \in 1 .. d
            PROVE  r.suites[i] = SuiteName(u[a + i])
        <5>1. a + i \in 1 .. n - 1
          BY <1>2, <1>5, <4>3
        <5> QED
          BY <1>3, <1>5, <3>1, <5>1
      <4>5. \A i \in 1 .. n - 1 : u[i].tag = "testsuite" <=> i \in a + 1 .. a + d
        BY <1>3, <1>5
      <4>6. Len(r.suites) = d
        BY <3>1 DEF d
      <4> QED
        BY <1>3, <4>2, <4>3, <4>4, <4>5, <4>6 DEF SuitesHeld
    <3> QED
      BY <3>2, <3>3
  <2> QED
    BY <2>1, <2>2
<1>13. CurrentHeld(r, u)
  <2>1. CASE q.current = <<>>
    <3>1. tag # "testcase"
      BY <1>6, <2>1
    <3>2. r.current = <<>> /\ \A i \in 1 .. n - 1 : u[i].tag # "testcase"
      BY <1>1, <1>3, <1>4, <2>1, <3>1 DEF CurrentHeld
    <3> QED
      BY <1>3, <3>2 DEF CurrentHeld
  <2>2. CASE q.current # <<>>
    <3>1. PICK t \in 1 .. n : o[t].tag = "testcase" /\ \A i \in 1 .. n : o[i].tag = "testcase" => i = t
      BY <1>1, <2>2 DEF CurrentHeld
    <3>2. CASE tag = "testcase"
      <4>1. t = n
        BY <1>2, <3>1, <3>2
      <4>2. \A i \in 1 .. n - 1 : i # n
        BY <1>2
      <4>3. r.current = <<>> /\ \A i \in 1 .. n - 1 : u[i].tag # "testcase"
        BY <1>3, <1>4, <3>1, <3>2, <4>1, <4>2
      <4> QED
        BY <1>3, <4>3 DEF CurrentHeld
    <3>3. CASE tag # "testcase"
      <4>1. t \in 1 .. n - 1
        BY <1>2, <3>1, <3>3
      <4>2. tag # "testsuite"
        <5> HIDE DEF a, d
        <5>1. tag = "testsuite" => (t \in a + 1 .. a + d \/ (t = 1 /\ a = 1))
          <6>1. a \in {0, 1} /\ d \in Nat /\ n \in Nat /\ (tag = "testsuite" => a + d = n)
            BY <1>2, <1>5, <1>9
          <6> HIDE DEF n
          <6>2. t \in Nat /\ t >= 1 /\ t <= n - 1
            BY <4>1, <6>1
          <6>3. CASE a = 0
            BY <6>1, <6>2, <6>3
          <6>4. CASE a = 1
            BY <6>1, <6>2, <6>4
          <6> QED
            BY <6>1, <6>3, <6>4
        <5>2. t \notin a + 1 .. a + d
          BY <1>5, <3>1
        <5>3. ~(t = 1 /\ a = 1)
          BY <1>2, <3>1 DEF a, Root
        <5> QED
          BY <5>1, <5>2, <5>3
      <4>3. r.suites = q.suites /\ r.cases = q.cases /\ r.current = q.current
        BY <1>4, <3>3, <4>2
      <4>4. u[t].tag = "testcase" /\ \A i \in 1 .. n - 1 : u[i].tag = "testcase" => i = t
        BY <1>3, <3>1, <4>1
      <4> QED
        BY <1>1, <1>3, <2>2, <4>1, <4>3, <4>4 DEF CurrentHeld
    <3> QED
      BY <3>2, <3>3
  <2> QED
    BY <2>1, <2>2
<1>14. DiagnosticHeld(r, u)
  <2>1. Inner(u) \notin Outcomes
    <3>1. CASE n = 1
      BY <1>3, <3>1 DEF Inner, Outcomes
    <3>2. CASE n # 1
      <4>1. n - 1 \in 1 .. n /\ n - 1 \in 1 .. n - 1 /\ n - 1 # n
        <5> HIDE DEF n
        <5> QED
          BY <1>2, <3>2
      <4>2. o[n - 1].tag \notin Outcomes
        BY <1>1, <4>1 DEF Nested
      <4>3. Inner(u) = o[n - 1].tag
        BY <1>2, <1>3, <4>1 DEF Inner
      <4> QED
        BY <4>2, <4>3
    <3> QED
      BY <3>1, <3>2
  <2>2. r.diagnostic = 0
    <3>1. Inner(o) = tag
      BY <1>2 DEF Inner
    <3> QED
      BY <1>1, <1>4, <3>1 DEF DiagnosticHeld
  <2> QED
    BY <2>1, <2>2 DEF DiagnosticHeld
<1>15. CasesDecided(r.cases)
  <2>1. CASE tag = "testcase"
    <3> DEFINE m == Len(q.cases)
    <3>1. PICK c : c = Closed(q.current[1])
      OBVIOUS
    <3>2. c \in Cases /\ Decided(c) /\ c.test_index = m + 1
      BY <1>7, <2>1, <3>1
    <3>3. /\ Len(r.cases) = m + 1 /\ r.cases[m + 1] = c
          /\ \A i \in 1 .. m : r.cases[i] = q.cases[i]
      BY <1>4, <1>8, <2>1, <3>1, <3>2
    <3>4. \A i \in 1 .. m + 1 : i \in 1 .. m \/ i = m + 1
      BY <1>8
    <3> QED
      BY <1>1, <3>2, <3>3, <3>4, SMTT(40) DEF CasesDecided
  <2>2. CASE tag # "testcase"
    BY <1>1, <1>4, <2>2
  <2> QED
    BY <2>1, <2>2
<1> QED
  BY <1>10, <1>11, <1>12, <1>13, <1>14, <1>15 DEF JunitInv

\* Text keeps it.
LEMMA JunitText ==
  ASSUME NEW q, NEW o, JunitInv(q, o), NEW r, r = text(q)
  PROVE  JunitInv(r, o)
<1> DEFINE n == q.diagnostic
<1>1. JunitType(q, o) /\ Nested(o) /\ SuitesHeld(q, o) /\ CurrentHeld(q, o)
      /\ DiagnosticHeld(q, o) /\ CasesDecided(q.cases)
  BY DEF JunitInv
<1>2. IsState(q) /\ o \in Seq(Opened) /\ n \in Nat
  BY <1>1 DEF JunitType
<1>3. CASE n = 0
  <2>1. r = q
    BY <1>3 DEF text
  <2> QED
    BY <2>1
<1>4. CASE n # 0
  <2> DEFINE c == q.current[1]
  <2>1. q.current # <<>>
    <3>1. Inner(o) \in Outcomes
      BY <1>1, <1>4 DEF DiagnosticHeld
    <3>2. Len(o) \in 1 .. Len(o) /\ o[Len(o)].tag \in Outcomes
      BY <1>2, <3>1 DEF Inner, Outcomes
    <3>3. Len(o) > 1 /\ o[Len(o) - 1].tag = "testcase"
      BY <1>1, <3>2 DEF Nested
    <3>4. Len(o) - 1 \in 1 .. Len(o)
      BY <1>2, <3>3
    <3> QED
      BY <1>1, <3>3, <3>4 DEF CurrentHeld
  <2>2. q.current = <<c>> /\ c \in Cases /\ Len(q.cases) < MaxCases
    BY <1>1, <2>1 DEF JunitType
  <2>3. c.diagnostics \in Seq(Diagnostics) /\ n \in 1 .. Len(c.diagnostics)
        /\ Len(c.diagnostics) = n
    <3>1. c.diagnostics \in Seq(Diagnostics)
      BY <2>2 DEF Cases
    <3>2. n = Len(c.diagnostics)
      BY <1>1, <1>4 DEF DiagnosticHeld
    <3> QED
      BY <1>2, <1>4, <3>1, <3>2
  <2>4. PICK d : d = Spoken(c, n)
    OBVIOUS
  <2>5. /\ IsState(r) /\ r.stack = q.stack /\ r.suites = q.suites /\ r.cases = q.cases
        /\ r.diagnostic = n /\ r.current = <<d>>
    BY <1>2, <1>4, <2>2, <2>4, TextIs, ZenonT(60)
  <2>6. /\ d \in Cases /\ d.suite_path = c.suite_path /\ d.test_index = c.test_index
        /\ Len(d.diagnostics) = n /\ d.diagnostics[n].kind = c.diagnostics[n].kind
    <3>1. PICK x : x = c.diagnostics[n]
      OBVIOUS
    <3>2. x \in Diagnostics
      BY <2>3, <3>1
    <3>3. PICK y : y = [x EXCEPT !.text = @ + 1]
      OBVIOUS
    <3>4. y \in Diagnostics /\ y.kind = x.kind
      BY <3>2, <3>3 DEF Diagnostics
    <3>5. PICK s : s = [c.diagnostics EXCEPT ![n] = y]
      OBVIOUS
    <3>6. s \in Seq(Diagnostics) /\ Len(s) = n /\ s[n] = y
      BY <1>2, <2>3, <3>4, <3>5
    <3>7. d = [c EXCEPT !.diagnostics = s]
      BY <2>4, <3>1, <3>3, <3>5 DEF Spoken
    <3> QED
      BY <2>2, <3>1, <3>4, <3>6, <3>7 DEF Cases
  <2>7. r.current # <<>> /\ r.current[1] = d
    BY <2>5
  <2>8. JunitType(r, o)
    BY <1>1, <2>2, <2>5, <2>6, <2>7 DEF JunitType
  <2>9. SuitesHeld(r, o) /\ CasesDecided(r.cases)
    BY <1>1, <2>5 DEF SuitesHeld
  <2>10. CurrentHeld(r, o)
    BY <1>1, <2>1, <2>5, <2>6, <2>7 DEF CurrentHeld
  <2>11. DiagnosticHeld(r, o)
    BY <1>1, <1>4, <2>5, <2>6, <2>7 DEF DiagnosticHeld
  <2> QED
    BY <1>1, <2>8, <2>9, <2>10, <2>11 DEF JunitInv
<1> QED
  BY <1>3, <1>4

\* It holds before the first tag.
LEMMA JunitFresh ==
  JunitInv(NoDocument, <<>>)
  BY JunitAssumption DEF JunitInv, JunitType, IsState, NoDocument, Nested, SuitesHeld, Root,
     CurrentHeld, DiagnosticHeld, Inner, Outcomes, CasesDecided

\* The names a case carries are those of the suites around it, outermost first.
LEMMA SuitePathIs ==
  ASSUME NEW q, NEW o, JunitInv(q, o), q.current # <<>>,
         NEW around, around = Ascending({i \in DOMAIN o : o[i].tag = "testsuite"})
  PROVE  q.current[1].suite_path = [n \in DOMAIN around |-> SuiteName(o[around[n]])]
<1> DEFINE a == Root(o)
           d == Len(q.suites)
           S == {i \in DOMAIN o : o[i].tag = "testsuite"}
<1>1. /\ a \in {0, 1} /\ d \in Nat /\ a + d <= Len(o) /\ Len(o) \in Nat /\ o \in Seq(Opened)
      /\ \A i \in 1 .. Len(o) : o[i].tag = "testsuite" <=> i \in a + 1 .. a + d
      /\ \A i \in 1 .. d : q.suites[i] = SuiteName(o[a + i])
      /\ q.suites \in Seq(SuiteNames)
  <2>1. a \in {0, 1}
    BY DEF Root
  <2>2. q.suites \in Seq(SuiteNames) /\ d \in Nat /\ o \in Seq(Opened) /\ Len(o) \in Nat
    BY DEF JunitInv, JunitType
  <2>3. a + d <= Len(o)
        /\ (\A i \in 1 .. Len(o) : o[i].tag = "testsuite" <=> i \in a + 1 .. a + d)
        /\ \A i \in 1 .. d : q.suites[i] = SuiteName(o[a + i])
    BY Zenon DEF JunitInv, SuitesHeld
  <2> QED
    BY <2>1, <2>2, <2>3
<1> HIDE DEF a
<1>2. S = a + 1 .. a + d
  BY <1>1
<1>3. S \in SUBSET Nat /\ IsFiniteSet(S) /\ Cardinality(S) = d
  <2>1. a + 1 \in Int /\ a + d \in Int
    BY <1>1
  <2>2. PICK x, y : x = a + 1 /\ y = a + d
    OBVIOUS
  <2> HIDE DEF S
  <2>3. S = x .. y /\ x \in Int /\ y \in Int
    BY <1>2, <2>1, <2>2
  <2>4. IsFiniteSet(x .. y) /\ Cardinality(x .. y) = IF x > y THEN 0 ELSE y - x + 1
    BY <2>3, FS_Interval
  <2>5. (IF x > y THEN 0 ELSE y - x + 1) = d
    BY <1>1, <2>2
  <2>6. S \in SUBSET Nat
    BY <1>1, <1>2
  <2> QED
    BY <2>3, <2>4, <2>5, <2>6
<1>4. around = Ascending(S)
  OBVIOUS
<1> HIDE DEF S, d
<1>5. /\ around \in [1 .. d -> S]
      /\ \A n \in 1 .. d : Cardinality({x \in S : x <= around[n]}) = n
  <2>1. /\ Ascending(S) \in [1 .. Cardinality(S) -> S]
        /\ \A n \in 1 .. Cardinality(S) : Cardinality({x \in S : x <= Ascending(S)[n]}) = n
    BY <1>3, AscendingLists
  <2> QED
    BY <1>3, <1>4, <2>1
<1>6. ASSUME NEW n \in 1 .. d
      PROVE  around[n] = a + n
  <2>1. around[n] \in a + 1 .. a + d
    BY <1>2, <1>5
  <2>2. PICK k : k = around[n]
    OBVIOUS
  <2>3. k \in Int /\ a + 1 \in Int /\ k >= a + 1 /\ k <= a + d
    BY <1>1, <2>1, <2>2
  <2>4. {x \in S : x <= k} = a + 1 .. k
    BY <1>1, <1>2, <2>3
  <2>5. Cardinality(a + 1 .. k) = k - (a + 1) + 1
    BY <2>3, FS_Interval
  <2>6. k - (a + 1) + 1 = n
    BY <1>5, <2>2, <2>4, <2>5
  <2> QED
    BY <1>1, <2>2, <2>3, <2>6
<1>7. q.current[1].suite_path = q.suites
  BY DEF JunitInv, CurrentHeld
<1>8. \A n \in 1 .. d : q.suites[n] = SuiteName(o[around[n]])
  BY <1>1, <1>6
<1>9. q.suites = [n \in 1 .. d |-> SuiteName(o[around[n]])]
  <2>1. q.suites = [n \in 1 .. d |-> q.suites[n]]
    BY <1>1 DEF d
  <2> QED
    BY <1>8, <2>1
<1> QED
  BY <1>5, <1>7, <1>9

\* In a reading the cases differ from each other.
LEMMA CasesDiffer ==
  ASSUME NEW cases \in Seq(Cases), CasesDecided(cases)
  PROVE  \A i, j \in DOMAIN cases : cases[i] = cases[j] => i = j
  BY DEF CasesDecided

\* What a side of a row lists are cases of the reading, all of one identity.
LEMMA SideIs ==
  ASSUME NEW cases \in Seq(Cases), NEW id
  PROVE  /\ Side(grouped(cases), id) \in Seq(Cases)
         /\ \A n \in 1 .. Len(Side(grouped(cases), id)) : \E i \in DOMAIN cases :
              Side(grouped(cases), id)[n] = cases[i]
  BY GroupedCases DEF Side

\* Equal outcomes mean failures on both sides or on neither.
LEMMA FailsIs ==
  ASSUME NEW c \in Cases, Decided(c)
  PROVE  Kinds(c) \cap {"failure", "error"} # {} <=> c.outcome \in {"error", "failed"}
<1>1. CASE Skipped(c)
  <2>1. c.outcome = "skipped"
    BY <1>1 DEF Decided, OutcomeOf
  <2>2. Kinds(c) \cap {"error", "failure"} = {}
    BY <1>1 DEF Decided
  <2> QED
    BY <2>1, <2>2
<1>2. CASE ~Skipped(c)
  <2>1. c.outcome = OutcomeOf(c)
    BY DEF Decided
  <2>2. OutcomeOf(c) \in {"error", "failed"} <=> "error" \in Kinds(c) \/ "failure" \in Kinds(c)
    BY <1>2 DEF OutcomeOf
  <2> QED
    BY <2>1, <2>2
<1> QED
  BY <1>1, <1>2

\* A row that pairs two cases pairs the only ones of its identity.
LEMMA PairedRow ==
  ASSUME NEW b \in Seq(Cases), NEW a \in Seq(Cases), NEW changes_only \in BOOLEAN,
         NEW id \in DOMAIN compare_cases(b, a, changes_only).rows, NEW row,
         row = compare_cases(b, a, changes_only).rows[id],
         row.status \in {"unchanged", "changed-details", "changed-outcome"}
  PROVE  /\ Len(row.before) = 1 /\ Len(row.after) = 1
         /\ \E i \in DOMAIN b : row.before[1] = b[i]
         /\ \E i \in DOMAIN a : row.after[1] = a[i]
         /\ row.status # "changed-outcome" => row.before[1].outcome = row.after[1].outcome
<1> DEFINE old == Side(grouped(b), id)
           new == Side(grouped(a), id)
<1>1. row = CaseRow(b, a, id)
  BY CompareCaseRows
<1>2. row.status = CaseStatus(old, new) /\ row.before = old /\ row.after = new
  BY <1>1 DEF CaseRow
<1>3. /\ old \in Seq(Cases) /\ \A n \in 1 .. Len(old) : \E i \in DOMAIN b : old[n] = b[i]
      /\ new \in Seq(Cases) /\ \A n \in 1 .. Len(new) : \E i \in DOMAIN a : new[n] = a[i]
  BY SideIs
<1> HIDE DEF old, new
<1>4. /\ ~(Len(old) > 1) /\ ~(Len(new) > 1) /\ old # <<>> /\ new # <<>>
      /\ row.status # "changed-outcome" => old[1].outcome = new[1].outcome
  BY <1>2 DEF CaseStatus
<1>5. Len(old) = 1 /\ Len(new) = 1
  <2>1. Len(old) \in Nat /\ Len(new) \in Nat /\ Len(old) # 0 /\ Len(new) # 0
    BY <1>3, <1>4
  <2>2. ~(Len(old) > 1) /\ ~(Len(new) > 1)
    BY <1>4
  <2>3. \A n \in Nat : n # 0 /\ ~(n > 1) => n = 1
    OBVIOUS
  <2> QED
    BY <2>1, <2>2, <2>3, Zenon
<1> QED
  BY <1>2, <1>3, <1>4, <1>5

\* Every case of a reading is in one place of the rows, under its identity.
Once(lists, cases) ==
  \A i \in DOMAIN cases : \E here \in Places(lists) :
    /\ here[1] = Identity(cases[i])
    /\ \A at \in Places(lists) : lists[at[1]][at[2]] = cases[i] <=> at = here
\* Grouping the cases of a reading by identity puts each of them in one place.
LEMMA ListedOnce ==
  ASSUME NEW cases \in Seq(Cases), CasesDecided(cases), NEW lists,
         DOMAIN grouped(cases) \subseteq DOMAIN lists,
         \A id \in DOMAIN lists : lists[id] = Side(grouped(cases), id)
  PROVE  Once(lists, cases)
<1> SUFFICES ASSUME NEW i \in DOMAIN cases
             PROVE  \E here \in Places(lists) :
                      /\ here[1] = Identity(cases[i])
                      /\ \A at \in Places(lists) : lists[at[1]][at[2]] = cases[i] <=> at = here
  BY Zenon DEF Once
<1>0. \A k, m : <<k, m>> \in Places(lists) <=> k \in DOMAIN lists /\ m \in DOMAIN lists[k]
  BY DEF Places
<1>00. \A at \in Places(lists) : at = <<at[1], at[2]>>
  BY DEF Places
<1>1. PICK id : id = Identity(cases[i])
  OBVIOUS
<1>2. id \in DOMAIN grouped(cases)
  BY <1>1, GroupedIdentities
<1>3. lists[id] = grouped(cases)[id] /\ id \in DOMAIN lists
  BY <1>2 DEF Side
<1>4. /\ lists[id] \in Seq(Cases)
      /\ \A n \in 1 .. Len(lists[id]) : \E j \in DOMAIN cases : lists[id][n] = cases[j]
      /\ \E n \in 1 .. Len(lists[id]) : lists[id][n] = cases[i]
      /\ \A n, m \in 1 .. Len(lists[id]) : lists[id][n] = lists[id][m] => n = m
  <2>1. \A j, k \in DOMAIN cases : cases[j] = cases[k] => j = k
    BY CasesDiffer
  <2>2. /\ grouped(cases)[id] \in Seq(Cases)
        /\ \A n \in 1 .. Len(grouped(cases)[id]) : \E k \in DOMAIN cases :
             Identity(cases[k]) = id /\ grouped(cases)[id][n] = cases[k]
        /\ \A k \in DOMAIN cases : Identity(cases[k]) = id =>
             \E n \in 1 .. Len(grouped(cases)[id]) : grouped(cases)[id][n] = cases[k]
        /\ (\A j, k \in DOMAIN cases : cases[j] = cases[k] => j = k) =>
             \A n, m \in 1 .. Len(grouped(cases)[id]) :
               grouped(cases)[id][n] = grouped(cases)[id][m] => n = m
    BY <1>2, GroupedCases, Zenon
  <2> QED
    BY <1>1, <1>3, <2>1, <2>2
<1>5. PICK n \in 1 .. Len(lists[id]) : lists[id][n] = cases[i]
  BY <1>4
<1>6. DOMAIN lists[id] = 1 .. Len(lists[id])
  BY <1>4
<1>7. <<id, n>> \in Places(lists)
  BY <1>0, <1>3, <1>5, <1>6
<1>8. ASSUME NEW k \in DOMAIN lists, NEW m \in DOMAIN lists[k], lists[k][m] = cases[i]
      PROVE  k = id /\ m = n
  <2>1. k \in DOMAIN grouped(cases)
    <3>1. CASE k \notin DOMAIN grouped(cases)
      <4>1. lists[k] = <<>>
        BY <1>8, <3>1 DEF Side
      <4> QED
        BY <1>8, <4>1
    <3> QED
      BY <3>1
  <2>2. lists[k] = grouped(cases)[k]
    BY <1>8, <2>1 DEF Side
  <2>3. PICK j \in DOMAIN cases : Identity(cases[j]) = k /\ lists[k][m] = cases[j]
    <3>1. lists[k] \in Seq(Cases) /\ \A x \in 1 .. Len(lists[k]) : \E j \in DOMAIN cases :
            Identity(cases[j]) = k /\ lists[k][x] = cases[j]
      BY <2>1, <2>2, GroupedCases
    <3>2. m \in 1 .. Len(lists[k])
      BY <1>8, <3>1
    <3> QED
      BY <3>1, <3>2
  <2>4. j = i
    BY <1>8, <2>3, CasesDiffer
  <2>5. k = id
    BY <1>1, <2>3, <2>4
  <2> QED
    BY <1>4, <1>5, <1>6, <1>8, <2>5
<1>9. \A at \in Places(lists) : lists[at[1]][at[2]] = cases[i] <=> at = <<id, n>>
  <2> SUFFICES ASSUME NEW at \in Places(lists)
               PROVE  lists[at[1]][at[2]] = cases[i] <=> at = <<id, n>>
    OBVIOUS
  <2>1. PICK k, m : k = at[1] /\ m = at[2]
    OBVIOUS
  <2>2. at = <<k, m>> /\ k \in DOMAIN lists /\ m \in DOMAIN lists[k]
    BY <1>0, <1>00, <2>1
  <2>3. lists[k][m] = cases[i] => k = id /\ m = n
    BY <1>8, <2>2
  <2>4. at = <<id, n>> => k = id /\ m = n
    BY <2>2
  <2>5. k = id /\ m = n => at = <<id, n>> /\ lists[k][m] = cases[i]
    BY <1>5, <2>2
  <2> QED
    BY <2>1, <2>3, <2>4, <2>5
<1> QED
  BY <1>1, <1>7, <1>9

\* Every accepted DA line is counted once: under its coordinate or in the record.
Counted(q) ==
  /\ IsFiniteSet(Places(q.groups))
  /\ q.current # <<>> => IsFiniteSet(DOMAIN q.current[1].lines)
  /\ q.count = Cardinality(Places(q.groups))
               + (IF q.current = <<>> THEN 0 ELSE Cardinality(DOMAIN q.current[1].lines))

\* The lines of a record take new places under their coordinates.
LEMMA JoinedPlaces ==
  ASSUME NEW g, IsGroups(g), IsFiniteSet(Places(g)), NEW r, IsFiniteSet(DOMAIN r.lines)
  PROVE  /\ IsFiniteSet(Places(Joined(g, r)))
         /\ Cardinality(Places(Joined(g, r))) = Cardinality(Places(g)) + Cardinality(DOMAIN r.lines)
<1> DEFINE K == Coordinates(r)
           D == DOMAIN r.lines
           j == Joined(g, r)
           L(k) == IF k \in DOMAIN g THEN Len(g[k]) ELSE 0
           N == {<<k, L(k) + 1>> : k \in K}
           f == [n \in D |-> <<<<r.path, n>>, L(<<r.path, n>>) + 1>>]
<1>1. \A k \in DOMAIN g : g[k] \in Seq(Observations) /\ Len(g[k]) \in Nat /\ DOMAIN g[k] = 1 .. Len(g[k])
  BY DEF IsGroups
<1>2. \A x, y : <<x, y>> \in Places(g) <=> x \in DOMAIN g /\ y \in DOMAIN g[x]
  BY DEF Places
<1>3. \A x, y : <<x, y>> \in Places(j) <=> x \in DOMAIN j /\ y \in DOMAIN j[x]
  BY DEF Places
<1>4. (\A z \in Places(g) : z = <<z[1], z[2]>>) /\ (\A z \in Places(j) : z = <<z[1], z[2]>>)
  BY DEF Places
<1>5. DOMAIN j = DOMAIN g \cup K
  BY DEF Joined
<1>6. ASSUME NEW k \in DOMAIN j
      PROVE  DOMAIN j[k] = 1 .. L(k) + (IF k \in K THEN 1 ELSE 0)
  <2> DEFINE old == IF k \in DOMAIN g THEN g[k] ELSE <<>>
             add == IF k \in K THEN <<r.lines[k[2]]>> ELSE <<>>
  <2>1. j[k] = old \o add
    BY <1>5, <1>6 DEF Joined
  <2>2. PICK S : old \in Seq(S) /\ add \in Seq(S)
    <3>1. old \in Seq(Observations \cup {r.lines[k[2]]})
      <4>1. CASE k \in DOMAIN g
        <5>1. g[k] \in Seq(Observations)
          BY <1>1, <4>1
        <5>2. \A i \in 1 .. Len(g[k]) : g[k][i] \in Observations \cup {r.lines[k[2]]}
          BY <5>1
        <5>3. g[k] \in Seq(Observations \cup {r.lines[k[2]]})
          BY <5>1, <5>2
        <5> QED
          BY <4>1, <5>3
      <4>2. CASE k \notin DOMAIN g
        BY <4>2
      <4> QED
        BY <4>1, <4>2
    <3>2. add \in Seq(Observations \cup {r.lines[k[2]]})
      <4>1. PICK x : x = r.lines[k[2]]
        OBVIOUS
      <4>2. <<x>> \in Seq(Observations \cup {x}) /\ <<>> \in Seq(Observations \cup {x})
        OBVIOUS
      <4> QED
        BY <4>1, <4>2
    <3> QED
      BY <3>1, <3>2
  <2>3. Len(old) = L(k) /\ Len(add) = IF k \in K THEN 1 ELSE 0
    BY <1>1
  <2> HIDE DEF old, add, j, L, K
  <2>4. Len(old \o add) = Len(old) + Len(add) /\ DOMAIN (old \o add) = 1 .. Len(old \o add)
    BY <2>2
  <2> QED
    BY <2>1, <2>3, <2>4
<1>7. \A k : L(k) \in Nat
  BY <1>1
<1>8. \A k : k \in DOMAIN g => DOMAIN g[k] = 1 .. L(k)
  BY <1>1
<1>9. \A k : k \notin DOMAIN g => L(k) = 0
  OBVIOUS
<1> HIDE DEF j, L, K
<1>10. \A z : z \in N <=> \E k \in K : z = <<k, L(k) + 1>>
  OBVIOUS
<1>11. \A x, y : <<x, y>> \in Places(j) <=> <<x, y>> \in Places(g) \/ <<x, y>> \in N
  <2> SUFFICES ASSUME NEW x, NEW y
               PROVE  <<x, y>> \in Places(j) <=> <<x, y>> \in Places(g) \/ <<x, y>> \in N
    OBVIOUS
  <2>1. <<x, y>> \in N <=> x \in K /\ y = L(x) + 1
    BY <1>10
  <2> HIDE DEF N
  <2>2. CASE x \in K
    <3>1. DOMAIN j[x] = 1 .. L(x) + 1 /\ x \in DOMAIN j
      BY <1>5, <1>6, <2>2
    <3>2. y \in 1 .. L(x) + 1 <=> y \in 1 .. L(x) \/ y = L(x) + 1
      BY <1>7
    <3>3. y \in 1 .. L(x) <=> x \in DOMAIN g /\ y \in DOMAIN g[x]
      <4>1. CASE x \in DOMAIN g
        BY <1>8, <4>1
      <4>2. CASE x \notin DOMAIN g
        <5>1. L(x) = 0 /\ ~(y \in 1 .. 0)
          BY <1>9, <4>2
        <5> QED
          BY <4>2, <5>1
      <4> QED
        BY <4>1, <4>2
    <3> QED
      BY <1>2, <1>3, <2>1, <2>2, <3>1, <3>2, <3>3
  <2>3. CASE x \notin K
    <3>1. x \in DOMAIN j <=> x \in DOMAIN g
      BY <1>5, <2>3
    <3>2. x \in DOMAIN j => DOMAIN j[x] = 1 .. L(x) + 0
      BY <1>6, <2>3
    <3>3. L(x) + 0 = L(x)
      BY <1>7
    <3> QED
      BY <1>2, <1>3, <1>8, <2>1, <2>3, <3>1, <3>2, <3>3
  <2> QED
    BY <2>2, <2>3
<1>12. Places(j) = Places(g) \cup N
  <2>1. \A z \in N : z = <<z[1], z[2]>>
    OBVIOUS
  <2> HIDE DEF N
  <2> QED
    BY <1>4, <1>11, <2>1
<1>13. Places(g) \cap N = {}
  <2> SUFFICES ASSUME NEW k \in K, <<k, L(k) + 1>> \in Places(g)
               PROVE  FALSE
    BY <1>10
  <2>1. k \in DOMAIN g /\ L(k) + 1 \in 1 .. L(k)
    BY <1>2, <1>8
  <2> QED
    BY <1>7, <2>1
<1>14. f \in Surjection(D, N) /\ f \in Injection(D, N)
  <2>1. \A z : z \in N <=> \E n \in D : z = <<<<r.path, n>>, L(<<r.path, n>>) + 1>>
    BY DEF K, Coordinates
  <2> HIDE DEF N
  <2>2. f \in [D -> N] /\ \A z \in N : \E n \in D : f[n] = z
    BY <2>1
  <2>3. \A m, n \in D : f[m] = f[n] => m = n
    OBVIOUS
  <2> HIDE DEF f
  <2> QED
    BY <2>2, <2>3 DEF Surjection, Injection, IsInjective
<1> HIDE DEF N, f, D
<1>15. IsFiniteSet(N) /\ Cardinality(N) = Cardinality(D)
  BY <1>14, FS_Surjection DEF D
<1>16. /\ IsFiniteSet(Places(g) \cup N)
       /\ Cardinality(Places(g) \cup N) =
            Cardinality(Places(g)) + Cardinality(N) - Cardinality(Places(g) \cap N)
  BY <1>15, FS_Union
<1>17. Cardinality(Places(g)) \in Nat /\ Cardinality(N) \in Nat /\ Cardinality({}) = 0
  BY <1>15, FS_CardinalityType, FS_EmptySet
<1>18. Cardinality(Places(g)) + Cardinality(N) - 0 = Cardinality(Places(g)) + Cardinality(N)
  BY <1>17
<1> QED
  BY <1>12, <1>13, <1>15, <1>16, <1>17, <1>18 DEF j, D

\* Every line of a report keeps the count.
LEMMA CountedStep ==
  ASSUME NEW q, LcovType(q), Counted(q), NEW l \in Lines, lineAccepts(q, l)
  PROVE  Counted(lcov(q, l))
<1> DEFINE r == q.current[1]
<1>0. /\ IsGroups(q.groups) /\ IsFiniteSet(Places(q.groups)) /\ q.count \in Nat
      /\ q.current # <<>> => q.current = <<r>> /\ IsRecord(r) /\ IsFiniteSet(DOMAIN r.lines)
  BY CoverageAssumption DEF LcovType, Counted
<1>1. CASE l.tag = "TN"
  <2>1. PICK z : z = lcov(q, l)
    OBVIOUS
  <2>2. z = [q EXCEPT !.test_name = l.text, !.pending_test = TRUE]
    BY <1>1, <2>1 DEF lcov
  <2>3. z.groups = q.groups /\ z.current = q.current /\ z.count = q.count
    BY <2>2 DEF LcovType
  <2> QED
    BY <2>1, <2>3 DEF Counted
<1>2. CASE l.tag = "SF"
  <2> DEFINE new == [path |-> l.text, lines |-> <<>>, counters |-> <<>>]
  <2>1. PICK z : z = lcov(q, l)
    OBVIOUS
  <2>2. z = [q EXCEPT !.records = @ + 1, !.current = <<new>>]
    BY <1>2, <2>1 DEF lcov
  <2>3. DOMAIN new.lines = {}
    OBVIOUS
  <2> HIDE DEF new
  <2>4. z.groups = q.groups /\ z.current = <<new>> /\ z.count = q.count
    BY <2>2 DEF LcovType
  <2>5. z.current # <<>> /\ z.current[1] = new
    BY <2>4
  <2>6. q.current = <<>>
    BY <1>2 DEF lineAccepts
  <2> QED
    BY <2>1, <2>3, <2>4, <2>5, <2>6, FS_EmptySet DEF Counted
<1>3. CASE l.tag = "end_of_record"
  <2>1. PICK z : z = lcov(q, l)
    OBVIOUS
  <2>2. z = [q EXCEPT !.groups = Joined(q.groups, r), !.current = <<>>,
               !.test_name = NoText, !.pending_test = FALSE]
    BY <1>3, <2>1 DEF lcov, EndOfRecord, NoText
  <2>3. q.current # <<>>
    BY <1>3 DEF lineAccepts
  <2>4. z.groups = Joined(q.groups, r) /\ z.current = <<>> /\ z.count = q.count
    BY <2>2 DEF LcovType
  <2>5. /\ IsFiniteSet(Places(z.groups))
        /\ Cardinality(Places(z.groups)) = Cardinality(Places(q.groups)) + Cardinality(DOMAIN r.lines)
    BY <1>0, <2>3, <2>4, JoinedPlaces
  <2>6. q.count = Cardinality(Places(q.groups)) + Cardinality(DOMAIN r.lines)
    BY <2>3 DEF Counted
  <2>7. z.count = Cardinality(Places(z.groups)) + 0
    <3>1. Cardinality(Places(z.groups)) \in Nat
      BY <2>5, FS_CardinalityType
    <3> QED
      BY <2>4, <2>5, <2>6, <3>1
  <2> QED
    BY <2>1, <2>4, <2>5, <2>7 DEF Counted
<1>4. CASE l.tag = "DA"
  <2> DEFINE obs == [record |-> q.records, test_name |-> q.test_name, hits |-> l.m,
                     checksum |-> l.text]
             new == [r EXCEPT !.lines = Added(r.lines, l.n, obs)]
  <2>1. PICK z : z = lcov(q, l)
    OBVIOUS
  <2>2. q.current # <<>> /\ q.current = <<r>> /\ IsRecord(r) /\ l.n \notin DOMAIN r.lines
    BY <1>0, <1>4 DEF lineAccepts
  <2>3. z = [q EXCEPT !.count = @ + 1, !.current = <<new>>]
    <3>1. z = [q EXCEPT !.count = @ + 1, !.current[1].lines = Added(@, l.n, obs)]
      BY <1>4, <2>1 DEF lcov
    <3>2. [q.current EXCEPT ![1].lines = Added(@, l.n, obs)] = <<new>>
      BY <2>2
    <3> HIDE DEF new, obs
    <3> QED
      BY <3>1, <3>2 DEF LcovType
  <2>4. DOMAIN new.lines = DOMAIN r.lines \cup {l.n}
    BY <2>2 DEF IsRecord, Added
  <2> HIDE DEF new
  <2>5. z.groups = q.groups /\ z.current = <<new>> /\ z.count = q.count + 1
    BY <2>3 DEF LcovType
  <2>6. z.current # <<>> /\ z.current[1] = new
    BY <2>5
  <2>7. PICK D : D = DOMAIN r.lines
    OBVIOUS
  <2>8. IsFiniteSet(D) /\ IsFiniteSet(D \cup {l.n}) /\ Cardinality(D \cup {l.n}) = Cardinality(D) + 1
    BY <1>0, <2>2, <2>7, FS_AddElement
  <2>9. q.count = Cardinality(Places(q.groups)) + Cardinality(D)
    BY <2>2, <2>7 DEF Counted
  <2>10. Cardinality(Places(q.groups)) \in Nat /\ Cardinality(D) \in Nat
    BY <1>0, <2>8, FS_CardinalityType
  <2>11. q.count + 1 = Cardinality(Places(q.groups)) + (Cardinality(D) + 1)
    BY <2>9, <2>10
  <2> QED
    BY <1>0, <2>1, <2>4, <2>5, <2>6, <2>7, <2>8, <2>11 DEF Counted
<1>5. CASE l.tag \in {"LF", "LH"}
  <2> DEFINE new == [r EXCEPT !.counters = Added(r.counters, l.tag, l.n)]
  <2>1. q.current # <<>> /\ q.current = <<r>> /\ IsRecord(r)
    BY <1>0, <1>5 DEF lineAccepts
  <2>2. PICK z : z = lcov(q, l)
    OBVIOUS
  <2>3. z = [q EXCEPT !.current = <<new>>]
    BY <1>5, <2>1, <2>2 DEF lcov, LcovType
  <2>4. new.lines = r.lines
    BY <2>1 DEF IsRecord
  <2> HIDE DEF new
  <2>5. z.groups = q.groups /\ z.current = <<new>> /\ z.count = q.count
    BY <2>3 DEF LcovType
  <2>6. z.current # <<>> /\ z.current[1] = new
    BY <2>5
  <2> QED
    BY <2>1, <2>2, <2>4, <2>5, <2>6 DEF Counted
<1>6. CASE l.tag \notin {"TN", "SF", "end_of_record", "DA", "LF", "LH"}
  BY <1>6 DEF lcov
<1> QED
  BY <1>1, <1>2, <1>3, <1>4, <1>5, <1>6

\* A fresh reader satisfies all of this.
LEMMA LcovFresh ==
  LcovType(NoReport) /\ Attributed(NoReport, <<>>, NoText) /\ Counted(NoReport)
<1>1. PICK z : z = NoReport
  OBVIOUS
<1>2. z = [current |-> <<>>, test_name |-> NoText, pending_test |-> FALSE, records |-> 0, count |-> 0,
           groups |-> <<>>]
  BY <1>1 DEF NoReport, NoText
<1>3. NoText \in Texts
  BY DEF Texts
<1>4. Places(z.groups) = {}
  BY <1>2 DEF Places
<1>5. LcovType(z)
  BY <1>2, <1>3, CoverageAssumption DEF LcovType, IsGroups
<1>6. Attributed(z, <<>>, NoText)
  BY <1>2, <1>3 DEF Attributed
<1>7. Counted(z)
  BY <1>2, <1>4, FS_EmptySet DEF Counted
<1> QED
  BY <1>1, <1>5, <1>6, <1>7

(***************************************************************************)
(* A run of the coverage or the JUnit review.                              *)
(***************************************************************************)

\* Where a run may be.
Phases == {"archives", "before", "after", "compared", "refused"}

\* The bounds of the run.
BoundsInv ==
  /\ tool \in {"coverage", "junit", "sqlite"} /\ phase \in Phases
  /\ edits \in 0 .. MaxEdits /\ elements \in 0 .. MaxElements

\* The LCOV reader, with the document it has read so far.
CoverageInv ==
  tool = "coverage" =>
    /\ LcovType(p) /\ Counted(p)
    /\ phase \in {"archives", "before", "after"} => Attributed(p, heads, title)

\* The JUnit handlers, with the elements open in the document.
JunitStateInv == tool # "coverage" => JunitInv(p, opened) /\ rooted \in BOOLEAN

\* What the first report read as.
BeforeInv ==
  phase \in {"after", "compared"} =>
    IF tool = "coverage" THEN IsGroups(before) ELSE before \in Seq(Cases) /\ CasesDecided(before)

\* What is written compares the two readings.
OutcomeInv ==
  phase = "compared" =>
    \E changes_only \in BOOLEAN :
      outcome = IF tool = "coverage" THEN compare(before, p.groups, changes_only)
                ELSE compare_cases(before, p.cases, changes_only)

\* The invariant of a run.
ReportInv == BoundsInv /\ CoverageInv /\ JunitStateInv /\ BeforeInv /\ OutcomeInv

\* An empty stack means that no element is open.
LEMMA EmptyStack ==
  ASSUME NEW q, NEW o, JunitInv(q, o), q.stack = <<>>
  PROVE  o = <<>>
<1>1. o \in Seq(Opened) /\ q.stack = [i \in 1 .. Len(o) |-> o[i].tag]
  BY DEF JunitInv, JunitType
<1> SUFFICES ASSUME o # <<>>
             PROVE  FALSE
  OBVIOUS
<1>2. Len(o) \in Nat /\ 1 \in 1 .. Len(o)
  BY <1>1, EmptySeq
<1>3. 1 \in DOMAIN q.stack
  BY <1>1, <1>2
<1>4. DOMAIN q.stack = 1 .. 0
  OBVIOUS
<1> QED
  BY <1>3, <1>4

\* A run that is refused satisfies it, whatever it was refused for.
LEMMA RefuseInv ==
  ASSUME ReportInv, Refuse
  PROVE  ReportInv'
<1>1. BoundsInv'
  <2>1. /\ tool' = tool /\ phase' = "refused" /\ edits' = edits /\ elements' = 0
        /\ tool \in {"coverage", "junit", "sqlite"} /\ edits \in 0 .. MaxEdits
    BY DEF Refuse, ReportInv, BoundsInv
  <2>2. 0 \in 0 .. MaxElements
    BY ReportAssumption
  <2>3. phase' \in Phases
    BY <2>1, Zenon DEF Phases
  <2> QED
    BY <2>1, <2>2, <2>3, Zenon DEF BoundsInv
<1> USE DEF Refuse, NoneRead
<1>2. CoverageInv'
  BY LcovFresh DEF CoverageInv, Fresh
<1>3. JunitStateInv'
  BY JunitFresh DEF JunitStateInv, Fresh
<1> QED
  BY <1>1, <1>2, <1>3 DEF ReportInv, BeforeInv, OutcomeInv

\* A run that begins satisfies it, and so does a session of the SQLite review.
LEMMA ReportInvInit ==
  ASSUME NEW t \in {"coverage", "junit", "sqlite"}, ReportInit(t)
  PROVE  ReportInv
<1>1. BoundsInv
  <2>1. tool = t /\ phase = "archives" /\ edits = 0 /\ elements = 0
    BY Zenon DEF ReportInit
  <2>2. 0 \in 0 .. MaxElements /\ 0 \in 0 .. MaxEdits
    BY ReportAssumption
  <2>3. phase \in Phases
    BY <2>1, Zenon DEF Phases
  <2> QED
    BY <2>1, <2>2, <2>3, Zenon DEF BoundsInv
<1> USE DEF ReportInit
<1>2. CoverageInv
  BY LcovFresh DEF CoverageInv, NoText
<1>3. JunitStateInv
  BY JunitFresh DEF JunitStateInv
<1> QED
  BY <1>1, <1>2, <1>3 DEF ReportInv, BeforeInv, OutcomeInv

\* Every step of a run keeps it.
LEMMA ReportInvStep ==
  ASSUME ReportInv, ReportNext
  PROVE  ReportInv'
<1>1. ASSUME NEW s \in Side2, Tamper(s)
      PROVE  ReportInv'
  <2> USE <1>1 DEF Tamper, documentVars
  <2>1. BoundsInv'
    BY ReportAssumption DEF ReportInv, BoundsInv
  <2>2. CoverageInv' /\ JunitStateInv'
    BY DEF ReportInv, CoverageInv, JunitStateInv
  <2> QED
    BY <2>1, <2>2 DEF ReportInv, BeforeInv, OutcomeInv
<1>2. ASSUME ReadBundles
      PROVE  ReportInv'
  <2> USE <1>2 DEF ReadBundles, documentVars
  <2>1. BoundsInv'
    BY ReportAssumption DEF ReportInv, BoundsInv, Phases
  <2>2. CoverageInv' /\ JunitStateInv'
    BY DEF ReportInv, CoverageInv, JunitStateInv
  <2>3. phase' \in {"before", "refused"}
    OBVIOUS
  <2> QED
    BY <2>1, <2>2, <2>3 DEF ReportInv, BeforeInv, OutcomeInv
<1>3. ASSUME NEW l \in Lines, ReadLine(l)
      PROVE  ReportInv'
  <2>1. CASE Refuse
    BY <2>1, RefuseInv
  <2>2. CASE ~Refuse
    <3> USE <1>3, <2>2
    <3>1. /\ tool = "coverage" /\ phase \in {"before", "after"} /\ lineAccepts(p, l) /\ p' = lcov(p, l)
          /\ Reads /\ UNCHANGED <<opened, rooted, elements>>
          /\ title' = CASE l.tag = "TN" -> l.text [] l.tag = "SF" -> NoText [] OTHER -> title
          /\ heads' = IF l.tag = "SF" THEN Append(heads, title) ELSE heads
      BY DEF ReadLine, Reading, Side2, NoText
    <3>2. LcovType(p) /\ Counted(p) /\ Attributed(p, heads, title)
      BY <3>1 DEF ReportInv, CoverageInv
    <3>3. LcovType(p') /\ Counted(p') /\ Attributed(p', heads', title')
      BY <3>1, <3>2, LcovTypeStep, CountedStep, AttributedStep
    <3>4. UNCHANGED <<tool, phase, archives, before, outcome, edits, elements>>
      BY <3>1 DEF Reads
    <3>5. BoundsInv' /\ CoverageInv' /\ JunitStateInv'
      BY <3>1, <3>3, <3>4 DEF ReportInv, BoundsInv, CoverageInv, JunitStateInv
    <3> QED
      BY <3>1, <3>4, <3>5 DEF ReportInv, BeforeInv, OutcomeInv
  <2> QED
    BY <2>1, <2>2
<1>4. ASSUME NEW e \in Elements, StartElement(e.tag, e.attrs)
      PROVE  ReportInv'
  <2>1. CASE Refuse
    BY <2>1, RefuseInv
  <2>2. CASE ~Refuse
    <3> USE <1>4, <2>2
    <3>1. /\ tool = "junit" /\ phase \in {"before", "after"} /\ elements < MaxElements
          /\ startAccepts(p, e.tag, e.attrs) /\ p' = start(p, e.tag, e.attrs) /\ Reads
          /\ opened' = Append(opened, [tag |-> e.tag, name |-> e.attrs.name])
          /\ elements' = elements + 1 /\ rooted' = rooted
      BY DEF StartElement, Reading, Side2
    <3>2. JunitInv(p, opened) /\ rooted \in BOOLEAN
      BY <3>1 DEF ReportInv, JunitStateInv
    <3>3. JunitInv(p', opened')
      BY <3>1, <3>2, JunitStart
    <3>4. UNCHANGED <<tool, phase, archives, before, outcome, edits>>
      BY <3>1 DEF Reads
    <3>5. CoverageInv' /\ JunitStateInv'
      BY <3>1, <3>2, <3>3, <3>4 DEF CoverageInv, JunitStateInv
    <3>6. BoundsInv'
      BY <3>1, <3>4, ReportAssumption DEF ReportInv, BoundsInv
    <3> QED
      BY <3>1, <3>4, <3>5, <3>6 DEF ReportInv, BeforeInv, OutcomeInv
  <2> QED
    BY <2>1, <2>2
<1>5. ASSUME EndElement
      PROVE  ReportInv'
  <2>1. CASE Refuse
    BY <2>1, RefuseInv
  <2>2. CASE ~Refuse
    <3> USE <1>5, <2>2
    <3>1. PICK tag : tag = opened[Len(opened)].tag
      OBVIOUS
    <3>2. /\ tool = "junit" /\ phase \in {"before", "after"} /\ opened # <<>>
          /\ endAccepts(p, tag) /\ p' = end(p, tag) /\ Reads
          /\ opened' = Front(opened) /\ rooted' \in BOOLEAN /\ elements' = elements
      <4>1. rooted' = (opened' = <<>>)
        BY DEF EndElement
      <4>2. rooted' \in BOOLEAN
        BY <4>1, Zenon
      <4> QED
        BY <3>1, <4>2 DEF EndElement, Reading, Side2
    <3>3. JunitInv(p, opened)
      BY <3>2 DEF ReportInv, JunitStateInv
    <3>4. JunitInv(p', opened')
      BY <3>1, <3>2, <3>3, JunitEnd
    <3>5. UNCHANGED <<tool, phase, archives, before, outcome, edits, elements>>
      BY <3>2 DEF Reads
    <3>6. BoundsInv' /\ CoverageInv' /\ JunitStateInv'
      BY <3>2, <3>4, <3>5 DEF ReportInv, BoundsInv, CoverageInv, JunitStateInv
    <3> QED
      BY <3>2, <3>5, <3>6 DEF ReportInv, BeforeInv, OutcomeInv
  <2> QED
    BY <2>1, <2>2
<1>6. ASSUME Text
      PROVE  ReportInv'
  <2> USE <1>6 DEF Text
  <2>1. tool = "junit" /\ phase \in {"before", "after"} /\ JunitInv(p, opened) /\ rooted \in BOOLEAN
    BY DEF Reading, Side2, ReportInv, JunitStateInv
  <2>2. JunitInv(p', opened')
    BY <2>1, JunitText
  <2>3. UNCHANGED <<tool, phase, archives, before, outcome, edits>>
    BY DEF Reads
  <2>4. CoverageInv' /\ JunitStateInv'
    BY <2>1, <2>2, <2>3 DEF CoverageInv, JunitStateInv
  <2>5. BoundsInv'
    BY <2>3, ReportAssumption DEF ReportInv, BoundsInv
  <2> QED
    BY <2>1, <2>3, <2>4, <2>5 DEF ReportInv, BeforeInv, OutcomeInv
<1>7. ASSUME Declaration
      PROVE  ReportInv'
  BY <1>7, RefuseInv DEF Declaration
<1>8. ASSUME EndReport
      PROVE  ReportInv'
  <2>0. CASE Refuse
    BY <2>0, RefuseInv
  <2> USE <1>8 DEF NoneRead
  <2>1. CASE /\ Ended /\ phase = "before" /\ phase' = "after"
             /\ before' = Result /\ p' = Fresh /\ NoneRead
             /\ UNCHANGED <<tool, archives, outcome, edits, elements>>
    <3> USE <2>1
    <3>1. BoundsInv'
      BY DEF ReportInv, BoundsInv, Phases
    <3>2. CoverageInv'
      BY LcovFresh DEF CoverageInv, Fresh, NoText
    <3>3. JunitStateInv'
      BY JunitFresh DEF JunitStateInv, Fresh
    <3>4. BeforeInv'
      <4>1. CASE tool = "coverage"
        BY <4>1 DEF ReportInv, CoverageInv, LcovType, BeforeInv, Result
      <4>2. CASE tool # "coverage"
        BY <4>2 DEF ReportInv, JunitStateInv, JunitInv, JunitType, BeforeInv, Result
      <4> QED
        BY <4>1, <4>2
    <3> QED
      BY <3>1, <3>2, <3>3, <3>4 DEF ReportInv, OutcomeInv
  <2>2. CASE /\ Ended /\ phase = "after" /\ phase' = "compared" /\ NoneRead
             /\ \E changes_only \in BOOLEAN :
                  outcome' = IF tool = "coverage" THEN compare(before, Result, changes_only)
                             ELSE compare_cases(before, Result, changes_only)
             /\ UNCHANGED <<tool, archives, p, before, edits, elements>>
    <3> USE <2>2
    <3>1. BoundsInv'
      BY DEF ReportInv, BoundsInv, Phases
    <3>2. CoverageInv'
      BY DEF ReportInv, CoverageInv
    <3>3. JunitStateInv'
      <4> SUFFICES ASSUME tool # "coverage"
                   PROVE  JunitInv(p, <<>>) /\ rooted' \in BOOLEAN
        BY DEF JunitStateInv
      <4>1. JunitInv(p, opened) /\ p.stack = <<>>
        BY DEF ReportInv, JunitStateInv, Ended
      <4>3. opened = <<>>
        BY <4>1, EmptyStack
      <4> QED
        BY <4>1, <4>3
    <3>4. BeforeInv'
      BY DEF ReportInv, BeforeInv
    <3>5. OutcomeInv'
      BY DEF OutcomeInv, Result
    <3> QED
      BY <3>1, <3>2, <3>3, <3>4, <3>5 DEF ReportInv
  <2> QED
    BY <2>0, <2>1, <2>2 DEF EndReport
<1> QED
  BY <1>1, <1>2, <1>3, <1>4, <1>5, <1>6, <1>7, <1>8 DEF ReportNext

\* Every step of the tools keeps it: the SQLite review leaves reports alone.
LEMMA ReportInvNext ==
  ASSUME ReportInv, [Next]_vars
  PROVE  ReportInv'
<1>1. CASE ReportNext
  BY <1>1, ReportInvStep
<1>2. CASE UNCHANGED reportVars
  <2> USE <1>2 DEF reportVars, documentVars
  <2>1. BoundsInv' /\ CoverageInv' /\ JunitStateInv'
    BY DEF ReportInv, BoundsInv, CoverageInv, JunitStateInv
  <2> QED
    BY <2>1 DEF ReportInv, BeforeInv, OutcomeInv
<1> QED
  BY <1>1, <1>2 DEF Next, vars

\* The invariant holds in every state of every run of the tools.
THEOREM ReportInvariant == Spec => []ReportInv
<1>1. Init => ReportInv
  BY ReportInvInit DEF Init
<1>2. ReportInv /\ [Next]_vars => ReportInv'
  BY ReportInvNext
<1> QED
  BY <1>1, <1>2, PTL DEF Spec

\* Whether the root element is closed is known at every moment.
LEMMA RootedIs ==
  ASSUME rooted \in BOOLEAN, [Next]_vars
  PROVE  rooted' \in BOOLEAN
<1>1. ASSUME NEW l \in Lines, ReadLine(l)
      PROVE  rooted' \in BOOLEAN
  BY <1>1, Zenon DEF ReadLine, Refuse, NoneRead
<1>2. ASSUME NEW e \in Elements, StartElement(e.tag, e.attrs)
      PROVE  rooted' \in BOOLEAN
  BY <1>2, Zenon DEF StartElement, Refuse, NoneRead
<1>3. ASSUME EndElement
      PROVE  rooted' \in BOOLEAN
  <2>1. rooted' = FALSE \/ rooted' = (opened' = <<>>)
    BY <1>3, Zenon DEF EndElement, Refuse, NoneRead
  <2> QED
    BY <2>1, Zenon
<1>4. ASSUME NEW s \in Side2, Tamper(s)
      PROVE  rooted' \in BOOLEAN
  BY <1>4, Zenon DEF Tamper, documentVars
<1>5. CASE ReadBundles \/ Text \/ Declaration \/ EndReport
  BY <1>5, Zenon DEF ReadBundles, Text, Declaration, EndReport, Refuse, NoneRead, documentVars
<1>6. CASE UNCHANGED reportVars
  BY <1>6, Zenon DEF reportVars, documentVars
<1>7. CASE ReportNext
  BY <1>1, <1>2, <1>3, <1>4, <1>5, <1>7, Zenon DEF ReportNext
<1> QED
  BY <1>6, <1>7 DEF Next, vars

\* The readers stay within their bounds whatever a report goes on to contain.
THEOREM ReadersStayBounded == Spec => []ReportTypeOK
<1>1. ReportInv /\ rooted \in BOOLEAN => ReportTypeOK
  <2> SUFFICES ASSUME ReportInv, rooted \in BOOLEAN
               PROVE  ReportTypeOK
    OBVIOUS
  <2>1. phase \in Phases /\ edits \in 0 .. MaxEdits /\ elements \in 0 .. MaxElements
    BY DEF ReportInv, BoundsInv
  <2>2. ASSUME tool = "coverage"
        PROVE  /\ p.records \in 0 .. MaxRecords /\ p.count \in 0 .. MaxObservations
               /\ p.pending_test \in BOOLEAN /\ Len(p.current) <= 1
    <3>1. LcovType(p)
      BY <2>2 DEF ReportInv, CoverageInv
    <3>2. Len(p.current) <= 1
      <4>1. p.current = <<>> \/ p.current = <<p.current[1]>>
        BY <3>1 DEF LcovType
      <4>2. \A c : Len(<<c>>) = 1 /\ Len(<<>>) = 0
        OBVIOUS
      <4>3. Len(p.current) \in {0, 1}
        BY <4>1, <4>2, Zenon
      <4>4. \A n \in {0, 1} : n <= 1
        OBVIOUS
      <4> QED
        BY <4>3, <4>4, Zenon
    <3> QED
      BY <3>1, <3>2 DEF LcovType
  <2>3. ASSUME tool = "junit"
        PROVE  /\ Len(p.stack) <= MaxDepth /\ Len(p.cases) <= MaxCases
               /\ Len(p.current) <= 1 /\ p.stack = [i \in DOMAIN opened |-> opened[i].tag]
    <3>1. JunitType(p, opened)
      BY <2>3 DEF ReportInv, JunitStateInv, JunitInv
    <3>2. /\ opened \in Seq(Opened) /\ p.stack = [i \in 1 .. Len(opened) |-> opened[i].tag]
          /\ Len(opened) <= MaxDepth /\ Len(p.cases) <= MaxCases
          /\ (p.current = <<>> \/ p.current = <<p.current[1]>>)
      BY <3>1 DEF JunitType
    <3>3. Len(opened) \in Nat /\ DOMAIN opened = 1 .. Len(opened)
      BY <3>2
    <3>4. Len(p.stack) = Len(opened)
      BY <3>2, <3>3
    <3>5. Len(p.current) <= 1
      <4>2. \A c : Len(<<c>>) = 1 /\ Len(<<>>) = 0
        OBVIOUS
      <4>3. Len(p.current) \in {0, 1}
        BY <3>2, <4>2, Zenon
      <4>4. \A n \in {0, 1} : n <= 1
        OBVIOUS
      <4> QED
        BY <4>3, <4>4, Zenon
    <3> QED
      BY <3>2, <3>3, <3>4, <3>5, Zenon
  <2> QED
    BY <2>1, <2>2, <2>3, Zenon DEF ReportTypeOK, Phases
<1>2. Init => rooted \in BOOLEAN
  BY Zenon DEF Init, ReportInit
<1>3. rooted \in BOOLEAN /\ [Next]_vars => (rooted \in BOOLEAN)'
  BY RootedIs
<1> QED
  BY <1>1, <1>2, <1>3, ReportInvariant, PTL DEF Spec

\* Every accepted DA line is in exactly one place, and a coordinate's
\* observations come from different records in the order of the report.
LEMMA InvAccounts == ReportInv => ObservationsAccounted
<1> SUFFICES ASSUME ReportInv, tool = "coverage", Reading
             PROVE  /\ p.count = Cardinality(Places(p.groups))
                                 + (IF p.current = <<>> THEN 0
                                    ELSE Cardinality(DOMAIN p.current[1].lines))
                    /\ \A k \in DOMAIN p.groups : \A i, j \in DOMAIN p.groups[k] :
                         i < j => p.groups[k][i].record < p.groups[k][j].record
  BY DEF ObservationsAccounted
<1>1. Counted(p) /\ Attributed(p, heads, title) /\ LcovType(p)
  BY DEF ReportInv, CoverageInv, Reading, Side2
<1>2. ASSUME NEW k \in DOMAIN p.groups, NEW i \in DOMAIN p.groups[k], NEW j \in DOMAIN p.groups[k],
             i < j
      PROVE  p.groups[k][i].record < p.groups[k][j].record
  <2>1. p.groups[k] \in Seq(Observations)
    BY <1>1 DEF LcovType, IsGroups
  <2>2. DOMAIN p.groups[k] = 1 .. Len(p.groups[k])
    BY <2>1
  <2>3. PICK last : GroupAttributed(p.groups[k], heads, last)
    BY <1>1 DEF Attributed
  <2> QED
    BY <1>2, <2>2, <2>3 DEF GroupAttributed
<1> QED
  BY <1>1, <1>2, Zenon DEF Counted

\* An observation carries the test name that was given to its own record.
LEMMA InvNamesRecords == ReportInv => TestNameIsOwnRecord
<1> SUFFICES ASSUME ReportInv, tool = "coverage", Reading
             PROVE  /\ \A k \in DOMAIN p.groups : \A i \in DOMAIN p.groups[k] :
                         p.groups[k][i].test_name = heads[p.groups[k][i].record]
                    /\ p.current # <<>> => \A n \in DOMAIN p.current[1].lines :
                         p.current[1].lines[n].test_name = heads[Len(heads)]
  BY DEF TestNameIsOwnRecord
<1>1. Attributed(p, heads, title) /\ LcovType(p)
  BY DEF ReportInv, CoverageInv, Reading, Side2
<1>2. ASSUME NEW k \in DOMAIN p.groups, NEW i \in DOMAIN p.groups[k]
      PROVE  p.groups[k][i].test_name = heads[p.groups[k][i].record]
  <2>1. p.groups[k] \in Seq(Observations)
    BY <1>1 DEF LcovType, IsGroups
  <2>2. DOMAIN p.groups[k] = 1 .. Len(p.groups[k])
    BY <2>1
  <2>3. PICK last : GroupAttributed(p.groups[k], heads, last)
    BY <1>1 DEF Attributed
  <2> QED
    BY <1>2, <2>2, <2>3 DEF GroupAttributed
<1>3. ASSUME p.current # <<>>, NEW n \in DOMAIN p.current[1].lines
      PROVE  p.current[1].lines[n].test_name = heads[Len(heads)]
  BY <1>1, <1>3, Zenon DEF Attributed
<1> QED
  BY <1>2, <1>3, Zenon

\* The open case carries the names of the suites around it, and no others.
LEMMA InvNests == ReportInv => SuitePathIsNesting
<1> SUFFICES ASSUME ReportInv, tool = "junit", p.current # <<>>,
                    NEW around, around = Ascending({i \in DOMAIN opened : opened[i].tag = "testsuite"})
             PROVE  p.current[1].suite_path = [n \in DOMAIN around |-> SuiteName(opened[around[n]])]
  BY Zenon DEF SuitePathIsNesting
<1>1. JunitInv(p, opened)
  BY DEF ReportInv, JunitStateInv
<1> QED
  BY <1>1, SuitePathIs

\* Text is collected into the diagnostic of the innermost outcome element.
LEMMA InvHoldsText == ReportInv => TextBelongsToOpenElement
<1> DEFINE inner == IF opened = <<>> THEN "none" ELSE opened[Len(opened)].tag
<1> SUFFICES ASSUME ReportInv, tool = "junit"
             PROVE  /\ (p.diagnostic # 0) = (inner \in Outcomes)
                    /\ p.diagnostic # 0 => p.current[1].diagnostics[p.diagnostic].kind = inner
  BY DEF TextBelongsToOpenElement
<1>1. JunitInv(p, opened)
  BY DEF ReportInv, JunitStateInv
<1>2. DiagnosticHeld(p, opened) /\ opened \in Seq(Opened)
  BY <1>1 DEF JunitInv, JunitType
<1>3. opened = <<>> <=> Len(opened) = 0
  BY <1>2, EmptySeq
<1>4. inner = Inner(opened)
  BY <1>3, Zenon DEF Inner
<1> HIDE DEF inner
<1>5. /\ p.diagnostic # 0 <=> inner \in Outcomes
      /\ p.diagnostic # 0 => p.current[1].diagnostics[p.diagnostic].kind = inner
  BY <1>2, <1>4, Zenon DEF DiagnosticHeld
<1> QED
  BY <1>5

\* The readers attribute what they read to the record, suite, case and
\* diagnostic it was read in, for reports of any length and any nesting.
THEOREM WhatIsReadIsAttributed == Spec => []ReadersAttribute
<1>1. ReportInv => ReadersAttribute
  BY InvAccounts, InvNamesRecords, InvNests, InvHoldsText, Zenon DEF ReadersAttribute
<1> QED
  BY <1>1, ReportInvariant, PTL

\* A coordinate is said to have gained, lost or kept coverage only when the
\* reports name at most one source text for it.
LEMMA InvComparesSources == ReportInv => NeverComparedAcrossSources
<1> SUFFICES ASSUME ReportInv, tool = "coverage", phase = "compared",
                    NEW k \in DOMAIN outcome.rows, NEW row, row = outcome.rows[k],
                    row.status \notin {"checksum-conflict", "source-changed"}
             PROVE  Cardinality((IF row.before = <<>> THEN {} ELSE row.before[1].checksums)
                                \cup (IF row.after = <<>> THEN {} ELSE row.after[1].checksums)) <= 1
  BY Zenon DEF NeverComparedAcrossSources
<1>1. PICK changes_only \in BOOLEAN : outcome = compare(before, p.groups, changes_only)
  BY DEF ReportInv, OutcomeInv
<1>2. row = Row(before, p.groups, k)
  BY <1>1, CompareRows
<1>3. IsGroups(before) /\ IsGroups(p.groups)
  BY DEF ReportInv, BeforeInv, CoverageInv, LcovType
<1>4. PICK old, new : old = aggregate(before, k) /\ new = aggregate(p.groups, k)
  OBVIOUS
<1>5. row.status = Status(old, new) /\ row.before = old /\ row.after = new
  BY <1>2, <1>4 DEF Row
<1>6. old = <<>> \/ IsFiniteSet(old[1].checksums)
  BY <1>3, <1>4, ChecksumsFinite, Zenon
<1>7. new = <<>> \/ IsFiniteSet(new[1].checksums)
  BY <1>3, <1>4, ChecksumsFinite, Zenon
<1>8. Status(old, new) \notin {"checksum-conflict", "source-changed"}
  BY <1>5, Zenon
<1>9. Cardinality((IF old = <<>> THEN {} ELSE old[1].checksums)
                  \cup (IF new = <<>> THEN {} ELSE new[1].checksums)) <= 1
  BY <1>6, <1>7, <1>8, OneSource, Zenon
<1> QED
  BY <1>5, <1>9, Zenon

\* Comparing the two reports the other way round says the same, mirrored.
LEMMA InvMirrors == ReportInv => ComparisonMirrors
<1> SUFFICES ASSUME ReportInv, phase = "compared", NEW back,
                    back = IF tool = "coverage" THEN compare(Result, before, FALSE).rows
                           ELSE compare_cases(Result, before, FALSE).rows,
                    NEW k \in DOMAIN outcome.rows
             PROVE  k \in DOMAIN back /\ back[k] = Turned(outcome.rows[k])
  BY Zenon DEF ComparisonMirrors, Turned
<1>1. CASE tool = "coverage"
  <2>1. PICK changes_only \in BOOLEAN : outcome = compare(before, p.groups, changes_only)
    BY <1>1 DEF ReportInv, OutcomeInv
  <2>2. back = compare(p.groups, before, FALSE).rows
    BY <1>1 DEF Result
  <2>3. k \in DOMAIN compare(before, p.groups, changes_only).rows
    BY <2>1, Zenon
  <2>4. /\ k \in DOMAIN compare(p.groups, before, FALSE).rows
        /\ compare(p.groups, before, FALSE).rows[k]
             = Turned(compare(before, p.groups, changes_only).rows[k])
    BY <2>3, CompareMirrors, Zenon
  <2> QED
    BY <2>1, <2>2, <2>4, Zenon
<1>2. CASE tool # "coverage"
  <2>1. PICK changes_only \in BOOLEAN : outcome = compare_cases(before, p.cases, changes_only)
    BY <1>2 DEF ReportInv, OutcomeInv
  <2>2. back = compare_cases(p.cases, before, FALSE).rows
    BY <1>2 DEF Result
  <2>3. before \in Seq(Cases) /\ p.cases \in Seq(Cases)
    BY <1>2 DEF ReportInv, BeforeInv, JunitStateInv, JunitInv, JunitType
  <2>4. k \in DOMAIN compare_cases(before, p.cases, changes_only).rows
    BY <2>1, Zenon
  <2>5. /\ k \in DOMAIN compare_cases(p.cases, before, FALSE).rows
        /\ compare_cases(p.cases, before, FALSE).rows[k]
             = Turned(compare_cases(before, p.cases, changes_only).rows[k])
    BY <2>3, <2>4, CompareCasesMirrors, Zenon
  <2> QED
    BY <2>1, <2>2, <2>5, Zenon
<1> QED
  BY <1>1, <1>2

\* Comparisons are fair: for any two readable reports, only like is compared
\* with like, and neither side is favoured.
THEOREM ComparisonsAreFair == Spec => []ComparisonFair
<1>1. ReportInv => ComparisonFair
  BY InvComparesSources, InvMirrors, Zenon DEF ComparisonFair
<1> QED
  BY <1>1, ReportInvariant, PTL

\* The two readings that a comparison of JUnit reports is made of.
LEMMA InvReadings ==
  ASSUME ReportInv, tool = "junit", phase = "compared"
  PROVE  /\ before \in Seq(Cases) /\ CasesDecided(before)
         /\ p.cases \in Seq(Cases) /\ CasesDecided(p.cases)
         /\ \E changes_only \in BOOLEAN : outcome = compare_cases(before, p.cases, changes_only)
<1>1. before \in Seq(Cases) /\ CasesDecided(before)
  BY DEF ReportInv, BeforeInv
<1>2. p.cases \in Seq(Cases) /\ CasesDecided(p.cases)
  BY DEF ReportInv, JunitStateInv, JunitInv, JunitType
<1> QED
  BY <1>1, <1>2 DEF ReportInv, OutcomeInv

\* A row that does not say the outcome changed has failures on both sides or
\* on neither.
LEMMA InvShowsFailures == ReportInv => NoFailureHidden
<1> SUFFICES ASSUME ReportInv, tool = "junit", phase = "compared",
                    NEW id \in DOMAIN outcome.rows, NEW row, row = outcome.rows[id],
                    row.status \in {"unchanged", "changed-details"}
             PROVE  (Kinds(row.before[1]) \cap {"failure", "error"} # {})
                    = (Kinds(row.after[1]) \cap {"failure", "error"} # {})
  BY Zenon DEF NoFailureHidden
<1>1. PICK changes_only \in BOOLEAN : outcome = compare_cases(before, p.cases, changes_only)
  BY InvReadings
<1>2. /\ before \in Seq(Cases) /\ CasesDecided(before)
      /\ p.cases \in Seq(Cases) /\ CasesDecided(p.cases)
  BY InvReadings
<1>3. /\ \E i \in DOMAIN before : row.before[1] = before[i]
      /\ \E i \in DOMAIN p.cases : row.after[1] = p.cases[i]
      /\ row.status # "changed-outcome" => row.before[1].outcome = row.after[1].outcome
  <2>1. row.status \in {"unchanged", "changed-details", "changed-outcome"}
    BY Zenon
  <2>2. /\ id \in DOMAIN compare_cases(before, p.cases, changes_only).rows
        /\ row = compare_cases(before, p.cases, changes_only).rows[id]
    BY <1>1, Zenon
  <2>3. /\ Len(row.before) = 1 /\ Len(row.after) = 1
        /\ \E i \in DOMAIN before : row.before[1] = before[i]
        /\ \E i \in DOMAIN p.cases : row.after[1] = p.cases[i]
        /\ row.status # "changed-outcome" => row.before[1].outcome = row.after[1].outcome
    BY <1>2, <2>1, <2>2, PairedRow
  <2> QED
    BY <2>3, Zenon
<1>4. row.status # "changed-outcome"
  OBVIOUS
<1>5. PICK i \in DOMAIN before : row.before[1] = before[i]
  BY <1>3
<1>6. PICK j \in DOMAIN p.cases : row.after[1] = p.cases[j]
  BY <1>3
<1>7. before[i] \in Cases /\ Decided(before[i]) /\ p.cases[j] \in Cases /\ Decided(p.cases[j])
  BY <1>2 DEF CasesDecided
<1>8. Kinds(before[i]) \cap {"failure", "error"} # {} <=> before[i].outcome \in {"error", "failed"}
  BY <1>7, FailsIs, Zenon
<1>9. Kinds(p.cases[j]) \cap {"failure", "error"} # {} <=> p.cases[j].outcome \in {"error", "failed"}
  BY <1>7, FailsIs, Zenon
<1> QED
  BY <1>3, <1>4, <1>5, <1>6, <1>8, <1>9, Zenon

\* Every case of either report is in exactly one row under its own identity.
LEMMA InvReportsCases == ReportInv => EveryCaseReported
<1> DEFINE rows == compare_cases(before, p.cases, FALSE).rows
<1> SUFFICES ASSUME ReportInv, tool = "junit", phase = "compared"
             PROVE  /\ Once([id \in DOMAIN rows |-> rows[id].before], before)
                    /\ Once([id \in DOMAIN rows |-> rows[id].after], p.cases)
                    /\ \A id \in DOMAIN outcome.rows :
                         outcome.rows[id].status \in {"unchanged", "changed-details", "changed-outcome"} =>
                           Len(outcome.rows[id].before) = 1 /\ Len(outcome.rows[id].after) = 1
  BY DEF EveryCaseReported, Once
<1>1. /\ before \in Seq(Cases) /\ CasesDecided(before)
      /\ p.cases \in Seq(Cases) /\ CasesDecided(p.cases)
  BY InvReadings
<1>2. /\ DOMAIN rows = DOMAIN grouped(before) \cup DOMAIN grouped(p.cases)
      /\ \A id \in DOMAIN rows : rows[id] = CaseRow(before, p.cases, id)
  BY CompareCaseRows
<1> HIDE DEF rows
<1>3. \A id \in DOMAIN rows : /\ rows[id].before = Side(grouped(before), id)
                              /\ rows[id].after = Side(grouped(p.cases), id)
  <2> TAKE id \in DOMAIN rows
  <2>1. rows[id] = CaseRow(before, p.cases, id)
    BY <1>2
  <2> QED
    BY <2>1 DEF CaseRow
<1>4. Once([id \in DOMAIN rows |-> rows[id].before], before)
  <2>1. PICK lists : lists = [id \in DOMAIN rows |-> rows[id].before]
    OBVIOUS
  <2>2. /\ DOMAIN grouped(before) \subseteq DOMAIN lists
        /\ \A id \in DOMAIN lists : lists[id] = Side(grouped(before), id)
    BY <1>2, <1>3, <2>1
  <2> QED
    BY <1>1, <2>1, <2>2, ListedOnce, Zenon
<1>5. Once([id \in DOMAIN rows |-> rows[id].after], p.cases)
  <2>1. PICK lists : lists = [id \in DOMAIN rows |-> rows[id].after]
    OBVIOUS
  <2>2. /\ DOMAIN grouped(p.cases) \subseteq DOMAIN lists
        /\ \A id \in DOMAIN lists : lists[id] = Side(grouped(p.cases), id)
    BY <1>2, <1>3, <2>1
  <2> QED
    BY <1>1, <2>1, <2>2, ListedOnce, Zenon
<1>6. ASSUME NEW id \in DOMAIN outcome.rows,
             outcome.rows[id].status \in {"unchanged", "changed-details", "changed-outcome"}
      PROVE  Len(outcome.rows[id].before) = 1 /\ Len(outcome.rows[id].after) = 1
  <2>1. PICK changes_only \in BOOLEAN : outcome = compare_cases(before, p.cases, changes_only)
    BY InvReadings
  <2>2. PICK row : row = outcome.rows[id]
    OBVIOUS
  <2>3. /\ id \in DOMAIN compare_cases(before, p.cases, changes_only).rows
        /\ row = compare_cases(before, p.cases, changes_only).rows[id]
        /\ row.status \in {"unchanged", "changed-details", "changed-outcome"}
    BY <1>6, <2>1, <2>2, Zenon
  <2>4. Len(row.before) = 1 /\ Len(row.after) = 1
    BY <1>1, <2>3, PairedRow
  <2> QED
    BY <2>2, <2>4, Zenon
<1> QED
  BY <1>4, <1>5, <1>6, Zenon

\* A JUnit comparison hides neither a case nor a failure, however often an
\* identity occurs in either report.
THEOREM NothingIsHidden == Spec => []NoCaseHidden
<1>1. ReportInv => NoCaseHidden
  BY InvShowsFailures, InvReportsCases, Zenon DEF NoCaseHidden
<1> QED
  BY <1>1, ReportInvariant, PTL

(***************************************************************************)
(* The check of the review ZIP.  Recursion is unrolled by taking a least   *)
(* round at which a claim would fail: RoundsExist and SumsExist say that   *)
(* the loop and the sum are defined, RoundsPass what the loop has come to  *)
(* after each round.                                                       *)
(***************************************************************************)
\* The state of the loop over the inventory before its first round.
Begun == [ok |-> TRUE, expected |-> {Manifest}, total |-> 0, selected |-> <<>>]
RoundsTo(g, n, a, r) ==
  g = [i \in 0 .. n |-> IF i = 0 THEN Begun ELSE Entry(g[i - 1], a.manifest.files[i], a, r)]

\* The loop can be run for any number of rounds.
LEMMA RoundsExist ==
  ASSUME NEW a, NEW r, NEW n \in Nat
  PROVE  \E g : RoundsTo(g, n, a, r)
<1> DEFINE Bad == {k \in Nat : ~ \E g : RoundsTo(g, k, a, r)}
<1> SUFFICES Bad = {}
  OBVIOUS
<1> SUFFICES ASSUME Bad # {}
             PROVE  FALSE
  OBVIOUS
<1>1. PICK k \in Bad : \A j \in Bad : k <= j
  BY LeastOf
<1>2. CASE k = 0
  <2>1. PICK g : g = [i \in 0 .. 0 |-> Begun]
    OBVIOUS
  <2>2. RoundsTo(g, 0, a, r)
    BY <2>1 DEF RoundsTo
  <2> QED
    BY <1>1, <1>2, <2>2
<1>3. CASE k # 0
  <2>1. k - 1 \in Nat /\ k - 1 \notin Bad
    BY <1>1, <1>3
  <2>2. PICK g : RoundsTo(g, k - 1, a, r)
    BY <2>1
  <2>3. PICK e : e = Entry(g[k - 1], a.manifest.files[k], a, r)
    OBVIOUS
  <2>4. PICK h : h = [i \in 0 .. k |-> IF i = k THEN e ELSE g[i]]
    OBVIOUS
  <2>5. ASSUME NEW i \in 0 .. k
        PROVE  h[i] = IF i = 0 THEN Begun ELSE Entry(h[i - 1], a.manifest.files[i], a, r)
    <3>1. CASE i = k
      <4>1. h[i] = e /\ h[i - 1] = g[k - 1]
        BY <1>1, <1>3, <2>4, <3>1
      <4> QED
        BY <1>3, <2>3, <3>1, <4>1
    <3>2. CASE i # k
      <4>1. i \in 0 .. (k - 1) /\ h[i] = g[i]
        BY <2>1, <2>4, <2>5, <3>2
      <4>2. i # 0 => h[i - 1] = g[i - 1]
        BY <2>1, <2>4, <4>1
      <4>3. g[i] = IF i = 0 THEN Begun ELSE Entry(g[i - 1], a.manifest.files[i], a, r)
        BY <2>2, <4>1 DEF RoundsTo
      <4> QED
        BY <4>1, <4>2, <4>3
    <3> QED
      BY <3>1, <3>2
  <2>6. RoundsTo(h, k, a, r)
    BY <2>4, <2>5 DEF RoundsTo
  <2> QED
    BY <1>1, <2>6
<1> QED
  BY <1>2, <1>3

\* The rounds of the loop over the inventory.
LEMMA RoundsAre ==
  ASSUME NEW a, NEW r, Len(a.manifest.files) \in Nat
  PROVE  RoundsTo(Rounds(a, r), Len(a.manifest.files), a, r)
<1> DEFINE n == Len(a.manifest.files)
<1>1. PICK g : RoundsTo(g, n, a, r)
  BY RoundsExist, Zenon
<1>2. Rounds(a, r) = CHOOSE x : RoundsTo(x, n, a, r)
  BY Zenon DEF Rounds, RoundsTo, Begun
<1> QED
  BY <1>1, <1>2, Zenon

SumsTo(g, n, f) == g = [i \in 0 .. n |-> IF i = 0 THEN 0 ELSE g[i - 1] + f[i].size.num]

\* The sizes of the files listed can be summed up.
LEMMA SumsExist ==
  ASSUME NEW f, NEW n \in Nat
  PROVE  \E g : SumsTo(g, n, f)
<1> DEFINE Bad == {k \in Nat : ~ \E g : SumsTo(g, k, f)}
<1> SUFFICES Bad = {}
  OBVIOUS
<1> SUFFICES ASSUME Bad # {}
             PROVE  FALSE
  OBVIOUS
<1>1. PICK k \in Bad : \A j \in Bad : k <= j
  BY LeastOf
<1>2. CASE k = 0
  <2>1. PICK g : g = [i \in 0 .. 0 |-> 0]
    OBVIOUS
  <2>2. SumsTo(g, 0, f)
    BY <2>1 DEF SumsTo
  <2> QED
    BY <1>1, <1>2, <2>2
<1>3. CASE k # 0
  <2>1. k - 1 \in Nat /\ k - 1 \notin Bad
    BY <1>1, <1>3
  <2>2. PICK g : SumsTo(g, k - 1, f)
    BY <2>1
  <2>3. PICK e : e = g[k - 1] + f[k].size.num
    OBVIOUS
  <2>4. PICK h : h = [i \in 0 .. k |-> IF i = k THEN e ELSE g[i]]
    OBVIOUS
  <2>5. ASSUME NEW i \in 0 .. k
        PROVE  h[i] = IF i = 0 THEN 0 ELSE h[i - 1] + f[i].size.num
    <3>1. CASE i = k
      <4>1. h[i] = e /\ h[i - 1] = g[k - 1]
        BY <1>1, <1>3, <2>4, <3>1
      <4> QED
        BY <1>3, <2>3, <3>1, <4>1
    <3>2. CASE i # k
      <4>1. i \in 0 .. (k - 1) /\ h[i] = g[i]
        BY <2>1, <2>4, <2>5, <3>2
      <4>2. i # 0 => h[i - 1] = g[i - 1]
        BY <2>1, <2>4, <4>1
      <4>3. g[i] = IF i = 0 THEN 0 ELSE g[i - 1] + f[i].size.num
        BY <2>2, <4>1 DEF SumsTo
      <4> QED
        BY <4>1, <4>2, <4>3
    <3> QED
      BY <3>1, <3>2
  <2>6. SumsTo(h, k, f)
    BY <2>4, <2>5 DEF SumsTo
  <2> QED
    BY <1>1, <2>6
<1> QED
  BY <1>2, <1>3

\* The sums of the sizes listed: natural numbers, none above the last.
LEMMA SumsAre ==
  ASSUME NEW f \in Seq(ListedFiles)
  PROVE  /\ Sums(f)[0] = 0
         /\ \A n \in 1 .. Len(f) : Sums(f)[n] = Sums(f)[n - 1] + f[n].size.num
         /\ \A n \in 0 .. Len(f) : Sums(f)[n] \in Nat /\ Sums(f)[n] <= Sums(f)[Len(f)]
<1>0. Len(f) \in Nat /\ \A n \in 1 .. Len(f) : f[n].size.num \in Nat
  <2>1. Len(f) \in Nat /\ \A n \in 1 .. Len(f) : f[n] \in ListedFiles
    BY ElementOfSeq, LenProperties
  <2>2. \A e \in ListedFiles : e.size.num \in Nat
    BY DEF ListedFiles, Numbers
  <2> QED
    BY <2>1, <2>2
<1>1. PICK g : g = Sums(f)
  OBVIOUS
<1>2. SumsTo(g, Len(f), f)
  <2>1. PICK h : SumsTo(h, Len(f), f)
    BY <1>0, SumsExist, Zenon
  <2>2. g = CHOOSE x : SumsTo(x, Len(f), f)
    BY <1>1, Zenon DEF Sums, SumsTo
  <2> QED
    BY <2>1, <2>2, Zenon
<1>3. g[0] = 0 /\ \A n \in 1 .. Len(f) : g[n] = g[n - 1] + f[n].size.num
  BY <1>0, <1>2 DEF SumsTo
<1>4. \A n \in 0 .. Len(f) : g[n] \in Nat
  <2> DEFINE Bad == {n \in Nat : n <= Len(f) /\ g[n] \notin Nat}
  <2> SUFFICES ASSUME Bad # {}
               PROVE  FALSE
    BY <1>0
  <2>1. PICK n \in Bad : \A k \in Bad : n <= k
    BY LeastOf
  <2>2. n # 0 /\ n - 1 \in Nat /\ n - 1 \notin Bad
    BY <1>3, <2>1
  <2>3. g[n - 1] \in Nat /\ n \in 1 .. Len(f)
    BY <1>0, <2>1, <2>2
  <2> QED
    BY <1>0, <1>3, <2>1, <2>3, SMTT(40)
<1>5. \A n \in 0 .. Len(f) : g[n] <= g[Len(f)]
  <2> DEFINE Bad == {k \in Nat : k <= Len(f) /\ ~(g[Len(f) - k] <= g[Len(f)])}
  <2>0. SUFFICES Bad = {}
    <3>1. TAKE n \in 0 .. Len(f)
    <3>2. Len(f) - n \in Nat /\ Len(f) - n <= Len(f) /\ Len(f) - (Len(f) - n) = n
      BY <1>0
    <3> QED
      BY <3>2
  <2> SUFFICES ASSUME Bad # {}
               PROVE  FALSE
    OBVIOUS
  <2>1. PICK k \in Bad : \A j \in Bad : k <= j
    BY LeastOf
  <2>2. k # 0
    BY <1>0, <1>4, <2>1
  <2>3. k - 1 \in Nat /\ k - 1 <= Len(f) /\ k - 1 \notin Bad
    <3>1. k \in Nat /\ k <= Len(f)
      BY <2>1
    <3>2. k - 1 \in Nat /\ k - 1 <= Len(f) /\ ~(k <= k - 1)
      BY <1>0, <2>2, <3>1
    <3> QED
      BY <2>1, <3>2, Zenon
  <2>4. PICK m : m = Len(f) - k
    OBVIOUS
  <2>5. m \in 0 .. Len(f) /\ m + 1 \in 1 .. Len(f) /\ Len(f) - (k - 1) = m + 1 /\ (m + 1) - 1 = m
    BY <1>0, <2>1, <2>2, <2>4
  <2>6. g[m + 1] <= g[Len(f)]
    BY <2>3, <2>5
  <2>7. g[m + 1] = g[m] + f[m + 1].size.num
    BY <1>3, <2>5
  <2>8. g[m] <= g[Len(f)]
    <3>1. PICK x, y, z : x = g[m] /\ y = f[m + 1].size.num /\ z = g[Len(f)]
      OBVIOUS
    <3>2. x \in Nat /\ y \in Nat /\ z \in Nat
      BY <1>0, <1>4, <2>5, <3>1
    <3>3. x + y <= z
      BY <2>6, <2>7, <3>1
    <3>4. x <= z
      BY <3>2, <3>3
    <3> QED
      BY <3>1, <3>4
  <2> QED
    BY <2>1, <2>4, <2>8
<1> QED
  BY <1>1, <1>3, <1>4, <1>5

\* The loop while no entry has been refused, and after one has been.
Expected(f, n) == {Manifest} \cup {Member(f[i].path) : i \in 1 .. n}
SelectedTo(a, n, r) ==
  IF \E i \in 1 .. n : a.manifest.files[i].path = r THEN <<DataOf(a, Member(r))>> ELSE <<>>
Passed(expected, total, selected) ==
  [ok |-> TRUE, expected |-> expected, total |-> total, selected |-> selected]
PassedAt(a, n, r) ==
  Passed(Expected(a.manifest.files, n), Sums(a.manifest.files)[n], SelectedTo(a, n, r))
Refusing(s) ==
  s = [ok |-> FALSE, expected |-> s.expected, total |-> s.total, selected |-> s.selected]
Chosen(a, e, r, d) == IF e.path = r THEN <<DataOf(a, Member(e.path))>> ELSE d
PassedOn(x, t, d, e, a, r) == Passed(x \cup {Member(e.path)}, t + e.size.num, Chosen(a, e, r, d))
Oversize(e, r) == e.path = r /\ e.size.num > MaxReport
EntryFitsAt(a, i, r) ==
  EntryAccepts(PassedAt(a, i - 1, r), a.manifest.files[i], a) /\ ~Oversize(a.manifest.files[i], r)
FitTo(a, n, r) == \A i \in 1 .. n : EntryFitsAt(a, i, r)

\* One round on an entry that fits.
LEMMA EntryFits ==
  ASSUME NEW a, NEW r, NEW e, NEW x, NEW t, NEW d,
         EntryAccepts(Passed(x, t, d), e, a), ~Oversize(e, r)
  PROVE  Entry(Passed(x, t, d), e, a, r) = PassedOn(x, t, d, e, a, r)
<1>1. PICK s : s = Passed(x, t, d)
  OBVIOUS
<1>2. s.ok /\ s.expected = x /\ s.total = t /\ s.selected = d
  BY <1>1 DEF Passed
<1>3. EntryAccepts(s, e, a)
  BY <1>1
<1>4. Entry(s, e, a, r)
        = [ok |-> TRUE, expected |-> s.expected \cup {Member(e.path)}, total |-> s.total + e.size.num,
           selected |-> IF e.path = r THEN <<DataOf(a, Member(e.path))>> ELSE s.selected]
  BY <1>2, <1>3, Zenon DEF Entry, Oversize
<1> QED
  BY <1>1, <1>2, <1>4 DEF Passed, PassedOn, Chosen

\* One round on an entry that does not.
LEMMA EntryRefused ==
  ASSUME NEW a, NEW r, NEW e, NEW x, NEW t, NEW d,
         ~(EntryAccepts(Passed(x, t, d), e, a) /\ ~Oversize(e, r))
  PROVE  Refusing(Entry(Passed(x, t, d), e, a, r))
<1>1. PICK s : s = Passed(x, t, d)
  OBVIOUS
<1>2. ~EntryAccepts(s, e, a) \/ Oversize(e, r)
  BY <1>1
<1>3. Entry(s, e, a, r) = [s EXCEPT !.ok = FALSE]
  BY <1>2, Zenon DEF Entry, Oversize
<1> QED
  BY <1>1, <1>3 DEF Passed, Refusing

\* A refusal is final.
LEMMA StillRefusing ==
  ASSUME NEW a, NEW r, NEW e, NEW s, Refusing(s)
  PROVE  Refusing(Entry(s, e, a, r))
<1>1. ~s.ok
  BY DEF Refusing
<1>2. Entry(s, e, a, r) = [s EXCEPT !.ok = FALSE]
  BY <1>1, Zenon DEF Entry
<1> QED
  BY <1>2 DEF Refusing

\* What the loop has come to after n rounds.
LEMMA RoundsPass ==
  ASSUME NEW a \in Archives, NEW r, NEW n \in 0 .. Len(a.manifest.files)
  PROVE  IF FitTo(a, n, r) THEN Rounds(a, r)[n] = PassedAt(a, n, r) ELSE Refusing(Rounds(a, r)[n])
<1>1. PICK f : f = a.manifest.files
  OBVIOUS
<1>2. f \in Seq(ListedFiles) /\ Len(f) \in Nat
  BY <1>1, LenProperties DEF Archives
<1>3. PICK g : g = Rounds(a, r)
  OBVIOUS
<1>4. /\ g[0] = Begun
      /\ \A i \in 1 .. Len(f) : g[i] = Entry(g[i - 1], f[i], a, r)
  <2>1. RoundsTo(g, Len(f), a, r)
    BY <1>1, <1>2, <1>3, RoundsAre
  <2> QED
    BY <1>1, <1>2, <2>1 DEF RoundsTo
<1> DEFINE Good(k) == IF FitTo(a, k, r) THEN g[k] = PassedAt(a, k, r) ELSE Refusing(g[k])
           Bad == {k \in Nat : k <= Len(f) /\ ~Good(k)}
<1> HIDE DEF Good
<1> SUFFICES ASSUME Bad # {}
             PROVE  FALSE
  BY <1>1, <1>2, <1>3 DEF Good
<1>5. PICK k \in Bad : \A j \in Bad : k <= j
  BY LeastOf
<1>6. Good(0)
  <2>1. FitTo(a, 0, r)
    BY DEF FitTo
  <2>2. Expected(f, 0) = {Manifest} /\ SelectedTo(a, 0, r) = <<>>
    BY DEF Expected, SelectedTo
  <2>3. Sums(f)[0] = 0
    BY <1>2, SumsAre
  <2>4. PassedAt(a, 0, r) = Begun
    BY <1>1, <2>2, <2>3 DEF PassedAt, Passed, Begun
  <2> QED
    BY <1>4, <2>1, <2>4 DEF Good
<1>7. ASSUME NEW m \in Nat, m + 1 <= Len(f), Good(m)
      PROVE  Good(m + 1)
  <2>1. m + 1 \in 1 .. Len(f) /\ (m + 1) - 1 = m
    BY <1>2, <1>7
  <2>2. g[m + 1] = Entry(g[m], f[m + 1], a, r)
    BY <1>4, <2>1
  <2>3. FitTo(a, m + 1, r) <=> FitTo(a, m, r) /\ EntryFitsAt(a, m + 1, r)
    BY <1>7 DEF FitTo
  <2>4. PICK e : e = f[m + 1]
    OBVIOUS
  <2>5. PICK x, t, d : x = Expected(f, m) /\ t = Sums(f)[m] /\ d = SelectedTo(a, m, r)
    OBVIOUS
  <2>6. PassedAt(a, m, r) = Passed(x, t, d)
    BY <1>1, <2>5 DEF PassedAt
  <2>7. CASE ~FitTo(a, m, r)
    <3>1. Refusing(g[m])
      BY <1>7, <2>7 DEF Good
    <3> QED
      BY <2>2, <2>3, <2>7, <3>1, StillRefusing DEF Good
  <2>8. CASE FitTo(a, m, r) /\ ~EntryFitsAt(a, m + 1, r)
    <3>1. g[m] = Passed(x, t, d)
      BY <1>7, <2>6, <2>8 DEF Good
    <3>2. ~(EntryAccepts(Passed(x, t, d), e, a) /\ ~Oversize(e, r))
      BY <1>1, <2>1, <2>4, <2>6, <2>8 DEF EntryFitsAt
    <3>3. Refusing(g[m + 1])
      BY <2>2, <2>4, <3>1, <3>2, EntryRefused
    <3> QED
      BY <2>3, <2>8, <3>3 DEF Good
  <2>9. CASE FitTo(a, m, r) /\ EntryFitsAt(a, m + 1, r)
    <3>1. g[m] = Passed(x, t, d)
      BY <1>7, <2>6, <2>9 DEF Good
    <3>2. EntryAccepts(Passed(x, t, d), e, a) /\ ~Oversize(e, r)
      BY <1>1, <2>1, <2>4, <2>6, <2>9 DEF EntryFitsAt
    <3>3. g[m + 1] = Passed(x \cup {Member(e.path)}, t + e.size.num,
                            Chosen(a, e, r, d))
      <4>1. Entry(Passed(x, t, d), e, a, r) = PassedOn(x, t, d, e, a, r)
        BY <3>2, EntryFits, Zenon
      <4> QED
        BY <2>2, <2>4, <3>1, <4>1, Zenon DEF PassedOn
    <3>4. Expected(f, m + 1) = x \cup {Member(e.path)}
      <4>1. 1 .. (m + 1) = (1 .. m) \cup {m + 1}
        BY <1>7
      <4> QED
        BY <2>4, <2>5, <4>1 DEF Expected
    <3>5. Sums(f)[m + 1] = t + e.size.num
      BY <1>2, <2>1, <2>4, <2>5, SumsAre
    <3>6. SelectedTo(a, m + 1, r) = Chosen(a, e, r, d)
      <4>1. (\E i \in 1 .. (m + 1) : f[i].path = r) <=> e.path = r \/ \E i \in 1 .. m : f[i].path = r
        BY <1>7, <2>4
      <4> QED
        BY <1>1, <2>5, <4>1, Zenon DEF SelectedTo, Chosen
    <3>7. PassedAt(a, m + 1, r) = Passed(x \cup {Member(e.path)}, t + e.size.num,
                                         Chosen(a, e, r, d))
      BY <1>1, <3>4, <3>5, <3>6, Zenon DEF PassedAt
    <3> QED
      BY <2>3, <2>9, <3>3, <3>7 DEF Good
  <2> QED
    BY <2>7, <2>8, <2>9
<1>8. k \in Nat /\ k <= Len(f) /\ ~Good(k) /\ k # 0
  BY <1>5, <1>6
<1>9. k - 1 \in Nat /\ k - 1 <= Len(f) /\ ~(k <= k - 1) /\ (k - 1) + 1 = k
  BY <1>2, <1>8
<1>10. Good(k - 1)
  BY <1>5, <1>9, Zenon
<1>11. Good((k - 1) + 1)
  BY <1>7, <1>8, <1>9, <1>10
<1> QED
  BY <1>8, <1>9, <1>11

\* The loop accepts the inventory exactly when every entry fits where it is.
LEMMA LoopIs ==
  ASSUME NEW a \in Archives, NEW r
  PROVE  LET n == Len(a.manifest.files) IN
         /\ Inventory(a, r).ok <=> FitTo(a, n, r)
         /\ FitTo(a, n, r) => /\ Inventory(a, r).expected = Expected(a.manifest.files, n)
                              /\ Inventory(a, r).total = Sums(a.manifest.files)[n]
                              /\ Inventory(a, r).selected = SelectedTo(a, n, r)
<1>1. PICK n : n = Len(a.manifest.files)
  OBVIOUS
<1>2. n \in Nat /\ n \in 0 .. n
  BY <1>1, LenProperties DEF Archives
<1>3. PICK s : s = Inventory(a, r)
  OBVIOUS
<1>4. IF FitTo(a, n, r) THEN s = PassedAt(a, n, r) ELSE Refusing(s)
  BY <1>1, <1>2, <1>3, RoundsPass DEF Inventory
<1>5. CASE FitTo(a, n, r)
  BY <1>1, <1>3, <1>4, <1>5 DEF PassedAt, Passed
<1>6. CASE ~FitTo(a, n, r)
  BY <1>1, <1>3, <1>4, <1>6 DEF Refusing
<1> QED
  BY <1>5, <1>6

\* Names of artifacts are told apart by their paths, and from the manifest's.
LEMMA MemberIs ==
  ASSUME NEW x \in Paths, NEW y \in Paths
  PROVE  Member(x) # Manifest /\ Member(x) \in Paths /\ (Member(x) = Member(y) => x = y)
<1>1. x \in Seq(Words) /\ y \in Seq(Words)
  BY DEF Paths
<1>2. "artifacts" \in Words /\ <<"artifacts">> \in Seq(Words)
  BY ReportAssumption
<1>3. Member(x) \in Paths
  BY <1>1, <1>2, ConcatProperties DEF Member, Paths
<1>4. Member(x)[1] = "artifacts"
  BY <1>1, <1>2, ConcatProperties DEF Member
<1>5. Member(x) # Manifest
  BY <1>4 DEF Manifest
<1>6. ASSUME Member(x) = Member(y)
      PROVE  x = y
  <2>1. /\ Len(Member(x)) = 1 + Len(x) /\ Len(Member(y)) = 1 + Len(y)
        /\ Len(x) \in Nat /\ Len(y) \in Nat
    BY <1>1, <1>2, ConcatProperties, LenProperties DEF Member
  <2>2. Len(x) = Len(y)
    BY <1>6, <2>1
  <2>3. ASSUME NEW i \in 1 .. Len(x)
        PROVE  x[i] = y[i]
    <3>1. Member(x)[i + 1] = x[i] /\ Member(y)[i + 1] = y[i]
      BY <1>1, <2>1, <2>2 DEF Member
    <3> QED
      BY <1>6, <3>1
  <2> QED
    BY <1>1, <2>2, <2>3, SeqEqual
<1> QED
  BY <1>3, <1>5, <1>6

\* As many elements as places: no element has two.
LEMMA DifferIs ==
  ASSUME NEW S, NEW s \in Seq(S)
  PROVE  /\ IsFiniteSet(ToSet(s))
         /\ Cardinality(ToSet(s)) = Len(s) <=> \A i, j \in DOMAIN s : s[i] = s[j] => i = j
<1>1. Len(s) \in Nat /\ DOMAIN s = 1 .. Len(s) /\ s \in [1 .. Len(s) -> ToSet(s)]
  BY LenProperties DEF ToSet
<1>2. s \in Surjection(1 .. Len(s), ToSet(s))
  BY <1>1 DEF Surjection, ToSet
<1>3. IsFiniteSet(1 .. Len(s)) /\ Cardinality(1 .. Len(s)) = Len(s)
  BY <1>1, FS_Interval
<1>4. /\ IsFiniteSet(ToSet(s))
      /\ Cardinality(ToSet(s)) = Len(s) <=> s \in Injection(1 .. Len(s), ToSet(s))
  BY <1>2, <1>3, FS_Surjection
<1>5. s \in Injection(1 .. Len(s), ToSet(s)) <=> \A i, j \in 1 .. Len(s) : s[i] = s[j] => i = j
  BY <1>1 DEF Injection, IsInjective
<1> QED
  BY <1>1, <1>4, <1>5

\* The names of an archive's members, and the bytes stored under one.
LEMMA NamesAre ==
  ASSUME NEW a \in Archives
  PROVE  /\ Names(a) \in Seq(Paths) /\ Len(Names(a)) = Len(a.members)
         /\ Len(a.members) \in Nat /\ DOMAIN a.members = 1 .. Len(a.members)
         /\ DOMAIN Names(a) = DOMAIN a.members
         /\ \A i \in DOMAIN a.members : a.members[i] \in ZipMembers /\ Names(a)[i] = a.members[i].name
         /\ ToSet(Names(a)) = {a.members[i].name : i \in DOMAIN a.members}
         /\ ToSet(a.members) = {a.members[i] : i \in DOMAIN a.members}
<1>1. a.members \in Seq(ZipMembers)
  BY DEF Archives
<1>2. PICK n : n = Len(a.members)
  OBVIOUS
<1>3. n \in Nat /\ DOMAIN a.members = 1 .. n /\ \A i \in 1 .. n : a.members[i] \in ZipMembers
  BY <1>1, <1>2, LenProperties, ElementOfSeq
<1>4. \A m \in ZipMembers : m.name \in Paths
  BY DEF ZipMembers
<1>5. Names(a) = [i \in 1 .. n |-> a.members[i].name]
  BY <1>3 DEF Names
<1>6. Names(a) \in [1 .. n -> Paths]
  BY <1>3, <1>4, <1>5
<1>7. Names(a) \in Seq(Paths) /\ Len(Names(a)) = n /\ DOMAIN Names(a) = 1 .. n
  BY <1>3, <1>6
<1>8. ToSet(Names(a)) = {a.members[i].name : i \in 1 .. n}
  BY <1>5, <1>7 DEF ToSet
<1> QED
  BY <1>2, <1>3, <1>5, <1>7, <1>8 DEF ToSet

\* The bytes found under a name are those of the only member with it.
LEMMA DataOfIs ==
  ASSUME NEW a \in Archives, NEW i \in DOMAIN a.members,
         \A j, k \in DOMAIN a.members : a.members[j].name = a.members[k].name => j = k
  PROVE  DataOf(a, a.members[i].name) = a.members[i].data
<1>1. PICK name : name = a.members[i].name
  OBVIOUS
<1>2. PICK c : c = CHOOSE j \in DOMAIN a.members : a.members[j].name = name
  OBVIOUS
<1>3. c \in DOMAIN a.members /\ a.members[c].name = name
  BY <1>1, <1>2
<1>4. c = i
  BY <1>1, <1>3
<1> QED
  BY <1>1, <1>2, <1>4 DEF DataOf

\* The entries of an inventory.
LEMMA FilesAre ==
  ASSUME NEW a \in Archives
  PROVE  /\ a.manifest.files \in Seq(ListedFiles) /\ Len(a.manifest.files) \in Nat
         /\ DOMAIN a.manifest.files = 1 .. Len(a.manifest.files)
         /\ \A i \in DOMAIN a.manifest.files :
              a.manifest.files[i].path \in Paths /\ a.manifest.files[i].size.num \in Nat
<1>1. a.manifest.files \in Seq(ListedFiles)
  BY DEF Archives
<1>2. \A e \in ListedFiles : e.path \in Paths /\ e.size.num \in Nat
  BY DEF ListedFiles, Numbers
<1> QED
  BY <1>1, <1>2, LenProperties, ElementOfSeq

\* What is asked of one entry, once the ones before it have passed.
LEMMA FitsIs ==
  ASSUME NEW a \in Archives, NEW r, NEW i \in DOMAIN a.manifest.files
  PROVE  LET e == a.manifest.files[i] IN
         EntryFitsAt(a, i, r) <=>
           /\ relative(e.path) /\ Member(e.path) \notin Expected(a.manifest.files, i - 1)
           /\ e.kind = "RegularFile" /\ e.size.form \in {"int", "decimal"} /\ e.size.num <= MaxArtifact
           /\ Sums(a.manifest.files)[i - 1] + e.size.num <= MaxArtifact
           /\ Member(e.path) \in ToSet(Names(a)) /\ SizeOf(DataOf(a, Member(e.path))) = e.size.num
           /\ e.fingerprint # "malformed" /\ DataOf(a, Member(e.path)) = e.fingerprint
           /\ (e.path = r => e.size.num <= MaxReport)
<1>1. PICK e : e = a.manifest.files[i]
  OBVIOUS
<1>2. e.size.num \in Nat /\ MaxArtifact \in Nat /\ MaxReport \in Nat
  BY <1>1, FilesAre, BundleAssumption
<1>3. PICK s : s = PassedAt(a, i - 1, r)
  OBVIOUS
<1>4. s.expected = Expected(a.manifest.files, i - 1) /\ s.total = Sums(a.manifest.files)[i - 1]
  BY <1>3 DEF PassedAt, Passed
<1>5. number(e.size, MaxArtifact) <=> e.size.form \in {"int", "decimal"} /\ e.size.num <= MaxArtifact
  BY <1>2 DEF number
<1>6. ~Oversize(e, r) <=> (e.path = r => e.size.num <= MaxReport)
  BY <1>2 DEF Oversize
<1>7. EntryAccepts(s, e, a) <=>
        /\ relative(e.path) /\ Member(e.path) \notin s.expected /\ e.kind = "RegularFile"
        /\ number(e.size, MaxArtifact) /\ s.total + e.size.num <= MaxArtifact
        /\ Member(e.path) \in ToSet(Names(a)) /\ SizeOf(DataOf(a, Member(e.path))) = e.size.num
        /\ e.fingerprint # "malformed" /\ DataOf(a, Member(e.path)) = e.fingerprint
  BY Zenon DEF EntryAccepts, digest, sha
<1>8. EntryFitsAt(a, i, r) <=> EntryAccepts(s, e, a) /\ ~Oversize(e, r)
  BY <1>1, <1>3, Zenon DEF EntryFitsAt
<1> QED
  BY <1>1, <1>4, <1>5, <1>6, <1>7, <1>8, Zenon

\* The entry listed for a path.
Lists(a, r) ==
  \E i \in DOMAIN a.manifest.files :
    a.manifest.files[i].path = r /\ a.manifest.files[i].size.num <= MaxReport

\* What `bundle' accepts, without the loop.
LEMMA AcceptedIs ==
  ASSUME NEW a \in Archives, NEW r
  PROVE  LET f == a.manifest.files IN
         bundleAccepts(a, r) <=>
           /\ relative(r) /\ MembersAccept(a) /\ pairs(a.manifest.keys) /\ a.manifest.header
           /\ Len(f) \in 1 .. MaxFiles /\ FitTo(a, Len(f), r)
           /\ ToSet(Names(a)) = Expected(f, Len(f))
           /\ a.manifest.total.form \in {"int", "decimal"} /\ a.manifest.total.num <= MaxArtifact
           /\ a.manifest.total.num = Sums(f)[Len(f)]
           /\ \E i \in DOMAIN f : f[i].path = r
<1>1. PICK f : f = a.manifest.files
  OBVIOUS
<1>2. PICK s : s = Inventory(a, r)
  OBVIOUS
<1>3. /\ s.ok <=> FitTo(a, Len(f), r)
      /\ FitTo(a, Len(f), r) => /\ s.expected = Expected(f, Len(f)) /\ s.total = Sums(f)[Len(f)]
                                /\ s.selected = SelectedTo(a, Len(f), r)
  BY <1>1, <1>2, LoopIs
<1>4. a.manifest.total.num \in Nat /\ MaxArtifact \in Nat
  BY BundleAssumption DEF Archives, Numbers
<1>5. number(a.manifest.total, MaxArtifact)
        <=> a.manifest.total.form \in {"int", "decimal"} /\ a.manifest.total.num <= MaxArtifact
  BY <1>4 DEF number
<1>6. SelectedTo(a, Len(f), r) # <<>> <=> \E i \in DOMAIN f : f[i].path = r
  <2>1. <<DataOf(a, Member(r))>> # <<>>
    OBVIOUS
  <2>2. DOMAIN f = 1 .. Len(f)
    BY <1>1, FilesAre
  <2> QED
    BY <1>1, <2>1, <2>2, Zenon DEF SelectedTo
<1>7. bundleAccepts(a, r) <=>
        /\ relative(r) /\ MembersAccept(a) /\ pairs(a.manifest.keys) /\ a.manifest.header
        /\ Len(f) \in 1 .. MaxFiles /\ s.ok /\ ToSet(Names(a)) = s.expected
        /\ number(a.manifest.total, MaxArtifact) /\ s.total = a.manifest.total.num /\ s.selected # <<>>
  BY <1>1, <1>2, Zenon DEF bundleAccepts, decode
<1>8. CASE FitTo(a, Len(f), r)
  BY <1>1, <1>3, <1>5, <1>6, <1>7, <1>8, Zenon
<1>9. CASE ~FitTo(a, Len(f), r)
  BY <1>1, <1>3, <1>7, <1>9, Zenon
<1> QED
  BY <1>8, <1>9

Differ(s) == \A i, j \in DOMAIN s : s[i] = s[j] => i = j
Held(a) == {i \in DOMAIN a.members : a.members[i].name # Manifest}
Holds(a, e) ==
  \E j \in Held(a) : /\ a.members[j].name = Member(e.path) /\ a.members[j].data = e.fingerprint
                     /\ SizeOf(a.members[j].data) = e.size.num

\* The names of the members differ when there are as many as members.
LEMMA NamesDiffer ==
  ASSUME NEW a \in Archives
  PROVE  pairs(Names(a)) <=>
           \A i, j \in DOMAIN a.members : a.members[i].name = a.members[j].name => i = j
<1>1. /\ Names(a) \in Seq(Paths) /\ DOMAIN Names(a) = DOMAIN a.members
      /\ \A i \in DOMAIN a.members : Names(a)[i] = a.members[i].name
  BY NamesAre
<1>2. pairs(Names(a)) <=> Differ(Names(a))
  BY <1>1, DifferIs DEF pairs, Differ
<1> QED
  BY <1>1, <1>2 DEF Differ

\* An archive that `bundle' accepts is consistent.
LEMMA AcceptedConsistent ==
  ASSUME NEW a \in Archives, NEW r, bundleAccepts(a, r)
  PROVE  Consistent(a) /\ Lists(a, r)
<1>1. PICK f : f = a.manifest.files
  OBVIOUS
<1>2. /\ MembersAccept(a) /\ pairs(a.manifest.keys) /\ a.manifest.header
      /\ Len(f) \in 1 .. MaxFiles /\ FitTo(a, Len(f), r)
      /\ ToSet(Names(a)) = Expected(f, Len(f))
      /\ a.manifest.total.form \in {"int", "decimal"} /\ a.manifest.total.num <= MaxArtifact
      /\ a.manifest.total.num = Sums(f)[Len(f)]
      /\ \E i \in DOMAIN f : f[i].path = r
  BY <1>1, AcceptedIs, Zenon
<1>3. /\ f \in Seq(ListedFiles) /\ Len(f) \in Nat /\ DOMAIN f = 1 .. Len(f)
      /\ \A i \in DOMAIN f : f[i].path \in Paths /\ f[i].size.num \in Nat
  BY <1>1, FilesAre
<1>4. /\ ToSet(Names(a)) = {a.members[i].name : i \in DOMAIN a.members}
      /\ ToSet(a.members) = {a.members[i] : i \in DOMAIN a.members}
  BY NamesAre
<1>5. /\ ArchiveSize(a) <= MaxBundle /\ pairs(Names(a)) /\ Manifest \in ToSet(Names(a))
      /\ \A m \in ToSet(a.members) : m.stored
      /\ SizeOf(DataOf(a, Manifest)) <= MaxReport
  BY <1>2 DEF MembersAccept, read_file
<1>6. \A i, j \in DOMAIN a.members : a.members[i].name = a.members[j].name => i = j
  BY <1>5, NamesDiffer, Zenon
<1>7. Differ(a.manifest.keys)
  <2>1. a.manifest.keys \in Seq(Words)
    BY DEF Archives
  <2> QED
    BY <1>2, <2>1, DifferIs DEF pairs, Differ
<1>8. ASSUME NEW i \in DOMAIN a.members
      PROVE  a.members[i].stored /\ (i \notin Held(a) => SizeOf(a.members[i].data) <= MaxReport)
  <2>1. a.members[i].stored
    BY <1>4, <1>5
  <2>2. ASSUME i \notin Held(a)
        PROVE  SizeOf(a.members[i].data) <= MaxReport
    <3>1. a.members[i].name = Manifest
      BY <1>8, <2>2 DEF Held
    <3>2. DataOf(a, Manifest) = a.members[i].data
      BY <1>6, <1>8, <3>1, DataOfIs
    <3> QED
      BY <1>5, <3>2
  <2> QED
    BY <2>1, <2>2
<1>9. Held(a) # DOMAIN a.members
  <2>1. PICK i \in DOMAIN a.members : a.members[i].name = Manifest
    BY <1>4, <1>5
  <2> QED
    BY <2>1 DEF Held
<1>10. ASSUME NEW i \in DOMAIN f
       PROVE  /\ relative(f[i].path) /\ Member(f[i].path) \notin Expected(f, i - 1)
              /\ f[i].kind = "RegularFile" /\ f[i].size.form \in {"int", "decimal"}
              /\ Member(f[i].path) \in ToSet(Names(a)) /\ SizeOf(DataOf(a, Member(f[i].path))) = f[i].size.num
              /\ DataOf(a, Member(f[i].path)) = f[i].fingerprint
              /\ (f[i].path = r => f[i].size.num <= MaxReport)
  <2>1. EntryFitsAt(a, i, r)
    BY <1>2, <1>3 DEF FitTo
  <2> QED
    BY <1>1, <2>1, FitsIs, Zenon
<1>11. ASSUME NEW i \in DOMAIN f
       PROVE  Holds(a, f[i])
  <2>1. PICK j \in DOMAIN a.members : a.members[j].name = Member(f[i].path)
    BY <1>4, <1>10
  <2>2. j \in Held(a)
    BY <1>3, <2>1, MemberIs DEF Held
  <2>3. DataOf(a, Member(f[i].path)) = a.members[j].data
    BY <1>6, <2>1, DataOfIs
  <2> QED
    BY <1>10, <2>1, <2>2, <2>3 DEF Holds
<1>12. ASSUME NEW j \in Held(a)
       PROVE  \E i \in DOMAIN f : a.members[j].name = Member(f[i].path)
  <2>1. a.members[j].name \in Expected(f, Len(f)) /\ a.members[j].name # Manifest
    BY <1>2, <1>4 DEF Held
  <2> QED
    BY <1>3, <2>1 DEF Expected
<1>13. ASSUME NEW i \in DOMAIN f, NEW j \in DOMAIN f, f[i].path = f[j].path
       PROVE  i = j
  <2>1. ASSUME NEW k \in DOMAIN f, NEW l \in DOMAIN f, f[k].path = f[l].path, k < l
        PROVE  FALSE
    <3>1. k \in 1 .. (l - 1)
      BY <1>3, <2>1
    <3>2. Member(f[k].path) \in Expected(f, l - 1)
      BY <3>1 DEF Expected
    <3> QED
      BY <1>10, <2>1, <3>2
  <2>2. i \in Int /\ j \in Int
    BY <1>3
  <2> QED
    BY <1>13, <2>1, <2>2
<1>14. Lists(a, r)
  BY <1>1, <1>2, <1>10 DEF Lists
<1>15. Consistent(a)
  BY <1>1, <1>2, <1>5, <1>6, <1>7, <1>8, <1>9, <1>10, <1>11, <1>12, <1>13, SMTT(60)
     DEF Consistent, Held, Holds, Differ
<1> QED
  BY <1>14, <1>15

\* `bundle' returns the bytes listed for the report.
LEMMA BundleReturns ==
  ASSUME NEW a \in Archives, NEW r, bundleAccepts(a, r)
  PROVE  \E i \in DOMAIN a.manifest.files :
           /\ a.manifest.files[i].path = r /\ a.manifest.files[i].size.num <= MaxReport
           /\ bundle(a, r) = <<a.manifest.files[i].fingerprint>>
<1>1. PICK f : f = a.manifest.files
  OBVIOUS
<1>2. FitTo(a, Len(f), r) /\ \E i \in DOMAIN f : f[i].path = r
  BY <1>1, AcceptedIs, Zenon
<1>3. DOMAIN f = 1 .. Len(f)
  BY <1>1, FilesAre
<1>4. PICK i \in DOMAIN f : f[i].path = r
  BY <1>2
<1>5. EntryFitsAt(a, i, r)
  BY <1>2, <1>3 DEF FitTo
<1>6. DataOf(a, Member(r)) = f[i].fingerprint /\ f[i].size.num <= MaxReport
  BY <1>1, <1>4, <1>5, FitsIs, Zenon
<1>7. SelectedTo(a, Len(f), r) = <<DataOf(a, Member(r))>>
  BY <1>1, <1>3, <1>4, Zenon DEF SelectedTo
<1>8. Inventory(a, r).selected = SelectedTo(a, Len(f), r)
  BY <1>1, <1>2, LoopIs, Zenon
<1>9. bundle(a, r) = <<f[i].fingerprint>>
  BY <1>6, <1>7, <1>8 DEF bundle
<1> QED
  BY <1>1, <1>4, <1>6, <1>9

\* One member more than there are entries.
LEMMA MembersCounted ==
  ASSUME NEW a \in Archives, pairs(Names(a)), Differ([i \in DOMAIN a.manifest.files |-> a.manifest.files[i].path]),
         ToSet(Names(a)) = Expected(a.manifest.files, Len(a.manifest.files))
  PROVE  Len(a.members) = Len(a.manifest.files) + 1
<1>1. PICK f : f = a.manifest.files
  OBVIOUS
<1>2. /\ Len(f) \in Nat /\ DOMAIN f = 1 .. Len(f)
      /\ \A i \in DOMAIN f : f[i].path \in Paths
  BY <1>1, FilesAre
<1>3. PICK g : g = [i \in 1 .. Len(f) |-> Member(f[i].path)]
  OBVIOUS
<1>4. g \in [1 .. Len(f) -> Paths]
  BY <1>2, <1>3, MemberIs
<1>5. g \in Seq(Paths) /\ Len(g) = Len(f) /\ DOMAIN g = 1 .. Len(f)
  BY <1>2, <1>4
<1>6. Differ(g)
  <2>1. ASSUME NEW i \in 1 .. Len(f), NEW j \in 1 .. Len(f), g[i] = g[j]
        PROVE  i = j
    <3>1. Member(f[i].path) = Member(f[j].path)
      BY <1>3, <2>1
    <3>2. f[i].path = f[j].path
      BY <1>2, <3>1, MemberIs
    <3> QED
      BY <1>1, <1>2, <3>2 DEF Differ
  <2> QED
    BY <1>5, <2>1 DEF Differ
<1>7. IsFiniteSet(ToSet(g)) /\ Cardinality(ToSet(g)) = Len(f)
  BY <1>5, <1>6, DifferIs DEF Differ
<1>8. Manifest \notin ToSet(g)
  BY <1>2, <1>3, <1>5, MemberIs DEF ToSet
<1>9. Cardinality(ToSet(g) \cup {Manifest}) = Len(f) + 1
  BY <1>7, <1>8, FS_AddElement
<1>10. ToSet(Names(a)) = ToSet(g) \cup {Manifest}
  BY <1>1, <1>3, <1>5 DEF Expected, ToSet
<1>11. Cardinality(ToSet(Names(a))) = Len(a.members)
  BY NamesAre DEF pairs
<1> QED
  BY <1>1, <1>9, <1>10, <1>11

\* `bundle' accepts a consistent archive that lists the report.
LEMMA ConsistentAccepted ==
  ASSUME NEW a \in Archives, NEW r, Consistent(a), Lists(a, r)
  PROVE  bundleAccepts(a, r)
<1>1. PICK f : f = a.manifest.files
  OBVIOUS
<1>2. /\ a.manifest.header /\ Differ(a.manifest.keys)
      /\ ArchiveSize(a) <= MaxBundle /\ Held(a) # DOMAIN a.members
      /\ \A i \in DOMAIN a.members :
           a.members[i].stored /\ (i \notin Held(a) => SizeOf(a.members[i].data) <= MaxReport)
      /\ \A i, j \in DOMAIN a.members : a.members[i].name = a.members[j].name => i = j
      /\ Len(f) \in 1 .. MaxFiles
      /\ \A i \in DOMAIN f :
           /\ f[i].kind = "RegularFile" /\ f[i].size.form \in {"int", "decimal"} /\ relative(f[i].path)
           /\ Holds(a, f[i])
      /\ \A j \in Held(a) : \E i \in DOMAIN f : a.members[j].name = Member(f[i].path)
      /\ \A i, j \in DOMAIN f : f[i].path = f[j].path => i = j
      /\ a.manifest.total.form \in {"int", "decimal"} /\ a.manifest.total.num = Sums(f)[Len(f)]
      /\ a.manifest.total.num <= MaxArtifact
  BY <1>1, ZenonT(60) DEF Consistent, Held, Holds, Differ
<1>3. /\ f \in Seq(ListedFiles) /\ Len(f) \in Nat /\ DOMAIN f = 1 .. Len(f)
      /\ \A i \in DOMAIN f : f[i].path \in Paths /\ f[i].size.num \in Nat
  BY <1>1, FilesAre
<1>4. /\ ToSet(Names(a)) = {a.members[i].name : i \in DOMAIN a.members}
      /\ ToSet(a.members) = {a.members[i] : i \in DOMAIN a.members}
      /\ \A i \in DOMAIN a.members : a.members[i] \in ZipMembers
  BY NamesAre
<1>5. \A m \in ZipMembers : SizeOf(m.data) \in Nat /\ m.data # "malformed"
  BY ReportAssumption DEF ZipMembers
<1>6. MaxArtifact \in Nat /\ MaxReport \in Nat /\ MaxReport <= MaxArtifact /\ MaxFiles \in Nat
  BY BundleAssumption
<1>7. pairs(Names(a)) /\ pairs(a.manifest.keys)
  <2>1. pairs(Names(a))
    BY <1>2, NamesDiffer, Zenon
  <2>2. a.manifest.keys \in Seq(Words)
    BY DEF Archives
  <2> QED
    BY <1>2, <2>1, <2>2, DifferIs DEF pairs, Differ
<1>8. PICK top \in DOMAIN a.members : a.members[top].name = Manifest
  BY <1>2 DEF Held
<1>9. ASSUME NEW i \in DOMAIN f
      PROVE  /\ f[i].size.num <= MaxArtifact
             /\ Sums(f)[i - 1] + f[i].size.num <= MaxArtifact
  <2>1. i \in 1 .. Len(f) /\ i \in 0 .. Len(f) /\ i - 1 \in 0 .. Len(f)
    BY <1>3
  <2>2. /\ Sums(f)[i] = Sums(f)[i - 1] + f[i].size.num
        /\ Sums(f)[i] <= Sums(f)[Len(f)] /\ Sums(f)[i - 1] \in Nat /\ Sums(f)[i] \in Nat
        /\ Sums(f)[Len(f)] <= MaxArtifact /\ f[i].size.num \in Nat
    BY <1>2, <1>3, <2>1, SumsAre
  <2>3. Sums(f)[Len(f)] \in Nat
    BY <1>3, SumsAre
  <2> QED
    BY <1>6, <2>2, <2>3
<1>10. ASSUME NEW i \in DOMAIN f
       PROVE  /\ Member(f[i].path) \in ToSet(Names(a)) /\ DataOf(a, Member(f[i].path)) = f[i].fingerprint
              /\ SizeOf(DataOf(a, Member(f[i].path))) = f[i].size.num /\ f[i].fingerprint # "malformed"
  <2>1. PICK j \in Held(a) : /\ a.members[j].name = Member(f[i].path) /\ a.members[j].data = f[i].fingerprint
                             /\ SizeOf(a.members[j].data) = f[i].size.num
    BY <1>2 DEF Holds
  <2>2. j \in DOMAIN a.members
    BY DEF Held
  <2>3. DataOf(a, Member(f[i].path)) = a.members[j].data
    BY <1>2, <2>1, <2>2, DataOfIs
  <2>4. Member(f[i].path) \in ToSet(Names(a)) /\ a.members[j].data # "malformed"
    BY <1>4, <1>5, <2>1, <2>2
  <2> QED
    BY <2>1, <2>3, <2>4
<1>11. ToSet(Names(a)) = Expected(f, Len(f))
  <2>1. ASSUME NEW i \in DOMAIN a.members
        PROVE  a.members[i].name \in Expected(f, Len(f))
    BY <1>2, <1>3 DEF Expected, Held
  <2>2. Manifest \in ToSet(Names(a))
    BY <1>4, <1>8
  <2> QED
    BY <1>3, <1>4, <1>10, <2>1, <2>2 DEF Expected
<1>12. ASSUME NEW j \in DOMAIN a.members
       PROVE  SizeOf(a.members[j].data) <= MaxArtifact
  <2>0. SizeOf(a.members[j].data) \in Nat
    BY <1>4, <1>5
  <2>1. CASE j \in Held(a)
    <3>1. PICK i \in DOMAIN f : a.members[j].name = Member(f[i].path)
      BY <1>2, <2>1
    <3>2. DataOf(a, Member(f[i].path)) = a.members[j].data
      BY <1>2, <3>1, DataOfIs
    <3> QED
      BY <1>9, <1>10, <3>2
  <2>2. CASE j \notin Held(a)
    BY <1>2, <1>6, <2>0, <2>2
  <2> QED
    BY <2>1, <2>2
<1>13. Len(a.members) \in 2 .. (MaxFiles + 1)
  <2>1. Differ([i \in DOMAIN f |-> f[i].path])
    BY <1>2 DEF Differ
  <2>2. Len(a.members) = Len(f) + 1
    BY <1>1, <1>7, <1>11, <2>1, MembersCounted
  <2> QED
    BY <1>2, <1>3, <1>6, <2>2
<1>14. MembersAccept(a)
  <2>1. DataOf(a, Manifest) = a.members[top].data
    BY <1>2, <1>8, DataOfIs
  <2>2. SizeOf(DataOf(a, Manifest)) <= MaxReport
    BY <1>2, <1>8, <2>1 DEF Held
  <2>3. Manifest \in ToSet(Names(a))
    BY <1>4, <1>8
  <2>4. \A m \in ToSet(a.members) : m.stored /\ SizeOf(m.data) <= MaxArtifact
    BY <1>2, <1>4, <1>12
  <2> QED
    BY <1>2, <1>7, <1>13, <2>2, <2>3, <2>4, Zenon DEF MembersAccept, read_file
<1>15. PICK at \in DOMAIN f : f[at].path = r /\ f[at].size.num <= MaxReport
  BY <1>1 DEF Lists
<1>16. ASSUME NEW i \in 1 .. Len(f)
       PROVE  EntryFitsAt(a, i, r)
  <2>1. i \in DOMAIN f
    BY <1>3
  <2>2. Member(f[i].path) \notin Expected(f, i - 1)
    <3>1. Member(f[i].path) # Manifest
      BY <1>3, <2>1, MemberIs
    <3>2. ASSUME NEW j \in 1 .. (i - 1), Member(f[i].path) = Member(f[j].path)
          PROVE  FALSE
      <4>1. j \in DOMAIN f /\ j # i
        BY <1>3, <2>1
      <4>2. f[i].path = f[j].path
        BY <1>3, <2>1, <3>2, <4>1, MemberIs
      <4> QED
        BY <1>2, <2>1, <4>1, <4>2
    <3> QED
      BY <3>1, <3>2 DEF Expected
  <2>3. f[i].path = r => f[i].size.num <= MaxReport
    BY <1>2, <1>15, <2>1
  <2> QED
    BY <1>1, <1>2, <1>9, <1>10, <2>1, <2>2, <2>3, FitsIs, Zenon
<1>17. relative(r)
  BY <1>2, <1>15
<1>18. FitTo(a, Len(f), r)
  BY <1>16 DEF FitTo
<1> QED
  BY <1>1, <1>2, <1>7, <1>11, <1>14, <1>15, <1>17, <1>18, AcceptedIs, Zenon

\* Edits of a list leave a list.
LEMMA ListEdits ==
  ASSUME NEW S, NEW s \in Seq(S), NEW i \in DOMAIN s, NEW x \in S
  PROVE  s[i] \in S /\ [s EXCEPT ![i] = x] \in Seq(S) /\ RemoveAt(s, i) \in Seq(S) /\ Append(s, x) \in Seq(S)
<1>1. Len(s) \in Nat /\ DOMAIN s = 1 .. Len(s) /\ i \in 1 .. Len(s)
  BY LenProperties
<1>2. s[i] \in S /\ Append(s, x) \in Seq(S)
  BY <1>1, ElementOfSeq, AppendProperties
<1>3. [s EXCEPT ![i] = x] \in Seq(S)
  BY <1>1, ExceptSeq
<1>4. SubSeq(s, 1, i - 1) \in Seq(S)
  BY <1>1, SubSeqProperties
<1>5. SubSeq(s, i + 1, Len(s)) \in Seq(S)
  BY <1>1, SubSeqProperties
<1>6. RemoveAt(s, i) \in Seq(S)
  BY <1>4, <1>5, ConcatProperties DEF RemoveAt
<1> QED
  BY <1>2, <1>3, <1>6

\* What is replaced in an archive leaves an archive.
LEMMA ArchiveEdits ==
  ASSUME NEW a \in Archives
  PROVE  /\ \A ms \in Seq(ZipMembers) : [a EXCEPT !.members = ms] \in Archives
         /\ \A f \in Seq(ListedFiles) : [a EXCEPT !.manifest.files = f] \in Archives
         /\ \A k \in Seq(Words) : [a EXCEPT !.manifest.keys = k] \in Archives
         /\ \A n \in Nat : [a EXCEPT !.manifest.total.num = n] \in Archives
         /\ [a EXCEPT !.manifest.header = FALSE] \in Archives
<1>1. \A ms \in Seq(ZipMembers) : [a EXCEPT !.members = ms] \in Archives
  BY DEF Archives
<1>2. \A f \in Seq(ListedFiles) : [a EXCEPT !.manifest.files = f] \in Archives
  BY DEF Archives
<1>3. \A k \in Seq(Words) : [a EXCEPT !.manifest.keys = k] \in Archives
  BY DEF Archives
<1>4. \A n \in Nat : [a EXCEPT !.manifest.total.num = n] \in Archives
  BY DEF Archives, Numbers
<1>5. [a EXCEPT !.manifest.header = FALSE] \in Archives
  BY DEF Archives
<1> QED
  BY <1>1, <1>2, <1>3, <1>4, <1>5

\* An edit of a member leaves an archive.
LEMMA MemberEdited ==
  ASSUME NEW a \in Archives, NEW b \in MemberEdits(a)
  PROVE  b \in Archives
<1>1. PICK i \in DOMAIN a.members :
        \/ \E d \in Data : b = [a EXCEPT !.members[i] = [a.members[i] EXCEPT !.data = d]]
        \/ b = [a EXCEPT !.members[i] = [a.members[i] EXCEPT !.stored = FALSE]]
        \/ b = [a EXCEPT !.members = RemoveAt(@, i)]
        \/ b = [a EXCEPT !.members = Append(@, a.members[i])]
        \/ b = [a EXCEPT !.members = Append(@, [a.members[i] EXCEPT !.name = Member(<<"extra">>)])]
  BY DEF MemberEdits
<1>2. a.members \in Seq(ZipMembers) /\ a.members[i] \in ZipMembers
  BY ListEdits, NamesAre DEF Archives
<1>3. ASSUME NEW m \in ZipMembers
      PROVE  /\ [a EXCEPT !.members[i] = m] \in Archives
             /\ [a EXCEPT !.members = Append(@, m)] \in Archives
             /\ [a EXCEPT !.members = RemoveAt(@, i)] \in Archives
  <2>1. /\ [a.members EXCEPT ![i] = m] \in Seq(ZipMembers)
        /\ Append(a.members, m) \in Seq(ZipMembers) /\ RemoveAt(a.members, i) \in Seq(ZipMembers)
    BY <1>2, ListEdits
  <2>2. PICK x, y, z : /\ x = [a.members EXCEPT ![i] = m]
                       /\ y = Append(a.members, m) /\ z = RemoveAt(a.members, i)
    OBVIOUS
  <2>3. /\ [a EXCEPT !.members = x] \in Archives /\ [a EXCEPT !.members = y] \in Archives
        /\ [a EXCEPT !.members = z] \in Archives
    BY <2>1, <2>2, ArchiveEdits
  <2> QED
    BY <2>2, <2>3
<1>4. /\ \A d \in Data : [a.members[i] EXCEPT !.data = d] \in ZipMembers
      /\ [a.members[i] EXCEPT !.stored = FALSE] \in ZipMembers
  BY <1>2 DEF ZipMembers
<1>5. [a.members[i] EXCEPT !.name = Member(<<"extra">>)] \in ZipMembers
  <2>1. <<"extra">> \in Paths
    BY ReportAssumption DEF Paths
  <2>2. Member(<<"extra">>) \in Paths
    BY <2>1, MemberIs
  <2> QED
    BY <1>2, <2>2 DEF ZipMembers
<1> QED
  BY <1>1, <1>2, <1>3, <1>4, <1>5

\* An edit of an entry leaves an entry.
LEMMA EntryEdited ==
  ASSUME NEW e \in ListedFiles, NEW x \in EntryEdits(e)
  PROVE  x \in ListedFiles
<1>1. e.size.num \in Nat /\ e.size.num + 1 \in Nat
  BY DEF ListedFiles, Numbers
<1>2. \/ \E f \in Data \cup {"malformed"} : x = [e EXCEPT !.fingerprint = f]
      \/ \E n \in {e.size.num, e.size.num + 1}, f \in {"int", "decimal", "padded"} :
           x = [e EXCEPT !.size = [num |-> n, form |-> f]]
      \/ \E q \in {<<"..", "x">>, Report, <<"extra">>} : x = [e EXCEPT !.path = q]
      \/ x = [e EXCEPT !.kind = "Symlink"]
  BY DEF EntryEdits
<1>3. \A q \in {<<"..", "x">>, Report, <<"extra">>} : q \in Paths
  <2>1. ".." \in Words /\ "x" \in Words /\ "extra" \in Words /\ Report \in Paths
    BY ReportAssumption
  <2>2. \A v, w \in Words : <<v, w>> \in Seq(Words) /\ <<w>> \in Seq(Words)
    OBVIOUS
  <2>3. <<"..", "x">> \in Paths /\ <<"extra">> \in Paths
    BY <2>1, <2>2, Zenon DEF Paths
  <2> QED
    BY <2>1, <2>3, Zenon
<1>4. \A n \in {e.size.num, e.size.num + 1}, f \in {"int", "decimal", "padded"} : [num |-> n, form |-> f] \in Numbers
  BY <1>1, ReportAssumption DEF Numbers
<1>5. ASSUME NEW f \in Data \cup {"malformed"}
      PROVE  [e EXCEPT !.fingerprint = f] \in ListedFiles
  BY DEF ListedFiles
<1>6. ASSUME NEW n \in Numbers
      PROVE  [e EXCEPT !.size = n] \in ListedFiles
  BY DEF ListedFiles
<1>7. ASSUME NEW q \in Paths
      PROVE  [e EXCEPT !.path = q] \in ListedFiles
  BY DEF ListedFiles
<1>8. [e EXCEPT !.kind = "Symlink"] \in ListedFiles
  BY ReportAssumption DEF ListedFiles
<1> QED
  BY <1>2, <1>3, <1>4, <1>5, <1>6, <1>7, <1>8

\* An edit of the manifest leaves an archive.
LEMMA ManifestEdited ==
  ASSUME NEW a \in Archives, NEW b \in ManifestEdits(a)
  PROVE  b \in Archives
<1>1. \/ \E i \in DOMAIN a.manifest.files :
           \/ \E e \in EntryEdits(a.manifest.files[i]) : b = [a EXCEPT !.manifest.files[i] = e]
           \/ b = [a EXCEPT !.manifest.files = RemoveAt(@, i)]
           \/ b = [a EXCEPT !.manifest.files = Append(@, a.manifest.files[i])]
      \/ b = [a EXCEPT !.manifest.total.num = @ + 1]
      \/ b = [a EXCEPT !.manifest.header = FALSE]
      \/ b = [a EXCEPT !.manifest.keys = Append(@, "files")]
  <2>1. ASSUME NEW i \in DOMAIN a.manifest.files, b \in FileEdits(a, i)
        PROVE  \/ \E e \in EntryEdits(a.manifest.files[i]) : b = [a EXCEPT !.manifest.files[i] = e]
               \/ b = [a EXCEPT !.manifest.files = RemoveAt(@, i)]
               \/ b = [a EXCEPT !.manifest.files = Append(@, a.manifest.files[i])]
    BY <2>1, Zenon DEF FileEdits
  <2> QED
    BY <2>1, Zenon DEF ManifestEdits
<1>2. PICK f : f = a.manifest.files
  OBVIOUS
<1>3. f \in Seq(ListedFiles)
  BY <1>2 DEF Archives
<1>4. ASSUME NEW i \in DOMAIN f,
             \/ \E e \in EntryEdits(f[i]) : b = [a EXCEPT !.manifest.files[i] = e]
             \/ b = [a EXCEPT !.manifest.files = RemoveAt(@, i)]
             \/ b = [a EXCEPT !.manifest.files = Append(@, f[i])]
      PROVE  b \in Archives
  <2>1. f[i] \in ListedFiles
    BY <1>2, FilesAre, ElementOfSeq
  <2>2. CASE \E e \in EntryEdits(f[i]) : b = [a EXCEPT !.manifest.files[i] = e]
    <3>1. PICK e \in EntryEdits(f[i]) : b = [a EXCEPT !.manifest.files[i] = e]
      BY <2>2
    <3>2. PICK x : x = [f EXCEPT ![i] = e]
      OBVIOUS
    <3>3. x \in Seq(ListedFiles)
      BY <1>3, <2>1, <3>2, EntryEdited, ListEdits
    <3>4. b = [a EXCEPT !.manifest.files = x]
      BY <1>2, <3>1, <3>2
    <3> QED
      BY <3>3, <3>4, ArchiveEdits
  <2>3. CASE b = [a EXCEPT !.manifest.files = RemoveAt(@, i)]
    <3>1. PICK x : x = RemoveAt(f, i)
      OBVIOUS
    <3>2. x \in Seq(ListedFiles) /\ b = [a EXCEPT !.manifest.files = x]
      BY <1>2, <1>3, <2>1, <2>3, <3>1, ListEdits
    <3> QED
      BY <3>2, ArchiveEdits
  <2>4. CASE b = [a EXCEPT !.manifest.files = Append(@, f[i])]
    <3>1. PICK x : x = Append(f, f[i])
      OBVIOUS
    <3>2. x \in Seq(ListedFiles) /\ b = [a EXCEPT !.manifest.files = x]
      BY <1>2, <1>3, <2>1, <2>4, <3>1, ListEdits
    <3> QED
      BY <3>2, ArchiveEdits
  <2> QED
    BY <1>4, <2>2, <2>3, <2>4
<1>5. CASE b = [a EXCEPT !.manifest.total.num = @ + 1]
  <2>1. a.manifest.total.num + 1 \in Nat
    BY DEF Archives, Numbers
  <2>2. PICK n : n = a.manifest.total.num + 1
    OBVIOUS
  <2>3. n \in Nat /\ b = [a EXCEPT !.manifest.total.num = n]
    BY <1>5, <2>1, <2>2
  <2> QED
    BY <2>3, ArchiveEdits
<1>6. CASE b = [a EXCEPT !.manifest.header = FALSE]
  BY <1>6, ArchiveEdits
<1>7. CASE b = [a EXCEPT !.manifest.keys = Append(@, "files")]
  <2>1. a.manifest.keys \in Seq(Words) /\ "files" \in Words
    BY ReportAssumption DEF Archives
  <2>2. PICK k : k = Append(a.manifest.keys, "files")
    OBVIOUS
  <2>3. k \in Seq(Words) /\ b = [a EXCEPT !.manifest.keys = k]
    BY <1>7, <2>1, <2>2, AppendProperties
  <2> QED
    BY <2>3, ArchiveEdits
<1> QED
  BY <1>1, <1>2, <1>4, <1>5, <1>6, <1>7

\* The archives stay archives, whatever is done to them.
ArchivesInv == archives \in [Side2 -> Archives]

\* It holds of the product's archives.
LEMMA ArchivesInvInit == Init => ArchivesInv
<1>1. Product \in Archives
  BY ReportAssumption
<1> QED
  BY <1>1 DEF Init, ReportInit, ArchivesInv

\* Every step keeps it: only Tamper and ReadBundles touch the archives.
LEMMA ArchivesInvNext == ArchivesInv /\ [Next]_vars => ArchivesInv'
<1> SUFFICES ASSUME ArchivesInv, [Next]_vars
             PROVE  ArchivesInv'
  OBVIOUS
<1>1. ASSUME NEW s \in Side2, Tamper(s)
      PROVE  ArchivesInv'
  <2>1. PICK a \in MemberEdits(archives[s]) \cup ManifestEdits(archives[s]) :
          archives' = [archives EXCEPT ![s] = a]
    BY <1>1 DEF Tamper
  <2>2. a \in Archives
    BY <1>1, MemberEdited, ManifestEdited DEF ArchivesInv
  <2> QED
    BY <2>1, <2>2 DEF ArchivesInv
<1>2. ASSUME ReadBundles
      PROVE  ArchivesInv'
  BY <1>2, ReportAssumption DEF ReadBundles, ArchivesInv
<1>3. ASSUME UNCHANGED archives
      PROVE  ArchivesInv'
  BY <1>3 DEF ArchivesInv
<1>4. ASSUME ReportNext, ~ReadBundles, \A s \in Side2 : ~Tamper(s)
      PROVE  UNCHANGED archives
  <2>1. Refuse \/ Reads => UNCHANGED archives
    BY DEF Refuse, Reads
  <2>2. CASE \E l \in Lines : ReadLine(l)
    BY <2>1, <2>2 DEF ReadLine
  <2>3. CASE \E e \in Elements : StartElement(e.tag, e.attrs)
    BY <2>1, <2>3 DEF StartElement
  <2>4. CASE EndElement \/ Text \/ Declaration
    BY <2>1, <2>4 DEF EndElement, Text, Declaration
  <2>5. CASE EndReport
    BY <2>1, <2>5 DEF EndReport
  <2> QED
    BY <1>4, <2>2, <2>3, <2>4, <2>5 DEF ReportNext
<1>5. CASE tool = "sqlite" /\ SessionNext /\ UNCHANGED reportVars
  BY <1>3, <1>5 DEF reportVars
<1>6. CASE ReportNext
  BY <1>1, <1>2, <1>3, <1>4, <1>6
<1>7. CASE UNCHANGED vars
  BY <1>3, <1>7 DEF vars, reportVars
<1> QED
  BY <1>5, <1>6, <1>7 DEF Next

\* An archive is accepted exactly when it is consistent and lists the report.
LEMMA InvBundleExact == ArchivesInv => BundleExact
<1> SUFFICES ASSUME ArchivesInv, NEW s \in Side2, NEW a, a = archives[s]
             PROVE  LET f == a.manifest.files
                        listed == {f[i].fingerprint :
                                     i \in {j \in DOMAIN f : f[j].path = Report /\ f[j].size.num <= MaxReport}} IN
                    IF Consistent(a) /\ listed # {}
                    THEN bundle(a, Report) # <<>> /\ bundle(a, Report)[1] \in listed
                    ELSE bundle(a, Report) = <<>>
  BY DEF BundleExact
<1>1. a \in Archives
  BY DEF ArchivesInv
<1>2. PICK f : f = a.manifest.files
  OBVIOUS
<1>3. PICK listed : listed = {f[i].fingerprint :
                                i \in {j \in DOMAIN f : f[j].path = Report /\ f[j].size.num <= MaxReport}}
  OBVIOUS
<1>4. listed # {} <=> Lists(a, Report)
  BY <1>2, <1>3 DEF Lists
<1>5. bundleAccepts(a, Report) <=> Consistent(a) /\ listed # {}
  BY <1>1, <1>4, AcceptedConsistent, ConsistentAccepted
<1>6. CASE bundleAccepts(a, Report)
  <2>1. PICK i \in DOMAIN f : /\ f[i].path = Report /\ f[i].size.num <= MaxReport
                              /\ bundle(a, Report) = <<f[i].fingerprint>>
    BY <1>1, <1>2, <1>6, BundleReturns
  <2>2. f[i].fingerprint \in listed
    BY <1>3, <2>1
  <2>3. bundle(a, Report) # <<>> /\ bundle(a, Report)[1] = f[i].fingerprint
    BY <2>1
  <2> QED
    BY <1>2, <1>3, <1>5, <1>6, <2>2, <2>3
<1>7. CASE ~bundleAccepts(a, Report)
  <2>1. bundle(a, Report) = <<>>
    BY <1>7 DEF bundle
  <2> QED
    BY <1>2, <1>3, <1>5, <1>7, <2>1
<1> QED
  BY <1>6, <1>7

\* What a consistent archive holds.
LEMMA ConsistentHolds ==
  ASSUME NEW a, Consistent(a)
  PROVE  /\ \A i \in DOMAIN a.members : a.members[i].stored
         /\ \A i, k \in DOMAIN a.members : a.members[i].name = a.members[k].name => i = k
         /\ \A k \in Held(a) : \E i \in DOMAIN a.manifest.files :
              a.members[k].name = Member(a.manifest.files[i].path)
         /\ \A i \in DOMAIN a.manifest.files : Holds(a, a.manifest.files[i])
  BY Zenon DEF Consistent, Held, Holds

\* Consistent archives with one manifest hold the same artifacts.
LEMMA ManifestDetermines ==
  ASSUME NEW b \in Archives, NEW a \in Archives, Consistent(b), Consistent(a), b.manifest = a.manifest,
         NEW m \in ToSet(b.members), m.name # Manifest
  PROVE  m \in ToSet(a.members)
<1>1. PICK f : f = b.manifest.files /\ f = a.manifest.files
  OBVIOUS
<1>2. PICK j \in DOMAIN b.members : m = b.members[j]
  BY DEF ToSet
<1>3. /\ \A i \in DOMAIN b.members : b.members[i].stored
      /\ \A i, k \in DOMAIN b.members : b.members[i].name = b.members[k].name => i = k
      /\ \A k \in Held(b) : \E i \in DOMAIN f : b.members[k].name = Member(f[i].path)
      /\ \A i \in DOMAIN f : Holds(b, f[i])
  BY <1>1, ConsistentHolds
<1>4. /\ \A i \in DOMAIN a.members : a.members[i].stored
      /\ \A i \in DOMAIN f : Holds(a, f[i])
  BY <1>1, ConsistentHolds
<1>5. j \in Held(b) /\ m.stored /\ m \in ZipMembers
  BY <1>2, <1>3, NamesAre DEF Held
<1>6. PICK i \in DOMAIN f : m.name = Member(f[i].path)
  BY <1>2, <1>3, <1>5
<1>7. PICK k \in Held(b) : b.members[k].name = Member(f[i].path) /\ b.members[k].data = f[i].fingerprint
  BY <1>3 DEF Holds
<1>8. m.data = f[i].fingerprint
  BY <1>2, <1>3, <1>6, <1>7 DEF Held
<1>9. PICK l \in Held(a) : a.members[l].name = Member(f[i].path) /\ a.members[l].data = f[i].fingerprint
  BY <1>4 DEF Holds
<1>10. PICK x : x = a.members[l]
  OBVIOUS
<1>11. l \in DOMAIN a.members /\ x.stored /\ x \in ZipMembers
  BY <1>4, <1>9, <1>10, NamesAre DEF Held
<1>12. x.name = m.name /\ x.data = m.data /\ x.stored = m.stored
  <2>1. x.stored = TRUE /\ m.stored = TRUE
    BY <1>5, <1>11 DEF ZipMembers
  <2> QED
    BY <1>6, <1>8, <1>9, <1>10, <2>1
<1>13. x = m
  BY <1>5, <1>11, <1>12 DEF ZipMembers
<1> QED
  BY <1>10, <1>11, <1>13 DEF ToSet

\* What an accepted archive's manifest lists is what it holds.
LEMMA InvManifestPins == ArchivesInv => ManifestPinsContents
<1> SUFFICES ASSUME ArchivesInv, NEW b, NEW a, b = archives["before"], a = archives["after"],
                    b.manifest = a.manifest, bundle(b, Report) # <<>>, bundle(a, Report) # <<>>,
                    NEW m \in ToSet(b.members), m.name # Manifest
             PROVE  m \in ToSet(a.members)
  BY DEF ManifestPinsContents, Side2
<1>1. b \in Archives /\ a \in Archives
  BY DEF ArchivesInv, Side2
<1>2. bundleAccepts(b, Report) /\ bundleAccepts(a, Report)
  BY DEF bundle
<1>3. Consistent(b) /\ Consistent(a)
  BY <1>1, <1>2, AcceptedConsistent
<1> QED
  BY <1>1, <1>3, ManifestDetermines, Zenon

\* `bundle' can be relied on: it accepts exactly the archives whose manifest
\* and members agree, however they were edited, of any size, and an accepted
\* manifest determines every byte that is reviewed.
THEOREM ArchivesCanBeTrusted == Spec => []ArchivesTrusted
<1>1. ArchivesInv => ArchivesTrusted
  BY InvBundleExact, InvManifestPins DEF ArchivesTrusted
<1> QED
  BY <1>1, ArchivesInvInit, ArchivesInvNext, PTL DEF Spec

(***************************************************************************)
(* A session of the SQLite review, and the tools together.                 *)
(***************************************************************************)

\* What the tools keep: a session of the SQLite review is one of the sessions
\* given, and the other tools leave theirs empty.
ToolsInv == SessionInv /\ (tool = "sqlite" => pinned \in Sessions)

\* The empty session satisfies it, and so does every session that begins.
LEMMA ToolsInvInit ==
  ASSUME Init
  PROVE  ToolsInv
<1>1. ASSUME NEW t \in {"coverage", "junit"}, ReportInit(t), SessionInit(NoSession)
      PROVE  ToolsInv
  <2>1. tool # "sqlite"
    BY <1>1 DEF ReportInit
  <2>2. NoDatabase.objects = {}
    BY DEF NoDatabase
  <2>3. IsFiniteSet(NoDatabase.objects)
    BY <2>2, FS_EmptySet
  <2>4. IsDatabase(NoDatabase)
    BY <2>2, <2>3 DEF IsDatabase
  <2>5. DOMAIN NoSession = Sides /\ NoSession["before"] = NoDatabase /\ NoSession["after"] = NoDatabase
    BY DEF NoSession, Sides
  <2>6. SessionInv
    BY <1>1, <2>4, <2>5, SessionInvInit
  <2> QED
    BY <2>1, <2>6 DEF ToolsInv
<1>2. ASSUME NEW s \in Sessions, SessionInit(s)
      PROVE  ToolsInv
  <2>1. DOMAIN s = Sides /\ IsDatabase(s["before"]) /\ IsDatabase(s["after"])
    BY <1>2, SessionAssumption DEF Sides
  <2>2. SessionInv
    BY <1>2, <2>1, SessionInvInit
  <2>3. pinned \in Sessions
    BY <1>2 DEF SessionInit
  <2> QED
    BY <2>2, <2>3 DEF ToolsInv
<1> QED
  BY <1>1, <1>2 DEF Init

\* A run stays with its tool.
LEMMA ToolKept ==
  ASSUME ReportNext
  PROVE  tool' = tool
<1>1. ASSUME NEW l \in Lines, ReadLine(l)
      PROVE  tool' = tool
  BY <1>1, Zenon DEF ReadLine, Refuse, Reads
<1>2. ASSUME NEW e \in Elements, StartElement(e.tag, e.attrs)
      PROVE  tool' = tool
  BY <1>2, Zenon DEF StartElement, Refuse, Reads
<1>3. ASSUME NEW s \in Side2, Tamper(s)
      PROVE  tool' = tool
  BY <1>3, Zenon DEF Tamper
<1>4. CASE ReadBundles \/ EndElement \/ Text \/ Declaration \/ EndReport
  BY <1>4, Zenon DEF ReadBundles, EndElement, Text, Declaration, EndReport, Refuse, Reads
<1> QED
  BY <1>1, <1>2, <1>3, <1>4, Zenon DEF ReportNext

\* Every step of the tools keeps it.
LEMMA ToolsInvNext ==
  ASSUME ToolsInv, [Next]_vars
  PROVE  ToolsInv'
<1>1. SessionInv /\ (tool = "sqlite" => pinned \in Sessions)
  BY DEF ToolsInv
<1>2. CASE tool = "sqlite" /\ SessionNext /\ UNCHANGED reportVars
  <2>1. SessionInv' /\ pinned' = pinned
    BY <1>1, <1>2, SessionStep
  <2>2. tool' = tool
    BY <1>2 DEF reportVars
  <2> QED
    BY <1>1, <2>1, <2>2 DEF ToolsInv
<1>3. CASE UNCHANGED sessionVars /\ tool' = tool
  <2>1. SessionInv' /\ pinned' = pinned
    BY <1>1, <1>3, SessionKept
  <2> QED
    BY <1>1, <1>3, <2>1 DEF ToolsInv
<1>4. CASE tool # "sqlite" /\ ReportNext /\ UNCHANGED sessionVars
  <2>1. tool' = tool
    BY <1>4, ToolKept
  <2> QED
    BY <1>3, <1>4, <2>1
<1>5. CASE UNCHANGED vars
  <2>1. UNCHANGED sessionVars /\ tool' = tool
    BY <1>5, Zenon DEF vars, reportVars
  <2> QED
    BY <1>3, <2>1
<1> QED
  BY <1>2, <1>4, <1>5 DEF Next

\* In every state of the tools the answer on the screen is that of its
\* operation on an archive the reviewer has read or that has taken its place.
THEOREM SessionInvariant == Spec => []SessionInv
<1>1. Init => ToolsInv
  BY ToolsInvInit
<1>2. ToolsInv /\ [Next]_vars => ToolsInv'
  BY ToolsInvNext
<1>3. ToolsInv => SessionInv
  BY DEF ToolsInv
<1> QED
  BY <1>1, <1>2, <1>3, PTL DEF Spec

\* Readers stay within the bounds of their reports and answers within the
\* bounds of their requests, whatever a report contains and a reviewer asks.
THEOREM ToolsStayBounded == Spec => []TypeOK
<1>1. SessionInv => SessionTypeOK
  BY SessionTyped
<1>2. ReportTypeOK /\ SessionTypeOK => TypeOK
  BY DEF TypeOK
<1> QED
  BY <1>1, <1>2, SessionInvariant, ReadersStayBounded, PTL

\* No answer is a part that looks like the whole: the pages of a walk that
\* carries the fingerprint are one pass over the result, also when an archive
\* is replaced between two of them, and the status shown with a page, a query
\* and a scan speak of every row.
THEOREM NothingIsCutShort == Spec => []AnswersComplete
<1>1. SessionInv => AnswersComplete
  BY CompleteHolds
<1> QED
  BY <1>1, SessionInvariant, PTL

\* What a command shows can be handed to the next one as it stands and means
\* the same rows there: a locator, a value, a reference, a group, a navigation.
THEOREM WhatIsShownIsAccepted == Spec => []ShownCanBeFollowed
<1>1. SessionInv => ShownCanBeFollowed
  BY FollowedHolds
<1> QED
  BY <1>1, SessionInvariant, PTL

\* Two commands that ask the same question in different ways agree, whether
\* SQLite or Python does the comparing.
THEOREM CommandsAgree == Spec => []QuestionsAgree
<1>1. SessionInv => QuestionsAgree
  BY QuestionsHold
<1> QED
  BY <1>1, SessionInvariant, PTL

\* A summary counts every selected row once, each measure is the exact sum and
\* shows the first rows with the extremes, and a crosstab counts what the
\* summaries by its columns count: Measure.add and the totals of `crosstab' are
\* exact whatever the table and the order of its groups.
THEOREM SummariesAreExact == Spec => []SummariesExact
<1>1. SessionInv => SummariesExact
  BY SummariesHold
<1> QED
  BY <1>1, SessionInvariant, PTL
=============================================================================
