--------------------------- MODULE CoverageReview ----------------------------
(***************************************************************************)
(* The LCOV reader and comparison of tools/coverage_review.py.  A report   *)
(* is read line by line: p is the reader's state and a line is [tag, text, *)
(* n, m], where text is the test name of a TN, the path of an SF or the    *)
(* checksum of a DA ("" for none), n the source line of a DA or the value  *)
(* of a counter, and m the hits of a DA.  An optional value is a sequence  *)
(* of length at most one.                                                  *)
(***************************************************************************)
EXTENDS ReviewBundle

CONSTANTS MaxRecords, MaxObservations, MaxNumber

ASSUME CoverageAssumption == {MaxRecords, MaxObservations, MaxNumber} \subseteq Nat \ {0}

Line(tag, text, n, m) == [tag |-> tag, text |-> text, n |-> n, m |-> m]

\* The reader before the first line.
NoReport ==
  [current |-> <<>>, test_name |-> "", pending_test |-> FALSE, records |-> 0, count |-> 0,
   groups |-> <<>>]

\* The summary counters of a record, where it has them, are those of its lines.
Hit(lines) == {n \in DOMAIN lines : lines[n].hits > 0}
CountersAgree(record) ==
  LET actual == [LF |-> Cardinality(DOMAIN record.lines), LH |-> Cardinality(Hit(record.lines))] IN
  \A key \in DOMAIN record.counters : record.counters[key] = actual[key]

\* The conditions of lcov on one line.
lineAccepts_Unbounded(p, l) ==
  CASE l.tag = "TN" -> p.current = <<>> /\ ~p.pending_test
    [] l.tag = "SF" -> l.text # "" /\ p.current = <<>> /\ p.records <= MaxRecords
    [] l.tag = "end_of_record" -> p.current # <<>> /\ CountersAgree(p.current[1])
    [] l.tag = "DA" -> /\ p.current # <<>> /\ l.n \in 1..MaxNumber /\ l.m \in 0..MaxNumber
                       /\ l.n \notin DOMAIN p.current[1].lines
                       /\ p.count <= MaxObservations
    [] OTHER -> p.current # <<>> /\ l.tag = "FN"
lineAccepts_Repeats(p, l) ==
  CASE l.tag = "TN" -> p.current = <<>> /\ ~p.pending_test
    [] l.tag = "SF" -> l.text # "" /\ p.current = <<>> /\ p.records < MaxRecords
    [] l.tag = "end_of_record" -> p.current # <<>> /\ CountersAgree(p.current[1])
    [] l.tag = "DA" -> /\ p.current # <<>> /\ l.n \in 1..MaxNumber /\ l.m \in 0..MaxNumber
                       /\ p.count < MaxObservations
    [] l.tag \in {"LF", "LH"} -> p.current # <<>> /\ l.tag \notin DOMAIN p.current[1].counters
    [] OTHER -> p.current # <<>> /\ l.tag = "FN"

lineAccepts(p, l) ==
  CASE l.tag = "TN" -> p.current = <<>> /\ ~p.pending_test
    [] l.tag = "SF" -> l.text # "" /\ p.current = <<>> /\ p.records < MaxRecords
    [] l.tag = "end_of_record" -> p.current # <<>> /\ CountersAgree(p.current[1])
    [] l.tag = "DA" -> /\ p.current # <<>> /\ l.n \in 1..MaxNumber /\ l.m \in 0..MaxNumber
                       /\ l.n \notin DOMAIN p.current[1].lines
                       /\ p.count < MaxObservations
    [] l.tag \in {"LF", "LH"} -> p.current # <<>> /\ l.tag \notin DOMAIN p.current[1].counters
    [] OTHER -> p.current # <<>> /\ l.tag = "FN"

\* end_of_record: the record's lines join the groups of their coordinates.
Coordinates(record) == {<<record.path, n>> : n \in DOMAIN record.lines}
Joined(groups, record) ==
  [k \in DOMAIN groups \cup Coordinates(record) |->
     (IF k \in DOMAIN groups THEN groups[k] ELSE <<>>)
     \o (IF k \in Coordinates(record) THEN <<record.lines[k[2]]>> ELSE <<>>)]
EndOfRecord_KeepsName(p) ==
  [p EXCEPT !.groups = Joined(@, p.current[1]), !.current = <<>>, !.pending_test = FALSE]

EndOfRecord(p) ==
  [p EXCEPT !.groups = Joined(@, p.current[1]), !.current = <<>>,
            !.test_name = "", !.pending_test = FALSE]

\* An assignment to a key that a dictionary does not have yet.
Added(dict, key, value) ==
  [k \in DOMAIN dict \cup {key} |-> IF k \in DOMAIN dict THEN dict[k] ELSE value]

\* The reader after one accepted line.
lcov(p, l) ==
  CASE l.tag = "TN" -> [p EXCEPT !.test_name = l.text, !.pending_test = TRUE]
    [] l.tag = "SF" ->
         [p EXCEPT !.records = @ + 1,
                   !.current = <<[path |-> l.text, lines |-> <<>>, counters |-> <<>>]>>]
    [] l.tag = "end_of_record" -> EndOfRecord(p)
    [] l.tag = "DA" ->
         [p EXCEPT !.count = @ + 1,
                   !.current[1].lines =
                     Added(@, l.n, [record |-> p.records, test_name |-> p.test_name,
                                    hits |-> l.m, checksum |-> l.text])]
    [] l.tag \in {"LF", "LH"} -> [p EXCEPT !.current[1].counters = Added(@, l.tag, l.n)]
    [] OTHER -> p

\* A report ends outside a record, with at least one read.
Complete(p) == p.current = <<>> /\ ~p.pending_test /\ p.records > 0

\* aggregate: what one side reports of a coordinate, <<>> when it reports nothing.
aggregate(groups, k) ==
  IF k \notin DOMAIN groups THEN <<>>
  ELSE LET of == ToSet(groups[k])
           carried == {row.checksum : row \in of} IN
       <<[covered |-> \E row \in of : row.hits > 0, checksums |-> carried \ {""},
          missing_checksum |-> "" \in carried, observations |-> groups[k]]>>

\* compare: the status of a coordinate and the ground it stands on.
Covered(side) == side[1].covered
Conflict(side) == side # <<>> /\ Cardinality(side[1].checksums) > 1
BothReport(old, new) ==
  old # <<>> /\ new # <<>> /\ old[1].checksums # {} /\ new[1].checksums # {}
Status_Late(old, new) ==
  IF old = <<>> THEN IF Covered(new) THEN "added-covered" ELSE "added-uncovered"
  ELSE IF new = <<>> THEN IF Covered(old) THEN "removed-covered" ELSE "removed-uncovered"
  ELSE IF Covered(old) /\ ~Covered(new) THEN "covered-to-uncovered"
  ELSE IF ~Covered(old) /\ Covered(new) THEN "uncovered-to-covered"
  ELSE IF Conflict(old) \/ Conflict(new) THEN "checksum-conflict"
  ELSE IF BothReport(old, new) /\ old[1].checksums # new[1].checksums THEN "source-changed"
  ELSE IF Covered(new) THEN "still-covered" ELSE "still-uncovered"

Status(old, new) ==
  IF Conflict(old) \/ Conflict(new) THEN "checksum-conflict"
  ELSE IF BothReport(old, new) /\ old[1].checksums # new[1].checksums THEN "source-changed"
  ELSE IF old = <<>> THEN IF Covered(new) THEN "added-covered" ELSE "added-uncovered"
  ELSE IF new = <<>> THEN IF Covered(old) THEN "removed-covered" ELSE "removed-uncovered"
  ELSE IF Covered(old) /\ ~Covered(new) THEN "covered-to-uncovered"
  ELSE IF ~Covered(old) /\ Covered(new) THEN "uncovered-to-covered"
  ELSE IF Covered(new) THEN "still-covered" ELSE "still-uncovered"
Basis_OneSided(old, new) ==
  IF Conflict(old) \/ Conflict(new) THEN "inconsistent-reported-source"
  ELSE IF BothReport(old, new) /\ old[1].checksums # new[1].checksums
  THEN "different-reported-checksum"
  ELSE IF BothReport(old, new) /\ ~old[1].missing_checksum THEN "same-reported-checksum"
  ELSE "coordinate-only"

Basis(old, new) ==
  IF Conflict(old) \/ Conflict(new) THEN "inconsistent-reported-source"
  ELSE IF BothReport(old, new) /\ old[1].checksums # new[1].checksums
  THEN "different-reported-checksum"
  ELSE IF BothReport(old, new) /\ ~old[1].missing_checksum /\ ~new[1].missing_checksum
  THEN "same-reported-checksum"
  ELSE "coordinate-only"
Still == {"still-covered", "still-uncovered"}
compare(before, after, changes_only) ==
  LET keys == DOMAIN before \cup DOMAIN after
      row == [k \in keys |->
                LET old == aggregate(before, k)
                    new == aggregate(after, k) IN
                [status |-> Status(old, new), basis |-> Basis(old, new), before |-> old, after |-> new]]
      statuses == {row[k].status : k \in keys} IN
  [rows |-> [k \in {j \in keys : ~(changes_only /\ row[j].status \in Still)} |-> row[k]],
   counts |-> [s \in statuses |-> Cardinality({k \in keys : row[k].status = s})]]
=============================================================================
