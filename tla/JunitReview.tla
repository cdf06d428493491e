----------------------------- MODULE JunitReview -----------------------------
(***************************************************************************)
(* The JUnit reader and comparison of tools/junit_review.py.  The XML      *)
(* parser (expat, external) calls start, end and text in document order    *)
(* and guarantees that elements nest.  j is the state the three handlers   *)
(* share.  Attributes are [name, time, status, result], a name "absent" an *)
(* element without one; `name' stands for classname and name, `time' for   *)
(* time, file and line, and a diagnostic is its kind and its text.         *)
(***************************************************************************)
EXTENDS ReviewBundle

CONSTANTS MaxDepth, MaxCases

ASSUME JunitAssumption == {MaxDepth, MaxCases} \subseteq Nat \ {0}

Outcomes == {"failure", "error", "skipped"}
NoDocument == [stack |-> <<>>, suites |-> <<>>, cases |-> <<>>, current |-> <<>>, diagnostic |-> 0]

\* start: where an element may stand, and which attributes of a testcase agree.
Parent(j) == IF j.stack = <<>> THEN "none" ELSE j.stack[Len(j.stack)]
AttributesAgree(attrs) ==
  /\ attrs.status \in {"", "run", "notrun"}
  /\ attrs.result \in {"", "completed", "suppressed", "skipped"}
  /\ ~(attrs.status = "notrun" /\ attrs.result = "completed")
startAccepts(j, tag, attrs) ==
  /\ Len(j.stack) < MaxDepth
  /\ IF j.stack = <<>> THEN tag \in {"testsuites", "testsuite"}
     ELSE CASE tag = "testsuite" -> Parent(j) \in {"testsuites", "testsuite"} /\ j.current = <<>>
            [] tag = "testcase" -> /\ Parent(j) = "testsuite" /\ j.current = <<>>
                                   /\ Len(j.cases) < MaxCases /\ attrs.name # "absent" /\ AttributesAgree(attrs)
            [] tag \in Outcomes -> Parent(j) = "testcase" /\ j.current # <<>>
            [] tag \in {"properties", "system-out", "system-err"} -> Parent(j) \in {"testsuite", "testcase"}
            [] tag = "property" -> Parent(j) = "properties"
            [] OTHER -> FALSE
SuiteName(attrs) == IF attrs.name = "absent" THEN "" ELSE attrs.name
Case(j, attrs) ==
  [suite_path |-> j.suites, name |-> attrs.name, test_index |-> Len(j.cases) + 1,
   time |-> attrs.time, status |-> attrs.status, result |-> attrs.result, diagnostics |-> <<>>,
   outcome |-> "none"]
Noted(case, tag) == [case EXCEPT !.diagnostics = Append(@, [kind |-> tag, text |-> 0])]
start(j, tag, attrs) ==
  [j EXCEPT
     !.stack = Append(@, tag),
     !.suites = IF tag = "testsuite" THEN Append(@, SuiteName(attrs)) ELSE @,
     !.diagnostic = IF tag \in Outcomes THEN Len(j.current[1].diagnostics) + 1 ELSE @,
     !.current = CASE tag = "testcase" -> <<Case(j, attrs)>>
                   [] tag \in Outcomes -> <<Noted(j.current[1], tag)>>
                   [] OTHER -> @]

\* end: a testcase gets its outcome when it closes.
Kinds(case) == {case.diagnostics[i].kind : i \in DOMAIN case.diagnostics}
Skipped(case) ==
  "skipped" \in Kinds(case) \/ case.status = "notrun" \/ case.result \in {"suppressed", "skipped"}
endAccepts_Silent(j, tag) == TRUE

endAccepts(j, tag) ==
  tag = "testcase" => ~(Skipped(j.current[1]) /\ Kinds(j.current[1]) \cap {"error", "failure"} # {})
OutcomeOf(case) ==
  IF Skipped(case) THEN "skipped"
  ELSE IF "error" \in Kinds(case) THEN "error"
  ELSE IF "failure" \in Kinds(case) THEN "failed"
  ELSE "passed"
Closed(case) == [case EXCEPT !.outcome = OutcomeOf(case)]
end_KeepsDiagnostic(j, tag) ==
  [j EXCEPT
     !.stack = Front(@),
     !.suites = IF tag = "testsuite" THEN Front(@) ELSE @,
     !.cases = IF tag = "testcase" THEN Append(@, Closed(j.current[1])) ELSE @,
     !.current = IF tag = "testcase" THEN <<>> ELSE @,
     !.diagnostic = IF tag = "testcase" THEN 0 ELSE @]
end_KeepsSuite(j, tag) ==
  [j EXCEPT
     !.stack = Front(@),
     !.suites = IF tag = "testsuite" /\ Len(j.stack) = 1 THEN Front(@) ELSE @,
     !.diagnostic = IF tag \in Outcomes THEN 0 ELSE @,
     !.cases = IF tag = "testcase" THEN Append(@, Closed(j.current[1])) ELSE @,
     !.current = IF tag = "testcase" THEN <<>> ELSE @]

end(j, tag) ==
  [j EXCEPT
     !.stack = Front(@),
     !.suites = IF tag = "testsuite" THEN Front(@) ELSE @,
     !.diagnostic = IF tag \in Outcomes THEN 0 ELSE @,
     !.cases = IF tag = "testcase" THEN Append(@, Closed(j.current[1])) ELSE @,
     !.current = IF tag = "testcase" THEN <<>> ELSE @]

\* text: character data belongs to the diagnostic that is open, if one is.
text(j) ==
  IF j.diagnostic = 0 THEN j
  ELSE [j EXCEPT !.current[1].diagnostics[j.diagnostic].text = @ + 1]

\* compare_cases: cases by identity, each list in the order of the report; an
\* identity that either side has twice is not paired.
Identity(case) == <<case.suite_path, case.name>>
grouped(cases) ==
  [id \in {Identity(c) : c \in ToSet(cases)} |->
     Picked(cases, {i \in DOMAIN cases : Identity(cases[i]) = id})]
Side(groups, id) == IF id \in DOMAIN groups THEN groups[id] ELSE <<>>
Details(case) == <<case.time, case.status, case.result, case.diagnostics>>
CaseStatus_FirstWins(previous, next) ==
  IF previous = <<>> THEN "added"
  ELSE IF next = <<>> THEN "removed"
  ELSE IF previous[1].outcome # next[1].outcome THEN "changed-outcome"
  ELSE IF Details(previous[1]) # Details(next[1]) THEN "changed-details"
  ELSE "unchanged"

CaseStatus(previous, next) ==
  IF Len(previous) > 1 \/ Len(next) > 1 THEN "ambiguous-identity"
  ELSE IF previous = <<>> THEN "added"
  ELSE IF next = <<>> THEN "removed"
  ELSE IF previous[1].outcome # next[1].outcome THEN "changed-outcome"
  ELSE IF Details(previous[1]) # Details(next[1]) THEN "changed-details"
  ELSE "unchanged"
compare_cases(before, after, changes_only) ==
  LET old == grouped(before)
      new == grouped(after)
      ids == DOMAIN old \cup DOMAIN new
      row == [id \in ids |-> [status |-> CaseStatus(Side(old, id), Side(new, id)),
                              before |-> Side(old, id), after |-> Side(new, id)]]
      statuses == {row[id].status : id \in ids} IN
  [rows |-> [id \in {i \in ids : ~(changes_only /\ row[i].status = "unchanged")} |-> row[id]],
   counts |-> [s \in statuses |-> Cardinality({id \in ids : row[id].status = s})]]
=============================================================================
