---------------------------- MODULE SqliteExplore ----------------------------
(***************************************************************************)
(* Complete scans of one retained table and what the review tools derive   *)
(* from them: grouped summaries and the pages of one group                 *)
(* (tools/sqlite_summary.py), crosstabs (sqlite_crosstab.py), numeric      *)
(* bands (sqlite_histogram.py), and the comparison of two copies row by    *)
(* row (sqlite_compare.py) and schema by schema (sqlite_schema_compare.py).*)
(* An answer carries the fingerprint of the copy it was computed from.     *)
(***************************************************************************)
EXTENDS SqliteRelations

CONSTANTS MaxGrouping, MaxCategories, MaxEdges, MaxKeys

\* A summary takes more than one column to group by, as a crosstab does.
ASSUME ExploreAssumption ==
  /\ \A n \in {MaxGrouping, MaxCategories, MaxEdges, MaxKeys, MaxRows} : n \in Nat \ {0}
  /\ MaxGrouping >= 2

\* scan: every selected row in locator order, or a refusal; one row beyond
\* the bound is asked for so that an oversized selection is noticed.
Unanswered == [ok |-> FALSE, rows |-> <<>>]
ScanAnswer_AtBound(rows, sel) ==
  IF \A r \in ToSet(rows) : RowAccepts(r, sel)
  THEN [ok |-> TRUE, rows |-> UpTo(rows, 1, MaxRows)] ELSE Unanswered

ScanAnswer(rows, sel) ==
  IF Len(rows) <= MaxRows /\ \A r \in ToSet(rows) : RowAccepts(r, sel)
  THEN [ok |-> TRUE, rows |-> rows] ELSE Unanswered
scan(db, sel) == ScanAnswer(InOrder(Filtered(db, sel), sel), sel)

Locators(rows, sel) == [i \in DOMAIN rows |-> Cells(rows[i], sel.locator)]

(***************************************************************************)
(* Summaries: [database_sha256, table, group_by, measures, where].         *)
(***************************************************************************)

SummaryColumns(q) ==
  q.group_by \o Picked(q.measures, {i \in DOMAIN q.measures : q.measures[i] \notin ToSet(q.group_by)})
summary_recipeAccepts(q, db, tables) ==
  /\ q.database_sha256 = sha(db)
  /\ \A names \in {q.group_by, q.measures} : Len(names) <= MaxGrouping /\ Distinct(names)
  /\ selection_recipeAccepts(Selecting(q.table, SummaryColumns(q), q.where), tables)
summary_recipe(q, tables, members) ==
  LET sel == selection_recipe(Selecting(q.table, IF members THEN <<>> ELSE SummaryColumns(q), q.where),
                              tables) IN
  IF SummaryColumns(q) = <<>> /\ ~members
  THEN [sel EXCEPT !.columns = SubSeq(@, 1, 1)] ELSE sel

\* Measure.add: counts by storage class, an exact total, and the extrema
\* with the locator of the first row that has them.
NoMeasure ==
  [counts |-> [k \in {"null", "integer", "real", "text", "blob"} |-> 0],
   total |-> 0, minimum |-> <<>>, maximum |-> <<>>]
MeasureAdd_LastExtreme(m, v, locator) ==
  LET seen == <<v.num, cell(v), locator>>
      counted == [m EXCEPT !.counts[v.kind] = @ + 1] IN
  IF v.kind \notin Numeric THEN counted
  ELSE [counted EXCEPT
          !.total = @ + v.num,
          !.minimum = IF @ = <<>> \/ v.num <= @[1] THEN seen ELSE @,
          !.maximum = IF @ = <<>> \/ v.num > @[1] THEN seen ELSE @]

MeasureAdd(m, v, locator) ==
  LET seen == <<v.num, cell(v), locator>>
      counted == [m EXCEPT !.counts[v.kind] = @ + 1] IN
  IF v.kind \notin Numeric THEN counted
  ELSE [counted EXCEPT
          !.total = @ + v.num,
          !.minimum = IF @ = <<>> THEN seen ELSE IF v.num < @[1] THEN seen ELSE @,
          !.maximum = IF @ = <<>> THEN seen ELSE IF v.num > @[1] THEN seen ELSE @]
\* Measure.output: sum and mean exist only over numeric values; the mean is
\* the total over the count.
MeasureOutput(m) ==
  LET count == m.counts["integer"] + m.counts["real"] IN
  [storage_counts |-> m.counts, numeric_count |-> count,
   sum |-> IF count = 0 THEN <<>> ELSE <<m.total>>,
   mean |-> IF count = 0 THEN <<>> ELSE <<m.total, count>>,
   minimum |-> m.minimum, maximum |-> m.maximum]

\* groups: exact typed keys, every row in the group of its key; a measure of
\* a group takes its rows as the scan meets them.
OfGroup(rows, q, key) == Picked(rows, {i \in DOMAIN rows : Cells(rows[i], q.group_by) = key})
MeasureOver(rows, q, key, name, locator) ==
  LET after[n \in 0 .. Len(rows)] ==
        IF n = 0 THEN NoMeasure
        ELSE IF Cells(rows[n], q.group_by) # key THEN after[n - 1]
        ELSE MeasureAdd(after[n - 1], Field(rows[n], name), Cells(rows[n], locator)) IN
  after[Len(rows)]
groups(rows, q, sel) ==
  [k \in {Cells(r, q.group_by) : r \in ToSet(rows)} |->
     LET of == OfGroup(rows, q, k) IN
     [row_count |-> Len(of), locators |-> Locators(of, sel),
      measures |-> [name \in ToSet(q.measures) |->
                      MeasureOutput(MeasureOver(rows, q, k, name, sel.locator))]]]
SummaryAnswer(db, q, sel, s) ==
  IF ~s.ok THEN Refused
  ELSE [op |-> "summarize", database_sha256 |-> sha(db), request |-> q,
        groups |-> groups(s.rows, q, sel), selected_row_count |-> Len(s.rows)]
Summarized(db, q, sel) == SummaryAnswer(db, q, sel, scan(db, sel))
summarize(db, tables, q) ==
  IF summary_recipeAccepts(q, db, tables)
  THEN Summarized(db, q, summary_recipe(q, tables, FALSE)) ELSE Refused

\* group_key: canonical typed cells only.
group_keyAccepts_AnySpelling(key, width) ==
  Len(key) = width /\ \A t \in ToSet(key) : parameterAccepts(t)

group_keyAccepts(key, width) ==
  /\ Len(key) = width
  /\ \A t \in ToSet(key) : parameterAccepts(t) /\ cell(parameter(t)) = t
\* summary_output for group-rows: one page of the members of a group.
GroupPage(of, sel, offset, limit) ==
  Page(UpTo(of, offset + 1, offset + limit), sel, offset, limit, offset + limit < Len(of))
GroupAnswer(db, q, key, of, total, page) ==
  [op |-> "group-rows", database_sha256 |-> sha(db), request |-> q, key |-> key,
   total_group_rows |-> Len(of), selected_row_count |-> total, page |-> page]
OpenedGroup(db, q, key, sel, of, total, offset, limit) ==
  GroupAnswer(db, q, key, of, total, GroupPage(of, sel, offset, limit))
MembersAnswer(db, q, key, sel, s, offset, limit) ==
  IF s.ok THEN OpenedGroup(db, q, key, sel, OfGroup(s.rows, q, key), Len(s.rows), offset, limit)
  ELSE Refused
Members(db, q, key, sel, offset, limit) == MembersAnswer(db, q, key, sel, scan(db, sel), offset, limit)
group_rows(db, tables, q, key, offset, limit) ==
  IF summary_recipeAccepts(q, db, tables) /\ group_keyAccepts(key, Len(q.group_by))
  THEN Members(db, q, key, summary_recipe(q, tables, TRUE), offset, limit) ELSE Refused

(***************************************************************************)
(* Crosstabs: [database_sha256, table, row_column, column_column, where].  *)
(***************************************************************************)

\* The category of a value: its whole typed cell.
AxisKey_Untyped(v) == [cell(v) EXCEPT !.type = IF @ = "real" THEN "integer" ELSE @]

AxisKey(v) == cell(v)
Crosstab(db, q, sel, total, members, row_keys, column_keys) ==
  LET counts == [rc \in DOMAIN members |-> Len(members[rc])] IN
  [op |-> "crosstab", database_sha256 |-> sha(db), request |-> q, counts |-> counts,
   row_totals |-> [k \in row_keys |-> SumFunctionOnSet(counts, {k} \X column_keys)],
   column_totals |-> [k \in column_keys |-> SumFunctionOnSet(counts, row_keys \X {k})],
   cells |-> [rc \in DOMAIN members |-> [i \in DOMAIN members[rc] |-> RowCells(members[rc][i], sel)]],
   columns |-> sel.columns, selected_row_count |-> total]
OfCell(rows, q, rc) ==
  Picked(rows, {i \in DOMAIN rows : <<AxisKey(Field(rows[i], q.row_column)),
                                      AxisKey(Field(rows[i], q.column_column))>> = rc})
CrosstabAnswer(db, q, sel, s) ==
  LET row_keys == {AxisKey(Field(r, q.row_column)) : r \in ToSet(s.rows)}
      column_keys == {AxisKey(Field(r, q.column_column)) : r \in ToSet(s.rows)} IN
  IF \/ ~s.ok \/ Cardinality(row_keys) > MaxCategories \/ Cardinality(column_keys) > MaxCategories
  THEN Refused
  ELSE Crosstab(db, q, sel, Len(s.rows), [rc \in row_keys \X column_keys |-> OfCell(s.rows, q, rc)],
                row_keys, column_keys)
CrosstabOf(db, q, sel) == CrosstabAnswer(db, q, sel, scan(db, sel))
crosstab(db, tables, q) ==
  IF /\ q.database_sha256 = sha(db) /\ q.row_column # q.column_column
     /\ selection_recipeAccepts(Selecting(q.table, <<q.row_column, q.column_column>>, q.where), tables)
  THEN CrosstabOf(db, q, selection_recipe(Selecting(q.table, <<>>, q.where), tables)) ELSE Refused

(***************************************************************************)
(* Numeric bands: [database_sha256, table, column, boundaries, where].     *)
(***************************************************************************)

\* bisect_right over the boundaries: band i holds the numbers from its lower
\* boundary up to and without its upper one.
BandOf_Left(edges, v) == Cardinality({i \in DOMAIN edges : edges[i].num < v.num})

BandOf(edges, v) == Cardinality({i \in DOMAIN edges : edges[i].num <= v.num})
OfBand(rows, q, b) ==
  Picked(rows, {i \in DOMAIN rows : Field(rows[i], q.column).kind \in Numeric
                                    /\ BandOf(q.boundaries, Field(rows[i], q.column)) = b})
OfKind(rows, q, k) == Picked(rows, {i \in DOMAIN rows : Field(rows[i], q.column).kind = k})
BandsAnswer(db, q, sel, s) ==
  LET shown(rows) == [i \in DOMAIN rows |-> RowCells(rows[i], sel)] IN
  IF ~s.ok THEN Refused
  ELSE [op |-> "histogram", database_sha256 |-> sha(db), request |-> q,
        bands |-> [b \in 0..Len(q.boundaries) |-> shown(OfBand(s.rows, q, b))],
        excluded |-> [k \in {"null", "text", "blob"} |-> shown(OfKind(s.rows, q, k))],
        columns |-> sel.columns, selected_row_count |-> Len(s.rows)]
Distributed(db, q, sel) == BandsAnswer(db, q, sel, scan(db, sel))
distribution(db, tables, q) ==
  LET edges == q.boundaries IN
  IF /\ q.database_sha256 = sha(db) /\ Len(edges) \in 1..MaxEdges
     /\ \A i \in DOMAIN edges : parameterAccepts(edges[i]) /\ edges[i].type \in Numeric
     /\ \A i \in 2..Len(edges) : edges[i - 1].num < edges[i].num
     /\ selection_recipeAccepts(Selecting(q.table, <<q.column>>, q.where), tables)
  THEN Distributed(db, q, selection_recipe(Selecting(q.table, <<>>, q.where), tables)) ELSE Refused

(***************************************************************************)
(* Two copies: [before_sha256, after_sha256, table, key_columns, columns]. *)
(***************************************************************************)

\* scan of sqlite_compare.py: the rows of one side by their typed key; a NULL
\* in a key and a key that occurs twice refuse.
KeyOf(r, q) == Cells(r, q.key_columns)
comparisonSelection(tables, q) == selection_recipe(Selecting(q.table, q.columns, <<>>), tables)
Indexable_LastWins(s, sel, q) ==
  /\ ToSet(q.key_columns) \subseteq ToSet(sel.columns) /\ s.ok
  /\ \A r \in ToSet(s.rows) : ~HasNull(r, q.key_columns)

Indexable(s, sel, q) ==
  /\ ToSet(q.key_columns) \subseteq ToSet(sel.columns) /\ s.ok
  /\ \A r \in ToSet(s.rows) : ~HasNull(r, q.key_columns)
  /\ \A i, j \in DOMAIN s.rows : KeyOf(s.rows[i], q) = KeyOf(s.rows[j], q) => i = j
IndexableScan(db, sel, q) == Indexable(scan(db, sel), sel, q)
comparisonScanAccepts(db, tables, fingerprint, q) ==
  /\ fingerprint = sha(db)
  /\ selection_recipeAccepts(Selecting(q.table, q.columns, <<>>), tables)
  /\ IndexableScan(db, comparisonSelection(tables, q), q)
Indexed(rows, sel, q) ==
  [columns |-> sel.columns,
   indexed |-> [k \in {KeyOf(r, q) : r \in rows} |-> RowCells(CHOOSE r \in rows : KeyOf(r, q) = k, sel)]]
comparisonScan(db, sel, q) == Indexed(ToSet(scan(db, sel).rows), sel, q)

\* comparison_recipe: the columns a row is known by.
comparison_recipe(q) == Len(q.key_columns) \in 1..MaxKeys /\ Distinct(q.key_columns)
\* comparison_output: what became of each key of either side.
Change(before, after, k) ==
  IF k \notin DOMAIN before THEN "added"
  ELSE IF k \notin DOMAIN after THEN "removed"
  ELSE IF before[k].values = after[k].values THEN "unchanged" ELSE "changed"
Differing(before, after, k, columns) ==
  IF k \in DOMAIN before /\ k \in DOMAIN after
  THEN {columns[i] : i \in {j \in DOMAIN columns : before[k].values[j] # after[k].values[j]}}
  ELSE ToSet(columns)
ComparisonAnswer(q, columns, before, after, change) ==
  [op |-> "compare", request |-> q, columns |-> columns,
   before_rows |-> Cardinality(DOMAIN before), after_rows |-> Cardinality(DOMAIN after),
   counts |-> [c \in {"added", "removed", "changed", "unchanged"} |->
                 Cardinality({k \in DOMAIN change : change[k] = c})],
   changes |-> [k \in {l \in DOMAIN change : change[l] # "unchanged"} |->
     [change |-> change[k], changed_columns |-> Differing(before, after, k, columns),
      before |-> IF k \in DOMAIN before THEN <<before[k]>> ELSE <<>>,
      after |-> IF k \in DOMAIN after THEN <<after[k]>> ELSE <<>>]]]
CompareSides(q, b, a) ==
  IF b.columns # a.columns THEN Refused
  ELSE ComparisonAnswer(q, b.columns, b.indexed, a.indexed,
         [k \in DOMAIN b.indexed \cup DOMAIN a.indexed |-> Change(b.indexed, a.indexed, k)])
comparison_output(q, before, b, after, a) ==
  IF /\ comparison_recipe(q)
     /\ comparisonScanAccepts(before, b, q.before_sha256, q)
     /\ comparisonScanAccepts(after, a, q.after_sha256, q)
  THEN CompareSides(q, comparisonScan(before, comparisonSelection(b, q), q),
                       comparisonScan(after, comparisonSelection(a, q), q))
  ELSE Refused

\* FIELDS and the comparison of two inventories.  STRICT, which does not
\* change what is read, is left out.
ChangedFields_NoRowid(l, r) ==
  {f \in {"kind", "columns", "foreign_keys"} : l[f] # r[f]}

ChangedFields(l, r) ==
  {f \in {"kind", "without_rowid", "columns", "foreign_keys"} : l[f] # r[f]}
SchemaChange(before, after, name) ==
  IF name \notin DOMAIN before THEN "added"
  ELSE IF name \notin DOMAIN after THEN "removed"
  ELSE IF ChangedFields(before[name], after[name]) # {} THEN "changed" ELSE "unchanged"
\* column_changes: by name, with the position and the whole description.
column_changes(l, r) ==
  LET described(columns) ==
        [n \in {columns[i].name : i \in DOMAIN columns} |->
           LET i == CHOOSE j \in DOMAIN columns : columns[j].name = n IN <<i, columns[i]>>]
      old == described(l)
      new == described(r) IN
  [n \in {m \in DOMAIN old \cup DOMAIN new :
            ~(m \in DOMAIN old /\ m \in DOMAIN new /\ old[m] = new[m])} |->
     CASE n \notin DOMAIN old -> "added" [] n \notin DOMAIN new -> "removed" [] OTHER -> "changed"]
\* navigation: the pinned default selection of one side, when there is one.
navigation_Unchecked(name, tables, db) ==
  [available |-> name \in DOMAIN tables, recipe |-> Bare(name), expected |-> sha(db)]

navigation(name, tables, db) ==
  [available |-> name \in DOMAIN tables /\ selection_recipeAccepts(Bare(name), tables),
   recipe |-> Bare(name), expected |-> sha(db)]
\* snapshot: the inventory of one side, for the fingerprint asked for.
snapshotAccepts(db, expected) == expected = sha(db)
schema_comparison_output(before_sha256, after_sha256, table, before, b, after, a) ==
  LET columns(tables) == IF table \in DOMAIN tables THEN tables[table].columns ELSE <<>> IN
  IF \/ ~snapshotAccepts(before, before_sha256) \/ ~snapshotAccepts(after, after_sha256)
     \/ table \notin DOMAIN b \cup DOMAIN a
  THEN Refused
  ELSE [op |-> "compare-schema", before_sha256 |-> before_sha256, after_sha256 |-> after_sha256,
        objects |-> [n \in DOMAIN b \cup DOMAIN a |-> SchemaChange(b, a, n)], selected |-> table,
        column_changes |-> column_changes(columns(b), columns(a)),
        row_navigation |-> [before |-> navigation(table, b, before), after |-> navigation(table, a, after)]]
=============================================================================
