---------------------------- MODULE SqliteSession ----------------------------
(***************************************************************************)
(* A reviewer who runs tools/sqlite_review.py command after command over   *)
(* one or two review ZIPs, each time using what the last answer showed:    *)
(* the next page, the parents or children of a row, the members of a       *)
(* group, the rows of a table that a schema comparison points to.  Every   *)
(* command is a process of its own and opens the archive anew, so an       *)
(* archive may have been replaced since the reviewer read its fingerprint. *)
(*                                                                         *)
(* The content of an archive that `bundle' accepts is a database; the      *)
(* check itself is ReviewBundle's.                                         *)
(***************************************************************************)
EXTENDS SqliteExplore

CONSTANTS Sessions,         \* the databases a session starts with: [before, after]
          Requests(_),      \* the commands it may start with
          Replacement(_),   \* what may take the place of a database
          Offsets           \* offsets asked for when a row is followed

VARIABLES copies,     \* the database in each archive now
          pinned,     \* and when the reviewer read the fingerprints
          view,       \* the last answer
          args,       \* the arguments of the last command
          seen,       \* the pages of the current walk: the offset it began at, its rows
          shown       \* the row or the group the last command follows

(***************************************************************************)
(* What SQLite keeps true of every database file: values of a storage      *)
(* class, identifiers that differ when they are folded, rowids and primary *)
(* keys that differ, and no NULL in the key of a table without rowids.     *)
(***************************************************************************)

RowsTyped(o) ==
  \A r \in o.rows : /\ r.id \in -Int64..(Int64 - 1) /\ DOMAIN r.vals = ColumnNames(o)
                     /\ \A c \in ColumnNames(o) : r.vals[c] \in SqlValues
KeysDiffer(o) ==
  \A x, y \in o.rows : x # y =>
    IF o.without_rowid
    THEN \E c \in ToSet(PrimaryKey(o)) : SortKey(Field(x, c)) # SortKey(Field(y, c))
    ELSE x.id # y.id
KeysPresent(o) == o.without_rowid => \A r \in o.rows : \A c \in ToSet(PrimaryKey(o)) : Field(r, c) # Null
IsSequence(s) == s \in Seq(ToSet(s))
IsDatabase(db) ==
  /\ IsFiniteSet(db.objects)
  /\ \A o, p \in db.objects : folded(o.name) = folded(p.name) => o = p
  /\ \A o \in db.objects : /\ IsSequence(o.columns) /\ IsSequence(o.fk) /\ IsFiniteSet(o.rows)
                            /\ RowsTyped(o) /\ KeysDiffer(o) /\ KeysPresent(o)

(***************************************************************************)
(* A command has the arguments its operation takes, and carries the        *)
(* fingerprints of the databases s that the reviewer has read.             *)
(***************************************************************************)

Paged == {"rows", "related", "referencing", "group-rows"}
Scans == {"summarize", "crosstab", "histogram"}
Operations == Paged \cup Scans \cup {"schema", "query", "compare", "compare-schema"}
Arguments(op) ==
  CASE op = "rows" -> {"op", "side", "recipe", "expected", "offset", "limit"}
    [] op \in {"related", "referencing"} -> {"op", "side", "request", "offset", "limit"}
    [] op = "group-rows" -> {"op", "side", "request", "key", "offset", "limit"}
    [] op \in Scans \cup {"compare"} -> {"op", "side", "request"}
    [] op = "schema" -> {"op", "side"}
    [] op = "query" -> {"op", "side", "statement", "database_sha256", "max_rows"}
    [] op = "compare-schema" -> {"op", "side", "before_sha256", "after_sha256", "table"}
SelectionArguments(q) == IsSequence(q.columns) /\ IsSequence(q.where) /\ IsSequence(q.order_by)
IsCommand(a, s) ==
  /\ a.op \in Operations /\ DOMAIN a = Arguments(a.op) /\ a.side \in {"before", "after"}
  /\ a.op = "rows" => SelectionArguments(a.recipe) /\ a.expected \in {<<>>, <<sha(s[a.side])>>}
  /\ a.op \in {"related", "referencing"} => SelectionArguments(a.request)
  /\ a.op \in Scans \cup (Paged \ {"rows"}) => a.request.database_sha256 = sha(s[a.side])
  /\ a.op \in Scans \cup {"group-rows"} => IsSequence(a.request.where)
  /\ a.op \in {"summarize", "group-rows"} => IsSequence(a.request.group_by) /\ IsSequence(a.request.measures)
  /\ a.op = "histogram" => IsSequence(a.request.boundaries) /\ \A e \in ToSet(a.request.boundaries) : e.num \in Int
  /\ a.op = "query" => a.database_sha256 = sha(s[a.side]) /\ ToSet(a.statement.columns) # {}
  /\ a.op = "compare" => /\ a.side = "before" /\ IsSequence(a.request.columns)
                         /\ IsSequence(a.request.key_columns)
                         /\ a.request.before_sha256 = sha(s["before"])
                         /\ a.request.after_sha256 = sha(s["after"])
  /\ a.op = "compare-schema" => /\ a.side = "before" /\ a.before_sha256 = sha(s["before"])
                                /\ a.after_sha256 = sha(s["after"])

ASSUME SessionAssumption ==
  /\ \A name \in ToSet(Aliases) : folded(name) = name
  /\ Offsets \subseteq Nat
  /\ \A s \in Sessions :
       /\ DOMAIN s = {"before", "after"} /\ IsDatabase(s["before"]) /\ IsDatabase(s["after"])
       /\ \A db \in Replacement(s["before"]) : IsDatabase(db)
       /\ \A a \in Requests(s) : IsCommand(a, s)

sessionVars == <<copies, pinned, view, args, seen, shown>>
Idle == [op |-> "idle", side |-> "before"]

SessionInit(s) ==
  /\ copies = s /\ pinned = s
  /\ view = Idle /\ args = Idle /\ seen = [start |-> 0, rows |-> <<>>] /\ shown = <<>>

(***************************************************************************)
(* main: one command.                                                      *)
(***************************************************************************)

\* with database(...) as conn: inventory(conn)
Opens(db) == databaseAccepts(db) /\ inventoryAccepts(db)
RowsPage(db, a, sel, rows) ==
  IF selected_rowsAccepts(rows, sel, a.offset, a.limit)
  THEN [op |-> "rows", database_sha256 |-> sha(db), request |-> a.recipe,
        page |-> selected_rows(rows, sel, a.offset, a.limit)]
  ELSE Refused
RowsAnswer(db, a, sel) == RowsPage(db, a, sel, Filtered(db, sel))
Answer(db, tables, after, afterTables, a) ==
  CASE a.op = "schema" -> [op |-> "schema", database_sha256 |-> sha(db), objects |-> tables]
    [] a.op = "rows" ->
         IF selection_recipeAccepts(a.recipe, tables)
         THEN RowsAnswer(db, a, selection_recipe(a.recipe, tables)) ELSE Refused
    [] a.op = "related" -> relation_rows(db, tables, a.request, a.offset, a.limit)
    [] a.op = "referencing" -> referencing_rows(db, tables, a.request, a.offset, a.limit)
    [] a.op = "query" -> query_output(db, a.statement, a.database_sha256, a.max_rows)
    [] a.op = "summarize" -> summarize(db, tables, a.request)
    [] a.op = "group-rows" -> group_rows(db, tables, a.request, a.key, a.offset, a.limit)
    [] a.op = "crosstab" -> crosstab(db, tables, a.request)
    [] a.op = "histogram" -> distribution(db, tables, a.request)
    [] a.op = "compare" -> comparison_output(a.request, db, tables, after, afterTables)
    [] a.op = "compare-schema" ->
         schema_comparison_output(a.before_sha256, a.after_sha256, a.table, db, tables, after, afterTables)
main(db, after, a) ==
  IF \/ a.op \in Paged /\ ~PageBoundsAccept(a.offset, a.limit)
     \/ a.op = "rows" /\ ~(a.expected = <<>> \/ a.expected = <<sha(db)>>)
     \/ ~Opens(db)
     \/ a.op \in {"compare", "compare-schema"} /\ ~Opens(after)
  THEN Refused ELSE Answer(db, inventory(db), after, inventory(after), a)

\* A command runs on the archives as they are now.  Its budget of database
\* steps may run out at any time, which refuses it.
Run(a) ==
  /\ view' \in {main(copies[a.side], copies["after"], a), Refused} /\ args' = a
  /\ UNCHANGED <<copies, pinned>>
NewRows == IF view'.op \in Paged THEN view'.page.rows ELSE <<>>
NewWalk == [start |-> IF args'.op \in Paged THEN args'.offset ELSE 0, rows |-> NewRows]

(***************************************************************************)
(* The reviewer.                                                           *)
(***************************************************************************)

Command(op) ==
  /\ view.op = "idle"
  /\ \E a \in Requests(pinned) : a.op = op /\ Run(a)
  /\ seen' = NewWalk /\ shown' = <<>>

NextPage ==
  /\ view.op \in Paged /\ view.page.has_more
  /\ Run([args EXCEPT !.offset = view.page.next_offset])
  /\ seen' = [seen EXCEPT !.rows = @ \o NewRows] /\ UNCHANGED shown

\* A row on the screen is followed along a declared foreign key, either way.
Follow(op, table, row, child, id, offset) ==
  [op |-> op, side |-> args.side, offset |-> offset, limit |-> 1,
   request |-> [database_sha256 |-> sha(pinned[args.side]), table |-> table, locator |-> row.locator,
                child_table |-> child, foreign_key |-> id,
                columns |-> <<>>, where |-> <<>>, order_by |-> <<>>]]
Drill(op) ==
  /\ view.op = "rows" /\ view.request.columns = <<>>
  /\ LET table == view.request.table
         keys == IF op = "related" THEN inventory(pinned[args.side])[table].foreign_keys
                 ELSE inventory(pinned[args.side])[table].incoming_foreign_keys IN
     \E i \in DOMAIN view.page.rows, r \in keys, offset \in Offsets :
       /\ Run(Follow(op, table, view.page.rows[i], r.child_table, r.id, offset))
       /\ shown' = <<view.page.rows[i]>>
  /\ seen' = NewWalk

\* A group of a summary is opened.
OpenGroup ==
  /\ view.op = "summarize"
  /\ \E key \in DOMAIN view.groups :
       /\ Run([op |-> "group-rows", side |-> args.side, request |-> view.request, key |-> key,
               offset |-> 0, limit |-> 1])
       /\ shown' = <<view.groups[key]>>
  /\ seen' = NewWalk

\* The rows of the table a schema comparison selected, on one side.
Navigate(side) ==
  /\ view.op = "compare-schema" /\ view.row_navigation[side].available
  /\ Run([op |-> "rows", side |-> side, recipe |-> view.row_navigation[side].recipe,
          expected |-> <<view.row_navigation[side].expected>>, offset |-> 0, limit |-> 1])
  /\ seen' = NewWalk /\ shown' = <<>>

\* Another archive takes the place of the one reviewed.
Replace ==
  /\ copies = pinned /\ view.op # "refused"
  /\ \E db \in Replacement(copies["before"]) : copies' = [copies EXCEPT !["before"] = db]
  /\ UNCHANGED <<pinned, view, args, seen, shown>>

SessionNext ==
  \/ \E op \in {"schema", "rows", "query", "summarize", "crosstab", "histogram",
                "compare", "compare-schema"} : Command(op)
  \/ NextPage
  \/ \E op \in {"related", "referencing"} : Drill(op)
  \/ OpenGroup
  \/ \E side \in {"before", "after"} : Navigate(side)
  \/ Replace

(***************************************************************************)
(* Properties.                                                             *)
(***************************************************************************)

Db == pinned[args.side]
Tables == inventory(Db)
TableRows(name) == Object(Db, name).rows
LocatorsOf(rows) == [i \in DOMAIN rows |-> rows[i].locator]
Answered(op) == view.op = op

\* A page that is answered lies within the bounds of a request.
SessionTypeOK ==
  /\ DOMAIN copies = {"before", "after"} /\ DOMAIN pinned = {"before", "after"}
  /\ view.op \in Operations \cup {"idle", "refused"}
  /\ args.side \in {"before", "after"} /\ view.op \notin {"idle", "refused"} => args.op = view.op
  /\ view.op \in Paged => /\ view.page.offset \in 0..MaxOffset /\ view.page.limit \in 1..MaxLimit
                          /\ Len(view.page.rows) <= view.page.limit

\* The complete ordered result the pages of a walk are pages of.
Whole(tables, q, sel) ==
  CASE view.op = "rows" -> InOrder(Filtered(Db, sel), sel)
    [] view.op = "group-rows" ->
         OfGroup(InOrder(Filtered(Db, sel), sel), q, args.key)
    [] view.op = "related" ->
         InOrder(ParentsOf(Db, tables, RelationOf(tables, q.table, q.foreign_key), Anchor(Db, tables, q)), sel)
    [] view.op = "referencing" ->
         InOrder(ChildrenOf(Db, tables, RelationOf(tables, q.child_table, q.foreign_key),
                            Anchor(Db, tables, q), sel), sel)
IsPartOf(whole) ==
  /\ \A i \in DOMAIN seen.rows :
       seen.start + i <= Len(whole) /\ seen.rows[i] = RowCells(whole[seen.start + i], view.page.selection)
  /\ (~view.page.has_more /\ seen.start <= Len(whole)) => seen.start + Len(seen.rows) = Len(whole)
OnPinned == view.database_sha256 = sha(Db)

\* The pages of a walk that is pinned to a fingerprint are one pass over one
\* database: no row twice, none left out, the last page says it is the last,
\* though the archive may be replaced between two pages.
PagesAreOnePass ==
  (view.op \in Paged /\ OnPinned /\ (view.op = "rows" => args.expected # <<>>)) =>
    IsPartOf(Whole(Tables, view.request, view.page.selection))

\* A row followed from the screen is the row the answer is about: an archive
\* replaced in between refuses, and another row never answers.
DrillbackFinds ==
  view.op \in {"related", "referencing"} =>
    LET columns == IF Answered("related")
                   THEN RelationOf(Tables, args.request.table, args.request.foreign_key).child_columns
                   ELSE RelationOf(Tables, args.request.child_table, args.request.foreign_key).parent_columns
        names == StoredNames(Tables[args.request.table]) IN
    \A i \in DOMAIN columns :
      \A j \in DOMAIN names : names[j] = columns[i] => view.source_values[i] = shown[1].values[j]

\* What a row refers to and what refers to a row are inverse, for columns of
\* every affinity and values of every storage class.
ReferencingInvertsRelated ==
  LET inverse(tables, rel, c) ==
        LET sel == selection_recipe(Bare(rel.child), tables) IN
        \A q \in TableRows(rel.parent) :
          (q \in ParentsOf(Db, tables, rel, c)) = (c \in ChildrenOf(Db, tables, rel, q, sel)) IN
  (Answered("related") /\ OnPinned) =>
    inverse(Tables, RelationOf(Tables, args.request.table, args.request.foreign_key),
            Anchor(Db, Tables, args.request))

\* The status of a reference speaks of all matching rows: asking for a later
\* page of the same relation never changes it.  (The first page may be refused
\* though a later one is not: a row of it may have a value no cell can show.)
StatusIgnoresPage ==
  LET same(first) == first.op # "refused" => first.reference_status = view.reference_status IN
  /\ (Answered("related") /\ OnPinned) => same(relation_rows(Db, Tables, args.request, 0, args.limit))
  /\ (Answered("referencing") /\ OnPinned) => same(referencing_rows(Db, Tables, args.request, 0, args.limit))

\* A locator that rows shows identifies one row of its table, the row shown.
LocatorUnique ==
  (Answered("rows") /\ OnPinned) =>
    LET sel == view.page.selection IN
    \A i \in DOMAIN view.page.rows :
      /\ anchor_rowAccepts(Db, sel.table, sel.locator, view.page.rows[i].locator)
      /\ RowCells(anchor_row(Db, sel.table, sel.locator, view.page.rows[i].locator), sel) = view.page.rows[i]

\* A value on the screen can be put into a filter as it stands, the extreme
\* integers included, and the row that showed it is among the rows found.
ShownValueSelects ==
  (Answered("rows") /\ OnPinned) =>
    LET sel == view.page.selection IN
    \A i \in DOMAIN view.page.rows : \A j \in DOMAIN sel.columns :
      LET f == [column |-> sel.columns[j], op |-> "eq", value |-> view.page.rows[i].values[j],
                upper |-> view.page.rows[i].values[j], low |-> TRUE, high |-> TRUE]
          recipe == Selecting(sel.table, <<>>, <<f>>) IN
      /\ selection_recipeAccepts(recipe, Tables)
      /\ \E r \in Filtered(Db, selection_recipe(recipe, Tables)) :
           Cells(r, sel.locator) = view.page.rows[i].locator

\* A range filter is two threshold filters, with the ends it was asked to
\* include; a text that starts with another contains it.
ShownFilter(op, v, w, low, high) ==
  [column |-> "", op |-> op, value |-> cell(v), upper |-> cell(w), low |-> low, high |-> high]
LowerOp(low) == IF low THEN "gte" ELSE "gt"
UpperOp(high) == IF high THEN "lte" ELSE "lt"
RangeComposes(v, w, low, high, x) ==
  filterAccepts(ShownFilter("between", v, w, low, high)) =>
    (filterMatches(ShownFilter("between", v, w, low, high), x)
     <=> /\ filterMatches(ShownFilter(LowerOp(low), v, w, low, high), x)
         /\ filterMatches(ShownFilter(UpperOp(high), w, w, low, high), x))
PrefixComposes(v, w, low, high) ==
  (v.kind = "text" /\ w.kind = "text" /\ filterMatches(ShownFilter("starts_with", v, v, low, high), w)) =>
    filterMatches(ShownFilter("contains", v, v, low, high), w)
FiltersCompose ==
  (Answered("rows") /\ OnPinned) =>
    LET sel == view.page.selection IN
    \A c \in ToSet(sel.columns) : \A r, u, x \in TableRows(sel.table) : \A low, high \in BOOLEAN :
      /\ RangeComposes(Field(r, c), Field(u, c), low, high, Field(x, c))
      /\ PrefixComposes(Field(r, c), Field(u, c), low, high)

\* Opening a group that a summary lists finds the rows it was computed from,
\* and is refused only for a value of another column that no cell can show;
\* another spelling of its key is refused, never answered as an empty group.
GroupMeansItsRows ==
  LET open(k) == group_rows(Db, Tables, view.request, k, 0, MaxLimit)
      spelt(key) == [i \in DOMAIN key |->
                       [type |-> key[i].type, num |-> key[i].num,
                        form |-> IF key[i].type = "real" THEN 1 ELSE key[i].form]]
      members == summary_recipe(view.request, Tables, TRUE)
      readable == \A r \in Filtered(Db, members) : RowAccepts(r, members)
      found(g, m) == IF readable
                     THEN /\ m.op = "group-rows" /\ m.total_group_rows = g.row_count
                          /\ LocatorsOf(m.page.rows) = SubSeq(g.locators, 1, Len(m.page.rows))
                     ELSE m.op = "refused"
      same(g, m) == m.op # "refused" => m.total_group_rows = g.row_count IN
  Answered("summarize") =>
    \A key \in DOMAIN view.groups :
      found(view.groups[key], open(key)) /\ same(view.groups[key], open(spelt(key)))

\* A measure of the rows at the positions of a group: how many of them have each
\* storage class, the exact sum, and for each extreme the first row that has it.
MeasureExact(m, all, group, name, locator) ==
  LET value(i) == Field(all[i], name)
      numbers == {i \in group : value(i).kind \in Numeric}
      evidence(i) == <<value(i).num, cell(value(i)), Cells(all[i], locator)>> IN
  /\ \A k \in DOMAIN m.storage_counts :
       m.storage_counts[k] = Cardinality({i \in group : value(i).kind = k})
  /\ IF numbers = {} THEN m.sum = <<>> /\ m.minimum = <<>> /\ m.maximum = <<>>
     ELSE /\ m.sum = <<SumFunction([i \in numbers |-> value(i).num])>>
          /\ \E i \in numbers : /\ m.minimum = evidence(i)
                                /\ \A j \in numbers : value(i).num <= value(j).num
                                /\ \A j \in numbers : j < i => value(i).num < value(j).num
          /\ \E i \in numbers : /\ m.maximum = evidence(i)
                                /\ \A j \in numbers : value(j).num <= value(i).num
                                /\ \A j \in numbers : j < i => value(j).num < value(i).num

\* A summary counts every selected row once, and its measures are exact for the
\* whole group whatever the scan met first.
SummaryExact ==
  Answered("summarize") =>
    LET q == view.request
        sel == summary_recipe(q, Tables, FALSE)
        all == InOrder(Filtered(Db, sel), sel) IN
    /\ SumFunction([key \in DOMAIN view.groups |-> view.groups[key].row_count]) = Len(all)
    /\ \A key \in DOMAIN view.groups : \A name \in ToSet(q.measures) :
         MeasureExact(view.groups[key].measures[name], all,
                      {i \in DOMAIN all : Cells(all[i], q.group_by) = key}, name, sel.locator)

\* A scan that answers has read the whole selection, one with exactly as many
\* rows as the bound included.
ScanIsWhole ==
  view.op \in Scans =>
    view.selected_row_count =
      Cardinality(Filtered(Db, selection_recipe(Selecting(view.request.table, <<>>, view.request.where), Tables)))

\* A crosstab and the summary by both columns are one count: cell by cell, and
\* in the totals of either axis.
CrosstabAgreesWithSummary ==
  LET by(columns) ==
        summarize(Db, Tables, [database_sha256 |-> view.request.database_sha256, table |-> view.request.table,
                               group_by |-> columns, measures |-> <<>>, where |-> view.request.where]).groups
      cells(both) ==
        /\ DOMAIN both = {rc \in DOMAIN view.counts : view.counts[rc] > 0}
        /\ \A rc \in DOMAIN both : view.counts[rc] = both[rc].row_count
                                   /\ LocatorsOf(view.cells[rc]) = both[rc].locators
      totals(axis, of) ==
        /\ DOMAIN of = {<<k>> : k \in DOMAIN axis}
        /\ \A k \in DOMAIN axis : axis[k] = of[<<k>>].row_count IN
  Answered("crosstab") =>
    /\ cells(by(<<view.request.row_column, view.request.column_column>>))
    /\ totals(view.row_totals, by(<<view.request.row_column>>))
    /\ totals(view.column_totals, by(<<view.request.column_column>>))

\* A band holds the rows that the typed filters `gte' its lower and `lt' its
\* upper boundary select: every numeric row in one band, no other row in any.
BandEdge(q, op, e, kind) ==
  [column |-> q.column, op |-> op, value |-> [type |-> kind, num |-> e.num, form |-> e.form],
   upper |-> e, low |-> TRUE, high |-> TRUE]
BandFilters(q, i, kind) ==
  (IF i = 0 THEN <<>> ELSE <<BandEdge(q, "gte", q.boundaries[i], kind)>>)
  \o (IF i = Len(q.boundaries) THEN <<>> ELSE <<BandEdge(q, "lt", q.boundaries[i + 1], kind)>>)
InBand(db, q, i) ==
  UNION {Filtered(db, Selecting(q.table, <<>>, q.where \o BandFilters(q, i, kind))) : kind \in Numeric}
BandsAreRanges ==
  Answered("histogram") =>
    LET q == view.request
        sel == selection_recipe(Selecting(q.table, <<>>, q.where), Tables) IN
    \A i \in DOMAIN view.bands :
      LocatorsOf(view.bands[i]) = Locators(InOrder(InBand(Db, q, i), sel), sel)

\* The changes a comparison lists, applied to the rows before, give the rows
\* after; and it has counted every row of either side.
ComparisonPatches ==
  Answered("compare") =>
    LET q == view.request
        side(s) == {Cells(r, view.columns) : r \in Object(pinned[s], q.table).rows}
        touched(f) == {view.changes[k][f][1].values : k \in {j \in DOMAIN view.changes : view.changes[j][f] # <<>>}} IN
    /\ (side("before") \ touched("before")) \cup touched("after") = side("after")
    /\ view.before_rows = Cardinality(Object(pinned["before"], q.table).rows)
    /\ view.after_rows = Cardinality(Object(pinned["after"], q.table).rows)
    /\ view.before_rows + view.counts["added"] - view.counts["removed"] = view.after_rows

\* A table a schema comparison calls unchanged is read the same way on both
\* sides: the same selections are accepted, with the same locator.
UnchangedReadsAlike ==
  Answered("compare-schema") =>
    \A name \in DOMAIN view.objects :
      view.objects[name] = "unchanged" =>
        LET b == inventory(pinned["before"])
            a == inventory(pinned["after"]) IN
        /\ selection_recipeAccepts(Bare(name), b) = selection_recipeAccepts(Bare(name), a)
        /\ selection_recipeAccepts(Bare(name), b) =>
             selection_recipe(Bare(name), b) = selection_recipe(Bare(name), a)

\* A row navigation that a schema comparison offers is one the reader accepts.
NavigationUsable ==
  Answered("compare-schema") =>
    \A side \in {"before", "after"} :
      LET nav == view.row_navigation[side]
          tables == inventory(pinned[side]) IN
      nav.available => selection_recipeAccepts(nav.recipe, tables) /\ nav.expected = sha(pinned[side])

\* A query answers with its whole result or not at all.
QueryCompleteOrRefused ==
  Answered("query") => Len(view.rows) = Cardinality(ResultRows(Db, view.statement))

\* No answer is a part that looks like the whole: pages of a walk, a status
\* shown with a page, a query and a scan speak of every row selected, or the
\* command is refused.
AnswersComplete ==
  /\ PagesAreOnePass /\ StatusIgnoresPage /\ QueryCompleteOrRefused /\ ScanIsWhole

\* What a command shows can be handed to the next one as it stands, and means
\* the same rows there: locators, values, followed references, groups and the
\* row navigation of a schema comparison, with the archive replaced in between.
ShownCanBeFollowed ==
  /\ LocatorUnique /\ ShownValueSelects /\ DrillbackFinds
  /\ GroupMeansItsRows /\ NavigationUsable

\* Two commands that ask the same question in different ways, through SQL or in
\* Python, agree: ranges and thresholds, references followed and inverted, bands
\* and filters, a comparison and the rows of both sides, a table called unchanged
\* and the selections of both sides.
QuestionsAgree ==
  /\ FiltersCompose /\ ReferencingInvertsRelated /\ BandsAreRanges
  /\ ComparisonPatches /\ UnchangedReadsAlike

\* Summaries are those of the rows: every group with its count, sums and first
\* extremes, and a crosstab is the summary by both of its columns.
SummariesExact == SummaryExact /\ CrosstabAgreesWithSummary
=============================================================================
