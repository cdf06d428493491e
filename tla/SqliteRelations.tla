--------------------------- MODULE SqliteRelations ---------------------------
(***************************************************************************)
(* What the reader of a retained database offers beyond one table          *)
(* (tools/sqlite_review.py): the parents a row refers to, the children     *)
(* that refer to a row, and SQL supplied by the reviewer behind a          *)
(* deny-by-default authorizer.                                             *)
(*                                                                         *)
(* A relation request is [database_sha256, table, locator, child_table,    *)
(* foreign_key, columns, where, order_by].  A database is its own          *)
(* fingerprint: two databases with one SHA-256 are one database.           *)
(***************************************************************************)
EXTENDS SqliteReader

CONSTANT MaxRows    \* the largest max_rows of a query, and of a complete scan

Refused == [op |-> "refused"]

\* resolve_relationship: names of a declaration are folded, a declaration
\* without target columns means the parent's primary key.
Resolvable(names, t) ==
  \A n \in ToSet(names) : folded(n) \in {folded(c) : c \in ToSet(StoredNames(t))}
Resolve(names, t) ==
  [i \in DOMAIN names |-> CHOOSE c \in ToSet(StoredNames(t)) : folded(c) = folded(names[i])]
Implicit(relation) == \A n \in ToSet(relation.referenced_columns) : n = "NULL"
Parents(relation, tables) == {n \in DOMAIN tables : folded(n) = folded(relation.referenced_table)}
TargetColumns(relation, parent) ==
  IF Implicit(relation) THEN PrimaryKey(parent) ELSE relation.referenced_columns
resolve_relationshipAccepts(relation, tables) ==
  /\ Resolvable(relation.columns, tables[relation.child_table])
  /\ \E n \in Parents(relation, tables) :
       /\ tables[n].row_selection_supported
       /\ Len(TargetColumns(relation, tables[n])) = Len(relation.columns)
       /\ Resolvable(TargetColumns(relation, tables[n]), tables[n])
resolve_relationship(relation, tables) ==
  LET parent == CHOOSE n \in Parents(relation, tables) : TRUE IN
  [child |-> relation.child_table, parent |-> parent,
   child_columns |-> Resolve(relation.columns, tables[relation.child_table]),
   parent_columns |-> Resolve(TargetColumns(relation, tables[parent]), tables[parent])]

\* anchor_filter, anchor_row: the rows whose locator has exactly these typed
\* values; the request must name one.
anchor_filterAccepts(columns, locator) ==
  /\ Len(locator) = Len(columns)
  /\ \A t \in ToSet(locator) : parameterAccepts(t) /\ t.type # "null"
Anchored(db, table, columns, locator) ==
  {r \in Object(db, table).rows :
     \A i \in DOMAIN columns : Field(r, columns[i]) = parameter(locator[i])}
anchor_rowAccepts(db, table, columns, locator) ==
  /\ anchor_filterAccepts(columns, locator)
  /\ Cardinality(Anchored(db, table, columns, locator)) = 1
anchor_row(db, table, columns, locator) ==
  CHOOSE r \in Anchored(db, table, columns, locator) : TRUE

\* A parent's key against a child's: the parent column's affinity applies.
\* Outgoing, the child's value is a parameter; incoming, it is a column whose
\* affinity the unary + of the subquery removes.
AffinityOf(t, name) == (CHOOSE c \in ToSet(t.columns) : c.name = name).affinity
OutgoingMatches(rel, tables, p, c) ==
  \A i \in DOMAIN rel.parent_columns :
    Compared(AffinityOf(tables[rel.parent], rel.parent_columns[i]), Field(p, rel.parent_columns[i]),
             "none", Field(c, rel.child_columns[i]))
IncomingMatches_ChildAffinity(rel, tables, p, c) ==
  \A i \in DOMAIN rel.parent_columns :
    Compared(AffinityOf(tables[rel.parent], rel.parent_columns[i]), Field(p, rel.parent_columns[i]),
             AffinityOf(tables[rel.child], rel.child_columns[i]), Field(c, rel.child_columns[i]))

IncomingMatches(rel, tables, p, c) ==
  \A i \in DOMAIN rel.parent_columns :
    Compared(AffinityOf(tables[rel.parent], rel.parent_columns[i]), Field(p, rel.parent_columns[i]),
             "none", Field(c, rel.child_columns[i]))

HasNull(row, columns) == \E name \in ToSet(columns) : Field(row, name) = Null
Recipe(table, q) ==
  [table |-> table, columns |-> q.columns, where |-> q.where, order_by |-> q.order_by]
Selecting(table, columns, where) ==
  [table |-> table, columns |-> columns, where |-> where, order_by |-> <<>>]
Bare(table) == Selecting(table, <<>>, <<>>)
Relation(tables, table, id) == {r \in tables[table].foreign_keys : r.id = id}
RelationOf(tables, table, id) ==
  resolve_relationship(CHOOSE r \in Relation(tables, table, id) : TRUE, tables)

\* A request names the database it was written for.
Fingerprinted_Trusting(q, db) == TRUE

Fingerprinted(q, db) == q.database_sha256 = sha(db)

\* relation_rows: the parent rows that one child row refers to.
ParentsOf(db, tables, rel, c) ==
  IF HasNull(c, rel.child_columns) THEN {}
  ELSE {p \in Object(db, rel.parent).rows : OutgoingMatches(rel, tables, p, c)}
RelationAccepts(tables, table, id) ==
  /\ Relation(tables, table, id) # {}
  /\ \A r \in Relation(tables, table, id) : resolve_relationshipAccepts(r, tables)
Anchor(db, tables, q) == anchor_row(db, q.table, LocatorOf(tables[q.table]), q.locator)
AnchorAccepts(db, tables, q) == anchor_rowAccepts(db, q.table, LocatorOf(tables[q.table]), q.locator)
RelatedAnswer(db, q, rel, c, found, sel, offset, limit) ==
  IF /\ \A name \in ToSet(rel.child_columns) : cellAccepts(Field(c, name))
     /\ selected_rowsAccepts(found, sel, offset, limit)
  THEN [op |-> "related", database_sha256 |-> sha(db), request |-> q,
        source_values |-> Cells(c, rel.child_columns),
        reference_status |-> CASE HasNull(c, rel.child_columns) -> "null-reference"
                               [] found # {} -> "matching-parent-rows"
                               [] OTHER -> "no-matching-parent",
        page |-> selected_rows(found, sel, offset, limit)]
  ELSE Refused
RelatedTo(db, tables, q, rel, c, offset, limit) ==
  IF /\ q.where = <<>> /\ selection_recipeAccepts(Recipe(rel.parent, q), tables)
     /\ AnchorAccepts(db, tables, q)
  THEN RelatedAnswer(db, q, rel, c, ParentsOf(db, tables, rel, c),
                     selection_recipe(Recipe(rel.parent, q), tables), offset, limit)
  ELSE Refused
relation_rows(db, tables, q, offset, limit) ==
  IF /\ Fingerprinted(q, db) /\ selection_recipeAccepts(Bare(q.table), tables)
     /\ RelationAccepts(tables, q.table, q.foreign_key)
  THEN RelatedTo(db, tables, q, RelationOf(tables, q.table, q.foreign_key), Anchor(db, tables, q),
                 offset, limit)
  ELSE Refused

\* referencing_rows: the child rows that refer to one parent row, filtered.
ChildrenOf(db, tables, rel, p, target) ==
  IF HasNull(p, rel.parent_columns) THEN {}
  ELSE {c \in Filtered(db, target) : IncomingMatches(rel, tables, p, c)}
\* The status looks at the page, and behind an empty later page at the first row.
ReferencingStatus_PageOnly(p, rel, found, page) ==
  CASE HasNull(p, rel.parent_columns) -> "null-parent-key"
    [] page.rows # <<>> -> "matching-child-rows"
    [] OTHER -> "no-matching-child-rows"

ReferencingStatus(p, rel, found, page) ==
  CASE HasNull(p, rel.parent_columns) -> "null-parent-key"
    [] page.rows # <<>> \/ (page.offset > 0 /\ found # {}) -> "matching-child-rows"
    [] OTHER -> "no-matching-child-rows"
ReferencingPage(db, q, rel, p, found, page) ==
  [op |-> "referencing", database_sha256 |-> sha(db), request |-> q,
   source_values |-> Cells(p, rel.parent_columns),
   reference_status |-> ReferencingStatus(p, rel, found, page), page |-> page]
ReferencingAnswer(db, q, rel, p, found, target, offset, limit) ==
  IF /\ \A name \in ToSet(rel.parent_columns) : cellAccepts(Field(p, name))
     /\ selected_rowsAccepts(found, target, offset, limit)
     /\ offset >= Cardinality(found) => selected_rowsAccepts(found, target, 0, 1)
  THEN ReferencingPage(db, q, rel, p, found, selected_rows(found, target, offset, limit))
  ELSE Refused
ReferencingTo(db, tables, q, rel, p, target, offset, limit) ==
  IF rel.parent = q.table /\ AnchorAccepts(db, tables, q)
  THEN ReferencingAnswer(db, q, rel, p, ChildrenOf(db, tables, rel, p, target), target, offset, limit)
  ELSE Refused
referencing_rows(db, tables, q, offset, limit) ==
  IF /\ Fingerprinted(q, db) /\ selection_recipeAccepts(Bare(q.table), tables)
     /\ selection_recipeAccepts(Recipe(q.child_table, q), tables)
     /\ RelationAccepts(tables, q.child_table, q.foreign_key)
  THEN ReferencingTo(db, tables, q, RelationOf(tables, q.child_table, q.foreign_key),
                     Anchor(db, tables, q), selection_recipe(Recipe(q.child_table, q), tables),
                     offset, limit)
  ELSE Refused

(***************************************************************************)
(* SQL of the reviewer.  The engine asks the authorizer for everything a   *)
(* statement does: an access is [action, table, column, db, origin].       *)
(***************************************************************************)

\* read_authorizer with tables: what a custom statement may do.
AllowedColumns(t) ==
  ToSet(StoredNames(t)) \cup {""}
  \cup (IF t.without_rowid THEN {} ELSE ToSet(FreeAliases(t)))
OrdinaryTables(tables) == {n \in DOMAIN tables : tables[n].kind = "table"}
read_authorizer(tables, a) ==
  \/ a.action = "select"
  \/ /\ a.action = "read" /\ a.origin = "none" /\ a.table \in OrdinaryTables(tables)
     /\ \/ a.db = "main" /\ a.column \in AllowedColumns(tables[a.table])
        \/ a.db = "none" /\ a.column = ""
  \/ a.action = "function"
     /\ a.column \in {"typeof", "instr", "count", "sum", "avg", "min", "max", "coalesce"}

\* What the engine asks for and returns.  A statement reads columns of one
\* object: through a view every read has the view as its origin.
Statement(object, columns) == [object |-> object, columns |-> columns]
Accesses(db, s) ==
  LET o == Object(db, s.object)
      base == IF o.kind = "view" THEN o.base ELSE s.object IN
  {[action |-> "select", table |-> "", column |-> "", db |-> "none", origin |-> "none"]}
  \cup {[action |-> "read", table |-> base, column |-> c, db |-> "main",
         origin |-> IF o.kind = "view" THEN s.object ELSE "none"] : c \in ToSet(s.columns)}
ResultRows(db, s) ==
  LET o == Object(db, s.object) IN
  IF o.kind = "view" THEN Object(db, o.base).rows ELSE o.rows

\* query_output: the whole result, in the order the engine gives it, or
\* nothing when it is longer than max_rows.
QueryResult(db, s) == SetToSeq(ResultRows(db, s))
QueryPermitted(db, s, fingerprint, max_rows) ==
  /\ fingerprint = sha(db) /\ max_rows \in 1..MaxRows
  /\ \A a \in Accesses(db, s) : read_authorizer(inventory(db), a)
QueryAnswer(db, s, max_rows, rows) ==
  [op |-> "query", database_sha256 |-> sha(db), statement |-> s, max_rows |-> max_rows,
   rows |-> [i \in DOMAIN rows |-> Cells(rows[i], s.columns)]]
ResultAccepts(rows, s) ==
  \A r \in ToSet(rows) : \A c \in ToSet(s.columns) : cellAccepts(Field(r, c))
QueryOutput(db, s, fingerprint, max_rows, all) ==
  IF /\ QueryPermitted(db, s, fingerprint, max_rows)
     /\ Len(all) <= max_rows /\ ResultAccepts(all, s)
  THEN QueryAnswer(db, s, max_rows, all) ELSE Refused
query_output_Cut(db, s, fingerprint, max_rows) ==
  LET all == QueryResult(db, s)
      kept == SubSeq(all, 1, IF Len(all) < max_rows THEN Len(all) ELSE max_rows) IN
  IF QueryPermitted(db, s, fingerprint, max_rows) /\ ResultAccepts(kept, s)
  THEN QueryAnswer(db, s, max_rows, kept) ELSE Refused

query_output(db, s, fingerprint, max_rows) ==
  QueryOutput(db, s, fingerprint, max_rows, QueryResult(db, s))
=============================================================================
