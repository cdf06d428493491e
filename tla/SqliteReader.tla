---------------------------- MODULE SqliteReader -----------------------------
(***************************************************************************)
(* The reader of one retained SQLite database (tools/sqlite_review.py):    *)
(* typed cells, the inventory of its schema, typed filters, row selections *)
(* and their pages, and the walk along declared foreign keys in both       *)
(* directions.  Each operation is a pure function of the database and the  *)
(* request, given as the conditions its `require' calls and exceptions     *)
(* make (XAccepts) and its result (X).                                     *)
(*                                                                         *)
(* A value is [kind, num, form].  A text is the spelling of a number,      *)
(* plain (form 0) or with two leading zeros (form 1); a real of form 2 is  *)
(* an infinity.  Nothing else of a value's bytes is told apart.  A typed   *)
(* cell of JSON is [type, num, form], where form 1 is a spelling that is   *)
(* not the canonical one.                                                  *)
(***************************************************************************)
EXTENDS ReviewBundle

CONSTANTS Folding,        \* identifiers that differ from their folded form
          Int64,          \* half the range of a signed integer
          MaxObjects, MaxColumns, MaxForeignKeys,
          MaxFilters, MaxOrder, MaxOffset, MaxLimit

ASSUME ReaderAssumption ==
  /\ \A n \in {Int64, MaxObjects, MaxColumns, MaxForeignKeys, MaxFilters, MaxLimit} : n \in Nat \ {0}
  /\ \A n \in {MaxOrder, MaxOffset} : n \in Nat

(***************************************************************************)
(* Cells.                                                                  *)
(***************************************************************************)

Null == [kind |-> "null", num |-> 0, form |-> 0]
SqlValues ==
  {Null} \cup [kind : {"integer"}, num : -Int64..(Int64 - 1), form : {0}]
  \cup [kind : {"real"}, num : Int, form : {0, 2}] \cup [kind : {"text"}, num : Int, form : {0, 1}]
  \cup [kind : {"blob"}, num : Int, form : {0}]
Finite(v) == ~(v.kind = "real" /\ v.form = 2)
Numeric == {"integer", "real"}

\* cell: the typed object written for a stored value; an infinity refuses.
cellAccepts(v) == Finite(v)
cell(v) == [type |-> v.kind, num |-> v.num, form |-> v.form]

\* parameter: the value a typed object of a request stands for.
parameterAccepts_Symmetric(t) ==
  CASE t.type = "null" -> t.num = 0 /\ t.form = 0
    [] t.type = "text" -> TRUE
    [] t.type = "integer" -> t.form = 0 /\ -Int64 < t.num /\ t.num < Int64
    [] t.type = "real" -> t.form # 2
    [] t.type = "blob" -> t.form = 0
    [] OTHER -> FALSE

parameterAccepts(t) ==
  CASE t.type = "null" -> t.num = 0 /\ t.form = 0
    [] t.type = "text" -> TRUE
    [] t.type = "integer" -> t.form = 0 /\ -Int64 <= t.num /\ t.num < Int64
    [] t.type = "real" -> t.form # 2
    [] t.type = "blob" -> t.form = 0
    [] OTHER -> FALSE
parameter(t) ==
  [kind |-> t.type, num |-> t.num, form |-> IF t.type = "real" THEN 0 ELSE t.form]

\* SQLite's order of storage classes; integers and reals compare by value,
\* texts by BINARY collation ("007" before "7").
SortKey(v) ==
  CASE v.kind = "null" -> <<0, 0, 0>>
    [] v.kind \in Numeric -> <<1, v.num, 0>>
    [] v.kind = "text" -> <<2, 1 - v.form, v.num>>
    [] v.kind = "blob" -> <<3, v.num, 0>>
Precedes(k, l) == \E i \in 1..3 : k[i] < l[i] /\ \A j \in 1..(i - 1) : k[j] = l[j]
SqlEqual(v, w) == v # Null /\ w # Null /\ SortKey(v) = SortKey(w)

\* The affinity of a column, applied to the other operand of a comparison.
WithAffinity(affinity, v) ==
  CASE affinity = "integer" /\ v.kind \in {"text", "real"} /\ Finite(v) ->
         [kind |-> "integer", num |-> v.num, form |-> 0]
    [] affinity = "text" /\ v.kind = "integer" -> [kind |-> "text", num |-> v.num, form |-> 0]
    [] OTHER -> v

\* A comparison of two operands converts by their affinities: a numeric one
\* wins over the others, a text one over an expression that has none.
Compared(la, l, ra, r) ==
  LET applied == IF "integer" \in {la, ra} THEN "integer"
                 ELSE IF {la, ra} = {"text", "none"} THEN "text" ELSE "none" IN
  SqlEqual(WithAffinity(applied, l), WithAffinity(applied, r))

\* instr: the position of a text within another, 0 when it does not occur.
Instr(haystack, needle) ==
  CASE haystack = needle -> 1
    [] haystack.num = needle.num /\ haystack.form = 1 /\ needle.form = 0 -> 3
    [] OTHER -> 0

(***************************************************************************)
(* The schema.  An object of a database is [name, kind, internal,          *)
(* without_rowid, columns, fk, rows]; a column [name, affinity, pk,        *)
(* generated]; fk the answer of PRAGMA foreign_key_list, one element per   *)
(* column of a declaration; a row [id, vals].                              *)
(***************************************************************************)

\* ASCII folding of identifiers.
folded(name) == IF name \in DOMAIN Folding THEN Folding[name] ELSE name
Object(db, name) == CHOOSE o \in db.objects : o.name = name
ColumnNames(t) == {t.columns[i].name : i \in DOMAIN t.columns}
Stored(t) == Picked(t.columns, {i \in DOMAIN t.columns : ~t.columns[i].generated})
StoredNames(t) == [i \in DOMAIN Stored(t) |-> Stored(t)[i].name]

\* database: what the reader opens, an in-memory copy of a rollback-journal file.
databaseAccepts(db) == db.journal = "rollback"

\* foreign_keys: the declarations of a table, grouped by their identity.
Declared(o, id) == Picked(o.fk, {i \in DOMAIN o.fk : o.fk[i].id = id})
FkIds(o) == {o.fk[i].id : i \in DOMAIN o.fk}
foreign_keysAccepts(o) ==
  /\ Cardinality(FkIds(o)) <= MaxForeignKeys
  /\ \A id \in FkIds(o) :
       LET rs == Declared(o, id) IN \A k \in DOMAIN rs : rs[k].seq = k - 1
foreign_keys(o) ==
  {LET rs == Declared(o, id) IN
     [id |-> id, child_table |-> o.name, referenced_table |-> rs[1].parent,
      columns |-> [k \in DOMAIN rs |-> rs[k].from],
      referenced_columns |-> [k \in DOMAIN rs |-> rs[k].to]] : id \in FkIds(o)}

\* inventory: the listed objects by name.  Only ordinary tables are opened.
Listed(db) == {o \in db.objects : ~o.internal}
inventoryAccepts(db) ==
  /\ Cardinality(Listed(db)) <= MaxObjects
  /\ \A o \in Listed(db) : Len(o.columns) <= MaxColumns
                           /\ o.kind = "table" => foreign_keysAccepts(o)
inventory(db) ==
  LET keys(o) == IF o.kind = "table" THEN foreign_keys(o) ELSE {} IN
  [name \in {o.name : o \in Listed(db)} |->
     LET o == Object(db, name) IN
     [name |-> name, kind |-> o.kind, row_selection_supported |-> o.kind = "table",
      without_rowid |-> o.without_rowid,
      columns |-> IF o.kind = "table" THEN o.columns ELSE <<>>,
      foreign_keys |-> keys(o),
      incoming_foreign_keys |->
        {r \in UNION {keys(c) : c \in Listed(db)} : folded(r.referenced_table) = folded(name)}]]

(***************************************************************************)
(* Selections.  A filter is [column, op, value, upper, low, high], a       *)
(* recipe [table, columns, where, order_by]; no columns means all of them. *)
(***************************************************************************)

Thresholds == {"gt", "gte", "lt", "lte"}
filterAccepts(f) ==
  /\ f.op \in Thresholds \cup {"eq", "between", "contains", "starts_with"}
  /\ parameterAccepts(f.value)
  /\ f.op \in {"contains", "starts_with"} => f.value.type = "text"
  /\ f.op \in Thresholds \cup {"between"} => f.value.type \in Numeric
  /\ f.op = "between" => /\ parameterAccepts(f.upper)
                         /\ f.upper.type = f.value.type
                         /\ f.value.num <= f.upper.num

\* filter_predicates: same storage class, then the comparison.
Within_Swapped(n, f) == /\ IF f.high THEN n >= f.value.num ELSE n > f.value.num
                        /\ IF f.low THEN n <= f.upper.num ELSE n < f.upper.num

Within(n, f) == /\ IF f.low THEN n >= f.value.num ELSE n > f.value.num
                /\ IF f.high THEN n <= f.upper.num ELSE n < f.upper.num
filterMatches(f, v) ==
  /\ v.kind = f.value.type
  /\ CASE f.op = "eq" -> v = parameter(f.value)
       [] f.op = "gt" -> v.num > f.value.num
       [] f.op = "gte" -> v.num >= f.value.num
       [] f.op = "lt" -> v.num < f.value.num
       [] f.op = "lte" -> v.num <= f.value.num
       [] f.op = "between" -> Within(v.num, f)
       [] f.op = "contains" -> Instr(v, parameter(f.value)) > 0
       [] f.op = "starts_with" -> Instr(v, parameter(f.value)) = 1

\* The columns that identify a row: the primary key in its own order, or the
\* first rowid alias that no column hides.
Distinct(s) == Cardinality(ToSet(s)) = Len(s)
PrimaryKey(t) ==
  LET pk == {c \in ToSet(t.columns) : c.pk # 0} IN
  [i \in 1..Cardinality(pk) |-> (CHOOSE c \in pk : c.pk = i).name]
Aliases == <<"_rowid_", "rowid", "oid">>
FreeAliases(t) ==
  Picked(Aliases, {i \in 1..3 : Aliases[i] \notin {folded(name) : name \in ColumnNames(t)}})
LocatorOf_Shadowed(t) == IF t.without_rowid THEN PrimaryKey(t) ELSE <<"_rowid_">>

LocatorOf(t) ==
  CASE t.without_rowid -> PrimaryKey(t)
    [] ~t.without_rowid /\ FreeAliases(t) # <<>> -> <<FreeAliases(t)[1]>>
    [] OTHER -> <<>>

selection_recipeAccepts(recipe, tables) ==
  /\ recipe.table \in DOMAIN tables
  /\ LET t == tables[recipe.table]
         available == ToSet(StoredNames(t)) IN
     /\ t.row_selection_supported
     /\ ToSet(recipe.columns) \subseteq available /\ Distinct(recipe.columns)
     /\ Len(recipe.columns) <= MaxColumns
     /\ recipe.columns = <<>> => available # {}
     /\ Len(recipe.where) <= MaxFilters
     /\ \A f \in ToSet(recipe.where) : f.column \in available /\ filterAccepts(f)
     /\ Len(recipe.order_by) <= MaxOrder
     /\ \A o \in ToSet(recipe.order_by) : o.column \in available /\ o.direction \in {"asc", "desc"}
     /\ Distinct([i \in DOMAIN recipe.order_by |-> recipe.order_by[i].column])
     /\ LocatorOf(t) # <<>>
     /\ t.without_rowid => ToSet(LocatorOf(t)) \subseteq available
selection_recipe(recipe, tables) ==
  LET t == tables[recipe.table] IN
  [table |-> recipe.table, where |-> recipe.where, order_by |-> recipe.order_by,
   columns |-> IF recipe.columns = <<>> THEN StoredNames(t) ELSE recipe.columns,
   locator |-> LocatorOf(t)]

\* An alias names the row's integer identity unless a column has its name.
Field(row, name) ==
  IF name \in DOMAIN row.vals THEN row.vals[name]
  ELSE [kind |-> "integer", num |-> row.id, form |-> 0]
Cells(row, names) == [i \in DOMAIN names |-> cell(Field(row, names[i]))]
RowCells(row, sel) == [locator |-> Cells(row, sel.locator), values |-> Cells(row, sel.columns)]
RowAccepts(row, sel) ==
  \A name \in ToSet(sel.locator) \cup ToSet(sel.columns) : cellAccepts(Field(row, name))

\* ORDER BY the explicit columns, then the locator ascending.
Ordering(sel) ==
  sel.order_by \o [i \in DOMAIN sel.locator |-> [column |-> sel.locator[i], direction |-> "asc"]]
RowBefore(ks, x, y) ==
  LET kx(i) == SortKey(Field(x, ks[i].column))
      ky(i) == SortKey(Field(y, ks[i].column)) IN
  \E i \in DOMAIN ks :
    /\ \A j \in 1..(i - 1) : kx(j) = ky(j)
    /\ IF ks[i].direction = "asc" THEN Precedes(kx(i), ky(i)) ELSE Precedes(ky(i), kx(i))
Filtered(db, sel) ==
  {r \in Object(db, sel.table).rows :
     \A f \in ToSet(sel.where) : filterMatches(f, Field(r, f.column))}
\* Row i of a result is the one that i - 1 rows come before.
InOrder(rows, sel) ==
  [i \in 1..Cardinality(rows) |->
     CHOOSE r \in rows : Cardinality({x \in rows : RowBefore(Ordering(sel), x, r)}) = i - 1]

\* selected_rows: one page, by reading one row more than it shows.
PageBoundsAccept_NoOffset(offset, limit) == limit \in 1..MaxLimit

PageBoundsAccept(offset, limit) == offset \in 0..MaxOffset /\ limit \in 1..MaxLimit
UpTo(s, from, to) == SubSeq(s, from, IF to < Len(s) THEN to ELSE Len(s))
ReadAhead(rows, sel, offset, limit) == UpTo(InOrder(rows, sel), offset + 1, offset + limit + 1)
selected_rowsAccepts(rows, sel, offset, limit) ==
  \A r \in ToSet(ReadAhead(rows, sel, offset, limit)) : RowAccepts(r, sel)
\* The rows of a page that starts at offset, whether there are more, and where.
Page(rows, sel, offset, limit, more) ==
  [rows |-> [i \in DOMAIN rows |-> RowCells(rows[i], sel)], selection |-> sel,
   offset |-> offset, limit |-> limit, has_more |-> more,
   next_offset |-> IF more THEN offset + Len(rows) ELSE 0]
PageOf_SkipsOne(read, sel, offset, limit) ==
  [Page(UpTo(read, 1, limit), sel, offset, limit, Len(read) > limit) EXCEPT
     !.next_offset = IF Len(read) > limit THEN offset + Len(read) ELSE 0]

PageOf(read, sel, offset, limit) ==
  Page(UpTo(read, 1, limit), sel, offset, limit, Len(read) > limit)
selected_rows(rows, sel, offset, limit) ==
  PageOf(ReadAhead(rows, sel, offset, limit), sel, offset, limit)
=============================================================================
