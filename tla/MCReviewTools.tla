---------------------------- MODULE MCReviewTools ----------------------------
EXTENDS ReviewTools

MCSizeOf(d) == CASE d = "small" -> 1 [] d = "other" -> 1 [] OTHER -> 2
MCReport == <<"report">>
MCProduct ==
  LET file(path, data) == [path |-> path, kind |-> "RegularFile", fingerprint |-> data,
                           size |-> [num |-> MCSizeOf(data), form |-> "int"]]
      member(name, data) == [name |-> name, stored |-> TRUE, data |-> data] IN
  [members |-> <<member(Manifest, "other"), member(Member(MCReport), "small"),
                 member(Member(<<"log">>), "large")>>,
   manifest |-> [keys |-> <<"files", "total_bytes">>, header |-> TRUE,
                 files |-> <<file(MCReport, "small"), file(<<"log">>, "large")>>,
                 total |-> [num |-> 3, form |-> "int"]]]
MCData == {"small", "other", "large"}
MCWords ==
  {"artifacts", "manifest.json", "report", "log", "extra", "..", "x", "RegularFile", "Symlink",
   "int", "decimal", "padded", "files", "total_bytes"}

MCLines ==
  {Line("TN", "t", 0, 0), Line("SF", "f", 0, 0),
   Line("end_of_record", "", 0, 0), Line("FN", "", 0, 0), Line("XX", "", 0, 0)}
  \cup {Line("DA", "", 1, 0), Line("DA", "", 1, 1), Line("DA", "a", 1, 0), Line("DA", "a", 1, 1),
        Line("DA", "b", 1, 1), Line("DA", "", 2, 1), Line("DA", "", 0, 1)}
  \cup {Line("LF", "", 1, 0), Line("LH", "", 1, 0)}

Attrs(name, time, status, result) ==
  [name |-> name, time |-> time, status |-> status, result |-> result]
Unnamed == Attrs("absent", "", "", "")
MCElements ==
  {[tag |-> t, attrs |-> Unnamed] :
     t \in {"testsuites", "testsuite", "testcase", "failure", "error", "skipped",
            "properties", "property", "system-out", "unknown"}}
  \cup {[tag |-> "testsuite", attrs |-> Attrs("s", "", "", "")]}
  \cup {[tag |-> "testcase", attrs |-> a] :
          a \in {Attrs("n", "", "", ""), Attrs("n", "1", "", ""), Attrs("n", "", "notrun", ""),
                 Attrs("n", "", "notrun", "completed")}}

MCFolding == [P |-> "p", A |-> "a"]

Num(n) == [kind |-> "integer", num |-> n, form |-> 0]
RealNum(n) == [kind |-> "real", num |-> n, form |-> 0]
Txt(n, f) == [kind |-> "text", num |-> n, form |-> f]
Infinity == [kind |-> "real", num |-> 0, form |-> 2]

Column(name, affinity) == [name |-> name, affinity |-> affinity, pk |-> 0, generated |-> FALSE]
Columns(names) == [i \in DOMAIN names |-> Column(names[i], "none")]
Table(name, columns, rows) ==
  [name |-> name, kind |-> "table", internal |-> FALSE, without_rowid |-> FALSE,
   columns |-> columns, fk |-> <<>>, rows |-> rows]
View(name, base) ==
  [name |-> name, kind |-> "view", internal |-> FALSE, without_rowid |-> FALSE,
   columns |-> <<>>, fk |-> <<>>, rows |-> {}, base |-> base]
Database(objects) == [journal |-> "rollback", objects |-> objects]
Alone(db) == [before |-> db, after |-> db]
RowsOf(vals) == {[id |-> i, vals |-> vals[i]] : i \in DOMAIN vals}

\* Parents and children, with the values each affinity can store.
Storable(affinity) ==
  CASE affinity = "integer" -> {Null, Num(7)}
    [] affinity = "text" -> {Null, Txt(7, 0), Txt(7, 1)}
    [] OTHER -> {Null, Num(7), Txt(7, 0), Txt(7, 1), RealNum(7)}
Child(ca, rows, to) ==
  [Table("c", <<Column("r", ca)>>, rows) EXCEPT
     !.fk = <<[id |-> 0, seq |-> 0, parent |-> "P", from |-> "r", to |-> to]>>]
Related ==
  UNION {
    {Alone(Database({Table("p", <<Column("a", pa)>>, RowsOf(<<[a |-> v], [a |-> w]>>)),
                     Child(ca, RowsOf(<<[r |-> x], [r |-> y]>>), "A")})) :
       v \in Storable(pa), w \in Storable(pa), x \in Storable(ca), y \in Storable(ca) \cap {Num(7), Txt(7, 0)}} :
    pa \in {"integer", "text", "none"}, ca \in {"integer", "text", "none"}}
  \cup {Alone(Database({Table("p", Columns(<<"a", "b">>),
                              RowsOf(<<[a |-> Num(7), b |-> Infinity], [a |-> Num(7), b |-> Num(1)]>>)),
                        Child("none", RowsOf(<<[r |-> Num(7)]>>), "A")}))}

\* Three rows of a category and a measure.
Category == {Num(1), RealNum(1), Txt(1, 0)}
Measured == {Num(1), RealNum(1), Num(2), Null}
Explored ==
  {Alone(Database({Table("t", Columns(<<"g", "m">>), RowsOf(rows))})) :
     rows \in (UNION {[1..n -> [g : Category, m : Measured]] : n \in 1..2})
              \cup {<<[g |-> Num(1), m |-> v], [g |-> Num(1), m |-> w], [g |-> x, m |-> Num(1)]>> :
                      v \in Measured, w \in Measured, x \in Category}
              \cup {[i \in 1..4 |-> [g |-> Num(1), m |-> Num(1)]]}}
  \cup {Alone(Database({Table("t", Columns(<<"g", "m", "x">>),
                              RowsOf(<<[g |-> Num(1), m |-> Num(1), x |-> Infinity]>>))}))}

\* Tables of every shape.
Shapes ==
  LET named(name) == Table("t", Columns(<<"a", name>>),
                           RowsOf(<<(name :> Num(2)) @@ [a |-> Num(1)], (name :> Num(2)) @@ [a |-> Num(1)]>>))
      keyed == [Table("t", <<[Column("a", "none") EXCEPT !.pk = 1]>>, RowsOf(<<[a |-> Num(1)], [a |-> Num(2)]>>))
                  EXCEPT !.without_rowid = TRUE]
      ordinary == [keyed EXCEPT !.without_rowid = FALSE]
      hidden == Table("t", Columns(<<"_rowid_", "rowid", "oid">>),
                      RowsOf(<<[n \in {"_rowid_", "rowid", "oid"} |-> Num(1)]>>))
      computed == Table("t", <<Column("a", "none"), [Column("b", "none") EXCEPT !.generated = TRUE]>>,
                        RowsOf(<<[a |-> Num(1), b |-> Num(2)]>>))
      extreme == Table("t", Columns(<<"a">>), RowsOf(<<[a |-> Num(-Int64)], [a |-> Num(Int64 - 1)]>>))
      plain == Table("t", Columns(<<"a">>), RowsOf(<<[a |-> Num(1)], [a |-> Infinity]>>)) IN
  {named("_rowid_"), named("rowid"), keyed, ordinary, hidden, computed, extreme, plain}
Shaped ==
  {[before |-> Database({s, View("v", "t")}), after |-> Database({t})] : s \in Shapes, t \in Shapes}
  \cup {Alone([Database({}) EXCEPT !.journal = "wal"])}

\* Two copies of a keyed table.
Keyed == [k : {Num(1), Txt(1, 0), Null}, w : {Num(1), RealNum(1)}]
Copies ==
  LET db(rows) == Database({Table("t", Columns(<<"k", "w">>), RowsOf(rows))})
      some == UNION {[1..n -> Keyed] : n \in 0..2} IN
  {[before |-> db(x), after |-> db(y)] : x \in some, y \in some}

MCSessions == Related \cup Explored \cup Shaped \cup Copies

Has(db, name) == \E o \in db.objects : o.name = name
HasColumn(db, name, column) == \E o \in db.objects : o.name = name /\ column \in ColumnNames(o)
MCRequests(s) ==
  LET db == s["before"]
      rows(recipe, expected) ==
        [op |-> "rows", side |-> "before", recipe |-> recipe, expected |-> expected, offset |-> 0, limit |-> 1]
      request == [database_sha256 |-> sha(db), table |-> "t", where |-> <<>>]
      query(table, columns, max_rows) ==
        [op |-> "query", side |-> "before", statement |-> Statement(table, columns),
         database_sha256 |-> sha(db), max_rows |-> max_rows] IN
  {[op |-> "schema", side |-> "before"]}
  \cup (IF HasColumn(db, "t", "k") THEN {} ELSE
        {rows(Bare(o.name), expected) : o \in db.objects, expected \in {<<>>, <<sha(db)>>}})
  \cup (IF ~HasColumn(db, "t", "g") THEN {} ELSE
        {rows([table |-> "t", columns |-> <<"m">>, where |-> where,
               order_by |-> <<[column |-> "m", direction |-> "desc"]>>], <<sha(db)>>) :
           where \in {<<>>, <<[column |-> "g", op |-> "eq", value |-> cell(Num(1)), upper |-> cell(Num(1)),
                               low |-> TRUE, high |-> TRUE]>>}})
  \cup (IF ~HasColumn(db, "t", "g") THEN {} ELSE
        {[op |-> "summarize", side |-> "before",
          request |-> [group_by |-> <<"g">>, measures |-> <<"m">>] @@ request],
         [op |-> "crosstab", side |-> "before",
          request |-> [row_column |-> "g", column_column |-> "m"] @@ request],
         [op |-> "histogram", side |-> "before",
          request |-> [column |-> "m", boundaries |-> <<cell(Num(1)), cell(RealNum(2))>>] @@ request]})
  \cup (IF ~Has(db, "v") THEN {} ELSE
        {query("t", columns, n) : columns \in {<<"a">>, <<"rowid">>, <<"b">>}, n \in 1..2} \cup {query("v", <<"a">>, 2)})
  \cup (IF ~HasColumn(db, "t", "k") THEN {} ELSE
        {[op |-> "compare", side |-> "before",
          request |-> [before_sha256 |-> sha(s["before"]), after_sha256 |-> sha(s["after"]), table |-> "t",
                       key_columns |-> <<"k">>, columns |-> <<>>]]})
  \cup (IF ~Has(db, "v") THEN {} ELSE
        {[op |-> "compare-schema", side |-> "before", before_sha256 |-> sha(s["before"]),
          after_sha256 |-> sha(s["after"]), table |-> name] : name \in {"t", "v"}})

\* The same schema with the rows in each other's place.
Swapped(o) ==
  [o EXCEPT !.rows = {[id |-> r.id, vals |-> (CHOOSE q \in o.rows : q.id = 3 - r.id).vals] : r \in o.rows}]
MCReplacement(db) ==
  IF \A o \in db.objects : o.kind = "table" => {r.id : r \in o.rows} = {1, 2}
  THEN {Database({Swapped(o) : o \in db.objects})} \ {db} ELSE {}
MCOffsets == {0, 2}
=============================================================================
