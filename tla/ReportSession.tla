---------------------------- MODULE ReportSession ----------------------------
(***************************************************************************)
(* One run of tools/coverage_review.py or tools/junit_review.py over two   *)
(* review ZIPs: both are checked by `bundle', the reports in them are read *)
(* from the first line or element to the last, before then after, and the  *)
(* two readings are compared.  Every refusal ends the run without output.  *)
(*                                                                         *)
(* The archives start as copies of one consistent ZIP and are edited by    *)
(* whoever holds them, up to MaxEdits times, before the tool opens them.   *)
(* What an accepted report says is left open: each line, element or piece  *)
(* of text is any of a small alphabet.                                     *)
(***************************************************************************)
EXTENDS CoverageReview, JunitReview

CONSTANTS Product,        \* the ZIP the product wrote
          Report,         \* the path of the report in it
          Data,           \* what an artifact may contain
          Words,          \* what paths, kinds and spellings are written with
          MaxEdits,       \* edits of the two archives together
          Lines,          \* lines of an LCOV report
          Elements,       \* elements of a JUnit report: [tag, attrs]
          MaxElements     \* elements and texts of the two JUnit reports together

Paths == Seq(Words)
Numbers == [num : Nat, form : Words]
ZipMembers == [name : Paths, stored : BOOLEAN, data : Data]
ListedFiles == [path : Paths, kind : Words, size : Numbers, fingerprint : Data \cup {"malformed"}]
Archives ==
  [members : Seq(ZipMembers),
   manifest : [keys : Seq(Words), header : BOOLEAN, files : Seq(ListedFiles), total : Numbers]]

ASSUME ReportAssumption ==
  /\ MaxEdits \in Nat /\ MaxElements \in Nat
  /\ Product \in Archives /\ Report \in Paths
  /\ {"artifacts", "..", "x", "extra", "Symlink", "int", "decimal", "padded", "files"} \subseteq Words
  /\ \A d \in Data : SizeOf(d) \in Nat /\ d # "malformed"

VARIABLES tool, phase, archives, p, before, outcome,
          edits,          \* edits made
          heads, title,   \* the document: test name given to each record, and to the next
          opened, rooted, elements   \* the document: open elements, a closed root, its size

documentVars == <<heads, title, opened, rooted, elements>>
reportVars == <<tool, phase, archives, p, before, outcome, edits, documentVars>>
Side2 == {"before", "after"}
NoOutcome == [rows |-> <<>>, counts |-> <<>>]
Fresh == IF tool = "coverage" THEN NoReport ELSE NoDocument

ReportInit(t) ==
  /\ tool = t /\ phase = "archives" /\ archives = [s \in Side2 |-> Product]
  /\ p = (IF t = "coverage" THEN NoReport ELSE NoDocument)
  /\ before = <<>> /\ outcome = NoOutcome /\ edits = 0
  /\ heads = <<>> /\ title = "" /\ opened = <<>> /\ rooted = FALSE /\ elements = 0

(***************************************************************************)
(* The archives.                                                           *)
(***************************************************************************)

MemberEdits(a) ==
  LET at(i, m) == [a EXCEPT !.members[i] = m] IN
  UNION {{at(i, [a.members[i] EXCEPT !.data = d]) : d \in Data}
         \cup {at(i, [a.members[i] EXCEPT !.stored = FALSE]),
               [a EXCEPT !.members = RemoveAt(@, i)],
               [a EXCEPT !.members = Append(@, a.members[i])],
               [a EXCEPT !.members = Append(@, [a.members[i] EXCEPT !.name = Member(<<"extra">>)])]} :
         i \in DOMAIN a.members}
EntryEdits(e) ==
  {[e EXCEPT !.fingerprint = f] : f \in Data \cup {"malformed"}}
  \cup {[e EXCEPT !.size = [num |-> n, form |-> f]] :
          n \in {e.size.num, e.size.num + 1}, f \in {"int", "decimal", "padded"}}
  \cup {[e EXCEPT !.path = q] : q \in {<<"..", "x">>, Report, <<"extra">>}}
  \cup {[e EXCEPT !.kind = "Symlink"]}
FileEdits(a, i) ==
  {[a EXCEPT !.manifest.files[i] = e] : e \in EntryEdits(a.manifest.files[i])}
  \cup {[a EXCEPT !.manifest.files = RemoveAt(@, i)],
        [a EXCEPT !.manifest.files = Append(@, a.manifest.files[i])]}
ManifestEdits(a) ==
  (UNION {FileEdits(a, i) : i \in DOMAIN a.manifest.files})
  \cup {[a EXCEPT !.manifest.total.num = @ + 1], [a EXCEPT !.manifest.header = FALSE],
        [a EXCEPT !.manifest.keys = Append(@, "files")]}

\* Whoever holds an archive changes one thing in it.
Tamper(s) ==
  /\ phase = "archives" /\ edits < MaxEdits /\ edits' = edits + 1
  /\ \E a \in MemberEdits(archives[s]) \cup ManifestEdits(archives[s]) :
       archives' = [archives EXCEPT ![s] = a]
  /\ UNCHANGED <<tool, phase, p, before, outcome>> /\ UNCHANGED documentVars

\* main: both archives are read and checked before either report is.
\* They are not opened again: what became of them is forgotten.
ReadBundles ==
  /\ phase = "archives"
  /\ phase' = IF \A s \in Side2 : bundle(archives[s], Report) # <<>> THEN "before" ELSE "refused"
  /\ archives' = [s \in Side2 |-> Product] /\ edits' = 0
  /\ UNCHANGED <<tool, p, before, outcome>> /\ UNCHANGED documentVars

(***************************************************************************)
(* The reports.                                                            *)
(***************************************************************************)

Reading == phase \in Side2
NoneRead == heads' = <<>> /\ title' = "" /\ opened' = <<>> /\ rooted' = FALSE

\* Any exception: nothing is written, and nothing read is kept.
Refuse ==
  /\ phase' = "refused" /\ p' = Fresh /\ before' = <<>> /\ NoneRead /\ elements' = 0
  /\ UNCHANGED <<tool, archives, outcome, edits>>
Reads == UNCHANGED <<tool, phase, archives, before, outcome, edits>>

\* lcov: the next line of the report.
ReadLine(l) ==
  /\ tool = "coverage" /\ Reading
  /\ \/ ~lineAccepts(p, l) /\ Refuse
     \/ /\ lineAccepts(p, l) /\ p' = lcov(p, l) /\ Reads
        /\ title' = CASE l.tag = "TN" -> l.text [] l.tag = "SF" -> "" [] OTHER -> title
        /\ heads' = IF l.tag = "SF" THEN Append(heads, title) ELSE heads
        /\ UNCHANGED <<opened, rooted, elements>>

\* junit: the parser meets a start tag, an end tag, text, or a declaration.
StartElement(tag, attrs) ==
  /\ tool = "junit" /\ Reading /\ elements < MaxElements
  /\ \/ (rooted \/ ~startAccepts(p, tag, attrs)) /\ Refuse
     \/ /\ ~rooted /\ startAccepts(p, tag, attrs) /\ p' = start(p, tag, attrs) /\ Reads
        /\ opened' = Append(opened, [tag |-> tag, name |-> attrs.name])
        /\ elements' = elements + 1 /\ UNCHANGED <<heads, title, rooted>>
EndElement ==
  /\ tool = "junit" /\ Reading /\ opened # <<>>
  /\ LET tag == opened[Len(opened)].tag IN
     \/ ~endAccepts(p, tag) /\ Refuse
     \/ /\ endAccepts(p, tag) /\ p' = end(p, tag) /\ Reads
        /\ opened' = Front(opened) /\ rooted' = (opened' = <<>>)
        /\ UNCHANGED <<heads, title, elements>>
Text ==
  /\ tool = "junit" /\ Reading /\ opened # <<>> /\ elements < MaxElements
  /\ elements' = elements + 1 /\ p' = text(p) /\ Reads
  /\ UNCHANGED <<heads, title, opened, rooted>>
\* forbidden: a document type or entity declaration.
Declaration == tool = "junit" /\ Reading /\ opened = <<>> /\ Refuse

\* The end of a report: the next one begins, or main compares the two.
Ended == IF tool = "coverage" THEN Complete(p) ELSE p.stack = <<>> /\ rooted
Result == IF tool = "coverage" THEN p.groups ELSE p.cases
EndReport ==
  /\ Reading
  /\ \/ ~Ended /\ Refuse
     \/ /\ Ended /\ phase = "before" /\ phase' = "after"
        /\ before' = Result /\ p' = Fresh /\ NoneRead
        /\ UNCHANGED <<tool, archives, outcome, edits, elements>>
     \/ /\ Ended /\ phase = "after" /\ phase' = "compared" /\ NoneRead
        /\ \E changes_only \in BOOLEAN :
             outcome' = IF tool = "coverage" THEN compare(before, Result, changes_only)
                        ELSE compare_cases(before, Result, changes_only)
        /\ UNCHANGED <<tool, archives, p, before, edits, elements>>

ReportNext ==
  \/ \E s \in Side2 : Tamper(s)
  \/ ReadBundles
  \/ \E l \in Lines : ReadLine(l)
  \/ \E e \in Elements : StartElement(e.tag, e.attrs)
  \/ EndElement \/ Text \/ Declaration
  \/ EndReport

(***************************************************************************)
(* Properties.                                                             *)
(***************************************************************************)

\* The readers stay within their bounds: records, observations, nesting and
\* cases, whatever the report goes on to contain.
ReportTypeOK ==
  /\ phase \in {"archives", "before", "after", "compared", "refused"}
  /\ edits \in 0..MaxEdits /\ elements \in 0..MaxElements /\ rooted \in BOOLEAN
  /\ tool = "coverage" => /\ p.records \in 0..MaxRecords /\ p.count \in 0..MaxObservations
                          /\ p.pending_test \in BOOLEAN /\ Len(p.current) <= 1
  /\ tool = "junit" => /\ Len(p.stack) <= MaxDepth /\ Len(p.cases) <= MaxCases
                       /\ Len(p.current) <= 1 /\ p.stack = [i \in DOMAIN opened |-> opened[i].tag]

\* What the manifest lists is exactly what the archive holds, and within the
\* bounds that the tool states.
Sums(files) ==
  LET sum[n \in 0..Len(files)] == IF n = 0 THEN 0 ELSE sum[n - 1] + files[n].size.num IN sum
Consistent(a) ==
  LET f == a.manifest.files
      held == {i \in DOMAIN a.members : a.members[i].name # Manifest} IN
  /\ a.manifest.header /\ \A i, j \in DOMAIN a.manifest.keys : a.manifest.keys[i] = a.manifest.keys[j] => i = j
  /\ ArchiveSize(a) <= MaxBundle /\ held # DOMAIN a.members
  /\ \A i \in DOMAIN a.members :
       a.members[i].stored /\ (i \notin held => SizeOf(a.members[i].data) <= MaxReport)
  /\ \A i, j \in DOMAIN a.members : a.members[i].name = a.members[j].name => i = j
  /\ Len(f) \in 1..MaxFiles
  /\ \A i \in DOMAIN f :
       /\ f[i].kind = "RegularFile" /\ f[i].size.form \in {"int", "decimal"} /\ relative(f[i].path)
       /\ \E j \in held : /\ a.members[j].name = Member(f[i].path)
                          /\ a.members[j].data = f[i].fingerprint
                          /\ SizeOf(a.members[j].data) = f[i].size.num
  /\ \A j \in held : \E i \in DOMAIN f : a.members[j].name = Member(f[i].path)
  /\ \A i, j \in DOMAIN f : f[i].path = f[j].path => i = j
  /\ a.manifest.total.form \in {"int", "decimal"} /\ a.manifest.total.num = Sums(f)[Len(f)]
  /\ a.manifest.total.num <= MaxArtifact

\* `bundle' accepts an edited archive exactly when the inventory of its
\* manifest and its members still agree in every entry, whatever edits
\* were made, and then returns the bytes listed under the report's path.
BundleExact ==
  phase = "archives" =>
    \A s \in Side2 :
      LET f == archives[s].manifest.files
          listed == {f[i].fingerprint : i \in {j \in DOMAIN f : f[j].path = Report /\ f[j].size.num <= MaxReport}} IN
      IF Consistent(archives[s]) /\ listed # {}
      THEN bundle(archives[s], Report) # <<>> /\ bundle(archives[s], Report)[1] \in listed
      ELSE bundle(archives[s], Report) = <<>>

\* Two accepted archives with one manifest hold the same members with the
\* same bytes: manifest_sha256 in the output identifies everything reviewed.
ManifestPinsContents ==
  (/\ phase = "archives" /\ archives["before"].manifest = archives["after"].manifest
   /\ \A s \in Side2 : bundle(archives[s], Report) # <<>>)
  => \A m \in ToSet(archives["before"].members) :
       m.name # Manifest => m \in ToSet(archives["after"].members)

\* Every DA line accepted so far is in exactly one place, once: under its
\* coordinate or in the open record; a coordinate's observations come from
\* different records in the order of the report.
Places(lists) == UNION {{k} \X DOMAIN lists[k] : k \in DOMAIN lists}
ObservationsAccounted ==
  (tool = "coverage" /\ Reading) =>
    /\ p.count = Cardinality(Places(p.groups))
                 + (IF p.current = <<>> THEN 0 ELSE Cardinality(DOMAIN p.current[1].lines))
    /\ \A k \in DOMAIN p.groups : \A i, j \in DOMAIN p.groups[k] :
         i < j => p.groups[k][i].record < p.groups[k][j].record

\* An observation carries the test name that was given to its own record,
\* and none when its record had none, however the records before it went.
TestNameIsOwnRecord ==
  (tool = "coverage" /\ Reading) =>
    /\ \A k \in DOMAIN p.groups : \A i \in DOMAIN p.groups[k] :
         p.groups[k][i].test_name = heads[p.groups[k][i].record]
    /\ p.current # <<>> => \A n \in DOMAIN p.current[1].lines :
         p.current[1].lines[n].test_name = heads[Len(heads)]

\* A coordinate is said to have gained, lost or kept coverage only when the
\* reports name at most one source text for it, both sides taken together.
NeverComparedAcrossSources ==
  (tool = "coverage" /\ phase = "compared") =>
    \A k \in DOMAIN outcome.rows :
      LET row == outcome.rows[k]
          named(side) == IF side = <<>> THEN {} ELSE side[1].checksums IN
      row.status \notin {"checksum-conflict", "source-changed"} =>
        Cardinality(named(row.before) \cup named(row.after)) <= 1

\* Comparing the two reports the other way round says the same, mirrored.
Mirror(status) ==
  CASE status = "added" -> "removed" [] status = "removed" -> "added"
    [] status = "added-covered" -> "removed-covered" [] status = "removed-covered" -> "added-covered"
    [] status = "added-uncovered" -> "removed-uncovered"
    [] status = "removed-uncovered" -> "added-uncovered"
    [] status = "covered-to-uncovered" -> "uncovered-to-covered"
    [] status = "uncovered-to-covered" -> "covered-to-uncovered"
    [] OTHER -> status
ComparisonMirrors ==
  phase = "compared" =>
    LET back == IF tool = "coverage" THEN compare(Result, before, FALSE).rows
                ELSE compare_cases(Result, before, FALSE).rows IN
    \A k \in DOMAIN outcome.rows :
      /\ k \in DOMAIN back
      /\ back[k] = [outcome.rows[k] EXCEPT !.status = Mirror(@), !.before = outcome.rows[k].after,
                                           !.after = outcome.rows[k].before]

\* The handlers' stack of suites is the nesting of the document: the open
\* case carries the names of the suites around it, and no others.
SuitePathIsNesting ==
  (tool = "junit" /\ Reading /\ p.current # <<>>) =>
    LET around == Ascending({i \in DOMAIN opened : opened[i].tag = "testsuite"}) IN
    p.current[1].suite_path = [n \in DOMAIN around |-> SuiteName(opened[around[n]])]

\* Text is collected exactly while an outcome element is the innermost open
\* one, and into the diagnostic of that element.
TextBelongsToOpenElement ==
  (tool = "junit" /\ Reading) =>
    LET inner == IF opened = <<>> THEN "none" ELSE opened[Len(opened)].tag IN
    /\ (p.diagnostic # 0) = (inner \in Outcomes)
    /\ p.diagnostic # 0 => p.current[1].diagnostics[p.diagnostic].kind = inner

\* A row that pairs two cases and does not say the outcome changed never has
\* a reported failure or error on one side only.
NoFailureHidden ==
  (tool = "junit" /\ phase = "compared") =>
    \A id \in DOMAIN outcome.rows :
      LET row == outcome.rows[id]
          fails(case) == Kinds(case) \cap {"failure", "error"} # {} IN
      row.status \in {"unchanged", "changed-details"} => fails(row.before[1]) = fails(row.after[1])

\* Every case of either report is in exactly one row under its own identity,
\* and a row that pairs cases has no other case of that identity to pair.
EveryCaseReported ==
  (tool = "junit" /\ phase = "compared") =>
    LET rows == compare_cases(before, p.cases, FALSE).rows
        once(cases, field) ==
          LET lists == [id \in DOMAIN rows |-> rows[id][field]] IN
          \A i \in DOMAIN cases : \E here \in Places(lists) :
            /\ here[1] = Identity(cases[i])
            /\ \A at \in Places(lists) : lists[at[1]][at[2]] = cases[i] <=> at = here IN
    /\ once(before, "before") /\ once(p.cases, "after")
    /\ \A id \in DOMAIN outcome.rows :
         outcome.rows[id].status \in {"unchanged", "changed-details", "changed-outcome"} =>
           Len(outcome.rows[id].before) = 1 /\ Len(outcome.rows[id].after) = 1

\* `bundle' can be relied on for everything reviewed: it accepts exactly the
\* consistent archives, and the manifest's fingerprint identifies their bytes.
ArchivesTrusted == BundleExact /\ ManifestPinsContents

\* The two incremental readers, lcov and the JUnit callbacks, attribute
\* what they read to the record, suite, case and diagnostic it was read in,
\* and lose nothing of it, whatever the order of lines and elements.
ReadersAttribute ==
  /\ ObservationsAccounted /\ TestNameIsOwnRecord
  /\ SuitePathIsNesting /\ TextBelongsToOpenElement

\* A comparison of two reports is fair: only like is compared with like, and
\* neither side is favoured.
ComparisonFair == NeverComparedAcrossSources /\ ComparisonMirrors

\* A JUnit comparison hides neither a case nor a failure, when one identity
\* occurs twice or a case is skipped and failing at once included.
NoCaseHidden == NoFailureHidden /\ EveryCaseReported
=============================================================================
