---------------------------- MODULE ReviewBundle -----------------------------
(***************************************************************************)
(* The review ZIP that every retained-report tool reads first, and the     *)
(* checks it must pass (tools/coverage_review.py): JSON decoding, numbers, *)
(* digests, relative paths and `bundle'.                                   *)
(*                                                                         *)
(* An archive is [members, manifest]; a member [name, stored, data], a     *)
(* name the sequence of its path's parts; a manifest [keys, header, files, *)
(* total], where keys are the names of the JSON object as they were        *)
(* written and header says that version, purpose, binding and expiry are   *)
(* the ones supported; an entry of files [path, kind, size, fingerprint].  *)
(* Bytes are told apart only as wholes: data is its own SHA-256.           *)
(***************************************************************************)
EXTENDS Integers, FiniteSets, SequencesExt

CONSTANTS SizeOf(_),                \* the length of an artifact's bytes
          MaxBundle, MaxFiles, MaxPath, MaxArtifact, MaxReport

ASSUME BundleAssumption ==
  /\ \A n \in {MaxBundle, MaxFiles, MaxPath, MaxArtifact, MaxReport} : n \in Nat \ {0}
  /\ MaxReport <= MaxArtifact

sha(data) == data

\* A list comprehension: the elements of a sequence at some positions, in order.
Ascending(S) ==
  CHOOSE f \in [1..Cardinality(S) -> S] : \A i, j \in DOMAIN f : i < j => f[i] < f[j]
Picked(s, at) == [n \in DOMAIN Ascending(at) |-> s[Ascending(at)[n]]]

\* pairs, decode: a JSON object whose keys are all different.
pairs(keys) == Cardinality(ToSet(keys)) = Len(keys)
decode(manifest) == pairs(manifest.keys)

\* number: an integer, or its canonical decimal spelling, within a range.
number(value, maximum) == value.form \in {"int", "decimal"} /\ value.num \in 0..maximum

\* digest: the spelling of a SHA-256.
digest(value) == value # "malformed"

\* relative: a path that stays below the directory it is joined to.
relative(path) ==
  /\ Len(path) \in 1..MaxPath
  /\ \A i \in DOMAIN path : path[i] \notin {"", ".", "..", "\\"}

\* read_file: the whole file, or a refusal when it is longer than the bound.
read_file(size, maximum) == size <= maximum

Manifest == <<"manifest.json">>
Member(path) == <<"artifacts">> \o path
Names(archive) == [i \in DOMAIN archive.members |-> archive.members[i].name]
DataOf(archive, name) ==
  archive.members[CHOOSE i \in DOMAIN archive.members : archive.members[i].name = name].data

ArchiveSize(archive) == FoldLeft(LAMBDA n, m : n + SizeOf(m.data), 0, archive.members)

\* What is asked of the members before the manifest is decoded.
MembersAccept(archive) ==
  /\ read_file(ArchiveSize(archive), MaxBundle) /\ Len(archive.members) \in 2..(MaxFiles + 1)
  /\ pairs(Names(archive)) /\ Manifest \in ToSet(Names(archive))
  /\ \A m \in ToSet(archive.members) : m.stored /\ SizeOf(m.data) <= MaxArtifact
  /\ SizeOf(DataOf(archive, Manifest)) <= MaxReport

\* One round of the loop over the inventory: s is [ok, expected, total, selected].
EntryAccepts_Unverified(s, entry, archive) ==
  LET member == Member(entry.path) IN
  /\ relative(entry.path) /\ entry.kind = "RegularFile"
  /\ number(entry.size, MaxArtifact) /\ s.total + entry.size.num <= MaxArtifact
  /\ member \in ToSet(Names(archive)) /\ SizeOf(DataOf(archive, member)) = entry.size.num

EntryAccepts(s, entry, archive) ==
  LET member == Member(entry.path) IN
  /\ relative(entry.path) /\ member \notin s.expected /\ entry.kind = "RegularFile"
  /\ number(entry.size, MaxArtifact) /\ s.total + entry.size.num <= MaxArtifact
  /\ member \in ToSet(Names(archive)) /\ SizeOf(DataOf(archive, member)) = entry.size.num
  /\ digest(entry.fingerprint) /\ sha(DataOf(archive, member)) = entry.fingerprint
Entry(s, entry, archive, report) ==
  LET member == Member(entry.path) IN
  IF ~(s.ok /\ EntryAccepts(s, entry, archive)) \/ (entry.path = report /\ entry.size.num > MaxReport)
  THEN [s EXCEPT !.ok = FALSE]
  ELSE [ok |-> TRUE, expected |-> s.expected \cup {member}, total |-> s.total + entry.size.num,
        selected |-> IF entry.path = report THEN <<DataOf(archive, member)>> ELSE s.selected]
Rounds(archive, report) ==
  LET files == archive.manifest.files
      after[n \in 0..Len(files)] ==
        IF n = 0 THEN [ok |-> TRUE, expected |-> {Manifest}, total |-> 0, selected |-> <<>>]
        ELSE Entry(after[n - 1], files[n], archive, report) IN
  after
Inventory(archive, report) == Rounds(archive, report)[Len(archive.manifest.files)]

\* bundle: the bytes of the report, or <<>> for every refusal.
bundleAccepts_Extra(archive, report) ==
  LET s == Inventory(archive, report) IN
  /\ relative(report) /\ MembersAccept(archive)
  /\ decode(archive.manifest) /\ archive.manifest.header /\ Len(archive.manifest.files) \in 1..MaxFiles
  /\ s.ok /\ number(archive.manifest.total, MaxArtifact) /\ s.total = archive.manifest.total.num
  /\ s.selected # <<>>

bundleAccepts(archive, report) ==
  LET s == Inventory(archive, report) IN
  /\ relative(report) /\ MembersAccept(archive)
  /\ decode(archive.manifest) /\ archive.manifest.header /\ Len(archive.manifest.files) \in 1..MaxFiles
  /\ s.ok /\ ToSet(Names(archive)) = s.expected
  /\ number(archive.manifest.total, MaxArtifact) /\ s.total = archive.manifest.total.num
  /\ s.selected # <<>>
bundle(archive, report) ==
  IF bundleAccepts(archive, report) THEN Inventory(archive, report).selected ELSE <<>>
=============================================================================
