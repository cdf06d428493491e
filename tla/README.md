# MoonFort: verification project

MoonFort is the execution boundary of an agent system: a trusted executor runs
commands that a person approved, inside a local OS sandbox or a micro-VM, keeps
the result for review, and writes reviewed files back into the workspace. Its
processes are short-lived (one request each) and share nothing but the file
system, so its correctness is a matter of the order of file-system calls made by
processes that race, fail and crash. Beside the executor the repository has the
tools (Python and one web page) with which a person reviews what was retained:
their correctness is a matter of what they attribute, count, page through and
compare, of archives replaced under them, and of the order in which a page meets
the answers to its requests.

## Inventory

| part | state it keeps | operations | interacts with | what is hard | what makes it correct |
|---|---|---|---|---|---|
| grant store (`executor/store.mbt`, `validation.mbt`, `grant_rehearsal.mbt`, `cmd/grant-publisher`, `cmd/executor`) | `pending/<id>.json`, `consumed/<id>.json`, staging files | rehearse, publish, publish reviewed, consume, validate | publishers and executors share the two directories | check-then-rename, crash between rename and start, configuration edited in between | an approval starts at most one command, the one that was approved |
| retention (`executor/store.mbt`, `recovery_inspection.mbt`, `cmd/promote-retention`) | `<id>.json`, `<id>.promoting`, `<id>.claim`, the scratch tree | retain, promote (claim, apply, clean up, restore), inspect, sweep | executors sweep while promoters claim; promotion calls the native layer | power loss between calls, sweeping while claiming, failed calls that took effect | a retention is applied at most once, and its residue can be inspected |
| native promotion (`sandbox/secure_fs.c`, `artifact_promotion.mbt`) | destination and temporary names in the workspace | plan, apply, inspect | other programs edit the workspace | edits between check and exchange, and during the undo | nobody's bytes are lost unseen; the reported outcome is true |
| live output (`executor/live_output.mbt`, `cmd/read-live-output`) | `<stream>.json`, `<stream>.blob` | begin, finalize, read, sweep | the supervisor appends to the blob while readers poll | a reader holds a stale manifest; the executor dies before finalizing; a sweep of a running stream | a reader told `terminal` has every byte; a poller always ends |
| output artifacts (`executor/output_artifact.mbt`, `retained_command_output.mbt`, `command_output_read.mbt`) | `<id>.json`, `<id>.blob` | retain, read, export, sweep | receipts carry the signed reference | partial failure between two renames, sweep between two reads | a reference is returned only when blob and manifest exist |
| invocation (`executor/execution.mbt`) | the steps of one execution | sweep, consume, validate, allocate, run, finalize, retain, clean up | all of the above | cleanup uncertainty, partial failure of any step | `cleanup_verified` is never upgraded |
| local sandbox (`sandbox/local_backend.mbt`, `local_linux_backend.mbt`, `lifecycle.mbt`, `command_preflight.mbt`, `profile.mbt`, `scratch_*.mbt`, `workspace_snapshot.mbt`) | run contract, scratch inventory | prepare, run, snapshot, diff, reset | supervisor process | revision and state of a run, inventory against a moving tree | refused or bound to its profile |
| local supervisor (`internal/local_supervisor`) | child process group, pipes, deadline, output spool | start, pump, kill, reap, report | kernel, child, parent executor | timeouts racing exit, descendants that escape, output limits, parent death | the group is gone before a terminal event is reported |
| AEN back end (`aen_backend`) | remote instance, snapshot, transport | provision, upload, execute, export, destroy | provisioner service and guest over HTTP | lost answers, cleanup of an uncertain instance | an instance is destroyed or reported as not cleaned up |
| AEN provisioner service (`aen_provisioner_service`) | leases, snapshot files | create, attest, release | back ends | restart, concurrent requests | a lease is released once |
| AEN guest (`aen_guest`) | guest process | attest, execute | host | small native program | as attested |
| review bundle check (`tools/coverage_review.py`: `bundle`) | none | accept or refuse a review ZIP | every review tool starts with it | manifest, directory and members say the same thing three times | what is accepted is consistent, and its manifest identifies it |
| coverage review (`tools/coverage_review.py`) | parser state of an LCOV report | read lines, aggregate, compare | bundle check | state that outlives its record; one coordinate, two sources | every observation is counted once, under its own test name; only like is compared |
| JUnit review (`tools/junit_review.py`) | open case, open diagnostic, two stacks | three callbacks of the XML parser, compare | bundle check, expat | nesting, duplicate identities, contradictory outcomes | text and suites belong to the open case; no case or failure is hidden |
| SQLite review (`tools/sqlite_*.py`) | none; every command opens the archive anew | schema, rows, related, referencing, query, summarize, group rows, crosstab, histogram, compare, compare schema | SQLite, bundle check | types and affinities, rowid aliases, page seams, row bounds, an archive replaced between two commands | answers are whole, what they show can be followed, two ways of asking agree |
| SQLite workbench (`tools/sqlite_workbench.py`, `sqlite_workbench/app.js`) | server: pinned bytes, session, token; page: current view, stack, tickets, editor | bootstrap, navigate, back, members, run, open worksheet | browser and loopback server | late, lost and reordered answers, restarts, typing during a load | the page is a history of views of one database |
| retained reports (`executor/retention_*.mbt`, `internal/tap`, `junit`, `text_diff`) | none | pure transformations of retained files | browser commands | limits, boundaries, parsing | each agrees with its format |
| command-line front ends (`cmd/*`), scripts | none | parse a request, call one operation, print | | | thin |

## Modules

* `GrantLedger`: what the grant store promises, as an abstract specification. An
  identity is unpublished, live or spent; it starts at most one command.
* `GrantStore`: the store itself. One action per file-system call of `publish_grant`
  (`LoadConfig`, `publish_grant` or `publish_reviewed_grant`, `CheckPending`,
  `CheckConsumed`, `WriteStaging`, `RenameStaging`, `ReplyPublished`,
  `CleanupStaging`), of `consume_grant` (`SelectPending`, `ClaimGrant`, `ReadGrant`)
  and of `execute_invocation` around it (`BeginInvocation`, `ValidateGrant`,
  `AllocateScratch`, `BindTools`, `StartCommand`, `FinishInvocation`). The clock is
  read in `ValidateGrant` and not again before the start. A rename that reports a
  failure may have taken effect; the ghost `misreported` names the publications this
  happened to. Processes crash anywhere, the operator edits the configuration, time
  passes. `validate_grant` keeps the identity and expiry tests and collapses the policy
  tests to a set of permitted grants per configuration: the properties only distinguish
  whether a configuration authorizes a grant. `ImplementsLedger` maps the two
  directories to the ledger.
* `Retention`: one retained result (names of different retentions never
  collide). `dir` is the directory as processes see it, `survivors` the contents
  a power loss may leave: every state since the last directory sync, since
  metadata updates of one directory are journaled in order. `scratch` and `dest` have
  their own survivors. The executor retains (`PruneScratch`, `WriteRecord`,
  `HostCleanup`), promoters run `promote_retention` call by call, sweepers run
  `sweep_expired_retentions` again and again. Calls fail, and a failed write or
  rename, that of `restore_claimed_retention` included, may have taken effect.
* `SecurePromote`: the native call that Retention's `ApplyPromotion` abstracts:
  inspection, temporary file, copy, rename or exchange, verification of the displaced
  file, undo, cleanup, sync, with edits by other programs between any two calls. Every
  inspection may fail; the ghost `misread` says that the one of the displaced file did
  (`VerifyDisplaced`), which undoes an exchange nothing was wrong with.
* `Supervisor`: one call of `moonfort_local_supervisor_run` against everything
  that acts meanwhile. The supervisor's steps are its system calls in program order:
  setup (`OpenOutput`, `InstallHandlers`, `ResetSignal`, `SpawnWorker`,
  `PublishChild`, `CheckSignal`), one iteration of the loop (`CheckDeadline`,
  `MonitorProcesses`, `MonitorDisk`, `WaitLeader`, `Poll`, `ReadSetup`, `ReadOutput`,
  `StopReading`, `CheckDrain`) and the end (`Finish`, `RestoreAndReport`). Its
  Boolean locals are the set `flags`. The target (`Target`) forks, detaches with
  `setsid`, writes output and files, closes its output, exits and dies; the kernel
  ends killed processes some time later; a signal may reach the executor
  (`forward_signal`). `bubblewrap`, chosen once, says whether the target runs in a
  PID namespace (Linux) or not (macOS). Output bytes are counted, a chunk is all
  that the pipe holds, disk use is over or within its limit, and `file` counts
  the bytes kept. On macOS a worker may go on without an address-space limit that was
  refused (`WorkerExecs`). `receipt_status` is how `execute_local_invocation` answers.
  Locals that are not read again are reset (`Unset`), which only makes states equal.
* `CommandOutput`: the output of one local execution from `begin_live_output` to the
  answer, with pollers of `cmd/read-live-output` and the sweeps of other invocations.
  The executor publishes a running manifest, launches the command, the supervisor
  appends to the blob, the executor replaces the manifest, verifies the spool and
  replies inline, with an artifact or with a failure. A poll is five steps
  (`ReadManifest`, `FindBlob`, `StatBlob`, `CheckTerminal`, `ReadChunk`), each of which
  may fail: where the code catches the error it answers `unavailable` or
  `integrity-refused`, both `terminal`, and the ghost `misread` remembers it; elsewhere
  the command ends without an answer and the client asks again. A sweep is two removals
  per expired pair; a failed artifact is cleaned up file by file. A signed size stands
  for size and digest; `view` says whether the decoded text in the receipt equals the
  bytes.
* `ReviewBundle`: `bundle` of `coverage_review.py` as a predicate on an archive:
  members with a name, a compression method and contents, and the manifest with its
  entries. `bundleAccepts` has one conjunct per `require`; contents are model values
  with a size, so a fingerprint is the contents and a hash is equality.
* `CoverageReview`: `lcov` as a state transformer of one line (`lineAccepts`,
  `lcov`, `EndOfRecord`) over the parser's locals, and `compare` with its
  `Basis` and `Status`.
* `JunitReview`: the callbacks `start`, `end` and `text` over the parser's state, and
  `compare_cases`. `name` stands for classname and name, a diagnostic for kind and
  text; expat delivers well-nested elements (external).
* `ReportSession`: one run of either tool. Before it the two archives are edited
  (`Tamper`), then both are read (`ReadBundles`) and the first and the second report
  arrive line by line (`ReadLine`) or element by element (`StartElement`,
  `EndElement`, `Text`, `Declaration`); `EndReport` refuses, goes on or compares. The
  ghosts `heads`, `title`, `opened` and `rooted` record what the document really said.
* `SqliteReader`, `SqliteRelations`, `SqliteExplore`: the SQLite review as operators.
  A value is `[kind, num, form]` (storage class, the number it is or spells, the
  spelling), so that `1`, `1.0`, `'1'` and `'01'` differ or agree as SQLite, Python and
  the typed JSON make them; a database is a set of tables and views with columns,
  affinities, keys and rows. Each function `f` of the source that may refuse is a pair
  `fAccepts` and `f`. What SQLite does (comparison under affinity, ordering,
  rowid aliases, what a statement reads) is marked external. `SqliteReader` has
  inventory, filters, locators and pages, `SqliteRelations` foreign keys in both
  directions and the authorizer of custom SQL, `SqliteExplore` summaries, groups,
  crosstabs, histograms and the two comparisons.
* `SqliteSession`: a reviewer who runs command after command, each with what the last
  answer showed (`Command`, `NextPage`, `Drill`, `OpenGroup`, `Navigate`), while the
  archive may be replaced (`Replace`); `main` is the dispatch of one command.
* `ReviewTools` composes `ReportSession` and `SqliteSession`: a reviewer uses one tool
  at a time, and they share no state.
* `ReviewHistory`: what the workbench promises, as an abstract specification: a
  history of views of one database, extended, shortened by Back, or forgotten.
* `Workbench`: server and page. `Serve` is one request answered by `do_POST` and
  `dispatch`, `Lose` a connection that fails, `Restart` a new server on the same port,
  `ReplaceArchive` a ZIP overwritten. The page boots (`Booted`), sends a request
  (`navigate`, one action per control that calls it), meets its answer (`Deliver`, with
  the ticket `generation`), opens members of a cell, goes back, and reads worksheets in
  two steps around an await (`ChooseFile`, `FileRead`, with `worksheetLoad` and
  `editorRevision`). `status` and `worksheetStatus` are the two lines that say what is
  going on; the ghost `superseded` says that the load which wrote `Reading worksheet
  locally…` has been overtaken (`Supersede`). Contents of an answer are the database it
  was computed from; an optional value is a sequence of length at most one.
  `ImplementsHistory` maps stack and current view to the history.
* `MCGrantStore`, `MCRetention`, `MCSecurePromote`, `MCSupervisor`,
  `MCCommandOutput`, `MCReviewTools`, `MCWorkbench`: the small instances.
* `GrantStoreProofs`, `RetentionProofs`, `SecurePromoteProofs`, `SupervisorProofs`,
  `CommandOutputProofs`, `WorkbenchProofs`: the theorems about the module each is named
  after. `SqliteProofs` has the lemmas about the operators of the SQLite review and the
  invariant of a session, `ReviewToolsProofs` those of the two report tools, and the
  theorems about all of them.

How they fit together: `GrantStore` ends where a command starts, `Supervisor` is
that command's run on a local host, `CommandOutput` abstracts the run to a spool
that grows and carries its output into the receipt, and `Retention` starts when the
run has ended, with `SecurePromote` as the refinement of its one step
`ApplyPromotion`. What was retained is exported as a review ZIP; `ReportSession` and
`SqliteSession` are the two ways of reading one, and `Workbench` serves the answers of
`SqliteSession` to a page, abstracted to the database they come from.

## Runs

| run | instance | what it shows |
|---|---|---|
| `grant_race` | 2 publishers, 2 executors, 1 identity, 2 competing grants, 2 configurations, clock 0..1 | single use (`SingleUse`); what runs was published, spent, authorized by both configurations and unexpired when its executor checked it (`RunsWhatWasApproved`); answers of a publication and the store agree but for a rename that took effect and reported a failure (`PublicationTruthful`); refinement of the ledger |
| `retention` | 2 promoters, 1 sweeper, 2 failing calls, 2 crashes or power losses, 1 edit | one holder of the claim, one application, inspectable residue, truthful outcomes |
| `retention_sweep` | 1 promoter, 1 sweeper, no faults, fair | violated: a sweep that overlaps a promotion leaves an expired record that no sweep removes |
| `promote` | 3 edits, 2 I/O errors | AppliedDurable displaced reviewed bytes only; against one edit, or a displaced file that cannot be inspected, but not both, no foreign file is lost and NotApplied is undone (`OneDisturbanceIsSafe`) |
| `promote_rollback` | 2 edits | violated: an unverified file is unlinked in the undo |
| `supervisor` | leader and 1 descendant, limits 1, pipe of 1 byte, 1 failing call, with and without namespace, fair | recorded output (`OutputTruthful`), what is left running (`NothingLeft`), the disk limit and on Linux the attested one (`LimitsHeld`) and forwarded signals are as reported; the call returns, unless a target outside a namespace writes for ever |
| `supervisor_flood` | as `supervisor`, no failing call | violated: that exception |
| `supervisor_escape` | as `supervisor_flood` | violated: a detached process that closed its output outlives a run answered Exited |
| `supervisor_limits` | as `supervisor` | violated: on macOS a limit that was refused is attested (`AttestedIsInstalled`, of which `LimitsHeld` keeps the Linux half) |
| `command_output` | 1 poller, 1 sweeper, 2 bytes, 1 failing call, 1 crash, fair | terminal polls are complete, and a begun stream is refused only once it expired or when a call of that poll failed (`PollsTruthful`), no receipt drops output (`ReceiptComplete`), every poller ends, every manifest is swept |
| `review_tools` | two archives edited at most twice; LCOV reports of 2 records and 2 observations, JUnit reports of 6 elements, 4 deep, with 2 cases; four families of databases of up to 4 rows | `ArchivesTrusted`, `ReadersAttribute`, `ComparisonFair`, `NoCaseHidden` for the report tools; `AnswersComplete`, `ShownCanBeFollowed`, `QuestionsAgree`, `SummariesExact` for the SQLite commands |
| `workbench` | 2 databases, tables of 2 pages, 4 user actions, 2 requests under way, 1 restart, 1 replacement, fair | answers are of the pinned bytes (`ServedIsPinned`); screen, buttons and download agree and show nothing asked for before the last worksheet was opened (`ScreenTruthful`); typing is never overwritten; the view follows the last click; the page is a history of views; the status line does not say for ever that it is reading, and a worksheet load ends in a message unless it was superseded (`Settles`) |

A property that covers one idea in several places is a conjunction of named parts:
each part has its own comment in the module and a mutant that breaks it.

Bounds. Two publishers and two executors are the smallest instance in which a
publication overlaps another one and a consumption; the theorems below cover any
number, as those of `Proofs` do for the other components. They are interchangeable
(`SYMMETRY`): nothing in the module orders them, and all that is checked there is
safety. For a retention, two promoters suffice because a third one meets the same three
files as the second, and two faults with two crashes reach a crash during the recovery
from a failed call. Two foreign files suffice for a promotion because it handles two
names. For the supervisor one descendant is enough to be in the group, detached, over
the process limit and the last holder of the pipe; with a pipe and an output limit of
one byte, output ends at the limit or one byte beyond it (a chunk that the limit cuts
in its middle needs a larger pipe: the theorem `OutputIsTruthful` is for every
capacity); a second failing call meets flags that only accumulate. Two bytes of output
and chunks of one let a poll stop in the middle of a stream, and a model budget of one
makes the inline answer and the artifact both happen. Pollers only read, so one is
enough; one sweeper repeats for ever. For the review tools, two edits are what it takes
to make an archive that contradicts itself in one place consistent again in another;
two records and two observations meet a state left over from the record before, at and
past each limit; two cases have one identity twice. The databases are all contents of
small tables rather than one table: two parents and two children with every combination
of affinities and storage classes, one to four rows of a category and a measure (four
is one more than the row bound), eight shapes of table (hidden rowids, keys without
rowid, generated columns, extreme integers, views), and every pair of keyed tables of
at most two rows; `Int64` is scaled to 8. In the workbench two requests under way are
enough for answers to overtake, four actions for a request, a second one, Back or a
worksheet, and something typed meanwhile; a page is bound to one session, so a second
restart looks to it like the first.

Deadlock is checked in `command_output`, where polls and sweeps never stop all at
once. It is not checked elsewhere: those processes serve one request each and stop, a
review ends when the reviewer has seen enough, and the workbench's user may stop.

Fairness. A process that is alive takes its next step: the operating system's
scheduling, and every call modelled returns. `Retention` and `CommandOutput` also
assume that time passes and that executors keep being invoked, each beginning with a
sweep; `CommandOutput` that clients keep polling and that a launched command ends,
which is what `Returns` shows. `Supervisor` assumes that the executor runs, that the
kernel ends a killed process and that time passes; nothing is assumed of the target.
`Workbench` assumes that every fetch ends, with an answer or an error, that a chosen
file is read or cannot be, and that the browser runs the continuation of a settled
promise; nothing of the user, restarts or replacements (a user who never stops asking
is bounded by `MaxActions`). Nothing is ever assumed of crashes, edits, faults or
signals.

## Findings

Five runs fail on purpose; each states what the repository says of itself.

* `retention_sweep`: claims are tested before the tree is discarded and the record
  removed. A promotion in between loses its tree, restores the record, and every
  later sweep keeps a record whose tree is gone. A crash between the two removals
  has the same effect.
* `promote_rollback`: the undo checks that the installed file is its own, then
  exchanges; a file saved in between is unlinked without verification. A mismatch
  takes an edit of its own, so this is a second edit; but the undo also starts when
  the displaced file cannot be inspected, and then the one edit in the gap is lost.
  `OneDisturbanceIsSafe` excludes exactly that pair, an edit and a `misread`.
* `supervisor_flood`: the inner read loop leaves only when the pipe is empty, so
  a detached writer that keeps it filled defeats the deadline and the drain window.
* `supervisor_escape`: cleanup is unverified only if the output pipe stays open, so
  a detached process that closed its output is not noticed without a namespace.
* `supervisor_limits`: macOS lets the worker go on without an address-space limit it
  could not install, and the worker reports only failures that end it; the result then
  attests the limit, and the receipt does not list it as unverified, as the comment in
  the worker and the repository's README say it would. On Linux the limit holds.

Behaviour met while modelling that no run states, since the repository promises nothing
definite about it: two overlapping publications of one identity may both be answered
`published: true` (single use still holds); a signal between the installation of the
handlers and the reset of `received_signal` is forgotten; a sweep between the running
manifest and the creation of the blob leaves a blob no sweep lists; a promotion
answered as failed before mutation may have been visible for a moment; a failed write
or a crash after `.claim` was created leaves a record that is neither promoted nor
swept; a crash between the two renames of an artifact leaves a blob without a manifest;
a source that changes while it is copied leaves a temporary file; the last kill of a
group uses a pid that was already reaped. A grant may expire between its last check and
the start of its command, because scratch is allocated and tools are bound in between.
A publication whose rename took effect and reported a failure is answered `published:
false`, and its grant can run. A poll whose own read fails is told `unavailable` or
`integrity-refused`, both final, although its stream is whole. In the workbench a
worksheet load that a click, Back or the chooser superseded returns without a word and
leaves `Reading worksheet locally…` on the page until another worksheet is chosen,
cancelled or saved: `Settles` promises the end of a load only as long as nothing
supersedes it. And the end of the bootstrap overwrites the status of a query that was
run before it.

## Proofs

Every theorem below holds for every value of the constants that satisfies the
module's named ASSUME; TLC evaluates each ASSUME in the run of the module. None of the
invariants is inductive as it stands. For each component the proof module defines a
strengthening, conjunct by conjunct with a comment on each; it was first checked by TLC
on the bounds of the run, and is then proved with one step per action.

| Module | Theorems (property) | Why it holds: the inductive invariant |
|---|---|---|
| `GrantStoreProofs` | `TypeCorrect` (`TypeOK`), `Safety` (`SingleUse`), `Approved` (`RunsWhatWasApproved`), `Publication` (`PublicationTruthful`), `SpentStaysSpent`, `Refinement` (`ImplementsLedger`) | An executor past its claim is the recorded spender (`ExecutorInv`), every file has an origin (`StoreInv`), and a publisher's program counter says what it has done (`PublisherInv`). |
| `RetentionProofs` | `TypeCorrect` (`TypeOK`), `ClaimIsLock` (`OneHolder`), `RetentionAppliedOnce` (`AppliedOnce`), `LockedStaysInspectable` (`LockedIsInspectable`), `ResponsesAreTruthful` (`OutcomeIsTruthful`) | A power loss brings back any directory content since the last sync, so the invariant speaks of all of `survivors` and not of `dir`: at each point of `promote_retention`, which contents the sync calls made so far leave possible. |
| `SecurePromoteProofs` | `TypeCorrect` (`TypeOK`), `SafeAgainstOneDisturbance` (`OneDisturbanceIsSafe`), `AppliedIsReviewed` (`AppliedOnlyOverReviewed`) | For every point of the call, whose file is under which of the two names; after the install the one edit came before the exchange or after it, or there was none and the undo exchanges two known files. |
| `SupervisorProofs` | `TypeCorrect` (`TypeOK`), `NothingIsLeft` (`NothingLeft`), `OutputIsTruthful` (`OutputTruthful`), `LimitsAreHeld` (`LimitsHeld`), `SignalIsForwarded` (`ReceivedIsForwarded`) | The result is decided by flags set at different points of the loop; the invariant says what a flag, once set, still means of processes, pipe and file while the target goes on. |
| `CommandOutputProofs` | `TypeCorrect` (`TypeOK`), `PollsAreTruthful` (`PollsTruthful`), `ReceiptsAreComplete` (`ReceiptComplete`) | Nothing of an unexpired stream is removed, so its blob is what was written; nothing is written after the run ended, so a size measured then stays right, also in the record a poller has read and not yet used. |
| `WorkbenchProofs` | `TypeCorrect` (`TypeOK`), `AnswersArePinned` (`ServedIsPinned`), `ScreenIsTruthful` (`ScreenTruthful`), `EditorIsKept` (`NothingOverwritten`), `AnswersFollowClicks` (`AnswerFollowsLastClick`), `PageIsHistory` (`ImplementsHistory`) | The page's token is the first server's, so all it accepts was pinned by that one; a message with the newest ticket is the last click, made after the draft was opened; the screen is a function of the view that is kept. |
| `ReviewToolsProofs` | `ToolsStayBounded` (`TypeOK`), `WhatIsReadIsAttributed` (`ReadersAttribute`), `ComparisonsAreFair` (`ComparisonFair`), `NothingIsHidden` (`NoCaseHidden`), `ArchivesCanBeTrusted` (`ArchivesTrusted`) about the report tools; `SessionInvariant`, `NothingIsCutShort` (`AnswersComplete`), `WhatIsShownIsAccepted` (`ShownCanBeFollowed`), `CommandsAgree` (`QuestionsAgree`), `SummariesAreExact` (`SummariesExact`) about a session of SQLite commands, with the lemmas of `SqliteProofs` | See below. |

The two report readers are proved for reports of any length. There is no induction
over a report: the reader's state after each line or tag is a state of the
specification, and `ReportInv` says what it is. For LCOV, `Attributed` relates the
observations to the test names given to the records in the document, and `Counted` the
counter to the places that hold an observation; the lemma `JoinedPlaces` shows that
`end_of_record` gives every line a new place. For JUnit, `JunitInv` relates the state
that the three callbacks share to the elements open in the document: suites lie
directly under the root (`SuitesHeld`), one case is open at most (`CurrentHeld`), and
an outcome element is innermost and its diagnostic the last (`Nested`,
`DiagnosticHeld`). Closed cases have different `test_index`es and are never skipped and
failing at once (`CasesDecided`), which the comparison needs: `ListedOnce` puts every
case in exactly one place of the rows, and `FailsIs` makes equal outcomes mean
failures on both sides or on neither. The comparisons are mirrored
(`StatusMirrors`, `CaseStatusMirrors`) by cases on the status. The order in
which `grouped` lists the cases of an identity is `Ascending`, the increasing
enumeration of their positions, and `AscendingLists` shows that it exists and lists
each position once.

`bundle` is proved for archives of any size after any number of edits (`ArchivesInv` is
only their type). Its loop over the inventory and the sum in the reference `Consistent`
are recursive functions; their existence and their values follow from the least round
at which a claim about them would fail (`RoundsExist`, `RoundsPass`, `SumsExist`,
`SumsAre`). `RoundsPass` says that after n entries the loop has either refused one for
good or expects exactly the n members named so far. With one name per member
(`NamesDiffer`) that makes members and entries correspond one to one, which is
`Consistent` (`AcceptedConsistent`, `ConsistentAccepted`); two archives with one
manifest then hold the same bytes (`ManifestDetermines`). `MaxReport <= MaxArtifact` is
assumed, as the source's limits of 1 MiB and 16 MiB are.

The SQLite commands are proved for databases, requests and bounds of any size. Every
answer is a pure function of an archive and a request, so `SessionInv` says where the
answer on the screen comes from, and each property is then a fact about that function:

* `DatabasesOk` and `ViewOk`: the answer is what `main` computes from the archive as the
  reviewer read it or as it is now. An answer that carries no fingerprint may be of
  either, which is why the invariant cannot say more.
* `WalkOk`: the rows shown by the pages of a walk, as long as it carries the fingerprint,
  are a contiguous part of the one ordered result, up to the next offset. Without it
  `NextPage` after `Replace` says nothing about what was shown before, and
  `PagesAreOnePass` is not inductive.
* `ShownOk`: a reference that is followed started from a row of that archive, with the
  locator of that row; `DrillbackFinds` needs it because the row is no longer on the
  screen.

Under it lies the order of rows. `RowBefore` on the terms a selection is sorted by is a
strict total order because the locator is appended to them and `KeysDiffer` makes two
rows differ in it (`SelectionOrders`); hence `InOrder` lists every row once
(`InOrderLists`) and is the only list that does (`InOrderUnique`), pages are its parts
(`SelectedPageIs`), and rows picked from it by their position are the ordered result of
those rows (`PickedInOrder`). `KeysPresent` makes a locator usable as a filter
(`LocatorFinds`): a NULL would match nothing. A cell that can be shown is accepted back as
a parameter with the same value (`CellIs`), so groups, values and locators mean the same
rows in the next command. A band of a histogram is a pair of filters because bisection
over ascending boundaries is the interval between two of them (`BandIs`, `InBandIs`). A
comparison patches because both indexes are injective in the key (`IndexedDiffer`,
`KeysBalance`).

`SummariesExact` needs sums. `SumFunctionOnSet` folds a set in an arbitrary order, so
`SumIs` says that any function that adds up over the subsets has the fold's value, by
the least cardinality at which they would differ; a sum of counts is then the number of
rows counted (`CountsSum`), which gives the total of a summary's groups and the totals
of a crosstab. A measure is a recursive function on the positions of the scan, followed
as the rounds of `bundle` are: after each row it has the counts, the sum and the first
extremes of the rows of its group met so far (`Met`, `MeasureOverIs`). A crosstab is
compared with summaries by one and by both of its columns, which are accepted because
`MaxGrouping >= 2` (the source's limit is 8) and because fewer columns of a readable
selection are a readable selection (`FewerAccepted`).

What SQLite guarantees is an assumption, `SessionAssumption`: in every database that is
given or that takes another's place, objects have different names when folded, values have
a storage class, rowids and the keys of tables without rowids differ, and no such key is
NULL (`IsDatabase`): SQLite keeps these facts of every file it writes.
It also says what a command is (`IsCommand`): the arguments of its subcommand, lists where
the JSON has lists, and the fingerprint of the archive that the reviewer read, since a
request is written from an earlier answer. TLC evaluates it on the databases of
`MCReviewTools`.

The other assumptions are on the constants only, too: bounds are natural numbers
(positive where the source's limit is), named values are not members of the sets they
stand beside (`GrantAssumption`, `RetentionAssumption`, `PromoteAssumption`,
`SupervisorAssumption`, `OutputAssumption`, `WorkbenchAssumption`,
`CoverageAssumption`, `JunitAssumption`, `ReportAssumption`). What is outside the
source is assumed as the models say: renames and exclusive creation are atomic, expat's
elements nest, hashes are equality.

Model-checked only:

* The liveness properties `SweepProgress`, `Returns`, `PollerEnds`, `ManifestSwept` and
  `Settles`: fairness is out of the prover's reach.
* The five runs that expect a violation, by their nature.

## Not modelled

* The AEN back end, its provisioner service, the guest and the lifecycle contract.
  They are the largest part left: a controller of a remote VM over a provider whose
  answers may be lost. Known hazards there: the answer to the creation of a VM is lost
  (`aen_backend/backend.mbt:636`), the answer to a fork is lost, so that children
  exist without a known identity (961), a lease is provisioned but its description
  fails validation and nothing releases it (`config.mbt:95`), and lifecycle operations
  in any order with failing calls (`sandbox/lifecycle.mbt:251`).
* The MoonBit readers of retained files (`executor/retention_*.mbt`), front ends, tests
  and scripts: they keep no state.
* In the executor: signatures and digests are equality of what they cover; path
  confinement, quoting and JSON are left out; the policy checks of a profile are one set.
* In the review tools: the layout of CSV and JSON, byte bounds of values and answers,
  decimal approximations of exact sums, STRICT tables and the SQL that a selection is
  compiled to (its meaning is modelled, its text is not).
* In the workbench: reloading the page, the Host and Origin tests and static assets,
  the forms that compose a filter or a summary, saving worksheets and downloads.

## Plan

Modelled: the executor's stores, promotion, supervisor and output, and all of the
review tools. Proved: every safety property that a passing run checks. Next:
`AenBackend`, with its lease and its transport, as described above, and the tail of
`execute_invocation`, whose `cleanup_verified` joins the back end's verdict with the
host's: deletion reported as verified means that no VM and no lease is left, and every
VM that is left is named in the receipt.
