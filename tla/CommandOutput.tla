---------------------------- MODULE CommandOutput ----------------------------
(***************************************************************************)
(* The output of one local execution.  The executor publishes a running    *)
(* manifest, the supervisor appends to the stream's blob, the executor     *)
(* replaces the manifest by a terminal one (executor/live_output.mbt) and, *)
(* when the receipt cannot carry the whole output, retains an artifact     *)
(* (executor/output_artifact.mbt, retained_command_output.mbt).  Pollers   *)
(* read the stream meanwhile, and every other executor invocation first    *)
(* sweeps what has expired.  Each file-system call is a step.              *)
(***************************************************************************)
EXTENDS Integers

CONSTANTS Readers,       \* clients polling cmd/read-live-output
          Sweepers,      \* other executor invocations
          MaxOutput,     \* max_output_bytes
          ChunkBytes,    \* max_bytes of a poll
          ModelBudget,   \* max_model_output_bytes
          MaxFaults,     \* bound on failing calls
          MaxCrashes     \* bound on crashes of the executor

ASSUME OutputAssumption ==
  /\ MaxOutput \in Nat /\ ChunkBytes \in Nat \ {0}
  /\ ModelBudget \in 0..MaxOutput
  /\ MaxFaults \in Nat /\ MaxCrashes \in Nat

VARIABLES
  manifest,    \* <stream>.json: its status and signed size
  blob,        \* <stream>.blob: absent, the supervisor's spool, or an empty file
  spool,       \* bytes the supervisor wrote, to a linked file or not
  artBlob, artManifest, artStaging,  \* the artifact's files exist
  liveExpired, artExpired,           \* the clock has passed expires_at_ms
  epc,         \* the executor
  started,     \* begin_live_output succeeded
  run,         \* what the back end reported: none, ended (Exited or Killed), failed
  view,        \* receipt.output equals the bytes of the spool
  truncated,   \* receipt.output_truncated
  final,       \* the reference finalize_live_output returned
  reply,       \* the answer of the executor
  rpc, rrecord, available, offset, answer,   \* pollers
  misread,     \* history: the poller was answered a call that failed
  spc,                                       \* sweepers
  faults, crashes

liveVars == <<manifest, blob>>
artVars == <<artBlob, artManifest, artStaging>>
clockVars == <<liveExpired, artExpired>>
execVars == <<epc, started, run, view, truncated, final, reply>>
readerVars == <<rpc, rrecord, available, offset, answer, misread>>
vars == <<liveVars, spool, artVars, clockVars, execVars, readerVars, spc, faults,
          crashes>>

NoRecord == [status |-> "none", size |-> 0]
Running == [status |-> "running", size |-> 0]
Records == [status : {"none", "running", "ended", "failed"}, size : 0..MaxOutput]
BlobSize == IF blob = "spool" THEN spool ELSE 0

ExecutorPCs == {"begin", "bind", "launch", "run", "capture", "finalize", "measure",
                "replace", "sync", "verify", "stage", "publish_blob",
                "publish_manifest", "cleanup", "cleanup_blob", "replied", "crashed"}
Answers == {"none", "terminal", "unavailable", "integrity-refused",
            "cursor-refused"}

TypeOK ==
  /\ manifest \in Records /\ final \in Records
  /\ blob \in {"none", "spool", "empty"} /\ spool \in 0..MaxOutput
  /\ artBlob \in BOOLEAN /\ artManifest \in BOOLEAN /\ artStaging \in BOOLEAN
  /\ liveExpired \in BOOLEAN /\ artExpired \in BOOLEAN
  /\ epc \in ExecutorPCs
  /\ started \in BOOLEAN /\ view \in BOOLEAN /\ truncated \in BOOLEAN
  /\ run \in {"none", "ended", "failed"}
  /\ reply \in {"none", "rejected", "failed", "inline", "artifact"}
  /\ rpc \in [Readers -> {"idle", "find", "stat", "check", "read", "done"}]
  /\ rrecord \in [Readers -> Records]
  /\ available \in [Readers -> 0..MaxOutput] /\ offset \in [Readers -> 0..MaxOutput]
  /\ answer \in [Readers -> Answers] /\ misread \in [Readers -> BOOLEAN]
  /\ spc \in [Sweepers -> {"idle", "art_blob", "art_manifest", "live", "live_blob",
                           "live_manifest"}]
  /\ faults \in 0..MaxFaults /\ crashes \in 0..MaxCrashes

Init ==
  /\ manifest = NoRecord /\ final = NoRecord /\ blob = "none" /\ spool = 0
  /\ artBlob = FALSE /\ artManifest = FALSE /\ artStaging = FALSE
  /\ liveExpired = FALSE /\ artExpired = FALSE
  /\ epc = "begin" /\ started = FALSE /\ run = "none"
  /\ view = TRUE /\ truncated = FALSE /\ reply = "none"
  /\ rpc = [r \in Readers |-> "idle"] /\ rrecord = [r \in Readers |-> NoRecord]
  /\ available = [r \in Readers |-> 0] /\ offset = [r \in Readers |-> 0]
  /\ answer = [r \in Readers |-> "none"] /\ misread = [r \in Readers |-> FALSE]
  /\ spc = [s \in Sweepers |-> "idle"]
  /\ faults = 0 /\ crashes = 0

Fault == faults < MaxFaults /\ faults' = faults + 1
NoFault == UNCHANGED faults

-----------------------------------------------------------------------------
(***************************************************************************)
(* The executor: execute_invocation from begin_live_output on.             *)
(***************************************************************************)
execFrame == UNCHANGED <<clockVars, readerVars, spc, crashes>>
Goto(pc) == epc' = pc
Reply(what) == epc' = "replied" /\ reply' = what

\* write_live_output_record(replace=false); a failing directory sync leaves the
\* manifest behind although the caller goes on without a stream.
begin_live_output ==
  /\ epc = "begin" /\ Goto("bind")
  /\ \/ manifest' = Running /\ started' = TRUE /\ NoFault
     \/ manifest' \in {manifest, Running} /\ UNCHANGED started /\ Fault
  /\ UNCHANGED <<blob, spool, artVars, run, view, truncated, final, reply>>
  /\ execFrame

\* local_bindings; a refusal returns at once and leaves the stream running.
BindTools ==
  /\ epc = "bind"
  /\ \/ Goto("launch") /\ NoFault /\ UNCHANGED reply
     \/ Reply("rejected") /\ Fault
  /\ UNCHANGED <<liveVars, spool, artVars, started, run, view, truncated, final>>
  /\ execFrame

\* run_local_sandbox refuses, or the supervisor creates its output file: the
\* stream's blob, or a private capture when there is no stream.
LaunchCommand ==
  /\ epc = "launch"
  /\ \/ Goto("run") /\ blob' = (IF started THEN "spool" ELSE blob)
        /\ NoFault /\ UNCHANGED run
     \/ Goto("finalize") /\ run' = "failed" /\ UNCHANGED blob /\ Fault
  /\ UNCHANGED <<manifest, spool, artVars, started, view, truncated, final, reply>>
  /\ execFrame

AppendOutput_Unbounded ==
  /\ epc = "run" /\ spool <= MaxOutput /\ spool' = spool + 1
  /\ UNCHANGED <<liveVars, artVars, execVars, faults>> /\ execFrame

AppendOutput ==
  /\ epc = "run" /\ spool < MaxOutput /\ spool' = spool + 1
  /\ UNCHANGED <<liveVars, artVars, execVars, faults>> /\ execFrame

\* The supervisor returns; an output-limit kill truncates at max_output_bytes.
CommandEnds ==
  /\ epc = "run" /\ Goto("capture")
  /\ run' \in {"ended", "failed"}
  /\ truncated' \in (IF run' = "ended" /\ spool = MaxOutput THEN BOOLEAN ELSE {FALSE})
  /\ UNCHANGED <<liveVars, spool, artVars, started, view, final, reply, faults>>
  /\ execFrame

\* receipt.output is the capture decoded with replacement characters; it is
\* empty when the capture cannot be read, as when the stream was swept.
CaptureOutput ==
  /\ epc = "capture" /\ Goto("finalize")
  /\ \/ spool = 0 /\ view' = TRUE /\ NoFault
     \/ /\ spool > 0 /\ NoFault
        /\ view' \in (IF started => blob = "spool" THEN BOOLEAN ELSE {FALSE})
     \/ spool > 0 /\ view' = FALSE /\ Fault
  /\ UNCHANGED <<liveVars, spool, artVars, started, run, truncated, final, reply>>
  /\ execFrame

\* finalize_live_output: a missing blob is an error after a terminal run, and
\* an empty stream after a failed one.
FinalizeBlob ==
  /\ epc = "finalize"
  /\ \/ ~started /\ Goto("verify") /\ NoFault /\ UNCHANGED blob
     \/ started /\ blob # "none" /\ Goto("measure") /\ NoFault /\ UNCHANGED blob
     \/ /\ started /\ blob = "none" /\ NoFault
        /\ \/ run = "ended" /\ Goto("verify") /\ UNCHANGED blob
           \/ run = "failed" /\ Goto("measure") /\ blob' = "empty"
     \/ started /\ Goto("verify") /\ UNCHANGED blob /\ Fault
  /\ UNCHANGED <<manifest, spool, artVars, started, run, view, truncated, final,
                 reply>> /\ execFrame

\* Size and digest of the blob; it may have been swept since.
MeasureBlob ==
  /\ epc = "measure"
  /\ \/ /\ blob # "none" /\ Goto("replace") /\ NoFault
        /\ final' = [status |-> run, size |-> BlobSize]
     \/ blob = "none" /\ Goto("verify") /\ NoFault /\ UNCHANGED final
     \/ Goto("verify") /\ Fault /\ UNCHANGED final
  /\ UNCHANGED <<liveVars, spool, artVars, started, run, view, truncated, reply>>
  /\ execFrame

\* write_live_output_record(replace=true): rename, then sync the directory.  An
\* error of either makes the stream unusable for the executor (final is None).
ReplaceManifest ==
  /\ epc = "replace"
  /\ \/ Goto("sync") /\ manifest' = final /\ NoFault /\ UNCHANGED final
     \/ Goto("verify") /\ manifest' \in {manifest, final} /\ final' = NoRecord /\ Fault
  /\ UNCHANGED <<blob, spool, artVars, started, run, view, truncated, reply>>
  /\ execFrame

SyncManifest ==
  /\ epc = "sync" /\ Goto("verify")
  /\ \/ NoFault /\ UNCHANGED final
     \/ final' = NoRecord /\ Fault
  /\ UNCHANGED <<liveVars, spool, artVars, started, run, view, truncated, reply>>
  /\ execFrame

output_artifact_required == truncated \/ spool > ModelBudget

\* A terminal stream is re-read and verified before it counts as the output.
SpoolVerified == /\ manifest = final /\ final.status = "ended" /\ ~liveExpired
                 /\ blob # "none" /\ BlobSize = final.size

VerifyOutput_Trusting ==
  /\ epc = "verify"
  /\ \/ run = "failed" /\ Reply("failed")
     \/ run = "ended" /\ ~output_artifact_required /\ Reply("inline")
     \/ run = "ended" /\ output_artifact_required /\ Goto("stage") /\ UNCHANGED reply
  /\ UNCHANGED <<liveVars, spool, artVars, started, run, view, truncated, final,
                 faults>> /\ execFrame

\* retain_receipt_command_output: a failed run is answered as it is, a terminal
\* one only with its whole output, inline or as an artifact.
VerifyOutput ==
  /\ epc = "verify"
  /\ \/ run = "failed" /\ Reply("failed") /\ NoFault
     \/ run = "ended" /\ ~SpoolVerified /\ Reply("failed") /\ NoFault
     \/ /\ run = "ended" /\ SpoolVerified /\ NoFault
        /\ IF ~output_artifact_required /\ view THEN Reply("inline")
           ELSE Goto("stage") /\ UNCHANGED reply
     \/ run = "ended" /\ Reply("failed") /\ Fault
  /\ UNCHANGED <<liveVars, spool, artVars, started, run, view, truncated, final>>
  /\ execFrame

-----------------------------------------------------------------------------
(***************************************************************************)
(* retain_command_output_bytes: stage both files, rename the blob, rename  *)
(* the manifest; on any error remove the staging files and the blob.       *)
(***************************************************************************)
artFrame == /\ UNCHANGED <<liveVars, spool, started, run, view, truncated, final>>
            /\ execFrame

StageArtifact ==
  /\ epc = "stage"
  /\ \/ Goto("publish_blob") /\ artStaging' = TRUE /\ NoFault
     \/ Goto("cleanup") /\ artStaging' \in BOOLEAN /\ Fault
  /\ UNCHANGED <<artBlob, artManifest, reply>> /\ artFrame

PublishBlob ==
  /\ epc = "publish_blob"
  /\ \/ Goto("publish_manifest") /\ artBlob' = TRUE /\ NoFault
     \/ Goto("cleanup") /\ artBlob' \in BOOLEAN /\ Fault
  /\ UNCHANGED <<artManifest, artStaging, reply>> /\ artFrame

PublishManifest ==
  /\ epc = "publish_manifest"
  /\ \/ artManifest' = TRUE /\ artStaging' = FALSE /\ Reply("artifact") /\ NoFault
     \/ /\ artManifest' \in BOOLEAN /\ UNCHANGED <<artStaging, reply>>
        /\ Goto("cleanup") /\ Fault
  /\ UNCHANGED artBlob /\ artFrame

\* Each file is removed by a call of its own, whose failure is ignored.
CleanupStaging ==
  /\ epc = "cleanup" /\ Goto("cleanup_blob")
  /\ \/ artStaging' = FALSE /\ NoFault
     \/ UNCHANGED artStaging /\ Fault
  /\ UNCHANGED <<artBlob, artManifest, reply>> /\ artFrame

CleanupArtifact_Ignored ==
  /\ epc = "cleanup_blob" /\ Reply("artifact") /\ artBlob' = FALSE
  /\ UNCHANGED <<artManifest, artStaging, faults>> /\ artFrame

CleanupArtifact ==
  /\ epc = "cleanup_blob" /\ Reply("failed")
  /\ \/ artBlob' = FALSE /\ NoFault
     \/ UNCHANGED artBlob /\ Fault
  /\ UNCHANGED <<artManifest, artStaging>> /\ artFrame

CrashExecutor ==
  /\ epc \notin {"replied", "crashed"} /\ Goto("crashed")
  /\ crashes < MaxCrashes /\ crashes' = crashes + 1
  /\ UNCHANGED <<liveVars, spool, artVars, clockVars, started, run, view, truncated,
                 final, reply, readerVars, spc, faults>>

Executor ==
  \/ begin_live_output \/ BindTools \/ LaunchCommand \/ CommandEnds \/ CaptureOutput
  \/ FinalizeBlob \/ MeasureBlob \/ ReplaceManifest \/ SyncManifest \/ VerifyOutput
  \/ StageArtifact \/ PublishBlob \/ PublishManifest \/ CleanupStaging
  \/ CleanupArtifact

-----------------------------------------------------------------------------
(***************************************************************************)
(* read_live_output: manifest, size of the blob, checks, one chunk.  A     *)
(* client polls with the returned cursor until it is told `terminal`; an   *)
(* error response is `terminal` too.  A call that fails ends in such a     *)
(* response where the code catches it, and otherwise in no answer at all:  *)
(* the client then asks again with the cursor it has.                      *)
(***************************************************************************)
readFrame == UNCHANGED <<liveVars, spool, artVars, clockVars, execVars, spc, crashes>>
At(r, from, to) == rpc[r] = from /\ rpc' = [rpc EXCEPT ![r] = to]
Answer(r, a) == /\ rpc' = [rpc EXCEPT ![r] = "done"]
                /\ answer' = [answer EXCEPT ![r] = a] /\ UNCHANGED offset
GoOn(r, to) == /\ rpc' = [rpc EXCEPT ![r] = to]
               /\ UNCHANGED <<offset, answer, misread>> /\ NoFault
Refuse(r, a) == Answer(r, a) /\ UNCHANGED misread /\ NoFault
RefuseOnError(r, a) == /\ Answer(r, a) /\ Fault
                       /\ misread' = [misread EXCEPT ![r] = TRUE]
FailOnError(r) == /\ rpc' = [rpc EXCEPT ![r] = "idle"] /\ Fault
                  /\ UNCHANGED <<offset, answer, misread>>

ReadManifest_Retry(r) ==
  /\ rpc[r] = "idle" /\ manifest # NoRecord
  /\ \/ liveExpired /\ Refuse(r, "integrity-refused") /\ UNCHANGED rrecord
     \/ /\ ~liveExpired /\ GoOn(r, "find")
        /\ rrecord' = [rrecord EXCEPT ![r] = manifest]
  /\ UNCHANGED available /\ readFrame

ReadManifest(r) ==
  /\ rpc[r] = "idle"
  /\ \/ manifest = NoRecord /\ Refuse(r, "unavailable") /\ UNCHANGED rrecord
     \/ RefuseOnError(r, "unavailable") /\ UNCHANGED rrecord
     \/ /\ manifest # NoRecord /\ liveExpired
        /\ Refuse(r, "integrity-refused") /\ UNCHANGED rrecord
     \/ /\ manifest # NoRecord /\ ~liveExpired /\ GoOn(r, "find")
        /\ rrecord' = [rrecord EXCEPT ![r] = manifest]
  /\ UNCHANGED available /\ readFrame

\* A stream whose blob does not exist (yet) is empty.
FindBlob(r) ==
  /\ rpc[r] = "find"
  /\ \/ blob # "none" /\ GoOn(r, "stat") /\ UNCHANGED available
     \/ /\ blob = "none" /\ available' = [available EXCEPT ![r] = 0]
        /\ IF offset[r] > 0 THEN Refuse(r, "cursor-refused") ELSE GoOn(r, "check")
     \/ FailOnError(r) /\ UNCHANGED available
  /\ UNCHANGED rrecord /\ readFrame

\* The checks of the file and its size.  A file swept since, like an error, is
\* refused by protected_regular_file or fails a call that is not caught.
StatBlob(r) ==
  /\ rpc[r] = "stat"
  /\ \/ /\ blob # "none" /\ available' = [available EXCEPT ![r] = BlobSize]
        /\ IF offset[r] > BlobSize THEN Refuse(r, "cursor-refused")
           ELSE GoOn(r, "check")
     \/ /\ blob = "none" /\ UNCHANGED available
        /\ Refuse(r, "integrity-refused") \/ GoOn(r, "idle")
     \/ /\ RefuseOnError(r, "integrity-refused") \/ FailOnError(r)
        /\ UNCHANGED available
  /\ UNCHANGED rrecord /\ readFrame

\* A terminal stream must have its signed size and digest, and be readable.
CheckTerminal(r) ==
  /\ rpc[r] = "check"
  /\ \/ /\ rrecord[r].status # "running"
        /\ available[r] # rrecord[r].size \/ blob = "none"
        /\ Refuse(r, "integrity-refused")
     \/ rrecord[r].status # "running" /\ RefuseOnError(r, "integrity-refused")
     \/ /\ \/ rrecord[r].status = "running"
           \/ available[r] = rrecord[r].size /\ blob # "none"
        /\ GoOn(r, "read")
  /\ UNCHANGED <<rrecord, available>> /\ readFrame

ReadChunk_EarlyTerminal(r) ==
  /\ rpc[r] = "read"
  /\ LET left == available[r] - offset[r]
         count == IF left < ChunkBytes THEN left ELSE ChunkBytes
     IN  /\ offset' = [offset EXCEPT ![r] = offset[r] + count]
         /\ IF rrecord[r].status # "running"
            THEN rpc' = [rpc EXCEPT ![r] = "done"]
                 /\ answer' = [answer EXCEPT ![r] = "terminal"]
            ELSE rpc' = [rpc EXCEPT ![r] = "idle"] /\ UNCHANGED answer
  /\ UNCHANGED <<rrecord, available, misread, faults>> /\ readFrame

\* A blob swept since, like an error, makes the command fail without an answer.
ReadChunk(r) ==
  /\ rpc[r] = "read"
  /\ LET left == available[r] - offset[r]
         count == IF left < ChunkBytes THEN left ELSE ChunkBytes
         next == offset[r] + count
         terminal == rrecord[r].status # "running" /\ next = available[r]
     IN  \/ count > 0 /\ blob = "none" /\ GoOn(r, "idle")
         \/ count > 0 /\ FailOnError(r)
         \/ /\ count = 0 \/ blob # "none"
            /\ offset' = [offset EXCEPT ![r] = next]
            /\ rpc' = [rpc EXCEPT ![r] = IF terminal THEN "done" ELSE "idle"]
            /\ answer' = IF terminal THEN [answer EXCEPT ![r] = "terminal"] ELSE answer
            /\ UNCHANGED misread /\ NoFault
  /\ UNCHANGED <<rrecord, available>> /\ readFrame

read_live_output(r) == \/ ReadManifest(r) \/ FindBlob(r) \/ StatBlob(r)
                       \/ CheckTerminal(r) \/ ReadChunk(r)

-----------------------------------------------------------------------------
(***************************************************************************)
(* The sweeps of another invocation: output artifacts, then live output;   *)
(* each removes the blob and then the manifest of what has expired.        *)
(***************************************************************************)
sweepFrame == UNCHANGED <<spool, clockVars, execVars, readerVars, crashes>>
SweepTo(s, from, to) == spc[s] = from /\ spc' = [spc EXCEPT ![s] = to]

SelectArtifact(s) ==
  /\ \/ artManifest /\ artExpired /\ SweepTo(s, "idle", "art_blob")
     \/ ~(artManifest /\ artExpired) /\ SweepTo(s, "idle", "live")
  /\ UNCHANGED <<liveVars, artVars, faults>> /\ sweepFrame

\* A file that cannot be removed is left for the next sweep.
SweepArtifactBlob(s) ==
  /\ \/ SweepTo(s, "art_blob", "art_manifest") /\ artBlob' = FALSE /\ NoFault
     \/ SweepTo(s, "art_blob", "live") /\ UNCHANGED artBlob /\ Fault
  /\ UNCHANGED <<liveVars, artManifest, artStaging>> /\ sweepFrame

SweepArtifactManifest(s) ==
  /\ SweepTo(s, "art_manifest", "live")
  /\ \/ artManifest' = FALSE /\ NoFault
     \/ UNCHANGED artManifest /\ Fault
  /\ UNCHANGED <<liveVars, artBlob, artStaging>> /\ sweepFrame

SelectLive_Unexpired(s) ==
  /\ \/ manifest # NoRecord /\ SweepTo(s, "live", "live_blob")
     \/ manifest = NoRecord /\ SweepTo(s, "live", "idle")
  /\ UNCHANGED <<liveVars, artVars, faults>> /\ sweepFrame

SelectLive_BlobOnly(s) ==
  /\ \/ /\ manifest # NoRecord /\ liveExpired /\ blob # "none"
        /\ SweepTo(s, "live", "live_blob")
     \/ /\ ~(manifest # NoRecord /\ liveExpired /\ blob # "none")
        /\ SweepTo(s, "live", "idle")
  /\ UNCHANGED <<liveVars, artVars, faults>> /\ sweepFrame

\* Whether the stream is still running makes no difference.
SelectLive(s) ==
  /\ \/ manifest # NoRecord /\ liveExpired /\ SweepTo(s, "live", "live_blob")
     \/ ~(manifest # NoRecord /\ liveExpired) /\ SweepTo(s, "live", "idle")
  /\ UNCHANGED <<liveVars, artVars, faults>> /\ sweepFrame

SweepLiveBlob(s) ==
  /\ \/ SweepTo(s, "live_blob", "live_manifest") /\ blob' = "none" /\ NoFault
     \/ SweepTo(s, "live_blob", "idle") /\ UNCHANGED blob /\ Fault
  /\ UNCHANGED <<manifest, artVars>> /\ sweepFrame

SweepLiveManifest(s) ==
  /\ SweepTo(s, "live_manifest", "idle")
  /\ \/ manifest' = NoRecord /\ NoFault
     \/ UNCHANGED manifest /\ Fault
  /\ UNCHANGED <<blob, artVars>> /\ sweepFrame

sweep_expired(s) ==
  \/ SelectArtifact(s) \/ SweepArtifactBlob(s) \/ SweepArtifactManifest(s)
  \/ SelectLive(s) \/ SweepLiveBlob(s) \/ SweepLiveManifest(s)

\* The stream's lifetime starts before the artifact's, with the same length.
Tick ==
  /\ \/ ~liveExpired /\ epc # "begin" /\ liveExpired' = TRUE /\ UNCHANGED artExpired
     \/ /\ liveExpired /\ artManifest /\ ~artExpired
        /\ artExpired' = TRUE /\ UNCHANGED liveExpired
  /\ UNCHANGED <<liveVars, spool, artVars, execVars, readerVars, spc, faults, crashes>>

Next == \/ Executor \/ AppendOutput \/ CrashExecutor \/ Tick
        \/ \E r \in Readers : read_live_output(r)
        \/ \E s \in Sweepers : sweep_expired(s)

Spec == Init /\ [][Next]_vars

\* A live executor goes on (the supervisor returns within its deadline), clients
\* poll, executors keep being invoked and time passes.
FairSpec == /\ Spec /\ WF_vars(Executor) /\ WF_vars(Tick)
            /\ \A r \in Readers : WF_vars(read_live_output(r))
            /\ \A s \in Sweepers : WF_vars(sweep_expired(s))

-----------------------------------------------------------------------------
\* A client that is told `terminal` has received every byte the command wrote.
TerminalMeansComplete ==
  \A r \in Readers : answer[r] = "terminal" =>
    run # "none" /\ offset[r] = spool

\* A stream that its executor has begun can be found until it expires: replacing
\* its manifest leaves no moment without one, and no sweep takes it.
FoundUntilExpired == started /\ manifest = NoRecord => liveExpired

\* No poll of a stream that has not expired is refused, and none of a stream the
\* client was shown before is told `unavailable', unless one of the poll's own
\* calls failed: manifest and blob are changed, and read, in orders that never
\* look like tampering or like a stream that is gone.
NoFalseAlarm ==
  \A r \in Readers :
    \/ answer[r] \in {"integrity-refused", "cursor-refused"}
    \/ answer[r] = "unavailable" /\ rrecord[r] # NoRecord
    => liveExpired \/ misread[r]

\* A poll of read_live_output never misleads its client, though manifest, size
\* and bytes are read in separate calls: `terminal' means complete, and a poll of
\* a begun stream is refused only because the stream has expired or because a
\* call of that poll failed.  The code does not tell these two apart: an I/O
\* error ends the client's polling as an expired stream does.
PollsTruthful == TerminalMeansComplete /\ FoundUntilExpired /\ NoFalseAlarm

\* A terminal receipt never drops output: it carries all of it, or a reference
\* whose blob and manifest exist until the reference expires.
NoSilentDrop ==
  /\ reply = "inline" => view /\ ~truncated /\ spool <= ModelBudget
  /\ reply = "artifact" /\ ~artExpired => artBlob /\ artManifest

\* A terminal receipt is issued only over a spool that was there in full.
TerminalHadSpool == reply \in {"inline", "artifact"} => final = [status |-> "ended", size |-> spool]

\* A terminal receipt stands for the whole output of the command, whichever of
\* the calls that verify, stage and publish it failed and whatever was swept.
ReceiptComplete == NoSilentDrop /\ TerminalHadSpool

\* Every poller is eventually told an end, whatever happened to the executor.
PollerEnds == \A r \in Readers : <>(rpc[r] = "done")

\* The manifest of a stream, terminal or abandoned, is eventually swept, also
\* when a sweep and the finalization of the stream overlap.
ManifestSwept == (epc \in {"replied", "crashed"}) ~> [](manifest = NoRecord)
=============================================================================
