----------------------------- MODULE Retention ------------------------------
(***************************************************************************)
(* The life of one retained result: the executor publishes <id>.json over  *)
(* the command's scratch tree (executor/store.mbt, retain_scratch),        *)
(* promote-retention processes claim it and write one reviewed file into   *)
(* the workspace (promote_retention), and executors sweep it once expired  *)
(* (sweep_expired_retentions).  Files of different retentions have         *)
(* different names, so one retention is modelled.  Every file-system call  *)
(* is a step: calls fail, processes crash, and the host loses power.       *)
(***************************************************************************)
EXTENDS Naturals, FiniteSets

CONSTANTS Promoters,    \* promote-retention processes, one request each
          Sweepers,     \* executors, each sweeping again and again
          MaxFaults,    \* bound on failing calls
          MaxCrashes,   \* bound on crashes and power losses
          MaxEdits      \* bound on edits of the destination by others

ASSUME RetentionAssumption ==
  /\ MaxFaults \in Nat /\ MaxCrashes \in Nat /\ MaxEdits \in Nat
  /\ "prior" \notin Promoters /\ "edited" \notin Promoters

VARIABLES
  dir,        \* the three names of the retention in retention_root
  survivors,  \* directory contents that a power loss may leave behind
  scratch,    \* the scratch tree: intact, half discarded, gone
  scratchSurvivors,
  dest,       \* who last wrote the destination file
  destSurvivors,
  expired,    \* whether the clock has passed the record's expires_at_ms
  rpc,        \* the executor that ran the command
  ppc, pseen, reply,        \* promoters; pseen is the reviewed destination
  spc, sexpired,            \* sweepers; sexpired is `now` read at the start
  mutators,   \* history: promoters whose rename changed the destination
  faults, crashes, edits

diskVars == <<dir, survivors, scratch, scratchSurvivors, dest, destSurvivors>>
promVars == <<ppc, pseen, reply>>
sweepVars == <<spc, sexpired>>
bounds == <<faults, crashes, edits>>
vars == <<diskVars, expired, rpc, promVars, sweepVars, mutators, bounds>>

Names == {"json", "promoting", "claim"}
Files == {"none", "torn", "whole"}      \* torn: does not parse
ScratchStates == {"intact", "partial", "none"}
Writers == Promoters \cup {"prior", "edited"}

RunnerPCs == {"prune", "write", "cleanup", "cleanup2", "retained",
              "not-retained", "crashed"}
\* Program counters at which a promoter owns the claim it created.
HoldingPCs == {"verify_claim", "rename_claim", "rollback", "rollback_remove",
               "sync_claim", "apply", "sync_dest", "discard", "discard2",
               "remove_promoting", "remove_claim", "restore", "restore_sync",
               "restore_remove"}
PromoterPCs == HoldingPCs \cup {"idle", "plan", "write_claim", "rollback_sync",
                                "sync_cleanup", "restore_final", "done", "crashed"}
SweeperPCs == {"idle", "check_promoting", "check_claim", "read", "discard",
               "discard2", "remove"}
Replies == {"none", "refused", "completed", "cleanup-unverified",
            "claim-not-restored", "recovery-required"}

TypeOK ==
  /\ dir \in [Names -> Files]
  /\ survivors \in SUBSET [Names -> Files] /\ dir \in survivors
  /\ scratch \in ScratchStates
  /\ scratchSurvivors \in SUBSET ScratchStates /\ scratch \in scratchSurvivors
  /\ dest \in Writers
  /\ destSurvivors \in SUBSET Writers /\ dest \in destSurvivors
  /\ expired \in BOOLEAN
  /\ rpc \in RunnerPCs
  /\ ppc \in [Promoters -> PromoterPCs]
  /\ pseen \in [Promoters -> Writers]
  /\ reply \in [Promoters -> Replies]
  /\ spc \in [Sweepers -> SweeperPCs]
  /\ sexpired \in [Sweepers -> BOOLEAN]
  /\ mutators \in SUBSET Promoters
  /\ faults \in 0..MaxFaults /\ crashes \in 0..MaxCrashes /\ edits \in 0..MaxEdits

\* The command has exited; its scratch tree is on disk, nothing is retained.
Init ==
  /\ dir = [n \in Names |-> "none"] /\ survivors = {dir}
  /\ scratch = "intact" /\ scratchSurvivors = {"intact"}
  /\ dest = "prior" /\ destSurvivors = {"prior"}
  /\ expired = FALSE
  /\ rpc = "prune"
  /\ ppc = [p \in Promoters |-> "idle"]
  /\ pseen = [p \in Promoters |-> "prior"]
  /\ reply = [p \in Promoters |-> "none"]
  /\ spc = [s \in Sweepers |-> "idle"]
  /\ sexpired = [s \in Sweepers |-> FALSE]
  /\ mutators = {}
  /\ faults = 0 /\ crashes = 0 /\ edits = 0

-----------------------------------------------------------------------------
(***************************************************************************)
(* The file system.  A call on retention_root takes effect at once and is  *)
(* durable after the next directory sync; until then a power loss may roll *)
(* the directory back to any state since the last sync (metadata updates   *)
(* of one directory are journaled in order).                               *)
(***************************************************************************)
SetDir(d) == dir' = d /\ survivors' = survivors \cup {d}

Put(n, content) == SetDir([dir EXCEPT ![n] = content])

\* rename(from, to, replace=false)
CanRename(from, to) == dir[from] # "none" /\ dir[to] = "none"
DoRename(from, to) == SetDir([dir EXCEPT ![from] = "none", ![to] = dir[from]])

DirUnchanged == UNCHANGED <<dir, survivors>>

\* sync_private_directory(retention_root)
SyncDir == survivors' = {dir} /\ UNCHANGED dir

\* A call fails because its precondition does, or because of an I/O error.
Fault == faults < MaxFaults /\ faults' = faults + 1
NoFault == UNCHANGED faults
FailsIf(c) == (c /\ NoFault) \/ Fault

\* discard_scratch_tree removes the children, then the directory itself; a
\* tree that is already gone is an error.
SetScratch(t) == scratch' = t /\ scratchSurvivors' = scratchSurvivors \cup {t}
ScratchUnchanged == UNCHANGED <<scratch, scratchSurvivors>>

-----------------------------------------------------------------------------
(***************************************************************************)
(* The executor that ran the command: retain_scratch prunes the snapshot   *)
(* to the reviewed manifest and writes the record; if either fails,        *)
(* execute_invocation discards the scratch tree and answers not retained.  *)
(***************************************************************************)
RunnerFrame == UNCHANGED <<dest, destSurvivors, expired, promVars, sweepVars,
                           mutators, crashes, edits>>

\* The manifest survives pruning; a failure leaves an unpublished tree.
PruneScratch ==
  /\ rpc = "prune"
  /\ \/ rpc' = "write" /\ NoFault
     \/ rpc' = "cleanup" /\ Fault
  /\ DirUnchanged /\ ScratchUnchanged /\ RunnerFrame

\* write_file(path, CreateNew, Full); an error may leave a torn or a whole file.
WriteRecord ==
  /\ rpc = "write"
  /\ \/ Put("json", "whole") /\ rpc' = "retained" /\ NoFault
     \/ /\ \E content \in Files : Put("json", content)
        /\ rpc' = "cleanup" /\ Fault
  /\ ScratchUnchanged /\ RunnerFrame

HostCleanup ==
  /\ \/ /\ rpc = "cleanup"
        /\ \/ scratch # "none" /\ SetScratch("partial") /\ rpc' = "cleanup2" /\ NoFault
           \/ /\ ScratchUnchanged /\ rpc' = "not-retained"
              /\ FailsIf(scratch = "none")
     \/ /\ rpc = "cleanup2"
        /\ \/ scratch # "none" /\ SetScratch("none") /\ NoFault
           \/ ScratchUnchanged /\ FailsIf(scratch = "none")
        /\ rpc' = "not-retained"
  /\ DirUnchanged /\ RunnerFrame

-----------------------------------------------------------------------------
(***************************************************************************)
(* promote_retention                                                       *)
(***************************************************************************)
Step(p, to) == ppc' = [ppc EXCEPT ![p] = to] /\ UNCHANGED reply

Reply(p, code) == /\ ppc' = [ppc EXCEPT ![p] = "done"]
                  /\ reply' = [reply EXCEPT ![p] = code]

\* What a step on retention_root alone leaves alone.
RecordFrame == UNCHANGED <<scratch, scratchSurvivors, dest, destSurvivors, expired,
                           rpc, pseen, sweepVars, mutators, crashes, edits>>

\* load_retention_record, and the digests of the request.
LoadRecord(p) ==
  /\ ppc[p] = "idle"
  /\ \/ dir["json"] = "whole" /\ ~expired /\ scratch # "none" /\ Step(p, "plan")
     \/ Reply(p, "refused")
  /\ DirUnchanged /\ NoFault /\ RecordFrame

\* The scratch inventory must hold the manifest; planning observes the
\* destination, which becomes the reviewed state.
PlanPromotion(p) ==
  /\ ppc[p] = "plan"
  /\ \/ /\ scratch = "intact"
        /\ pseen' = [pseen EXCEPT ![p] = dest]
        /\ Step(p, "write_claim")
     \/ Reply(p, "refused") /\ UNCHANGED pseen
  /\ UNCHANGED <<diskVars, expired, rpc, sweepVars, mutators, bounds>>

\* The claim overwrites an existing one.
WriteClaim_Replacing(p) ==
  /\ ppc[p] = "write_claim"
  /\ Put("claim", "whole") /\ Step(p, "verify_claim") /\ NoFault
  /\ RecordFrame

\* write_file(claim_path, CreateNew, Full): the claim is the promoters' lock.
\* A failed write is not rolled back.
WriteClaim(p) ==
  /\ ppc[p] = "write_claim"
  /\ \/ /\ dir["claim"] = "none"
        /\ \/ Put("claim", "whole") /\ Step(p, "verify_claim") /\ NoFault
           \/ /\ \E content \in Files : Put("claim", content)
              /\ Reply(p, "refused") /\ Fault
     \/ /\ dir["claim"] # "none"
        /\ Reply(p, "refused") /\ DirUnchanged /\ NoFault
  /\ RecordFrame

VerifyClaim(p) ==
  /\ ppc[p] = "verify_claim"
  /\ \/ SyncDir /\ Step(p, "rename_claim") /\ NoFault
     \/ DirUnchanged /\ Step(p, "rollback") /\ Fault
  /\ RecordFrame

\* rename(.json, .promoting, replace=false); an I/O error may hide a rename
\* that took effect.
RenameClaim(p) ==
  /\ ppc[p] = "rename_claim"
  /\ \/ /\ CanRename("json", "promoting")
        /\ DoRename("json", "promoting")
        /\ \/ Step(p, "sync_claim") /\ NoFault
           \/ Step(p, "rollback") /\ Fault
     \/ /\ DirUnchanged /\ Step(p, "rollback")
        /\ FailsIf(~CanRename("json", "promoting"))
  /\ RecordFrame

\* rollback_pre_rename_claim: only a proven pre-rename state is undone.
RollbackCheck(p) ==
  /\ ppc[p] = "rollback"
  /\ IF dir["json"] # "none" /\ dir["promoting"] = "none"
     THEN Step(p, "rollback_remove")
     ELSE Reply(p, "refused")
  /\ DirUnchanged /\ NoFault /\ RecordFrame

RollbackRemove(p) ==
  /\ ppc[p] = "rollback_remove"
  /\ \/ Put("claim", "none") /\ Step(p, "rollback_sync") /\ NoFault
     \/ DirUnchanged /\ Reply(p, "refused") /\ Fault
  /\ RecordFrame

\* The result of the rollback is ignored: the request is refused either way.
RollbackSync(p) ==
  /\ ppc[p] = "rollback_sync"
  /\ \/ SyncDir /\ NoFault
     \/ DirUnchanged /\ Fault
  /\ Reply(p, "refused")
  /\ RecordFrame

\* The rename is believed durable as soon as it returns.
SyncClaim_Omitted(p) ==
  /\ ppc[p] = "sync_claim"
  /\ Step(p, "apply")
  /\ DirUnchanged /\ NoFault /\ RecordFrame

\* Without a durable claim the promotion stops and the claim stays locked.
SyncClaim(p) ==
  /\ ppc[p] = "sync_claim"
  /\ \/ SyncDir /\ Step(p, "apply") /\ NoFault
     \/ DirUnchanged /\ Reply(p, "refused") /\ Fault
  /\ RecordFrame

(***************************************************************************)
(* apply_sandbox_promotion: the source is copied and checked, and one      *)
(* atomic rename or exchange changes a destination that still is what was  *)
(* reviewed.  Before that, failures are NotApplied or RecoveryRequired.    *)
(***************************************************************************)
ApplyFrame == UNCHANGED <<dir, survivors, scratch, scratchSurvivors, expired, rpc,
                          pseen, sweepVars, crashes, edits>>

ApplyPromotion(p) ==
  /\ ppc[p] = "apply"
  /\ \/ /\ scratch = "intact" /\ dest = pseen[p]
        /\ dest' = p /\ destSurvivors' = destSurvivors \cup {p}
        /\ mutators' = mutators \cup {p}
        /\ Step(p, "sync_dest") /\ NoFault
     \/ /\ \/ Step(p, "restore") /\ NoFault
           \/ Reply(p, "recovery-required") /\ Fault
        /\ UNCHANGED <<dest, destSurvivors, mutators>>
  /\ ApplyFrame

\* The success of the rename is reported without syncing its directory.
SyncDestination_Omitted(p) ==
  /\ ppc[p] = "sync_dest"
  /\ Step(p, "discard") /\ NoFault
  /\ UNCHANGED <<dest, destSurvivors, mutators>> /\ ApplyFrame

\* fsync of the destination's directory ends the native promotion.
SyncDestination(p) ==
  /\ ppc[p] = "sync_dest"
  /\ \/ destSurvivors' = {dest} /\ Step(p, "discard") /\ NoFault
     \/ UNCHANGED destSurvivors /\ Reply(p, "recovery-required") /\ Fault
  /\ UNCHANGED <<dest, mutators>> /\ ApplyFrame

\* AppliedDurable: discard the scratch tree, drop both records, sync.
DiscardPromoted(p) ==
  /\ \/ /\ ppc[p] = "discard"
        /\ scratch # "none" /\ SetScratch("partial") /\ Step(p, "discard2") /\ NoFault
     \/ /\ ppc[p] = "discard2"
        /\ scratch # "none" /\ SetScratch("none") /\ Step(p, "remove_promoting") /\ NoFault
     \/ /\ ppc[p] \in {"discard", "discard2"}
        /\ ScratchUnchanged /\ Reply(p, "cleanup-unverified")
        /\ FailsIf(scratch = "none")
  /\ UNCHANGED <<dir, survivors, dest, destSurvivors, expired, rpc, pseen, sweepVars,
                 mutators, crashes, edits>>

\* remove(path) by a step of promoter p.
RemoveName(p, n, next, failure) ==
  /\ \/ dir[n] # "none" /\ Put(n, "none") /\ Step(p, next) /\ NoFault
     \/ DirUnchanged /\ Reply(p, failure) /\ FailsIf(dir[n] = "none")
  /\ RecordFrame

\* The sidecar goes first.
RemovePromoting_ClaimFirst(p) ==
  /\ ppc[p] = "remove_promoting"
  /\ RemoveName(p, "claim", "remove_claim", "cleanup-unverified")

RemovePromoting(p) ==
  /\ ppc[p] = "remove_promoting"
  /\ RemoveName(p, "promoting", "remove_claim", "cleanup-unverified")

RemoveClaim(p) ==
  /\ ppc[p] = "remove_claim"
  /\ RemoveName(p, "claim", "sync_cleanup", "cleanup-unverified")

SyncCleanup(p) ==
  /\ ppc[p] = "sync_cleanup"
  /\ \/ SyncDir /\ Reply(p, "completed") /\ NoFault
     \/ DirUnchanged /\ Reply(p, "cleanup-unverified") /\ Fault
  /\ RecordFrame

\* NotApplied: restore_claimed_retention renames back, syncs, and only then
\* gives up the claim; it keeps the claim behind a rename reported as failed,
\* whether that took effect or not.
RestoreRename(p) ==
  /\ ppc[p] = "restore"
  /\ \/ /\ CanRename("promoting", "json")
        /\ DoRename("promoting", "json")
        /\ \/ Step(p, "restore_sync") /\ NoFault
           \/ Reply(p, "claim-not-restored") /\ Fault
     \/ /\ DirUnchanged /\ Reply(p, "claim-not-restored")
        /\ FailsIf(~CanRename("promoting", "json"))
  /\ RecordFrame

RestoreSync(p) ==
  /\ ppc[p] = "restore_sync"
  /\ \/ SyncDir /\ Step(p, "restore_remove") /\ NoFault
     \/ DirUnchanged /\ Reply(p, "claim-not-restored") /\ Fault
  /\ RecordFrame

RestoreRemove(p) ==
  /\ ppc[p] = "restore_remove"
  /\ RemoveName(p, "claim", "restore_final", "claim-not-restored")

\* A code the protocol does not have.
RestoreFinal_UnknownCode(p) ==
  /\ ppc[p] = "restore_final"
  /\ SyncDir /\ Reply(p, "restored") /\ NoFault
  /\ RecordFrame

RestoreFinal(p) ==
  /\ ppc[p] = "restore_final"
  /\ \/ SyncDir /\ Reply(p, "refused") /\ NoFault
     \/ DirUnchanged /\ Reply(p, "claim-not-restored") /\ Fault
  /\ RecordFrame

-----------------------------------------------------------------------------
(***************************************************************************)
(* sweep_expired_retentions, run at the head of every invocation.  Each    *)
(* check is a call of its own; `now` is read once, before the listing.     *)
(***************************************************************************)
SweepStep(s, to) == spc' = [spc EXCEPT ![s] = to]

SweepFrame == UNCHANGED <<dest, destSurvivors, expired, rpc, promVars, mutators,
                          crashes, edits>>

\* readdir finds the name <id>.json.
BeginSweep(s) ==
  /\ spc[s] = "idle"
  /\ dir["json"] # "none"
  /\ sexpired' = [sexpired EXCEPT ![s] = expired]
  /\ SweepStep(s, "check_promoting")
  /\ DirUnchanged /\ ScratchUnchanged /\ NoFault /\ SweepFrame

\* exists(promoting), then exists(claim): a claimed retention is skipped.
SweepCheckClaim(s) ==
  /\ \/ /\ spc[s] = "check_promoting"
        /\ SweepStep(s, IF dir["promoting"] = "none" THEN "check_claim" ELSE "idle")
     \/ /\ spc[s] = "check_claim"
        /\ SweepStep(s, IF dir["claim"] = "none" THEN "read" ELSE "idle")
  /\ DirUnchanged /\ ScratchUnchanged /\ NoFault /\ SweepFrame /\ UNCHANGED sexpired

\* A record that does not parse or has not expired is skipped.
SweepRead(s) ==
  /\ spc[s] = "read"
  /\ SweepStep(s, IF dir["json"] = "whole" /\ sexpired[s] THEN "discard" ELSE "idle")
  /\ DirUnchanged /\ ScratchUnchanged /\ NoFault /\ SweepFrame /\ UNCHANGED sexpired

\* A tree that cannot be discarded, or is already gone, keeps its record.
SweepDiscard(s) ==
  /\ \/ /\ spc[s] = "discard"
        /\ scratch # "none" /\ SetScratch("partial") /\ SweepStep(s, "discard2") /\ NoFault
     \/ /\ spc[s] = "discard2"
        /\ scratch # "none" /\ SetScratch("none") /\ SweepStep(s, "remove") /\ NoFault
     \/ /\ spc[s] \in {"discard", "discard2"}
        /\ ScratchUnchanged /\ SweepStep(s, "idle")
        /\ FailsIf(scratch = "none")
  /\ DirUnchanged /\ SweepFrame /\ UNCHANGED sexpired

\* remove(path) is not guarded: an error ends this executor's sweep.
SweepRemove(s) ==
  /\ spc[s] = "remove"
  /\ \/ dir["json"] # "none" /\ Put("json", "none") /\ NoFault
     \/ DirUnchanged /\ FailsIf(dir["json"] = "none")
  /\ SweepStep(s, "idle")
  /\ ScratchUnchanged /\ SweepFrame /\ UNCHANGED sexpired

-----------------------------------------------------------------------------
(***************************************************************************)
(* The environment: the clock passes expires_at_ms, other programs edit    *)
(* the destination, processes crash, the host loses power.                 *)
(***************************************************************************)
Expire ==
  /\ ~expired /\ expired' = TRUE
  /\ UNCHANGED <<diskVars, rpc, promVars, sweepVars, mutators, bounds>>

EditDestination ==
  /\ edits < MaxEdits /\ edits' = edits + 1
  /\ dest' = "edited" /\ destSurvivors' = {"edited"}
  /\ UNCHANGED <<dir, survivors, scratch, scratchSurvivors, expired, rpc, promVars,
                 sweepVars, mutators, faults, crashes>>

Crash == crashes < MaxCrashes /\ crashes' = crashes + 1

CrashRunner ==
  /\ rpc \in {"prune", "write", "cleanup", "cleanup2"} /\ rpc' = "crashed" /\ Crash
  /\ UNCHANGED <<diskVars, expired, promVars, sweepVars, mutators, faults, edits>>

CrashPromoter(p) ==
  /\ ppc[p] \notin {"idle", "done", "crashed"} /\ Step(p, "crashed") /\ Crash
  /\ UNCHANGED <<diskVars, expired, rpc, pseen, sweepVars, mutators, faults, edits>>

CrashSweeper(s) ==
  /\ spc[s] # "idle" /\ SweepStep(s, "idle") /\ Crash
  /\ UNCHANGED <<diskVars, expired, rpc, promVars, sexpired, mutators, faults, edits>>

\* Every process dies; each directory comes back in some state it may be in.
PowerLoss ==
  /\ Crash
  /\ dir' \in survivors /\ survivors' = {dir'}
  /\ scratch' \in scratchSurvivors /\ scratchSurvivors' = {scratch'}
  /\ dest' \in destSurvivors /\ destSurvivors' = {dest'}
  /\ rpc' = IF rpc \in {"retained", "not-retained"} THEN rpc ELSE "crashed"
  /\ ppc' = [p \in Promoters |-> IF ppc[p] \in {"idle", "done"} THEN ppc[p] ELSE "crashed"]
  /\ spc' = [s \in Sweepers |-> "idle"]
  /\ UNCHANGED <<expired, pseen, reply, sexpired, mutators, faults, edits>>

RunnerNext == PruneScratch \/ WriteRecord \/ HostCleanup

PromoterNext(p) ==
  \/ LoadRecord(p) \/ PlanPromotion(p)
  \/ WriteClaim(p) \/ VerifyClaim(p) \/ RenameClaim(p) \/ SyncClaim(p)
  \/ RollbackCheck(p) \/ RollbackRemove(p) \/ RollbackSync(p)
  \/ ApplyPromotion(p) \/ SyncDestination(p)
  \/ DiscardPromoted(p) \/ RemovePromoting(p) \/ RemoveClaim(p) \/ SyncCleanup(p)
  \/ RestoreRename(p) \/ RestoreSync(p) \/ RestoreRemove(p) \/ RestoreFinal(p)

SweeperNext(s) ==
  \/ BeginSweep(s) \/ SweepCheckClaim(s) \/ SweepRead(s)
  \/ SweepDiscard(s) \/ SweepRemove(s)

Next ==
  \/ RunnerNext
  \/ \E p \in Promoters : PromoterNext(p) \/ CrashPromoter(p)
  \/ \E s \in Sweepers : SweeperNext(s) \/ CrashSweeper(s)
  \/ Expire \/ EditDestination \/ CrashRunner \/ PowerLoss

Spec == Init /\ [][Next]_vars

(***************************************************************************)
(* Fairness: a process that has not crashed takes its next step, time      *)
(* passes, and invocations keep coming, so sweeps start again and again.   *)
(***************************************************************************)
Fairness ==
  /\ WF_vars(RunnerNext)
  /\ \A p \in Promoters : WF_vars(PromoterNext(p))
  /\ \A s \in Sweepers : WF_vars(SweeperNext(s))
  /\ WF_vars(Expire)

FairSpec == Spec /\ Fairness

-----------------------------------------------------------------------------
\* load_locked_promotion_claim: the evidence an operator's inspection needs.
Inspectable(d) == d["json"] = "none" /\ d["promoting"] = "whole" /\ d["claim"] = "whole"

(***************************************************************************)
(* OneHolder: the claim file is a lock.  At most one live promoter is past *)
(* creating it, and the file is there as long as its owner relies on it.   *)
(***************************************************************************)
OneHolder ==
  /\ \A p, q \in Promoters : ppc[p] \in HoldingPCs /\ ppc[q] \in HoldingPCs => p = q
  /\ \A p \in Promoters : ppc[p] \in HoldingPCs => dir["claim"] = "whole"

(***************************************************************************)
(* AppliedOnce: once a promotion has changed the destination, the record   *)
(* is available to no later promotion, now or after a power loss, so the   *)
(* same retention is never applied twice.                                  *)
(***************************************************************************)
AppliedOnce ==
  /\ mutators # {} => \A d \in survivors : d["json"] = "none"
  /\ Cardinality(mutators) <= 1

(***************************************************************************)
(* LockedIsInspectable: a promotion that changed the destination and did   *)
(* not reach its cleanup leaves, through crashes and power losses, exactly *)
(* the pair of files that inspect_retention_recovery accepts; and no       *)
(* .promoting record ever exists without its .claim.                       *)
(***************************************************************************)
LockedIsInspectable ==
  /\ \A d \in survivors : d["promoting"] # "none" => Inspectable(d)
  /\ \A p \in mutators :
       ppc[p] \in {"sync_dest", "discard", "discard2", "remove_promoting"}
         \/ reply[p] = "recovery-required"
       => \A d \in survivors : Inspectable(d)

(***************************************************************************)
(* OutcomeIsTruthful: destination_outcome in a response is right.  A       *)
(* refusal, or not-applied with a locked claim, means the destination was  *)
(* not changed by this promotion; applied-durable means its bytes stay,    *)
(* unless someone else edits the file; completed means that the records    *)
(* are gone for good.                                                      *)
(***************************************************************************)
OutcomeIsTruthful ==
  \A p \in Promoters :
    /\ reply[p] \in {"refused", "claim-not-restored"} => p \notin mutators
    /\ reply[p] \in {"completed", "cleanup-unverified"} => dest \in {p, "edited"}
    /\ reply[p] = "completed" =>
         \A d \in survivors : d["json"] = "none" /\ d["promoting"] = "none"

(***************************************************************************)
(* SweepProgress: sweeping removes every expired, unclaimed record, unless *)
(* its file does not even parse or a promotion claims it.                  *)
(***************************************************************************)
SweepProgress ==
  (expired /\ dir["json"] = "whole") ~>
    (dir["json"] # "whole" \/ dir["claim"] # "none" \/ dir["promoting"] # "none")
=============================================================================
