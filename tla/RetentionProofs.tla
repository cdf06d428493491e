-------------------------- MODULE RetentionProofs ---------------------------
(***************************************************************************)
(* Proofs about Retention for any number of promoters, sweepers, failing   *)
(* calls, crashes and edits.  A power loss puts back any directory content *)
(* since the last sync, so the invariant speaks of all of `survivors`, and *)
(* ties every point of promote_retention to what they can be.              *)
(***************************************************************************)
EXTENDS Retention, FiniteSetTheorems, TLAPS

\* Promoters that do not rely on a record they loaded.
Inactive == {"idle", "done", "crashed"}
\* Points of promote_retention, by what the directory holds there.
UnrenamedPCs == {"verify_claim", "rename_claim", "rollback_remove", "remove_claim",
                 "restore_sync", "restore_remove"}
LockedPCs == {"apply", "restore", "sync_dest", "discard", "discard2", "remove_promoting"}
\* ... by whether this promotion may still change the destination, or did.
UnappliedPCs == {"sync_claim", "apply", "restore", "restore_sync", "restore_remove"}
DurablePCs == {"discard", "discard2", "remove_promoting", "remove_claim", "sync_cleanup"}
AppliedPCs == DurablePCs \cup {"sync_dest"}
AppliedReplies == {"completed", "cleanup-unverified", "recovery-required"}
DurableReplies == {"completed", "cleanup-unverified"}

\* Until the record is written there is nothing to load.
RunnerInv ==
  rpc \in {"prune", "write"} =>
    /\ \A d \in survivors : \A n \in Names : d[n] = "none"
    /\ \A p \in Promoters : ppc[p] \in Inactive
    /\ mutators = {}

\* A torn record was never loaded and never will be.
TornInv ==
  \A d \in survivors : d["json"] = "torn" =>
    /\ \A p \in Promoters : ppc[p] \in Inactive
    /\ \A e \in survivors : e["json"] # "whole" /\ e["promoting"] = "none"

\* The claim outlives the .promoting record, in the directory and on the disk.
PromotingInv ==
  /\ \A d \in survivors : d["promoting"] # "none" => Inspectable(d)
  /\ \A p \in Promoters :
       /\ ppc[p] \in UnrenamedPCs => dir["promoting"] = "none"
       /\ ppc[p] = "sync_claim" => Inspectable(dir)
       /\ ppc[p] \in LockedPCs => \A d \in survivors : Inspectable(d)

\* Applying needs the record, and leaves none to apply again.
MutatorInv ==
  /\ mutators = {} \/ \E p \in Promoters : mutators = {p}
  /\ mutators # {} => \A d \in survivors : d["json"] = "none"
  /\ \A p \in Promoters :
       /\ ppc[p] \in UnappliedPCs => mutators = {}
       /\ ppc[p] \in AppliedPCs \/ reply[p] \in DurableReplies => p \in mutators
       /\ p \in mutators => \/ ppc[p] \in AppliedPCs \cup {"crashed"}
                            \/ ppc[p] = "done" /\ reply[p] \in AppliedReplies
       /\ reply[p] # "none" => ppc[p] = "done"

\* What a promotion that applied left: locked evidence, or no record at all.
AppliedInv ==
  \A p \in mutators :
    /\ reply[p] = "recovery-required" =>
         /\ \A d \in survivors : Inspectable(d)
         /\ \A q \in Promoters : ppc[q] \notin HoldingPCs
    /\ ppc[p] = "sync_cleanup" => dir["promoting"] = "none"
    /\ reply[p] = "completed" => \A d \in survivors : d["promoting"] = "none"
    /\ ppc[p] = "sync_dest" => dest \in {p, "edited"}
    /\ ppc[p] \in DurablePCs \/ reply[p] \in DurableReplies => destSurvivors \subseteq {p, "edited"}

Inv == /\ TypeOK /\ OneHolder
       /\ RunnerInv /\ TornInv /\ PromotingInv /\ MutatorInv /\ AppliedInv

\* Every call keeps its files, counters and answers in their types.
LEMMA TypeNext == TypeOK /\ [Next]_vars => TypeOK'
<1> SUFFICES ASSUME TypeOK, [Next]_vars
             PROVE  TypeOK'
  OBVIOUS
<1> USE RetentionAssumption
    DEF TypeOK, Names, Files, ScratchStates, Writers, RunnerPCs, HoldingPCs, PromoterPCs,
        SweeperPCs, Replies
<1>1. ASSUME PruneScratch
      PROVE  TypeOK'
  BY <1>1
  DEF PruneScratch, DirUnchanged, Fault, NoFault, ScratchUnchanged, RunnerFrame,
      promVars, sweepVars
<1>2. ASSUME WriteRecord
      PROVE  TypeOK'
  BY <1>2
  DEF WriteRecord, SetDir, Put, Fault, NoFault, ScratchUnchanged, RunnerFrame, promVars,
      sweepVars
<1>3. ASSUME HostCleanup
      PROVE  TypeOK'
  <2>1. /\ scratch' \in ScratchStates /\ scratchSurvivors' \in SUBSET ScratchStates
        /\ scratch' \in scratchSurvivors'
    BY <1>3 DEF HostCleanup, SetScratch, ScratchUnchanged
  <2>2. faults' \in 0 .. MaxFaults
    BY <1>3 DEF HostCleanup, Fault, NoFault, FailsIf
  <2> QED
    BY <1>3, <2>1, <2>2
    DEF HostCleanup, DirUnchanged, Fault, NoFault, FailsIf, SetScratch,
        ScratchUnchanged, RunnerFrame, promVars, sweepVars
<1>4. ASSUME NEW p \in Promoters, LoadRecord(p)
      PROVE  TypeOK'
  BY <1>4 DEF LoadRecord, DirUnchanged, NoFault, Step, Reply, RecordFrame, sweepVars
<1>5. ASSUME NEW p \in Promoters, PlanPromotion(p)
      PROVE  TypeOK'
  BY <1>5 DEF PlanPromotion, Step, Reply, diskVars, sweepVars, bounds
<1>6. ASSUME NEW p \in Promoters, WriteClaim(p)
      PROVE  TypeOK'
  BY <1>6
  DEF WriteClaim, SetDir, Put, DirUnchanged, Fault, NoFault, Step, Reply, RecordFrame,
      sweepVars
<1>7. ASSUME NEW p \in Promoters, VerifyClaim(p)
      PROVE  TypeOK'
  BY <1>7
  DEF VerifyClaim, DirUnchanged, SyncDir, Fault, NoFault, Step, RecordFrame, sweepVars
<1>8. ASSUME NEW p \in Promoters, RenameClaim(p)
      PROVE  TypeOK'
  BY <1>8
  DEF RenameClaim, SetDir, CanRename, DoRename, DirUnchanged, Fault, NoFault, FailsIf,
      Step, RecordFrame, sweepVars
<1>9. ASSUME NEW p \in Promoters, SyncClaim(p)
      PROVE  TypeOK'
  BY <1>9
  DEF SyncClaim, DirUnchanged, SyncDir, Fault, NoFault, Step, Reply, RecordFrame,
      sweepVars
<1>10. ASSUME NEW p \in Promoters, RollbackCheck(p)
      PROVE  TypeOK'
  BY <1>10 DEF RollbackCheck, DirUnchanged, NoFault, Step, Reply, RecordFrame, sweepVars
<1>11. ASSUME NEW p \in Promoters, RollbackRemove(p)
      PROVE  TypeOK'
  BY <1>11
  DEF RollbackRemove, SetDir, Put, DirUnchanged, Fault, NoFault, Step, Reply,
      RecordFrame, sweepVars
<1>12. ASSUME NEW p \in Promoters, RollbackSync(p)
      PROVE  TypeOK'
  BY <1>12
  DEF RollbackSync, DirUnchanged, SyncDir, Fault, NoFault, Reply, RecordFrame, sweepVars
<1>13. ASSUME NEW p \in Promoters, ApplyPromotion(p)
      PROVE  TypeOK'
  BY <1>13 DEF ApplyPromotion, Fault, NoFault, Step, Reply, ApplyFrame, sweepVars
<1>14. ASSUME NEW p \in Promoters, SyncDestination(p)
      PROVE  TypeOK'
  BY <1>14 DEF SyncDestination, Fault, NoFault, Step, Reply, ApplyFrame, sweepVars
<1>15. ASSUME NEW p \in Promoters, DiscardPromoted(p)
      PROVE  TypeOK'
  <2>1. /\ scratch' \in ScratchStates /\ scratchSurvivors' \in SUBSET ScratchStates
        /\ scratch' \in scratchSurvivors'
    BY <1>15 DEF DiscardPromoted, SetScratch, ScratchUnchanged
  <2>2. faults' \in 0 .. MaxFaults
    BY <1>15 DEF DiscardPromoted, Fault, NoFault, FailsIf
  <2> QED
    BY <1>15, <2>1, <2>2
    DEF DiscardPromoted, Fault, NoFault, FailsIf, SetScratch, ScratchUnchanged, Step,
        Reply, sweepVars
<1>16. ASSUME NEW p \in Promoters, RemovePromoting(p)
      PROVE  TypeOK'
  BY <1>16
  DEF RemovePromoting, SetDir, Put, DirUnchanged, Fault, NoFault, FailsIf, Step, Reply,
      RecordFrame, RemoveName, sweepVars
<1>17. ASSUME NEW p \in Promoters, RemoveClaim(p)
      PROVE  TypeOK'
  BY <1>17
  DEF RemoveClaim, SetDir, Put, DirUnchanged, Fault, NoFault, FailsIf, Step, Reply,
      RecordFrame, RemoveName, sweepVars
<1>18. ASSUME NEW p \in Promoters, SyncCleanup(p)
      PROVE  TypeOK'
  BY <1>18
  DEF SyncCleanup, DirUnchanged, SyncDir, Fault, NoFault, Reply, RecordFrame, sweepVars
<1>19. ASSUME NEW p \in Promoters, RestoreRename(p)
      PROVE  TypeOK'
  BY <1>19
  DEF RestoreRename, SetDir, CanRename, DoRename, DirUnchanged, Fault, NoFault, FailsIf,
      Step, Reply, RecordFrame, sweepVars
<1>20. ASSUME NEW p \in Promoters, RestoreSync(p)
      PROVE  TypeOK'
  BY <1>20
  DEF RestoreSync, DirUnchanged, SyncDir, Fault, NoFault, Step, Reply, RecordFrame,
      sweepVars
<1>21. ASSUME NEW p \in Promoters, RestoreRemove(p)
      PROVE  TypeOK'
  BY <1>21
  DEF RestoreRemove, SetDir, Put, DirUnchanged, Fault, NoFault, FailsIf, Step, Reply,
      RecordFrame, RemoveName, sweepVars
<1>22. ASSUME NEW p \in Promoters, RestoreFinal(p)
      PROVE  TypeOK'
  BY <1>22
  DEF RestoreFinal, DirUnchanged, SyncDir, Fault, NoFault, Reply, RecordFrame, sweepVars
<1>23. ASSUME NEW p \in Promoters, CrashPromoter(p)
      PROVE  TypeOK'
  BY <1>23 DEF CrashPromoter, Step, Crash, diskVars, sweepVars
<1>24. ASSUME NEW s \in Sweepers, BeginSweep(s)
      PROVE  TypeOK'
  BY <1>24
  DEF BeginSweep, DirUnchanged, NoFault, ScratchUnchanged, SweepStep, SweepFrame,
      promVars
<1>25. ASSUME NEW s \in Sweepers, SweepCheckClaim(s)
      PROVE  TypeOK'
  BY <1>25
  DEF SweepCheckClaim, DirUnchanged, NoFault, ScratchUnchanged, SweepStep, SweepFrame,
      promVars
<1>26. ASSUME NEW s \in Sweepers, SweepRead(s)
      PROVE  TypeOK'
  BY <1>26
  DEF SweepRead, DirUnchanged, NoFault, ScratchUnchanged, SweepStep, SweepFrame,
      promVars
<1>27. ASSUME NEW s \in Sweepers, SweepDiscard(s)
      PROVE  TypeOK'
  <2>1. /\ scratch' \in ScratchStates /\ scratchSurvivors' \in SUBSET ScratchStates
        /\ scratch' \in scratchSurvivors'
    BY <1>27 DEF SweepDiscard, SetScratch, ScratchUnchanged
  <2>2. faults' \in 0 .. MaxFaults
    BY <1>27 DEF SweepDiscard, Fault, NoFault, FailsIf
  <2> QED
    BY <1>27, <2>1, <2>2
    DEF SweepDiscard, DirUnchanged, Fault, NoFault, FailsIf, SetScratch,
        ScratchUnchanged, SweepStep, SweepFrame, promVars
<1>28. ASSUME NEW s \in Sweepers, SweepRemove(s)
      PROVE  TypeOK'
  BY <1>28
  DEF SweepRemove, SetDir, Put, DirUnchanged, Fault, NoFault, FailsIf, ScratchUnchanged,
      SweepStep, SweepFrame, promVars
<1>29. ASSUME NEW s \in Sweepers, CrashSweeper(s)
      PROVE  TypeOK'
  BY <1>29 DEF CrashSweeper, SweepStep, Crash, diskVars, promVars
<1>30. ASSUME Expire
      PROVE  TypeOK'
  BY <1>30 DEF Expire, diskVars, promVars, sweepVars, bounds
<1>31. ASSUME EditDestination
      PROVE  TypeOK'
  BY <1>31 DEF EditDestination, promVars, sweepVars
<1>32. ASSUME CrashRunner
      PROVE  TypeOK'
  BY <1>32 DEF CrashRunner, Crash, diskVars, promVars, sweepVars
<1>33. ASSUME PowerLoss
      PROVE  TypeOK'
  BY <1>33 DEF PowerLoss, Crash
<1>34. ASSUME UNCHANGED vars
      PROVE  TypeOK'
  BY <1>34 DEF vars, diskVars, promVars, sweepVars, bounds
<1> QED
  BY <1>1, <1>2, <1>3, <1>4, <1>5, <1>6, <1>7, <1>8, <1>9, <1>10, <1>11, <1>12, <1>13,
     <1>14, <1>15, <1>16, <1>17, <1>18, <1>19, <1>20, <1>21, <1>22, <1>23, <1>24, <1>25,
     <1>26, <1>27, <1>28, <1>29, <1>30, <1>31, <1>32, <1>33, <1>34
  DEF Next, RunnerNext, PromoterNext, SweeperNext

\* Every step of a process, of the environment and of a crash keeps Inv.
LEMMA InvNext == Inv /\ [Next]_vars => Inv'
<1> SUFFICES ASSUME Inv, [Next]_vars
             PROVE  Inv'
  OBVIOUS
<1>0. TypeOK /\ TypeOK'
  BY TypeNext DEF Inv
<1> USE RetentionAssumption, <1>0
    DEF Names, HoldingPCs, Inactive, UnrenamedPCs, LockedPCs, UnappliedPCs, DurablePCs,
        AppliedPCs, AppliedReplies, DurableReplies, Inspectable, TypeOK
<1>1. ASSUME PruneScratch
      PROVE  Inv'
  BY <1>1
  DEF PruneScratch, DirUnchanged, Fault, NoFault, ScratchUnchanged, RunnerFrame,
      promVars, sweepVars, Inv, OneHolder, RunnerInv, TornInv, PromotingInv, MutatorInv,
      AppliedInv
<1>2. ASSUME WriteRecord
      PROVE  Inv'
  <2> USE <1>2 DEF WriteRecord, SetDir, Put, Fault, NoFault, ScratchUnchanged,
      RunnerFrame, promVars, sweepVars, Inv
  <2>1. OneHolder'
    BY DEF OneHolder
  <2>2. RunnerInv'
    BY DEF RunnerInv
  <2>3. TornInv'
    BY DEF TornInv, RunnerInv, PromotingInv
  <2>4. PromotingInv'
    BY DEF PromotingInv, OneHolder, TornInv, RunnerInv
  <2>5. MutatorInv'
    BY DEF MutatorInv, OneHolder, RunnerInv, PromotingInv
  <2>6. AppliedInv'
    BY DEF AppliedInv, MutatorInv, OneHolder, PromotingInv, RunnerInv
  <2> QED
    BY <2>1, <2>2, <2>3, <2>4, <2>5, <2>6 DEF Inv
<1>3. ASSUME HostCleanup
      PROVE  Inv'
  BY <1>3
  DEF HostCleanup, DirUnchanged, Fault, NoFault, FailsIf, SetScratch, ScratchUnchanged,
      RunnerFrame, promVars, sweepVars, Inv, OneHolder, RunnerInv, TornInv,
      PromotingInv, MutatorInv, AppliedInv
<1>4. ASSUME NEW p \in Promoters, LoadRecord(p)
      PROVE  Inv'
  BY <1>4
  DEF LoadRecord, DirUnchanged, NoFault, Step, Reply, RecordFrame, sweepVars, Inv,
      OneHolder, RunnerInv, TornInv, PromotingInv, MutatorInv, AppliedInv
<1>5. ASSUME NEW p \in Promoters, PlanPromotion(p)
      PROVE  Inv'
  BY <1>5
  DEF PlanPromotion, Step, Reply, diskVars, sweepVars, bounds, Inv, OneHolder,
      RunnerInv, TornInv, PromotingInv, MutatorInv, AppliedInv
<1>6. ASSUME NEW p \in Promoters, WriteClaim(p)
      PROVE  Inv'
  <2> USE <1>6 DEF WriteClaim, SetDir, Put, DirUnchanged, Fault, NoFault, Step, Reply,
      RecordFrame, sweepVars, Inv
  <2>1. OneHolder'
    BY DEF OneHolder
  <2>2. RunnerInv'
    BY DEF RunnerInv
  <2>3. TornInv'
    BY DEF TornInv, RunnerInv, PromotingInv
  <2>4. PromotingInv'
    BY DEF PromotingInv, OneHolder, TornInv, RunnerInv
  <2>5. MutatorInv'
    BY DEF MutatorInv, OneHolder, RunnerInv, PromotingInv
  <2>6. AppliedInv'
    BY DEF AppliedInv, MutatorInv, OneHolder, PromotingInv, RunnerInv
  <2> QED
    BY <2>1, <2>2, <2>3, <2>4, <2>5, <2>6 DEF Inv
<1>7. ASSUME NEW p \in Promoters, VerifyClaim(p)
      PROVE  Inv'
  <2> USE <1>7 DEF VerifyClaim, DirUnchanged, SyncDir, Fault, NoFault, Step,
      RecordFrame, sweepVars, Inv
  <2>1. OneHolder'
    BY DEF OneHolder
  <2>2. RunnerInv'
    BY DEF RunnerInv
  <2>3. TornInv'
    BY DEF TornInv, RunnerInv, PromotingInv
  <2>4. PromotingInv'
    BY DEF PromotingInv, OneHolder, TornInv, RunnerInv
  <2>5. MutatorInv'
    BY DEF MutatorInv, OneHolder, RunnerInv, PromotingInv
  <2>6. AppliedInv'
    BY DEF AppliedInv, MutatorInv, OneHolder, PromotingInv, RunnerInv
  <2> QED
    BY <2>1, <2>2, <2>3, <2>4, <2>5, <2>6 DEF Inv
<1>8. ASSUME NEW p \in Promoters, RenameClaim(p)
      PROVE  Inv'
  <2> USE <1>8 DEF RenameClaim, SetDir, CanRename, DoRename, DirUnchanged, Fault,
      NoFault, FailsIf, Step, RecordFrame, sweepVars, Inv
  <2>1. OneHolder'
    BY DEF OneHolder
  <2>2. RunnerInv'
    BY DEF RunnerInv
  <2>3. TornInv'
    BY DEF TornInv, RunnerInv, PromotingInv
  <2>4. PromotingInv'
    <3>1. CASE CanRename("json", "promoting") /\ DoRename("json", "promoting")
      <4>1. dir["json"] = "whole" /\ dir["claim"] = "whole"
        BY <3>1 DEF TornInv, OneHolder, Files
      <4>2. Inspectable(dir') /\ survivors' = survivors \cup {dir'}
        BY <3>1, <4>1
      <4>3. ppc'[p] \in {"sync_claim", "rollback"} /\ \A q \in Promoters \ {p} : ppc'[q] = ppc[q]
        OBVIOUS
      <4>4. \A q \in Promoters \ {p} : ppc[q] \notin HoldingPCs
        BY DEF OneHolder
      <4> HIDE <1>8 DEF RenameClaim, SetDir, DoRename, Step, Inspectable
      <4> QED
        BY <4>2, <4>3, <4>4 DEF PromotingInv
    <3>2. CASE DirUnchanged /\ Step(p, "rollback")
      BY <3>2 DEF PromotingInv, OneHolder
    <3> QED
      BY <3>1, <3>2
  <2>5. MutatorInv'
    BY DEF MutatorInv, OneHolder, RunnerInv, PromotingInv
  <2>6. AppliedInv'
    BY DEF AppliedInv, MutatorInv, OneHolder, PromotingInv, RunnerInv
  <2> QED
    BY <2>1, <2>2, <2>3, <2>4, <2>5, <2>6 DEF Inv
<1>9. ASSUME NEW p \in Promoters, SyncClaim(p)
      PROVE  Inv'
  <2> USE <1>9 DEF SyncClaim, DirUnchanged, SyncDir, Fault, NoFault, Step, Reply,
      RecordFrame, sweepVars, Inv
  <2>1. OneHolder'
    BY DEF OneHolder
  <2>2. RunnerInv'
    BY DEF RunnerInv
  <2>3. TornInv'
    BY DEF TornInv, RunnerInv, PromotingInv
  <2>4. PromotingInv'
    BY DEF PromotingInv, OneHolder, TornInv, RunnerInv
  <2>5. MutatorInv'
    BY DEF MutatorInv, OneHolder, RunnerInv, PromotingInv
  <2>6. AppliedInv'
    BY DEF AppliedInv, MutatorInv, OneHolder, PromotingInv, RunnerInv
  <2> QED
    BY <2>1, <2>2, <2>3, <2>4, <2>5, <2>6 DEF Inv
<1>10. ASSUME NEW p \in Promoters, RollbackCheck(p)
      PROVE  Inv'
  <2> USE <1>10 DEF RollbackCheck, DirUnchanged, NoFault, Step, Reply, RecordFrame,
      sweepVars, Inv
  <2>1. OneHolder'
    BY DEF OneHolder
  <2>2. RunnerInv'
    BY DEF RunnerInv
  <2>3. TornInv'
    BY DEF TornInv, RunnerInv, PromotingInv
  <2>4. PromotingInv'
    BY DEF PromotingInv, OneHolder, TornInv, RunnerInv
  <2>5. MutatorInv'
    BY DEF MutatorInv, OneHolder, RunnerInv, PromotingInv
  <2>6. AppliedInv'
    BY DEF AppliedInv, MutatorInv, OneHolder, PromotingInv, RunnerInv
  <2> QED
    BY <2>1, <2>2, <2>3, <2>4, <2>5, <2>6 DEF Inv
<1>11. ASSUME NEW p \in Promoters, RollbackRemove(p)
      PROVE  Inv'
  <2> USE <1>11 DEF RollbackRemove, SetDir, Put, DirUnchanged, Fault, NoFault, Step,
      Reply, RecordFrame, sweepVars, Inv
  <2>1. OneHolder'
    BY DEF OneHolder
  <2>2. RunnerInv'
    BY DEF RunnerInv
  <2>3. TornInv'
    BY DEF TornInv, RunnerInv, PromotingInv
  <2>4. PromotingInv'
    BY DEF PromotingInv, OneHolder, TornInv, RunnerInv
  <2>5. MutatorInv'
    BY DEF MutatorInv, OneHolder, RunnerInv, PromotingInv
  <2>6. AppliedInv'
    BY DEF AppliedInv, MutatorInv, OneHolder, PromotingInv, RunnerInv
  <2> QED
    BY <2>1, <2>2, <2>3, <2>4, <2>5, <2>6 DEF Inv
<1>12. ASSUME NEW p \in Promoters, RollbackSync(p)
      PROVE  Inv'
  <2> USE <1>12 DEF RollbackSync, DirUnchanged, SyncDir, Fault, NoFault, Reply,
      RecordFrame, sweepVars, Inv
  <2>1. OneHolder'
    BY DEF OneHolder
  <2>2. RunnerInv'
    BY DEF RunnerInv
  <2>3. TornInv'
    BY DEF TornInv, RunnerInv, PromotingInv
  <2>4. PromotingInv'
    BY DEF PromotingInv, OneHolder, TornInv, RunnerInv
  <2>5. MutatorInv'
    BY DEF MutatorInv, OneHolder, RunnerInv, PromotingInv
  <2>6. AppliedInv'
    BY DEF AppliedInv, MutatorInv, OneHolder, PromotingInv, RunnerInv
  <2> QED
    BY <2>1, <2>2, <2>3, <2>4, <2>5, <2>6 DEF Inv
<1>13. ASSUME NEW p \in Promoters, ApplyPromotion(p)
      PROVE  Inv'
  <2> USE <1>13 DEF ApplyPromotion, Fault, NoFault, Step, Reply, ApplyFrame, sweepVars,
      Inv
  <2>1. OneHolder'
    BY DEF OneHolder
  <2>2. RunnerInv'
    BY DEF RunnerInv
  <2>3. TornInv'
    BY DEF TornInv, RunnerInv, PromotingInv
  <2>4. PromotingInv'
    BY DEF PromotingInv, OneHolder, TornInv, RunnerInv
  <2>5. MutatorInv'
    BY DEF MutatorInv, OneHolder, RunnerInv, PromotingInv
  <2>6. AppliedInv'
    BY DEF AppliedInv, MutatorInv, OneHolder, PromotingInv, RunnerInv
  <2> QED
    BY <2>1, <2>2, <2>3, <2>4, <2>5, <2>6 DEF Inv
<1>14. ASSUME NEW p \in Promoters, SyncDestination(p)
      PROVE  Inv'
  <2> USE <1>14 DEF SyncDestination, Fault, NoFault, Step, Reply, ApplyFrame, sweepVars,
      Inv
  <2>1. OneHolder'
    BY DEF OneHolder
  <2>2. RunnerInv'
    BY DEF RunnerInv
  <2>3. TornInv'
    BY DEF TornInv, RunnerInv, PromotingInv
  <2>4. PromotingInv'
    BY DEF PromotingInv, OneHolder, TornInv, RunnerInv
  <2>5. MutatorInv'
    BY DEF MutatorInv, OneHolder, RunnerInv, PromotingInv
  <2>6. AppliedInv'
    BY DEF AppliedInv, MutatorInv, OneHolder, PromotingInv, RunnerInv
  <2> QED
    BY <2>1, <2>2, <2>3, <2>4, <2>5, <2>6 DEF Inv
<1>15. ASSUME NEW p \in Promoters, DiscardPromoted(p)
      PROVE  Inv'
  <2> USE <1>15 DEF DiscardPromoted, Fault, NoFault, FailsIf, SetScratch,
      ScratchUnchanged, Step, Reply, sweepVars, Inv
  <2>1. OneHolder'
    BY DEF OneHolder
  <2>2. RunnerInv'
    BY DEF RunnerInv
  <2>3. TornInv'
    BY DEF TornInv, RunnerInv, PromotingInv
  <2>4. PromotingInv'
    BY DEF PromotingInv, OneHolder, TornInv, RunnerInv
  <2>5. MutatorInv'
    BY DEF MutatorInv, OneHolder, RunnerInv, PromotingInv
  <2>6. AppliedInv'
    BY DEF AppliedInv, MutatorInv, OneHolder, PromotingInv, RunnerInv
  <2> QED
    BY <2>1, <2>2, <2>3, <2>4, <2>5, <2>6 DEF Inv
<1>16. ASSUME NEW p \in Promoters, RemovePromoting(p)
      PROVE  Inv'
  <2> USE <1>16 DEF RemovePromoting, SetDir, Put, DirUnchanged, Fault, NoFault, FailsIf,
      Step, Reply, RecordFrame, RemoveName, sweepVars, Inv
  <2>1. OneHolder'
    BY DEF OneHolder
  <2>2. RunnerInv'
    BY DEF RunnerInv
  <2>3. TornInv'
    BY DEF TornInv, RunnerInv, PromotingInv
  <2>4. PromotingInv'
    BY DEF PromotingInv, OneHolder, TornInv, RunnerInv
  <2>5. MutatorInv'
    BY DEF MutatorInv, OneHolder, RunnerInv, PromotingInv
  <2>6. AppliedInv'
    BY DEF AppliedInv, MutatorInv, OneHolder, PromotingInv, RunnerInv
  <2> QED
    BY <2>1, <2>2, <2>3, <2>4, <2>5, <2>6 DEF Inv
<1>17. ASSUME NEW p \in Promoters, RemoveClaim(p)
      PROVE  Inv'
  <2> USE <1>17 DEF RemoveClaim, SetDir, Put, DirUnchanged, Fault, NoFault, FailsIf,
      Step, Reply, RecordFrame, RemoveName, sweepVars, Inv
  <2>1. OneHolder'
    BY DEF OneHolder
  <2>2. RunnerInv'
    BY DEF RunnerInv
  <2>3. TornInv'
    BY DEF TornInv, RunnerInv, PromotingInv
  <2>4. PromotingInv'
    BY DEF PromotingInv, OneHolder, TornInv, RunnerInv
  <2>5. MutatorInv'
    BY DEF MutatorInv, OneHolder, RunnerInv, PromotingInv
  <2>6. AppliedInv'
    BY DEF AppliedInv, MutatorInv, OneHolder, PromotingInv, RunnerInv
  <2> QED
    BY <2>1, <2>2, <2>3, <2>4, <2>5, <2>6 DEF Inv
<1>18. ASSUME NEW p \in Promoters, SyncCleanup(p)
      PROVE  Inv'
  <2> USE <1>18 DEF SyncCleanup, DirUnchanged, SyncDir, Fault, NoFault, Reply,
      RecordFrame, sweepVars, Inv
  <2>1. OneHolder'
    BY DEF OneHolder
  <2>2. RunnerInv'
    BY DEF RunnerInv
  <2>3. TornInv'
    BY DEF TornInv, RunnerInv, PromotingInv
  <2>4. PromotingInv'
    BY DEF PromotingInv, OneHolder, TornInv, RunnerInv
  <2>5. MutatorInv'
    BY DEF MutatorInv, OneHolder, RunnerInv, PromotingInv
  <2>6. AppliedInv'
    BY DEF AppliedInv, MutatorInv, OneHolder, PromotingInv, RunnerInv
  <2> QED
    BY <2>1, <2>2, <2>3, <2>4, <2>5, <2>6 DEF Inv
<1>19. ASSUME NEW p \in Promoters, RestoreRename(p)
      PROVE  Inv'
  <2> USE <1>19 DEF RestoreRename, SetDir, CanRename, DoRename, DirUnchanged, Fault,
      NoFault, FailsIf, Step, Reply, RecordFrame, sweepVars, Inv
  <2>1. OneHolder'
    BY DEF OneHolder
  <2>2. RunnerInv'
    BY DEF RunnerInv
  <2>3. TornInv'
    BY DEF TornInv, RunnerInv, PromotingInv
  <2>4. PromotingInv'
    BY DEF PromotingInv, OneHolder, TornInv, RunnerInv
  <2>5. MutatorInv'
    BY DEF MutatorInv, OneHolder, RunnerInv, PromotingInv
  <2>6. AppliedInv'
    BY DEF AppliedInv, MutatorInv, OneHolder, PromotingInv, RunnerInv
  <2> QED
    BY <2>1, <2>2, <2>3, <2>4, <2>5, <2>6 DEF Inv
<1>20. ASSUME NEW p \in Promoters, RestoreSync(p)
      PROVE  Inv'
  <2> USE <1>20 DEF RestoreSync, DirUnchanged, SyncDir, Fault, NoFault, Step, Reply,
      RecordFrame, sweepVars, Inv
  <2>1. OneHolder'
    BY DEF OneHolder
  <2>2. RunnerInv'
    BY DEF RunnerInv
  <2>3. TornInv'
    BY DEF TornInv, RunnerInv, PromotingInv
  <2>4. PromotingInv'
    BY DEF PromotingInv, OneHolder, TornInv, RunnerInv
  <2>5. MutatorInv'
    BY DEF MutatorInv, OneHolder, RunnerInv, PromotingInv
  <2>6. AppliedInv'
    BY DEF AppliedInv, MutatorInv, OneHolder, PromotingInv, RunnerInv
  <2> QED
    BY <2>1, <2>2, <2>3, <2>4, <2>5, <2>6 DEF Inv
<1>21. ASSUME NEW p \in Promoters, RestoreRemove(p)
      PROVE  Inv'
  <2> USE <1>21 DEF RestoreRemove, SetDir, Put, DirUnchanged, Fault, NoFault, FailsIf,
      Step, Reply, RecordFrame, RemoveName, sweepVars, Inv
  <2>1. OneHolder'
    BY DEF OneHolder
  <2>2. RunnerInv'
    BY DEF RunnerInv
  <2>3. TornInv'
    BY DEF TornInv, RunnerInv, PromotingInv
  <2>4. PromotingInv'
    BY DEF PromotingInv, OneHolder, TornInv, RunnerInv
  <2>5. MutatorInv'
    BY DEF MutatorInv, OneHolder, RunnerInv, PromotingInv
  <2>6. AppliedInv'
    BY DEF AppliedInv, MutatorInv, OneHolder, PromotingInv, RunnerInv
  <2> QED
    BY <2>1, <2>2, <2>3, <2>4, <2>5, <2>6 DEF Inv
<1>22. ASSUME NEW p \in Promoters, RestoreFinal(p)
      PROVE  Inv'
  <2> USE <1>22 DEF RestoreFinal, DirUnchanged, SyncDir, Fault, NoFault, Reply,
      RecordFrame, sweepVars, Inv
  <2>1. OneHolder'
    BY DEF OneHolder
  <2>2. RunnerInv'
    BY DEF RunnerInv
  <2>3. TornInv'
    BY DEF TornInv, RunnerInv, PromotingInv
  <2>4. PromotingInv'
    BY DEF PromotingInv, OneHolder, TornInv, RunnerInv
  <2>5. MutatorInv'
    BY DEF MutatorInv, OneHolder, RunnerInv, PromotingInv
  <2>6. AppliedInv'
    BY DEF AppliedInv, MutatorInv, OneHolder, PromotingInv, RunnerInv
  <2> QED
    BY <2>1, <2>2, <2>3, <2>4, <2>5, <2>6 DEF Inv
<1>23. ASSUME NEW p \in Promoters, CrashPromoter(p)
      PROVE  Inv'
  <2> USE <1>23 DEF CrashPromoter, Step, Crash, diskVars, sweepVars, Inv
  <2>1. OneHolder'
    BY DEF OneHolder
  <2>2. RunnerInv'
    BY DEF RunnerInv
  <2>3. TornInv'
    BY DEF TornInv, RunnerInv, PromotingInv
  <2>4. PromotingInv'
    BY DEF PromotingInv, OneHolder, TornInv, RunnerInv
  <2>5. MutatorInv'
    BY DEF MutatorInv, OneHolder, RunnerInv, PromotingInv
  <2>6. AppliedInv'
    BY DEF AppliedInv, MutatorInv, OneHolder, PromotingInv, RunnerInv
  <2> QED
    BY <2>1, <2>2, <2>3, <2>4, <2>5, <2>6 DEF Inv
<1>24. ASSUME NEW s \in Sweepers, BeginSweep(s)
      PROVE  Inv'
  BY <1>24
  DEF BeginSweep, DirUnchanged, NoFault, ScratchUnchanged, SweepStep, SweepFrame,
      promVars, Inv, OneHolder, RunnerInv, TornInv, PromotingInv, MutatorInv, AppliedInv
<1>25. ASSUME NEW s \in Sweepers, SweepCheckClaim(s)
      PROVE  Inv'
  BY <1>25
  DEF SweepCheckClaim, DirUnchanged, NoFault, ScratchUnchanged, SweepStep, SweepFrame,
      promVars, Inv, OneHolder, RunnerInv, TornInv, PromotingInv, MutatorInv, AppliedInv
<1>26. ASSUME NEW s \in Sweepers, SweepRead(s)
      PROVE  Inv'
  BY <1>26
  DEF SweepRead, DirUnchanged, NoFault, ScratchUnchanged, SweepStep, SweepFrame,
      promVars, Inv, OneHolder, RunnerInv, TornInv, PromotingInv, MutatorInv, AppliedInv
<1>27. ASSUME NEW s \in Sweepers, SweepDiscard(s)
      PROVE  Inv'
  BY <1>27
  DEF SweepDiscard, DirUnchanged, Fault, NoFault, FailsIf, SetScratch, ScratchUnchanged,
      SweepStep, SweepFrame, promVars, Inv, OneHolder, RunnerInv, TornInv, PromotingInv,
      MutatorInv, AppliedInv
<1>28. ASSUME NEW s \in Sweepers, SweepRemove(s)
      PROVE  Inv'
  <2> USE <1>28 DEF SweepRemove, SetDir, Put, DirUnchanged, Fault, NoFault, FailsIf,
      ScratchUnchanged, SweepStep, SweepFrame, promVars, Inv
  <2>1. OneHolder'
    BY DEF OneHolder
  <2>2. RunnerInv'
    BY DEF RunnerInv
  <2>3. TornInv'
    BY DEF TornInv, RunnerInv, PromotingInv
  <2>4. PromotingInv'
    BY DEF PromotingInv, OneHolder, TornInv, RunnerInv
  <2>5. MutatorInv'
    BY DEF MutatorInv, OneHolder, RunnerInv, PromotingInv
  <2>6. AppliedInv'
    BY DEF AppliedInv, MutatorInv, OneHolder, PromotingInv, RunnerInv
  <2> QED
    BY <2>1, <2>2, <2>3, <2>4, <2>5, <2>6 DEF Inv
<1>29. ASSUME NEW s \in Sweepers, CrashSweeper(s)
      PROVE  Inv'
  BY <1>29
  DEF CrashSweeper, SweepStep, Crash, diskVars, promVars, Inv, OneHolder, RunnerInv,
      TornInv, PromotingInv, MutatorInv, AppliedInv
<1>30. ASSUME Expire
      PROVE  Inv'
  BY <1>30
  DEF Expire, diskVars, promVars, sweepVars, bounds, Inv, OneHolder, RunnerInv, TornInv,
      PromotingInv, MutatorInv, AppliedInv
<1>31. ASSUME EditDestination
      PROVE  Inv'
  <2> USE <1>31 DEF EditDestination, promVars, sweepVars, Inv
  <2>1. OneHolder'
    BY DEF OneHolder
  <2>2. RunnerInv'
    BY DEF RunnerInv
  <2>3. TornInv'
    BY DEF TornInv, RunnerInv, PromotingInv
  <2>4. PromotingInv'
    BY DEF PromotingInv, OneHolder, TornInv, RunnerInv
  <2>5. MutatorInv'
    BY DEF MutatorInv, OneHolder, RunnerInv, PromotingInv
  <2>6. AppliedInv'
    BY DEF AppliedInv, MutatorInv, OneHolder, PromotingInv, RunnerInv
  <2> QED
    BY <2>1, <2>2, <2>3, <2>4, <2>5, <2>6 DEF Inv
<1>32. ASSUME CrashRunner
      PROVE  Inv'
  BY <1>32
  DEF CrashRunner, Crash, diskVars, promVars, sweepVars, Inv, OneHolder, RunnerInv,
      TornInv, PromotingInv, MutatorInv, AppliedInv
<1>33. ASSUME PowerLoss
      PROVE  Inv'
  <2> USE <1>33 DEF PowerLoss, Crash, Inv
  <2>1. OneHolder'
    BY DEF OneHolder
  <2>2. RunnerInv'
    BY DEF RunnerInv
  <2>3. TornInv'
    BY DEF TornInv, RunnerInv, PromotingInv
  <2>4. PromotingInv'
    BY DEF PromotingInv, OneHolder, TornInv, RunnerInv
  <2>5. MutatorInv'
    BY DEF MutatorInv, OneHolder, RunnerInv, PromotingInv
  <2>6. AppliedInv'
    BY DEF AppliedInv, MutatorInv, OneHolder, PromotingInv, RunnerInv
  <2> QED
    BY <2>1, <2>2, <2>3, <2>4, <2>5, <2>6 DEF Inv
<1>34. ASSUME UNCHANGED vars
      PROVE  Inv'
  BY <1>34
  DEF vars, diskVars, promVars, sweepVars, bounds, Inv, OneHolder, RunnerInv, TornInv,
      PromotingInv, MutatorInv, AppliedInv
<1> QED
  BY <1>1, <1>2, <1>3, <1>4, <1>5, <1>6, <1>7, <1>8, <1>9, <1>10, <1>11, <1>12, <1>13,
     <1>14, <1>15, <1>16, <1>17, <1>18, <1>19, <1>20, <1>21, <1>22, <1>23, <1>24, <1>25,
     <1>26, <1>27, <1>28, <1>29, <1>30, <1>31, <1>32, <1>33, <1>34
  DEF Next, RunnerNext, PromoterNext, SweeperNext

\* The command has exited and nothing is retained yet.
LEMMA InvInit == Init => Inv
<1> SUFFICES ASSUME Init
             PROVE  Inv
  OBVIOUS
<1>1. TypeOK
  <2>1. expired \in BOOLEAN /\ sexpired \in [Sweepers -> BOOLEAN]
    BY DEF Init
  <2> QED
    BY <2>1, RetentionAssumption
    DEF Init, TypeOK, Names, Files, ScratchStates, Writers, RunnerPCs, HoldingPCs,
        PromoterPCs, SweeperPCs, Replies
<1>2. /\ \A d \in survivors : \A n \in Names : d[n] = "none"
      /\ \A p \in Promoters : ppc[p] = "idle" /\ reply[p] = "none"
      /\ mutators = {}
  BY DEF Init
<1>3. OneHolder /\ RunnerInv /\ TornInv /\ AppliedInv
  BY <1>2 DEF OneHolder, HoldingPCs, RunnerInv, TornInv, AppliedInv, Inactive, Names
<1>4. PromotingInv
  BY <1>2 DEF PromotingInv, UnrenamedPCs, LockedPCs, Names
<1>5. MutatorInv
  BY <1>2 DEF MutatorInv, UnappliedPCs, AppliedPCs, DurablePCs, DurableReplies
<1> QED
  BY <1>1, <1>3, <1>4, <1>5 DEF Inv

\* Inv holds in every state, through failing calls, crashes and power losses.
THEOREM RetentionInvariant == Spec => []Inv
  BY InvInit, InvNext, PTL DEF Spec

(***************************************************************************)
(* The life of a retention keeps its types; in particular every answer of  *)
(* promote_retention is one of the protocol's codes.                       *)
(***************************************************************************)
THEOREM TypeCorrect == Spec => []TypeOK
<1>1. Inv => TypeOK
  BY DEF Inv
<1> QED
  BY <1>1, RetentionInvariant, PTL

(***************************************************************************)
(* The claim file is a lock: any number of promoters, at most one past     *)
(* creating it, and the file stays as long as its owner relies on it.      *)
(***************************************************************************)
THEOREM ClaimIsLock == Spec => []OneHolder
<1>1. Inv => OneHolder
  BY DEF Inv
<1> QED
  BY <1>1, RetentionInvariant, PTL

(***************************************************************************)
(* A retention is applied at most once: when the destination has been      *)
(* changed, no directory content a power loss can bring back offers the    *)
(* record to another promotion.                                            *)
(***************************************************************************)
THEOREM RetentionAppliedOnce == Spec => []AppliedOnce
<1>1. Inv => AppliedOnce
  <2> SUFFICES ASSUME Inv
               PROVE  Cardinality(mutators) <= 1
    BY DEF Inv, MutatorInv, AppliedOnce
  <2>1. CASE mutators = {}
    BY <2>1, FS_EmptySet
  <2>2. ASSUME NEW p \in Promoters, mutators = {p}
        PROVE  Cardinality(mutators) <= 1
    <3>1. Cardinality({p}) = 1
      BY FS_Singleton, Zenon
    <3> QED
      BY <2>2, <3>1
  <2> QED
    BY <2>1, <2>2 DEF Inv, MutatorInv
<1> QED
  BY <1>1, RetentionInvariant, PTL

(***************************************************************************)
(* An interrupted promotion that changed the destination leaves exactly    *)
(* what inspect_retention_recovery accepts, in every content of the        *)
(* directory that a power loss can bring back.                             *)
(***************************************************************************)
THEOREM LockedStaysInspectable == Spec => []LockedIsInspectable
<1>1. Inv => LockedIsInspectable
  <2> SUFFICES ASSUME Inv
               PROVE  LockedIsInspectable
    OBVIOUS
  <2>1. mutators \subseteq Promoters
    BY DEF Inv, TypeOK
  <2> QED
    BY <2>1 DEF Inv, PromotingInv, AppliedInv, LockedPCs, LockedIsInspectable
<1> QED
  BY <1>1, RetentionInvariant, PTL

(***************************************************************************)
(* destination_outcome is right in every response: refused promotions      *)
(* changed nothing, applied-durable ones stay applied unless someone else  *)
(* edits the file, completed ones left no record.                          *)
(***************************************************************************)
THEOREM ResponsesAreTruthful == Spec => []OutcomeIsTruthful
<1>1. Inv => OutcomeIsTruthful
  <2> SUFFICES ASSUME Inv, NEW p \in Promoters
               PROVE  /\ reply[p] \in {"refused", "claim-not-restored"} => p \notin mutators
                      /\ reply[p] \in {"completed", "cleanup-unverified"} => dest \in {p, "edited"}
                      /\ reply[p] = "completed" =>
                           \A d \in survivors : d["json"] = "none" /\ d["promoting"] = "none"
    BY DEF OutcomeIsTruthful
  <2>1. reply[p] \in {"refused", "claim-not-restored"} => p \notin mutators
    BY DEF Inv, MutatorInv, AppliedPCs, DurablePCs, AppliedReplies
  <2>2. reply[p] \in DurableReplies => p \in mutators
    BY DEF Inv, MutatorInv
  <2>3. reply[p] \in {"completed", "cleanup-unverified"} => dest \in {p, "edited"}
    BY <2>2 DEF Inv, TypeOK, AppliedInv, DurableReplies
  <2>4. reply[p] = "completed" =>
          \A d \in survivors : d["json"] = "none" /\ d["promoting"] = "none"
    BY <2>2 DEF Inv, MutatorInv, AppliedInv, DurableReplies
  <2> QED
    BY <2>1, <2>3, <2>4
<1> QED
  BY <1>1, RetentionInvariant, PTL
=============================================================================
