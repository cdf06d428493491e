------------------------ MODULE CommandOutputProofs -------------------------
(***************************************************************************)
(* Proofs about CommandOutput for any number of pollers and sweepers, any  *)
(* sizes and any number of failing calls and crashes.  Two facts carry     *)
(* them: nothing of an unexpired stream is ever removed, so its blob is    *)
(* what the supervisor wrote; and the supervisor writes no more once the   *)
(* run has ended, so a record measured after that stays right.             *)
(***************************************************************************)
EXTENDS CommandOutput, TLAPS

\* The part of TypeOK about truth values.
BooleansOK ==
  /\ artBlob \in BOOLEAN /\ artManifest \in BOOLEAN /\ artStaging \in BOOLEAN
  /\ liveExpired \in BOOLEAN /\ artExpired \in BOOLEAN
  /\ started \in BOOLEAN /\ view \in BOOLEAN /\ truncated \in BOOLEAN

Ended(record) == record.status \in {"ended", "failed"}
\* The executor before the run has ended.
EarlyPCs == {"begin", "bind", "launch", "run"}
\* What a measured stream stays until it expires.
Measured == started /\ run # "none" /\ (~liveExpired => blob # "none")

ExecutorInv ==
  /\ epc \in {"begin", "bind", "launch"} => blob = "none" /\ spool = 0
  /\ run # "none" => epc \notin EarlyPCs
  /\ epc \notin EarlyPCs \cup {"replied", "crashed"} => run # "none"
  /\ epc \in {"measure", "replace", "sync"} => started
  /\ epc \in {"replace", "sync"} => final # NoRecord
  /\ reply # "none" => epc = "replied"

\* Manifest, blob and reference of the stream.
StreamInv ==
  /\ ~liveExpired /\ started => BlobSize = spool /\ (epc = "run" => blob = "spool")
  /\ manifest \in {NoRecord, Running} \/ Ended(manifest)
  /\ Ended(manifest) \/ final # NoRecord => Measured
  /\ Ended(manifest) /\ ~liveExpired => manifest.size = spool
  /\ final # NoRecord => final.status = run /\ (~liveExpired => final.size = spool)

\* Only what has expired is swept.
SweepInv ==
  \A s \in Sweepers :
    /\ spc[s] \in {"live_blob", "live_manifest"} => liveExpired
    /\ spc[s] \in {"art_blob", "art_manifest"} => artExpired

\* A poller that has read a terminal manifest read it in time.
ReaderInv ==
  \A r \in Readers :
    /\ ~liveExpired => offset[r] <= BlobSize /\ available[r] <= BlobSize
    /\ answer[r] # "none" => rpc[r] = "done"
    /\ rpc[r] \in {"check", "read"} => offset[r] <= available[r]
    /\ rrecord[r] # NoRecord /\ manifest = NoRecord => liveExpired
    /\ rpc[r] \in {"find", "stat", "check", "read"} => rrecord[r] # NoRecord
    /\ rpc[r] = "stat" /\ ~liveExpired => blob # "none"
    /\ rpc[r] \in {"find", "stat", "check", "read"} /\ rrecord[r].status # "running" =>
         /\ Measured /\ rrecord[r].size = spool
         /\ rpc[r] = "read" \/ (rpc[r] = "check" /\ ~liveExpired) => available[r] = spool

\* What is staged is the whole output, and is swept only when it has expired.
ReceiptInv ==
  /\ epc \in {"stage", "publish_blob", "publish_manifest"} =>
       final = [status |-> "ended", size |-> spool]
  /\ epc = "publish_manifest" /\ ~artExpired => artBlob

Inv == /\ TypeOK /\ ExecutorInv /\ StreamInv /\ SweepInv /\ ReaderInv /\ ReceiptInv
       /\ PollsTruthful /\ ReceiptComplete

\* Every call keeps its files, counters and answers in their types.
LEMMA TypeNext == TypeOK /\ [Next]_vars => TypeOK'
<1> SUFFICES ASSUME TypeOK, [Next]_vars
             PROVE  TypeOK'
  OBVIOUS
<1> USE OutputAssumption DEF TypeOK, Records, NoRecord, Running, ExecutorPCs, Answers
<1>1. ASSUME begin_live_output
      PROVE  TypeOK'
  <2>1. BooleansOK'
    BY <1>1, Zenon
    DEF begin_live_output, Fault, NoFault, execFrame, Goto, artVars, clockVars,
        readerVars, BooleansOK
  <2> QED
    BY <1>1, <2>1
    DEF begin_live_output, Fault, NoFault, execFrame, Goto, artVars, clockVars,
        readerVars, BooleansOK
<1>2. ASSUME BindTools
      PROVE  TypeOK'
  BY <1>2
  DEF BindTools, Fault, NoFault, execFrame, Goto, Reply, liveVars, artVars, clockVars,
      readerVars
<1>3. ASSUME LaunchCommand
      PROVE  TypeOK'
  BY <1>3
  DEF LaunchCommand, Fault, NoFault, execFrame, Goto, artVars, clockVars, readerVars
<1>4. ASSUME AppendOutput
      PROVE  TypeOK'
  BY <1>4
  DEF AppendOutput, execFrame, liveVars, artVars, clockVars, execVars, readerVars
<1>5. ASSUME CommandEnds
      PROVE  TypeOK'
  <2>1. BooleansOK'
    BY <1>5, Zenon
    DEF CommandEnds, execFrame, Goto, liveVars, artVars, clockVars, readerVars,
        BooleansOK
  <2> QED
    BY <1>5, <2>1
    DEF CommandEnds, execFrame, Goto, liveVars, artVars, clockVars, readerVars,
        BooleansOK
<1>6. ASSUME CaptureOutput
      PROVE  TypeOK'
  <2>1. BooleansOK'
    BY <1>6, Zenon
    DEF CaptureOutput, execFrame, clockVars, artVars, BooleansOK
  <2>2. faults' \in 0 .. MaxFaults /\ epc' = "finalize"
    <3>1. (UNCHANGED faults \/ Fault) /\ epc' = "finalize"
      BY <1>6, Zenon DEF CaptureOutput, NoFault, Goto
    <3> QED
      BY <3>1 DEF Fault
  <2>3. UNCHANGED <<liveVars, spool, run, final, reply, readerVars, spc, crashes>>
    BY <1>6 DEF CaptureOutput, execFrame
  <2> QED
    BY <2>1, <2>2, <2>3 DEF BooleansOK, liveVars, readerVars
<1>7. ASSUME FinalizeBlob
      PROVE  TypeOK'
  BY <1>7
  DEF FinalizeBlob, Fault, NoFault, execFrame, Goto, artVars, clockVars, readerVars
<1>8. ASSUME MeasureBlob
      PROVE  TypeOK'
  BY <1>8
  DEF MeasureBlob, Fault, NoFault, execFrame, Goto, BlobSize, liveVars, artVars,
      clockVars, readerVars
<1>9. ASSUME ReplaceManifest
      PROVE  TypeOK'
  BY <1>9
  DEF ReplaceManifest, Fault, NoFault, execFrame, Goto, artVars, clockVars, readerVars
<1>10. ASSUME SyncManifest
      PROVE  TypeOK'
  BY <1>10
  DEF SyncManifest, Fault, NoFault, execFrame, Goto, liveVars, artVars, clockVars,
      readerVars
<1>11. ASSUME VerifyOutput
      PROVE  TypeOK'
  BY <1>11
  DEF VerifyOutput, Fault, NoFault, execFrame, Goto, Reply, SpoolVerified,
      output_artifact_required, BlobSize, liveVars, artVars, clockVars, readerVars
<1>12. ASSUME StageArtifact
      PROVE  TypeOK'
  <2>1. BooleansOK'
    BY <1>12, Zenon
    DEF StageArtifact, Fault, NoFault, execFrame, Goto, artFrame, liveVars, clockVars,
        readerVars, BooleansOK
  <2> QED
    BY <1>12, <2>1
    DEF StageArtifact, Fault, NoFault, execFrame, Goto, artFrame, liveVars, clockVars,
        readerVars, BooleansOK
<1>13. ASSUME PublishBlob
      PROVE  TypeOK'
  <2>1. BooleansOK'
    BY <1>13, Zenon
    DEF PublishBlob, Fault, NoFault, execFrame, Goto, artFrame, liveVars, clockVars,
        readerVars, BooleansOK
  <2> QED
    BY <1>13, <2>1
    DEF PublishBlob, Fault, NoFault, execFrame, Goto, artFrame, liveVars, clockVars,
        readerVars, BooleansOK
<1>14. ASSUME PublishManifest
      PROVE  TypeOK'
  <2>1. BooleansOK'
    BY <1>14, Zenon
    DEF PublishManifest, Fault, NoFault, execFrame, Goto, Reply, artFrame, liveVars,
        clockVars, readerVars, BooleansOK
  <2> QED
    BY <1>14, <2>1
    DEF PublishManifest, Fault, NoFault, execFrame, Goto, Reply, artFrame, liveVars,
        clockVars, readerVars, BooleansOK
<1>15. ASSUME CleanupArtifact
      PROVE  TypeOK'
  <2>1. BooleansOK'
    BY <1>15, Zenon
    DEF CleanupArtifact, Fault, NoFault, execFrame, Reply, artFrame, liveVars,
        clockVars, readerVars, BooleansOK
  <2> QED
    BY <1>15, <2>1
    DEF CleanupArtifact, Fault, NoFault, execFrame, Reply, artFrame, liveVars,
        clockVars, readerVars, BooleansOK
<1>16. ASSUME CrashExecutor
      PROVE  TypeOK'
  BY <1>16 DEF CrashExecutor, Goto, liveVars, artVars, clockVars, readerVars
<1>17. ASSUME NEW r \in Readers, ReadManifest(r)
      PROVE  TypeOK'
  <2>1. /\ rpc' \in [Readers -> {"idle", "find", "stat", "check", "read", "done"}]
        /\ answer' \in [Readers -> Answers] /\ offset' = offset
    BY <1>17 DEF ReadManifest, Answer, GoOn, Refuse, RefuseOnError, FailOnError
  <2>2. rrecord' \in [Readers -> Records] /\ available' \in [Readers -> 0 .. MaxOutput]
    BY <1>17 DEF ReadManifest, BlobSize
  <2>3. UNCHANGED <<liveVars, spool, artVars, clockVars, execVars, spc, crashes>>
    BY <1>17 DEF ReadManifest, readFrame
  <2>4. PICK told \in BOOLEAN : \/ UNCHANGED misread
                                \/ misread' = [misread EXCEPT ![r] = told]
    BY ONLY <1>17, ZenonT(40) DEF ReadManifest, GoOn, Refuse, RefuseOnError, FailOnError
  <2>5. misread' \in [Readers -> BOOLEAN]
    BY <2>4
  <2>6. faults' \in 0 .. MaxFaults
    BY <1>17
    DEF ReadManifest, GoOn, Refuse, RefuseOnError, FailOnError, Fault, NoFault
  <2> QED
    BY <2>1, <2>2, <2>3, <2>5, <2>6 DEF liveVars, artVars, clockVars, execVars
<1>18. ASSUME NEW r \in Readers, StatBlob(r)
      PROVE  TypeOK'
  <2>0. \/ GoOn(r, "check") \/ GoOn(r, "idle")
        \/ Refuse(r, "cursor-refused") \/ Refuse(r, "integrity-refused")
        \/ RefuseOnError(r, "integrity-refused") \/ FailOnError(r)
    BY ONLY <1>18 DEF StatBlob
  <2>1. /\ rpc' \in [Readers -> {"idle", "find", "stat", "check", "read", "done"}]
        /\ answer' \in [Readers -> Answers] /\ offset' = offset
    <3>1. \/ /\ \/ rpc' = [rpc EXCEPT ![r] = "check"]
                \/ rpc' = [rpc EXCEPT ![r] = "idle"]
             /\ UNCHANGED <<answer, offset>>
          \/ /\ rpc' = [rpc EXCEPT ![r] = "done"]
             /\ \/ answer' = [answer EXCEPT ![r] = "cursor-refused"]
                \/ answer' = [answer EXCEPT ![r] = "integrity-refused"]
             /\ UNCHANGED offset
      <4>1. ASSUME NEW to, GoOn(r, to)
            PROVE  rpc' = [rpc EXCEPT ![r] = to] /\ UNCHANGED <<answer, offset>>
        BY ONLY <4>1 DEF GoOn
      <4>2. ASSUME NEW a, Refuse(r, a) \/ RefuseOnError(r, a)
            PROVE  /\ rpc' = [rpc EXCEPT ![r] = "done"]
                   /\ answer' = [answer EXCEPT ![r] = a] /\ UNCHANGED offset
        BY ONLY <4>2, Zenon DEF Refuse, RefuseOnError, Answer
      <4>3. ASSUME FailOnError(r)
            PROVE  rpc' = [rpc EXCEPT ![r] = "idle"] /\ UNCHANGED <<answer, offset>>
        BY ONLY <4>3 DEF FailOnError
      <4> QED
        BY ONLY <2>0, <4>1, <4>2, <4>3, Zenon
    <3> QED
      BY <3>1
  <2>2. rrecord' \in [Readers -> Records] /\ available' \in [Readers -> 0 .. MaxOutput]
    BY <1>18 DEF StatBlob, BlobSize
  <2>3. UNCHANGED <<liveVars, spool, artVars, clockVars, execVars, spc, crashes>>
    BY <1>18 DEF StatBlob, readFrame
  <2>4. PICK told \in BOOLEAN : \/ UNCHANGED misread
                                \/ misread' = [misread EXCEPT ![r] = told]
    BY ONLY <2>0, Zenon DEF GoOn, Refuse, RefuseOnError, FailOnError
  <2>5. misread' \in [Readers -> BOOLEAN]
    BY <2>4
  <2>6. faults' \in 0 .. MaxFaults
    BY <1>18
    DEF StatBlob, GoOn, Refuse, RefuseOnError, FailOnError, Fault, NoFault
  <2> QED
    BY <2>1, <2>2, <2>3, <2>5, <2>6 DEF liveVars, artVars, clockVars, execVars
<1>19. ASSUME NEW r \in Readers, CheckTerminal(r)
      PROVE  TypeOK'
  <2>1. /\ rpc' \in [Readers -> {"idle", "find", "stat", "check", "read", "done"}]
        /\ answer' \in [Readers -> Answers] /\ offset' = offset
    BY <1>19 DEF CheckTerminal, Answer, GoOn, Refuse, RefuseOnError, FailOnError
  <2>2. rrecord' \in [Readers -> Records] /\ available' \in [Readers -> 0 .. MaxOutput]
    BY <1>19 DEF CheckTerminal, BlobSize
  <2>3. UNCHANGED <<liveVars, spool, artVars, clockVars, execVars, spc, crashes>>
    BY <1>19 DEF CheckTerminal, readFrame
  <2>4. PICK told \in BOOLEAN : \/ UNCHANGED misread
                                \/ misread' = [misread EXCEPT ![r] = told]
    BY ONLY <1>19, ZenonT(40) DEF CheckTerminal, GoOn, Refuse, RefuseOnError, FailOnError
  <2>5. misread' \in [Readers -> BOOLEAN]
    BY <2>4
  <2>6. faults' \in 0 .. MaxFaults
    BY <1>19
    DEF CheckTerminal, GoOn, Refuse, RefuseOnError, FailOnError, Fault, NoFault
  <2> QED
    BY <2>1, <2>2, <2>3, <2>5, <2>6 DEF liveVars, artVars, clockVars, execVars
<1>20. ASSUME NEW r \in Readers, ReadChunk(r)
      PROVE  TypeOK'
  <2>1. misread' = misread /\ faults' \in 0 .. MaxFaults
    BY <1>20 DEF ReadChunk, GoOn, FailOnError, Fault, NoFault
  <2> QED
    BY <1>20, <2>1
    DEF ReadChunk, GoOn, FailOnError, readFrame, liveVars, artVars, clockVars, execVars
<1>29. ASSUME NEW r \in Readers, FindBlob(r)
      PROVE  TypeOK'
  <2>1. /\ rpc' \in [Readers -> {"idle", "find", "stat", "check", "read", "done"}]
        /\ answer' \in [Readers -> Answers] /\ offset' = offset
    BY <1>29 DEF FindBlob, Answer, GoOn, Refuse, RefuseOnError, FailOnError
  <2>2. rrecord' \in [Readers -> Records] /\ available' \in [Readers -> 0 .. MaxOutput]
    BY <1>29 DEF FindBlob, BlobSize
  <2>3. UNCHANGED <<liveVars, spool, artVars, clockVars, execVars, spc, crashes>>
    BY <1>29 DEF FindBlob, readFrame
  <2>4. misread' \in [Readers -> BOOLEAN] /\ faults' \in 0 .. MaxFaults
    BY <1>29
    DEF FindBlob, GoOn, Refuse, RefuseOnError, FailOnError, Fault, NoFault
  <2> QED
    BY <2>1, <2>2, <2>3, <2>4 DEF liveVars, artVars, clockVars, execVars
<1>30. ASSUME CleanupStaging
      PROVE  TypeOK'
  <2>1. BooleansOK'
    BY <1>30, Zenon
    DEF CleanupStaging, Fault, NoFault, execFrame, artFrame, liveVars,
        clockVars, readerVars, BooleansOK
  <2> QED
    BY <1>30, <2>1
    DEF CleanupStaging, Fault, NoFault, execFrame, Goto, artFrame, liveVars,
        clockVars, readerVars, BooleansOK
<1>21. ASSUME NEW s \in Sweepers, SelectArtifact(s)
      PROVE  TypeOK'
  <2>1. spc' \in [Sweepers -> {"idle", "art_blob", "art_manifest", "live", "live_blob",
                               "live_manifest"}]
    BY <1>21 DEF SelectArtifact, SweepTo
  <2>2. UNCHANGED <<liveVars, artVars, faults, spool, clockVars, execVars, readerVars, crashes>>
    BY <1>21 DEF SelectArtifact, sweepFrame
  <2> QED
    BY <2>1, <2>2 DEF liveVars, artVars, clockVars, execVars, readerVars
<1>22. ASSUME NEW s \in Sweepers, SweepArtifactBlob(s)
      PROVE  TypeOK'
  <2>1. spc' \in [Sweepers -> {"idle", "art_blob", "art_manifest", "live", "live_blob",
                               "live_manifest"}]
    BY <1>22 DEF SweepArtifactBlob, SweepTo
  <2>2. UNCHANGED <<liveVars, artManifest, artStaging, spool, clockVars, execVars, readerVars, crashes>>
    BY <1>22 DEF SweepArtifactBlob, sweepFrame
  <2>3. artBlob' \in BOOLEAN
    BY <1>22, Zenon DEF SweepArtifactBlob
  <2>4. faults' \in 0 .. MaxFaults
    BY <1>22 DEF SweepArtifactBlob, Fault, NoFault
  <2> QED
    BY <2>1, <2>2, <2>3, <2>4 DEF liveVars, artVars, clockVars, execVars, readerVars
<1>23. ASSUME NEW s \in Sweepers, SweepArtifactManifest(s)
      PROVE  TypeOK'
  <2>1. BooleansOK'
    BY <1>23, Zenon
    DEF SweepArtifactManifest, Fault, NoFault, sweepFrame, SweepTo, liveVars, clockVars,
        execVars, readerVars, BooleansOK
  <2> QED
    BY <1>23, <2>1
    DEF SweepArtifactManifest, Fault, NoFault, sweepFrame, SweepTo, liveVars, clockVars,
        execVars, readerVars, BooleansOK
<1>24. ASSUME NEW s \in Sweepers, SelectLive(s)
      PROVE  TypeOK'
  <2>1. spc' \in [Sweepers -> {"idle", "art_blob", "art_manifest", "live", "live_blob",
                               "live_manifest"}]
    BY <1>24 DEF SelectLive, SweepTo
  <2>2. UNCHANGED <<liveVars, artVars, faults, spool, clockVars, execVars, readerVars, crashes>>
    BY <1>24 DEF SelectLive, sweepFrame
  <2> QED
    BY <2>1, <2>2 DEF liveVars, artVars, clockVars, execVars, readerVars
<1>25. ASSUME NEW s \in Sweepers, SweepLiveBlob(s)
      PROVE  TypeOK'
  BY <1>25
  DEF SweepLiveBlob, Fault, NoFault, sweepFrame, SweepTo, artVars, clockVars, execVars,
      readerVars
<1>26. ASSUME NEW s \in Sweepers, SweepLiveManifest(s)
      PROVE  TypeOK'
  BY <1>26
  DEF SweepLiveManifest, Fault, NoFault, sweepFrame, SweepTo, artVars, clockVars,
      execVars, readerVars
<1>27. ASSUME Tick
      PROVE  TypeOK'
  <2>1. BooleansOK'
    BY <1>27, Zenon DEF Tick, liveVars, artVars, execVars, readerVars, BooleansOK
  <2> QED
    BY <1>27, <2>1 DEF Tick, liveVars, artVars, execVars, readerVars, BooleansOK
<1>28. ASSUME UNCHANGED vars
      PROVE  TypeOK'
  BY <1>28 DEF vars, liveVars, artVars, clockVars, execVars, readerVars
<1> QED
  BY <1>1, <1>2, <1>3, <1>4, <1>5, <1>6, <1>7, <1>8, <1>9, <1>10, <1>11, <1>12, <1>13,
     <1>14, <1>15, <1>16, <1>17, <1>18, <1>19, <1>20, <1>21, <1>22, <1>23, <1>24, <1>25,
     <1>26, <1>27, <1>28, <1>29, <1>30
  DEF Next, Executor, read_live_output, sweep_expired

\* Every step of the executor, a poller, a sweep, a crash and the clock keeps Inv.
LEMMA InvNext == Inv /\ [Next]_vars => Inv'
<1> SUFFICES ASSUME Inv, [Next]_vars
             PROVE  Inv'
  OBVIOUS
<1>0. TypeOK /\ TypeOK'
  BY TypeNext DEF Inv
<1> USE OutputAssumption, <1>0
    DEF TypeOK, Records, NoRecord, Running, ExecutorPCs, EarlyPCs, Ended, BlobSize
<1>1. ASSUME begin_live_output
      PROVE  Inv'
  <2> USE <1>1 DEF begin_live_output, Fault, NoFault, execFrame, Goto, artVars,
      clockVars, readerVars, Inv
  <2>1. ExecutorInv'
    BY DEF ExecutorInv
  <2>2. StreamInv'
    BY DEF StreamInv, ExecutorInv, SweepInv, Measured
  <2>3. SweepInv'
    BY DEF SweepInv
  <2>4. ReaderInv'
    BY DEF ReaderInv, StreamInv, ExecutorInv, SweepInv, Measured
  <2>5. ReceiptInv'
    BY DEF ReceiptInv, StreamInv, ExecutorInv, SweepInv
  <2>6. PollsTruthful'
    BY DEF PollsTruthful, TerminalMeansComplete, NoFalseAlarm,
        FoundUntilExpired, ReaderInv, StreamInv, ExecutorInv, SweepInv, Measured
  <2>7. ReceiptComplete'
    BY DEF ReceiptComplete, NoSilentDrop, TerminalHadSpool, ReceiptInv, StreamInv,
        ExecutorInv, SweepInv
  <2> QED
    BY <2>1, <2>2, <2>3, <2>4, <2>5, <2>6, <2>7 DEF Inv
<1>2. ASSUME BindTools
      PROVE  Inv'
  <2> USE <1>2 DEF BindTools, Fault, NoFault, execFrame, Goto, Reply, liveVars, artVars,
      clockVars, readerVars, Inv
  <2>1. ExecutorInv'
    BY DEF ExecutorInv
  <2>2. StreamInv'
    BY DEF StreamInv, ExecutorInv, SweepInv, Measured
  <2>3. SweepInv'
    BY DEF SweepInv
  <2>4. ReaderInv'
    BY DEF ReaderInv, StreamInv, ExecutorInv, SweepInv, Measured
  <2>5. ReceiptInv'
    BY DEF ReceiptInv, StreamInv, ExecutorInv, SweepInv
  <2>6. PollsTruthful'
    BY DEF PollsTruthful, TerminalMeansComplete, NoFalseAlarm,
        FoundUntilExpired, ReaderInv, StreamInv, ExecutorInv, SweepInv, Measured
  <2>7. ReceiptComplete'
    BY DEF ReceiptComplete, NoSilentDrop, TerminalHadSpool, ReceiptInv, StreamInv,
        ExecutorInv, SweepInv
  <2> QED
    BY <2>1, <2>2, <2>3, <2>4, <2>5, <2>6, <2>7 DEF Inv
<1>3. ASSUME LaunchCommand
      PROVE  Inv'
  <2> USE <1>3 DEF LaunchCommand, Fault, NoFault, execFrame, Goto, artVars, clockVars,
      readerVars, Inv
  <2>1. ExecutorInv'
    BY DEF ExecutorInv
  <2>2. StreamInv'
    BY DEF StreamInv, ExecutorInv, SweepInv, Measured
  <2>3. SweepInv'
    BY DEF SweepInv
  <2>4. ReaderInv'
    BY DEF ReaderInv, StreamInv, ExecutorInv, SweepInv, Measured
  <2>5. ReceiptInv'
    BY DEF ReceiptInv, StreamInv, ExecutorInv, SweepInv
  <2>6. PollsTruthful'
    BY DEF PollsTruthful, TerminalMeansComplete, NoFalseAlarm,
        FoundUntilExpired, ReaderInv, StreamInv, ExecutorInv, SweepInv, Measured
  <2>7. ReceiptComplete'
    BY DEF ReceiptComplete, NoSilentDrop, TerminalHadSpool, ReceiptInv, StreamInv,
        ExecutorInv, SweepInv
  <2> QED
    BY <2>1, <2>2, <2>3, <2>4, <2>5, <2>6, <2>7 DEF Inv
<1>4. ASSUME AppendOutput
      PROVE  Inv'
  <2> USE <1>4 DEF AppendOutput, execFrame, liveVars, artVars, clockVars, execVars,
      readerVars, Inv
  <2>1. ExecutorInv'
    BY DEF ExecutorInv
  <2>2. StreamInv'
    <3>1. run = "none" /\ ~Ended(manifest) /\ final = NoRecord
      BY DEF ExecutorInv, StreamInv, Measured
    <3>2. ~liveExpired /\ started => blob = "spool"
      BY DEF StreamInv
    <3> QED
      BY <3>1, <3>2 DEF StreamInv
  <2>3. SweepInv'
    BY DEF SweepInv
  <2>4. ReaderInv'
    BY DEF ReaderInv, StreamInv, ExecutorInv, SweepInv, Measured
  <2>5. ReceiptInv'
    BY DEF ReceiptInv, StreamInv, ExecutorInv, SweepInv
  <2>6. PollsTruthful'
    BY DEF PollsTruthful, TerminalMeansComplete, NoFalseAlarm,
        FoundUntilExpired, ReaderInv, StreamInv, ExecutorInv, SweepInv, Measured
  <2>7. ReceiptComplete'
    BY DEF ReceiptComplete, NoSilentDrop, TerminalHadSpool, ReceiptInv, StreamInv,
        ExecutorInv, SweepInv
  <2> QED
    BY <2>1, <2>2, <2>3, <2>4, <2>5, <2>6, <2>7 DEF Inv
<1>5. ASSUME CommandEnds
      PROVE  Inv'
  <2> USE <1>5 DEF CommandEnds, execFrame, Goto, liveVars, artVars, clockVars,
      readerVars, Inv
  <2>1. ExecutorInv'
    BY DEF ExecutorInv
  <2>2. StreamInv'
    BY DEF StreamInv, ExecutorInv, SweepInv, Measured
  <2>3. SweepInv'
    BY DEF SweepInv
  <2>4. ReaderInv'
    BY DEF ReaderInv, StreamInv, ExecutorInv, SweepInv, Measured
  <2>5. ReceiptInv'
    BY DEF ReceiptInv, StreamInv, ExecutorInv, SweepInv
  <2>6. PollsTruthful'
    BY DEF PollsTruthful, TerminalMeansComplete, NoFalseAlarm,
        FoundUntilExpired, ReaderInv, StreamInv, ExecutorInv, SweepInv, Measured
  <2>7. ReceiptComplete'
    BY DEF ReceiptComplete, NoSilentDrop, TerminalHadSpool, ReceiptInv, StreamInv,
        ExecutorInv, SweepInv
  <2> QED
    BY <2>1, <2>2, <2>3, <2>4, <2>5, <2>6, <2>7 DEF Inv
<1>6. ASSUME CaptureOutput
      PROVE  Inv'
  <2> USE <1>6 DEF CaptureOutput, Fault, NoFault, execFrame, Goto, liveVars, artVars,
      clockVars, readerVars, Inv
  <2>1. ExecutorInv'
    BY DEF ExecutorInv
  <2>2. StreamInv'
    BY DEF StreamInv, ExecutorInv, SweepInv, Measured
  <2>3. SweepInv'
    BY DEF SweepInv
  <2>4. ReaderInv'
    BY DEF ReaderInv, StreamInv, ExecutorInv, SweepInv, Measured
  <2>5. ReceiptInv'
    BY DEF ReceiptInv, StreamInv, ExecutorInv, SweepInv
  <2>6. PollsTruthful'
    BY DEF PollsTruthful, TerminalMeansComplete, NoFalseAlarm,
        FoundUntilExpired, ReaderInv, StreamInv, ExecutorInv, SweepInv, Measured
  <2>7. ReceiptComplete'
    BY DEF ReceiptComplete, NoSilentDrop, TerminalHadSpool, ReceiptInv, StreamInv,
        ExecutorInv, SweepInv
  <2> QED
    BY <2>1, <2>2, <2>3, <2>4, <2>5, <2>6, <2>7 DEF Inv
<1>7. ASSUME FinalizeBlob
      PROVE  Inv'
  <2> USE <1>7 DEF FinalizeBlob, Fault, NoFault, execFrame, Goto, artVars, clockVars,
      readerVars, Inv
  <2>1. ExecutorInv'
    BY DEF ExecutorInv
  <2>2. StreamInv'
    BY DEF StreamInv, ExecutorInv, SweepInv, Measured
  <2>3. SweepInv'
    BY DEF SweepInv
  <2>4. ReaderInv'
    BY DEF ReaderInv, StreamInv, ExecutorInv, SweepInv, Measured
  <2>5. ReceiptInv'
    BY DEF ReceiptInv, StreamInv, ExecutorInv, SweepInv
  <2>6. PollsTruthful'
    BY DEF PollsTruthful, TerminalMeansComplete, NoFalseAlarm,
        FoundUntilExpired, ReaderInv, StreamInv, ExecutorInv, SweepInv, Measured
  <2>7. ReceiptComplete'
    BY DEF ReceiptComplete, NoSilentDrop, TerminalHadSpool, ReceiptInv, StreamInv,
        ExecutorInv, SweepInv
  <2> QED
    BY <2>1, <2>2, <2>3, <2>4, <2>5, <2>6, <2>7 DEF Inv
<1>8. ASSUME MeasureBlob
      PROVE  Inv'
  <2> USE <1>8 DEF MeasureBlob, Fault, NoFault, execFrame, Goto, liveVars, artVars,
      clockVars, readerVars, Inv
  <2>1. ExecutorInv'
    BY DEF ExecutorInv
  <2>2. StreamInv'
    BY DEF StreamInv, ExecutorInv, SweepInv, Measured
  <2>3. SweepInv'
    BY DEF SweepInv
  <2>4. ReaderInv'
    BY DEF ReaderInv, StreamInv, ExecutorInv, SweepInv, Measured
  <2>5. ReceiptInv'
    BY DEF ReceiptInv, StreamInv, ExecutorInv, SweepInv
  <2>6. PollsTruthful'
    BY DEF PollsTruthful, TerminalMeansComplete, NoFalseAlarm,
        FoundUntilExpired, ReaderInv, StreamInv, ExecutorInv, SweepInv, Measured
  <2>7. ReceiptComplete'
    BY DEF ReceiptComplete, NoSilentDrop, TerminalHadSpool, ReceiptInv, StreamInv,
        ExecutorInv, SweepInv
  <2> QED
    BY <2>1, <2>2, <2>3, <2>4, <2>5, <2>6, <2>7 DEF Inv
<1>9. ASSUME ReplaceManifest
      PROVE  Inv'
  <2> USE <1>9 DEF ReplaceManifest, Fault, NoFault, execFrame, Goto, artVars, clockVars,
      readerVars, Inv
  <2>1. ExecutorInv'
    BY DEF ExecutorInv
  <2>2. StreamInv'
    BY DEF StreamInv, ExecutorInv, SweepInv, Measured
  <2>3. SweepInv'
    BY DEF SweepInv
  <2>4. ReaderInv'
    BY DEF ReaderInv, StreamInv, ExecutorInv, SweepInv, Measured
  <2>5. ReceiptInv'
    BY DEF ReceiptInv, StreamInv, ExecutorInv, SweepInv
  <2>6. PollsTruthful'
    BY DEF PollsTruthful, TerminalMeansComplete, NoFalseAlarm,
        FoundUntilExpired, ReaderInv, StreamInv, ExecutorInv, SweepInv, Measured
  <2>7. ReceiptComplete'
    BY DEF ReceiptComplete, NoSilentDrop, TerminalHadSpool, ReceiptInv, StreamInv,
        ExecutorInv, SweepInv
  <2> QED
    BY <2>1, <2>2, <2>3, <2>4, <2>5, <2>6, <2>7 DEF Inv
<1>10. ASSUME SyncManifest
      PROVE  Inv'
  <2> USE <1>10 DEF SyncManifest, Fault, NoFault, execFrame, Goto, liveVars, artVars,
      clockVars, readerVars, Inv
  <2>1. ExecutorInv'
    BY DEF ExecutorInv
  <2>2. StreamInv'
    BY DEF StreamInv, ExecutorInv, SweepInv, Measured
  <2>3. SweepInv'
    BY DEF SweepInv
  <2>4. ReaderInv'
    BY DEF ReaderInv, StreamInv, ExecutorInv, SweepInv, Measured
  <2>5. ReceiptInv'
    BY DEF ReceiptInv, StreamInv, ExecutorInv, SweepInv
  <2>6. PollsTruthful'
    BY DEF PollsTruthful, TerminalMeansComplete, NoFalseAlarm,
        FoundUntilExpired, ReaderInv, StreamInv, ExecutorInv, SweepInv, Measured
  <2>7. ReceiptComplete'
    BY DEF ReceiptComplete, NoSilentDrop, TerminalHadSpool, ReceiptInv, StreamInv,
        ExecutorInv, SweepInv
  <2> QED
    BY <2>1, <2>2, <2>3, <2>4, <2>5, <2>6, <2>7 DEF Inv
<1>11. ASSUME VerifyOutput
      PROVE  Inv'
  <2> USE <1>11 DEF VerifyOutput, Fault, NoFault, execFrame, Goto, Reply, SpoolVerified,
      output_artifact_required, liveVars, artVars, clockVars, readerVars, Inv
  <2>1. ExecutorInv'
    BY DEF ExecutorInv
  <2>2. StreamInv'
    BY DEF StreamInv, ExecutorInv, SweepInv, Measured
  <2>3. SweepInv'
    BY DEF SweepInv
  <2>4. ReaderInv'
    BY DEF ReaderInv, StreamInv, ExecutorInv, SweepInv, Measured
  <2>5. ReceiptInv'
    BY DEF ReceiptInv, StreamInv, ExecutorInv, SweepInv
  <2>6. PollsTruthful'
    BY DEF PollsTruthful, TerminalMeansComplete, NoFalseAlarm,
        FoundUntilExpired, ReaderInv, StreamInv, ExecutorInv, SweepInv, Measured
  <2>7. ReceiptComplete'
    BY DEF ReceiptComplete, NoSilentDrop, TerminalHadSpool, ReceiptInv, StreamInv,
        ExecutorInv, SweepInv
  <2> QED
    BY <2>1, <2>2, <2>3, <2>4, <2>5, <2>6, <2>7 DEF Inv
<1>12. ASSUME StageArtifact
      PROVE  Inv'
  <2> USE <1>12 DEF StageArtifact, Fault, NoFault, execFrame, Goto, artFrame, liveVars,
      clockVars, readerVars, Inv
  <2>1. ExecutorInv'
    BY DEF ExecutorInv
  <2>2. StreamInv'
    BY DEF StreamInv, ExecutorInv, SweepInv, Measured
  <2>3. SweepInv'
    BY DEF SweepInv
  <2>4. ReaderInv'
    BY DEF ReaderInv, StreamInv, ExecutorInv, SweepInv, Measured
  <2>5. ReceiptInv'
    BY DEF ReceiptInv, StreamInv, ExecutorInv, SweepInv
  <2>6. PollsTruthful'
    BY DEF PollsTruthful, TerminalMeansComplete, NoFalseAlarm,
        FoundUntilExpired, ReaderInv, StreamInv, ExecutorInv, SweepInv, Measured
  <2>7. ReceiptComplete'
    BY DEF ReceiptComplete, NoSilentDrop, TerminalHadSpool, ReceiptInv, StreamInv,
        ExecutorInv, SweepInv
  <2> QED
    BY <2>1, <2>2, <2>3, <2>4, <2>5, <2>6, <2>7 DEF Inv
<1>13. ASSUME PublishBlob
      PROVE  Inv'
  <2> USE <1>13 DEF PublishBlob, Fault, NoFault, execFrame, Goto, artFrame, liveVars,
      clockVars, readerVars, Inv
  <2>1. ExecutorInv'
    BY DEF ExecutorInv
  <2>2. StreamInv'
    BY DEF StreamInv, ExecutorInv, SweepInv, Measured
  <2>3. SweepInv'
    BY DEF SweepInv
  <2>4. ReaderInv'
    BY DEF ReaderInv, StreamInv, ExecutorInv, SweepInv, Measured
  <2>5. ReceiptInv'
    BY DEF ReceiptInv, StreamInv, ExecutorInv, SweepInv
  <2>6. PollsTruthful'
    BY DEF PollsTruthful, TerminalMeansComplete, NoFalseAlarm,
        FoundUntilExpired, ReaderInv, StreamInv, ExecutorInv, SweepInv, Measured
  <2>7. ReceiptComplete'
    BY DEF ReceiptComplete, NoSilentDrop, TerminalHadSpool, ReceiptInv, StreamInv,
        ExecutorInv, SweepInv
  <2> QED
    BY <2>1, <2>2, <2>3, <2>4, <2>5, <2>6, <2>7 DEF Inv
<1>14. ASSUME PublishManifest
      PROVE  Inv'
  <2> USE <1>14 DEF PublishManifest, Fault, NoFault, execFrame, Goto, Reply, artFrame,
      liveVars, clockVars, readerVars, Inv
  <2>1. ExecutorInv'
    BY DEF ExecutorInv
  <2>2. StreamInv'
    BY DEF StreamInv, ExecutorInv, SweepInv, Measured
  <2>3. SweepInv'
    BY DEF SweepInv
  <2>4. ReaderInv'
    BY DEF ReaderInv, StreamInv, ExecutorInv, SweepInv, Measured
  <2>5. ReceiptInv'
    BY DEF ReceiptInv, StreamInv, ExecutorInv, SweepInv
  <2>6. PollsTruthful'
    BY DEF PollsTruthful, TerminalMeansComplete, NoFalseAlarm,
        FoundUntilExpired, ReaderInv, StreamInv, ExecutorInv, SweepInv, Measured
  <2>7. ReceiptComplete'
    BY DEF ReceiptComplete, NoSilentDrop, TerminalHadSpool, ReceiptInv, StreamInv,
        ExecutorInv, SweepInv
  <2> QED
    BY <2>1, <2>2, <2>3, <2>4, <2>5, <2>6, <2>7 DEF Inv
<1>15. ASSUME CleanupArtifact
      PROVE  Inv'
  <2> USE <1>15 DEF CleanupArtifact, Fault, NoFault, execFrame, Reply, artFrame,
      liveVars, clockVars, readerVars, Inv
  <2>1. ExecutorInv'
    BY DEF ExecutorInv
  <2>2. StreamInv'
    BY DEF StreamInv, ExecutorInv, SweepInv, Measured
  <2>3. SweepInv'
    BY DEF SweepInv
  <2>4. ReaderInv'
    BY DEF ReaderInv, StreamInv, ExecutorInv, SweepInv, Measured
  <2>5. ReceiptInv'
    BY DEF ReceiptInv, StreamInv, ExecutorInv, SweepInv
  <2>6. PollsTruthful'
    BY DEF PollsTruthful, TerminalMeansComplete, NoFalseAlarm,
        FoundUntilExpired, ReaderInv, StreamInv, ExecutorInv, SweepInv, Measured
  <2>7. ReceiptComplete'
    BY DEF ReceiptComplete, NoSilentDrop, TerminalHadSpool, ReceiptInv, StreamInv,
        ExecutorInv, SweepInv
  <2> QED
    BY <2>1, <2>2, <2>3, <2>4, <2>5, <2>6, <2>7 DEF Inv
<1>16. ASSUME CrashExecutor
      PROVE  Inv'
  <2> USE <1>16 DEF CrashExecutor, Goto, liveVars, artVars, clockVars, readerVars, Inv
  <2>1. ExecutorInv'
    BY DEF ExecutorInv
  <2>2. StreamInv'
    BY DEF StreamInv, ExecutorInv, SweepInv, Measured
  <2>3. SweepInv'
    BY DEF SweepInv
  <2>4. ReaderInv'
    BY DEF ReaderInv, StreamInv, ExecutorInv, SweepInv, Measured
  <2>5. ReceiptInv'
    BY DEF ReceiptInv, StreamInv, ExecutorInv, SweepInv
  <2>6. PollsTruthful'
    BY DEF PollsTruthful, TerminalMeansComplete, NoFalseAlarm,
        FoundUntilExpired, ReaderInv, StreamInv, ExecutorInv, SweepInv, Measured
  <2>7. ReceiptComplete'
    BY DEF ReceiptComplete, NoSilentDrop, TerminalHadSpool, ReceiptInv, StreamInv,
        ExecutorInv, SweepInv
  <2> QED
    BY <2>1, <2>2, <2>3, <2>4, <2>5, <2>6, <2>7 DEF Inv
<1>17. ASSUME NEW r \in Readers, ReadManifest(r)
      PROVE  Inv'
  <2> USE <1>17 DEF ReadManifest, readFrame, Answer, GoOn, Refuse, RefuseOnError,
      FailOnError, Fault, NoFault, liveVars, artVars, clockVars, execVars, Inv
  <2>1. ExecutorInv'
    BY DEF ExecutorInv
  <2>2. StreamInv'
    BY DEF StreamInv, ExecutorInv, SweepInv, Measured
  <2>3. SweepInv'
    BY DEF SweepInv
  <2>4. ReaderInv'
    BY DEF ReaderInv, StreamInv, ExecutorInv, SweepInv, Measured
  <2>5. ReceiptInv'
    BY DEF ReceiptInv, StreamInv, ExecutorInv, SweepInv
  <2>6. PollsTruthful'
    <3>1. /\ answer[r] = "none" /\ answer'[r] # "terminal" /\ UNCHANGED offset
          /\ \A q \in Readers \ {r} : UNCHANGED <<rpc[q], answer[q], misread[q]>>
      BY DEF ReaderInv
    <3>2. rrecord'[r] = rrecord[r] \/ answer'[r] = "none"
      BY <3>1
    <3>3. \A q \in Readers \ {r} : rrecord'[q] = rrecord[q]
      OBVIOUS
    <3>4. \/ answer'[r] = "none"
          \/ answer'[r] = "unavailable" /\ manifest = NoRecord
          \/ liveExpired
          \/ misread'[r]
      <4>1. \/ UNCHANGED answer
            \/ manifest = NoRecord /\ Refuse(r, "unavailable")
            \/ RefuseOnError(r, "unavailable")
            \/ liveExpired
        BY ONLY <1>17, Zenon DEF ReadManifest, GoOn
      <4>2. CASE RefuseOnError(r, "unavailable")
        <5>1. misread' = [misread EXCEPT ![r] = TRUE]
          BY ONLY <4>2, Zenon DEF RefuseOnError
        <5>2. misread \in [Readers -> BOOLEAN]
          BY <1>0 DEF TypeOK
        <5> QED
          BY ONLY <5>1, <5>2, r \in Readers, Zenon
      <4>3. CASE manifest = NoRecord /\ Refuse(r, "unavailable")
        BY <4>3 DEF Refuse, Answer
      <4> QED
        BY <3>1, <4>1, <4>2, <4>3, Zenon
    <3>5. rrecord[r] # NoRecord /\ manifest = NoRecord => liveExpired
      BY DEF ReaderInv
    <3>6. UNCHANGED <<run, spool, started, manifest, liveExpired>>
      OBVIOUS
    <3> HIDE <1>17 DEF ReadManifest
    <3>7. TerminalMeansComplete'
      BY <3>1, <3>6 DEF PollsTruthful, TerminalMeansComplete
    <3>8. FoundUntilExpired'
      BY <3>6 DEF PollsTruthful, FoundUntilExpired
    <3>9. NoFalseAlarm'
      BY <3>1, <3>2, <3>3, <3>4, <3>5, <3>6 DEF PollsTruthful, NoFalseAlarm
    <3> QED
      BY <3>7, <3>8, <3>9 DEF PollsTruthful
  <2>7. ReceiptComplete'
    BY DEF ReceiptComplete, NoSilentDrop, TerminalHadSpool, ReceiptInv, StreamInv,
        ExecutorInv, SweepInv
  <2> QED
    BY <2>1, <2>2, <2>3, <2>4, <2>5, <2>6, <2>7 DEF Inv
<1>18. ASSUME NEW r \in Readers, StatBlob(r)
      PROVE  Inv'
  <2> USE <1>18 DEF StatBlob, readFrame, Answer, GoOn, Refuse, RefuseOnError,
      FailOnError, Fault, NoFault, liveVars, artVars, clockVars, execVars, Inv
  <2>1. ExecutorInv'
    BY DEF ExecutorInv
  <2>2. StreamInv'
    BY DEF StreamInv, ExecutorInv, SweepInv, Measured
  <2>3. SweepInv'
    BY DEF SweepInv
  <2>4. ReaderInv'
    BY DEF ReaderInv, StreamInv, ExecutorInv, SweepInv, Measured
  <2>5. ReceiptInv'
    BY DEF ReceiptInv, StreamInv, ExecutorInv, SweepInv
  <2>6. PollsTruthful'
    BY DEF PollsTruthful, TerminalMeansComplete, NoFalseAlarm,
        FoundUntilExpired, ReaderInv, StreamInv, ExecutorInv, SweepInv, Measured
  <2>7. ReceiptComplete'
    BY DEF ReceiptComplete, NoSilentDrop, TerminalHadSpool, ReceiptInv, StreamInv,
        ExecutorInv, SweepInv
  <2> QED
    BY <2>1, <2>2, <2>3, <2>4, <2>5, <2>6, <2>7 DEF Inv
<1>19. ASSUME NEW r \in Readers, CheckTerminal(r)
      PROVE  Inv'
  <2> USE <1>19 DEF CheckTerminal, readFrame, Answer, GoOn, Refuse, RefuseOnError,
      FailOnError, Fault, NoFault, liveVars, artVars, clockVars, execVars, Inv
  <2>1. ExecutorInv'
    BY DEF ExecutorInv
  <2>2. StreamInv'
    BY DEF StreamInv, ExecutorInv, SweepInv, Measured
  <2>3. SweepInv'
    BY DEF SweepInv
  <2>4. ReaderInv'
    BY DEF ReaderInv, StreamInv, ExecutorInv, SweepInv, Measured
  <2>5. ReceiptInv'
    BY DEF ReceiptInv, StreamInv, ExecutorInv, SweepInv
  <2>6. PollsTruthful'
    BY DEF PollsTruthful, TerminalMeansComplete, NoFalseAlarm,
        FoundUntilExpired, ReaderInv, StreamInv, ExecutorInv, SweepInv, Measured
  <2>7. ReceiptComplete'
    BY DEF ReceiptComplete, NoSilentDrop, TerminalHadSpool, ReceiptInv, StreamInv,
        ExecutorInv, SweepInv
  <2> QED
    BY <2>1, <2>2, <2>3, <2>4, <2>5, <2>6, <2>7 DEF Inv
<1>29. ASSUME NEW r \in Readers, FindBlob(r)
      PROVE  Inv'
  <2> USE <1>29 DEF FindBlob, readFrame, Answer, GoOn, Refuse, RefuseOnError,
      FailOnError, Fault, NoFault, liveVars, artVars, clockVars, execVars, Inv
  <2>1. ExecutorInv'
    BY DEF ExecutorInv
  <2>2. StreamInv'
    BY DEF StreamInv, ExecutorInv, SweepInv, Measured
  <2>3. SweepInv'
    BY DEF SweepInv
  <2>4. ReaderInv'
    BY DEF ReaderInv, StreamInv, ExecutorInv, SweepInv, Measured
  <2>5. ReceiptInv'
    BY DEF ReceiptInv, StreamInv, ExecutorInv, SweepInv
  <2>6. PollsTruthful'
    BY DEF PollsTruthful, TerminalMeansComplete, NoFalseAlarm,
        FoundUntilExpired, ReaderInv, StreamInv, ExecutorInv, SweepInv, Measured
  <2>7. ReceiptComplete'
    BY DEF ReceiptComplete, NoSilentDrop, TerminalHadSpool, ReceiptInv, StreamInv,
        ExecutorInv, SweepInv
  <2> QED
    BY <2>1, <2>2, <2>3, <2>4, <2>5, <2>6, <2>7 DEF Inv
<1>30. ASSUME CleanupStaging
      PROVE  Inv'
  <2> USE <1>30 DEF CleanupStaging, Fault, NoFault, execFrame, Goto, artFrame,
      liveVars, clockVars, readerVars, Inv
  <2>1. ExecutorInv'
    BY DEF ExecutorInv
  <2>2. StreamInv'
    BY DEF StreamInv, ExecutorInv, SweepInv, Measured
  <2>3. SweepInv'
    BY DEF SweepInv
  <2>4. ReaderInv'
    BY DEF ReaderInv, StreamInv, ExecutorInv, SweepInv, Measured
  <2>5. ReceiptInv'
    BY DEF ReceiptInv, StreamInv, ExecutorInv, SweepInv
  <2>6. PollsTruthful'
    BY DEF PollsTruthful, TerminalMeansComplete, NoFalseAlarm,
        FoundUntilExpired, ReaderInv, StreamInv, ExecutorInv, SweepInv, Measured
  <2>7. ReceiptComplete'
    BY DEF ReceiptComplete, NoSilentDrop, TerminalHadSpool, ReceiptInv, StreamInv,
        ExecutorInv, SweepInv
  <2> QED
    BY <2>1, <2>2, <2>3, <2>4, <2>5, <2>6, <2>7 DEF Inv
<1>20. ASSUME NEW r \in Readers, ReadChunk(r)
      PROVE  Inv'
  <2> USE <1>20 DEF ReadChunk, GoOn, FailOnError, readFrame, Fault, NoFault, liveVars,
      artVars, clockVars, execVars, Inv
  <2>1. ExecutorInv'
    BY DEF ExecutorInv
  <2>2. StreamInv'
    BY DEF StreamInv, ExecutorInv, SweepInv, Measured
  <2>3. SweepInv'
    BY DEF SweepInv
  <2>4. ReaderInv'
    <3> DEFINE left == available[r] - offset[r]
               next == offset[r] + IF left < ChunkBytes THEN left ELSE ChunkBytes
    <3>1. offset[r] <= available[r] /\ next \in Nat /\ next <= available[r]
      BY DEF ReaderInv
    <3>2. /\ rpc'[r] \in {"idle", "done"} /\ offset'[r] \in {offset[r], next}
          /\ \A q \in Readers \ {r} : UNCHANGED <<rpc[q], offset[q], answer[q]>>
          /\ UNCHANGED <<rrecord, available, misread>>
      OBVIOUS
    <3>3. answer'[r] # answer[r] => rpc'[r] = "done"
      OBVIOUS
    <3>4. answer[r] = "none" /\ offset'[r] <= available[r]
      BY <3>1, <3>2 DEF ReaderInv
    <3>5. UNCHANGED <<liveExpired, BlobSize, Measured, spool, manifest, blob>>
      BY DEF BlobSize, Measured
    <3> HIDE <1>20 DEF next, left, ReadChunk
    <3>6. ASSUME NEW q \in Readers
          PROVE  /\ ~liveExpired' => offset'[q] <= BlobSize' /\ available'[q] <= BlobSize'
                 /\ answer'[q] # "none" => rpc'[q] = "done"
                 /\ rpc'[q] \in {"check", "read"} => offset'[q] <= available'[q]
                 /\ rrecord'[q] # NoRecord /\ manifest' = NoRecord => liveExpired'
                 /\ rpc'[q] \in {"find", "stat", "check", "read"} =>
                      rrecord'[q] # NoRecord
                 /\ rpc'[q] = "stat" /\ ~liveExpired' => blob' # "none"
      <4>1. CASE q = r
        <5>1. ~liveExpired => available[r] <= BlobSize
          BY DEF ReaderInv
        <5>2. BlobSize \in Int /\ offset'[r] \in Int /\ available[r] \in Int
          BY <3>1, <3>2, OutputAssumption DEF BlobSize, TypeOK
        <5> QED
          BY <4>1, <5>1, <5>2, <3>2, <3>3, <3>4, <3>5 DEF ReaderInv
      <4>2. CASE q # r
        BY <4>2, <3>2, <3>5 DEF ReaderInv
      <4> QED
        BY <4>1, <4>2
    <3>7. ASSUME NEW q \in Readers, rpc'[q] \in {"find", "stat", "check", "read"},
                 rrecord'[q].status # "running"
          PROVE  /\ Measured' /\ rrecord'[q].size = spool'
                 /\ rpc'[q] = "read" \/ (rpc'[q] = "check" /\ ~liveExpired') =>
                      available'[q] = spool'
      BY <3>7, <3>2, <3>5 DEF ReaderInv
    <3> QED
      BY <3>6, <3>7, Zenon DEF ReaderInv
  <2>5. ReceiptInv'
    BY DEF ReceiptInv, StreamInv, ExecutorInv, SweepInv
  <2>6. PollsTruthful'
    <3> DEFINE left == available[r] - offset[r]
               next == offset[r] + IF left < ChunkBytes THEN left ELSE ChunkBytes
    <3>1. offset[r] <= available[r] /\ next \in Nat /\ next <= available[r]
      BY DEF ReaderInv
    <3>2. /\ rpc'[r] \in {"idle", "done"} /\ offset'[r] \in {offset[r], next}
          /\ \A q \in Readers \ {r} : UNCHANGED <<rpc[q], offset[q], answer[q]>>
          /\ UNCHANGED <<rrecord, available, misread>>
      OBVIOUS
    <3>3. answer'[r] # answer[r] =>
            /\ answer'[r] = "terminal" /\ rrecord[r].status # "running"
            /\ offset'[r] = available[r]
      OBVIOUS
    <3>4. answer[r] = "none"
      BY DEF ReaderInv
    <3>5. rrecord[r].status # "running" => available[r] = spool /\ run # "none"
      BY DEF ReaderInv, Measured
    <3> HIDE DEF next, left
    <3>6. TerminalMeansComplete'
      BY <3>2, <3>3, <3>4, <3>5 DEF PollsTruthful, TerminalMeansComplete
    <3>7. NoFalseAlarm'
      BY <3>2, <3>3 DEF PollsTruthful, NoFalseAlarm
    <3>8. FoundUntilExpired'
      BY DEF PollsTruthful, FoundUntilExpired
    <3> QED
      BY <3>6, <3>7, <3>8 DEF PollsTruthful
  <2>7. ReceiptComplete'
    BY DEF ReceiptComplete, NoSilentDrop, TerminalHadSpool, ReceiptInv, StreamInv,
        ExecutorInv, SweepInv
  <2> QED
    BY <2>1, <2>2, <2>3, <2>4, <2>5, <2>6, <2>7 DEF Inv
<1>21. ASSUME NEW s \in Sweepers, SelectArtifact(s)
      PROVE  Inv'
  <2> USE <1>21 DEF SelectArtifact, sweepFrame, SweepTo, liveVars, artVars, clockVars,
      execVars, readerVars, Inv
  <2>1. ExecutorInv'
    BY DEF ExecutorInv
  <2>2. StreamInv'
    BY DEF StreamInv, ExecutorInv, SweepInv, Measured
  <2>3. SweepInv'
    BY DEF SweepInv
  <2>4. ReaderInv'
    BY DEF ReaderInv, StreamInv, ExecutorInv, SweepInv, Measured
  <2>5. ReceiptInv'
    BY DEF ReceiptInv, StreamInv, ExecutorInv, SweepInv
  <2>6. PollsTruthful'
    BY DEF PollsTruthful, TerminalMeansComplete, NoFalseAlarm,
        FoundUntilExpired, ReaderInv, StreamInv, ExecutorInv, SweepInv, Measured
  <2>7. ReceiptComplete'
    BY DEF ReceiptComplete, NoSilentDrop, TerminalHadSpool, ReceiptInv, StreamInv,
        ExecutorInv, SweepInv
  <2> QED
    BY <2>1, <2>2, <2>3, <2>4, <2>5, <2>6, <2>7 DEF Inv
<1>22. ASSUME NEW s \in Sweepers, SweepArtifactBlob(s)
      PROVE  Inv'
  <2> USE <1>22 DEF SweepArtifactBlob, Fault, NoFault, sweepFrame, SweepTo, liveVars,
      clockVars, execVars, readerVars, Inv
  <2>1. ExecutorInv'
    BY DEF ExecutorInv
  <2>2. StreamInv'
    BY DEF StreamInv, ExecutorInv, SweepInv, Measured
  <2>3. SweepInv'
    BY DEF SweepInv
  <2>4. ReaderInv'
    BY DEF ReaderInv, StreamInv, ExecutorInv, SweepInv, Measured
  <2>5. ReceiptInv'
    BY DEF ReceiptInv, StreamInv, ExecutorInv, SweepInv
  <2>6. PollsTruthful'
    BY DEF PollsTruthful, TerminalMeansComplete, NoFalseAlarm,
        FoundUntilExpired, ReaderInv, StreamInv, ExecutorInv, SweepInv, Measured
  <2>7. ReceiptComplete'
    BY DEF ReceiptComplete, NoSilentDrop, TerminalHadSpool, ReceiptInv, StreamInv,
        ExecutorInv, SweepInv
  <2> QED
    BY <2>1, <2>2, <2>3, <2>4, <2>5, <2>6, <2>7 DEF Inv
<1>23. ASSUME NEW s \in Sweepers, SweepArtifactManifest(s)
      PROVE  Inv'
  <2> USE <1>23 DEF SweepArtifactManifest, Fault, NoFault, sweepFrame, SweepTo,
      liveVars, clockVars, execVars, readerVars, Inv
  <2>1. ExecutorInv'
    BY DEF ExecutorInv
  <2>2. StreamInv'
    BY DEF StreamInv, ExecutorInv, SweepInv, Measured
  <2>3. SweepInv'
    BY DEF SweepInv
  <2>4. ReaderInv'
    BY DEF ReaderInv, StreamInv, ExecutorInv, SweepInv, Measured
  <2>5. ReceiptInv'
    BY DEF ReceiptInv, StreamInv, ExecutorInv, SweepInv
  <2>6. PollsTruthful'
    BY DEF PollsTruthful, TerminalMeansComplete, NoFalseAlarm,
        FoundUntilExpired, ReaderInv, StreamInv, ExecutorInv, SweepInv, Measured
  <2>7. ReceiptComplete'
    BY DEF ReceiptComplete, NoSilentDrop, TerminalHadSpool, ReceiptInv, StreamInv,
        ExecutorInv, SweepInv
  <2> QED
    BY <2>1, <2>2, <2>3, <2>4, <2>5, <2>6, <2>7 DEF Inv
<1>24. ASSUME NEW s \in Sweepers, SelectLive(s)
      PROVE  Inv'
  <2> USE <1>24 DEF SelectLive, sweepFrame, SweepTo, liveVars, artVars, clockVars,
      execVars, readerVars, Inv
  <2>1. ExecutorInv'
    BY DEF ExecutorInv
  <2>2. StreamInv'
    BY DEF StreamInv, ExecutorInv, SweepInv, Measured
  <2>3. SweepInv'
    BY DEF SweepInv
  <2>4. ReaderInv'
    BY DEF ReaderInv, StreamInv, ExecutorInv, SweepInv, Measured
  <2>5. ReceiptInv'
    BY DEF ReceiptInv, StreamInv, ExecutorInv, SweepInv
  <2>6. PollsTruthful'
    BY DEF PollsTruthful, TerminalMeansComplete, NoFalseAlarm,
        FoundUntilExpired, ReaderInv, StreamInv, ExecutorInv, SweepInv, Measured
  <2>7. ReceiptComplete'
    BY DEF ReceiptComplete, NoSilentDrop, TerminalHadSpool, ReceiptInv, StreamInv,
        ExecutorInv, SweepInv
  <2> QED
    BY <2>1, <2>2, <2>3, <2>4, <2>5, <2>6, <2>7 DEF Inv
<1>25. ASSUME NEW s \in Sweepers, SweepLiveBlob(s)
      PROVE  Inv'
  <2> USE <1>25 DEF SweepLiveBlob, Fault, NoFault, sweepFrame, SweepTo, artVars,
      clockVars, execVars, readerVars, Inv
  <2>1. ExecutorInv'
    BY DEF ExecutorInv
  <2>2. StreamInv'
    BY DEF StreamInv, ExecutorInv, SweepInv, Measured
  <2>3. SweepInv'
    BY DEF SweepInv
  <2>4. ReaderInv'
    BY DEF ReaderInv, StreamInv, ExecutorInv, SweepInv, Measured
  <2>5. ReceiptInv'
    BY DEF ReceiptInv, StreamInv, ExecutorInv, SweepInv
  <2>6. PollsTruthful'
    BY DEF PollsTruthful, TerminalMeansComplete, NoFalseAlarm,
        FoundUntilExpired, ReaderInv, StreamInv, ExecutorInv, SweepInv, Measured
  <2>7. ReceiptComplete'
    BY DEF ReceiptComplete, NoSilentDrop, TerminalHadSpool, ReceiptInv, StreamInv,
        ExecutorInv, SweepInv
  <2> QED
    BY <2>1, <2>2, <2>3, <2>4, <2>5, <2>6, <2>7 DEF Inv
<1>26. ASSUME NEW s \in Sweepers, SweepLiveManifest(s)
      PROVE  Inv'
  <2> USE <1>26 DEF SweepLiveManifest, Fault, NoFault, sweepFrame, SweepTo, artVars,
      clockVars, execVars, readerVars, Inv
  <2>1. ExecutorInv'
    BY DEF ExecutorInv
  <2>2. StreamInv'
    BY DEF StreamInv, ExecutorInv, SweepInv, Measured
  <2>3. SweepInv'
    BY DEF SweepInv
  <2>4. ReaderInv'
    BY DEF ReaderInv, StreamInv, ExecutorInv, SweepInv, Measured
  <2>5. ReceiptInv'
    BY DEF ReceiptInv, StreamInv, ExecutorInv, SweepInv
  <2>6. PollsTruthful'
    BY DEF PollsTruthful, TerminalMeansComplete, NoFalseAlarm,
        FoundUntilExpired, ReaderInv, StreamInv, ExecutorInv, SweepInv, Measured
  <2>7. ReceiptComplete'
    BY DEF ReceiptComplete, NoSilentDrop, TerminalHadSpool, ReceiptInv, StreamInv,
        ExecutorInv, SweepInv
  <2> QED
    BY <2>1, <2>2, <2>3, <2>4, <2>5, <2>6, <2>7 DEF Inv
<1>27. ASSUME Tick
      PROVE  Inv'
  <2> USE <1>27 DEF Tick, liveVars, artVars, execVars, readerVars, Inv
  <2>1. ExecutorInv'
    BY DEF ExecutorInv
  <2>2. StreamInv'
    BY DEF StreamInv, ExecutorInv, SweepInv, Measured
  <2>3. SweepInv'
    BY DEF SweepInv
  <2>4. ReaderInv'
    BY DEF ReaderInv, StreamInv, ExecutorInv, SweepInv, Measured
  <2>5. ReceiptInv'
    BY DEF ReceiptInv, StreamInv, ExecutorInv, SweepInv
  <2>6. PollsTruthful'
    BY DEF PollsTruthful, TerminalMeansComplete, NoFalseAlarm,
        FoundUntilExpired, ReaderInv, StreamInv, ExecutorInv, SweepInv, Measured
  <2>7. ReceiptComplete'
    BY DEF ReceiptComplete, NoSilentDrop, TerminalHadSpool, ReceiptInv, StreamInv,
        ExecutorInv, SweepInv
  <2> QED
    BY <2>1, <2>2, <2>3, <2>4, <2>5, <2>6, <2>7 DEF Inv
<1>28. ASSUME UNCHANGED vars
      PROVE  Inv'
  <2> USE <1>28 DEF vars, liveVars, artVars, clockVars, execVars, readerVars, Inv
  <2>1. ExecutorInv'
    BY DEF ExecutorInv
  <2>2. StreamInv'
    BY DEF StreamInv, ExecutorInv, SweepInv, Measured
  <2>3. SweepInv'
    BY DEF SweepInv
  <2>4. ReaderInv'
    BY DEF ReaderInv, StreamInv, ExecutorInv, SweepInv, Measured
  <2>5. ReceiptInv'
    BY DEF ReceiptInv, StreamInv, ExecutorInv, SweepInv
  <2>6. PollsTruthful'
    BY DEF PollsTruthful, TerminalMeansComplete, NoFalseAlarm,
        FoundUntilExpired, ReaderInv, StreamInv, ExecutorInv, SweepInv, Measured
  <2>7. ReceiptComplete'
    BY DEF ReceiptComplete, NoSilentDrop, TerminalHadSpool, ReceiptInv, StreamInv,
        ExecutorInv, SweepInv
  <2> QED
    BY <2>1, <2>2, <2>3, <2>4, <2>5, <2>6, <2>7 DEF Inv
<1> QED
  BY <1>1, <1>2, <1>3, <1>4, <1>5, <1>6, <1>7, <1>8, <1>9, <1>10, <1>11, <1>12, <1>13,
     <1>14, <1>15, <1>16, <1>17, <1>18, <1>19, <1>20, <1>21, <1>22, <1>23, <1>24, <1>25,
     <1>26, <1>27, <1>28, <1>29, <1>30
  DEF Next, Executor, read_live_output, sweep_expired

\* Nothing is published, written or polled yet.
LEMMA InvInit == Init => Inv
<1> SUFFICES ASSUME Init
             PROVE  Inv
  OBVIOUS
<1>1. TypeOK
  <2>1. BooleansOK
    BY DEF Init, BooleansOK
  <2> QED
    BY <2>1, OutputAssumption
    DEF Init, TypeOK, BooleansOK, Records, NoRecord, ExecutorPCs, Answers
<1>2. ExecutorInv /\ SweepInv /\ ReceiptInv
  BY DEF Init, ExecutorInv, EarlyPCs, SweepInv, ReceiptInv
<1>3. StreamInv
  BY DEF Init, StreamInv, BlobSize, NoRecord, Ended
<1>4. ReaderInv
  <2>1. blob = "none"
    BY DEF Init
  <2>2. /\ rpc = [r \in Readers |-> "idle"] /\ available = [r \in Readers |-> 0]
        /\ offset = [r \in Readers |-> 0] /\ answer = [r \in Readers |-> "none"]
        /\ rrecord = [r \in Readers |-> NoRecord]
    BY DEF Init
  <2>3. \A r \in Readers : /\ rpc[r] = "idle" /\ available[r] = 0 /\ offset[r] = 0
                            /\ answer[r] = "none" /\ rrecord[r] = NoRecord
    BY <2>2 DEF NoRecord
  <2>4. ASSUME NEW r \in Readers
        PROVE  offset[r] <= BlobSize /\ available[r] <= BlobSize
    <3>1. BlobSize = 0
      BY <2>1 DEF BlobSize
    <3>2. offset[r] = 0 /\ available[r] = 0
      BY <2>3
    <3>3. 0 <= 0
      OBVIOUS
    <3> QED
      BY <3>1, <3>2, <3>3, Zenon
  <2> QED
    BY <2>3, <2>4, Zenon DEF ReaderInv
<1>5. PollsTruthful
  <2>1. started = FALSE /\ \A r \in Readers : answer[r] = "none"
    BY DEF Init
  <2> QED
    BY <2>1 DEF PollsTruthful, TerminalMeansComplete, NoFalseAlarm, FoundUntilExpired
<1>6. ReceiptComplete
  BY DEF Init, ReceiptComplete, NoSilentDrop, TerminalHadSpool
<1> QED
  BY <1>1, <1>2, <1>3, <1>4, <1>5, <1>6 DEF Inv

\* Inv holds in every state of an execution, its pollers and the sweeps.
THEOREM OutputInvariant == Spec => []Inv
  BY InvInit, InvNext, PTL DEF Spec

(***************************************************************************)
(* The executor, its pollers and the sweeps keep their types: no cursor is *)
(* ever beyond max_output_bytes.                                           *)
(***************************************************************************)
THEOREM TypeCorrect == Spec => []TypeOK
<1>1. Inv => TypeOK
  BY DEF Inv
<1> QED
  BY <1>1, OutputInvariant, PTL

(***************************************************************************)
(* read_live_output never misleads its client, for any number of clients,  *)
(* any chunk size and any failures: `terminal' means complete, and a poll  *)
(* of a begun stream is refused, or told `unavailable', only when the      *)
(* stream has expired or a call of that poll failed.                       *)
(***************************************************************************)
THEOREM PollsAreTruthful == Spec => []PollsTruthful
<1>1. Inv => PollsTruthful
  BY DEF Inv
<1> QED
  BY <1>1, OutputInvariant, PTL

(***************************************************************************)
(* A terminal receipt of execute_invocation stands for the whole output of *)
(* the command, inline or as an artifact that exists until it expires.     *)
(***************************************************************************)
THEOREM ReceiptsAreComplete == Spec => []ReceiptComplete
<1>1. Inv => ReceiptComplete
  BY DEF Inv
<1> QED
  BY <1>1, OutputInvariant, PTL
=============================================================================
