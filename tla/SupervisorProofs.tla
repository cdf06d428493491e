-------------------------- MODULE SupervisorProofs --------------------------
(***************************************************************************)
(* Proofs about Supervisor for any number of descendants, any limits and   *)
(* any number of failing calls.  The result is decided by flags, set at    *)
(* different points of the loop, while the target goes on: the invariant   *)
(* says what each flag, once set, still means of the world when the call   *)
(* returns.                                                                *)
(***************************************************************************)
EXTENDS Supervisor, TLAPS

\* The supervisor before posix_spawn has succeeded, and in its loop.
Before == {"open", "handlers", "reset", "spawn"}
Loop == {"head", "monitor", "disk", "wait", "poll", "setup", "output", "drain"}

\* The part of TypeOK about truth values.
BooleansOK ==
  /\ attested \in BOOLEAN /\ received \in BOOLEAN /\ active \in BOOLEAN
  /\ signalled \in BOOLEAN /\ forwarded \in BOOLEAN /\ installed \in BOOLEAN
  /\ lost \in BOOLEAN /\ over \in BOOLEAN /\ bubblewrap \in BOOLEAN

Leader == where["leader"]
NoDescendant == \A d \in Descendants : where[d] = "unborn"
\* The output pipe was read to its end, not given up.
Drained == "output_eof" \in flags /\ "cleanup_unverified" \notin flags

BeforeInv ==
  spc \in Before => /\ flags = {} /\ ready = {} /\ image = "worker" /\ setup = "open"
                    /\ holds = {} /\ \A p \in Procs : where[p] = "unborn"

\* A leader that was reaped without an error of waitpid is dead, and with it its
\* namespace; one that exited normally got past the worker.
LeaderInv ==
  /\ spc \notin Before \cup {"done"} => Leader # "unborn"
  /\ "child_reaped" \in flags => Leader = "dead" \/ "setup_failure" \in flags
  /\ bubblewrap /\ Leader = "dead" =>
       \A p \in Procs : where[p] \notin {"group", "detached"}
  /\ bubblewrap /\ image = "target" => installed
  /\ status = "exited" => image # "worker"

\* Until it execs the target the worker holds the output pipe, and nobody writes.
WorkerInv ==
  image # "target" => /\ pipe = 0 /\ NoDescendant
                      /\ Leader \notin {"unborn", "dead"} => "leader" \in holds
                      /\ "output" \in ready => Leader = "dead"

\* The record of a failing worker is read before its output is seen to end.
RecordInv ==
  /\ image = "worker" /\ Leader = "group" => setup = "open"
  /\ setup = "record" => image = "failing"
  /\ "setup_eof" \in flags => setup = "closed"
  /\ image = "failing" =>
       \/ "setup_failure" \in flags
       \/ /\ setup = "record" /\ ~Drained
          /\ "output" \in ready => spc = "setup" /\ "setup" \in ready

OutputInv ==
  /\ Drained => holds = {} /\ pipe = 0
  /\ lost => \/ "output_exceeded" \in flags \/ "setup_failure" \in flags
             \/ "cleanup_unverified" \in flags
  /\ "output_exceeded" \in flags => lost /\ file = OutputLimit

\* The scan after the reaping saw what a target without descendants leaves.
DiskInv ==
  /\ "child_reaped" \in flags /\ NoDescendant
  /\ "disk_exceeded" \notin flags /\ "monitor_unverified" \notin flags
  /\ "setup_failure" \notin flags
  => ~over

SignalInv ==
  /\ spc \in {"check", "finish"} \cup Loop => active
  /\ ReceivedIsForwarded

EndInv ==
  /\ spc \in {"finish", "restore"} => "child_reaped" \in flags /\ "output_eof" \in flags
  /\ spc \in {"restore", "done"} => \A p \in Procs : where[p] # "group"

\* What the call promises when it has returned.
ResultInv == NothingLeft /\ OutputTruthful /\ LimitsHeld

Inv == /\ TypeOK /\ BeforeInv /\ LeaderInv /\ WorkerInv /\ RecordInv /\ OutputInv
       /\ DiskInv /\ SignalInv /\ EndInv /\ ResultInv

-----------------------------------------------------------------------------
(***************************************************************************)
(* The verdict.                                                            *)
(***************************************************************************)
\* The first raised flag of the precedence decides; without one, the signal and
\* then the status of the leader do.
LEMMA VerdictCases ==
  ASSUME TypeOK
  PROVE  \/ \E i \in 1 .. 7 : /\ Verdict = Precedence[i][2] /\ Precedence[i][1] \in flags
                             /\ \A j \in 1 .. 7 : j < i => Precedence[j][1] \notin flags
         \/ /\ \A i \in 1 .. 7 : Precedence[i][1] \notin flags
            /\ Verdict \in {"interrupted", status} /\ (Verdict = status \/ received)
<1> DEFINE raised == {i \in 1 .. 7 : Precedence[i][1] \in flags}
           first == CHOOSE i \in raised : \A j \in raised : i <= j
<1>1. DOMAIN Precedence = 1 .. 7
  BY DEF Precedence
<1>2. Verdict = IF raised # {} THEN Precedence[first][2]
                ELSE IF received THEN "interrupted" ELSE status
  BY <1>1 DEF Verdict
<1>3. CASE raised = {}
  <2>1. \A i \in 1 .. 7 : Precedence[i][1] \notin flags
    BY <1>3
  <2>2. Verdict = IF received THEN "interrupted" ELSE status
    BY <1>2, <1>3, Zenon
  <2> QED
    BY <2>1, <2>2 DEF TypeOK
<1>4. CASE raised # {}
  <2>1. \E i \in raised : \A j \in raised : i <= j
    <3> HIDE DEF first
    <3>1. \A i \in raised : i \in {1, 2, 3, 4, 5, 6, 7}
      OBVIOUS
    <3> HIDE DEF raised
    <3> QED
      BY <1>4, <3>1
  <2>2. first \in raised /\ \A j \in raised : first <= j
    BY <2>1, Zenon
  <2>3. Verdict = Precedence[first][2]
    BY <1>2, <1>4
  <2> HIDE DEF first
  <2>4. \A j \in 1 .. 7 : j < first => Precedence[j][1] \notin flags
    BY <2>2
  <2> QED
    BY <2>2, <2>3, <2>4
<1> QED
  BY <1>3, <1>4

\* What the result says of the flags.
LEMMA VerdictMeans ==
  ASSUME TypeOK
  PROVE  /\ Verdict \in Kinds
         /\ Verdict \notin {"cleanup_unverified", "setup_failed", "monitor_unverified"} =>
              flags \cap {"cleanup_unverified", "setup_failure", "monitor_unverified"} = {}
         /\ Verdict \in {"exited", "signaled", "interrupted"} =>
              flags \cap {"output_exceeded", "disk_exceeded"} = {}
         /\ Verdict = "exited" => status = "exited"
         /\ Verdict = "output" => "output_exceeded" \in flags
  BY VerdictCases DEF Precedence, TypeOK, Kinds

\* While the call has not returned nothing is claimed of its result.
LEMMA Unfinished ==
  spc' # "done" => ResultInv'
  BY DEF ResultInv, NothingLeft, GroupGone, TerminalHasNoWriter, TargetGone,
         OutputTruthful, LimitsHeld, LoneTargetWithinDisk, AttestedIsInstalled,
         AttestedIsInstalledOnLinux,
         Terminal, Done

\* A call that fails before the spawn leaves nothing behind.
LEMMA Refused ==
  ASSUME result' = "setup_failed", \A p \in Procs : where'[p] # "group"
  PROVE  ResultInv'
<1>1. ~Terminal'
  BY DEF Terminal, receipt_status
<1> QED
  BY <1>1
  DEF ResultInv, NothingLeft, GroupGone, TerminalHasNoWriter, TargetGone,
      OutputTruthful,
      LimitsHeld, LoneTargetWithinDisk, AttestedIsInstalled, AttestedIsInstalledOnLinux,
      Done

-----------------------------------------------------------------------------
(***************************************************************************)
(* The steps.                                                              *)
(***************************************************************************)
\* Every step of the supervisor, the target, the kernel and the clock keeps the
\* variables in their types.
LEMMA TypeNext == TypeOK /\ [Next]_vars => TypeOK'
<1> SUFFICES ASSUME TypeOK, [Next]_vars
             PROVE  TypeOK'
  OBVIOUS
<1> USE SupervisorAssumption
    DEF TypeOK, SupervisorPCs, Flags, Kinds, Clocks, Procs
<1>1. ASSUME OpenOutput
      PROVE  TypeOK'
  <2>1. BooleansOK'
    BY <1>1, Zenon
    DEF OpenOutput, SetupStep, worldFrame, Fault, NoFault, signalVars, leaderVars,
        procVars, BooleansOK
  <2> QED
    BY <1>1, <2>1
    DEF OpenOutput, SetupStep, worldFrame, Fault, NoFault, signalVars, leaderVars,
        procVars, BooleansOK
<1>2. ASSUME InstallHandlers
      PROVE  TypeOK'
  <2>1. BooleansOK'
    BY <1>2, Zenon
    DEF InstallHandlers, SetupStep, worldFrame, Fault, NoFault, signalVars, leaderVars,
        procVars, BooleansOK
  <2> QED
    BY <1>2, <2>1
    DEF InstallHandlers, SetupStep, worldFrame, Fault, NoFault, signalVars, leaderVars,
        procVars, BooleansOK
<1>3. ASSUME ResetSignal
      PROVE  TypeOK'
  <2>1. BooleansOK'
    BY <1>3, Zenon
    DEF ResetSignal, SetupStep, worldFrame, Fault, NoFault, leaderVars, procVars,
        BooleansOK
  <2> QED
    BY <1>3, <2>1
    DEF ResetSignal, SetupStep, worldFrame, Fault, NoFault, leaderVars, procVars,
        BooleansOK
<1>4. ASSUME SpawnWorker
      PROVE  TypeOK'
  <2>1. BooleansOK'
    BY <1>4, Zenon
    DEF SpawnWorker, SetupStep, worldFrame, Fault, NoFault, signalVars, leaderVars,
        procVars, BooleansOK
  <2> QED
    BY <1>4, <2>1
    DEF SpawnWorker, SetupStep, worldFrame, Fault, NoFault, signalVars, leaderVars,
        procVars, BooleansOK
<1>5. ASSUME PublishChild
      PROVE  TypeOK'
  BY <1>5 DEF PublishChild, worldFrame, leaderVars, procVars
<1>6. ASSUME CheckSignal
      PROVE  TypeOK'
  BY <1>6 DEF CheckSignal, worldFrame, leaderVars, procVars
<1>7. ASSUME CheckDeadline
      PROVE  TypeOK'
  <2>1. BooleansOK'
    BY <1>7, Zenon
    DEF CheckDeadline, LoopStep, NoKill, Kill, kill_group, signalVars, outputVars,
        BooleansOK
  <2>2. where' \in [Procs -> {"unborn", "group", "detached", "doomed", "dead"}]
    <3>1. kill_group \/ UNCHANGED where
      BY <1>7, Zenon DEF CheckDeadline, NoKill, Kill
    <3> QED
      BY <3>1 DEF kill_group
  <2>3. flags' \in SUBSET Flags
    BY <1>7 DEF CheckDeadline, NoKill, Kill
  <2>4. /\ spc' \in SupervisorPCs /\ ready' \in SUBSET {"setup", "output"}
        /\ now' \in Clocks /\ clock' \in Clocks /\ faults' \in 0 .. MaxFaults
    BY <1>7 DEF CheckDeadline, LoopStep
  <2>5. /\ result' \in Kinds /\ holds' \in SUBSET Procs
        /\ image' \in {"worker", "failing", "target"}
        /\ status' \in {"none", "exited", "signaled"}
        /\ setup' \in {"open", "record", "closed"}
    BY <1>7 DEF CheckDeadline, LoopStep
  <2>6. pipe' \in 0 .. PipeCapacity /\ file' \in 0 .. OutputLimit
    BY <1>7 DEF CheckDeadline, LoopStep, outputVars
  <2> QED
    BY <2>1, <2>2, <2>3, <2>4, <2>5, <2>6 DEF BooleansOK
<1>8. ASSUME MonitorProcesses
      PROVE  TypeOK'
  <2>1. BooleansOK'
    BY <1>8, ZenonT(40)
    DEF MonitorProcesses, LoopStep, NoKill, Kill, kill_group, Fault, NoFault,
        signalVars, outputVars, BooleansOK
  <2>2. where' \in [Procs -> {"unborn", "group", "detached", "doomed", "dead"}]
    <3>1. kill_group \/ UNCHANGED where
      BY <1>8, Zenon DEF MonitorProcesses, NoKill, Kill
    <3> QED
      BY <3>1 DEF kill_group
  <2>3. flags' \in SUBSET Flags
    BY <1>8 DEF MonitorProcesses, NoKill, Kill
  <2>4. /\ spc' \in SupervisorPCs /\ ready' \in SUBSET {"setup", "output"}
        /\ now' \in Clocks /\ clock' \in Clocks /\ faults' \in 0 .. MaxFaults
    BY <1>8 DEF MonitorProcesses, LoopStep, Fault, NoFault
  <2>5. /\ result' \in Kinds /\ holds' \in SUBSET Procs
        /\ image' \in {"worker", "failing", "target"}
        /\ status' \in {"none", "exited", "signaled"}
        /\ setup' \in {"open", "record", "closed"}
    BY <1>8 DEF MonitorProcesses, LoopStep, Fault, NoFault
  <2>6. pipe' \in 0 .. PipeCapacity /\ file' \in 0 .. OutputLimit
    BY <1>8 DEF MonitorProcesses, LoopStep, Fault, NoFault, outputVars
  <2> QED
    BY <2>1, <2>2, <2>3, <2>4, <2>5, <2>6 DEF BooleansOK
<1>9. ASSUME MonitorDisk
      PROVE  TypeOK'
  <2>1. BooleansOK'
    BY <1>9, Zenon
    DEF MonitorDisk, LoopStep, NoKill, Kill, kill_group, Fault, NoFault, signalVars,
        outputVars, BooleansOK
  <2>2. where' \in [Procs -> {"unborn", "group", "detached", "doomed", "dead"}]
    <3>1. kill_group \/ UNCHANGED where
      BY <1>9, Zenon DEF MonitorDisk, NoKill, Kill
    <3> QED
      BY <3>1 DEF kill_group
  <2>3. flags' \in SUBSET Flags
    BY <1>9 DEF MonitorDisk, NoKill, Kill
  <2>4. /\ spc' \in SupervisorPCs /\ ready' \in SUBSET {"setup", "output"}
        /\ now' \in Clocks /\ clock' \in Clocks /\ faults' \in 0 .. MaxFaults
    BY <1>9 DEF MonitorDisk, LoopStep, Fault, NoFault
  <2>5. /\ result' \in Kinds /\ holds' \in SUBSET Procs
        /\ image' \in {"worker", "failing", "target"}
        /\ status' \in {"none", "exited", "signaled"}
        /\ setup' \in {"open", "record", "closed"}
    BY <1>9 DEF MonitorDisk, LoopStep, Fault, NoFault
  <2>6. pipe' \in 0 .. PipeCapacity /\ file' \in 0 .. OutputLimit
    BY <1>9 DEF MonitorDisk, LoopStep, Fault, NoFault, outputVars
  <2> QED
    BY <2>1, <2>2, <2>3, <2>4, <2>5, <2>6 DEF BooleansOK
<1>10. ASSUME WaitLeader
      PROVE  TypeOK'
  <2>1. BooleansOK'
    BY <1>10, Zenon
    DEF WaitLeader, LoopStep, NoKill, Kill, kill_group, Fault, NoFault, FinalScan,
        signalVars, outputVars, BooleansOK
  <2>2. where' \in [Procs -> {"unborn", "group", "detached", "doomed", "dead"}]
    <3>1. kill_group \/ UNCHANGED where
      BY <1>10, Zenon DEF WaitLeader, NoKill, Kill
    <3> QED
      BY <3>1 DEF kill_group
  <2>3. flags' \in SUBSET Flags
    BY <1>10, ZenonT(40) DEF WaitLeader, NoKill, Kill, FinalScan
  <2>4. /\ spc' \in SupervisorPCs /\ ready' \in SUBSET {"setup", "output"}
        /\ now' \in Clocks /\ clock' \in Clocks /\ faults' \in 0 .. MaxFaults
    BY <1>10 DEF WaitLeader, LoopStep, Fault, NoFault
  <2>5. /\ result' \in Kinds /\ holds' \in SUBSET Procs
        /\ image' \in {"worker", "failing", "target"}
        /\ status' \in {"none", "exited", "signaled"}
        /\ setup' \in {"open", "record", "closed"}
    BY <1>10 DEF WaitLeader, LoopStep, Fault, NoFault
  <2>6. pipe' \in 0 .. PipeCapacity /\ file' \in 0 .. OutputLimit
    BY <1>10 DEF WaitLeader, LoopStep, Fault, NoFault, outputVars
  <2> QED
    BY <2>1, <2>2, <2>3, <2>4, <2>5, <2>6 DEF BooleansOK
<1>11. ASSUME Poll
      PROVE  TypeOK'
  <2>1. BooleansOK'
    BY <1>11, Zenon
    DEF Poll, LoopStep, NoKill, Kill, kill_group, Fault, NoFault, OutputReady,
        signalVars, outputVars, BooleansOK
  <2>2. where' \in [Procs -> {"unborn", "group", "detached", "doomed", "dead"}]
    <3>1. kill_group \/ UNCHANGED where
      BY <1>11, Zenon DEF Poll, NoKill, Kill
    <3> QED
      BY <3>1 DEF kill_group
  <2>3. flags' \in SUBSET Flags
    BY <1>11 DEF Poll, NoKill, Kill
  <2>4. /\ spc' \in SupervisorPCs /\ ready' \in SUBSET {"setup", "output"}
        /\ now' \in Clocks /\ clock' \in Clocks /\ faults' \in 0 .. MaxFaults
    BY <1>11 DEF Poll, LoopStep, Fault, NoFault, OutputReady
  <2>5. /\ result' \in Kinds /\ holds' \in SUBSET Procs
        /\ image' \in {"worker", "failing", "target"}
        /\ status' \in {"none", "exited", "signaled"}
        /\ setup' \in {"open", "record", "closed"}
    BY <1>11 DEF Poll, LoopStep, Fault, NoFault, OutputReady
  <2>6. pipe' \in 0 .. PipeCapacity /\ file' \in 0 .. OutputLimit
    BY <1>11 DEF Poll, LoopStep, Fault, NoFault, OutputReady, outputVars
  <2> QED
    BY <2>1, <2>2, <2>3, <2>4, <2>5, <2>6 DEF BooleansOK
<1>12. ASSUME ReadSetup
      PROVE  TypeOK'
  <2>1. BooleansOK'
    BY <1>12, Zenon
    DEF ReadSetup, LoopStep, NoKill, Kill, kill_group, Fault, NoFault, signalVars,
        outputVars, BooleansOK
  <2>2. where' \in [Procs -> {"unborn", "group", "detached", "doomed", "dead"}]
    <3>1. kill_group \/ UNCHANGED where
      BY <1>12, Zenon DEF ReadSetup, NoKill, Kill
    <3> QED
      BY <3>1 DEF kill_group
  <2>3. flags' \in SUBSET Flags
    BY <1>12, ZenonT(40) DEF ReadSetup, NoKill, Kill
  <2>4. /\ spc' \in SupervisorPCs /\ ready' \in SUBSET {"setup", "output"}
        /\ now' \in Clocks /\ clock' \in Clocks /\ faults' \in 0 .. MaxFaults
    BY <1>12 DEF ReadSetup, LoopStep, Fault, NoFault
  <2>5. /\ result' \in Kinds /\ holds' \in SUBSET Procs
        /\ image' \in {"worker", "failing", "target"}
        /\ status' \in {"none", "exited", "signaled"}
        /\ setup' \in {"open", "record", "closed"}
    BY <1>12 DEF ReadSetup, LoopStep, Fault, NoFault
  <2>6. pipe' \in 0 .. PipeCapacity /\ file' \in 0 .. OutputLimit
    BY <1>12 DEF ReadSetup, LoopStep, Fault, NoFault, outputVars
  <2> QED
    BY <2>1, <2>2, <2>3, <2>4, <2>5, <2>6 DEF BooleansOK
<1>13. ASSUME ReadOutput
      PROVE  TypeOK'
  <2>1. BooleansOK'
    BY <1>13, Zenon
    DEF ReadOutput, LoopStep, NoKill, Kill, kill_group, Fault, NoFault, Keep,
        signalVars, BooleansOK
  <2>2. where' \in [Procs -> {"unborn", "group", "detached", "doomed", "dead"}]
    <3>1. kill_group \/ UNCHANGED where
      BY <1>13, Zenon DEF ReadOutput, NoKill, Kill
    <3> QED
      BY <3>1 DEF kill_group
  <2>3. flags' \in SUBSET Flags
    BY <1>13, ZenonT(40) DEF ReadOutput, NoKill, Kill
  <2>4. /\ spc' \in SupervisorPCs /\ ready' \in SUBSET {"setup", "output"}
        /\ now' \in Clocks /\ clock' \in Clocks /\ faults' \in 0 .. MaxFaults
    BY <1>13 DEF ReadOutput, LoopStep, Fault, NoFault
  <2>5. /\ result' \in Kinds /\ holds' \in SUBSET Procs
        /\ image' \in {"worker", "failing", "target"}
        /\ status' \in {"none", "exited", "signaled"}
        /\ setup' \in {"open", "record", "closed"}
    BY <1>13 DEF ReadOutput, LoopStep, Fault, NoFault
  <2>6. pipe' \in 0 .. PipeCapacity /\ file' \in 0 .. OutputLimit
    BY <1>13 DEF ReadOutput, LoopStep, Fault, NoFault, Keep
  <2> QED
    BY <2>1, <2>2, <2>3, <2>4, <2>5, <2>6 DEF BooleansOK
<1>14. ASSUME StopReading
      PROVE  TypeOK'
  <2>1. BooleansOK'
    BY <1>14, Zenon
    DEF StopReading, LoopStep, NoKill, Kill, kill_group, Fault, NoFault, signalVars,
        outputVars, BooleansOK
  <2>2. where' \in [Procs -> {"unborn", "group", "detached", "doomed", "dead"}]
    <3>1. kill_group \/ UNCHANGED where
      BY <1>14, Zenon DEF StopReading, NoKill, Kill
    <3> QED
      BY <3>1 DEF kill_group
  <2>3. flags' \in SUBSET Flags
    BY <1>14 DEF StopReading, NoKill, Kill
  <2>4. /\ spc' \in SupervisorPCs /\ ready' \in SUBSET {"setup", "output"}
        /\ now' \in Clocks /\ clock' \in Clocks /\ faults' \in 0 .. MaxFaults
    BY <1>14 DEF StopReading, LoopStep, Fault, NoFault
  <2>5. /\ result' \in Kinds /\ holds' \in SUBSET Procs
        /\ image' \in {"worker", "failing", "target"}
        /\ status' \in {"none", "exited", "signaled"}
        /\ setup' \in {"open", "record", "closed"}
    BY <1>14 DEF StopReading, LoopStep, Fault, NoFault
  <2>6. pipe' \in 0 .. PipeCapacity /\ file' \in 0 .. OutputLimit
    BY <1>14 DEF StopReading, LoopStep, Fault, NoFault, outputVars
  <2> QED
    BY <2>1, <2>2, <2>3, <2>4, <2>5, <2>6 DEF BooleansOK
<1>15. ASSUME CheckDrain
      PROVE  TypeOK'
  <2>1. BooleansOK'
    BY <1>15, Zenon DEF CheckDrain, LoopStep, GiveUp, signalVars, BooleansOK
  <2> QED
    BY <1>15, <2>1
    DEF CheckDrain, LoopStep, GiveUp, Unset, Clocks, signalVars, BooleansOK
<1>16. ASSUME Finish
      PROVE  TypeOK'
  <2>1. BooleansOK'
    BY <1>16, Zenon DEF Finish, worldFrame, kill_group, leaderVars, BooleansOK
  <2> QED
    BY <1>16, <2>1 DEF Finish, worldFrame, kill_group, leaderVars, BooleansOK
<1>17. ASSUME RestoreAndReport
      PROVE  TypeOK'
  <2>1. BooleansOK'
    BY <1>17, Zenon DEF RestoreAndReport, worldFrame, leaderVars, BooleansOK
  <2>2. result' \in Kinds
    BY <1>17, VerdictMeans, Zenon DEF RestoreAndReport
  <2> QED
    BY <1>17, <2>1, <2>2 DEF RestoreAndReport, worldFrame, leaderVars, procVars,
        BooleansOK
<1>18. ASSUME WorkerFails
      PROVE  TypeOK'
  BY <1>18 DEF WorkerFails, targetFrame, callFrame, superVars, signalVars, procVars
<1>19. ASSUME WorkerExecs
      PROVE  TypeOK'
  <2>1. BooleansOK'
    BY <1>19, Zenon
    DEF WorkerExecs, Fault, NoFault, callFrame, superVars, signalVars, procVars,
        BooleansOK
  <2> QED
    BY <1>19, <2>1
    DEF WorkerExecs, Fault, NoFault, callFrame, superVars, signalVars, procVars,
        BooleansOK
<1>20. ASSUME LeaderExits
      PROVE  TypeOK'
  BY <1>20 DEF LeaderExits, LeaderEnds, targetFrame, callFrame, superVars, signalVars
<1>21. ASSUME TargetForks
      PROVE  TypeOK'
  BY <1>21 DEF TargetForks, targetFrame, callFrame, Runs, superVars, signalVars,
      leaderVars
<1>22. ASSUME DescendantDetaches
      PROVE  TypeOK'
  BY <1>22 DEF DescendantDetaches, targetFrame, callFrame, superVars, signalVars,
      leaderVars
<1>23. ASSUME ClosesOutput
      PROVE  TypeOK'
  BY <1>23 DEF ClosesOutput, targetFrame, callFrame, Runs, superVars, signalVars,
      leaderVars
<1>24. ASSUME DescendantExits
      PROVE  TypeOK'
  BY <1>24 DEF DescendantExits, targetFrame, callFrame, Runs, superVars, signalVars,
      leaderVars
<1>25. ASSUME WritesOutput
      PROVE  TypeOK'
  BY <1>25
  DEF WritesOutput, targetFrame, callFrame, Runs, superVars, signalVars, leaderVars,
      procVars
<1>26. ASSUME WritesFiles
      PROVE  TypeOK'
  BY <1>26
  DEF WritesFiles, targetFrame, callFrame, Runs, superVars, signalVars, leaderVars,
      procVars
<1>27. ASSUME KernelEnds
      PROVE  TypeOK'
  BY <1>27 DEF KernelEnds, LeaderEnds, targetFrame, callFrame, superVars, signalVars
<1>28. ASSUME Tick
      PROVE  TypeOK'
  <2>1. clock' \in Clocks
    <3>1. clock' \in {[clock EXCEPT !.wall = TRUE], [clock EXCEPT !.drain = "over"]}
      BY <1>28, Zenon DEF Tick
    <3>2. clock \in [wall : BOOLEAN, drain : {"unset", "open", "over"}]
      BY DEF TypeOK, Clocks
    <3>3. TRUE \in BOOLEAN /\ "over" \in {"unset", "open", "over"}
      OBVIOUS
    <3>4. [clock EXCEPT !.wall = TRUE] \in Clocks
      BY <3>2, <3>3 DEF Clocks
    <3>5. [clock EXCEPT !.drain = "over"] \in Clocks
      BY <3>2, <3>3 DEF Clocks
    <3> QED
      BY <3>1, <3>4, <3>5, Zenon
  <2>2. UNCHANGED <<bubblewrap, superVars, signalVars, procVars, leaderVars, outputVars,
                    over, faults>>
    BY <1>28 DEF Tick
  <2>3. BooleansOK'
    BY <2>2, Zenon DEF BooleansOK, superVars, signalVars, leaderVars, outputVars
  <2> HIDE DEF Clocks, Flags, Kinds, SupervisorPCs, Procs
  <2> QED
    BY <2>1, <2>2, <2>3
    DEF BooleansOK, superVars, signalVars, procVars, leaderVars, outputVars
<1>29. ASSUME forward_signal
      PROVE  TypeOK'
  BY <1>29 DEF forward_signal, superVars, leaderVars, outputVars, procVars
<1>30. ASSUME UNCHANGED vars
      PROVE  TypeOK'
  BY <1>30 DEF vars, superVars, signalVars, leaderVars, outputVars, procVars
<1> QED
  BY <1>1, <1>2, <1>3, <1>4, <1>5, <1>6, <1>7, <1>8, <1>9, <1>10, <1>11, <1>12, <1>13,
     <1>14, <1>15, <1>16, <1>17, <1>18, <1>19, <1>20, <1>21, <1>22, <1>23, <1>24, <1>25,
     <1>26, <1>27, <1>28, <1>29, <1>30
  DEF Next, Supervise, Target

\* Every step keeps Inv.
LEMMA InvNext == Inv /\ [Next]_vars => Inv'
<1> SUFFICES ASSUME Inv, [Next]_vars
             PROVE  Inv'
  OBVIOUS
<1>0. TypeOK /\ TypeOK'
  BY TypeNext DEF Inv
<1> USE SupervisorAssumption, <1>0
    DEF TypeOK, SupervisorPCs, Flags, Procs, Before, Loop, Leader, NoDescendant, Drained
<1>1. ASSUME OpenOutput
      PROVE  Inv'
  <2> USE <1>1 DEF OpenOutput, SetupStep, worldFrame, Fault, NoFault, signalVars,
      leaderVars, procVars, Inv
  <2>1. BeforeInv'
    BY DEF BeforeInv
  <2>2. LeaderInv'
    BY DEF LeaderInv, BeforeInv, WorkerInv
  <2>3. WorkerInv'
    BY DEF WorkerInv, BeforeInv, LeaderInv
  <2>4. RecordInv'
    BY DEF RecordInv, WorkerInv, BeforeInv, LeaderInv, OutputInv
  <2>5. OutputInv'
    BY DEF OutputInv, BeforeInv
  <2>6. DiskInv'
    BY DEF DiskInv, LeaderInv
  <2>7. SignalInv'
    BY DEF SignalInv, ReceivedIsForwarded
  <2>8. EndInv'
    BY DEF EndInv, BeforeInv, LeaderInv
  <2>9. ResultInv'
    <3>1. \/ spc' # "done"
          \/ result' = "setup_failed" /\ \A p \in Procs : where'[p] # "group"
      BY DEF BeforeInv
    <3> QED
      BY <3>1, Unfinished, Refused, Zenon
  <2> QED
    BY <2>1, <2>2, <2>3, <2>4, <2>5, <2>6, <2>7, <2>8, <2>9 DEF Inv
<1>2. ASSUME InstallHandlers
      PROVE  Inv'
  <2> USE <1>2 DEF InstallHandlers, SetupStep, worldFrame, Fault, NoFault, signalVars,
      leaderVars, procVars, Inv
  <2>1. BeforeInv'
    BY DEF BeforeInv
  <2>2. LeaderInv'
    BY DEF LeaderInv, BeforeInv, WorkerInv
  <2>3. WorkerInv'
    BY DEF WorkerInv, BeforeInv, LeaderInv
  <2>4. RecordInv'
    BY DEF RecordInv, WorkerInv, BeforeInv, LeaderInv, OutputInv
  <2>5. OutputInv'
    BY DEF OutputInv, BeforeInv
  <2>6. DiskInv'
    BY DEF DiskInv, LeaderInv
  <2>7. SignalInv'
    BY DEF SignalInv, ReceivedIsForwarded
  <2>8. EndInv'
    BY DEF EndInv, BeforeInv, LeaderInv
  <2>9. ResultInv'
    <3>1. \/ spc' # "done"
          \/ result' = "setup_failed" /\ \A p \in Procs : where'[p] # "group"
      BY DEF BeforeInv
    <3> QED
      BY <3>1, Unfinished, Refused, Zenon
  <2> QED
    BY <2>1, <2>2, <2>3, <2>4, <2>5, <2>6, <2>7, <2>8, <2>9 DEF Inv
<1>3. ASSUME ResetSignal
      PROVE  Inv'
  <2> USE <1>3 DEF ResetSignal, SetupStep, worldFrame, Fault, NoFault, leaderVars,
      procVars, Inv
  <2>1. BeforeInv'
    BY DEF BeforeInv
  <2>2. LeaderInv'
    BY DEF LeaderInv, BeforeInv, WorkerInv
  <2>3. WorkerInv'
    BY DEF WorkerInv, BeforeInv, LeaderInv
  <2>4. RecordInv'
    BY DEF RecordInv, WorkerInv, BeforeInv, LeaderInv, OutputInv
  <2>5. OutputInv'
    BY DEF OutputInv, BeforeInv
  <2>6. DiskInv'
    BY DEF DiskInv, LeaderInv
  <2>7. SignalInv'
    BY DEF SignalInv, ReceivedIsForwarded
  <2>8. EndInv'
    BY DEF EndInv, BeforeInv, LeaderInv
  <2>9. ResultInv'
    <3>1. \/ spc' # "done"
          \/ result' = "setup_failed" /\ \A p \in Procs : where'[p] # "group"
      BY DEF BeforeInv
    <3> QED
      BY <3>1, Unfinished, Refused, Zenon
  <2> QED
    BY <2>1, <2>2, <2>3, <2>4, <2>5, <2>6, <2>7, <2>8, <2>9 DEF Inv
<1>4. ASSUME SpawnWorker
      PROVE  Inv'
  <2> USE <1>4 DEF SpawnWorker, SetupStep, worldFrame, Fault, NoFault, signalVars,
      leaderVars, procVars, Inv
  <2>1. BeforeInv'
    BY DEF BeforeInv
  <2>2. LeaderInv'
    BY DEF LeaderInv, BeforeInv, WorkerInv
  <2>3. WorkerInv'
    BY DEF WorkerInv, BeforeInv, LeaderInv
  <2>4. RecordInv'
    BY DEF RecordInv, WorkerInv, BeforeInv, LeaderInv, OutputInv
  <2>5. OutputInv'
    BY DEF OutputInv, BeforeInv
  <2>6. DiskInv'
    BY DEF DiskInv, LeaderInv
  <2>7. SignalInv'
    BY DEF SignalInv, ReceivedIsForwarded
  <2>8. EndInv'
    BY DEF EndInv, BeforeInv, LeaderInv
  <2>9. ResultInv'
    <3>1. \/ spc' # "done"
          \/ result' = "setup_failed" /\ \A p \in Procs : where'[p] # "group"
      BY DEF BeforeInv
    <3> QED
      BY <3>1, Unfinished, Refused, Zenon
  <2> QED
    BY <2>1, <2>2, <2>3, <2>4, <2>5, <2>6, <2>7, <2>8, <2>9 DEF Inv
<1>5. ASSUME PublishChild
      PROVE  Inv'
  <2> USE <1>5 DEF PublishChild, worldFrame, leaderVars, procVars, Inv
  <2>1. BeforeInv'
    BY DEF BeforeInv
  <2>2. LeaderInv'
    BY DEF LeaderInv, BeforeInv, WorkerInv
  <2>3. WorkerInv'
    BY DEF WorkerInv, BeforeInv, LeaderInv
  <2>4. RecordInv'
    BY DEF RecordInv, WorkerInv, BeforeInv, LeaderInv, OutputInv
  <2>5. OutputInv'
    BY DEF OutputInv, BeforeInv
  <2>6. DiskInv'
    BY DEF DiskInv, LeaderInv
  <2>7. SignalInv'
    BY DEF SignalInv, ReceivedIsForwarded
  <2>8. EndInv'
    BY DEF EndInv, BeforeInv, LeaderInv
  <2>9. ResultInv'
    BY Unfinished
  <2> QED
    BY <2>1, <2>2, <2>3, <2>4, <2>5, <2>6, <2>7, <2>8, <2>9 DEF Inv
<1>6. ASSUME CheckSignal
      PROVE  Inv'
  <2> USE <1>6 DEF CheckSignal, worldFrame, leaderVars, procVars, Inv
  <2>1. BeforeInv'
    BY DEF BeforeInv
  <2>2. LeaderInv'
    BY DEF LeaderInv, BeforeInv, WorkerInv
  <2>3. WorkerInv'
    BY DEF WorkerInv, BeforeInv, LeaderInv
  <2>4. RecordInv'
    BY DEF RecordInv, WorkerInv, BeforeInv, LeaderInv, OutputInv
  <2>5. OutputInv'
    BY DEF OutputInv, BeforeInv
  <2>6. DiskInv'
    BY DEF DiskInv, LeaderInv
  <2>7. SignalInv'
    BY DEF SignalInv, ReceivedIsForwarded
  <2>8. EndInv'
    BY DEF EndInv, BeforeInv, LeaderInv
  <2>9. ResultInv'
    BY Unfinished
  <2> QED
    BY <2>1, <2>2, <2>3, <2>4, <2>5, <2>6, <2>7, <2>8, <2>9 DEF Inv
<1>7. ASSUME CheckDeadline
      PROVE  Inv'
  <2> USE <1>7 DEF CheckDeadline, LoopStep, NoKill, Kill, kill_group, signalVars,
      outputVars, Inv
  <2>1. BeforeInv'
    BY DEF BeforeInv
  <2>2. LeaderInv'
    BY DEF LeaderInv, BeforeInv, WorkerInv
  <2>3. WorkerInv'
    BY DEF WorkerInv, BeforeInv, LeaderInv
  <2>4. RecordInv'
    BY DEF RecordInv, WorkerInv, BeforeInv, LeaderInv, OutputInv
  <2>5. OutputInv'
    BY DEF OutputInv, BeforeInv
  <2>6. DiskInv'
    BY DEF DiskInv, LeaderInv
  <2>7. SignalInv'
    BY DEF SignalInv, ReceivedIsForwarded
  <2>8. EndInv'
    BY DEF EndInv, BeforeInv, LeaderInv
  <2>9. ResultInv'
    BY Unfinished
  <2> QED
    BY <2>1, <2>2, <2>3, <2>4, <2>5, <2>6, <2>7, <2>8, <2>9 DEF Inv
<1>8. ASSUME MonitorProcesses
      PROVE  Inv'
  <2> USE <1>8 DEF MonitorProcesses, LoopStep, NoKill, Kill, kill_group, Fault, NoFault,
      signalVars, outputVars, Inv
  <2>1. BeforeInv'
    BY DEF BeforeInv
  <2>2. LeaderInv'
    BY DEF LeaderInv, BeforeInv, WorkerInv
  <2>3. WorkerInv'
    BY DEF WorkerInv, BeforeInv, LeaderInv
  <2>4. RecordInv'
    BY DEF RecordInv, WorkerInv, BeforeInv, LeaderInv, OutputInv
  <2>5. OutputInv'
    BY DEF OutputInv, BeforeInv
  <2>6. DiskInv'
    BY DEF DiskInv, LeaderInv
  <2>7. SignalInv'
    BY DEF SignalInv, ReceivedIsForwarded
  <2>8. EndInv'
    BY DEF EndInv, BeforeInv, LeaderInv
  <2>9. ResultInv'
    BY Unfinished
  <2> QED
    BY <2>1, <2>2, <2>3, <2>4, <2>5, <2>6, <2>7, <2>8, <2>9 DEF Inv
<1>9. ASSUME MonitorDisk
      PROVE  Inv'
  <2> USE <1>9 DEF MonitorDisk, LoopStep, NoKill, Kill, kill_group, Fault, NoFault,
      signalVars, outputVars, Inv
  <2>1. BeforeInv'
    BY DEF BeforeInv
  <2>2. LeaderInv'
    BY DEF LeaderInv, BeforeInv, WorkerInv
  <2>3. WorkerInv'
    BY DEF WorkerInv, BeforeInv, LeaderInv
  <2>4. RecordInv'
    BY DEF RecordInv, WorkerInv, BeforeInv, LeaderInv, OutputInv
  <2>5. OutputInv'
    BY DEF OutputInv, BeforeInv
  <2>6. DiskInv'
    BY DEF DiskInv, LeaderInv
  <2>7. SignalInv'
    BY DEF SignalInv, ReceivedIsForwarded
  <2>8. EndInv'
    BY DEF EndInv, BeforeInv, LeaderInv
  <2>9. ResultInv'
    BY Unfinished
  <2> QED
    BY <2>1, <2>2, <2>3, <2>4, <2>5, <2>6, <2>7, <2>8, <2>9 DEF Inv
<1>10. ASSUME WaitLeader
      PROVE  Inv'
  <2> USE <1>10 DEF WaitLeader, LoopStep, NoKill, Kill, kill_group, Fault, NoFault,
      FinalScan, signalVars, outputVars, Inv
  <2>1. BeforeInv'
    BY DEF BeforeInv
  <2>2. LeaderInv'
    BY DEF LeaderInv, BeforeInv, WorkerInv
  <2>3. WorkerInv'
    BY DEF WorkerInv, BeforeInv, LeaderInv
  <2>4. RecordInv'
    BY DEF RecordInv, WorkerInv, BeforeInv, LeaderInv, OutputInv
  <2>5. OutputInv'
    BY DEF OutputInv, BeforeInv
  <2>6. DiskInv'
    BY DEF DiskInv, LeaderInv
  <2>7. SignalInv'
    BY DEF SignalInv, ReceivedIsForwarded
  <2>8. EndInv'
    BY DEF EndInv, BeforeInv, LeaderInv
  <2>9. ResultInv'
    BY Unfinished
  <2> QED
    BY <2>1, <2>2, <2>3, <2>4, <2>5, <2>6, <2>7, <2>8, <2>9 DEF Inv
<1>11. ASSUME Poll
      PROVE  Inv'
  <2> USE <1>11 DEF Poll, LoopStep, NoKill, Kill, kill_group, Fault, NoFault,
      OutputReady, signalVars, outputVars, Inv
  <2>1. BeforeInv'
    BY DEF BeforeInv
  <2>2. LeaderInv'
    BY DEF LeaderInv, BeforeInv, WorkerInv
  <2>3. WorkerInv'
    BY DEF WorkerInv, BeforeInv, LeaderInv
  <2>4. RecordInv'
    BY DEF RecordInv, WorkerInv, BeforeInv, LeaderInv, OutputInv
  <2>5. OutputInv'
    BY DEF OutputInv, BeforeInv
  <2>6. DiskInv'
    BY DEF DiskInv, LeaderInv
  <2>7. SignalInv'
    BY DEF SignalInv, ReceivedIsForwarded
  <2>8. EndInv'
    BY DEF EndInv, BeforeInv, LeaderInv
  <2>9. ResultInv'
    BY Unfinished
  <2> QED
    BY <2>1, <2>2, <2>3, <2>4, <2>5, <2>6, <2>7, <2>8, <2>9 DEF Inv
<1>12. ASSUME ReadSetup
      PROVE  Inv'
  <2> USE <1>12 DEF ReadSetup, LoopStep, NoKill, Kill, kill_group, Fault, NoFault,
      signalVars, outputVars, Inv
  <2>1. BeforeInv'
    BY DEF BeforeInv
  <2>2. LeaderInv'
    BY DEF LeaderInv, BeforeInv, WorkerInv
  <2>3. WorkerInv'
    BY DEF WorkerInv, BeforeInv, LeaderInv
  <2>4. RecordInv'
    BY DEF RecordInv, WorkerInv, BeforeInv, LeaderInv, OutputInv
  <2>5. OutputInv'
    BY DEF OutputInv, BeforeInv
  <2>6. DiskInv'
    BY DEF DiskInv, LeaderInv
  <2>7. SignalInv'
    BY DEF SignalInv, ReceivedIsForwarded
  <2>8. EndInv'
    BY DEF EndInv, BeforeInv, LeaderInv
  <2>9. ResultInv'
    BY Unfinished
  <2> QED
    BY <2>1, <2>2, <2>3, <2>4, <2>5, <2>6, <2>7, <2>8, <2>9 DEF Inv
<1>13. ASSUME ReadOutput
      PROVE  Inv'
  <2> USE <1>13 DEF ReadOutput, LoopStep, NoKill, Kill, kill_group, Fault, NoFault,
      Keep, signalVars, Inv
  <2>1. BeforeInv'
    BY DEF BeforeInv
  <2>2. LeaderInv'
    BY DEF LeaderInv, BeforeInv, WorkerInv
  <2>3. WorkerInv'
    BY DEF WorkerInv, BeforeInv, LeaderInv
  <2>4. RecordInv'
    BY DEF RecordInv, WorkerInv, BeforeInv, LeaderInv, OutputInv
  <2>5. OutputInv'
    BY DEF OutputInv, BeforeInv
  <2>6. DiskInv'
    BY DEF DiskInv, LeaderInv
  <2>7. SignalInv'
    BY DEF SignalInv, ReceivedIsForwarded
  <2>8. EndInv'
    BY DEF EndInv, BeforeInv, LeaderInv
  <2>9. ResultInv'
    BY Unfinished
  <2> QED
    BY <2>1, <2>2, <2>3, <2>4, <2>5, <2>6, <2>7, <2>8, <2>9 DEF Inv
<1>14. ASSUME StopReading
      PROVE  Inv'
  <2> USE <1>14 DEF StopReading, LoopStep, NoKill, Kill, kill_group, Fault, NoFault,
      signalVars, outputVars, Inv
  <2>1. BeforeInv'
    BY DEF BeforeInv
  <2>2. LeaderInv'
    BY DEF LeaderInv, BeforeInv, WorkerInv
  <2>3. WorkerInv'
    BY DEF WorkerInv, BeforeInv, LeaderInv
  <2>4. RecordInv'
    BY DEF RecordInv, WorkerInv, BeforeInv, LeaderInv, OutputInv
  <2>5. OutputInv'
    BY DEF OutputInv, BeforeInv
  <2>6. DiskInv'
    BY DEF DiskInv, LeaderInv
  <2>7. SignalInv'
    BY DEF SignalInv, ReceivedIsForwarded
  <2>8. EndInv'
    BY DEF EndInv, BeforeInv, LeaderInv
  <2>9. ResultInv'
    BY Unfinished
  <2> QED
    BY <2>1, <2>2, <2>3, <2>4, <2>5, <2>6, <2>7, <2>8, <2>9 DEF Inv
<1>15. ASSUME CheckDrain
      PROVE  Inv'
  <2> USE <1>15 DEF CheckDrain, LoopStep, GiveUp, signalVars, Inv
  <2>1. BeforeInv'
    BY DEF BeforeInv
  <2>2. LeaderInv'
    BY DEF LeaderInv, BeforeInv, WorkerInv
  <2>3. WorkerInv'
    BY DEF WorkerInv, BeforeInv, LeaderInv
  <2>4. RecordInv'
    BY DEF RecordInv, WorkerInv, BeforeInv, LeaderInv, OutputInv
  <2>5. OutputInv'
    BY DEF OutputInv, BeforeInv
  <2>6. DiskInv'
    BY DEF DiskInv, LeaderInv
  <2>7. SignalInv'
    BY DEF SignalInv, ReceivedIsForwarded
  <2>8. EndInv'
    BY DEF EndInv, BeforeInv, LeaderInv
  <2>9. ResultInv'
    BY Unfinished
  <2> QED
    BY <2>1, <2>2, <2>3, <2>4, <2>5, <2>6, <2>7, <2>8, <2>9 DEF Inv
<1>16. ASSUME Finish
      PROVE  Inv'
  <2> USE <1>16 DEF Finish, worldFrame, kill_group, leaderVars, Inv
  <2>1. BeforeInv'
    BY DEF BeforeInv
  <2>2. LeaderInv'
    BY DEF LeaderInv, BeforeInv, WorkerInv
  <2>3. WorkerInv'
    BY DEF WorkerInv, BeforeInv, LeaderInv
  <2>4. RecordInv'
    BY DEF RecordInv, WorkerInv, BeforeInv, LeaderInv, OutputInv
  <2>5. OutputInv'
    BY DEF OutputInv, BeforeInv
  <2>6. DiskInv'
    BY DEF DiskInv, LeaderInv
  <2>7. SignalInv'
    BY DEF SignalInv, ReceivedIsForwarded
  <2>8. EndInv'
    BY DEF EndInv, BeforeInv, LeaderInv
  <2>9. ResultInv'
    BY Unfinished
  <2> QED
    BY <2>1, <2>2, <2>3, <2>4, <2>5, <2>6, <2>7, <2>8, <2>9 DEF Inv
<1>17. ASSUME RestoreAndReport
      PROVE  Inv'
  <2> USE <1>17 DEF RestoreAndReport, worldFrame, leaderVars, procVars, Inv
  <2>1. BeforeInv'
    BY DEF BeforeInv
  <2>2. LeaderInv'
    BY DEF LeaderInv, BeforeInv, WorkerInv
  <2>3. WorkerInv'
    BY DEF WorkerInv, BeforeInv, LeaderInv
  <2>4. RecordInv'
    BY DEF RecordInv, WorkerInv, BeforeInv, LeaderInv, OutputInv
  <2>5. OutputInv'
    BY DEF OutputInv, BeforeInv
  <2>6. DiskInv'
    BY DEF DiskInv, LeaderInv
  <2>7. SignalInv'
    BY DEF SignalInv, ReceivedIsForwarded
  <2>8. EndInv'
    BY DEF EndInv, BeforeInv, LeaderInv
  <2>9. ResultInv'
    <3>1. /\ UNCHANGED <<flags, where, holds, pipe, file, lost, over, status, image>>
          /\ UNCHANGED <<installed, bubblewrap>>
      OBVIOUS
    <3>2. /\ "child_reaped" \in flags /\ "output_eof" \in flags
          /\ \A p \in Procs : where[p] # "group"
      BY DEF EndInv
    <3>3. result' = Verdict
      OBVIOUS
    <3> HIDE <1>17 DEF RestoreAndReport
    <3>4. result' \notin {"cleanup_unverified", "setup_failed", "monitor_unverified"} =>
            /\ Drained /\ Leader = "dead"
            /\ "setup_failure" \notin flags /\ "monitor_unverified" \notin flags
      BY <3>2, <3>3, VerdictMeans DEF LeaderInv
    <3>5. result' \in {"exited", "signaled", "interrupted"} =>
            /\ "output_exceeded" \notin flags /\ "disk_exceeded" \notin flags
            /\ result' = "exited" => status = "exited"
      BY <3>3, VerdictMeans
    <3>6. NothingLeft'
      <4>1. GroupGone'
        BY <3>1, <3>2 DEF GroupGone
      <4>2. Terminal' =>
              result' \notin {"cleanup_unverified", "setup_failed", "monitor_unverified"}
        BY DEF Terminal, receipt_status
      <4>3. TerminalHasNoWriter'
        BY <4>2, <3>1, <3>4 DEF TerminalHasNoWriter, OutputInv
      <4>4. TargetGone'
        BY <4>2, <3>1, <3>4 DEF TargetGone, Runs, LeaderInv
      <4> QED
        BY <4>1, <4>3, <4>4 DEF NothingLeft
    <3>7. OutputTruthful'
      <4>1. result' = "output" => lost' /\ file' = OutputLimit
        BY <3>1, <3>3, VerdictMeans DEF OutputInv
      <4>2. result' \in {"exited", "signaled", "interrupted"} => ~lost' /\ pipe' = 0
        BY <3>1, <3>4, <3>5 DEF OutputInv
      <4> QED
        BY <4>1, <4>2 DEF OutputTruthful
    <3>8. LimitsHeld'
      <4>1. result' = "exited" /\ NoDescendant => ~over
        BY <3>2, <3>4, <3>5 DEF DiskInv
      <4>2. result' = "exited" /\ bubblewrap => installed
        BY <3>2, <3>4, <3>5 DEF RecordInv, LeaderInv
      <4> QED
        BY <4>1, <4>2, <3>1 DEF LimitsHeld, LoneTargetWithinDisk,
            AttestedIsInstalledOnLinux, AttestedIsInstalled
    <3> QED
      BY <3>6, <3>7, <3>8 DEF ResultInv
  <2> QED
    BY <2>1, <2>2, <2>3, <2>4, <2>5, <2>6, <2>7, <2>8, <2>9 DEF Inv
<1>18. ASSUME WorkerFails
      PROVE  Inv'
  <2> USE <1>18 DEF WorkerFails, targetFrame, callFrame, superVars, signalVars,
      procVars, Inv
  <2>1. BeforeInv'
    BY DEF BeforeInv
  <2>2. LeaderInv'
    BY DEF LeaderInv, BeforeInv, WorkerInv
  <2>3. WorkerInv'
    BY DEF WorkerInv, BeforeInv, LeaderInv
  <2>4. RecordInv'
    BY DEF RecordInv, WorkerInv, BeforeInv, LeaderInv, OutputInv
  <2>5. OutputInv'
    BY DEF OutputInv, BeforeInv
  <2>6. DiskInv'
    BY DEF DiskInv, LeaderInv
  <2>7. SignalInv'
    BY DEF SignalInv, ReceivedIsForwarded
  <2>8. EndInv'
    BY DEF EndInv, BeforeInv, LeaderInv
  <2>9. ResultInv'
    BY Unfinished
  <2> QED
    BY <2>1, <2>2, <2>3, <2>4, <2>5, <2>6, <2>7, <2>8, <2>9 DEF Inv
<1>19. ASSUME WorkerExecs
      PROVE  Inv'
  <2> USE <1>19 DEF WorkerExecs, Fault, NoFault, callFrame, superVars, signalVars,
      procVars, Inv
  <2>1. BeforeInv'
    BY DEF BeforeInv
  <2>2. LeaderInv'
    BY DEF LeaderInv, BeforeInv, WorkerInv
  <2>3. WorkerInv'
    BY DEF WorkerInv, BeforeInv, LeaderInv
  <2>4. RecordInv'
    BY DEF RecordInv, WorkerInv, BeforeInv, LeaderInv, OutputInv
  <2>5. OutputInv'
    BY DEF OutputInv, BeforeInv
  <2>6. DiskInv'
    BY DEF DiskInv, LeaderInv
  <2>7. SignalInv'
    BY DEF SignalInv, ReceivedIsForwarded
  <2>8. EndInv'
    BY DEF EndInv, BeforeInv, LeaderInv
  <2>9. ResultInv'
    BY Unfinished
  <2> QED
    BY <2>1, <2>2, <2>3, <2>4, <2>5, <2>6, <2>7, <2>8, <2>9 DEF Inv
<1>20. ASSUME LeaderExits
      PROVE  Inv'
  <2> USE <1>20 DEF LeaderExits, LeaderEnds, targetFrame, callFrame, superVars,
      signalVars, Inv
  <2>1. BeforeInv'
    BY DEF BeforeInv
  <2>2. LeaderInv'
    BY DEF LeaderInv, BeforeInv, WorkerInv
  <2>3. WorkerInv'
    BY DEF WorkerInv, BeforeInv, LeaderInv
  <2>4. RecordInv'
    BY DEF RecordInv, WorkerInv, BeforeInv, LeaderInv, OutputInv
  <2>5. OutputInv'
    BY DEF OutputInv, BeforeInv
  <2>6. DiskInv'
    BY DEF DiskInv, LeaderInv
  <2>7. SignalInv'
    BY DEF SignalInv, ReceivedIsForwarded
  <2>8. EndInv'
    BY DEF EndInv, BeforeInv, LeaderInv
  <2>9. ResultInv'
    BY Unfinished
  <2> QED
    BY <2>1, <2>2, <2>3, <2>4, <2>5, <2>6, <2>7, <2>8, <2>9 DEF Inv
<1>21. ASSUME TargetForks
      PROVE  Inv'
  <2> USE <1>21 DEF TargetForks, targetFrame, callFrame, Runs, superVars, signalVars,
      leaderVars,
      Inv
  <2>1. BeforeInv'
    BY DEF BeforeInv
  <2>2. LeaderInv'
    BY DEF LeaderInv, BeforeInv, WorkerInv
  <2>3. WorkerInv'
    BY DEF WorkerInv, BeforeInv, LeaderInv
  <2>4. RecordInv'
    BY DEF RecordInv, WorkerInv, BeforeInv, LeaderInv, OutputInv
  <2>5. OutputInv'
    BY DEF OutputInv, BeforeInv
  <2>6. DiskInv'
    BY DEF DiskInv, LeaderInv
  <2>7. SignalInv'
    BY DEF SignalInv, ReceivedIsForwarded
  <2>8. EndInv'
    BY DEF EndInv, BeforeInv, LeaderInv
  <2>9. ResultInv'
    BY Unfinished
  <2> QED
    BY <2>1, <2>2, <2>3, <2>4, <2>5, <2>6, <2>7, <2>8, <2>9 DEF Inv
<1>22. ASSUME DescendantDetaches
      PROVE  Inv'
  <2> USE <1>22 DEF DescendantDetaches, targetFrame, callFrame, superVars, signalVars,
      leaderVars,
      Inv
  <2>1. BeforeInv'
    BY DEF BeforeInv
  <2>2. LeaderInv'
    BY DEF LeaderInv, BeforeInv, WorkerInv
  <2>3. WorkerInv'
    BY DEF WorkerInv, BeforeInv, LeaderInv
  <2>4. RecordInv'
    BY DEF RecordInv, WorkerInv, BeforeInv, LeaderInv, OutputInv
  <2>5. OutputInv'
    BY DEF OutputInv, BeforeInv
  <2>6. DiskInv'
    BY DEF DiskInv, LeaderInv
  <2>7. SignalInv'
    BY DEF SignalInv, ReceivedIsForwarded
  <2>8. EndInv'
    BY DEF EndInv, BeforeInv, LeaderInv
  <2>9. ResultInv'
    BY Unfinished
  <2> QED
    BY <2>1, <2>2, <2>3, <2>4, <2>5, <2>6, <2>7, <2>8, <2>9 DEF Inv
<1>23. ASSUME ClosesOutput
      PROVE  Inv'
  <2> USE <1>23 DEF ClosesOutput, targetFrame, callFrame, Runs, superVars, signalVars,
      leaderVars,
      Inv
  <2>1. BeforeInv'
    BY DEF BeforeInv
  <2>2. LeaderInv'
    BY DEF LeaderInv, BeforeInv, WorkerInv
  <2>3. WorkerInv'
    BY DEF WorkerInv, BeforeInv, LeaderInv
  <2>4. RecordInv'
    BY DEF RecordInv, WorkerInv, BeforeInv, LeaderInv, OutputInv
  <2>5. OutputInv'
    BY DEF OutputInv, BeforeInv
  <2>6. DiskInv'
    BY DEF DiskInv, LeaderInv
  <2>7. SignalInv'
    BY DEF SignalInv, ReceivedIsForwarded
  <2>8. EndInv'
    BY DEF EndInv, BeforeInv, LeaderInv
  <2>9. ResultInv'
    BY Unfinished
  <2> QED
    BY <2>1, <2>2, <2>3, <2>4, <2>5, <2>6, <2>7, <2>8, <2>9 DEF Inv
<1>24. ASSUME DescendantExits
      PROVE  Inv'
  <2> USE <1>24 DEF DescendantExits, targetFrame, callFrame, Runs, superVars,
      signalVars,
      leaderVars, Inv
  <2>1. BeforeInv'
    BY DEF BeforeInv
  <2>2. LeaderInv'
    BY DEF LeaderInv, BeforeInv, WorkerInv
  <2>3. WorkerInv'
    BY DEF WorkerInv, BeforeInv, LeaderInv
  <2>4. RecordInv'
    BY DEF RecordInv, WorkerInv, BeforeInv, LeaderInv, OutputInv
  <2>5. OutputInv'
    BY DEF OutputInv, BeforeInv
  <2>6. DiskInv'
    BY DEF DiskInv, LeaderInv
  <2>7. SignalInv'
    BY DEF SignalInv, ReceivedIsForwarded
  <2>8. EndInv'
    BY DEF EndInv, BeforeInv, LeaderInv
  <2>9. ResultInv'
    BY Unfinished
  <2> QED
    BY <2>1, <2>2, <2>3, <2>4, <2>5, <2>6, <2>7, <2>8, <2>9 DEF Inv
<1>25. ASSUME WritesOutput
      PROVE  Inv'
  <2> USE <1>25 DEF WritesOutput, targetFrame, callFrame, Runs, superVars, signalVars,
      leaderVars,
      procVars, Inv
  <2>1. BeforeInv'
    BY DEF BeforeInv
  <2>2. LeaderInv'
    BY DEF LeaderInv, BeforeInv, WorkerInv
  <2>3. WorkerInv'
    BY DEF WorkerInv, BeforeInv, LeaderInv
  <2>4. RecordInv'
    BY DEF RecordInv, WorkerInv, BeforeInv, LeaderInv, OutputInv
  <2>5. OutputInv'
    BY DEF OutputInv, BeforeInv
  <2>6. DiskInv'
    BY DEF DiskInv, LeaderInv
  <2>7. SignalInv'
    BY DEF SignalInv, ReceivedIsForwarded
  <2>8. EndInv'
    BY DEF EndInv, BeforeInv, LeaderInv
  <2>9. ResultInv'
    BY Unfinished
  <2> QED
    BY <2>1, <2>2, <2>3, <2>4, <2>5, <2>6, <2>7, <2>8, <2>9 DEF Inv
<1>26. ASSUME WritesFiles
      PROVE  Inv'
  <2> USE <1>26 DEF WritesFiles, targetFrame, callFrame, Runs, superVars, signalVars,
      leaderVars,
      procVars, Inv
  <2>1. BeforeInv'
    BY DEF BeforeInv
  <2>2. LeaderInv'
    BY DEF LeaderInv, BeforeInv, WorkerInv
  <2>3. WorkerInv'
    BY DEF WorkerInv, BeforeInv, LeaderInv
  <2>4. RecordInv'
    BY DEF RecordInv, WorkerInv, BeforeInv, LeaderInv, OutputInv
  <2>5. OutputInv'
    BY DEF OutputInv, BeforeInv
  <2>6. DiskInv'
    BY DEF DiskInv, LeaderInv
  <2>7. SignalInv'
    BY DEF SignalInv, ReceivedIsForwarded
  <2>8. EndInv'
    BY DEF EndInv, BeforeInv, LeaderInv
  <2>9. ResultInv'
    BY Unfinished
  <2> QED
    BY <2>1, <2>2, <2>3, <2>4, <2>5, <2>6, <2>7, <2>8, <2>9 DEF Inv
<1>27. ASSUME KernelEnds
      PROVE  Inv'
  <2> USE <1>27 DEF KernelEnds, LeaderEnds, targetFrame, callFrame, superVars,
      signalVars, Inv
  <2>1. BeforeInv'
    BY DEF BeforeInv
  <2>2. LeaderInv'
    BY DEF LeaderInv, BeforeInv, WorkerInv
  <2>3. WorkerInv'
    BY DEF WorkerInv, BeforeInv, LeaderInv
  <2>4. RecordInv'
    BY DEF RecordInv, WorkerInv, BeforeInv, LeaderInv, OutputInv
  <2>5. OutputInv'
    BY DEF OutputInv, BeforeInv
  <2>6. DiskInv'
    BY DEF DiskInv, LeaderInv
  <2>7. SignalInv'
    BY DEF SignalInv, ReceivedIsForwarded
  <2>8. EndInv'
    BY DEF EndInv, BeforeInv, LeaderInv
  <2>9. ResultInv'
    BY Unfinished
  <2> QED
    BY <2>1, <2>2, <2>3, <2>4, <2>5, <2>6, <2>7, <2>8, <2>9 DEF Inv
<1>28. ASSUME Tick
      PROVE  Inv'
  <2> USE <1>28 DEF Tick, superVars, signalVars, leaderVars, outputVars, procVars, Inv
  <2>1. BeforeInv'
    BY DEF BeforeInv
  <2>2. LeaderInv'
    BY DEF LeaderInv, BeforeInv, WorkerInv
  <2>3. WorkerInv'
    BY DEF WorkerInv, BeforeInv, LeaderInv
  <2>4. RecordInv'
    BY DEF RecordInv, WorkerInv, BeforeInv, LeaderInv, OutputInv
  <2>5. OutputInv'
    BY DEF OutputInv, BeforeInv
  <2>6. DiskInv'
    BY DEF DiskInv, LeaderInv
  <2>7. SignalInv'
    BY DEF SignalInv, ReceivedIsForwarded
  <2>8. EndInv'
    BY DEF EndInv, BeforeInv, LeaderInv
  <2>9. ResultInv'
    BY Unfinished
  <2> QED
    BY <2>1, <2>2, <2>3, <2>4, <2>5, <2>6, <2>7, <2>8, <2>9 DEF Inv
<1>29. ASSUME forward_signal
      PROVE  Inv'
  <2> USE <1>29 DEF forward_signal, superVars, leaderVars, outputVars, procVars, Inv
  <2>1. BeforeInv'
    BY DEF BeforeInv
  <2>2. LeaderInv'
    BY DEF LeaderInv, BeforeInv, WorkerInv
  <2>3. WorkerInv'
    BY DEF WorkerInv, BeforeInv, LeaderInv
  <2>4. RecordInv'
    BY DEF RecordInv, WorkerInv, BeforeInv, LeaderInv, OutputInv
  <2>5. OutputInv'
    BY DEF OutputInv, BeforeInv
  <2>6. DiskInv'
    BY DEF DiskInv, LeaderInv
  <2>7. SignalInv'
    BY DEF SignalInv, ReceivedIsForwarded
  <2>8. EndInv'
    BY DEF EndInv, BeforeInv, LeaderInv
  <2>9. ResultInv'
    BY Unfinished
  <2> QED
    BY <2>1, <2>2, <2>3, <2>4, <2>5, <2>6, <2>7, <2>8, <2>9 DEF Inv
<1>30. ASSUME UNCHANGED vars
      PROVE  Inv'
  <2> USE <1>30 DEF vars, superVars, signalVars, leaderVars, outputVars, procVars, Inv
  <2>1. BeforeInv'
    BY DEF BeforeInv
  <2>2. LeaderInv'
    BY DEF LeaderInv, BeforeInv, WorkerInv
  <2>3. WorkerInv'
    BY DEF WorkerInv, BeforeInv, LeaderInv
  <2>4. RecordInv'
    BY DEF RecordInv, WorkerInv, BeforeInv, LeaderInv, OutputInv
  <2>5. OutputInv'
    BY DEF OutputInv, BeforeInv
  <2>6. DiskInv'
    BY DEF DiskInv, LeaderInv
  <2>7. SignalInv'
    BY DEF SignalInv, ReceivedIsForwarded
  <2>8. EndInv'
    BY DEF EndInv, BeforeInv, LeaderInv
  <2>9. ResultInv'
    BY DEF ResultInv, NothingLeft, GroupGone, TerminalHasNoWriter, TargetGone,
           OutputTruthful, LimitsHeld, LoneTargetWithinDisk, AttestedIsInstalled,
           AttestedIsInstalledOnLinux,
           Terminal, Done, Live, Runs
  <2> QED
    BY <2>1, <2>2, <2>3, <2>4, <2>5, <2>6, <2>7, <2>8, <2>9 DEF Inv
<1> QED
  BY <1>1, <1>2, <1>3, <1>4, <1>5, <1>6, <1>7, <1>8, <1>9, <1>10, <1>11, <1>12, <1>13,
     <1>14, <1>15, <1>16, <1>17, <1>18, <1>19, <1>20, <1>21, <1>22, <1>23, <1>24, <1>25,
     <1>26, <1>27, <1>28, <1>29, <1>30
  DEF Next, Supervise, Target

\* Nothing is spawned, set, or written yet.
LEMMA InvInit == Init => Inv
<1> SUFFICES ASSUME Init
             PROVE  Inv
  OBVIOUS
<1>1. TypeOK
  <2>1. BooleansOK
    BY DEF Init, BooleansOK
  <2> QED
    BY <2>1, SupervisorAssumption
    DEF Init, TypeOK, BooleansOK, SupervisorPCs, Flags, Kinds, Clocks, Unset, Procs
<1>2. BeforeInv
  BY DEF Init, BeforeInv
<1>3. \A p \in Procs : where[p] = "unborn"
  BY DEF Init
<1>4. LeaderInv /\ WorkerInv
  BY <1>3 DEF Init, LeaderInv, WorkerInv, Leader, NoDescendant, Procs, Before
<1>5. RecordInv
  BY DEF Init, RecordInv
<1>6. OutputInv /\ DiskInv /\ EndInv
  BY DEF Init, OutputInv, DiskInv, EndInv, Drained
<1>7. SignalInv
  BY DEF Init, SignalInv, ReceivedIsForwarded, Loop
<1>8. ResultInv
  BY DEF Init, ResultInv, NothingLeft, GroupGone, TerminalHasNoWriter, TargetGone,
         OutputTruthful, LimitsHeld, LoneTargetWithinDisk, AttestedIsInstalled,
         AttestedIsInstalledOnLinux,
         Terminal, Done
<1> QED
  BY <1>1, <1>2, <1>4, <1>5, <1>6, <1>7, <1>8 DEF Inv

\* Inv holds in every state of a call and its target.
THEOREM SupervisorInvariant == Spec => []Inv
  BY InvInit, InvNext, PTL DEF Spec

(***************************************************************************)
(* The supervisor and its target keep their types: the recorded output is  *)
(* never longer than the limit of the request.                             *)
(***************************************************************************)
THEOREM TypeCorrect == Spec => []TypeOK
<1>1. Inv => TypeOK
  BY DEF Inv
<1> QED
  BY <1>1, SupervisorInvariant, PTL

(***************************************************************************)
(* moonfort_local_supervisor_run never returns with a process of the       *)
(* leader's group running, nor, after a terminal result, with a holder of  *)
(* the output pipe or, in the namespace, anything of the target, whatever  *)
(* the target forks, detaches or closes.                                   *)
(***************************************************************************)
THEOREM NothingIsLeft == Spec => []NothingLeft
<1>1. Inv => NothingLeft
  BY DEF Inv, ResultInv
<1> QED
  BY <1>1, SupervisorInvariant, PTL

(***************************************************************************)
(* The recorded output is everything the target wrote after an exit, a     *)
(* signal or an interruption, and the limit exactly after an output kill.  *)
(***************************************************************************)
THEOREM OutputIsTruthful == Spec => []OutputTruthful
<1>1. Inv => OutputTruthful
  BY DEF Inv, ResultInv
<1> QED
  BY <1>1, SupervisorInvariant, PTL

(***************************************************************************)
(* A normal exit vouches for the disk limit of a target that forked        *)
(* nothing and, on Linux, for the address-space limit the result attests.  *)
(* On macOS the latter is false of the code, and AttestedIsInstalled no    *)
(* theorem.                                                                *)
(***************************************************************************)
THEOREM LimitsAreHeld == Spec => []LimitsHeld
<1>1. Inv => LimitsHeld
  BY DEF Inv, ResultInv
<1> QED
  BY <1>1, SupervisorInvariant, PTL

(***************************************************************************)
(* A signal that forward_signal recorded has reached the group whenever    *)
(* the loop runs, the window between posix_spawn and active_child          *)
(* included.                                                               *)
(***************************************************************************)
THEOREM SignalIsForwarded == Spec => []ReceivedIsForwarded
<1>1. Inv => ReceivedIsForwarded
  BY DEF Inv, SignalInv
<1> QED
  BY <1>1, SupervisorInvariant, PTL
=============================================================================
