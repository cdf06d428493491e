----------------------------- MODULE Supervisor -----------------------------
(***************************************************************************)
(* moonfort_local_supervisor_run (internal/local_supervisor/supervisor.c): *)
(* one call spawns a worker in a fresh process group, which applies its    *)
(* limits and execs the target, and then loops over the deadline, the      *)
(* resource monitors, waitpid, the setup pipe and the output pipe until    *)
(* the leader is reaped and the output pipe is at its end.  The target's   *)
(* processes, the kernel, the clock and signals to the executor interleave *)
(* with every step of the loop.                                            *)
(***************************************************************************)
EXTENDS Naturals, FiniteSets

CONSTANTS Descendants,   \* processes the target may fork
          Processes,     \* the process limit of the request
          OutputLimit,   \* the output limit of the request, in bytes
          PipeCapacity,  \* bytes the output pipe buffers
          MaxFaults      \* bound on failing system calls

ASSUME SupervisorAssumption ==
  /\ "leader" \notin Descendants
  /\ Processes \in Nat \ {0} /\ OutputLimit \in Nat \ {0}
  /\ PipeCapacity \in Nat \ {0}
  /\ MaxFaults \in Nat

VARIABLES
  bubblewrap, \* Linux: a PID namespace that dies with the leader; never changes
  spc,        \* where the supervisor is
  flags,      \* its local flags that are set
  now,        \* the clock as read at the head of the iteration
  ready,      \* the descriptors poll reported
  result,     \* the kind it returned
  attested,   \* its applied_limits claim the address-space limit
  received,   \* received_signal # 0
  active,     \* active_child > 0
  signalled,  \* the executor was sent a signal, since the reset if there was one
  forwarded,  \* history: the group was sent that signal
  where,      \* each process: unborn, group, detached, doomed, dead
  holds,      \* the processes that hold the write end of the output pipe
  image,      \* the leader runs the worker, is failing its setup, or the target
  status,     \* how the leader ended, for waitpid
  installed,  \* the worker installed the address-space limit
  setup,      \* the setup pipe: open, record (a failure is written), closed
  pipe,       \* bytes buffered in the output pipe
  file,       \* output_written: bytes given to the output file
  lost,       \* history: a byte of the target was not kept
  over,       \* the scratch tree exceeds aggregate_disk_bytes
  clock,      \* the deadline has passed; the drain window: unset, open, over
  faults

superVars == <<spc, flags, now, ready, result, attested>>
signalVars == <<received, active, signalled, forwarded>>
leaderVars == <<image, status, installed, setup>>
outputVars == <<pipe, file, lost>>
procVars == <<where, holds>>
vars == <<bubblewrap, superVars, signalVars, procVars, leaderVars, outputVars, over,
          clock, faults>>

Procs == Descendants \cup {"leader"}
SupervisorPCs == {"open", "handlers", "reset", "spawn", "publish", "check",
                  "head", "monitor", "disk", "wait", "poll", "setup", "output",
                  "drain", "finish", "restore", "done"}
Flags == {"child_reaped", "output_eof", "setup_eof", "group_killed", "timed_out",
          "output_exceeded", "disk_exceeded", "process_exceeded",
          "monitor_unverified", "cleanup_unverified", "setup_failure", "setup_record"}
Kinds == {"none", "exited", "signaled", "interrupted", "timed_out",
          "output", "disk", "process_count", "monitor_unverified",
          "setup_failed", "cleanup_unverified"}
Clocks == [wall : BOOLEAN, drain : {"unset", "open", "over"}]
Unset == [wall |-> FALSE, drain |-> "unset"]

TypeOK ==
  /\ spc \in SupervisorPCs
  /\ flags \in SUBSET Flags
  /\ now \in Clocks /\ clock \in Clocks
  /\ ready \in SUBSET {"setup", "output"}
  /\ result \in Kinds /\ attested \in BOOLEAN
  /\ received \in BOOLEAN /\ active \in BOOLEAN
  /\ signalled \in BOOLEAN /\ forwarded \in BOOLEAN
  /\ where \in [Procs -> {"unborn", "group", "detached", "doomed", "dead"}]
  /\ holds \in SUBSET Procs
  /\ image \in {"worker", "failing", "target"}
  /\ status \in {"none", "exited", "signaled"} /\ installed \in BOOLEAN
  /\ setup \in {"open", "record", "closed"}
  /\ pipe \in 0..PipeCapacity
  /\ file \in 0..OutputLimit
  /\ lost \in BOOLEAN /\ over \in BOOLEAN
  /\ bubblewrap \in BOOLEAN /\ faults \in 0..MaxFaults

Init ==
  /\ spc = "open" /\ flags = {} /\ ready = {}
  /\ result = "none" /\ attested = FALSE
  /\ clock = Unset /\ now = Unset
  /\ received = FALSE /\ active = FALSE
  /\ signalled = FALSE /\ forwarded = FALSE
  /\ where = [p \in Procs |-> "unborn"] /\ holds = {}
  /\ image = "worker" /\ status = "none" /\ installed = FALSE /\ setup = "open"
  /\ pipe = 0 /\ file = 0 /\ lost = FALSE
  /\ over \in BOOLEAN       \* the copied workspace may already be too large
  /\ bubblewrap \in BOOLEAN    \* Linux, macOS
  /\ faults = 0

Fault == faults < MaxFaults /\ faults' = faults + 1
NoFault == UNCHANGED faults

-----------------------------------------------------------------------------
(***************************************************************************)
(* The processes of the target.  SIGKILL dooms a process: it runs no more  *)
(* code, and the kernel ends it some time later.                           *)
(***************************************************************************)
Runs(p) == where[p] \in {"group", "detached"} /\ (p = "leader" => image = "target")
Live(p) == where[p] \in {"group", "detached", "doomed"}

\* The processes are followed until the call returns.
callFrame == /\ spc # "done"
             /\ UNCHANGED <<bubblewrap, superVars, signalVars, clock, file, lost>>
targetFrame == callFrame /\ UNCHANGED faults

kill_group_LeaderOnly == where' = [p \in Procs |->
  IF p = "leader" /\ where[p] = "group" THEN "doomed" ELSE where[p]]
\* kill_group(leader, SIGKILL): kill(-leader) reaches the leader's group.
kill_group == where' = [p \in Procs |-> IF where[p] = "group" THEN "doomed"
                                        ELSE where[p]]

\* The leader's end closes its pipes and, with bubblewrap, its namespace.
LeaderEnds(how) ==
  /\ where' = [p \in Procs |->
                 IF p = "leader" THEN "dead"
                 ELSE IF bubblewrap /\ where[p] \in {"group", "detached"}
                 THEN "doomed" ELSE where[p]]
  /\ holds' = holds \ {"leader"}
  /\ status' = how
  /\ setup' = IF setup = "record" THEN setup ELSE "closed"

\* child_fail: the worker reports the failing stage and exits with 126.
WorkerFails ==
  /\ where["leader"] = "group" /\ image = "worker"
  /\ image' = "failing" /\ setup' = "record"
  /\ UNCHANGED <<procVars, status, installed, pipe, over>> /\ targetFrame

WorkerExecs_Tolerant ==
  /\ where["leader"] = "group" /\ image = "worker"
  /\ image' = "target" /\ setup' = "closed"
  /\ \/ installed' = TRUE /\ NoFault
     \/ installed' = FALSE /\ Fault
  /\ UNCHANGED <<procVars, status, pipe, over>> /\ callFrame

\* The limits are installed and execve closes the setup pipe.  macOS may refuse
\* the address-space limit, which the worker tolerates; Linux fails the setup.
WorkerExecs ==
  /\ where["leader"] = "group" /\ image = "worker"
  /\ image' = "target" /\ setup' = "closed"
  /\ \/ installed' = TRUE /\ NoFault
     \/ ~bubblewrap /\ installed' = FALSE /\ Fault
  /\ UNCHANGED <<procVars, status, pipe, over>> /\ callFrame

\* The leader exits, or dies of a signal (its own, a limit's, a forwarded one).
LeaderExits ==
  /\ where["leader"] = "group"
  /\ \/ image \in {"failing", "target"} /\ LeaderEnds("exited")
     \/ LeaderEnds("signaled")
  /\ UNCHANGED <<image, installed, pipe, over>> /\ targetFrame

TargetForks ==
  /\ \E p \in Procs, d \in Descendants :
       /\ Runs(p) /\ where[d] = "unborn"
       /\ where' = [where EXCEPT ![d] = where[p]]
       /\ holds' = IF p \in holds THEN holds \cup {d} ELSE holds
  /\ UNCHANGED <<leaderVars, pipe, over>> /\ targetFrame

\* setsid() in a descendant leaves the leader's group.
DescendantDetaches ==
  /\ \E d \in Descendants : where[d] = "group"
                            /\ where' = [where EXCEPT ![d] = "detached"]
  /\ UNCHANGED <<holds, leaderVars, pipe, over>> /\ targetFrame

ClosesOutput ==
  /\ \E p \in holds : Runs(p) /\ holds' = holds \ {p}
  /\ UNCHANGED <<where, leaderVars, pipe, over>> /\ targetFrame

DescendantExits ==
  /\ \E d \in Descendants : /\ Runs(d)
                            /\ where' = [where EXCEPT ![d] = "dead"]
                            /\ holds' = holds \ {d}
  /\ UNCHANGED <<leaderVars, pipe, over>> /\ targetFrame

WritesOutput ==
  /\ \E p \in holds : Runs(p)
  /\ "output_eof" \notin flags
  /\ pipe < PipeCapacity /\ pipe' = pipe + 1
  /\ UNCHANGED <<procVars, leaderVars, over>> /\ targetFrame

WritesFiles ==
  /\ \E p \in Procs : Runs(p)
  /\ over' = ~over
  /\ UNCHANGED <<procVars, leaderVars, pipe>> /\ targetFrame

Target ==
  \/ WorkerFails \/ WorkerExecs \/ LeaderExits \/ TargetForks
  \/ DescendantDetaches \/ ClosesOutput \/ DescendantExits
  \/ WritesOutput \/ WritesFiles

\* The kernel ends a doomed process.
KernelEnds ==
  /\ \E p \in Procs :
       /\ where[p] = "doomed"
       /\ IF p = "leader" THEN LeaderEnds("signaled")
          ELSE /\ where' = [where EXCEPT ![p] = "dead"]
               /\ holds' = holds \ {p}
               /\ UNCHANGED <<status, setup>>
  /\ UNCHANGED <<image, installed, pipe, over>> /\ targetFrame

\* Time passes: the wall-clock deadline, and 250 ms after the first kill.
Tick ==
  /\ spc # "done"
  /\ \/ ~clock.wall /\ clock' = [clock EXCEPT !.wall = TRUE]
     \/ clock.drain = "open" /\ clock' = [clock EXCEPT !.drain = "over"]
  /\ UNCHANGED <<bubblewrap, superVars, signalVars, procVars, leaderVars, outputVars,
                 over, faults>>

\* forward_signal, while the handlers are installed: one signal before
\* received_signal is reset and one after it.
forward_signal ==
  /\ spc \in SupervisorPCs \ {"open", "handlers", "done"}
  /\ ~signalled /\ signalled' = TRUE
  /\ received' = TRUE
  /\ forwarded' = (forwarded \/ active)
  /\ UNCHANGED <<bubblewrap, superVars, active, procVars, leaderVars, outputVars, over,
                 clock, faults>>

-----------------------------------------------------------------------------
(***************************************************************************)
(* The supervisor up to the loop.  Every failure before the spawn answers  *)
(* setup_failed; the handlers are installed from InstallHandlers on.       *)
(***************************************************************************)
worldFrame == UNCHANGED <<bubblewrap, leaderVars, pipe, lost, file, over>>

SetupStep(from, to) ==
  /\ spc = from
  /\ \/ spc' = to /\ NoFault /\ UNCHANGED <<result, attested>>
     \/ spc' = "done" /\ result' = "setup_failed" /\ attested' = FALSE /\ Fault
  /\ UNCHANGED <<flags, now, ready, clock>> /\ worldFrame

\* Validation, the output file (O_EXCL) and the pipes.
OpenOutput == SetupStep("open", "handlers") /\ UNCHANGED <<signalVars, procVars>>

InstallHandlers ==
  SetupStep("handlers", "reset") /\ UNCHANGED <<signalVars, procVars>>

\* received_signal = 0, after the worker's arguments were put together.
ResetSignal ==
  /\ SetupStep("reset", "spawn")
  /\ received' = FALSE /\ signalled' = FALSE
  /\ UNCHANGED <<active, forwarded, procVars>>

SpawnWorker ==
  /\ SetupStep("spawn", "publish")
  /\ IF spc' = "publish"
     THEN /\ where' = [where EXCEPT !["leader"] = "group"]
          /\ holds' = {"leader"}
     ELSE UNCHANGED procVars
  /\ UNCHANGED signalVars

PublishChild ==
  /\ spc = "publish" /\ spc' = "check"
  /\ active' = TRUE
  /\ UNCHANGED <<flags, now, ready, result, attested, received, signalled,
                 forwarded, procVars, clock, faults>> /\ worldFrame

CheckSignal_Omitted ==
  /\ spc = "check" /\ spc' = "head"
  /\ UNCHANGED <<flags, now, ready, result, attested, signalVars, procVars,
                 clock, faults>> /\ worldFrame

\* A signal that came between the spawn and active_child is forwarded here.
CheckSignal ==
  /\ spc = "check" /\ spc' = "head"
  /\ forwarded' = (forwarded \/ received)
  /\ UNCHANGED <<flags, now, ready, result, attested, received, active,
                 signalled, procVars, clock, faults>> /\ worldFrame

-----------------------------------------------------------------------------
(***************************************************************************)
(* One iteration of the loop.                                              *)
(***************************************************************************)
Kill(new) == kill_group /\ flags' = flags \cup new \cup {"group_killed"}
NoKill == UNCHANGED <<flags, where>>

LoopStep(from, to) ==
  /\ spc = from /\ spc' = to
  /\ UNCHANGED <<bubblewrap, result, attested, signalVars, holds, image, status,
                 installed, over>>

CheckDeadline ==
  /\ LoopStep("head", "monitor")
  /\ now' = clock
  /\ \/ clock.wall /\ "timed_out" \notin flags /\ Kill({"timed_out"})
     \/ (~clock.wall \/ "timed_out" \in flags) /\ NoKill
  /\ UNCHANGED <<ready, setup, outputVars, clock, faults>>

\* group_process_count: the group on macOS, the process tree on Linux.
group_process_count ==
  Cardinality({p \in Procs : Live(p) /\ (bubblewrap \/ where[p] # "detached")})

\* Sampled every 25 ms, so an iteration may skip it.
MonitorProcesses ==
  /\ \/ LoopStep("monitor", "wait") /\ NoKill /\ NoFault
     \/ /\ "group_killed" \notin flags
        /\ \/ /\ LoopStep("monitor", "wait")
              /\ Kill({"monitor_unverified"}) /\ Fault
           \/ /\ group_process_count > Processes
              /\ LoopStep("monitor", "wait")
              /\ Kill({"process_exceeded"}) /\ NoFault
           \/ /\ group_process_count <= Processes
              /\ LoopStep("monitor", "disk") /\ NoKill /\ NoFault
  /\ UNCHANGED <<now, ready, setup, outputVars, clock>>

MonitorDisk ==
  /\ LoopStep("disk", "wait")
  /\ \/ over /\ Kill({"disk_exceeded"}) /\ NoFault
     \/ ~over /\ NoKill /\ NoFault
     \/ Kill({"monitor_unverified"}) /\ Fault
  /\ UNCHANGED <<now, ready, setup, outputVars, clock>>

FinalScan_Omitted == {{}}
\* The last scan of the scratch tree, after the leader was reaped.
FinalScan ==
  IF flags \cap {"disk_exceeded", "monitor_unverified"} # {} THEN {{}}
  ELSE {IF over THEN {"disk_exceeded"} ELSE {}}

WaitLeader_NotYet ==
  /\ LoopStep("wait", "poll")
  /\ IF "child_reaped" \in flags THEN NoKill ELSE Kill({"child_reaped"})
  /\ UNCHANGED <<now, ready, setup, outputVars, clock, faults>>

WaitLeader ==
  /\ LoopStep("wait", "poll")
  /\ \/ /\ "child_reaped" \in flags \/ where["leader"] # "dead"
        /\ NoKill /\ NoFault
     \/ /\ "child_reaped" \notin flags /\ where["leader"] = "dead"
        /\ \/ /\ NoFault
              /\ \E found \in FinalScan : Kill({"child_reaped"} \cup found)
           \/ /\ flags \cap {"disk_exceeded", "monitor_unverified"} = {} /\ Fault
              /\ Kill({"child_reaped", "monitor_unverified"})
     \/ /\ "child_reaped" \notin flags /\ Fault      \* waitpid fails
        /\ Kill({"child_reaped", "setup_failure"})
  /\ UNCHANGED <<now, ready, setup, outputVars, clock>>

OutputReady == pipe > 0 \/ holds = {}

Poll ==
  /\ LoopStep("poll", "setup")
  /\ \/ /\ ready' = {d \in {"setup", "output"} :
                       \/ d = "setup" /\ "setup_eof" \notin flags /\ setup # "open"
                       \/ d = "output" /\ "output_eof" \notin flags /\ OutputReady}
        /\ NoKill /\ NoFault
     \/ signalled /\ ready' = {} /\ NoKill /\ NoFault       \* EINTR
     \/ ready' = {} /\ Kill({"setup_failure"}) /\ Fault
  /\ UNCHANGED <<now, setup, outputVars, clock>>

ReadSetup ==
  /\ LoopStep("setup", "output")
  /\ \/ "setup" \notin ready /\ NoKill /\ NoFault /\ UNCHANGED setup
     \/ /\ "setup" \in ready /\ setup = "record" /\ NoFault
        /\ Kill({"setup_failure", "setup_record"})
        /\ setup' = IF where["leader"] = "dead" THEN "closed" ELSE "open"
     \/ /\ "setup" \in ready /\ setup = "closed" /\ NoFault
        /\ flags' = flags \cup {"setup_eof"} /\ UNCHANGED <<where, setup>>
     \/ /\ "setup" \in ready /\ Fault /\ Kill({"setup_failure"})
        /\ UNCHANGED setup
  /\ ready' = ready \ {"setup"}
  /\ UNCHANGED <<now, outputVars, clock>>

Keep_All(n) == n
\* How much of a chunk of n bytes is kept.
Keep(n) == IF n < OutputLimit - file THEN n ELSE OutputLimit - file

\* The inner loop reads until the pipe is empty (EAGAIN) or at its end.
ReadOutput ==
  /\ "output" \in ready /\ pipe > 0
  /\ LoopStep("output", "output")
  /\ pipe' = 0 /\ file' = file + Keep(pipe)
  /\ \/ /\ Keep(pipe) = pipe /\ NoKill /\ NoFault /\ UNCHANGED lost
     \/ /\ Keep(pipe) < pipe /\ lost' = TRUE /\ NoFault
        /\ IF "output_exceeded" \in flags THEN NoKill
           ELSE Kill({"output_exceeded"})
     \/ /\ Keep(pipe) > 0 /\ lost' = TRUE /\ Fault     \* write_all fails
        /\ Kill({"setup_failure"} \cup
                IF Keep(pipe) < pipe THEN {"output_exceeded"} ELSE {})
  /\ UNCHANGED <<now, ready, setup, clock>>

StopReading ==
  /\ LoopStep("output", "drain")
  /\ \/ "output" \notin ready /\ NoKill /\ NoFault
     \/ /\ "output" \in ready /\ pipe = 0 /\ holds # {} /\ NoKill /\ NoFault
     \/ /\ "output" \in ready /\ pipe = 0 /\ holds = {} /\ NoFault
        /\ flags' = flags \cup {"output_eof"} /\ UNCHANGED where
     \/ "output" \in ready /\ Fault /\ Kill({"setup_failure"})
  /\ ready' = {}                          \* a new set of descriptors each iteration
  /\ UNCHANGED <<now, setup, outputVars, clock>>

GiveUp_Never == FALSE
\* A process outside the group may hold the pipe open: give it up after the
\* drain window, which opens with the first kill.
GiveUp == /\ {"group_killed", "child_reaped"} \subseteq flags
          /\ "output_eof" \notin flags /\ now.drain = "over"

CheckDrain_LeaderOnly ==
  /\ spc = "drain"
  /\ clock' = IF "group_killed" \in flags /\ clock.drain = "unset"
              THEN [clock EXCEPT !.drain = "open"] ELSE clock
  /\ LoopStep("drain", IF "child_reaped" \in flags THEN "finish" ELSE "head")
  /\ now' = Unset
  /\ UNCHANGED <<flags, ready, where, setup, pipe, file, lost, faults>>

CheckDrain ==
  /\ spc = "drain"
  /\ clock' = IF "group_killed" \in flags /\ clock.drain = "unset"
              THEN [clock EXCEPT !.drain = "open"] ELSE clock
  /\ \/ GiveUp /\ flags' = flags \cup {"cleanup_unverified", "output_eof"}
              /\ lost' = (lost \/ pipe > 0) /\ pipe' = 0
     \/ ~GiveUp /\ UNCHANGED <<flags, lost, pipe>>
  /\ LoopStep("drain", IF {"child_reaped", "output_eof"} \subseteq flags'
                       THEN "finish" ELSE "head")
  /\ now' = Unset                              \* read again by the next iteration
  /\ UNCHANGED <<ready, where, setup, file, faults>>

-----------------------------------------------------------------------------
(***************************************************************************)
(* The end of the call: a last kill, the handlers restored, the result.    *)
(***************************************************************************)
Finish ==
  /\ spc = "finish" /\ spc' = "restore"
  /\ kill_group /\ active' = FALSE
  /\ UNCHANGED <<flags, now, ready, result, attested, received, signalled,
                 forwarded, holds, clock, faults>> /\ worldFrame

Precedence_CleanupLast ==
  << <<"setup_failure", "setup_failed">>,
     <<"monitor_unverified", "monitor_unverified">>,
     <<"process_exceeded", "process_count">>, <<"disk_exceeded", "disk">>,
     <<"output_exceeded", "output">>, <<"timed_out", "timed_out">>,
     <<"cleanup_unverified", "cleanup_unverified">> >>

\* The order in which the flags decide the result.
Precedence ==
  << <<"cleanup_unverified", "cleanup_unverified">>,
     <<"setup_failure", "setup_failed">>,
     <<"monitor_unverified", "monitor_unverified">>,
     <<"process_exceeded", "process_count">>, <<"disk_exceeded", "disk">>,
     <<"output_exceeded", "output">>, <<"timed_out", "timed_out">> >>

Verdict ==
  LET raised == {i \in DOMAIN Precedence : Precedence[i][1] \in flags}
  IN  IF raised # {}
      THEN Precedence[CHOOSE i \in raised : \A j \in raised : i <= j][2]
      ELSE IF received THEN "interrupted" ELSE status

\* A worker that reported no failure is taken to have installed every limit.
RestoreAndReport ==
  /\ spc = "restore" /\ spc' = "done"
  /\ result' = Verdict /\ attested' = ("setup_record" \notin flags)
  /\ received' = FALSE
  /\ UNCHANGED <<flags, now, ready, active, signalled, forwarded, procVars,
                 clock, faults>> /\ worldFrame

Supervise ==
  \/ OpenOutput \/ InstallHandlers \/ ResetSignal \/ SpawnWorker
  \/ PublishChild \/ CheckSignal
  \/ CheckDeadline \/ MonitorProcesses \/ MonitorDisk \/ WaitLeader
  \/ Poll \/ ReadSetup \/ ReadOutput \/ StopReading \/ CheckDrain
  \/ Finish \/ RestoreAndReport

Next == Supervise \/ Target \/ KernelEnds \/ Tick \/ forward_signal

Spec == Init /\ [][Next]_vars

\* The executor and the kernel are scheduled and time passes; nothing is
\* assumed of the target.
FairSpec == Spec /\ WF_vars(Supervise) /\ WF_vars(KernelEnds) /\ WF_vars(Tick)

-----------------------------------------------------------------------------
(***************************************************************************)
(* Properties.                                                             *)
(***************************************************************************)
\* execute_local_invocation: the status of the receipt made from the result.
receipt_status(kind) ==
  CASE kind = "exited" -> "Exited"
    [] kind \in {"timed_out", "output", "disk", "process_count", "signaled",
                 "interrupted"} -> "Killed"
    [] kind = "setup_failed" -> "Failed"
    [] OTHER -> "Refused"

Done == spc = "done"
Terminal == Done /\ receipt_status(result) \in {"Exited", "Killed"}

\* The recorded output is what the target wrote: all of it after an exit or a
\* death by signal, and exactly output_bytes of it after an output-limit kill,
\* whatever the interleaving of writers, reads, exits and kills.
OutputTruthful ==
  /\ Done /\ result \in {"exited", "signaled", "interrupted"} => ~lost /\ pipe = 0
  /\ Done /\ result = "output" => lost /\ file = OutputLimit

\* The call never returns with a process of the leader's group still running.
GroupGone == Done => \A p \in Procs : where[p] # "group"

\* A terminal receipt is issued only when no process is left that holds the
\* output pipe; otherwise cleanup is unverified and the run is refused.
TerminalHasNoWriter == Terminal => \A p \in holds : ~Live(p)

\* A target that forked nothing cannot exit normally with a scratch tree over
\* its disk limit: the scan after the reaping closes the sampling window.
LoneTargetWithinDisk ==
  Done /\ result = "exited" /\ (\A d \in Descendants : where[d] = "unborn")
    => ~over

\* A signal the handler recorded has been sent to the group once the loop runs,
\* even if it came between posix_spawn and the publication of active_child.
ReceivedIsForwarded ==
  received /\ spc \in {"head", "monitor", "disk", "wait", "poll", "setup",
                       "output", "drain", "finish"} => forwarded

\* In bubblewrap's PID namespace a terminal receipt means that nothing of the
\* target still runs, detached processes included.
TargetGone == bubblewrap /\ Terminal => \A p \in Procs : ~Runs(p)

\* "Escaped sessions make cleanup unverified and the run refused": on every
\* platform, a terminal receipt means that nothing of the target still runs.
NothingEscapes == Terminal => \A p \in Procs : ~Runs(p)

\* What moonfort_local_supervisor_run leaves behind is what its result says:
\* never a process of the group; after a terminal receipt no holder of the output
\* and, in the namespace, nothing of the target at all.
NothingLeft == GroupGone /\ TerminalHasNoWriter /\ TargetGone

\* A receipt vouches for the address-space limit only if the worker installed it:
\* what the comment in worker_main and the README promise of every platform.
AttestedIsInstalled == Done /\ result = "exited" /\ attested => installed

\* On Linux it does.  Nothing is said of macOS, where a limit that the kernel
\* refused is attested all the same.
AttestedIsInstalledOnLinux == bubblewrap => AttestedIsInstalled

\* What a normal exit vouches for: the disk limit, on every platform, for a target
\* that forked nothing, and on Linux the address-space limit the result attests.
LimitsHeld == LoneTargetWithinDisk /\ AttestedIsInstalledOnLinux

\* The call returns whatever the target does, endless output in the namespace
\* and a detached holder of the pipe included; without the namespace, unless the
\* target writes for ever.
Returns == <>Done \/ []<><<~bubblewrap /\ WritesOutput>>_vars

\* The deadline bounds the call on every platform: it returns.
DeadlineReturns == <>Done
=============================================================================
