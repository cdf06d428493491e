--------------------------- MODULE SecurePromote ----------------------------
(***************************************************************************)
(* moonfort_secure_promote_regular (sandbox/secure_fs.c), the one native   *)
(* call that changes a workspace: it copies the reviewed source into a     *)
(* temporary name beside the destination and installs it with one atomic   *)
(* rename (a new file) or exchange (an existing one).  Other programs own  *)
(* the workspace too and edit the destination between any two calls.       *)
(***************************************************************************)
EXTENDS Naturals

CONSTANTS Foreign,     \* files that other programs may put at the destination
          MaxEdits,    \* bound on their edits
          MaxFaults    \* bound on I/O errors of the native call

ASSUME PromoteAssumption ==
  /\ MaxEdits \in Nat /\ MaxFaults \in Nat
  /\ {"none", "ours", "original"} \cap Foreign = {}

VARIABLES
  kind,        \* expected_destination_kind: 0 reviewed absent, 1 reviewed regular
  pc,
  destination, \* the file (inode) under the destination name
  temporary,   \* the file under .moonfort-<pid>-<nonce>.tmp
  reviewed,    \* the files whose content is the reviewed content
  output_status_valid, result,
  latest,      \* history: what the other programs last left at the destination
  lost,        \* history: files of theirs unlinked with unreviewed content
  shown,       \* history: whether our file was ever under the destination name
  misread,     \* history: whether inspecting the displaced file failed
  edits, faults

vars == <<kind, pc, destination, temporary, reviewed, output_status_valid, result,
          latest, lost, shown, misread, edits, faults>>
history == <<latest, lost, shown, misread>>

Inodes == Foreign \cup {"ours", "original"}
Results == {"OK", "INVALID", "SOURCE", "DESTINATION", "IO", "UNSUPPORTED"}
PCs == {"open", "inspect", "create", "copy", "fsync", "rename", "exchange", "verify",
        "check_installed", "exchange_back", "unlink", "leftover", "sync", "done",
        "crashed"}

TypeOK ==
  /\ kind \in {0, 1}
  /\ pc \in PCs
  /\ destination \in Inodes \cup {"none"}
  /\ temporary \in Inodes \cup {"none"}
  /\ reviewed \in SUBSET Inodes
  /\ output_status_valid \in BOOLEAN
  /\ result \in Results
  /\ latest \in Inodes \cup {"none"}
  /\ lost \in SUBSET Inodes
  /\ shown \in BOOLEAN /\ misread \in BOOLEAN
  /\ edits \in 0..MaxEdits /\ faults \in 0..MaxFaults

\* The plan has just observed the destination.  A foreign file may happen to
\* have the reviewed content.
Init ==
  /\ kind \in {0, 1}
  /\ pc = "open"
  /\ destination = IF kind = 0 THEN "none" ELSE "original"
  /\ temporary = "none"
  /\ \E same \in SUBSET Foreign : reviewed = same \cup {"original"}
  /\ output_status_valid = FALSE /\ result = "OK"
  /\ latest = destination /\ lost = {} /\ shown = FALSE /\ misread = FALSE
  /\ edits = 0 /\ faults = 0

-----------------------------------------------------------------------------
Fault == faults < MaxFaults /\ faults' = faults + 1
NoFault == UNCHANGED faults
FailsIf(c) == (c /\ NoFault) \/ Fault

Goto(to, r) == pc' = to /\ result' = r

Still == UNCHANGED <<kind, reviewed, edits>>

\* Arguments, roots, parents and the source file: refused before any effect.
OpenAll ==
  /\ pc = "open"
  /\ \/ Goto("inspect", "OK") /\ NoFault
     \/ (\E r \in {"INVALID", "SOURCE", "DESTINATION"} : Goto("done", r)) /\ Fault
  /\ UNCHANGED <<destination, temporary, output_status_valid, history>> /\ Still

\* inspect_destination_regular against the reviewed state; an inspection that
\* fails counts as a mismatch.
InspectDestination ==
  /\ pc = "inspect"
  /\ \/ /\ destination \in (IF kind = 0 THEN {"none"} ELSE reviewed)
        /\ Goto("create", "OK") /\ NoFault
     \/ /\ Goto("done", "DESTINATION")
        /\ FailsIf(destination \notin (IF kind = 0 THEN {"none"} ELSE reviewed))
  /\ UNCHANGED <<destination, temporary, output_status_valid, history>> /\ Still

CreateTemporary ==
  /\ pc = "create"
  /\ \/ temporary' = "ours" /\ Goto("copy", "OK") /\ NoFault
     \/ UNCHANGED temporary /\ Goto("done", "DESTINATION") /\ Fault
  /\ UNCHANGED <<destination, output_status_valid, history>> /\ Still

\* Copy and hash; the source may have changed (SOURCE) or a write fail (IO).
CopySource ==
  /\ pc = "copy"
  /\ \/ Goto("fsync", "OK") /\ NoFault
     \/ (\E r \in {"SOURCE", "IO"} : Goto("leftover", r)) /\ Fault
  /\ UNCHANGED <<destination, temporary, output_status_valid, history>> /\ Still

SyncTemporary ==
  /\ pc = "fsync"
  /\ \/ /\ output_status_valid' = TRUE /\ NoFault
        /\ Goto(IF kind = 0 THEN "rename" ELSE "exchange", "OK")
     \/ UNCHANGED output_status_valid /\ Goto("leftover", "IO") /\ Fault
  /\ UNCHANGED <<destination, temporary, history>> /\ Still

\* atomic_rename_no_replace; an unsupported file system refuses.
InstallNew ==
  /\ pc = "rename"
  /\ \/ /\ destination = "none"
        /\ destination' = "ours" /\ temporary' = "none" /\ shown' = TRUE
        /\ Goto("leftover", "OK") /\ NoFault
     \/ /\ (\E r \in {"DESTINATION", "UNSUPPORTED"} : Goto("leftover", r))
        /\ FailsIf(destination # "none")
        /\ UNCHANGED <<destination, temporary, shown>>
  /\ UNCHANGED <<output_status_valid, latest, lost, misread>> /\ Still

\* The raw errno is returned instead of a status of this library.
Exchange_Errno ==
  /\ pc = "exchange"
  /\ Goto("leftover", "ENOSYS") /\ NoFault
  /\ UNCHANGED <<destination, temporary, output_status_valid, history>> /\ Still

\* atomic_rename_exchange needs both names.
Exchange ==
  /\ pc = "exchange"
  /\ \/ /\ destination # "none"
        /\ destination' = temporary /\ temporary' = destination /\ shown' = TRUE
        /\ Goto("verify", "OK") /\ NoFault
     \/ /\ (\E r \in {"DESTINATION", "UNSUPPORTED"} : Goto("leftover", r))
        /\ FailsIf(destination = "none")
        /\ UNCHANGED <<destination, temporary, shown>>
  /\ UNCHANGED <<output_status_valid, latest, lost, misread>> /\ Still

\* The displaced file is not looked at: it was reviewed.
VerifyDisplaced_Trusting ==
  /\ pc = "verify"
  /\ Goto("unlink", "OK") /\ NoFault
  /\ UNCHANGED <<destination, temporary, output_status_valid, history>> /\ Still

\* The displaced file must have the reviewed bytes; when it cannot be read,
\* inspect_destination_regular answers -1 and the exchange is undone as well.
VerifyDisplaced ==
  /\ pc = "verify"
  /\ \/ /\ temporary \in reviewed /\ Goto("unlink", "OK")
        /\ NoFault /\ UNCHANGED misread
     \/ /\ temporary \notin reviewed /\ Goto("check_installed", "OK")
        /\ NoFault /\ UNCHANGED misread
     \/ /\ Goto("check_installed", "OK")
        /\ Fault /\ misread' = TRUE
  /\ UNCHANGED <<destination, temporary, output_status_valid, latest, lost, shown>>
  /\ Still

\* The mismatch is reported but the exchange is not undone.
CheckInstalled_NoUndo ==
  /\ pc = "check_installed"
  /\ Goto("sync", "DESTINATION") /\ NoFault
  /\ UNCHANGED <<destination, temporary, output_status_valid, history>> /\ Still

\* Undo only while the destination still is the file that was installed.
CheckInstalled ==
  /\ pc = "check_installed"
  /\ \/ /\ output_status_valid /\ destination = "ours"
        /\ Goto("exchange_back", "OK") /\ NoFault
     \/ /\ Goto("leftover", "IO")
        /\ FailsIf(~output_status_valid \/ destination # "ours")
  /\ UNCHANGED <<destination, temporary, output_status_valid, history>> /\ Still

ExchangeBack ==
  /\ pc = "exchange_back"
  /\ \/ /\ destination # "none"
        /\ destination' = temporary /\ temporary' = destination
        /\ Goto("unlink", "DESTINATION") /\ NoFault
     \/ /\ Goto("leftover", "IO") /\ FailsIf(destination = "none")
        /\ UNCHANGED <<destination, temporary>>
  /\ UNCHANGED <<output_status_valid, history>> /\ Still

\* Unlinking the temporary name; the content of somebody else's file is lost.
RemoveTemporary ==
  /\ temporary' = "none"
  /\ lost' = lost \cup ({temporary} \ (reviewed \cup {"ours", "none"}))

UnlinkTemporary ==
  /\ pc = "unlink"
  /\ \/ RemoveTemporary /\ Goto("leftover", result) /\ NoFault
     \/ UNCHANGED <<temporary, lost>> /\ Goto("leftover", "IO") /\ Fault
  /\ UNCHANGED <<destination, output_status_valid, latest, shown, misread>> /\ Still

\* The end of a failed call: a new file's temporary is always removed, an
\* exchange's only when it is known to be ours (and can be looked at).
MayRemoveLeftover ==
  /\ result # "OK" /\ temporary # "none"
  /\ kind = 0 \/ (output_status_valid /\ temporary = "ours")

\* The leftover is removed without checking whose it is.
RemoveLeftover_Unchecked ==
  /\ pc = "leftover"
  /\ IF result # "OK" THEN RemoveTemporary ELSE UNCHANGED <<temporary, lost>>
  /\ Goto("sync", result) /\ NoFault
  /\ UNCHANGED <<destination, output_status_valid, latest, shown, misread>> /\ Still

RemoveLeftover ==
  /\ pc = "leftover"
  /\ \/ MayRemoveLeftover /\ RemoveTemporary /\ Goto("sync", result) /\ NoFault
     \/ MayRemoveLeftover /\ UNCHANGED <<temporary, lost>> /\ Goto("sync", "IO") /\ Fault
     \/ /\ kind = 1 /\ result # "OK"
        /\ UNCHANGED <<temporary, lost>> /\ Goto("sync", result) /\ Fault
     \/ ~MayRemoveLeftover /\ UNCHANGED <<temporary, lost>> /\ Goto("sync", result) /\ NoFault
  /\ UNCHANGED <<destination, output_status_valid, latest, shown, misread>> /\ Still

SyncParent ==
  /\ pc = "sync"
  /\ \/ Goto("done", result) /\ NoFault
     \/ Goto("done", "IO") /\ Fault
  /\ UNCHANGED <<destination, temporary, output_status_valid, history>> /\ Still

Crash ==
  /\ pc \notin {"done", "crashed"} /\ pc' = "crashed"
  /\ UNCHANGED <<destination, temporary, output_status_valid, result, history, faults>>
  /\ Still

NativeNext ==
  \/ OpenAll \/ InspectDestination \/ CreateTemporary \/ CopySource \/ SyncTemporary
  \/ InstallNew \/ Exchange \/ VerifyDisplaced \/ CheckInstalled \/ ExchangeBack
  \/ UnlinkTemporary \/ RemoveLeftover \/ SyncParent

-----------------------------------------------------------------------------
(***************************************************************************)
(* Other programs: replace the destination by a file of theirs (an         *)
(* editor's atomic save), rewrite their own file in place, or remove it.   *)
(***************************************************************************)
Edit == /\ edits < MaxEdits /\ edits' = edits + 1
        /\ UNCHANGED <<kind, pc, temporary, output_status_valid, result, lost, shown, misread,
                       faults>>

ReplaceDestination(x) ==
  /\ x \notin {destination, temporary} \cup lost
  /\ destination' = x /\ latest' = x
  /\ UNCHANGED reviewed /\ Edit

RewriteInPlace ==
  /\ destination \in reviewed
  /\ reviewed' = reviewed \ {destination}
  /\ UNCHANGED <<destination, latest>> /\ Edit

RemoveDestination ==
  /\ destination # "none"
  /\ destination' = "none" /\ latest' = "none"
  /\ UNCHANGED reviewed /\ Edit

OthersNext == RewriteInPlace \/ RemoveDestination
              \/ \E x \in Foreign : ReplaceDestination(x)

Next == NativeNext \/ Crash \/ OthersNext

Spec == Init /\ [][Next]_vars

-----------------------------------------------------------------------------
\* promotion_outcome_from_native_status
promotion_outcome(r) ==
  CASE r = "OK" -> "AppliedDurable"
    [] r = "IO" -> "RecoveryRequired"
    [] OTHER    -> "NotApplied"

Outcome == IF pc = "done" THEN promotion_outcome(result) ELSE "none"

(***************************************************************************)
(* ForeignFilesKept: the call never unlinks a file of another program      *)
(* whose content is not the reviewed content, crash or no crash.           *)
(***************************************************************************)
ForeignFilesKept == lost = {}

\* At most one of the two things that make the call undo its exchange: an edit
\* by another program, or a displaced file that could not be inspected.
OneDisturbance == edits = 0 \/ (edits = 1 /\ ~misread)

(***************************************************************************)
(* ForeignFileSurvives: one edit by another program, at any point of the   *)
(* call, with a crash and with any I/O error but a failed inspection of    *)
(* the displaced file: the other program's file is never unlinked.         *)
(***************************************************************************)
ForeignFileSurvives == OneDisturbance => lost = {}

(***************************************************************************)
(* AppliedOnlyOverReviewed: AppliedDurable means that our file was         *)
(* installed and that nothing but reviewed bytes was given up for it, in   *)
(* whatever way others edited the destination meanwhile.                   *)
(***************************************************************************)
AppliedOnlyOverReviewed ==
  Outcome = "AppliedDurable" => shown /\ lost = {} /\ temporary = "none"

(***************************************************************************)
(* NotAppliedIsUndone: after at most one disturbance, NotApplied is        *)
(* answered only when the destination is again exactly what the other      *)
(* program left.                                                           *)
(***************************************************************************)
NotAppliedIsUndone ==
  OneDisturbance /\ Outcome = "NotApplied" => destination = latest

(***************************************************************************)
(* OneDisturbanceIsSafe: the undo of promote_regular is complete against   *)
(* one edit by another program, at any point of the call, with a crash and *)
(* I/O errors, and against one failed inspection of the displaced file:    *)
(* the other program's file is kept, and in its place whenever the         *)
(* promotion is answered as not applied.  It is not safe against both: the *)
(* undo then runs with nothing to undo, and a file saved over the          *)
(* destination between its ownership check and its exchange is unlinked.   *)
(***************************************************************************)
OneDisturbanceIsSafe == ForeignFileSurvives /\ NotAppliedIsUndone
=============================================================================
