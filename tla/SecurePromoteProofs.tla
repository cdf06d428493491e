------------------------ MODULE SecurePromoteProofs -------------------------
(***************************************************************************)
(* Proofs about SecurePromote for any set of foreign files and any number  *)
(* of edits and I/O errors.  The invariant says, for every point of the    *)
(* call, whose file is under which of the two names: up to the install the *)
(* temporary name is ours and the destination is theirs; after it one edit *)
(* can have come before the exchange or after it, never both, and without  *)
(* an edit ours stays at the destination until the exchange is undone.     *)
(***************************************************************************)
EXTENDS SecurePromote, TLAPS

\* A file has one name; the others never hold our file.
NamesDisjoint ==
  /\ destination = temporary => destination = "none"
  /\ latest # "ours"
  /\ "ours" \notin reviewed /\ "none" \notin reviewed
  /\ kind = 0 => temporary \in {"ours", "none"}

\* Up to the install the destination is theirs and nothing was given up.
Prepared ==
  pc \in {"open", "inspect", "create", "copy", "fsync", "rename", "exchange"} =>
    /\ destination = latest
    /\ temporary = IF pc \in {"open", "inspect", "create"} THEN "none" ELSE "ours"
    /\ lost = {}
    /\ pc = "rename" => kind = 0
    /\ pc = "exchange" => kind = 1
    /\ kind = 1 /\ edits = 0 => destination \in reviewed

\* Without an edit ours is at the destination; with one, the displaced file is
\* the edited one or the edit came after the exchange.
Displaced ==
  pc \in {"verify", "check_installed", "exchange_back"} =>
    /\ kind = 1 /\ shown /\ lost = {}
    /\ temporary \notin {"ours", "none"}
    /\ edits = 0 => destination = "ours" /\ temporary = latest /\ temporary \in reviewed
    /\ edits <= 1 => \/ destination = "ours" /\ temporary = latest
                     \/ destination = latest /\ temporary \in reviewed

\* The undo is entered for bytes that are unreviewed or could not be read.
Undoing ==
  pc \in {"check_installed", "exchange_back"} => misread \/ temporary \notin reviewed

\* What the unlink is about to remove.
Unlinking ==
  pc = "unlink" =>
    /\ lost = {} /\ result \in {"OK", "DESTINATION"}
    /\ result = "OK" => shown /\ temporary \in reviewed
    /\ result = "DESTINATION" /\ OneDisturbance => temporary = "ours" /\ destination = latest

\* The end of the call, by the status it will answer.
Ending ==
  pc \in {"leftover", "sync", "done"} =>
    /\ result = "OK" => shown /\ lost = {} /\ temporary = "none"
    /\ result \notin {"OK", "IO"} /\ OneDisturbance => destination = latest

Inv == /\ TypeOK /\ NamesDisjoint
       /\ Prepared /\ Displaced /\ Undoing /\ Unlinking /\ Ending
       /\ ForeignFileSurvives

\* The call keeps every name, status and file in its type.
LEMMA TypeNext == TypeOK /\ [Next]_vars => TypeOK'
<1> SUFFICES ASSUME TypeOK, [Next]_vars
             PROVE  TypeOK'
  OBVIOUS
<1> USE PromoteAssumption
    DEF TypeOK, Inodes, Results, PCs, history, Fault, NoFault, FailsIf, Goto, Still,
        RemoveTemporary, Edit
<1>1. ASSUME OpenAll
      PROVE  TypeOK'
  BY <1>1 DEF OpenAll
<1>2. ASSUME InspectDestination
      PROVE  TypeOK'
  BY <1>2 DEF InspectDestination
<1>3. ASSUME CreateTemporary
      PROVE  TypeOK'
  BY <1>3 DEF CreateTemporary
<1>4. ASSUME CopySource
      PROVE  TypeOK'
  BY <1>4 DEF CopySource
<1>5. ASSUME SyncTemporary
      PROVE  TypeOK'
  <2>1. output_status_valid' \in BOOLEAN
    BY ONLY <1>5, TypeOK, Zenon DEF SyncTemporary, TypeOK
  <2> QED
    BY <1>5, <2>1 DEF SyncTemporary
<1>6. ASSUME InstallNew
      PROVE  TypeOK'
  <2>1. shown' \in BOOLEAN
    BY ONLY <1>6, TypeOK, Zenon DEF InstallNew, TypeOK
  <2> QED
    BY <1>6, <2>1 DEF InstallNew
<1>7. ASSUME Exchange
      PROVE  TypeOK'
  <2>1. shown' \in BOOLEAN
    BY ONLY <1>7, TypeOK, Zenon DEF Exchange, TypeOK
  <2> QED
    BY <1>7, <2>1 DEF Exchange
<1>8. ASSUME VerifyDisplaced
      PROVE  TypeOK'
  <2>1. misread' \in BOOLEAN
    BY ONLY <1>8, TypeOK, Zenon DEF VerifyDisplaced, TypeOK
  <2> QED
    BY <1>8, <2>1 DEF VerifyDisplaced
<1>9. ASSUME CheckInstalled
      PROVE  TypeOK'
  BY <1>9 DEF CheckInstalled
<1>10. ASSUME ExchangeBack
      PROVE  TypeOK'
  BY <1>10 DEF ExchangeBack
<1>11. ASSUME UnlinkTemporary
      PROVE  TypeOK'
  BY <1>11 DEF UnlinkTemporary
<1>12. ASSUME RemoveLeftover
      PROVE  TypeOK'
  BY <1>12 DEF RemoveLeftover
<1>13. ASSUME SyncParent
      PROVE  TypeOK'
  BY <1>13 DEF SyncParent
<1>14. ASSUME Crash
      PROVE  TypeOK'
  BY <1>14 DEF Crash
<1>15. ASSUME RewriteInPlace
      PROVE  TypeOK'
  BY <1>15 DEF RewriteInPlace
<1>16. ASSUME RemoveDestination
      PROVE  TypeOK'
  BY <1>16 DEF RemoveDestination
<1>17. ASSUME NEW x \in Foreign, ReplaceDestination(x)
      PROVE  TypeOK'
  BY <1>17 DEF ReplaceDestination
<1>18. ASSUME UNCHANGED vars
      PROVE  TypeOK'
  BY <1>18 DEF vars
<1> QED
  BY <1>1, <1>2, <1>3, <1>4, <1>5, <1>6, <1>7, <1>8, <1>9, <1>10, <1>11, <1>12, <1>13, <1>14, <1>15, <1>16, <1>17, <1>18
  DEF Next, NativeNext, OthersNext

\* Every step of the call, of a crash and of another program keeps Inv.
LEMMA InvNext == Inv /\ [Next]_vars => Inv'
<1> SUFFICES ASSUME Inv, [Next]_vars
             PROVE  Inv'
  OBVIOUS
<1>0. TypeOK /\ TypeOK'
  BY TypeNext DEF Inv
<1> USE PromoteAssumption, <1>0
    DEF Inv, history, Fault, NoFault, FailsIf, Goto, Still, RemoveTemporary,
        MayRemoveLeftover, Edit, NamesDisjoint, Prepared, Displaced, Undoing,
        Unlinking, Ending, ForeignFileSurvives, OneDisturbance
<1>1. ASSUME OpenAll
      PROVE  Inv'
  BY <1>1 DEF OpenAll, TypeOK, Inodes
<1>2. ASSUME InspectDestination
      PROVE  Inv'
  BY <1>2 DEF InspectDestination, TypeOK, Inodes
<1>3. ASSUME CreateTemporary
      PROVE  Inv'
  BY <1>3 DEF CreateTemporary, TypeOK, Inodes
<1>4. ASSUME CopySource
      PROVE  Inv'
  BY <1>4 DEF CopySource, TypeOK, Inodes
<1>5. ASSUME SyncTemporary
      PROVE  Inv'
  BY <1>5 DEF SyncTemporary, TypeOK, Inodes
<1>6. ASSUME InstallNew
      PROVE  Inv'
  BY <1>6 DEF InstallNew, TypeOK, Inodes
<1>7. ASSUME Exchange
      PROVE  Inv'
  BY <1>7 DEF Exchange, TypeOK, Inodes
<1>8. ASSUME VerifyDisplaced
      PROVE  Inv'
  BY <1>8 DEF VerifyDisplaced, TypeOK, Inodes
<1>9. ASSUME CheckInstalled
      PROVE  Inv'
  BY <1>9 DEF CheckInstalled, TypeOK, Inodes
<1>10. ASSUME ExchangeBack
      PROVE  Inv'
  BY <1>10 DEF ExchangeBack, TypeOK, Inodes
<1>11. ASSUME UnlinkTemporary
      PROVE  Inv'
  BY <1>11 DEF UnlinkTemporary, TypeOK, Inodes
<1>12. ASSUME RemoveLeftover
      PROVE  Inv'
  BY <1>12 DEF RemoveLeftover, TypeOK, Inodes
<1>13. ASSUME SyncParent
      PROVE  Inv'
  BY <1>13 DEF SyncParent, TypeOK, Inodes
<1>14. ASSUME Crash
      PROVE  Inv'
  BY <1>14 DEF Crash, TypeOK, Inodes
<1>15. ASSUME RewriteInPlace
      PROVE  Inv'
  BY <1>15 DEF RewriteInPlace, TypeOK, Inodes
<1>16. ASSUME RemoveDestination
      PROVE  Inv'
  BY <1>16 DEF RemoveDestination, TypeOK, Inodes
<1>17. ASSUME NEW x \in Foreign, ReplaceDestination(x)
      PROVE  Inv'
  BY <1>17 DEF ReplaceDestination, TypeOK, Inodes
<1>18. ASSUME UNCHANGED vars
      PROVE  Inv'
  BY <1>18 DEF vars
<1> QED
  BY <1>1, <1>2, <1>3, <1>4, <1>5, <1>6, <1>7, <1>8, <1>9, <1>10, <1>11, <1>12, <1>13, <1>14, <1>15, <1>16, <1>17, <1>18
  DEF Next, NativeNext, OthersNext

\* At the start the destination is what the plan observed and nothing is ours.
LEMMA InvInit == Init => Inv
<1> SUFFICES ASSUME Init
             PROVE  Inv
  OBVIOUS
<1>1. PICK same \in SUBSET Foreign : reviewed = same \cup {"original"}
  BY DEF Init
<1>2. TypeOK
  <2>1. output_status_valid \in BOOLEAN /\ shown \in BOOLEAN /\ misread \in BOOLEAN
    BY DEF Init
  <2>2. latest \in Inodes \cup {"none"}
    BY DEF Init, Inodes
  <2> QED
    BY <1>1, <2>1, <2>2, PromoteAssumption DEF Init, TypeOK, Inodes, Results, PCs
<1>3. NamesDisjoint /\ Prepared
  BY <1>1, PromoteAssumption DEF Init, NamesDisjoint, Prepared
<1> QED
  BY <1>2, <1>3
  DEF Init, Inv, Displaced, Undoing, Unlinking, Ending, ForeignFileSurvives

\* Inv holds in every state the promotion and the other programs can reach.
THEOREM PromotionInvariant == Spec => []Inv
  BY InvInit, InvNext, PTL DEF Spec

(***************************************************************************)
(* moonfort_secure_promote_regular keeps its state in the types of the     *)
(* model whatever the other programs do; in particular it always answers   *)
(* one of the statuses of the library.                                     *)
(***************************************************************************)
THEOREM TypeCorrect == Spec => []TypeOK
<1>1. Inv => TypeOK
  BY DEF Inv
<1> QED
  BY <1>1, PromotionInvariant, PTL

(***************************************************************************)
(* Against one edit by another program, wherever it falls between the      *)
(* native calls of moonfort_secure_promote_regular, or against a displaced *)
(* file that cannot be inspected, but not against both, the file of the    *)
(* other program is never unlinked, and NotApplied means that it is in its *)
(* place again: for any set of foreign files and any number of other I/O   *)
(* errors.                                                                 *)
(***************************************************************************)
THEOREM SafeAgainstOneDisturbance == Spec => []OneDisturbanceIsSafe
<1>1. Inv => OneDisturbanceIsSafe
  <2> SUFFICES ASSUME Inv, OneDisturbance, Outcome = "NotApplied"
               PROVE  destination = latest
    BY DEF Inv, OneDisturbanceIsSafe, NotAppliedIsUndone
  <2>1. pc = "done" /\ result \notin {"OK", "IO"}
    BY DEF Outcome, promotion_outcome
  <2> QED
    BY <2>1 DEF Inv, Ending
<1> QED
  BY <1>1, PromotionInvariant, PTL

(***************************************************************************)
(* AppliedDurable is answered only over reviewed bytes, after any number   *)
(* of edits: the check of the displaced file decides before the unlink.    *)
(***************************************************************************)
THEOREM AppliedIsReviewed == Spec => []AppliedOnlyOverReviewed
<1>1. Inv => AppliedOnlyOverReviewed
  <2> SUFFICES ASSUME Inv, Outcome = "AppliedDurable"
               PROVE  shown /\ lost = {} /\ temporary = "none"
    BY DEF AppliedOnlyOverReviewed
  <2>1. pc = "done" /\ result = "OK"
    BY DEF Outcome, promotion_outcome
  <2> QED
    BY <2>1 DEF Inv, Ending
<1> QED
  BY <1>1, PromotionInvariant, PTL
=============================================================================
