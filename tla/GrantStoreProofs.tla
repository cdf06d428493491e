-------------------------- MODULE GrantStoreProofs --------------------------
(***************************************************************************)
(* Proofs about GrantStore for any sets of identities, grants, policies,   *)
(* publishers and executors.  The inductive invariant ties the program     *)
(* counters of the processes to the files: a publisher that has not        *)
(* renamed has committed nothing, every file was put there by a committed  *)
(* publisher, and only the executor whose rename spent an identity is past *)
(* its claim.                                                              *)
(***************************************************************************)
EXTENDS GrantStore, TLAPS

\* Publishers between validation and the end of the catch arm.
Publishing == {"check_pending", "check_consumed", "stage", "rename", "cleanup"}

PublisherInv ==
  \A p \in Publishers :
    /\ ppc[p] \in Publishing \cup {"renamed"} =>
         pgrant[p] \in Grants /\ pgrant[p] \in Permitted[pcfg[p]]
    /\ ppc[p] = "rename" => staging[p] = pgrant[p]
    /\ ppc[p] \in (Publishing \ {"cleanup"}) \cup {"idle", "configured"} =>
         p \notin committed
    /\ ppc[p] = "cleanup" /\ p \in committed => p \in misreported
    /\ ppc[p] = "renamed" => p \in committed
    /\ reply[p] # "none" => ppc[p] = "done"
    /\ p \in committed => pgrant[p] \in Grants /\ pgrant[p] \in Permitted[pcfg[p]]

\* A file under an identity names that identity and came from a publisher.
Placed(file, i) ==
  file # NoGrant => /\ approval_id[file] = i
                    /\ \E p \in committed : pgrant[p] = file

StoreInv ==
  \A i \in Ids : /\ Placed(pending[i], i)
                 /\ Placed(consumed[i], i)
                 /\ consumed[i] # NoGrant <=> spender[i] # NoOne

\* Executors between the validation of a grant and the start of its command.
Starting == {"allocate", "bind", "start"}

\* The check execute_invocation made of grant g, whose approval it had spent.
Checked(e, g) ==
  /\ g \in Permitted[ecfg[e]]
  /\ spentAt[eid[e]] <= validatedAt[e]
  /\ validatedAt[e] < expires_at_ms[g]

ExecutorInv ==
  \A e \in Executors :
    /\ epc[e] \in Starting \cup {"read", "validate"} => spender[eid[e]] = e
    /\ epc[e] \in Starting \cup {"validate"} => egrant[e] = consumed[eid[e]]
    /\ epc[e] \in Starting => Checked(e, egrant[e])
    /\ epc[e] \notin {"running", "done", "crashed"} => ran[e] = NoGrant
    /\ ran[e] # NoGrant => /\ spender[eid[e]] = e
                           /\ consumed[eid[e]] = ran[e]
                           /\ Checked(e, ran[e])

ClockInv == \A i \in Ids : spentAt[i] <= now

Inv == /\ TypeOK
       /\ PublisherInv
       /\ StoreInv
       /\ ExecutorInv
       /\ ClockInv
       /\ AnswerIsTruthful
       /\ PublishedNeverLost

\* The type invariant is inductive on its own.
LEMMA TypeNext == TypeOK /\ [Next]_vars => TypeOK'
<1> SUFFICES ASSUME TypeOK, [Next]_vars
             PROVE  TypeOK'
  OBVIOUS
<1>1. ASSUME NEW p \in Publishers, LoadConfig(p)
      PROVE  TypeOK'
  BY <1>1, GrantAssumption
  DEF TypeOK, PublisherPCs, ExecutorPCs, Replies, Responses, LoadConfig,
     PubStep, diskVars, pubVars, exeVars, history
<1>2. ASSUME NEW p \in Publishers, NEW g \in Grants, publish_grant(p, g)
      PROVE  TypeOK'
  BY <1>2, GrantAssumption
  DEF TypeOK, PublisherPCs, ExecutorPCs, Replies, Responses, publish_grant,
     BeginPublish, PubStep, PubReply, diskVars, pubVars, exeVars, history
<1>3. ASSUME NEW p \in Publishers, NEW g \in Grants, NEW d \in Digests,
   publish_reviewed_grant(p, g, d)
      PROVE  TypeOK'
  <2>1. /\ ppc' \in [Publishers -> PublisherPCs]
        /\ pgrant' \in [Publishers -> Grants \cup {NoGrant}]
        /\ reply' \in [Publishers -> Replies]
    <3>1. CASE d \in rehearse_grant(g, pcfg[p]) /\ BeginPublish(p, g)
      BY <3>1 DEF TypeOK, PublisherPCs, Replies, BeginPublish, PubStep, PubReply
    <3>2. CASE PubReply(p, "review-stale") /\ UNCHANGED pgrant
      BY <3>2 DEF TypeOK, PublisherPCs, Replies, PubStep, PubReply
    <3> QED
      BY <1>3, <3>1, <3>2 DEF publish_reviewed_grant
  <2> QED
    BY <1>3, <2>1 DEF TypeOK, publish_reviewed_grant, diskVars, exeVars, history
<1>4. ASSUME NEW p \in Publishers, CheckPending(p)
      PROVE  TypeOK'
  BY <1>4, GrantAssumption
  DEF TypeOK, PublisherPCs, ExecutorPCs, Replies, Responses, CheckPending,
     PubStep, PubReply, diskVars, pubVars, exeVars, history
<1>5. ASSUME NEW p \in Publishers, CheckConsumed(p)
      PROVE  TypeOK'
  BY <1>5, GrantAssumption
  DEF TypeOK, PublisherPCs, ExecutorPCs, Replies, Responses, CheckConsumed,
     PubStep, PubReply, diskVars, pubVars, exeVars, history
<1>6. ASSUME NEW p \in Publishers, WriteStaging(p)
      PROVE  TypeOK'
  BY <1>6, GrantAssumption
  DEF TypeOK, PublisherPCs, ExecutorPCs, Replies, Responses, WriteStaging,
     PubStep, diskVars, pubVars, exeVars, history
<1>7. ASSUME NEW p \in Publishers, RenameStaging(p)
      PROVE  TypeOK'
  <2>1. /\ ppc' \in [Publishers -> PublisherPCs]
        /\ staging' \in [Publishers -> Grants \cup {NoGrant}]
        /\ committed' \in SUBSET Publishers
        /\ misreported' \in SUBSET Publishers
    BY <1>7 DEF TypeOK, RenameStaging, PubStep, PublisherPCs
  <2>2. pending' \in [Ids -> Grants \cup {NoGrant}]
    <3> DEFINE i == approval_id[pgrant[p]]
    <3>1. CASE i \in Ids
      BY <1>7, <3>1 DEF TypeOK, RenameStaging
    <3>2. CASE i \notin Ids
      BY <1>7, <3>2 DEF TypeOK, RenameStaging
    <3> QED
      BY <3>1, <3>2
  <2> QED
    BY <1>7, <2>1, <2>2 DEF TypeOK, RenameStaging, exeVars
<1>8. ASSUME NEW p \in Publishers, ReplyPublished(p)
      PROVE  TypeOK'
  BY <1>8, GrantAssumption
  DEF TypeOK, PublisherPCs, ExecutorPCs, Replies, Responses, ReplyPublished,
     PubStep, PubReply, diskVars, pubVars, exeVars, history
<1>9. ASSUME NEW p \in Publishers, CleanupStaging(p)
      PROVE  TypeOK'
  BY <1>9, GrantAssumption
  DEF TypeOK, PublisherPCs, ExecutorPCs, Replies, Responses, CleanupStaging,
     PubStep, PubReply, diskVars, pubVars, exeVars, history
<1>10. ASSUME NEW p \in Publishers, CrashPublisher(p)
      PROVE  TypeOK'
  BY <1>10, GrantAssumption
  DEF TypeOK, PublisherPCs, ExecutorPCs, Replies, Responses, CrashPublisher,
     PubStep, diskVars, pubVars, exeVars, history
<1>11. ASSUME NEW e \in Executors, BeginInvocation(e)
      PROVE  TypeOK'
  BY <1>11, GrantAssumption
  DEF TypeOK, PublisherPCs, ExecutorPCs, Replies, Responses,
     BeginInvocation, ExeStep, diskVars, pubVars, exeVars, history
<1>12. ASSUME NEW e \in Executors, SelectPending(e)
      PROVE  TypeOK'
  BY <1>12, GrantAssumption
  DEF TypeOK, PublisherPCs, ExecutorPCs, Replies, Responses, SelectPending,
     ExeStep, ExeReply, diskVars, pubVars, exeVars, history
<1>13. ASSUME NEW e \in Executors, ClaimGrant(e)
      PROVE  TypeOK'
  <2>1. /\ epc' \in [Executors -> ExecutorPCs]
        /\ response' \in [Executors -> Responses]
    BY <1>13 DEF TypeOK, ClaimGrant, ExeStep, ExeReply, ExecutorPCs, Responses
  <2>2. /\ pending' \in [Ids -> Grants \cup {NoGrant}]
        /\ consumed' \in [Ids -> Grants \cup {NoGrant}]
        /\ spender' \in [Ids -> Executors \cup {NoOne}]
        /\ spentAt' \in [Ids -> 0..MaxTime]
    BY <1>13 DEF TypeOK, ClaimGrant
  <2> QED
    BY <1>13, <2>1, <2>2 DEF TypeOK, ClaimGrant, pubVars
<1>14. ASSUME NEW e \in Executors, ReadGrant(e)
      PROVE  TypeOK'
  <2>1. /\ epc' \in [Executors -> ExecutorPCs]
        /\ egrant' \in [Executors -> Grants \cup {NoGrant}]
        /\ response' \in [Executors -> Responses]
    BY <1>14 DEF TypeOK, ReadGrant, ExeStep, ExeReply, ExecutorPCs, Responses
  <2> QED
    BY <1>14, <2>1 DEF TypeOK, ReadGrant, diskVars, pubVars, history
<1>15. ASSUME NEW e \in Executors, ValidateGrant(e)
      PROVE  TypeOK'
  <2>1. /\ epc' \in [Executors -> ExecutorPCs]
        /\ response' \in [Executors -> Responses]
    BY <1>15 DEF TypeOK, ValidateGrant, ExeStep, ExeReply, ExecutorPCs, Responses
  <2>2. validatedAt' \in [Executors -> 0..MaxTime]
    BY <1>15 DEF TypeOK, ValidateGrant
  <2> QED
    BY <1>15, <2>1, <2>2 DEF TypeOK, ValidateGrant, diskVars, pubVars
<1>16. ASSUME NEW e \in Executors, AllocateScratch(e)
      PROVE  TypeOK'
  BY <1>16, GrantAssumption
  DEF TypeOK, PublisherPCs, ExecutorPCs, Replies, Responses, AllocateScratch,
     ExeStep, ExeReply, diskVars, pubVars, exeVars, history
<1>17. ASSUME NEW e \in Executors, BindTools(e)
      PROVE  TypeOK'
  BY <1>17, GrantAssumption
  DEF TypeOK, PublisherPCs, ExecutorPCs, Replies, Responses, BindTools,
     ExeStep, ExeReply, diskVars, pubVars, exeVars, history
<1>18. ASSUME NEW e \in Executors, StartCommand(e)
      PROVE  TypeOK'
  <2>1. /\ epc' \in [Executors -> ExecutorPCs]
        /\ response' \in [Executors -> Responses]
    BY <1>18 DEF TypeOK, StartCommand, ExeStep, ExeReply, ExecutorPCs, Responses
  <2>2. ran' \in [Executors -> Grants \cup {NoGrant}]
    BY <1>18 DEF TypeOK, StartCommand
  <2> QED
    BY <1>18, <2>1, <2>2 DEF TypeOK, StartCommand, diskVars, pubVars
<1>19. ASSUME NEW e \in Executors, FinishInvocation(e)
      PROVE  TypeOK'
  BY <1>19, GrantAssumption
  DEF TypeOK, PublisherPCs, ExecutorPCs, Replies, Responses, FinishInvocation,
     ExeStep, ExeReply, diskVars, pubVars, exeVars, history
<1>20. ASSUME NEW e \in Executors, CrashExecutor(e)
      PROVE  TypeOK'
  BY <1>20, GrantAssumption
  DEF TypeOK, PublisherPCs, ExecutorPCs, Replies, Responses, CrashExecutor,
     ExeStep, diskVars, pubVars, exeVars, history
<1>21. ASSUME Tick
      PROVE  TypeOK'
  BY <1>21, GrantAssumption
  DEF TypeOK, PublisherPCs, ExecutorPCs, Replies, Responses, Tick, diskVars,
     pubVars, exeVars, history
<1>22. ASSUME EditPolicy
      PROVE  TypeOK'
  BY <1>22, GrantAssumption
  DEF TypeOK, PublisherPCs, ExecutorPCs, Replies, Responses, EditPolicy,
     diskVars, pubVars, exeVars, history
<1>23. ASSUME UNCHANGED vars
      PROVE  TypeOK'
  BY <1>23, GrantAssumption
  DEF TypeOK, PublisherPCs, ExecutorPCs, Replies, Responses, diskVars,
     pubVars, exeVars, history, vars
<1> QED
  BY <1>1, <1>2, <1>3, <1>4, <1>5, <1>6, <1>7, <1>8, <1>9, <1>10, <1>11,
     <1>12, <1>13, <1>14, <1>15, <1>16, <1>17, <1>18, <1>19, <1>20, <1>21,
     <1>22, <1>23 DEF Next, PublisherNext, ExecutorNext

(***************************************************************************)
(* TypeCorrect: whatever publishers, executors, crashes and edits of the   *)
(* configuration do, every file and every variable of a process keeps to   *)
(* its type.                                                               *)
(***************************************************************************)
THEOREM TypeCorrect == Spec => []TypeOK
<1>1. Init => TypeOK
  BY GrantAssumption DEF Init, TypeOK, PublisherPCs, ExecutorPCs, Replies, Responses
<1> QED
  BY <1>1, TypeNext, PTL DEF Spec

\* One step per action; under it, one per conjunct the action can disturb.
LEMMA InvNext == Inv /\ [Next]_vars => Inv'
<1> SUFFICES ASSUME Inv, [Next]_vars
             PROVE  Inv'
  OBVIOUS
<1>0. TypeOK /\ TypeOK'
  BY TypeNext DEF Inv
<1>1. ASSUME NEW p \in Publishers, LoadConfig(p)
      PROVE  Inv'
  <2>1. PublisherInv'
    BY <1>0, <1>1, GrantAssumption DEF Inv, TypeOK, PublisherInv, Publishing,
       LoadConfig, PubStep, diskVars, pubVars, exeVars, history
  <2> QED
    BY <1>0, <1>1, <2>1 DEF Inv, StoreInv, Placed, ExecutorInv, Starting,
       Checked, AnswerIsTruthful, ClockInv, PublishedNeverLost, LoadConfig,
       diskVars, pubVars, exeVars, history
<1>2. ASSUME NEW p \in Publishers, NEW g \in Grants, publish_grant(p, g)
      PROVE  Inv'
  <2>1. PublisherInv'
    BY <1>0, <1>2, GrantAssumption DEF Inv, TypeOK, PublisherInv, Publishing,
       publish_grant, PubStep, PubReply, BeginPublish, validate_grant,
       diskVars, pubVars, exeVars, history
  <2>2. StoreInv'
    BY <1>0, <1>2, GrantAssumption DEF Inv, TypeOK, StoreInv, Placed,
       PublisherInv, Publishing, publish_grant, PubStep, PubReply,
       BeginPublish, validate_grant, diskVars, pubVars, exeVars, history
  <2>3. AnswerIsTruthful'
    BY <1>0, <1>2, GrantAssumption DEF Inv, TypeOK, AnswerIsTruthful,
       PublisherInv, Publishing, publish_grant, PubStep, PubReply,
       BeginPublish, validate_grant, diskVars, pubVars, exeVars, history
  <2>4. PublishedNeverLost'
    BY <1>0, <1>2, GrantAssumption DEF Inv, TypeOK, PublishedNeverLost,
       PublisherInv, Publishing, StoreInv, publish_grant, PubStep, PubReply,
       BeginPublish, validate_grant, diskVars, pubVars, exeVars, history
  <2> QED
    BY <1>0, <1>2, <2>1, <2>2, <2>3, <2>4 DEF Inv, ExecutorInv, Starting,
       Checked, ClockInv, publish_grant, BeginPublish, diskVars, pubVars, exeVars,
       history
<1>3. ASSUME NEW p \in Publishers, NEW g \in Grants, NEW d \in Digests,
   publish_reviewed_grant(p, g, d)
      PROVE  Inv'
  <2>1. PublisherInv'
    BY <1>0, <1>3, GrantAssumption DEF Inv, TypeOK, PublisherInv, Publishing,
       publish_reviewed_grant, PubStep, PubReply, BeginPublish,
       validate_grant, diskVars, pubVars, exeVars, history
  <2>2. StoreInv'
    BY <1>0, <1>3, GrantAssumption DEF Inv, TypeOK, StoreInv, Placed,
       PublisherInv, Publishing, publish_reviewed_grant, PubStep, PubReply,
       BeginPublish, validate_grant, diskVars, pubVars, exeVars, history
  <2>3. AnswerIsTruthful'
    BY <1>0, <1>3, GrantAssumption DEF Inv, TypeOK, AnswerIsTruthful,
       PublisherInv, Publishing, publish_reviewed_grant, PubStep, PubReply,
       BeginPublish, validate_grant, diskVars, pubVars, exeVars, history
  <2>4. PublishedNeverLost'
    BY <1>0, <1>3, GrantAssumption DEF Inv, TypeOK, PublishedNeverLost,
       PublisherInv, Publishing, StoreInv, publish_reviewed_grant, PubStep,
       PubReply, BeginPublish, validate_grant, diskVars, pubVars, exeVars,
       history
  <2> QED
    BY <1>0, <1>3, <2>1, <2>2, <2>3, <2>4 DEF Inv, ExecutorInv, Starting,
       Checked, ClockInv, publish_reviewed_grant, BeginPublish, diskVars, pubVars,
       exeVars, history
<1>4. ASSUME NEW p \in Publishers, CheckPending(p)
      PROVE  Inv'
  <2>1. PublisherInv'
    BY <1>0, <1>4, GrantAssumption DEF Inv, TypeOK, PublisherInv, Publishing,
       CheckPending, PubStep, PubReply, diskVars, pubVars, exeVars, history
  <2>2. AnswerIsTruthful'
    BY <1>0, <1>4, GrantAssumption DEF Inv, TypeOK, AnswerIsTruthful,
       PublisherInv, Publishing, CheckPending, PubStep, PubReply, diskVars,
       pubVars, exeVars, history
  <2> QED
    BY <1>0, <1>4, <2>1, <2>2 DEF Inv, StoreInv, Placed, ExecutorInv,
       Starting, Checked, ClockInv, PublishedNeverLost, CheckPending,
       diskVars, pubVars, exeVars, history
<1>5. ASSUME NEW p \in Publishers, CheckConsumed(p)
      PROVE  Inv'
  <2>1. PublisherInv'
    BY <1>0, <1>5, GrantAssumption DEF Inv, TypeOK, PublisherInv, Publishing,
       CheckConsumed, PubStep, PubReply, diskVars, pubVars, exeVars, history
  <2>2. AnswerIsTruthful'
    BY <1>0, <1>5, GrantAssumption DEF Inv, TypeOK, AnswerIsTruthful,
       PublisherInv, Publishing, CheckConsumed, PubStep, PubReply, diskVars,
       pubVars, exeVars, history
  <2> QED
    BY <1>0, <1>5, <2>1, <2>2 DEF Inv, StoreInv, Placed, ExecutorInv,
       Starting, Checked, ClockInv, PublishedNeverLost, CheckConsumed,
       diskVars, pubVars, exeVars, history
<1>6. ASSUME NEW p \in Publishers, WriteStaging(p)
      PROVE  Inv'
  <2>1. PublisherInv'
    BY <1>0, <1>6, GrantAssumption DEF Inv, TypeOK, PublisherInv, Publishing,
       WriteStaging, PubStep, diskVars, pubVars, exeVars, history
  <2> QED
    BY <1>0, <1>6, <2>1 DEF Inv, StoreInv, Placed, ExecutorInv, Starting,
       Checked, AnswerIsTruthful, ClockInv, PublishedNeverLost, WriteStaging,
       diskVars, pubVars, exeVars, history
<1>7. ASSUME NEW p \in Publishers, RenameStaging(p)
      PROVE  Inv'
  <2>1. PublisherInv'
    BY <1>0, <1>7, GrantAssumption DEF Inv, TypeOK, PublisherInv, Publishing,
       RenameStaging, PubStep, diskVars, pubVars, exeVars, history
  <2>2. StoreInv'
    BY <1>0, <1>7, GrantAssumption DEF Inv, TypeOK, StoreInv, Placed,
       PublisherInv, Publishing, RenameStaging, PubStep, diskVars, pubVars,
       exeVars, history
  <2>3. AnswerIsTruthful'
    BY <1>0, <1>7, GrantAssumption DEF Inv, TypeOK, AnswerIsTruthful,
       PublisherInv, Publishing, RenameStaging, PubStep, diskVars, pubVars,
       exeVars, history
  <2>4. PublishedNeverLost'
    BY <1>0, <1>7, GrantAssumption DEF Inv, TypeOK, PublishedNeverLost,
       PublisherInv, Publishing, StoreInv, RenameStaging, PubStep, diskVars,
       pubVars, exeVars, history
  <2> QED
    BY <1>0, <1>7, <2>1, <2>2, <2>3, <2>4 DEF Inv, ExecutorInv, Starting,
       Checked, ClockInv, RenameStaging, diskVars, pubVars, exeVars, history
<1>8. ASSUME NEW p \in Publishers, ReplyPublished(p)
      PROVE  Inv'
  <2>1. PublisherInv'
    BY <1>0, <1>8, GrantAssumption DEF Inv, TypeOK, PublisherInv, Publishing,
       ReplyPublished, PubStep, PubReply, diskVars, pubVars, exeVars, history
  <2>2. AnswerIsTruthful'
    BY <1>0, <1>8, GrantAssumption DEF Inv, TypeOK, AnswerIsTruthful,
       PublisherInv, Publishing, ReplyPublished, PubStep, PubReply, diskVars,
       pubVars, exeVars, history
  <2> QED
    BY <1>0, <1>8, <2>1, <2>2 DEF Inv, StoreInv, Placed, ExecutorInv,
       Starting, Checked, ClockInv, PublishedNeverLost, ReplyPublished,
       diskVars, pubVars, exeVars, history
<1>9. ASSUME NEW p \in Publishers, CleanupStaging(p)
      PROVE  Inv'
  <2>1. PublisherInv'
    BY <1>0, <1>9, GrantAssumption DEF Inv, TypeOK, PublisherInv, Publishing,
       CleanupStaging, PubStep, PubReply, diskVars, pubVars, exeVars, history
  <2>2. AnswerIsTruthful'
    BY <1>0, <1>9, GrantAssumption DEF Inv, TypeOK, AnswerIsTruthful,
       PublisherInv, Publishing, CleanupStaging, PubStep, PubReply, diskVars,
       pubVars, exeVars, history
  <2> QED
    BY <1>0, <1>9, <2>1, <2>2 DEF Inv, StoreInv, Placed, ExecutorInv,
       Starting, Checked, ClockInv, PublishedNeverLost, CleanupStaging,
       diskVars, pubVars, exeVars, history
<1>10. ASSUME NEW p \in Publishers, CrashPublisher(p)
      PROVE  Inv'
  <2>1. PublisherInv'
    BY <1>0, <1>10, GrantAssumption DEF Inv, TypeOK, PublisherInv, Publishing,
       CrashPublisher, PubStep, diskVars, pubVars, exeVars, history
  <2> QED
    BY <1>0, <1>10, <2>1 DEF Inv, StoreInv, Placed, ExecutorInv, Starting,
       Checked, AnswerIsTruthful, ClockInv, PublishedNeverLost,
       CrashPublisher, diskVars, pubVars, exeVars, history
<1>11. ASSUME NEW e \in Executors, BeginInvocation(e)
      PROVE  Inv'
  <2>1. ExecutorInv'
    BY <1>0, <1>11, GrantAssumption DEF Inv, TypeOK, ExecutorInv, StoreInv,
       Starting, Checked, BeginInvocation, ExeStep, diskVars, pubVars,
       exeVars, history
  <2> QED
    BY <1>0, <1>11, <2>1 DEF Inv, PublisherInv, StoreInv, Placed,
       AnswerIsTruthful, ClockInv, PublishedNeverLost, BeginInvocation,
       diskVars, pubVars, exeVars, history
<1>12. ASSUME NEW e \in Executors, SelectPending(e)
      PROVE  Inv'
  <2>1. ExecutorInv'
    BY <1>0, <1>12, GrantAssumption DEF Inv, TypeOK, ExecutorInv, StoreInv,
       Starting, Checked, SelectPending, ExeStep, ExeReply, diskVars, pubVars,
       exeVars, history
  <2> QED
    BY <1>0, <1>12, <2>1 DEF Inv, PublisherInv, StoreInv, Placed,
       AnswerIsTruthful, ClockInv, PublishedNeverLost, SelectPending,
       diskVars, pubVars, exeVars, history
<1>13. ASSUME NEW e \in Executors, ClaimGrant(e)
      PROVE  Inv'
  <2>1. StoreInv'
    BY <1>0, <1>13, GrantAssumption DEF Inv, TypeOK, StoreInv, Placed,
       PublisherInv, Publishing, ClaimGrant, ExeStep, ExeReply, diskVars,
       pubVars, exeVars, history
  <2>2. ExecutorInv'
    BY <1>0, <1>13, GrantAssumption DEF Inv, TypeOK, ExecutorInv, StoreInv,
       Starting, Checked, ClaimGrant, ExeStep, ExeReply, diskVars, pubVars,
       exeVars, history
  <2>3. PublishedNeverLost'
    BY <1>0, <1>13, GrantAssumption DEF Inv, TypeOK, PublishedNeverLost,
       PublisherInv, Publishing, StoreInv, ClaimGrant, ExeStep, ExeReply,
       diskVars, pubVars, exeVars, history
  <2>4. ClockInv'
    <3>1. \/ spentAt' = [spentAt EXCEPT ![eid[e]] = now]
          \/ spentAt' = spentAt
      BY <1>13 DEF ClaimGrant
    <3>2. UNCHANGED now
      BY <1>13 DEF ClaimGrant
    <3>3. spentAt \in [Ids -> 0..MaxTime] /\ now \in 0..MaxTime
      BY <1>0 DEF Inv, TypeOK
    <3>4. \A i \in Ids : spentAt[i] <= now
      BY <1>0 DEF Inv, ClockInv
    <3>5. now <= now
      BY <3>3, GrantAssumption
    <3>6. ASSUME NEW i \in Ids
          PROVE  spentAt'[i] <= now
      <4>1. CASE spentAt' = [spentAt EXCEPT ![eid[e]] = now]
        <5>1. spentAt'[i] = now \/ spentAt'[i] = spentAt[i]
          BY <3>3, <4>1
        <5> QED
          BY <3>4, <3>5, <5>1, Zenon
      <4>2. CASE spentAt' = spentAt
        BY <3>4, <4>2
      <4> QED
        BY <3>1, <4>1, <4>2
    <3> QED
      BY <3>2, <3>6 DEF ClockInv
  <2> QED
    BY <1>0, <1>13, <2>1, <2>2, <2>3, <2>4 DEF Inv, PublisherInv, AnswerIsTruthful,
       ClaimGrant, diskVars, pubVars, exeVars, history
<1>14. ASSUME NEW e \in Executors, ReadGrant(e)
      PROVE  Inv'
  <2>1. ExecutorInv'
    BY <1>0, <1>14, GrantAssumption DEF Inv, TypeOK, ExecutorInv, StoreInv,
       Starting, Checked, ReadGrant, ExeStep, ExeReply, diskVars, pubVars,
       exeVars, history
  <2> QED
    BY <1>0, <1>14, <2>1 DEF Inv, PublisherInv, StoreInv, Placed,
       AnswerIsTruthful, ClockInv, PublishedNeverLost, ReadGrant, diskVars,
       pubVars, exeVars, history
<1>15. ASSUME NEW e \in Executors, ValidateGrant(e)
      PROVE  Inv'
  <2>1. ExecutorInv'
    BY <1>0, <1>15, GrantAssumption DEF Inv, TypeOK, ExecutorInv, StoreInv,
       Starting, Checked, ValidateGrant, ExeStep, ExeReply, ClockInv,
       validate_grant, diskVars, pubVars, exeVars, history
  <2> QED
    BY <1>0, <1>15, <2>1 DEF Inv, PublisherInv, StoreInv, Placed, ClockInv,
       AnswerIsTruthful, PublishedNeverLost, ValidateGrant, diskVars, pubVars,
       exeVars, history
<1>16. ASSUME NEW e \in Executors, AllocateScratch(e)
      PROVE  Inv'
  <2>1. ExecutorInv'
    BY <1>0, <1>16, GrantAssumption DEF Inv, TypeOK, ExecutorInv, StoreInv,
       Starting, Checked, AllocateScratch, ExeStep, ExeReply, diskVars,
       pubVars, exeVars, history
  <2> QED
    BY <1>0, <1>16, <2>1 DEF Inv, PublisherInv, StoreInv, Placed, ClockInv,
       AnswerIsTruthful, PublishedNeverLost, AllocateScratch, diskVars,
       pubVars, exeVars, history
<1>17. ASSUME NEW e \in Executors, BindTools(e)
      PROVE  Inv'
  <2>1. ExecutorInv'
    BY <1>0, <1>17, GrantAssumption DEF Inv, TypeOK, ExecutorInv, StoreInv,
       Starting, Checked, BindTools, ExeStep, ExeReply, diskVars, pubVars,
       exeVars, history
  <2> QED
    BY <1>0, <1>17, <2>1 DEF Inv, PublisherInv, StoreInv, Placed, ClockInv,
       AnswerIsTruthful, PublishedNeverLost, BindTools, diskVars, pubVars,
       exeVars, history
<1>18. ASSUME NEW e \in Executors, StartCommand(e)
      PROVE  Inv'
  <2>1. ExecutorInv'
    BY <1>0, <1>18, GrantAssumption DEF Inv, TypeOK, ExecutorInv, StoreInv,
       Starting, Checked, StartCommand, ExeStep, ExeReply, diskVars, pubVars,
       exeVars, history
  <2> QED
    BY <1>0, <1>18, <2>1 DEF Inv, PublisherInv, StoreInv, Placed, ClockInv,
       AnswerIsTruthful, PublishedNeverLost, StartCommand, diskVars, pubVars,
       exeVars, history
<1>19. ASSUME NEW e \in Executors, FinishInvocation(e)
      PROVE  Inv'
  <2>1. ExecutorInv'
    BY <1>0, <1>19, GrantAssumption DEF Inv, TypeOK, ExecutorInv, StoreInv,
       Starting, Checked, FinishInvocation, ExeStep, ExeReply, diskVars,
       pubVars, exeVars, history
  <2> QED
    BY <1>0, <1>19, <2>1 DEF Inv, PublisherInv, StoreInv, Placed, ClockInv,
       AnswerIsTruthful, PublishedNeverLost, FinishInvocation, diskVars,
       pubVars, exeVars, history
<1>20. ASSUME NEW e \in Executors, CrashExecutor(e)
      PROVE  Inv'
  <2>1. ExecutorInv'
    BY <1>0, <1>20, GrantAssumption DEF Inv, TypeOK, ExecutorInv, StoreInv,
       Starting, Checked, CrashExecutor, ExeStep, diskVars, pubVars, exeVars,
       history
  <2> QED
    BY <1>0, <1>20, <2>1 DEF Inv, PublisherInv, StoreInv, Placed,
       AnswerIsTruthful, ClockInv, PublishedNeverLost, CrashExecutor,
       diskVars, pubVars, exeVars, history
<1>21. ASSUME Tick
      PROVE  Inv'
  <2>1. ClockInv'
    BY <1>0, <1>21, GrantAssumption DEF Inv, TypeOK, ClockInv, Tick, diskVars,
       pubVars, exeVars, history
  <2> QED
    BY <1>0, <1>21, <2>1 DEF Inv, PublisherInv, StoreInv, Placed, ExecutorInv,
       Starting, Checked, AnswerIsTruthful, PublishedNeverLost, Tick, diskVars, pubVars, exeVars, history
<1>22. ASSUME EditPolicy
      PROVE  Inv'
  BY <1>0, <1>22 DEF Inv, PublisherInv, StoreInv, Placed, ExecutorInv,
       Starting, Checked, AnswerIsTruthful, ClockInv, PublishedNeverLost,
       EditPolicy, diskVars, pubVars, exeVars, history
<1>23. ASSUME UNCHANGED vars
      PROVE  Inv'
  BY <1>0, <1>23 DEF Inv, PublisherInv, StoreInv, Placed, ExecutorInv,
       Starting, Checked, AnswerIsTruthful, ClockInv, PublishedNeverLost,
       vars, diskVars, pubVars, exeVars, history
<1> QED
  BY <1>1, <1>2, <1>3, <1>4, <1>5, <1>6, <1>7, <1>8, <1>9, <1>10, <1>11,
     <1>12, <1>13, <1>14, <1>15, <1>16, <1>17, <1>18, <1>19, <1>20, <1>21,
     <1>22, <1>23 DEF Next, PublisherNext, ExecutorNext

LEMMA Invariance == Spec => []Inv
<1>1. Init => Inv
  <2>1. Init => TypeOK
    BY GrantAssumption DEF Init, TypeOK, PublisherPCs, ExecutorPCs, Replies, Responses
  <2> QED
    BY <2>1, GrantAssumption DEF Init, Inv, PublisherInv, Publishing, StoreInv, Placed,
       ExecutorInv, Starting, Checked, ClockInv, AnswerIsTruthful, PublishedNeverLost
<1> QED
  BY <1>1, InvNext, PTL DEF Spec

(***************************************************************************)
(* Safety: for any number of publishers, executors and approvals, an       *)
(* approval starts at most one command (consume_grant's rename).           *)
(***************************************************************************)
THEOREM Safety == Spec => []SingleUse
<1>1. Inv => SingleUse
  BY DEF Inv, ExecutorInv, SingleUse
<1> QED
  BY <1>1, Invariance, PTL

(***************************************************************************)
(* Approved: the command execute_invocation starts is the grant that was   *)
(* published and spent under its identity; it was authorized by both       *)
(* configurations, and unexpired when the executor, which had spent it,    *)
(* validated it: before it allocated scratch and bound the tools.          *)
(***************************************************************************)
THEOREM Approved == Spec => []RunsWhatWasApproved
<1>1. Inv => ExecutesWhatWasSpent
  BY DEF Inv, TypeOK, ExecutorInv, StoreInv, Placed, ExecutesWhatWasSpent
<1>2. Inv => TwiceAuthorized
  BY DEF Inv, TypeOK, ExecutorInv, Checked, StoreInv, Placed, PublisherInv,
     TwiceAuthorized
<1>3. Inv => CheckedUnexpired
  BY DEF Inv, ExecutorInv, Checked, CheckedUnexpired
<1>4. Inv => RunsWhatWasApproved
  BY <1>1, <1>2, <1>3 DEF RunsWhatWasApproved
<1> QED
  BY <1>4, Invariance, PTL

(***************************************************************************)
(* Publication: what publish_grant answered as published is in the store;  *)
(* what it answered as refused is not, unless its own rename took effect   *)
(* and reported a failure; and nothing published disappears from it.       *)
(***************************************************************************)
THEOREM Publication == Spec => []PublicationTruthful
<1>1. Inv => PublicationTruthful
  BY DEF Inv, PublicationTruthful
<1> QED
  BY <1>1, Invariance, PTL

(***************************************************************************)
(* SpentStaysSpent: no step of any process rewrites or removes a consumed  *)
(* record, so consume_grant's rename is final.                             *)
(***************************************************************************)
THEOREM SpentStaysSpent == Spec => SpentForever
<1> DEFINE Kept == \A i \in Ids : consumed[i] # NoGrant => consumed'[i] = consumed[i]
<1>1. Inv /\ [Next]_vars => [Kept]_vars
  <2> SUFFICES ASSUME Inv, Next
               PROVE  Kept
    OBVIOUS
  <2>1. ASSUME NEW e \in Executors, ClaimGrant(e)
        PROVE  Kept
    BY <2>1 DEF Inv, TypeOK, ClaimGrant
  <2>2. CASE UNCHANGED consumed
    BY <2>2
  <2> QED
    BY <2>1, <2>2 DEF Next, PublisherNext, ExecutorNext, LoadConfig, publish_grant,
       publish_reviewed_grant, CheckPending, CheckConsumed, WriteStaging, RenameStaging,
       ReplyPublished, CleanupStaging, CrashPublisher, BeginInvocation, SelectPending,
       ReadGrant, ValidateGrant, AllocateScratch, BindTools, StartCommand,
       FinishInvocation, CrashExecutor, Tick, EditPolicy, diskVars
<1> QED
  BY <1>1, Invariance, PTL DEF Spec, SpentForever

\* Steps that leave the files and the started commands alone are stutters of
\* the ledger.
LEMMA QuietStep ==
  UNCHANGED <<pending, consumed, eid, ran>> => UNCHANGED Ledger!lvars
BY DEF Ledger!lvars, LedgerStatus, LedgerRan

(***************************************************************************)
(* Refinement: the store implements the abstract ledger.  Renaming into    *)
(* pending/ publishes (or does nothing, behind a consumed record), the     *)
(* executor's rename spends, and the start of a command is the only run.   *)
(***************************************************************************)
THEOREM Refinement == Spec => ImplementsLedger
<1>1. Init => Ledger!LedgerInit
  BY GrantAssumption DEF Init, Ledger!LedgerInit, LedgerStatus, LedgerRan
<1>2. Inv /\ [Next]_vars => [Ledger!LedgerNext]_(Ledger!lvars)
  <2> SUFFICES ASSUME Inv, [Next]_vars
               PROVE  Ledger!LedgerNext \/ UNCHANGED Ledger!lvars
    OBVIOUS
  <2>1. ASSUME NEW p \in Publishers, RenameStaging(p)
        PROVE  Ledger!LedgerNext \/ UNCHANGED Ledger!lvars
    <3> DEFINE i == approval_id[pgrant[p]]
    <3>0. i \in Ids /\ pgrant[p] \in Grants /\ staging[p] = pgrant[p]
      BY <2>1, GrantAssumption DEF Inv, PublisherInv, Publishing, RenameStaging
    <3>1. CASE UNCHANGED pending
      BY <2>1, <3>1, QuietStep DEF RenameStaging, exeVars
    <3>2. CASE pending[i] = NoGrant /\ pending' = [pending EXCEPT ![i] = staging[p]]
      <4>1. UNCHANGED LedgerRan
        BY <2>1 DEF RenameStaging, exeVars, LedgerRan
      <4>2. CASE consumed[i] = NoGrant
        <5>1. Ledger!Publish(i)
          BY <2>1, <3>0, <3>2, <4>1, <4>2, GrantAssumption
          DEF Inv, TypeOK, RenameStaging, Ledger!Publish, LedgerStatus
        <5> QED
          BY <3>0, <5>1 DEF Ledger!LedgerNext
      <4>3. CASE consumed[i] # NoGrant
        <5>1. UNCHANGED LedgerStatus
          BY <2>1, <3>0, <3>2, <4>3 DEF Inv, TypeOK, RenameStaging, LedgerStatus
        <5> QED
          BY <4>1, <5>1 DEF Ledger!lvars
      <4> QED
        BY <4>2, <4>3
    <3> QED
      BY <2>1, <3>1, <3>2 DEF RenameStaging
  <2>2. ASSUME NEW e \in Executors, ClaimGrant(e)
        PROVE  Ledger!LedgerNext \/ UNCHANGED Ledger!lvars
    <3>1. CASE UNCHANGED <<pending, consumed>>
      BY <2>2, <3>1, QuietStep DEF ClaimGrant
    <3>2. CASE /\ pending[eid[e]] # NoGrant
               /\ consumed[eid[e]] = NoGrant
               /\ consumed' = [consumed EXCEPT ![eid[e]] = pending[eid[e]]]
               /\ pending' = [pending EXCEPT ![eid[e]] = NoGrant]
      <4>1. Ledger!Spend(eid[e])
        BY <2>2, <3>2 DEF Inv, TypeOK, ClaimGrant, Ledger!Spend, LedgerStatus, LedgerRan
      <4> QED
        BY <4>1 DEF Inv, TypeOK, Ledger!LedgerNext
    <3> QED
      BY <2>2, <3>1, <3>2 DEF ClaimGrant
  <2>3. ASSUME NEW e \in Executors, StartCommand(e)
        PROVE  Ledger!LedgerNext \/ UNCHANGED Ledger!lvars
    <3>1. CASE UNCHANGED ran
      BY <2>3, <3>1, QuietStep DEF StartCommand, diskVars
    <3>2. CASE ran' = [ran EXCEPT ![e] = egrant[e]]
      <4>1. /\ spender[eid[e]] = e
            /\ egrant[e] = consumed[eid[e]]
            /\ consumed[eid[e]] # NoGrant
            /\ ran[e] = NoGrant
        BY <2>3, GrantAssumption
        DEF Inv, TypeOK, ExecutorInv, Starting, StoreInv, StartCommand
      <4>2. \A q \in Executors : <<eid[e], q>> \notin LedgerRan
        BY <4>1 DEF Inv, TypeOK, ExecutorInv, LedgerRan
      <4>3. LedgerStatus[eid[e]] = "spent" /\ UNCHANGED LedgerStatus
        BY <2>3, <4>1 DEF Inv, TypeOK, StartCommand, diskVars, LedgerStatus
      <4>4. LedgerRan' = LedgerRan \cup {<<eid[e], e>>}
        BY <2>3, <3>2, <4>1 DEF Inv, TypeOK, StartCommand, LedgerRan
      <4>5. Ledger!Run(eid[e], e)
        BY <4>2, <4>3, <4>4 DEF Ledger!Run
      <4> QED
        BY <4>5 DEF Inv, TypeOK, Ledger!LedgerNext
    <3> QED
      BY <2>3, <3>1, <3>2 DEF StartCommand
  <2>4. CASE UNCHANGED <<pending, consumed, eid, ran>>
    BY <2>4, QuietStep
  <2> QED
    BY <2>1, <2>2, <2>3, <2>4 DEF Next, PublisherNext, ExecutorNext, LoadConfig,
       publish_grant, publish_reviewed_grant, CheckPending, CheckConsumed, WriteStaging,
       ReplyPublished, CleanupStaging, CrashPublisher, BeginInvocation, SelectPending,
       ReadGrant, ValidateGrant, AllocateScratch, BindTools, FinishInvocation,
       CrashExecutor, Tick, EditPolicy, vars, diskVars, exeVars, history
<1> QED
  BY <1>1, <1>2, Invariance, PTL DEF Spec, ImplementsLedger, Ledger!LedgerSpec
=============================================================================
