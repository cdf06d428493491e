----------------------------- MODULE GrantStore -----------------------------
(***************************************************************************)
(* The approval store of executor/store.mbt: grant-publisher processes     *)
(* validate, stage and rename a grant into pending/, executor processes    *)
(* rename it into consumed/ and only then read and validate it.  Each      *)
(* process serves one request (cmd/grant-publisher, cmd/executor) and may  *)
(* crash between any two file-system calls; nothing but the file system is *)
(* shared.                                                                 *)
(***************************************************************************)
EXTENDS Integers

CONSTANTS
  Ids,           \* approval identities that pass safe_identifier
  Grants,        \* grant documents
  Policies,      \* contents the executor configuration file may have
  Publishers,    \* grant-publisher processes
  Executors,     \* executor processes
  approval_id,   \* approval_id[g]: the identity grant g names
  expires_at_ms, \* expires_at_ms[g]: when grant g expires
  Permitted,     \* Permitted[c]: the grants that policy c authorizes
  MaxTime,       \* bound of the clock
  NoGrant,       \* no file, or no grant yet
  NoOne          \* no executor

ASSUME GrantAssumption ==
  /\ approval_id \in [Grants -> Ids]
  /\ expires_at_ms \in [Grants -> Nat]
  /\ Permitted \in [Policies -> SUBSET Grants]
  /\ MaxTime \in Nat
  /\ NoGrant \notin Grants
  /\ NoOne \notin Executors

VARIABLES
  now,        \* the wall clock, @env.now()
  policy,     \* the configuration file as it is on disk
  pending,    \* pending/<id>.json
  consumed,   \* consumed/<id>.json
  staging,    \* pending/.publish-<random>.tmp of each publisher
  ppc, pgrant, pcfg, reply,          \* publishers
  epc, eid, egrant, ecfg, response,  \* executors
  committed,   \* history: publishers whose rename took effect
  misreported, \* history: those whose rename took effect and was called failed
  spender,     \* history: the executor whose rename spent an approval
  spentAt,     \* history: and when
  validatedAt, \* history: when each executor last validated its grant
  ran          \* history: the grant each executor started

diskVars == <<policy, pending, consumed, staging>>
pubVars  == <<ppc, pgrant, pcfg, reply>>
exeVars  == <<epc, eid, egrant, ecfg, response>>
history  == <<committed, misreported, spender, spentAt, validatedAt, ran>>
vars     == <<now, diskVars, pubVars, exeVars, history>>

PublisherPCs == {"idle", "configured", "check_pending", "check_consumed", "stage",
                 "rename", "renamed", "cleanup", "done", "crashed"}
ExecutorPCs  == {"idle", "select", "claim", "read", "validate", "allocate",
                 "bind", "start", "running", "done", "crashed"}
Replies      == {"none", "published", "grant-refused", "review-stale",
                 "grant-conflict", "publication-refused"}
Responses    == {"none", "approval-refused", "grant-refused", "not-started",
                 "started"}

TypeOK ==
  /\ now \in 0..MaxTime
  /\ policy \in Policies
  /\ pending \in [Ids -> Grants \cup {NoGrant}]
  /\ consumed \in [Ids -> Grants \cup {NoGrant}]
  /\ staging \in [Publishers -> Grants \cup {NoGrant}]
  /\ ppc \in [Publishers -> PublisherPCs]
  /\ pgrant \in [Publishers -> Grants \cup {NoGrant}]
  /\ pcfg \in [Publishers -> Policies]
  /\ reply \in [Publishers -> Replies]
  /\ epc \in [Executors -> ExecutorPCs]
  /\ eid \in [Executors -> Ids]
  /\ egrant \in [Executors -> Grants \cup {NoGrant}]
  /\ ecfg \in [Executors -> Policies]
  /\ response \in [Executors -> Responses]
  /\ committed \in SUBSET Publishers
  /\ misreported \in SUBSET Publishers
  /\ spender \in [Ids -> Executors \cup {NoOne}]
  /\ spentAt \in [Ids -> 0..MaxTime]
  /\ validatedAt \in [Executors -> 0..MaxTime]
  /\ ran \in [Executors -> Grants \cup {NoGrant}]

Init ==
  /\ now = 0
  /\ policy \in Policies
  /\ pending = [i \in Ids |-> NoGrant]
  /\ consumed = [i \in Ids |-> NoGrant]
  /\ staging = [p \in Publishers |-> NoGrant]
  /\ ppc = [p \in Publishers |-> "idle"]
  /\ pgrant = [p \in Publishers |-> NoGrant]
  /\ pcfg = [p \in Publishers |-> policy]
  /\ reply = [p \in Publishers |-> "none"]
  /\ epc = [e \in Executors |-> "idle"]
  /\ eid \in [Executors -> Ids]
  /\ egrant = [e \in Executors |-> NoGrant]
  /\ ecfg = [e \in Executors |-> policy]
  /\ response = [e \in Executors |-> "none"]
  /\ committed = {}
  /\ misreported = {}
  /\ spender = [i \in Ids |-> NoOne]
  /\ spentAt = [i \in Ids |-> 0]
  /\ validatedAt = [e \in Executors |-> 0]
  /\ ran = [e \in Executors |-> NoGrant]

-----------------------------------------------------------------------------
(***************************************************************************)
(* validate_grant: the identity asked for, expiry against the clock, and   *)
(* every policy check against the configuration the process loaded,        *)
(* collapsed to one set of grants per policy.                              *)
(***************************************************************************)
validate_grant(g, i, cfg) ==
  approval_id[g] = i /\ expires_at_ms[g] > now /\ g \in Permitted[cfg]

(***************************************************************************)
(* rehearse_grant: the read-only check that returns a review digest.  The  *)
(* digest binds the exact candidate and the trusted scope it was shown in; *)
(* a candidate the policy refuses has none.                                *)
(***************************************************************************)
Digests == Grants \X Policies

grant_review_digest(g, cfg) == <<g, cfg>>

rehearse_grant(g, cfg) ==
  IF validate_grant(g, approval_id[g], cfg)
  THEN {grant_review_digest(g, cfg)} ELSE {}

PubStep(p, to) == ppc' = [ppc EXCEPT ![p] = to]

PubReply(p, code) == PubStep(p, "done") /\ reply' = [reply EXCEPT ![p] = code]

\* cmd/grant-publisher loads the configuration once, before it reads a request.
LoadConfig(p) ==
  /\ ppc[p] = "idle"
  /\ pcfg' = [pcfg EXCEPT ![p] = policy]
  /\ PubStep(p, "configured")
  /\ UNCHANGED <<now, diskVars, pgrant, reply, exeVars, history>>

\* The head of publish_grant: validate the request, find the store usable.
BeginPublish(p, g) ==
  /\ pgrant' = [pgrant EXCEPT ![p] = g]
  /\ \/ /\ validate_grant(g, approval_id[g], pcfg[p])
        /\ \/ PubStep(p, "check_pending") /\ UNCHANGED reply
           \/ PubReply(p, "publication-refused")
     \/ /\ ~validate_grant(g, approval_id[g], pcfg[p])
        /\ PubReply(p, "grant-refused")

publish_grant(p, g) ==
  /\ ppc[p] = "configured"
  /\ BeginPublish(p, g)
  /\ UNCHANGED <<now, diskVars, pcfg, exeVars, history>>

(***************************************************************************)
(* publish_reviewed_grant: the caller presents the digest d of the review; *)
(* it must be what rehearsal returns for this candidate now.               *)
(***************************************************************************)
publish_reviewed_grant(p, g, d) ==
  /\ ppc[p] = "configured"
  /\ \/ /\ d \in rehearse_grant(g, pcfg[p])
        /\ BeginPublish(p, g)
     \/ /\ d \notin rehearse_grant(g, pcfg[p])
        /\ PubReply(p, "review-stale")
        /\ UNCHANGED pgrant
  /\ UNCHANGED <<now, diskVars, pcfg, exeVars, history>>

\* !@fs.exists(destination): the first half of the conflict guard.
CheckPending(p) ==
  /\ ppc[p] = "check_pending"
  /\ IF pending[approval_id[pgrant[p]]] = NoGrant
     THEN PubStep(p, "check_consumed") /\ UNCHANGED reply
     ELSE PubReply(p, "grant-conflict")
  /\ UNCHANGED <<now, diskVars, pgrant, pcfg, exeVars, history>>

\* !@fs.exists(consumed): the second half, a separate system call.
CheckConsumed(p) ==
  /\ ppc[p] = "check_consumed"
  /\ IF consumed[approval_id[pgrant[p]]] = NoGrant
     THEN PubStep(p, "stage") /\ UNCHANGED reply
     ELSE PubReply(p, "grant-conflict")
  /\ UNCHANGED <<now, diskVars, pgrant, pcfg, exeVars, history>>

\* write_file(staging, CreateNew, Full) and its verification: written and
\* synced, or an I/O error that may leave the file behind.
WriteStaging(p) ==
  /\ ppc[p] = "stage"
  /\ \/ /\ staging' = [staging EXCEPT ![p] = pgrant[p]]
        /\ PubStep(p, "rename") \/ PubStep(p, "cleanup")
     \/ /\ PubStep(p, "cleanup")
        /\ UNCHANGED staging
  /\ UNCHANGED <<now, policy, pending, consumed, pgrant, pcfg, reply,
                 exeVars, history>>

\* A rename that replaces an existing destination.
RenameStaging_Replacing(p) ==
  LET i == approval_id[pgrant[p]] IN
  /\ ppc[p] = "rename"
  /\ pending' = [pending EXCEPT ![i] = staging[p]]
  /\ staging' = [staging EXCEPT ![p] = NoGrant]
  /\ committed' = committed \cup {p}
  /\ PubStep(p, "renamed")
  /\ UNCHANGED <<now, policy, consumed, pgrant, pcfg, reply, exeVars,
                 misreported, spender, spentAt, validatedAt, ran>>

\* rename(staging, destination, replace=false): takes effect only while the
\* destination name is free; one that took effect may still be reported as
\* failed, as rollback_pre_rename_claim of the same file allows for.
RenameStaging(p) ==
  LET i == approval_id[pgrant[p]] IN
  /\ ppc[p] = "rename"
  /\ \/ /\ pending[i] = NoGrant
        /\ pending' = [pending EXCEPT ![i] = staging[p]]
        /\ staging' = [staging EXCEPT ![p] = NoGrant]
        /\ committed' = committed \cup {p}
        /\ \/ PubStep(p, "renamed") /\ UNCHANGED misreported
           \/ PubStep(p, "cleanup") /\ misreported' = misreported \cup {p}
     \/ /\ PubStep(p, "cleanup")
        /\ UNCHANGED <<pending, staging, committed, misreported>>
  /\ UNCHANGED <<now, policy, consumed, pgrant, pcfg, reply, exeVars,
                 spender, spentAt, validatedAt, ran>>

\* A publication that took effect is reported as refused.
ReplyPublished_Refusing(p) ==
  /\ ppc[p] = "renamed"
  /\ PubReply(p, "publication-refused")
  /\ UNCHANGED <<now, diskVars, pgrant, pcfg, exeVars, history>>

\* A code the protocol does not have.
ReplyPublished_UnknownCode(p) ==
  /\ ppc[p] = "renamed"
  /\ PubReply(p, "ok")
  /\ UNCHANGED <<now, diskVars, pgrant, pcfg, exeVars, history>>

ReplyPublished(p) ==
  /\ ppc[p] = "renamed"
  /\ PubReply(p, "published")
  /\ UNCHANGED <<now, diskVars, pgrant, pcfg, exeVars, history>>

\* The catch arm: remove the staging file, ignoring failure, and refuse.
CleanupStaging(p) ==
  /\ ppc[p] = "cleanup"
  /\ \/ staging' = [staging EXCEPT ![p] = NoGrant]
     \/ UNCHANGED staging
  /\ PubReply(p, "publication-refused")
  /\ UNCHANGED <<now, policy, pending, consumed, pgrant, pcfg, exeVars,
                 history>>

CrashPublisher(p) ==
  /\ ppc[p] \notin {"idle", "done", "crashed"}
  /\ PubStep(p, "crashed")
  /\ UNCHANGED <<now, diskVars, pgrant, pcfg, reply, exeVars, history>>

-----------------------------------------------------------------------------
ExeStep(e, to) == epc' = [epc EXCEPT ![e] = to]

ExeReply(e, code) ==
  ExeStep(e, "done") /\ response' = [response EXCEPT ![e] = code]

\* An invocation carries an approval ID and nothing else.
BeginInvocation(e) ==
  /\ epc[e] = "idle"
  /\ ecfg' = [ecfg EXCEPT ![e] = policy]
  /\ ExeStep(e, "select")
  /\ UNCHANGED <<now, diskVars, pubVars, eid, egrant, response, history>>

\* consume_grant, kind(pending): the store must be private and the name a
\* regular file.
SelectPending(e) ==
  /\ epc[e] = "select"
  /\ \/ /\ pending[eid[e]] # NoGrant
        /\ ExeStep(e, "claim")
        /\ UNCHANGED response
     \/ ExeReply(e, "approval-refused")
  /\ UNCHANGED <<now, diskVars, pubVars, eid, egrant, ecfg, history>>

\* The claim copies the pending file over the consumed name and leaves it.
ClaimGrant_Copying(e) ==
  LET i == eid[e] IN
  /\ epc[e] = "claim"
  /\ pending[i] # NoGrant
  /\ consumed' = [consumed EXCEPT ![i] = pending[i]]
  /\ spender' = [spender EXCEPT ![i] = e]
  /\ ExeStep(e, "read")
  /\ UNCHANGED <<now, policy, pending, staging, pubVars, eid, egrant, ecfg,
                 response, committed, misreported, spentAt, validatedAt, ran>>

\* rename(pending, consumed, replace=false): the approval is spent here, and
\* only while the consumed name is free; when a rename that took effect is
\* reported as failed the approval is spent and nothing runs.
ClaimGrant(e) ==
  LET i == eid[e] IN
  /\ epc[e] = "claim"
  /\ \/ /\ pending[i] # NoGrant
        /\ consumed[i] = NoGrant
        /\ consumed' = [consumed EXCEPT ![i] = pending[i]]
        /\ pending' = [pending EXCEPT ![i] = NoGrant]
        /\ spender' = [spender EXCEPT ![i] = e]
        /\ spentAt' = [spentAt EXCEPT ![i] = now]
        /\ \/ ExeStep(e, "read") /\ UNCHANGED response
           \/ ExeReply(e, "approval-refused")
     \/ /\ ExeReply(e, "approval-refused")
        /\ UNCHANGED <<pending, consumed, spender, spentAt>>
  /\ UNCHANGED <<now, policy, staging, pubVars, eid, egrant, ecfg, committed,
                 misreported, validatedAt, ran>>

\* The grant is read from the pending name when that name is occupied.
ReadGrant_FromPending(e) ==
  /\ epc[e] = "read"
  /\ egrant' = [egrant EXCEPT ![e] = IF pending[eid[e]] # NoGrant
                                     THEN pending[eid[e]]
                                     ELSE consumed[eid[e]]]
  /\ ExeStep(e, "validate")
  /\ UNCHANGED <<now, diskVars, pubVars, eid, ecfg, response, history>>

\* A grant that cannot be read is given back to pending for another attempt.
ReadGrant_GivingBack(e) ==
  LET i == eid[e] IN
  /\ epc[e] = "read"
  /\ \/ /\ egrant' = [egrant EXCEPT ![e] = consumed[i]]
        /\ ExeStep(e, "validate")
        /\ UNCHANGED <<pending, consumed, response>>
     \/ /\ consumed[i] # NoGrant
        /\ pending' = [pending EXCEPT ![i] = consumed[i]]
        /\ consumed' = [consumed EXCEPT ![i] = NoGrant]
        /\ ExeReply(e, "approval-refused")
        /\ UNCHANGED egrant
  /\ UNCHANGED <<now, policy, staging, pubVars, eid, ecfg, history>>

\* The consumed file is read and parsed; a failure leaves the approval spent.
ReadGrant(e) ==
  /\ epc[e] = "read"
  /\ \/ /\ egrant' = [egrant EXCEPT ![e] = consumed[eid[e]]]
        /\ ExeStep(e, "validate")
        /\ UNCHANGED response
     \/ /\ ExeReply(e, "approval-refused")
        /\ UNCHANGED egrant
  /\ UNCHANGED <<now, diskVars, pubVars, eid, ecfg, history>>

\* The validation done at publication is trusted.
ValidateGrant_Unvalidated(e) ==
  /\ epc[e] = "validate"
  /\ ExeStep(e, "allocate")
  /\ validatedAt' = [validatedAt EXCEPT ![e] = now]
  /\ UNCHANGED <<now, diskVars, pubVars, eid, egrant, ecfg, response, committed,
                 misreported, spender, spentAt, ran>>

\* execute_invocation revalidates against its own configuration and clock.
ValidateGrant(e) ==
  /\ epc[e] = "validate"
  /\ \/ /\ validate_grant(egrant[e], eid[e], ecfg[e])
        /\ \/ ExeStep(e, "allocate") /\ UNCHANGED response
           \/ ExeReply(e, "not-started")
     \/ /\ ~validate_grant(egrant[e], eid[e], ecfg[e])
        /\ ExeReply(e, "grant-refused")
  /\ validatedAt' = [validatedAt EXCEPT ![e] = now]
  /\ UNCHANGED <<now, diskVars, pubVars, eid, egrant, ecfg, committed,
                 misreported, spender, spentAt, ran>>

\* allocate_scratch may refuse; begin_live_output, which follows it, may not.
AllocateScratch(e) ==
  /\ epc[e] = "allocate"
  /\ \/ ExeStep(e, "bind") /\ UNCHANGED response
     \/ ExeReply(e, "not-started")
  /\ UNCHANGED <<now, diskVars, pubVars, eid, egrant, ecfg, history>>

\* local_bindings (or the AEN deployment): an await, during which time passes.
BindTools(e) ==
  /\ epc[e] = "bind"
  /\ \/ ExeStep(e, "start") /\ UNCHANGED response
     \/ ExeReply(e, "not-started")
  /\ UNCHANGED <<now, diskVars, pubVars, eid, egrant, ecfg, history>>

\* run_local_sandbox or execute_aen_sandbox: the clock is not asked again.
StartCommand(e) ==
  /\ epc[e] = "start"
  /\ \/ /\ ExeStep(e, "running")
        /\ ran' = [ran EXCEPT ![e] = egrant[e]]
        /\ UNCHANGED response
     \/ /\ ExeReply(e, "not-started")
        /\ UNCHANGED ran
  /\ UNCHANGED <<now, diskVars, pubVars, eid, egrant, ecfg, committed,
                 misreported, spender, spentAt, validatedAt>>

FinishInvocation(e) ==
  /\ epc[e] = "running"
  /\ ExeReply(e, "started")
  /\ UNCHANGED <<now, diskVars, pubVars, eid, egrant, ecfg, history>>

CrashExecutor(e) ==
  /\ epc[e] \notin {"idle", "done", "crashed"}
  /\ ExeStep(e, "crashed")
  /\ UNCHANGED <<now, diskVars, pubVars, eid, egrant, ecfg, response, history>>

-----------------------------------------------------------------------------
\* The environment: time passes, and the operator edits the configuration.
Tick ==
  /\ now < MaxTime
  /\ now' = now + 1
  /\ UNCHANGED <<diskVars, pubVars, exeVars, history>>

EditPolicy ==
  /\ policy' \in Policies \ {policy}
  /\ UNCHANGED <<now, pending, consumed, staging, pubVars, exeVars, history>>

PublisherNext(p) ==
  \/ LoadConfig(p)
  \/ \E g \in Grants : publish_grant(p, g)
  \/ \E g \in Grants, d \in Digests : publish_reviewed_grant(p, g, d)
  \/ CheckPending(p) \/ CheckConsumed(p) \/ WriteStaging(p) \/ RenameStaging(p)
  \/ ReplyPublished(p) \/ CleanupStaging(p) \/ CrashPublisher(p)

ExecutorNext(e) ==
  \/ BeginInvocation(e) \/ SelectPending(e) \/ ClaimGrant(e) \/ ReadGrant(e)
  \/ ValidateGrant(e) \/ AllocateScratch(e) \/ BindTools(e) \/ StartCommand(e)
  \/ FinishInvocation(e) \/ CrashExecutor(e)

Next ==
  \/ \E p \in Publishers : PublisherNext(p)
  \/ \E e \in Executors : ExecutorNext(e)
  \/ Tick
  \/ EditPolicy

Spec == Init /\ [][Next]_vars

-----------------------------------------------------------------------------
(***************************************************************************)
(* SingleUse: however publishers, executors and crashes interleave, two    *)
(* executor processes never start a command for the same approval identity *)
(* (consume_grant's no-replace rename spends it first).                    *)
(***************************************************************************)
SingleUse ==
  \A e, f \in Executors :
    ran[e] # NoGrant /\ ran[f] # NoGrant /\ eid[e] = eid[f] => e = f

(***************************************************************************)
(* ExecutesWhatWasSpent: a started command is the grant document that one  *)
(* publisher's rename put in the store for this very identity, and the     *)
(* spent record still shows it (digests in the receipt stay auditable).    *)
(***************************************************************************)
ExecutesWhatWasSpent ==
  \A e \in Executors : ran[e] # NoGrant =>
    /\ consumed[eid[e]] = ran[e]
    /\ approval_id[ran[e]] = eid[e]
    /\ \E p \in committed : pgrant[p] = ran[e]

(***************************************************************************)
(* TwiceAuthorized: a started command was authorized by the configuration  *)
(* its publisher loaded and again by the one its executor loaded, whatever *)
(* the operator edited meanwhile.                                          *)
(***************************************************************************)
TwiceAuthorized ==
  \A e \in Executors : ran[e] # NoGrant =>
    /\ ran[e] \in Permitted[ecfg[e]]
    /\ \E p \in committed : pgrant[p] = ran[e] /\ ran[e] \in Permitted[pcfg[p]]

(***************************************************************************)
(* CheckedUnexpired: however long a grant waited in the store, the         *)
(* executor that starts it found it unexpired after it had spent it; so a  *)
(* grant that had expired when it was spent never runs.  The grant may     *)
(* expire between that check and the start of the command:                 *)
(* execute_invocation allocates scratch and binds tools in between, and    *)
(* does not look at the clock again.                                       *)
(***************************************************************************)
CheckedUnexpired ==
  \A e \in Executors : ran[e] # NoGrant =>
    /\ spentAt[eid[e]] <= validatedAt[e]
    /\ validatedAt[e] < expires_at_ms[ran[e]]

(***************************************************************************)
(* RunsWhatWasApproved: what an executor starts is the very document that  *)
(* was published and spent under this identity, both configurations        *)
(* authorize it, and it was unexpired when the executor checked it.        *)
(***************************************************************************)
RunsWhatWasApproved == ExecutesWhatWasSpent /\ TwiceAuthorized /\ CheckedUnexpired

(***************************************************************************)
(* AnswerIsTruthful: publish_grant answers published: true only for a      *)
(* grant that it put in the store, and published: false for one that it    *)
(* put there only when its own rename took effect and was reported as      *)
(* failed, which the catch arm takes for a publication that did not        *)
(* happen.                                                                 *)
(***************************************************************************)
AnswerIsTruthful ==
  \A p \in Publishers :
    /\ reply[p] = "published" => p \in committed
    /\ reply[p] \notin {"none", "published"} /\ p \in committed =>
         reply[p] = "publication-refused" /\ p \in misreported

(***************************************************************************)
(* PublishedNeverLost: a grant whose publication took effect stays in the  *)
(* store, as pending or as consumed, whatever later publishers, executors  *)
(* or crashes do.                                                          *)
(***************************************************************************)
PublishedNeverLost ==
  \A p \in committed :
    pgrant[p] \in {pending[approval_id[pgrant[p]]], consumed[approval_id[pgrant[p]]]}

(***************************************************************************)
(* PublicationTruthful: the answers of publish_grant and the store agree,  *)
(* but for a rename that reports a failure after it took effect; and what  *)
(* took effect is still there, whatever the answer was.                    *)
(***************************************************************************)
PublicationTruthful == AnswerIsTruthful /\ PublishedNeverLost

(***************************************************************************)
(* SpentForever: no step removes or rewrites a consumed record, so a spent *)
(* approval can never become usable again.                                 *)
(***************************************************************************)
SpentForever ==
  [][\A i \in Ids : consumed[i] # NoGrant => consumed'[i] = consumed[i]]_vars

\* The store seen as a ledger: a pending file behind a consumed one is dead.
LedgerStatus ==
  [i \in Ids |-> IF consumed[i] # NoGrant THEN "spent"
                 ELSE IF pending[i] # NoGrant THEN "live" ELSE "unpublished"]

LedgerRan == {x \in Ids \X Executors : eid[x[2]] = x[1] /\ ran[x[2]] # NoGrant}

Ledger == INSTANCE GrantLedger WITH Runners <- Executors,
                                    status <- LedgerStatus, ran <- LedgerRan

(***************************************************************************)
(* ImplementsLedger: publication, consumption and start of a command are   *)
(* exactly the abstract ledger's steps; every other step changes nothing.  *)
(***************************************************************************)
ImplementsLedger == Ledger!LedgerSpec
=============================================================================
