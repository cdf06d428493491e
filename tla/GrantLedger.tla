---------------------------- MODULE GrantLedger ----------------------------
(***************************************************************************)
(* What the grant store promises: an approval identity is published, spent *)
(* once, and starts at most one command.  The detailed store is in module  *)
(* GrantStore, which is shown to implement this specification.             *)
(***************************************************************************)
CONSTANTS Ids,          \* approval identities
          Runners       \* processes that may start a command

VARIABLES status,       \* where each approval stands
          ran           \* which runner started a command for which approval

lvars == <<status, ran>>

Statuses == {"unpublished", "live", "spent"}

LedgerTypeOK == /\ status \in [Ids -> Statuses]
                /\ ran \in SUBSET (Ids \X Runners)

LedgerInit == /\ status = [i \in Ids |-> "unpublished"]
              /\ ran = {}

Publish(i) == /\ status[i] = "unpublished"
              /\ status' = [status EXCEPT ![i] = "live"]
              /\ UNCHANGED ran

Spend(i) == /\ status[i] = "live"
            /\ status' = [status EXCEPT ![i] = "spent"]
            /\ UNCHANGED ran

\* No second run, by this runner or by any other.
Run(i, r) == /\ status[i] = "spent"
             /\ \A q \in Runners : <<i, q>> \notin ran
             /\ ran' = ran \cup {<<i, r>>}
             /\ UNCHANGED status

LedgerNext == \E i \in Ids : \/ Publish(i) \/ Spend(i)
                             \/ \E r \in Runners : Run(i, r)

LedgerSpec == LedgerInit /\ [][LedgerNext]_lvars
=============================================================================
