----------------------------- MODULE ReviewTools -----------------------------
(***************************************************************************)
(* The retained-report tools together.  A reviewer works with one of them: *)
(* a run of the coverage or the JUnit review, or a session of commands of  *)
(* the SQLite review.  The tools share the check of the review ZIP and no  *)
(* state.                                                                  *)
(***************************************************************************)
EXTENDS ReportSession, SqliteSession

NoDatabase == [journal |-> "rollback", objects |-> {}]
NoSession == [before |-> NoDatabase, after |-> NoDatabase]

vars == <<reportVars, sessionVars>>

Init ==
  \/ \E t \in {"coverage", "junit"} : ReportInit(t) /\ SessionInit(NoSession)
  \/ ReportInit("sqlite") /\ \E s \in Sessions : SessionInit(s)

Next ==
  \/ tool # "sqlite" /\ ReportNext /\ UNCHANGED sessionVars
  \/ tool = "sqlite" /\ SessionNext /\ UNCHANGED reportVars

Spec == Init /\ [][Next]_vars

\* Readers stay within the bounds of their reports and answers within the
\* bounds of their requests.
TypeOK == ReportTypeOK /\ SessionTypeOK
=============================================================================
