-------------------------- MODULE EvaluationControl --------------------------
(***************************************************************************)
(* Evaluation runs (evaluation_control_plane_service.py and its routes).   *)
(*                                                                         *)
(* Starting an evaluation runs its offline cases at once, and queues one   *)
(* child analysis run for each live or hybrid case, all in one commit.     *)
(* From then on only readers move the verdict: a read locks the row,       *)
(* recomputes the case rows from the child runs, one query per child,      *)
(* answers with the result - and closes its session without a commit.      *)
(***************************************************************************)
EXTENDS RunStatus, Naturals, FiniteSets, Functions

CONSTANTS
  Cases,       \* cases of the suite
  Children,    \* child analysis runs that may ever be created
  NoChild,     \* what an offline case is linked to
  Starters,    \* start requests being served at once
  Endings,     \* how child runs may end: status, and evidence in their output
  MaxReruns    \* bound: retries of finished child runs

ASSUME ChildrenAssumption == NoChild \notin Children
ASSUME EndingsAssumption ==
  Endings \subseteq [status : AnalysisRunStatus, evidence : {"clean", "upstream", "stale"}]

VARIABLES
  live,      \* the suite's live and hybrid cases
  evalRun,   \* the evaluation_runs row: its stored status
  caseRow,   \* the stored evaluation_case_results rows
  child,     \* the child runs: status and what their output tells of sources
  starter,   \* the start requests
  reader,    \* a read under way
  reruns

evalVars == <<live, evalRun, caseRow, child, starter, reader, reruns>>

EvaluationRunStatus == {"pending", "running", "passed", "failed", "skipped", "error"}
EvaluationStatus    == {"pending", "passed", "failed", "skipped", "error"}
Degradation == {"none", "policy_skipped", "upstream_sec_degraded", "stale_source",
                "product_regression"}
Evidence == {"clean", "upstream", "stale"}   \* error codes and age in a run's output

NoRow == [status |-> "none"]
NoReader == [open |-> FALSE]
Absent == [status |-> "absent", evidence |-> "clean"]

CaseRow == [status : EvaluationStatus, class : Degradation, child : Children \cup {NoChild}]

EvalTypeOK ==
  /\ live \subseteq Cases
  /\ evalRun \in EvaluationRunStatus
  /\ caseRow \in [Cases -> CaseRow \cup {NoRow}]
  /\ child \in [Children -> [status : AnalysisRunStatus \cup {"absent"},
                             evidence : Evidence]]
  /\ starter \in [Starters -> {"idle", "checked"}]

EvalInit ==
  /\ live \in SUBSET Cases
  /\ evalRun = "pending"
  /\ caseRow = [c \in Cases |-> NoRow]
  /\ child = [k \in Children |-> Absent]
  /\ starter = [s \in Starters |-> "idle"]
  /\ reader = NoReader
  /\ reruns = 0

-------------------------------------------------------------------------------
(* One case: edgar_project/evaluation/runner.py *)

\* run_case of an offline case.  An exception is an error, a failed check or
\* an unexpected status a failure, and nothing else passes.
RunCase(raised, failures, expected) ==
  IF raised THEN "error"
  ELSE LET status == IF failures THEN "failed" ELSE "passed"
       IN  IF expected # {} /\ status \notin expected THEN "failed" ELSE status

OfflineOutcomes ==
  {RunCase(raised, failures, expected) :
     raised \in BOOLEAN, failures \in BOOLEAN, expected \in SUBSET {"passed", "failed"}}

\* classify_degradation_class_for_case: policy, then upstream, then age, then
\* the product itself.
Classify(isLive, status, evidence, allowLive) ==
  IF isLive /\ ~allowLive THEN "policy_skipped"
  ELSE IF evidence = "upstream" THEN "upstream_sec_degraded"
  ELSE IF evidence = "stale" THEN "stale_source"
  ELSE IF status \in {"failed", "error"} THEN "product_regression"
  ELSE "none"

\* Mutant: a run that ended with part of its results counts as passed.
CaseStatus_PartialPasses(runStatus) ==
  IF ~IsTerminal(runStatus) THEN "pending"
  ELSE IF runStatus \in {"success", "partial_success"} THEN "passed"
  ELSE IF runStatus = "no_data" THEN "failed"
  ELSE "error"

\* Mutant: a cancelled child is waited for, as if it would be queued again.
CaseStatus_CancelledPends(runStatus) ==
  IF ~IsTerminal(runStatus) \/ runStatus = "cancelled" THEN "pending"
  ELSE IF runStatus = "success" THEN "passed"
  ELSE IF runStatus \in {"partial_success", "no_data"} THEN "failed"
  ELSE "error"

\* _case_status_for_analysis_run
CaseStatus(runStatus) ==
  IF ~IsTerminal(runStatus) THEN "pending"
  ELSE IF runStatus = "success" THEN "passed"
  ELSE IF runStatus \in {"partial_success", "no_data"} THEN "failed"
  ELSE "error"

\* Mutant: errors and failures end an evaluation before all cases are in.
Verdict_FailFast(statuses) ==
  IF "error" \in statuses THEN "error"
  ELSE IF "failed" \in statuses THEN "failed"
  ELSE IF "pending" \in statuses THEN "running"
  ELSE IF statuses = {"skipped"} THEN "skipped"
  ELSE "passed"

\* _terminal_status
Verdict(statuses) ==
  IF "pending" \in statuses THEN "running"
  ELSE IF "error" \in statuses THEN "error"
  ELSE IF "failed" \in statuses THEN "failed"
  ELSE IF statuses = {"skipped"} THEN "skipped"
  ELSE "passed"

StatusesOf(rows) == {rows[c].status : c \in {d \in Cases : rows[d] # NoRow}}

-------------------------------------------------------------------------------
(* POST /evaluations/{id}/start *)

\* The route looks at the status without a lock.
CheckPending(s) ==
  /\ starter[s] = "idle" /\ evalRun = "pending"
  /\ starter' = [starter EXCEPT ![s] = "checked"]
  /\ UNCHANGED <<live, evalRun, caseRow, child, reader, reruns>>

Unused == {k \in Children : child[k] = Absent}

\* start_evaluation_run locks the row, does not look at the status again, runs
\* the offline cases, replaces all case rows and queues a child per live case.
Start(s) ==
  /\ starter[s] = "checked" /\ reader = NoReader
  /\ \E link \in Injection(live, Unused),
        outcome \in [Cases \ live -> OfflineOutcomes] :
       LET rows == [c \in Cases |->
                      IF c \in live
                      THEN [status |-> "pending", class |-> "none",
                            child |-> link[c]]
                      ELSE [status |-> outcome[c],
                            class |-> Classify(FALSE, outcome[c], "clean", FALSE),
                            child |-> NoChild]]
       IN  /\ caseRow' = rows
           /\ evalRun' = Verdict(StatusesOf(rows))
           /\ child' = [k \in Children |->
                          IF k \in Range(link)
                          THEN [status |-> "queued", evidence |-> "clean"]
                          ELSE child[k]]
  /\ starter' = [starter EXCEPT ![s] = "idle"]
  /\ UNCHANGED <<live, reader, reruns>>

\* The offline cases raise before anything is queued: the evaluation ends in
\* error without case rows.
StartFails(s) ==
  /\ starter[s] = "checked" /\ reader = NoReader
  /\ evalRun' = "error"
  /\ caseRow' = [c \in Cases |-> NoRow]
  /\ starter' = [starter EXCEPT ![s] = "idle"]
  /\ UNCHANGED <<live, child, reader, reruns>>

-------------------------------------------------------------------------------
(* Child runs, moved by the worker and by users; RunQueue has the details *)

ChildStarts(k) ==
  /\ child[k].status = "queued"
  /\ child' = [child EXCEPT ![k].status = "running"]
  /\ UNCHANGED <<live, evalRun, caseRow, starter, reader, reruns>>

\* The output, when there is one, says what became of the sources.
ChildEnds(k) ==
  /\ child[k].status \in {"queued", "running"}
  /\ \E e \in Endings : e.status \in Allowed[child[k].status]
                         /\ child' = [child EXCEPT ![k] = e]
  /\ UNCHANGED <<live, evalRun, caseRow, starter, reader, reruns>>

\* A retried run keeps its last output until it has a new one.
ChildRetried(k) ==
  /\ IsRetriable(child[k].status) /\ reruns < MaxReruns
  /\ child' = [child EXCEPT ![k].status = "queued"]
  /\ reruns' = reruns + 1
  /\ UNCHANGED <<live, evalRun, caseRow, starter, reader>>

-------------------------------------------------------------------------------
(* Reads: GET /evaluations/{id} and its /cases *)

Linked(rows) == {c \in Cases : rows[c] # NoRow /\ rows[c].child # NoChild}

\* get_for_update, list_for_run
ReadLocks ==
  /\ reader = NoReader /\ evalRun # "pending"
  /\ reader' = [open |-> TRUE, rows |-> caseRow, todo |-> Linked(caseRow), seen |-> << >>]
  /\ UNCHANGED <<live, evalRun, caseRow, child, starter, reruns>>

\* One child run is read and its case row reconciled.
Reconcile(c) ==
  /\ reader # NoReader /\ c \in reader.todo
  /\ LET k == child[reader.rows[c].child]
         status == CaseStatus(k.status)
     IN  reader' =
           [reader EXCEPT
              !.rows[c] = [@ EXCEPT !.status = status,
                                    !.class  = Classify(c \in live, status, k.evidence, TRUE)],
              !.todo = @ \ {c},
              !.seen = [d \in DOMAIN @ \cup {c} |-> IF d = c THEN k.status ELSE @[d]]]
  /\ UNCHANGED <<live, evalRun, caseRow, child, starter, reruns>>

\* The answer is the recomputed row; without case rows it is the stored one.
Answered == reader # NoReader /\ reader.todo = {}
Answer   == IF StatusesOf(reader.rows) = {} THEN evalRun
            ELSE Verdict(StatusesOf(reader.rows))

\* The session closes: nothing of it is stored, the lock is released.
ReadCloses ==
  /\ Answered
  /\ reader' = NoReader
  /\ UNCHANGED <<live, evalRun, caseRow, child, starter, reruns>>

-------------------------------------------------------------------------------
EvalNext ==
  \/ \E s \in Starters : CheckPending(s) \/ Start(s) \/ StartFails(s)
  \/ \E k \in Children : ChildStarts(k) \/ ChildEnds(k) \/ ChildRetried(k)
  \/ ReadLocks \/ (\E c \in Cases : Reconcile(c)) \/ ReadCloses

\* The page of an evaluation polls.  Child runs owe nothing: an abandoned one
\* stays running, one retried past the ceiling stays queued.
EvalFairness ==
  /\ WF_evalVars(ReadLocks) /\ WF_evalVars(ReadCloses)
  /\ \A c \in Cases : WF_evalVars(Reconcile(c))

EvalSpec == EvalInit /\ [][EvalNext]_evalVars /\ EvalFairness

-------------------------------------------------------------------------------
(* Properties *)

\* A verdict that a read answers is borne out by what that read saw, though it
\* saw the child runs at different moments while they moved: passed only when
\* every case of the suite has a row and every child it saw had succeeded,
\* never final while a child was still under way, and a case that is blamed on
\* nothing did not fail.
VerdictIsJustified ==
  Answered =>
    /\ Answer = "passed" =>
         \A c \in Cases : reader.rows[c] # NoRow
                          /\ (c \in live => reader.seen[c] = "success")
    /\ (\E c \in DOMAIN reader.seen : ~IsTerminal(reader.seen[c])) => Answer = "running"
    /\ \A c \in Cases : reader.rows[c] # NoRow /\ reader.rows[c].class = "none" =>
         reader.rows[c].status \in {"passed", "pending"}

\* No child run is under way.
ChildrenDone == \A k \in Children : child[k] # Absent => IsTerminal(child[k].status)

\* Once the child runs have ended for good, however they ended and however often
\* they were retried before, polling reads give a started evaluation a final
\* answer, and go on giving it: they do not wait for what will never come.
ServedVerdictSettles ==
  <>[]ChildrenDone =>
    ((evalRun # "pending") ~> (Answered /\ Answer # "running"))

\* What 10-VERIFICATION.md says, that the rows "update that history to terminal
\* run truth": once the child runs have ended for good and while the page polls,
\* the stored status, which lists, health and metrics read, leaves running.
StoredVerdictSettles ==
  <>[]ChildrenDone => ((evalRun = "running") ~> (evalRun # "running"))

\* What test_evaluation_control_plane_api.py asserts of a second start, that it
\* is refused: no child run is started for a case that has one.
OneChildPerCase ==
  \A k \in Children : child[k] # Absent =>
    \E c \in Cases : caseRow[c] # NoRow /\ caseRow[c].child = k

\* No two start requests stand between their look at the status and the start.
StartsApart ==
  \A s, t \in Starters : starter[s] = "checked" /\ starter[t] = "checked" => s = t
==============================================================================
