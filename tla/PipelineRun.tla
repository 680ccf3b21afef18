----------------------------- MODULE PipelineRun -----------------------------
(***************************************************************************)
(* One EDGAR run from its plan to its stored trace: the planner and the    *)
(* executor of edgar_project/orchestration, the tools it calls, and        *)
(* run_traceable_edgar_pipeline, which stores what was done and asks two   *)
(* model agents about it.                                                  *)
(*                                                                         *)
(* The executor keeps going after some failures and stops after others;    *)
(* the status it reports is computed from what it noted on the way.  The   *)
(* trace is committed phase by phase, so an attempt that ends early leaves *)
(* rows behind that the next attempt of the same run meets.                *)
(***************************************************************************)
EXTENDS RunStatus, Naturals, Sequences, FiniteSets, SequencesExt

CONSTANTS
  Tickers,       \* the tickers of the request, in order
  MaxAttempts,   \* bound: executions of the run
  MaxMishaps     \* bound: crashes, lost leases and cancellations

ASSUME TickerAssumption ==
  Tickers \in Seq(Range(Tickers)) /\ Tickers # << >> /\ IsInjective(Tickers)

VARIABLES
  unknown,     \* tickers that the SEC does not list
  supported,   \* whether the planner has an intent for the goal, all in scope
  analysis,    \* status of the analysis_runs row
  phase,       \* where the executing process is
  plan,        \* the planned steps, the executor's input
  done,        \* statuses of the steps executed so far
  output,      \* the coordinator's output: status, warnings, whether errors
  trace,       \* committed run_steps rows
  unsaved,     \* rows of the open transaction
  leaseLost,   \* the lost flag of the worker's lease guard
  attempts, mishaps

pipeVars == <<unknown, supported, analysis, phase, plan, done, output, trace,
              unsaved, leaseLost, attempts, mishaps>>
given    == <<unknown, supported>>
world    == <<given, mishaps>>

NoTicker == "all"
Granular == {"resolve_company", "fetch_company_data", "build_panel",
             "compute_features", "detect_anomalies", "generate_report"}
PlannedStep == [tool : Granular \cup {"run_pipeline"}, ticker : Range(Tickers) \cup {NoTicker}]

ToolStatus == {"success", "no_data", "error"}

\* Codes of warnings, and those that keep a run from plain success.
PartialWarnings == {"partial_resolve", "fetch_no_data", "report_failed", "downstream_skipped"}

Reported == {"success", "partial_success", "no_data", "error"}
NoOutput == [status |-> "open", warnings |-> {}, errors |-> FALSE]
Output   == [status : Reported \cup {"open"}, warnings : SUBSET PartialWarnings, errors : BOOLEAN]

\* A run_steps row: what it traces and its status.
StepRow == [of : {"tool", "critic", "report"},
            status : ToolStatus \cup {"skipped"}]

Phases == {"idle", "plan", "steps", "trace", "critic", "report", "store"}

PipeTypeOK ==
  /\ analysis \in AnalysisRunStatus /\ phase \in Phases
  /\ plan \in Seq(PlannedStep) /\ done \in Seq(ToolStatus \cup {"interrupted"})
  /\ Len(done) <= Len(plan) /\ output \in Output
  /\ trace \in Seq(StepRow) /\ unsaved \in Seq(StepRow)

PipeInit ==
  /\ unknown \in SUBSET Range(Tickers) /\ supported \in BOOLEAN
  /\ analysis = "queued" /\ phase = "idle" /\ plan = << >> /\ done = << >>
  /\ output = NoOutput /\ trace = << >> /\ unsaved = << >>
  /\ leaseLost = FALSE /\ attempts = 0 /\ mishaps = 0

-------------------------------------------------------------------------------
(* Planning *)

\* The anomaly template: every ticker resolved, every ticker fetched, then the
\* stages one after the other for all of them.
GranularPlan ==
  LET for(tool) == [i \in DOMAIN Tickers |-> [tool |-> tool, ticker |-> Tickers[i]]]
      all(tool) == <<[tool |-> tool, ticker |-> NoTicker]>>
  IN  for("resolve_company") \o for("fetch_company_data") \o all("build_panel")
        \o all("compute_features") \o all("detect_anomalies") \o all("generate_report")

\* Every other template is one call of the whole pipeline.
SinglePlan == <<[tool |-> "run_pipeline", ticker |-> NoTicker]>>

\* Mutant: the statuses of executed steps are kept for the next attempt.
Forget_KeepsDone == plan' = << >> /\ output' = NoOutput /\ leaseLost' = FALSE /\ done' = done

\* Nothing of an attempt outlives its process but the rows it committed.
Forget == plan' = << >> /\ done' = << >> /\ output' = NoOutput /\ leaseLost' = FALSE

\* execute_analysis_run marks the run running; the pipeline commits that first.
BeginAttempt ==
  /\ phase = "idle" /\ analysis = "queued" /\ attempts < MaxAttempts
  /\ attempts' = attempts + 1
  /\ analysis' = "running" /\ phase' = "plan"
  /\ UNCHANGED <<world, plan, done, output, leaseLost, trace, unsaved>>

\* Which template depends on the goal and on a model's reading of it.
PlanMade ==
  /\ phase = "plan" /\ supported
  /\ plan' \in {GranularPlan, SinglePlan}
  /\ phase' = "steps"
  /\ UNCHANGED <<world, analysis, done, output, trace, unsaved, leaseLost, attempts>>

\* Too many tickers, tickers out of scope or a goal without an intent: the
\* executor is not called and leaves no state.
PlanFails ==
  /\ phase = "plan" /\ ~supported
  /\ output' = [NoOutput EXCEPT !.status = "error", !.errors = TRUE]
  /\ phase' = "trace"
  /\ UNCHANGED <<world, analysis, plan, done, trace, unsaved, leaseLost, attempts>>

-------------------------------------------------------------------------------
(* The tools, as the executor sees them: an envelope with a status *)

Asked(step) == IF step.ticker = NoTicker THEN Range(Tickers) ELSE {step.ticker}

\* A ticker the SEC does not list is a ValueError wherever data is loaded for
\* it, and fails the whole call; requests and files may fail at any time.
Outcomes(step) ==
  CASE step.tool \in {"resolve_company", "fetch_company_data"} ->
         IF Asked(step) \cap unknown # {} THEN {"error"} ELSE {"success", "error"}
    [] step.tool \in {"build_panel", "run_pipeline"} ->
         IF Asked(step) \cap unknown # {} THEN {"error"} ELSE ToolStatus
    [] OTHER -> {"success", "error"}

-------------------------------------------------------------------------------
(* Executing the plan *)

StepsOf(tool) == {i \in 1..Len(plan) : plan[i].tool = tool}

With(tool, status, s) == {i \in StepsOf(tool) : i <= Len(s) /\ s[i] = status}

\* The warnings that the branches of the loop have appended so far.
Noted(s) ==
  {w \in PartialWarnings :
    \/ w = "partial_resolve" /\ With("resolve_company", "success", s) # {}
                             /\ With("resolve_company", "error", s) # {}
                             /\ Len(s) >= Cardinality(StepsOf("resolve_company"))
    \/ w = "fetch_no_data" /\ With("fetch_company_data", "no_data", s) # {}
    \/ w = "report_failed" /\ With("generate_report", "error", s)
                               \cup With("generate_report", "no_data", s) # {}
    \/ w = "downstream_skipped"
         /\ \E t \in {"build_panel", "compute_features", "detect_anomalies"} :
              With(t, "error", s) # {}}

\* Errors are appended for every failed tool but resolve_company.
Erred(s) == \E i \in DOMAIN s : s[i] = "error" /\ plan[i].tool # "resolve_company"

\* Mutant: errors decide, whatever was produced before them.
Classify_ErrorFirst(s) ==
  IF Erred(s) THEN "error"
  ELSE IF Noted(s) # {} THEN "partial_success"
  ELSE "success"

\* _classify_post_loop
ClassifyPostLoop(s) ==
  IF Noted(s) # {} \/ (Erred(s) /\ \E i \in DOMAIN s : s[i] = "success")
  THEN "partial_success"
  ELSE IF Erred(s) THEN "error" ELSE "success"

\* Where the loop returns or breaks: the status it then emits, "go" to go on.
After(s) ==
  LET n == Len(s)  tool == plan[n].tool  st == s[n] IN
  IF tool = "resolve_company" /\ n = Cardinality(StepsOf(tool))
       /\ With(tool, "success", s) = {} THEN "error"
  ELSE IF tool \in {"build_panel", "run_pipeline"} /\ st = "no_data" THEN "no_data"
  ELSE IF tool = "run_pipeline" /\ st = "error" THEN "error"
  ELSE IF \/ n = Len(plan)
          \/ /\ tool \in {"build_panel", "compute_features", "detect_anomalies"}
             /\ st = "error"
  THEN ClassifyPostLoop(s)
  ELSE "go"

\* Before build_panel the loop looks whether there is anything to build from.
NothingFetched ==
  LET fetches == StepsOf("fetch_company_data") IN
  /\ Len(done) < Len(plan) /\ plan[Len(done) + 1].tool = "build_panel"
  /\ fetches # {} /\ \A i \in fetches : done[i] = "no_data"

Emit(status, s) ==
  output' = [status |-> status, warnings |-> Noted(s),
             errors |-> Erred(s) \/ status = "error"]

\* One iteration: checkpoint, dispatch, and all that the branch of its tool does.
ExecuteStep ==
  /\ phase = "steps" /\ ~leaseLost
  /\ IF NothingFetched
     THEN /\ Emit("no_data", done)
          /\ phase' = "trace" /\ UNCHANGED done
     ELSE \E st \in Outcomes(plan[Len(done) + 1]) :
            LET s == Append(done, st) IN
            /\ done' = s
            /\ IF After(s) = "go"
               THEN UNCHANGED <<phase, output>>
               ELSE Emit(After(s), s) /\ phase' = "trace"
  /\ UNCHANGED <<world, analysis, plan, trace, unsaved, leaseLost, attempts>>

\* The lease is lost between the two checkpoints of an iteration.  The second
\* raises inside the dispatch's try block, whose handler takes it for a failure
\* of the tool: the loop ends, the pipeline goes on.
StepInterrupted ==
  /\ phase = "steps" /\ leaseLost
  /\ done' = Append(done, "interrupted")
  /\ output' = [status |-> "error", warnings |-> Noted(done), errors |-> TRUE]
  /\ phase' = "trace"
  /\ UNCHANGED <<world, analysis, plan, trace, unsaved, leaseLost, attempts>>

-------------------------------------------------------------------------------
(* Storing the trace *)

RowOf(st) == [of |-> "tool", status |-> IF st = "interrupted" THEN "error" ELSE st]

\* A row per planned step, in order; what was not executed is skipped.
ToolRows ==
  [i \in 1..Len(plan) |->
     IF i <= Len(done) THEN RowOf(done[i]) ELSE [of |-> "tool", status |-> "skipped"]]

\* An exception of the pipeline: rolled back, and the run is in error unless it
\* was cancelled.
AttemptFails ==
  /\ analysis' = IF analysis = "running" THEN "error" ELSE analysis
  /\ phase' = "idle" /\ unsaved' = << >>
  /\ UNCHANGED <<world, plan, done, output, trace, leaseLost, attempts>>

\* Mutant: rows that exist are kept, so that an attempt can be repeated.
PersistTrace_KeepsOld ==
  /\ phase = "trace"
  /\ trace' = IF trace = << >> THEN ToolRows ELSE trace
  /\ phase' = "critic"
  /\ UNCHANGED <<world, analysis, plan, done, output, unsaved, leaseLost, attempts>>

\* persist_orchestration_step_trace numbers the rows from 0; committed.
PersistTrace ==
  /\ phase = "trace"
  /\ trace = << >> \/ plan = << >>
  /\ trace' = trace \o ToolRows
  /\ phase' = "critic"
  /\ UNCHANGED <<world, analysis, plan, done, output, unsaved, leaseLost, attempts>>

\* RunStepService.create raises when the run has a row of that number already.
PersistConflicts == phase = "trace" /\ trace # << >> /\ plan # << >> /\ AttemptFails

\* The critic's row is numbered after the planned steps.
CriticConflicts == phase = "critic" /\ Len(trace) > Len(plan) /\ AttemptFails

\* The critic answers, fails or, without a provider, is not asked; committed.
Critic ==
  /\ phase = "critic" /\ Len(trace) = Len(plan)
  /\ \E st \in {"success", "error", "skipped"} :
       trace' = Append(trace, [of |-> "critic", status |-> st])
  /\ phase' = "report"
  /\ UNCHANGED <<world, analysis, plan, done, output, unsaved, leaseLost, attempts>>

\* Mutant: the report is asked for although the critic failed.
Report_Always ==
  /\ phase = "report"
  /\ \E st \in IF Last(trace).status = "skipped" THEN {"skipped"} ELSE {"success", "error"} :
       unsaved' = <<[of |-> "report", status |-> st]>>
  /\ phase' = "store"
  /\ UNCHANGED <<world, analysis, plan, done, output, trace, leaseLost, attempts>>

\* The report is written from a review that was produced, or not at all.
Report ==
  /\ phase = "report"
  /\ \E st \in IF Last(trace).status = "success"
               THEN {"success", "error"} ELSE {"skipped"} :
       unsaved' = <<[of |-> "report", status |-> st]>>
  /\ phase' = "store"
  /\ UNCHANGED <<world, analysis, plan, done, output, trace, leaseLost, attempts>>

-------------------------------------------------------------------------------
(* The end of the attempt, in execute_analysis_run *)

Store ==
  /\ phase = "store" /\ ~leaseLost /\ analysis = "running"
  /\ analysis' = output.status
  /\ trace' = trace \o unsaved /\ unsaved' = << >>
  /\ phase' = "idle"
  /\ UNCHANGED <<world, plan, done, output, leaseLost, attempts>>

\* A cancelled run gets nothing of the last transaction.
StoreCancelled ==
  /\ phase = "store" /\ analysis = "cancelled"
  /\ phase' = "idle" /\ unsaved' = << >>
  /\ UNCHANGED <<world, analysis, plan, done, output, trace, leaseLost, attempts>>

\* WorkerLeaseLostError at a checkpoint: another worker takes the run over.
Superseded ==
  /\ phase \in {"plan", "steps", "store"} /\ leaseLost
  /\ phase' = "idle" /\ unsaved' = << >> /\ Forget
  /\ UNCHANGED <<world, analysis, trace, attempts>>

-------------------------------------------------------------------------------
(* What happens meanwhile *)

Mishap == mishaps < MaxMishaps /\ mishaps' = mishaps + 1

LeaseIsLost ==
  /\ phase # "idle" /\ ~leaseLost
  /\ Mishap /\ leaseLost' = TRUE
  /\ UNCHANGED <<given, analysis, phase, plan, done, output, trace,
                 unsaved, attempts>>

WorkerDies ==
  /\ phase # "idle"
  /\ Mishap /\ phase' = "idle" /\ unsaved' = << >> /\ Forget
  /\ UNCHANGED <<given, analysis, trace, attempts>>

CancelAnalysis ==
  /\ analysis \in {"queued", "running"}
  /\ Mishap /\ analysis' = "cancelled"
  /\ UNCHANGED <<given, phase, plan, done, output, trace, unsaved,
                 leaseLost, attempts>>

\* A stale run is queued again, or a user retries a finished one; no step row
\* is removed.
Requeue ==
  /\ phase = "idle"
  /\ analysis = "running" \/ IsRetriable(analysis)
  /\ analysis' = "queued" /\ Forget
  /\ UNCHANGED <<world, phase, trace, unsaved, attempts>>

PipeNext ==
  \/ BeginAttempt \/ PlanMade \/ PlanFails \/ ExecuteStep \/ StepInterrupted
  \/ PersistTrace \/ PersistConflicts \/ CriticConflicts \/ Critic \/ Report
  \/ Store \/ StoreCancelled \/ Superseded
  \/ LeaseIsLost \/ WorkerDies \/ CancelAnalysis \/ Requeue

PipeSpec == PipeInit /\ [][PipeNext]_pipeVars

-------------------------------------------------------------------------------
(* What a run promises its reader *)

Produced == With("build_panel", "success", done) \cup With("run_pipeline", "success", done)

\* The status that the coordinator reports is what happened to the plan: success
\* means that every step of it was executed and succeeded, partial success that
\* something was produced and something was not, no data that no panel came of
\* it, and an error that nothing was produced, unless the loop was interrupted.
\* The branches of the loop and _classify_post_loop have to agree on it.
StatusIsHonest ==
  LET whole == Len(done) = Len(plan) /\ \A i \in DOMAIN done : done[i] = "success"
      some  == \E i \in DOMAIN done : done[i] = "success"
  IN  CASE output.status = "success"         -> whole /\ plan # << >> /\ ~output.errors
        [] output.status = "partial_success" -> some /\ ~whole
        [] output.status = "no_data"         -> Produced = {}
        [] output.status = "error"           ->
             output.errors /\ (Produced = {} \/ Last(done) = "interrupted")
        [] OTHER                             -> TRUE

\* The rows t are the trace of this attempt: one per planned step in order,
\* skipped from the first step that was not executed on, then the critic's and
\* the report's, and no report without a review.
TellsThisAttempt(t) ==
  LET n == Len(plan) IN
  /\ Len(t) = n + 2 /\ t[n + 1].of = "critic" /\ t[n + 2].of = "report"
  /\ \A i \in 1..n :
       t[i] = [of |-> "tool", status |-> IF i <= Len(done) THEN done[i] ELSE "skipped"]
  /\ t[n + 2].status = "success" => t[n + 1].status = "success"

\* A run never takes a result while its rows are those of an earlier attempt:
\* an attempt that was killed, superseded or cancelled leaves rows behind, which
\* nothing removes when the run is queued again.
ResultHasItsTrace ==
  [][phase = "store" /\ analysis' # analysis /\ analysis' # "cancelled"
       => TellsThisAttempt(trace')]_pipeVars

\* What the retry of a finished run is for: an attempt that nothing disturbs
\* ends the run with the status its coordinator reported (api/routes/runs.py,
\* "Re-queue a finished non-success run for background execution").
AttemptEndsAsReported ==
  mishaps = 0 /\ phase = "idle" /\ IsTerminal(analysis) => analysis = output.status

\* It holds of the first execution of a run, which finds no rows of another.
FirstAttemptEndsAsReported == attempts <= 1 => AttemptEndsAsReported

==============================================================================
