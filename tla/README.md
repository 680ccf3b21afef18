# Formal verification of the agentic data science system

TLA+ models, TLC instances and TLAPS proofs of the control logic of this
repository. Paths below are relative to the repository root. `PROJECT.json` maps
every definition to the lines it models, lists the runs, their mutants, the
findings, the hazards and the theorems.

## 1. Inventory

| Component | State it keeps | Operations | What makes it correct |
|---|---|---|---|
| Run status machine (`backend/domain/status_transitions.py`) | none; a table | `can_transition_analysis_run`, retriable, terminal | finished runs restart only on purpose |
| Run rows (`services/analysis_run_service.py`, `models/analysis_run.py`) | one row per run | create, `transition_status`, payload setters | no cancelled run gets results, no finished run is cancelled |
| Job rows (`repositories/run_execution_job_repository.py`) | one row per attempt: status, number, token, lease | `claim_next_runnable`, `renew_lease`, `finalize_attempt_if_owned`, `cancel_open_jobs_for_run`, `create_pending_attempt` | one open attempt per run, one owner per attempt, history never rewritten |
| Worker (`worker/loop.py`, `worker/lease.py`, `worker/failure_classification.py`) | the claim it holds, the lost flag | poll, execute, heartbeat, finalize | every attempt of a live worker ends; transient failures are retried up to a bound |
| Lifecycle requests (`api/routes/runs.py`, `services/run_lifecycle_service.py`, `services/run_queue_service.py`) | none between requests | create, cancel, retry, execute | a decision still holds when it is written |
| Engines (`services/edgar_pipeline_execution_service.py`, `services/agentic_investigation_execution_service.py`) | a database session | guard, mark running, checkpoints, complete or fail | start only what is queued, stop when cancelled or superseded |
| Investigation loop (`agentic/agent`, `agentic/domain`) | the investigation aggregate, a budget tracker per call | start, resume, one iteration after another, conclude | limits respected over all calls, beliefs that follow the evidence, conclusions that are earned and final, every call returns |
| Investigation persistence (`services/investigation_store.py`, `repositories/investigation_repository.py`) | checkpoints and normalized rows | create, save, load, replay | a resumed call goes on from what was saved; the rows tell which experiment tested which claim |
| Spend guard (`services/spend_guard.py`) and the routes that ask it | none; counts rows of a month | admit, then create, retry or execute | concurrent admissions pass a ceiling by no more than their number; only adaptive accounts reach the agentic engine |
| Artifacts (`storage`, `services/artifact_service.py`, `maintenance/retention.py`, `api/routes/artifacts.py`) | bytes in a store, rows in the database | ingest, download, retention pass, payload compaction | no tombstone over bytes that are there, no young row without bytes, pruned rows tombstoned in the end |
| Evaluation control plane (`services/evaluation_control_plane_service.py`, `api/routes/evaluations.py`, `edgar_project/evaluation`) | evaluation runs, case rows, their child runs | start, refresh on read, verdict | a verdict is borne out by what its read saw, and is reached |
| EDGAR orchestration (`edgar_project/orchestration`, `backend/agents/traceable_analysis_pipeline.py`, `services/run_step_service.py`) | plan, executed steps, warnings; committed step rows | plan, execute, classify, persist the trace, critic, report, store | the reported status is what happened to the plan; a result has its own attempt's trace |
| LLM phases, MCP servers, agentic evaluation scripts | none between calls | answer a phase, a tool call, a case | modelled by what they may answer |
| Numeric pipeline (`src/src`) | facts, panel, features and findings, in memory | extract, normalize, compare, detect, collect findings | the latest preferred fact counts, gaps and thin evidence are held against a score |
| Chat (`frontend/src/components/chat-shell`, `frontend/src/actions/runs.ts`, `services/chat_conversation_service.py`) | what a tab shows and waits for, the refs of its handlers, the stored turns | send, stop, poll, the two calls of a question | a late answer touches nothing that is shown or awaited now; nobody waits for nothing |
| Rate limits, experiments and adapters, auth, observability, the other pages, migrations | see section 7 | | not modelled |

How the parts interact. API requests and workers never call one another: they
share the two tables `analysis_runs` and `run_execution_jobs`. A worker claims a
job row (`FOR UPDATE SKIP LOCKED`), a heartbeat thread renews its lease, the
engine writes the run row from a session of its own, and a third session
finalizes the job row. Requests write both rows. The job row is fenced by the
claim token; the run row is not fenced by anything. Around the queue, the spend
guard decides which requests may insert runs, the EDGAR engine executes a plan
and leaves step rows and artifacts behind, retention removes what grew old, and
an evaluation is a set of child runs whose state its readers fold into a verdict.
A question of the chat is two server calls of one tab, one that creates a run and
one that executes it; the user may stop waiting between any two of their steps.

What is hard. Decisions taken on rows loaded earlier (`expire_on_commit=False`,
`autoflush=False` in `backend/db/session.py`: a loaded row keeps its status until
somebody refreshes it); a death between any two of the three sessions; a lease
that ends under a live worker; two requests for the same run; the bounds of
automatic and manual retry; an exception in the one phase that no handler covers.
The agentic engine runs an investigation inside its own step: one process, whose
partner is a policy that may answer anything or fail, over tools that may fail.
There the difficulty is not interleaving but long sequences: batches folded
outcome by outcome, claims that are weakened and restored, limits that must hold
over several calls, two ways to stop that must agree, and checkpoints that exist
only between iterations. Around both, the same two shapes come back: a decision
on a count that others are about to change (admission, start of an evaluation),
and an effect outside the transaction that records it (deleted bytes, step rows
committed phase by phase). `PROJECT.json` lists each hazard at its line.

## 2. Modules

| Module | Models | State and actions |
|---|---|---|
| `RunStatus` | `status_transitions.py` | pure: `CanTransition`, `IsTerminal`, `IsRetriable` |
| `JobStore` | the two tables and the repository's queries and updates | `runStatus`, `jobs`, `njobs`, `claims`; the selections of `claim_next_runnable` (`Orphans`, `StaleQueued`, `StaleRunning`, `Claimable`), the compare-and-set `OwnedBy`, and the row updates |
| `RunQueue` | workers, heartbeats, engines, finalization, requests, crashes, lapses | `proc[p]` is the local state of each worker and each request; one action per transaction |
| `AttemptLedger` | what the job table promises about a run | `Open`, `Take`, `End`, `EndAndReopen` |
| `MCRunQueue` | instances for TLC | model values and symmetry |
| `RunQueueProofs` | theorems about `RunQueue` | section 5 |
| `Belief` | status graphs, `HypothesisUpdater`, `EvidenceUpdater`, what contradicts, what the claims add up to | pure: `Scored`, `Filed`, `Settled`, `Disposition` |
| `InvestigationLoop` | `start`, `resume` and `_run` with planner, selector, executor, critic, termination and conclusion | `inv` (the aggregate in memory), `saved` (its checkpoint), `pc`, `tracker`, `call` (what is local to one call); one action per step between two answers of the policy or outcomes of a tool |
| `MCInvestigationLoop` | instances for TLC | metrics of the claims, what the tools may report |
| `Notebook` | what an investigation promises to whoever stores, reads and resumes it | `done`, `kept`, `answer`; `Add`, `Keep`, `Lose`, `Answer` |
| `InvestigationProofs` | theorems about `InvestigationLoop` | section 5 |
| `SpendGuard` | `spend_guard.py`, the routes that call it, the worker's choice of engine | `month`, `task` (run rows with owner, month, engine and tokens), `request` (admitted, not yet committed): admission reads the counts in one step, the commit is a later one; evaluations queue without asking |
| `ArtifactVault` | ingestion, downloads, `run_retention_maintenance` | `blob` (the store), `shelf`, `tombstoned`, `repair` (rows), `ingest` (rows not yet committed), `pass`, `download`, `run` (payload columns): one action per effect on either store |
| `EvaluationControl` | start, refresh and verdict of evaluation runs | `evalRun`, `caseRow`, `child`, `starter`, `reader`: a read locks, recomputes one case at a time while children move, answers, and closes without a commit |
| `PipelineRun` | planner, executor loop, `run_traceable_edgar_pipeline` | `plan`, `done`, `output`, `phase`, `trace` (committed step rows), `unsaved`: one action per iteration of the loop and per commit |
| `FilingSignals` | `metric_extraction.py`, `normalization.py`, `metric_caveats.py`, `peer_signals.py`, `anomaly.py`, `findings.py` | `rows` and `best` (facts and the selection so far), `panel`, `noted`, `section` (the quarter across companies), `finding`: one action per stage, and one per fact in the selection |
| `ChatThread` | `onSend`, `handleStop` and the poll of `chat-shell.tsx`, the calls of `actions/runs.ts` | what the tab shows (`shown`, `phased`) and waits for (`isRunning`, `active`, `activeRun`, `pollTimer`, `cancelled`, `awaiting`), what is on its way (`polls`, `cancels`, `reply`), the server's side (`served`, `chatRun`, `stored`): one action per handler between two awaits, one per request of a call |
| `MCPlatform` | instances of these six for TLC | `focus`, the component that moves |
| `ControlProofs` | theorems about `SpendGuard` and `EvaluationControl` | section 5 |
| `VaultProofs`, `PipelineProofs`, `SignalProofs`, `ChatProofs` | theorems about `ArtifactVault`, `PipelineRun`, `FilingSignals`, `ChatThread` | section 5 |
| `PlatformProofs` | theorems about `MCPlatform` | what is proved of a component holds of it there |

**Steps.** One action of `RunQueue` is one database transaction, or one read
whose result a later write relies on. The status read is carried in
`proc[p].seen` and the row updates are not conditional on it, exactly where the
code does not repeat its check (`LoadRun` then `MarkRunning`; `CancelRead` then
`CancelCommit`). Where the code refreshes a row that its own transaction has
already locked (`EdgarComplete`), check and write are one action. A finalization
is one action because its compare-and-set takes the row's lock before anything
else is written; a cancellation that commits in between makes it fail.

**Cancel.** `UPDATE ... WHERE status IN (pending, running)` picks its rows from
the snapshot at its start and applies to those still open when their locks are
granted: `CancelSend` takes the snapshot, `CancelCommit` writes. A row that is
inserted in between is missed, as in PostgreSQL under READ COMMITTED.

**The empty poll.** Branches 0 and 2 of `claim_next_runnable` write and return
`None`. What becomes of the writes is up to the caller: `process_next_job` returns
and closes the session, which rolls them back; the repository's tests of these
branches commit them. `EmptyPollEnds` says which callers an instance has. With
"rollback" the poll holds its locks (`BeginEmptyPoll`, `EndEmptyPoll`) and changes
nothing; with "commit" `TidyOrphan` and `RescheduleRunning` take effect.

**Time.** A lease is live, expired or absent. The lease of a dead claimant runs
out at any time (`LeaseRunsOut`). That of a live worker does not: the heartbeat
interval is a third of the lease, no less than five seconds and no more than sixty
(`lease.py:43`), so at most a third for every lease the settings allow, which are
thirty seconds and longer (`config/settings.py:248`). What the guard does not exclude (a suspended process, heartbeats that keep failing and are
only logged) is `LeaseLapses`, bounded by `MaxLapses`.

**Data left out.** Payloads, error texts, trace contexts, correlation ids and the
numeric result. An engine's work between two transactions is one step that
returns one of its outcomes or raises a transient or a permanent exception.

**The investigation loop.** The two halves of the project meet in one place: an
engine's execution in `RunQueue` is one call of `InvestigationLoop`, of which the
queue sees only that it returns or raises.

- The aggregate is one record. A claim is its position; `ran` holds the executed
  requests with their results, in the order they were folded; `evidence[c]` keeps
  what scoring looks at, the strongest item for and against a claim and whether
  there is a neutral one. Every planner query (`ExecutedPairs`, `Falsifiers`,
  `Groups`, `Candidates`) is an operator of that record, as it is in the code,
  and candidates carry the ids the code gives them.
- `Select` takes the policy's lead and the followers of `select_batch`; `Due` is
  the next outcome of the batch; `FoldSuccess` does all that the code does before
  the next outcome (record, file, score each target, weaken rivals);
  `EndIteration` counts and saves.
- An `AgentPolicyError` goes to `FailSafe`. Every other exception leaves `_run`,
  and a caller that goes on loads the checkpoint: `Raise` where the model knows
  the cause (an illegal status change), `Crash` anywhere else.
- `Resume` rebuilds what the code rebuilds, experiments and tool uses, and may be
  called on any stored investigation. A second `start` with the same id is
  refused by the unique id of the row and changes nothing, so it is no action.
- The interpretation (intent, metric hint, which tools) is a constant: the
  policies read it from the goal, which does not change. Elapsed time and cost
  are a choice of the environment at every decision (`late`).
- Left out: confidence (a supported claim always has more than the 0.6 that
  termination asks for), questions, decisions and prose, and `critique.resolved`,
  which nothing reads (open contradictions are computed from the claims).

**Two abstract specifications.** `AttemptLedger` is what a run may rely on from the
job table: attempts are opened one at a time, taken by one holder, ended, and a
finalization may end one and open the next at once. A run's ledger is computed from
its rows: how many there are (`Opened`), how the open one stands (`Phase`), and
whose token it has (`Holder`). `Notebook` is what one may rely on from a stored
investigation: results are only added, as many as the budget allows; the store keeps
a beginning of them that lags by one batch at most; whoever goes on after a crash
goes by the store; an answer ends the adding and stays. It is read off the loop as
`inv.ran`, `saved.ran` and the checkpoint once it is concluded (`Done`, `Kept`,
`Answer`); claims, policy and limits are gone. An investigation that ended without
any claim (there is nothing in it to preserve) counts as unanswered, because
resuming it may still rewrite it.

**The spend guard.** A row counts when its status is no longer pending, in the
month it was created in; a request admitted in one step commits in another, so
every other request may stand at the same point. Tiers and prices are fixed, the
spend of a run is tokens times one price per model. What is counted and what is
started differ in two ways that the code has and the model keeps: a pending run
that an earlier month created starts uncounted, and evaluation children are never
admitted. `KillSwitchCountsStarts` and `EveryStartIsAdmitted` state what the
documents make of it; they do not hold as they are written and no run checks them.
Section 5 proves how far they do: `OtherStartsAreAdmitted` leaves the evaluations out,
and `StartsInItsMonth` the late starts.

**The vault.** Ids are never reused. Bytes are written before the row is inserted,
rows become visible at the commit of the run's transaction, and a failure on the
way leaves bytes without a row, never the other way round. A retention pass picks
the oldest due rows, deletes their bytes one by one and marks all of them in one
commit at the end; a pass that dies in between has deleted and marked nothing.
`NotFoundIsRealLoss` (docs/artifact-delivery.md on the 404) and
`QueuedRunKeepsInput` do not hold, for the reasons given under hazards; under
`ReadsBetweenPasses` and `RetriesSpareCompacted`, the conditions that exclude those
reasons, they are theorems.

**Evaluations.** Offline cases are settled inside the start's commit; live and
hybrid ones get a child run. The read is modelled as the code does it: lock and
copy the case rows, query one child after the other, answer, close. That the
session is closed without a commit is finding 7. Two starts may overlap
(`OneChildPerCase` does not hold: hazard at `api/routes/evaluations.py:187`; where
they do not, `StartsApart`, it is a theorem).

**The pipeline.** A step's tool answers success, no data or error; a ticker that
the SEC does not list fails every call that asks for it, and which tickers those
are is fixed per behaviour (`unknown`), as is whether the planner finds an intent
(`supported`). `After` is the executor's loop body after a dispatch, `Noted` its
warnings, `ClassifyPostLoop` its classification. The trace is committed in three
phases and the last of them with the result. Rows of an attempt that ended early
are never removed. Two executors of one run (possible after a lapse) are the
business of `RunQueue` and are not interleaved here.

**The numbers.** `FilingSignals` follows one company and its latest quarter.
Selection is a fold over facts in any order a document may have (`Documents`), and
only the facts about the last two quarters are looked at one by one; of the older
quarters the model knows whether they have a revenue. Ranks, means and deviations
of a quarter across companies are computed exactly, over integers, and compared
after squaring; |z| enters a score in tenths of its threshold. Whether a value
stands out in its own history, and by how much, is a choice (`SelfRatios`) wherever
the baseline has the two values that it takes. Scores are in hundredths, so that the
penalties and the bonus are integers. `Routes` are the two callers of the detector:
`run_pipeline` hands it the caveats of extraction and panel, the MCP tool does not.
Left out are trend breaks, which pass their score on unchanged, the caveat of several
units, which costs nothing, and the ratios whose inputs all stand in one quarter.

**The chat.** `onSend` is cut at its awaits: what it does before the first call,
after it, and after the second, the `finally` block belonging to the last of them.
A question stands for its request id, its bubble and its run, and is asked once.
The server's side of a call goes on whether or not the tab still waits. A call that
is rejected loses its answer and is not handled: the bubble stays (`lost`). The
status of the run is what the requests of the thread make of it; workers do not
touch it, because the chat never queues its runs. Calls of different questions
may overlap: that is what the code is written for, and a framework that dispatches
the actions of one tab one after the other only removes behaviours.
`CancelledStaysCancelled` and `ProgressIsPolled` are stated in the module and do not
hold (section 4). `CancelAfterExecutionLasts` is the part of the former that does; the
latter holds where calls of different questions do not overlap (`OneOnSendAtATime`).

**One state space for six modules.** They share no variable. `PlatformInit`
chooses the component that moves, so TLC explores the sum of the six state
spaces, and a property of one of them is trivially kept by the others.
`PlatformFairness` is `VaultFairness` and `EvalFairness` word for word, restricted
to the component in focus. The theorems about a component are about its own
specification; `PlatformProofs` carries them over.

## 3. Runs

The runs of `RunQueue` use `MCRunQueue` and do not check deadlock: the system
rests when every run is finished and no user asks for anything. Nor do those of
`MCPlatform`: months, artifacts and retries run out. Those of `InvestigationLoop`
use `MCInvestigationLoop` and do: a call can always be made.

| Run | Expect | Question |
|---|---|---|
| `RunQueue_background` | pass | two runs (one per engine), two workers, failures and second attempts, one death, polls that roll back or commit: one executor per run, completed means finished, queued runs stay claimable, every attempt that a live worker holds is recorded as ended |
| `RunQueue_users` | pass | one run, two workers, one request at a time, `/execute` included, one death, polls that roll back or commit: attempts numbered without gap and only the last of them open, queued runs keep an attempt, one owner per claim, closed rows final, `AttemptLedger` implemented |
| `RunQueue_live` | pass | two runs, the poll as coded, one death and one lease that lapses under a live worker: nobody ends a live claim but its holder, a superseded worker least of all; an attempt abandoned before the start is taken over; every queued run is served unless an abandoned running run blocks the polls |
| `Investigation` | pass | two claims, perhaps rivals, batches of two, partial calls, resumes and crashes: limits on experiments, iterations, tools, model calls and failures; beliefs follow the evidence; rivals never both stand; sufficient evidence is earned; no experiment twice; `Notebook` implemented; every call returns |
| `Platform` | pass | the six components around the queue: overshoot of the ceilings, engine entitlement, tombstones and bytes, verdicts and their arrival, the pipeline's status and trace, the facts and caveats behind its numbers, what a chat shows of stopped questions and waits for, and which cancels last |
| `RunQueue_reclaim_lost` | violation | finding 1 |
| `RunQueue_retry_past_ceiling` | violation | finding 2 |
| `RunQueue_agentic_cancel` | violation | finding 3 |
| `RunQueue_persist_fails` | violation | finding 4 |
| `Investigation_request_ids` | violation | finding 5 |
| `Pipeline_retry` | violation | finding 6 |
| `Evaluation_stored` | violation | finding 7 |

**Bounds of `RunQueue`.** `MaxAttempts = 2` is the least with a first, a last and
(for a user's retry) a too-late attempt; `RunQueue_live`, where a death and a lapse
may meet, makes do with one attempt per run, and leaves second attempts to the other
two. `MaxJobs` allows every automatic attempt of each run and one more by a
user; actions that insert wait when it is reached, so a property is never judged
on a row that could not be inserted. Two workers are what a takeover needs; two
runs what a blocked queue needs. One death and one lapse are one more than any
single-fault test has. One request in flight is a limit of what holds, not of what
was tried: with two, `AttemptsNumberedInOrder` and
`KeepsLedger` fail, because the test for open jobs and the insertion are separate
steps and nothing in the schema makes an open job unique
(`run_lifecycle_service.py:88`). `CancelOnlyUnfinished` fails
too: cancel checks the status when it loads the row, not when it writes
(`run_lifecycle_service.py:36`). All three are listed under hazards.

`OnlyOwnerWrites`, that a worker writes its run as the owner of the attempt, is
checked by no run. It does not hold of the code: the run row has no fence, so a worker
whose lease has lapsed, or whose run was cancelled, goes on writing it until a
checkpoint or the finalization tells. Where neither happens it is proved
(`WritesAreOwned`). What holds with a lapse is said of the attempt row
(`LiveClaimIsRespected`): the superseded worker's heartbeat and its finalization leave
its successor's claim alone.

*What a death leaves behind* depends on where it strikes. Before the run is marked
running, the same attempt is claimed again (`StaleQueuedIsReclaimed`). While it is
running, the poll as coded never gets rid of it (finding 1), and because that poll
returns before it looks at what is pending, it may hold up the whole queue: hence the
antecedent of `EveryQueuedRunIsServed`, which fails without it. Between the engine's
last commit and the finalization (`worker/loop.py:437`), the row stays running on a
finished run: no branch selects it, and `has_open_job_for_run` answers every retry with
409. `RunQueue_background` reaches that state too; a property that every running row
is closed in the end fails there, under either ending of the poll, which is why
`EveryAttemptEnds` is about attempts whose worker lives.

**Bounds of the loop.** Two claims are what a rivalry, a contradiction and a shared
experiment need; two metrics are what tells apart the claim an experiment is for
from what it measured; two tools give each claim an experiment to run and one to
challenge it with. `MaxExperiments = 3` leaves an odd place for the last batch of
two. `Windows` makes some calls partial and others not, so that investigations
are resumed in every state; a window of `MaxExperiments` never binds first and
stands for no window. `MaxModelCalls = 4` ends some runs and lets others reach the
third iteration; `MaxFailures = 1` makes a failing batch of two overrun its cap. An
outcome is neutral, strongly for or strongly against each claim; weak evidence is
translated in `Belief` and left to the proofs. `NoRedundantRun` is stated for a
hint that is the metric of the first claim, and fails for others: an experiment
run when no claim is open is remembered under the first claim's metric, not under
the hint that it measured (`components.py:282`).

**Bounds of `Platform`.** A guest and an adaptive account, two requests in flight
over two tasks with ceilings of one, and a month that turns, are the least in
which a ceiling is overshot and then forgotten. Two artifacts and one whose store
is missing, a batch of two and two faults let a pass fail, die and be repeated
while the foreign row stays in front. Two cases with two children, two starters
and one retry make a read see children of different ages. Two tickers give
partial resolution; two attempts and one mishap give a second attempt that meets
the rows of the first. Five quarters are a full window of four and the quarter
looked at; three facts under two concepts, with two dates and two accession
numbers, decide every rule of selection against every other; up to three peers
with three values, a silent company, and two larger sections (a low rank needs ten
values, |z| above two needs six) reach every branch of the peer layer and, with
the thinnest sections, every caveat. The window and the group sizes are the code's
own; a ratio just past the threshold is the least evidence a finding can have. Two
questions let a stopped one end under its successor, and one loss strikes any call
or any stored turn.

**Fairness** (`LiveSpec` of `InvestigationLoop`). Weak fairness of the steps of a
running call: the policy and the tools answer or raise. None for callers, and none
for the clock and the cost, so the calls return without them.

**Fairness** (`LiveSpec` of `RunQueue`). Weak fairness for each worker's steps
(`run_forever` never stops and engines return), for its heartbeat, and for the expiry of
a lease nobody renews (time passes). None for users, deaths, lapses: nothing makes a
user retry.

**Fairness** (`VaultFairness`, `EvalFairness`). The deployment runs retention in an
endless loop (`docker-compose.prod.yml:149`): passes start, go on and commit unless
they die, and the number of deaths is bounded. A page that is open polls. Child runs
owe nothing: by findings 1 and 2 one may stay running or queued for ever, so
`ServedVerdictSettles` and `StoredVerdictSettles` are conditional on the child runs
having ended for good, and the former says that an ended child, the cancelled one
included, is never waited for. No fairness for ingestion, downloads, starts or retries. `PrunedIsTombstoned` is conditional on fewer rows
without a store than a batch holds: with more, every pass takes the same rows.

## 4. Findings

1. **The reclaim is rolled back.** `process_next_job` returns at `job is None`
   without a commit (`worker/loop.py:308`), so what branch 2 flushed is lost; each
   poll selects the same row and nothing behind it is claimed.
   `docs/local-stack.md:111` promises that the next poll reclaims it.
2. **A retry may be unclaimable.** `retry_analysis_run` goes on numbering past
   `run_job_max_attempts`; the claim's pending branch will not take the row, and
   the run stays queued (`run_lifecycle_service.py:97`).
3. **The agentic engine overwrites a cancellation.** `_raise_if_cancelled` reads
   its session's cached row (`agentic_investigation_execution_service.py:299`).
4. **A failure while storing results is not retried.** It is raised outside the
   block that marks the run errored; the run is still running, running may not
   become queued, so the requeue is undone (`worker/loop.py:222`). The property leaves
   out attempts that fail before the run is started, which end the run by design
   (`worker/loop.py:175`).
5. **Two experiments share an id.** A candidate is numbered by the experiments on
   record plus its place in the list (`components.py:334`, `379`). If the policy
   does not select the first candidate, or an earlier one disappears, the next
   list gives out a number that is taken. `_persist_children` then keeps the first
   request only (`investigation_repository.py:422`), and the result of the second
   is joined to claims it did not test. `tests/test_experiment_request_persistence.py:10`
   calls this link the spine of a readable trace.
6. **A retried pipeline run cannot store its trace.** Steps are numbered from zero
   in every attempt, the rows of the first attempt are still there, and
   `RunStepService.create` refuses the number (`run_step_service.py:39`): the
   attempt ends in error whatever its coordinator reported.
7. **The stored verdict of an evaluation never settles.** Reads recompute it and
   close their session without a commit (`api/routes/evaluations.py:118`), so
   lists, health and metrics, which read the stored status, show running for ever.

Other departures seen while modelling, listed under hazards or above: the cap on
consecutive failures starts again at zero in a resumed call (`loop.py:177`); when
the policy declines to select, an unchallenged claim suffices
(`components.py:1034`), which `decide` does not allow; `correlation_id` is assigned
and lost in a refresh (`edgar_pipeline_execution_service.py:311`); and the warning
of a partial resolution says that the run goes on with the successful symbols,
while `build_panel` is asked for all of them, so that it fails and nothing is
produced. In the numeric pipeline: the tool `detect_anomalies` passes no caveats
(`mcp/adapters.py:374`), so the same cell scores higher there than in
`run_pipeline`; growth between a quarter under one concept and a quarter under
another carries no caveat of it, because extraction caveats are keyed to revenue
(`anomaly.py:563`); and the top of any section of two or more companies is an
alert, while the bottom is one only from ten companies on (`peer_signals.py:56`).
In the chat, each of these stated in `ChatThread` or visible in its actions: a cancel
request that arrives before the execution is undone by it, since a cancelled run may
be executed (`CancelledStaysCancelled`, against the comment at `actions/runs.ts:298`);
the end of a stopped question clears its successor's poll timer
(`chat-shell.tsx:370`, `ProgressIsPolled`); a rejected call leaves its bubble, whose
Stop button then stops another question; and a question stopped before its run is
known leaves that run pending, to be neither cancelled nor executed.

## 5. Proofs

`RunQueueProofs` proves, for all values of the constants:

| Theorem | Says |
|---|---|
| `TypeCorrect` | `Spec => []TypeOK` |
| `FencingIsSound` | `Spec => []OneOwnerPerClaim` |
| `HistoryIsFinal` | `Spec => ClosedRowsAreFinal` |
| `LiveClaimsStand` | `Spec => LiveClaimIsRespected` |
| `CeilingIsKept` | `Spec => []CeilingHolds` |
| `OneAttemptAtATime` | `Spec /\ []RetriesApart => []OneOpenJobPerRun` |
| `NumbersAreInOrder` | `Spec /\ []RetriesApart => []AttemptsNumberedInOrder` |
| `NothingIsForgotten` | `Spec /\ []RetriesApart => []QueuedHasOpenJob` |
| `JobTableKeepsLedger` | `Spec /\ []RetriesApart => KeepsLedger` |
| `QueuedIsServable` | `Spec /\ []RetriesApart /\ []RetriesBelowCeiling => []QueuedIsClaimable` |
| `WritesAreOwned` | `Spec /\ []Undisturbed => OnlyOwnerWrites` |
| `OneExecutor` | `Spec /\ []RetriesApart /\ []Undisturbed => []OneExecutorPerRun` |
| `CompletionsAreReal` | the same hypotheses and no synchronous execute: `CompletedMeansFinished` |
| `EdgarResultsEndRunning` | `Spec => ResultsEndRunning` |
| `CancelledRunsStayEmpty` | no synchronous execute: `Spec /\ []Undisturbed => CancelledKeepsNoResults` |
| `OneRequestAtATime` | one client: the first four properties of the second group, of `Spec` alone |
| `BackgroundIsSafe` | no clients and no lapses: the rest, of `Spec` alone |

`CeilingHolds` (no worker runs an attempt beyond the bound), `OneOpenJobPerRun` (which
`AttemptsNumberedInOrder` implies), `ResultsEndRunning` and `OnlyOwnerWrites` (section
3) are proved only; no run repeats them. Assumptions: `NoRunAssumption`, `BoundsAssumption`,
`ProcessAssumption`, which TLC evaluates in every run. Nothing is assumed about the
number of workers, requests, crashes or lapses.

*The hypotheses* are not assumptions on constants but conditions on behaviours, and they
are the places where the code leaves a property to luck. `RetriesApart`: no two retries
of one run stand between the test for open jobs (one transaction) and the insertion (the
next); with it the first group holds however many requests cancel, create, execute and
retry at once, which no run explores. `RetriesBelowCeiling`: no retry of a run whose
attempts are used up (finding 2). `Undisturbed`: no live worker's lease has lapsed, and
no cancellation is between its snapshot and its write while a worker executes its run,
because both leave an execution behind whose attempt belongs to somebody else or to
nobody. Each hypothesis is needed: TLC finds the violation without it (section 3,
finding 2). The last two theorems name deployments in which all of them hold, one user
at a time and workers alone, and those are the settings of `RunQueue_users` and
`RunQueue_background`: what the runs show on a small instance, the theorems say for any
number of runs, rows and workers. `CompletionsAreReal` excludes the synchronous execute,
which accepts a run that has just finished with partial success and sets it running
again before its worker has finalized the attempt.

*Argument.* `RowStepOfNext` shows that each of the thirty actions does one of six
things to the job table: nothing, claim a stale or claimable row, change the
lease of a running row, close open rows, insert a row, or close a running row and
insert another. The inductive invariant `IInv` is `TypeOK` with three additions.
`Rows`: rows beyond `njobs` do not exist and an attempt number never exceeds its
row's id, which is what makes "the latest attempt" a bounded maximum and hence a
number. `Busy`: a process past its first read has a run. `Tokens`: every token in
a row or a process has been handed out, no two rows and no two processes share
one, and running rows are the rows with a token; `OneOwnerPerClaim` alone is not
inductive because a claim needs to know that `claims + 1` is nowhere yet.

`OInv` is what one open attempt needs: besides `OneOpen`, that a run nobody has created
has no rows (`Unborn`), and that a retry which has made its test would still make it
with the same result (`Checked`): everybody else who opens an attempt closes one in the
same transaction. `AttemptsNumberedInOrder` rests on it: a new row's number is the
latest plus one, and when it is inserted the rows before it are closed.
`NothingIsForgotten` looks at the run's status instead: each action that closes an open
row also takes the run out of the queue or puts another row in (`StatusStep`).
`LiveClaimsStand` goes through the actions once more, for a running row
(`RunningRowMoves`): a row with a live lease is no poll's, and by `Tokens` the worker
that passes the compare-and-set is the one the claim belongs to. For the ledger the six
row steps become `Take`, `End`, `Open`, `EndAndReopen`, or a stutter, one lemma each.
`UInv` says who executes: a worker with a run owns the row it claimed and the run is not
cancelled, as long as nobody takes it away; with one open row per run and one token per
row (`IInv`) two executors would be one.

`EdgarResultsEndRunning` and `CancelledRunsStayEmpty` are about finding 3, which is the
agentic engine's: an EDGAR completion locks its row before it looks at the status again,
and `EdgarResultsEndRunning` needs no hypothesis at all, only that a process that
executes has a run that exists and is started (`Exist`, `ExecutionsAreMarked`). For both
engines together the property holds where nobody cancels a run that a worker has in hand
and no lease lapses under a live one: `CancelledRunsStayEmpty` uses that a worker which
executes owns its row (`UInv`), that its run is then not cancelled, and that only
executions give results (`ResultsAreCommitted`). It excludes the synchronous execute for
the same reason as `CompletionsAreReal`: a cancelled run may be set running again by it
on purpose.

`InvestigationProofs` proves, for any number of claims, tools and experiments,
any limits and any answers of the policy:

| Theorem | Says |
|---|---|
| `ConclusionIsFinal` | `Spec => ConcludedIsFinal` |
| `BeliefIsEarned` | `Spec => []BeliefFollowsEvidence` |
| `RivalsAreExclusive` | `Spec => []RivalsNeverBothStand` |
| `NothingRunsTwice` | `Spec => []NoRedundantRun` |
| `LoopKeepsNotebook` | `Spec => KeepsNotebook` |
| `LoopTypeCorrect` | `Spec => []TypeOK` |
| `BudgetIsKept` | `Spec => []BudgetHolds` |
| `ModelCallsAreBounded` | `Spec => []ModelCallsBounded` |
| `FailureRunIsBounded` | `Spec => []FailureRunBounded` |
| `PerCallLimitsAreKept` | `Spec => []PerCallLimitsHold`, the two together |
| `SufficiencyIsEarned` | `Spec => []SufficientIsEarned` |
| `OnlyEmptyRaises` | `Spec => []RaisesOnlyWithoutClaims` |
| `OrderedRequestsAreTraced` | `Spec /\ []WorksInOrder => []TraceNamesTheClaimTested` |

The first rests on `IInv`: a recorded reason to stop goes with a terminal status,
nothing is folded into a stopped investigation, claims are proposed only where
there are none, and while a final aggregate is on record nobody in memory holds
another (`Final`). The properties alone are not inductive: `resume` interprets
the goal again whatever the status, and only the last part excludes that the call
then saves something else. Beliefs and rivals rest on `BInv`, which says `Believes` of
memory and of the checkpoint alike because a crash turns one into the other, and
adds that an absent claim has no evidence, so that a claim is proposed without
any. `ScoringBelieves` is the heart: folding one experiment keeps each claim's
status in line with its evidence, and `ExclusiveBelieves` that the pair which
scoring may have left standing is weakened at once. Of the constants,
`LoopAssumption` (that readings are evidence) is all they use. The shape of an
aggregate is taken from `Fields`, not from `TypeOK`.

None of the limits is inductive, because a batch is selected at once and counted one
outcome at a time. `LInv` says what is missing: memory and checkpoint are both
`Within` the limits; a running call's tracker counts what the aggregate holds, which
is why a resumed call does not lose count; between selection and fold the batch
still fits into what is left (`BatchFits`: experiments, consecutive failures, the
uses of each tool, of which a batch has one); and at each place of the loop so many
policy calls at most have been made (`CallsAt`). That a batch fits needs counting:
candidates have different ids (`CandidateIdsDiffer`), so the followers are as many
as `BatchLimit` says (`BatchIsBounded`).

`SufficiencyIsEarned` and `OnlyEmptyRaises` rest on `CInv`, which adds that memory and
checkpoint propose the same claims, that an investigation with claims which has not
stopped is running (`OnTheWay`: from there every terminal status may be reached, so no
step after the first can raise), and that a contradiction names two claims (`Named`).
`SufficiencyIsChecked` shows that both code paths to sufficient evidence leave no
untested claim and no open contradiction, `ClosingSettlesNothing` that closing the
claims on the way out changes neither.

`NothingRunsTwice` rests on `MInv`, which says of memory, checkpoint and the batch in
between together what `NoRedundantRun` says of memory. What has to be shown is that a
candidate is never an experiment on record: the planner remembers a result under the
metric that its first target has today, and that this is still the metric that was
measured needs two things: claims are proposed only before the first experiment (the
status in `Memory`), and the hint is the first claim's metric.

`LoopKeepsNotebook` rests on `JInv`: the store has a beginning of what memory has
(`Begins`), and how far memory is ahead depends on the place (`Ahead`): not at all
outside a batch, and inside one no further than what is still to be folded leaves room
for. This is what a save moved out of the iteration breaks (the run's mutant). The
budget of the notebook is `BatchFits` of `LInv`, its finality `IInv`; `FoldedNotes` is
the step where all three meet, because the last outcome of a batch that produced no
success is folded and stored in one. `KeepsNotebook` implies `ConcludedIsFinal`, so
the run checks the former and `ConclusionIsFinal` proves the latter on its own.

`OrderedRequestsAreTraced` says where finding 5 ends. `WorksInOrder`: what is folded
next has the number of results on record as its id, that is, experiments are run in the
order in which they were numbered and none is passed over. Then a result's id is its
place in the record (`NInv`, of memory and of the checkpoint, because a crash falls back
to it), so no two share one and the first row found for an id is the right one. The
hypothesis is about the policy's choice, which the code leaves free; many behaviours
satisfy it, batches and resumed calls included, and without it TLC finds the violation.

`ControlProofs` proves of `SpendGuard`, for any accounts, requests, tiers, prices and
ceilings: `SpendTypeCorrect`, `AccountCeiling` and `GlobalCeiling` (the overshoot is at
most the number of requests that can be in flight, less one), `CeilingsAreKept` (both)
and `AgenticNeedsTier`. The inductive invariant `SpendInv` adds `Charged`: what the
guard started is billable, no row is from the future, a pending request's run exists and
is its user's. Every step is one of four kinds (`Quiet`, `CommitOf`, `AdmitOf`, `Turn`):
a commit moves one unit from the requests to the rows, an admission adds one request
where the count read was below the ceiling, and `Overshoot` is the counting lemma behind
both. Of the two claims of the documents: `StartsAreAdmitted` (every execution but an
evaluation's was admitted, retries and restarts in place included, because a run that
nothing has started cannot be executed: `StartedFirst`), and `KillSwitchWithinTheMonth`,
in behaviours in which no request starts a run of an earlier month.

`VaultProofs` proves `VaultTypeCorrect`, `TombstonesAreTrue` and
`NewRowsAreReadable` for any artifacts, batch size and faults. The additions:
`Written` (an open transaction's rows have their bytes), `New` (and ids of their
own), and `Passing`: a pass holds places of due rows only, and what it has pruned
are rows whose bytes are gone. Rows cross the cutoff in order and ids are used
once, hence pruning a due row never takes the bytes of a younger one
(`PrunedRow`). Two more theorems say when the properties hold that do not hold of every
behaviour. `InputSurvives`: a queued run has its payload if no run is retried whose
payload is emptied or noted for emptying by the pass under way (`RetriesSpareCompacted`;
the retry route looks at neither). `NotFoundIsHonest`: what retention pruned is answered
with 410 if passes are not given up (no `PassAborts`) and no download looks for its
bytes during one (`ReadsBetweenPasses`); faults of ingestion, of a single deletion and of
the store are allowed. Both exclude one interleaving each, and the second a crash.

`ControlProofs` proves of `EvaluationControl` `EvaluationTypeCorrect` and
`AnswersAreJustified`. `EvalInv` adds: case rows are all there or none is (`Complete`),
and during a read the cases seen and those still to see are the linked ones, with every
row it has recomputed agreeing with the child's status as it was seen (`Reading`).
`StartsApartLinkChildren` proves `OneChildPerCase` where no two start requests stand
between their look at the status and their start together: whoever is about to start has
then looked at an evaluation that is still to start, which has no children (`OneStart`),
and a start links every child it creates (`StartLinks`). Reads, and children that end
and are retried, may come in between. One start request at a time is the special case
(`OneStarterLinksChildren`).

`PipelineProofs` proves `PipelineTypeCorrect`, `CoordinatorIsHonest` and
`ResultsAreTraced` for any number of tickers, attempts and mishaps.
`GranularShape` computes where each tool stands in the plan; `GoesOn` says which
failures may lie behind a loop that still runs; `GranularGoes` and `SingleEnds`
follow one iteration through all branches and show that what it emits is honest
(`PostLoop` is the classification). `PipeInv` adds where an attempt stands
(`Control`), that only a lost lease interrupts the loop (`Undisturbed`), and that
the committed rows are this attempt's once the critic accepted them (`Rows`).
`FirstAttemptsEndAsReported` is the boundary of finding 6: until a second execution of
the run begins there are no rows of another attempt, each phase finds exactly its own
(`First`), and nothing but a mishap keeps the run from the status its coordinator
reported.

`SignalProofs` proves `SignalTypeCorrect`, `BestFactIsSelected`, `GapsAreFlagged` and
`PenaltyIsNeverUndone`, for any documents, companies, values and windows.
`Replaces` is the strict form of a total preorder (`Prevails`), so what the fold holds
prevails over everything it has seen, and the order of the facts does not matter.
Totals and penalties are sums over sets; that such a sum exists and is what it should
be is shown by looking at a smallest set for which it is not (`AddsExists`), which
needs no induction over data. The margin of the third file is arithmetic:
whoever stands out among the companies of its quarter has a component of at least 80,
and of at least 100 where there are fewer than five of them (`AlertWeighs`), while the
caveats that can occur together cost less (`EvidenceOutweighs`: at most 100, 85 and 60
in the three cases), so that an adjusted score is never the zero that
`build_unified_findings` takes for a missing one. The last theorem has the hypothesis
`MinPeerGroup <= 5`; the code's `MIN_PEER_GROUP` is 3 (`anomaly.py:38`). Above five the
argument is not available, because rank alone may then weigh 80 where the thin-group
caveat still applies: whoever raises the constant should look again.

`ChatProofs` proves `StopNotesAreTrue`, `BubblesAreAwaited` and `WaitsAreServed` for
any number of questions and losses. The three are not inductive: a question that
was stopped is safe only as long as it stays in `cancelled`, which its own
`finally` leaves. `ChatInv` therefore says, question by question, how the tab's
half of a call and the server's half stand together: a note goes with a stopped or
ended `onSend`, a call that is out has its server in a place that fits, a run that
executes was asked for by a question past its first call, and only the active
question may be known by its run. One lemma per action keeps it; `SettledShows`
is what the end of any `onSend` may leave on the screen. `OnlyPendingExecutionsRestart`
proves `CancelAfterExecutionLasts`: of all orders in which cancel and execution may
arrive, one undoes a cancel, the execution that was asked for before it (the run
checks it as well). `LoneQuestionsArePolled` proves `ProgressIsPolled` under
`OneOnSendAtATime`: no call of a stopped question is out when the next one is asked.

`PlatformProofs` is about `MCPlatform`, the module whose run checks all six.
`PlatformRunsTheComponents`: every behaviour of `PlatformSpec` is, in the variables of
each component, a behaviour of that component, because a step of the platform is a step
of the component in focus and leaves the others' variables alone; the run thus explores
what the theorems are about. Fairness is not part of it: the platform's is restricted to
the focus. From there `PlatformTypeCorrect` proves `PlatformTypeOK`, and
`PlatformKeepsPromises` the invariants of the run and `ResultHasItsTrace`, for all
constants; `PenaltySurvives` is not among them because of its hypothesis on
`MinPeerGroup`.

The conditional theorems of these modules are meant like those of `RunQueueProofs`: the
condition is a predicate on states or steps of the model that names what breaks the
property, and it is stated in the component's module, next to the property.

Assumptions about the constants of the six components: the named `ASSUME`s of their
modules (finite sets of requests and foreign artifacts, natural bounds, a non-empty list
of distinct tickers, a question that is none), which TLC evaluates in `Platform`. The
specifications are proved with their fairness left unused.

Only model-checked: liveness (`EveryQueuedRunIsServed`, `StaleQueuedIsReclaimed`,
`EveryAttemptEnds`, `EveryCallReturns`, `PrunedIsTombstoned`, `ServedVerdictSettles`),
which is out of the prover's reach. Every invariant and every action property that a
passing run checks is a theorem. Of the seven findings, four have a theorem that says
where their property holds (2: `QueuedIsServable`, 3: `CancelledRunsStayEmpty`, 5:
`OrderedRequestsAreTraced`, 6: `FirstAttemptsEndAsReported`); 1 and 7 are about
liveness, and the failure of 4 is not a matter of order: it meets every attempt whose
results cannot be stored.

## 6. What is left

1. Two executors of one run over the same step rows, after a lapse: `PipelineRun`
   composed with the lease of `RunQueue`.
2. Retention against the readers and retries of evaluations, which share the run
   rows of `ArtifactVault` and `EvaluationControl`.
3. `ChatThread` over the runs of `RunQueue`, so that a cancel of the chat meets the
   engine's own checkpoints; and that the composer is always given back, as a
   liveness property (now `AwaitedIsServed`, and calls of finitely many steps).

## 7. Not modelled, and why

- **Experiments and adapters** (`agentic/experiments`, `agentic/adapters`), and of
  the **numeric pipeline** trend breaks, reports, coverage and quality summaries:
  deterministic computation over data frames, one frame in and one out. Their
  results enter the models as the outcomes a tool may report.
- **Rate limits**: windows of timestamps in one process behind one lock; there is
  no interleaving, and the arithmetic is a comparison.
- **Authentication, observability, the frontend's other pages**: stateless checks,
  output nobody reads back, and rendering. Of the **chat**, leaving a thread,
  managing conversations, and `createAnalysisRunFromChat`.
- **Schema migrations and deployment**: run once, outside the running system; the
  one fact taken from there is the retention loop.
- **S3 client, model-call redaction, previews, read-only list endpoints, MCP
  transports**: the same protocol as what is modelled, or reads only.
- Of the modelled parts, the notes of `PROJECT.json` say what is left out.
