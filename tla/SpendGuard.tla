----------------------------- MODULE SpendGuard -----------------------------
(***************************************************************************)
(* Admission of runs: the entitlement and spend checks of                  *)
(* backend/services/spend_guard.py and the requests that pass them.        *)
(*                                                                         *)
(* The guard reads how many runs the account and the deployment already    *)
(* have, in one step; the request changes its run in a later one.  Between *)
(* the two every other request may be at the same point, so a ceiling can  *)
(* be overshot by the requests in flight.  Evaluations queue runs without  *)
(* asking.                                                                 *)
(***************************************************************************)
EXTENDS RunStatus, Naturals, FiniteSets, FiniteSetsExt

CONSTANTS
  Accounts,         \* users
  Tier,             \* access_tier of each account
  Admins,           \* accounts with is_admin
  MaxTasks,         \* bound: analysis-run rows ever created
  Requests,         \* API requests being served at once
  Models,           \* model names of recorded calls
  Prices,           \* llm_model_prices: price per token of the priced models
  MaxRunsOf,        \* ..._max_runs_per_account by tier, 0 for no ceiling
  MaxSpendOf,       \* ..._max_spend_usd_per_account by tier, 0 for none
  GlobalMaxRuns,    \* global_monthly_max_runs, 0 for none
  GlobalMaxSpend,   \* global_monthly_max_spend_usd, 0 for none
  AgenticEnabled,   \* agentic_engine_enabled
  MaxMonth,         \* bound: calendar months that pass
  MaxTokens         \* bound: tokens one execution adds to a model

Tiers == {"guest", "standard", "adaptive"}

ASSUME AccountAssumption ==
  /\ Accounts # {} /\ Tier \in [Accounts -> Tiers] /\ Admins \subseteq Accounts
ASSUME LimitAssumption ==
  /\ MaxRunsOf \in [Tiers -> Nat] /\ MaxSpendOf \in [Tiers -> Nat]
  /\ GlobalMaxRuns \in Nat /\ GlobalMaxSpend \in Nat
ASSUME FiniteAssumption ==
  /\ IsFiniteSet(Requests)
  /\ MaxTasks \in Nat /\ MaxMonth \in Nat /\ MaxTokens \in Nat

VARIABLES
  month,    \* the current calendar month
  task,     \* the analysis_runs rows
  request   \* the requests between their admission and their commit

spendVars == <<month, task, request>>

Engines    == {"edgar", "agentic"}

\* Rows in the order of their creation.
Tasks == 1..MaxTasks

\* POST /investigations creates and starts a run as POST /runs with
\* enqueue_execution does, for the agentic engine.
Operations == {"create", "retry", "execute"}

Task == [status  : AnalysisRunStatus \cup {"absent"},
         owner   : Accounts,
         engine  : Engines,                 \* the engine the payload asks for
         created : 0..MaxMonth,             \* month of created_at
         via     : {"none", "guard", "evaluation"},  \* what first started it
         begun   : 0..MaxMonth,             \* month of that start
         ran     : Engines \cup {"none"},   \* engine of its last execution
         tokens  : [Models -> Nat]]         \* sums over its model_calls

Idle  == [op |-> "none"]
Ask   == [op : {"create"}, user : Accounts, engine : Engines]
Again == [op : {"retry", "execute"}, user : Accounts, run : Tasks]

SpendTypeOK ==
  /\ month \in 0..MaxMonth
  /\ task \in [Tasks -> Task]
  /\ request \in [Requests -> Ask \cup Again \cup {Idle}]

SpendInit ==
  /\ month = 0
  /\ request = [c \in Requests |-> Idle]
  /\ task = [r \in Tasks |->
              [status |-> "absent", owner |-> CHOOSE u \in Accounts : TRUE,
               engine |-> "edgar", created |-> 0, via |-> "none", begun |-> 0,
               ran |-> "none", tokens |-> [m \in Models |-> 0]]]

-------------------------------------------------------------------------------
(* Usage *)

\* Mutant: runs are counted once they finish.
Billable_Finished(r) == IsTerminal(task[r].status)

\* A run counts once it has left pending, however it left it.
Billable(r) == task[r].status \notin {"absent", "pending"}

BilledTo(u) == {r \in Tasks : Billable(r) /\ task[r].owner = u}

BilledThisMonth == {r \in Tasks : Billable(r) /\ task[r].created = month}

\* A model without a price costs nothing.
CostOf(m, tokens) == IF m \in DOMAIN Prices THEN Prices[m] * tokens ELSE 0

\* USD ceilings bind only when some price is configured.
Priced == DOMAIN Prices # {}

Spend(rs) ==
  IF ~Priced THEN 0
  ELSE MapThenSumSet(
         LAMBDA r : MapThenSumSet(LAMBDA m : CostOf(m, task[r].tokens[m]), Models),
         rs)

-------------------------------------------------------------------------------
(* Admission *)

Reached(limit, used) == limit # 0 /\ used >= limit

\* Only adaptive accounts have an allowance of model spend.
SpendLimit(u) == IF Tier[u] = "adaptive" THEN MaxSpendOf["adaptive"] ELSE 0
RunLimit(u)   == MaxRunsOf[Tier[u]]

\* Mutant: the ceiling itself still admits.
Admissible_OffByOne(u) ==
  \/ u \in Admins
  \/ ~(RunLimit(u) # 0 /\ Cardinality(BilledTo(u)) > RunLimit(u))

\* check_run_admission: the deployment's ceilings first, then the account's.
Admissible(u) ==
  \/ u \in Admins
  \/ /\ ~Reached(GlobalMaxRuns, Cardinality(BilledThisMonth))
     /\ ~(Priced /\ Reached(GlobalMaxSpend, Spend(BilledThisMonth)))
     /\ ~Reached(RunLimit(u), Cardinality(BilledTo(u)))
     /\ ~(Priced /\ Reached(SpendLimit(u), Spend(BilledTo(u))))

\* assert_engine_entitled: guests are downgraded later, others refused now.
Entitled(u, engine) ==
  engine = "agentic" => Tier[u] \in {"adaptive", "guest"}

\* Mutant: the tier is trusted to have been checked at the route.
EngineOf_RouteChecked(r) ==
  IF AgenticEnabled THEN task[r].engine ELSE "edgar"

\* select_run_engine: the flag, the request and the owner's tier, read when
\* the run starts.
EngineOf(r) ==
  IF AgenticEnabled /\ task[r].engine = "agentic"
     /\ Tier[task[r].owner] = "adaptive"
  THEN "agentic" ELSE "edgar"

-------------------------------------------------------------------------------
(* Requests *)

\* The row that the next insert makes.
Unborn(r) ==
  task[r].status = "absent" /\ \A q \in 1..(r - 1) : task[q].status # "absent"

New(u, engine, status, via) ==
  [status |-> status, owner |-> u, engine |-> engine, created |-> month,
   via |-> via, begun |-> month, ran |-> "none",
   tokens |-> [m \in Models |-> 0]]

\* POST /runs without enqueue_execution: a pending row is free, nothing asks.
CreatePending(u, r, engine) ==
  /\ Unborn(r)
  /\ task' = [task EXCEPT ![r] = New(u, engine, "pending", "none")]
  /\ UNCHANGED <<month, request>>

\* guard_run_admission, called by the routes that start a run.  A refused
\* request ends there and changes nothing.
AdmitNew(c, u, engine) ==
  /\ request[c] = Idle
  /\ Entitled(u, engine) /\ Admissible(u)
  /\ request' = [request EXCEPT
                   ![c] = [op |-> "create", user |-> u, engine |-> engine]]
  /\ UNCHANGED <<month, task>>

AdmitAgain(c, op, r) ==
  /\ request[c] = Idle
  /\ task[r].status # "absent"
  /\ op = "execute" => task[r].status \notin {"queued", "running"}
  /\ Entitled(task[r].owner, task[r].engine) /\ Admissible(task[r].owner)
  /\ request' = [request EXCEPT
                   ![c] = [op |-> op, user |-> task[r].owner, run |-> r]]
  /\ UNCHANGED <<month, task>>

Started(row) ==
  IF row.via = "none" THEN [row EXCEPT !.via = "guard", !.begun = month] ELSE row

\* The insert and the enqueue of POST /runs and of POST /investigations.
CommitNew(c, r) ==
  LET q == request[c] IN
  /\ q.op = "create"
  /\ Unborn(r)
  /\ task' = [task EXCEPT ![r] = New(q.user, q.engine, "queued", "guard")]
  /\ request' = [request EXCEPT ![c] = Idle]
  /\ UNCHANGED month

\* POST /runs/{id}/retry: the run goes back to the queue, or the answer is 409.
CommitRetry(c) ==
  LET q == request[c] IN
  /\ q.op = "retry"
  /\ task' = IF IsRetriable(task[q.run].status)
             THEN [task EXCEPT ![q.run] = [Started(@) EXCEPT !.status = "queued"]]
             ELSE task
  /\ request' = [request EXCEPT ![c] = Idle]
  /\ UNCHANGED month

\* POST /runs/{id}/execute: runs here and now unless the status forbids it.
CommitExecute(c) ==
  LET q == request[c] IN
  /\ q.op = "execute"
  /\ task' = IF task[q.run].status \in RestartToRunning \cup {"pending"}
             THEN [task EXCEPT ![q.run] =
                     [Started(@) EXCEPT !.status = "running",
                                        !.ran = EngineOf(q.run)]]
             ELSE task
  /\ request' = [request EXCEPT ![c] = Idle]
  /\ UNCHANGED month

\* POST /runs/{id}/cancel is not guarded, and a cancelled run has left pending.
CancelTask(r) ==
  /\ task[r].status \in {"pending", "queued", "running"}
  /\ task' = [task EXCEPT ![r].status = "cancelled"]
  /\ UNCHANGED <<month, request>>

\* Starting an evaluation queues child runs for its owner; nothing asks.
QueueEvaluationChild(u, r) ==
  /\ Unborn(r)
  /\ task' = [task EXCEPT ![r] = New(u, "edgar", "queued", "evaluation")]
  /\ UNCHANGED <<month, request>>

\* The worker starts a queued run.
Work(r) ==
  /\ task[r].status = "queued"
  /\ task' = [task EXCEPT ![r].status = "running", ![r].ran = EngineOf(r)]
  /\ UNCHANGED <<month, request>>

\* An execution ends; its model calls are on record.
Finish(r, outcome, used) ==
  /\ task[r].status = "running"
  /\ task' = [task EXCEPT ![r].status = outcome,
                          ![r].tokens = [m \in Models |-> @[m] + used]]
  /\ UNCHANGED <<month, request>>

NextMonth ==
  /\ month < MaxMonth
  /\ month' = month + 1
  /\ UNCHANGED <<task, request>>

SpendNext ==
  \/ \E u \in Accounts, r \in Tasks, e \in Engines : CreatePending(u, r, e)
  \/ \E c \in Requests, u \in Accounts, e \in Engines : AdmitNew(c, u, e)
  \/ \E c \in Requests, op \in {"retry", "execute"}, r \in Tasks : AdmitAgain(c, op, r)
  \/ \E c \in Requests, r \in Tasks : CommitNew(c, r)
  \/ \E c \in Requests : CommitRetry(c)
  \/ \E c \in Requests : CommitExecute(c)
  \/ \E r \in Tasks : CancelTask(r)
  \/ \E u \in Accounts, r \in Tasks : QueueEvaluationChild(u, r)
  \/ \E r \in Tasks : Work(r)
  \/ \E r \in Tasks, o \in {"success", "error"}, n \in 0..MaxTokens : Finish(r, o, n)
  \/ NextMonth

SpendSpec == SpendInit /\ [][SpendNext]_spendVars

-------------------------------------------------------------------------------
(* Properties *)

GuardedFor(u)   == {r \in Tasks : task[r].via = "guard" /\ task[r].owner = u}
InFlightFor(u)  == {c \in Requests : request[c] # Idle /\ request[c].user = u}
Guarded         == {r \in Tasks : task[r].via = "guard" /\ task[r].created = month
                                  /\ task[r].owner \notin Admins}
InFlight        == {c \in Requests : request[c] # Idle /\ request[c].user \notin Admins}

\* An account that is not an admin's may pass its run ceiling only by requests
\* that were in flight together: the runs it started through the guard number
\* at most the ceiling plus all concurrent requests but one.
\* (spend_guard.check_run_admission counts, the route commits later.)
AccountOvershootBounded ==
  \A u \in Accounts \ Admins : RunLimit(u) # 0 =>
    Cardinality(GuardedFor(u)) + Cardinality(InFlightFor(u))
      <= RunLimit(u) + Cardinality(Requests) - 1

\* The same for the deployment: of the runs created this month, those started
\* through the guard exceed the monthly ceiling by requests in flight only.
GlobalOvershootBounded ==
  GlobalMaxRuns # 0 =>
    Cardinality(Guarded) + Cardinality(InFlight)
      <= GlobalMaxRuns + Cardinality(Requests) - 1

\* Neither ceiling on runs is passed by more than the requests in flight
\* together, less one, however they interleave with each other, with retries
\* and with the turn of the month.
OvershootBounded == AccountOvershootBounded /\ GlobalOvershootBounded

\* Whatever a request asked for and however its run was started, only runs of
\* adaptive accounts ever execute on the agentic engine.
AgenticOnlyForAdaptive ==
  \A r \in Tasks : task[r].ran = "agentic" =>
    AgenticEnabled /\ Tier[task[r].owner] = "adaptive"

\* What settings.py says the kill switch counts, "total runs started across
\* all users in the current calendar month": the starts of a month stay within
\* the ceiling, requests in flight aside.  The code counts rows created in it.
KillSwitchCountsStarts ==
  GlobalMaxRuns # 0 =>
    Cardinality({r \in Tasks : task[r].via = "guard" /\ task[r].begun = month
                               /\ task[r].owner \notin Admins})
      <= GlobalMaxRuns + Cardinality(Requests) - 1

\* What the decision record says, "admission checks on every path that starts
\* execution": all the runs an account started stay within its ceiling,
\* requests in flight aside.  Evaluations start runs that nothing admits.
EveryStartIsAdmitted ==
  \A u \in Accounts \ Admins : RunLimit(u) # 0 =>
    Cardinality({r \in Tasks : task[r].ran # "none" /\ task[r].owner = u})
      <= RunLimit(u) + Cardinality(Requests) - 1

\* What does hold of it: every execution but an evaluation's was admitted, so
\* however a run came to execute (a first start, a retry, a restart in place, the
\* worker), an account passes its ceiling by requests in flight together only.
OtherStartsAreAdmitted ==
  \A u \in Accounts \ Admins : RunLimit(u) # 0 =>
    Cardinality({r \in Tasks : /\ task[r].ran # "none" /\ task[r].via # "evaluation"
                               /\ task[r].owner = u})
      <= RunLimit(u) + Cardinality(Requests) - 1

\* No request starts a run that was created in an earlier month.
StartsInItsMonth ==
  \A r \in Tasks : task[r].via = "guard" => task[r].begun = task[r].created

==============================================================================
