------------------------------- MODULE JobStore -------------------------------
(***************************************************************************)
(* The database rows behind background execution and the queries and       *)
(* updates that RunExecutionJobRepository makes on them: one row per run   *)
(* (its status), one row per execution attempt (table run_execution_jobs). *)
(*                                                                         *)
(* Job ids are handed out in insertion order, so the smaller id is the     *)
(* older created_at.  A claim token stands for a fresh UUID: the number of *)
(* the claim that made it, so the smaller token is the older claimed_at.   *)
(***************************************************************************)
EXTENDS RunStatus, Naturals, FiniteSets

CONSTANTS
  Runs,          \* analysis runs
  NoRun,         \* "no run" in an unused row or an idle process
  MaxAttempts,   \* settings.run_job_max_attempts
  MaxJobs        \* bound: job rows that may ever be inserted

ASSUME NoRunAssumption == NoRun \notin Runs
ASSUME BoundsAssumption == MaxAttempts \in Nat \ {0} /\ MaxJobs \in Nat

VARIABLES
  runStatus,     \* status of each run, "absent" before POST /runs
  jobs,          \* the job rows
  njobs,         \* rows inserted so far
  claims         \* claim tokens generated so far

JobIds    == 1..MaxJobs
NoToken   == 0
OpenStatus   == {"pending", "running"}
ClosedStatus == {"completed", "failed", "cancelled"}

Job == [status  : {"absent"} \cup OpenStatus \cup ClosedStatus,
        run     : Runs \cup {NoRun},
        attempt : Nat,
        token   : Nat,
        lease   : {"none", "live", "expired"}]

NoJob == [status |-> "absent", run |-> NoRun, attempt |-> 0,
          token |-> NoToken, lease |-> "none"]

-------------------------------------------------------------------------------
(* Queries *)

JobsOf(r)     == {j \in JobIds : jobs[j].status # "absent" /\ jobs[j].run = r}
OpenJobs(r)   == {j \in JobsOf(r) : jobs[j].status \in OpenStatus}
HasOpenJob(r) == OpenJobs(r) # {}

\* Mutant: attempt numbers start over with every retry.
LatestAttempt_Reset(r) == 0

\* attempt_count of the newest row of r; 0 when r has none, so that the next
\* attempt is 1.
LatestAttempt(r) ==
  LET attempts == {jobs[j].attempt : j \in JobsOf(r)} IN
  IF attempts = {} THEN 0
  ELSE CHOOSE a \in attempts : \A b \in attempts : b <= a

\* Mutants: a claim that ignores the lease; one that knows missing leases only.
Stale_AnyRunning(j) == jobs[j].status = "running"
Stale_MissingOnly(j) == jobs[j].status = "running" /\ jobs[j].lease = "none"

Stale(j) == jobs[j].status = "running" /\ jobs[j].lease # "live"

\* Mutant: the attempt bound made strict.
Claimable_Strict == {j \in JobIds : /\ jobs[j].status = "pending"
                                    /\ runStatus[jobs[j].run] = "queued"
                                    /\ jobs[j].attempt < MaxAttempts}

\* The four selections of claim_next_runnable, in the order it makes them.
Orphans      == {j \in JobIds : /\ jobs[j].status \in OpenStatus
                                /\ runStatus[jobs[j].run] = "cancelled"}
StaleQueued  == {j \in JobIds : Stale(j) /\ runStatus[jobs[j].run] = "queued"}
StaleRunning == {j \in JobIds : Stale(j) /\ runStatus[jobs[j].run] = "running"}
Claimable    == {j \in JobIds : /\ jobs[j].status = "pending"
                                /\ runStatus[jobs[j].run] = "queued"
                                /\ jobs[j].attempt <= MaxAttempts}

OldestCreated(S) == CHOOSE j \in S : \A k \in S : j <= k
OldestClaimed(S) == CHOOSE j \in S : \A k \in S : jobs[j].token <= jobs[k].token

\* Mutant: ownership judged by the row's status alone.
OwnedBy_StatusOnly(j, token) == jobs[j].status = "running"

\* The compare-and-set condition of renew_lease and finalize_attempt_if_owned.
OwnedBy(j, token) == jobs[j].status = "running" /\ jobs[j].token = token

-------------------------------------------------------------------------------
(* Updates, each yielding the rows after it *)

RoomForJob == njobs < MaxJobs

\* create_pending_attempt, on rows js that the same transaction has changed.
WithPending(js, r, attempt) ==
  [js EXCEPT ![njobs + 1] = [status |-> "pending", run |-> r,
                             attempt |-> attempt,
                             token |-> NoToken, lease |-> "none"]]

\* A claimed row: a fresh token and a full lease, the attempt number kept.
WithClaim(j) ==
  [jobs EXCEPT ![j] = [@ EXCEPT !.status = "running", !.token = claims + 1,
                                !.lease = "live"]]

\* Rows S closed with one status; token and lease are cleared with it.
WithClosed(S, status) ==
  [j \in JobIds |->
     IF j \in S
     THEN [jobs[j] EXCEPT !.status = status, !.token = NoToken, !.lease = "none"]
     ELSE jobs[j]]

===============================================================================
