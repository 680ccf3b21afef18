------------------------------- MODULE RunQueue -------------------------------
(***************************************************************************)
(* Background and synchronous execution of analysis runs: worker processes *)
(* that poll the job table, claim attempts under a lease, run an engine    *)
(* and finalize the attempt; API requests that create, cancel, retry and   *)
(* execute runs; the heartbeat that renews a lease; crashes.               *)
(*                                                                         *)
(* One step is one database transaction, or one read that a later write of *)
(* the same session relies on: sessions keep the row they loaded           *)
(* (expire_on_commit and autoflush are off), so a status that was read is  *)
(* carried in proc[p].seen until the code refreshes it.                    *)
(***************************************************************************)
EXTENDS JobStore

CONSTANTS
  Workers,          \* worker processes
  Clients,          \* API requests in flight at a time
  Agentic,          \* runs that select_run_engine gives to the agentic engine
  EmptyPollEnds,    \* what callers of claim_next_runnable do when it returns
                    \* None: {"rollback"} for process_next_job
  SyncExecute,      \* do clients also call POST /runs/{id}/execute?
  MaxCrashes,       \* bound: processes that die
  MaxLapses         \* bound: leases that expire under a live worker

ASSUME ProcessAssumption ==
  /\ Workers \cap Clients = {}
  /\ Agentic \subseteq Runs
  /\ EmptyPollEnds \subseteq {"rollback", "commit"} /\ SyncExecute \in BOOLEAN
  /\ MaxCrashes \in Nat /\ MaxLapses \in Nat

VARIABLES
  proc,             \* what each worker and each client is doing
  crashes, lapses   \* how often the environment has struck

store == <<runStatus, jobs, njobs, claims>>
vars  == <<store, proc, crashes, lapses>>

Procs == Workers \cup Clients

\* How an engine ended: "none" is a normal return.
Exceptions == {"none", "transient", "permanent", "cancelled", "lease_lost"}

Proc == [pc    : {"idle", "polled", "claimed", "loaded", "executing", "ended",
                  "cancelling", "cancel_sent", "retrying", "retry_checked"},
         run   : Runs \cup {NoRun},
         job   : JobIds \cup {0},
         token : Nat,
         seen  : AnalysisRunStatus \cup {"absent"},
         lost  : BOOLEAN,
         exc   : Exceptions,
         snap  : SUBSET JobIds]

Idle == [pc |-> "idle", run |-> NoRun, job |-> 0, token |-> NoToken,
         seen |-> "absent", lost |-> FALSE, exc |-> "none", snap |-> {}]

TypeOK ==
  /\ runStatus \in [Runs -> AnalysisRunStatus \cup {"absent"}]
  /\ jobs \in [JobIds -> Job]
  /\ njobs \in 0..MaxJobs
  /\ claims \in Nat
  /\ proc \in [Procs -> Proc]
  /\ crashes \in 0..MaxCrashes
  /\ lapses \in 0..MaxLapses

Init ==
  /\ runStatus = [r \in Runs |-> "absent"]
  /\ jobs = [j \in JobIds |-> NoJob]
  /\ njobs = 0
  /\ claims = 0
  /\ proc = [p \in Procs |-> Idle]
  /\ crashes = 0
  /\ lapses = 0

SetRun(r, status) == runStatus' = [runStatus EXCEPT ![r] = status]
Insert(js, r, attempt) ==
  /\ RoomForJob
  /\ jobs' = WithPending(js, r, attempt)
  /\ njobs' = njobs + 1
Goto(p, pc)  == proc' = [proc EXCEPT ![p].pc = pc]
Return(p)    == proc' = [proc EXCEPT ![p] = Idle]
NoFault      == UNCHANGED <<crashes, lapses>>

\* Process p's worker attempt still owns its job row.
Owns(p) == proc[p].job # 0 /\ OwnedBy(proc[p].job, proc[p].token)

-------------------------------------------------------------------------------
(* POST /runs *)

\* create_run: a pending row, nothing queued.
CreatePending(r) ==
  /\ runStatus[r] = "absent"
  /\ SetRun(r, "pending")
  /\ UNCHANGED <<jobs, njobs, claims, proc>> /\ NoFault

\* create_run with enqueue_execution: pending, queued and attempt 1 in one
\* transaction.
CreateQueued(r) ==
  /\ runStatus[r] = "absent"
  /\ SetRun(r, "queued")
  /\ Insert(jobs, r, 1)
  /\ UNCHANGED <<claims, proc>> /\ NoFault

-------------------------------------------------------------------------------
(* One poll of a worker: claim_next_runnable inside process_next_job *)

\* Rows another poll holds FOR UPDATE; SKIP LOCKED passes over them.  A poll
\* locks the job row and, through the join, the run row.
Skipped(j) ==
  \E w \in Workers : /\ proc[w].pc = "polled"
                     /\ jobs[proc[w].job].run = jobs[j].run
Visible(S) == {j \in S : ~Skipped(j)}

\* The first two branches that return None after changing rows.
TidiesOrphan  == Visible(Orphans) # {}
TidiesRunning == /\ ~TidiesOrphan
                 /\ Visible(StaleQueued) = {}
                 /\ Visible(StaleRunning) # {}

\* process_next_job returns at "job is None" and closes the session, which
\* rolls the branch's writes back: the rows were locked, nothing changed.
BeginEmptyPoll(w) ==
  /\ proc[w].pc = "idle"
  /\ "rollback" \in EmptyPollEnds
  /\ \/ TidiesOrphan  /\ proc' = [proc EXCEPT ![w].pc = "polled",
                                    ![w].job = OldestCreated(Visible(Orphans))]
     \/ TidiesRunning /\ proc' = [proc EXCEPT ![w].pc = "polled",
                                    ![w].job = OldestClaimed(Visible(StaleRunning))]
  /\ UNCHANGED store /\ NoFault

EndEmptyPoll(w) ==
  /\ proc[w].pc = "polled"
  /\ Return(w)
  /\ UNCHANGED store /\ NoFault

\* The same branches under a caller that commits: an open job of a cancelled
\* run is cancelled; a stale attempt of a running run fails and is followed by
\* the next attempt, or fails the run at the ceiling.
TidyOrphan(w) ==
  /\ proc[w].pc = "idle"
  /\ "commit" \in EmptyPollEnds /\ TidiesOrphan
  /\ jobs' = WithClosed({OldestCreated(Orphans)}, "cancelled")
  /\ UNCHANGED <<runStatus, njobs, claims, proc>> /\ NoFault

RescheduleRunning(w) ==
  /\ proc[w].pc = "idle"
  /\ "commit" \in EmptyPollEnds /\ TidiesRunning
  /\ LET j == OldestClaimed(StaleRunning)
         r == jobs[j].run
     IN  \/ /\ jobs[j].attempt >= MaxAttempts
            /\ jobs' = WithClosed({j}, "failed")
            /\ SetRun(r, "error")
            /\ UNCHANGED njobs
         \/ /\ jobs[j].attempt < MaxAttempts
            /\ Insert(WithClosed({j}, "failed"), r, jobs[j].attempt + 1)
            /\ SetRun(r, "queued")
  /\ UNCHANGED <<claims, proc>> /\ NoFault

Claim(w, j) ==
  /\ jobs' = WithClaim(j)
  /\ claims' = claims + 1
  /\ proc' = [proc EXCEPT ![w] = [Idle EXCEPT !.pc = "claimed", !.job = j,
                                    !.run = jobs[j].run, !.token = claims + 1]]
  /\ UNCHANGED <<runStatus, njobs>> /\ NoFault

\* Mutant: a takeover counted as a retry, refused on the last attempt.
ReclaimQueued_NotTheLast(w) ==
  /\ proc[w].pc = "idle"
  /\ ~TidiesOrphan
  /\ Visible(StaleQueued) # {}
  /\ jobs[OldestClaimed(Visible(StaleQueued))].attempt < MaxAttempts
  /\ Claim(w, OldestClaimed(Visible(StaleQueued)))

\* The claimant died before its run left queued: same attempt, new owner.
ReclaimQueued(w) ==
  /\ proc[w].pc = "idle"
  /\ ~TidiesOrphan
  /\ Visible(StaleQueued) # {}
  /\ Claim(w, OldestClaimed(Visible(StaleQueued)))

ClaimPending(w) ==
  /\ proc[w].pc = "idle"
  /\ ~TidiesOrphan /\ ~TidiesRunning
  /\ Visible(StaleQueued) = {}
  /\ Visible(Claimable) # {}
  /\ Claim(w, OldestCreated(Visible(Claimable)))

-------------------------------------------------------------------------------
(* The lease heartbeat of a claimed attempt *)

\* The guard's thread runs from the claim to the end of the engine.
Guarded(w) == proc[w].pc \in {"claimed", "loaded", "executing"}

RenewLease(w) ==
  /\ Guarded(w)
  /\ Owns(w) /\ ~proc[w].lost
  /\ jobs[proc[w].job].lease = "expired"
  /\ jobs' = [jobs EXCEPT ![proc[w].job].lease = "live"]
  /\ UNCHANGED <<runStatus, njobs, claims, proc>> /\ NoFault

\* renew_lease raises WorkerLeaseLostError: checkpoints raise from now on.
LoseLease(w) ==
  /\ Guarded(w)
  /\ ~Owns(w) /\ ~proc[w].lost
  /\ proc' = [proc EXCEPT ![w].lost = TRUE]
  /\ UNCHANGED store /\ NoFault

-------------------------------------------------------------------------------
(* An engine executing a run: for a worker (from_worker) or inside           *)
(* POST /runs/{id}/execute.  Both engines share the shape; where they differ *)
(* the run's membership in Agentic decides.                                  *)

\* A worker goes on to finalize; a request answers.
EngineEnds(p, exc) ==
  IF p \in Workers
  THEN proc' = [proc EXCEPT ![p].pc = "ended", ![p].exc = exc]
  ELSE Return(p)

LoadRun(w) ==
  /\ proc[w].pc = "claimed"
  /\ proc' = [proc EXCEPT ![w].pc = "loaded", ![w].seen = runStatus[proc[w].run]]
  /\ UNCHANGED store /\ NoFault

\* The status guard refuses (ValueError), or something before the run is
\* marked running fails; nothing has been committed.
StartFails(p) ==
  /\ proc[p].pc = "loaded"
  /\ \/ EngineEnds(p, "permanent")
     \/ /\ p \in Workers => proc[p].seen = "queued"
        /\ EngineEnds(p, "transient")
     \/ /\ proc[p].run \notin Agentic /\ proc[p].seen = "queued" /\ proc[p].lost
        /\ EngineEnds(p, "lease_lost")
  /\ UNCHANGED store /\ NoFault

\* The run is marked running on the strength of the status read at load: the
\* UPDATE is not conditional on it.
MarkRunning(p) ==
  /\ proc[p].pc = "loaded"
  /\ p \in Workers => proc[p].seen = "queued"
  /\ SetRun(proc[p].run, "running")
  /\ Goto(p, "executing")
  /\ UNCHANGED <<jobs, njobs, claims>> /\ NoFault

\* EDGAR passes a lease checkpoint between the UPDATE and its commit; the
\* agentic engine commits first.
EdgarStart(p)   == proc[p].run \notin Agentic /\ ~proc[p].lost /\ MarkRunning(p)
AgenticStart(p) == proc[p].run \in Agentic /\ MarkRunning(p)

\* A checkpoint raises.
AbortLeaseLost(p) ==
  /\ proc[p].pc = "executing" /\ proc[p].lost
  /\ EngineEnds(p, "lease_lost")
  /\ UNCHANGED store /\ NoFault

\* EDGAR refreshes the row at its phase boundaries.  The agentic engine's
\* _raise_if_cancelled reads the row its session already holds and cannot see
\* a cancellation committed by another session.
AbortCancelled(p) ==
  /\ proc[p].pc = "executing"
  /\ proc[p].run \notin Agentic
  /\ runStatus[proc[p].run] = "cancelled"
  /\ EngineEnds(p, "cancelled")
  /\ UNCHANGED store /\ NoFault

\* Roll back, re-read the row, and mark the run errored unless it was cancelled
\* or may not become error any more.
FailRun(p) ==
  LET r == proc[p].run IN
  \/ /\ runStatus[r] = "cancelled"
     /\ EngineEnds(p, "cancelled")
     /\ UNCHANGED runStatus
  \/ /\ runStatus[r] # "cancelled" /\ CanTransition(runStatus[r], "error")
     /\ SetRun(r, "error")
     /\ \E exc \in {"transient", "permanent"} : EngineEnds(p, exc)
  \/ /\ ~CanTransition(runStatus[r], "error")
     /\ EngineEnds(p, "permanent")
     /\ UNCHANGED runStatus

\* The pipeline or the investigation loop raises.
EngineFails(p) ==
  /\ proc[p].pc = "executing"
  /\ FailRun(p)
  /\ UNCHANGED <<jobs, njobs, claims>> /\ NoFault

CommitResult(p, outcome) ==
  /\ SetRun(proc[p].run, outcome)
  /\ EngineEnds(p, "none")
  /\ UNCHANGED <<jobs, njobs, claims>> /\ NoFault

\* EDGAR's row is locked by the output payload's UPDATE and refreshed after it:
\* the status it checks is the one its commit replaces.
EdgarComplete(p) ==
  /\ proc[p].pc = "executing" /\ proc[p].run \notin Agentic
  /\ ~proc[p].lost
  /\ runStatus[proc[p].run] # "cancelled"
  /\ \E outcome \in {"success", "partial_success", "no_data", "error"} :
       /\ CanTransition(runStatus[proc[p].run], outcome)
       /\ CommitResult(p, outcome)

\* The agentic engine checks the "running" that its session holds.
AgenticComplete(p) ==
  /\ proc[p].pc = "executing" /\ proc[p].run \in Agentic
  /\ ~proc[p].lost
  /\ \E outcome \in {"success", "partial_success", "error"} : CommitResult(p, outcome)

\* Storing the results raises (an illegal transition, the artifact store, the
\* database): no handler marks the run, the session is closed uncommitted.
PersistFails(p) ==
  /\ proc[p].pc = "executing" /\ ~proc[p].lost
  /\ proc[p].run \notin Agentic => runStatus[proc[p].run] # "cancelled"
  /\ \E exc \in {"transient", "permanent"} : EngineEnds(p, exc)
  /\ UNCHANGED store /\ NoFault

-------------------------------------------------------------------------------
(* _finalize_job_after_attempt *)

\* Ownership lost, noticed by a checkpoint or by the compare-and-set: the
\* worker rolls back and writes nothing.
FinalizeLost(w) ==
  /\ proc[w].pc = "ended"
  /\ proc[w].exc = "lease_lost" \/ ~Owns(w)
  /\ Return(w)
  /\ UNCHANGED store /\ NoFault

Finalizing(w) == /\ proc[w].pc = "ended" /\ proc[w].exc # "lease_lost" /\ Owns(w)

CloseAttempt(w, status) ==
  /\ jobs' = WithClosed({proc[w].job}, status)
  /\ Return(w)
  /\ UNCHANGED <<njobs, claims>> /\ NoFault

\* Mutant: finalized as completed whatever the engine raised.
FinalizeCompleted_AnyOutcome(w) ==
  /\ Finalizing(w)
  /\ CloseAttempt(w, "completed")
  /\ UNCHANGED runStatus

FinalizeCompleted(w) ==
  /\ Finalizing(w) /\ proc[w].exc = "none"
  /\ CloseAttempt(w, "completed")
  /\ UNCHANGED runStatus

Failed(w) == Finalizing(w) /\ proc[w].exc # "none"

FinalizeCancelled(w) ==
  /\ Failed(w)
  /\ proc[w].exc = "cancelled" \/ runStatus[proc[w].run] = "cancelled"
  /\ CloseAttempt(w, "cancelled")
  /\ UNCHANGED runStatus

Raised(w) == /\ Failed(w)
             /\ proc[w].exc # "cancelled" /\ runStatus[proc[w].run] # "cancelled"

\* Mutants: the run given a job's status; the run left queued.
FinalizeNeverStarted_JobStatus(w) ==
  /\ Raised(w)
  /\ runStatus[proc[w].run] = "queued"
  /\ CloseAttempt(w, "failed")
  /\ SetRun(proc[w].run, "failed")
FinalizeNeverStarted_LeftQueued(w) ==
  /\ Raised(w)
  /\ runStatus[proc[w].run] = "queued"
  /\ CloseAttempt(w, "failed")
  /\ UNCHANGED runStatus

\* The engine raised before it marked the run running.
FinalizeNeverStarted(w) ==
  /\ Raised(w)
  /\ runStatus[proc[w].run] = "queued"
  /\ CloseAttempt(w, "failed")
  /\ SetRun(proc[w].run, "error")

\* Mutant: one attempt too many.
Retriable_OneMore(w) == /\ proc[w].exc = "transient"
                        /\ jobs[proc[w].job].attempt <= MaxAttempts

Retriable(w) == /\ proc[w].exc = "transient"
                /\ jobs[proc[w].job].attempt < MaxAttempts

\* Mutant: the failed row is left open when the next is inserted.
FinalizeRequeue_LeavesRow(w) ==
  /\ Raised(w)
  /\ runStatus[proc[w].run] # "queued"
  /\ Retriable(w) /\ CanTransition(runStatus[proc[w].run], "queued")
  /\ SetRun(proc[w].run, "queued")
  /\ Insert(jobs, proc[w].run, jobs[proc[w].job].attempt + 1)
  /\ Return(w)
  /\ UNCHANGED claims /\ NoFault

\* A transient failure with attempts left: fail this row, queue the run again
\* and insert the next attempt.
FinalizeRequeue(w) ==
  /\ Raised(w)
  /\ runStatus[proc[w].run] # "queued"
  /\ Retriable(w)
  /\ LET j == proc[w].job IN
     /\ CanTransition(runStatus[proc[w].run], "queued")
     /\ SetRun(proc[w].run, "queued")
     /\ Insert(WithClosed({j}, "failed"), proc[w].run, jobs[j].attempt + 1)
  /\ Return(w)
  /\ UNCHANGED claims /\ NoFault

\* Mutant: the second compare-and-set, after the rollback, is forgotten.
FinalizeFailed_RollbackOnly(w) ==
  /\ Raised(w)
  /\ runStatus[proc[w].run] # "queued"
  /\ Retriable(w) => ~CanTransition(runStatus[proc[w].run], "queued")
  /\ Return(w)
  /\ UNCHANGED store /\ NoFault

\* No attempt left, a failure not worth repeating, or a run that may not be
\* queued again (requeue_transition_failed): only the row is closed.
FinalizeFailed(w) ==
  /\ Raised(w)
  /\ runStatus[proc[w].run] # "queued"
  /\ Retriable(w) => ~CanTransition(runStatus[proc[w].run], "queued")
  /\ CloseAttempt(w, "failed")
  /\ UNCHANGED runStatus

-------------------------------------------------------------------------------
(* POST /runs/{id}/cancel, /retry and /execute *)

CancelRead(c, r) ==
  /\ proc[c].pc = "idle"
  /\ runStatus[r] # "absent" /\ ~IsTerminal(runStatus[r])
  /\ proc' = [proc EXCEPT ![c] = [Idle EXCEPT !.pc = "cancelling", !.run = r,
                                                !.seen = runStatus[r]]]
  /\ UNCHANGED store /\ NoFault

\* cancel_open_jobs_for_run: the UPDATE finds its rows in the snapshot it
\* starts with, and may wait for a row lock before it applies.
CancelSend(c) ==
  /\ proc[c].pc = "cancelling"
  /\ proc' = [proc EXCEPT
       ![c].pc   = "cancel_sent",
       ![c].snap = IF proc[c].seen = "pending" THEN {} ELSE OpenJobs(proc[c].run)]
  /\ UNCHANGED store /\ NoFault

\* Mutant: every row of the snapshot is cancelled, finished or not.
CancelCommit_WholeSnapshot(c) ==
  /\ proc[c].pc = "cancel_sent"
  /\ jobs' = WithClosed(proc[c].snap, "cancelled")
  /\ SetRun(proc[c].run, "cancelled")
  /\ Return(c)
  /\ UNCHANGED <<njobs, claims>> /\ NoFault

\* The rows still open are cancelled, then the run row is overwritten.
CancelCommit(c) ==
  /\ proc[c].pc = "cancel_sent"
  /\ jobs' = WithClosed(proc[c].snap \cap OpenJobs(proc[c].run), "cancelled")
  /\ SetRun(proc[c].run, "cancelled")
  /\ Return(c)
  /\ UNCHANGED <<njobs, claims>> /\ NoFault

RetryRead(c, r) ==
  /\ proc[c].pc = "idle"
  /\ IsRetriable(runStatus[r])
  /\ proc' = [proc EXCEPT ![c] = [Idle EXCEPT !.pc = "retrying", !.run = r,
                                                !.seen = runStatus[r]]]
  /\ UNCHANGED store /\ NoFault

\* has_open_job_for_run answers 409 or lets the request go on.
RetryCheck(c) ==
  /\ proc[c].pc = "retrying"
  /\ IF HasOpenJob(proc[c].run) THEN Return(c) ELSE Goto(c, "retry_checked")
  /\ UNCHANGED store /\ NoFault

\* The run row is written first, so the latest attempt is read under its lock.
RetryCommit(c) ==
  /\ proc[c].pc = "retry_checked"
  /\ SetRun(proc[c].run, "queued")
  /\ Insert(jobs, proc[c].run, LatestAttempt(proc[c].run) + 1)
  /\ Return(c)
  /\ UNCHANGED claims /\ NoFault

\* Open jobs are not looked at: only the run's status.
ExecuteRead(c, r) ==
  /\ SyncExecute
  /\ proc[c].pc = "idle"
  /\ runStatus[r] \in {"pending"} \cup RestartToRunning
  /\ proc' = [proc EXCEPT ![c] = [Idle EXCEPT !.pc = "loaded", !.run = r,
                                                !.seen = runStatus[r]]]
  /\ UNCHANGED store /\ NoFault

-------------------------------------------------------------------------------
(* The environment *)

\* A process dies with its uncommitted transaction; its successor is idle.
Crash(p) ==
  /\ crashes < MaxCrashes
  /\ proc[p].pc # "idle"
  /\ crashes' = crashes + 1
  /\ Return(p)
  /\ UNCHANGED <<store, lapses>>

HeldByLiveWorker(j) == \E w \in Workers : proc[w].job = j /\ Owns(w)

ExpireLease(j) == jobs' = [jobs EXCEPT ![j].lease = "expired"]

\* Nobody renews the lease of a dead claimant.
LeaseRunsOut(j) ==
  /\ jobs[j].status = "running" /\ jobs[j].lease = "live"
  /\ ~HeldByLiveWorker(j)
  /\ ExpireLease(j)
  /\ UNCHANGED <<runStatus, njobs, claims, proc>> /\ NoFault

\* That of a live one runs out if the process is suspended, or if its
\* heartbeats keep failing: WorkerLeaseGuard only logs those failures.
LeaseLapses(j) ==
  /\ lapses < MaxLapses
  /\ jobs[j].status = "running" /\ jobs[j].lease = "live"
  /\ HeldByLiveWorker(j)
  /\ ExpireLease(j)
  /\ lapses' = lapses + 1
  /\ UNCHANGED <<runStatus, njobs, claims, proc, crashes>>

-------------------------------------------------------------------------------

Poll(w) == \/ BeginEmptyPoll(w) \/ EndEmptyPoll(w)
           \/ TidyOrphan(w) \/ RescheduleRunning(w)
           \/ ReclaimQueued(w) \/ ClaimPending(w)

Engine(p) == \/ StartFails(p) \/ EdgarStart(p) \/ AgenticStart(p)
             \/ AbortLeaseLost(p) \/ AbortCancelled(p) \/ EngineFails(p)
             \/ EdgarComplete(p) \/ AgenticComplete(p) \/ PersistFails(p)

Finalize(w) == \/ FinalizeLost(w) \/ FinalizeCompleted(w) \/ FinalizeCancelled(w)
               \/ FinalizeNeverStarted(w) \/ FinalizeRequeue(w) \/ FinalizeFailed(w)

WorkerStep(w) == Poll(w) \/ LoadRun(w) \/ Engine(w) \/ Finalize(w)

Request(c) == \/ \E r \in Runs : CancelRead(c, r) \/ RetryRead(c, r) \/ ExecuteRead(c, r)
              \/ CancelSend(c) \/ CancelCommit(c) \/ RetryCheck(c) \/ RetryCommit(c)
              \/ Engine(c)

Next ==
  \/ \E r \in Runs : CreatePending(r) \/ CreateQueued(r)
  \/ \E w \in Workers : WorkerStep(w) \/ RenewLease(w) \/ LoseLease(w)
  \/ \E c \in Clients : Request(c)
  \/ \E p \in Procs : Crash(p)
  \/ \E j \in JobIds : LeaseRunsOut(j) \/ LeaseLapses(j)

Spec == Init /\ [][Next]_vars

\* Workers keep polling and their engines return; heartbeats run; time passes.
\* Users and the environment owe nothing.
Fairness ==
  /\ \A w \in Workers : WF_vars(WorkerStep(w)) /\ WF_vars(RenewLease(w))
                                               /\ WF_vars(LoseLease(w))
  /\ \A j \in JobIds : WF_vars(LeaseRunsOut(j))

LiveSpec == Spec /\ Fairness

-------------------------------------------------------------------------------
(* Rows and tokens *)

\* A claim token is the fencing token of exactly one open claim: a row has one
\* iff it is running, no two rows share one, and no two processes own the same
\* row, whoever crashed, stalled or was reclaimed in between.
OneOwnerPerClaim ==
  /\ \A j \in JobIds : (jobs[j].status = "running") <=> (jobs[j].token # NoToken)
  /\ \A i, j \in JobIds : jobs[i].token = jobs[j].token /\ i # j
                            => jobs[i].token = NoToken
  /\ \A v, w \in Workers : Owns(v) /\ Owns(w) /\ proc[v].job = proc[w].job => v = w

\* A worker that lost ownership cannot finalize a reclaimed job, nor can a poll
\* take one whose lease still runs: a claim with a live worker and a live lease
\* ends by that worker's own step, or because its run is cancelled.  It may have
\* taken the row over from a worker whose lease lapsed and who still runs.
LiveClaimIsRespected ==
  [][\A w \in Workers :
       LET j == proc[w].job IN
       /\ j # 0 /\ jobs[j].status = "running"
       /\ jobs[j].token = proc[w].token /\ jobs[j].lease = "live"
       /\ jobs'[j].token # proc[w].token
       => \/ proc'[w] # proc[w]
          \/ "cancelled" \in {runStatus[jobs[j].run], runStatus'[jobs[j].run]}]_vars

\* A row is the durable record of one attempt: once it is completed, failed or
\* cancelled no late heartbeat, finalization or cancellation changes it.
ClosedRowsAreFinal ==
  [][\A j \in JobIds : jobs[j].status \in ClosedStatus => jobs'[j] = jobs[j]]_vars

\* A run never has two open attempts: has_open_job_for_run keeps a retry from
\* adding a second one, finalization closes a row before it adds the next.
OneOpenJobPerRun == \A r \in Runs : Cardinality(OpenJobs(r)) <= 1

\* The attempts of a run are numbered 1, 2, ... without gap or repetition, whoever
\* adds them, creation, automatic retry, rescheduling or the user; and only the
\* last of them may be open, so that no attempt starts before the one before it
\* has ended.
AttemptsNumberedInOrder ==
  \A r \in Runs : /\ {jobs[j].attempt : j \in JobsOf(r)} = 1..Cardinality(JobsOf(r))
                  /\ \A j \in OpenJobs(r) : jobs[j].attempt = Cardinality(JobsOf(r))

\* No worker ever runs an attempt beyond run_job_max_attempts.
CeilingHolds ==
  \A j \in JobIds : jobs[j].status = "running" => jobs[j].attempt <= MaxAttempts

\* The job table, seen run by run, is an attempt ledger.
TheOpenJob(r) == CHOOSE j \in OpenJobs(r) : TRUE
Opened == [r \in Runs |-> Cardinality(JobsOf(r))]
Phase  == [r \in Runs |-> IF ~HasOpenJob(r) THEN "none"
                         ELSE IF jobs[TheOpenJob(r)].status = "pending"
                              THEN "waiting" ELSE "held"]
Holder == [r \in Runs |-> IF HasOpenJob(r) THEN jobs[TheOpenJob(r)].token ELSE 0]

Ledger == INSTANCE AttemptLedger WITH
  opened <- Opened, phase <- Phase, holder <- Holder, tokens <- claims

\* Every transaction on the job table is a ledger step or none: at most one
\* open attempt, takeovers only with a fresh token, ended attempts counted once.
KeepsLedger == Ledger!Spec

-------------------------------------------------------------------------------
(* Rows and runs *)

\* A queued run is never forgotten: some open attempt will carry it.
QueuedHasOpenJob == \A r \in Runs : runStatus[r] = "queued" => HasOpenJob(r)

\* ... and claim_next_runnable may hand that attempt out.
QueuedIsClaimable ==
  \A r \in Runs : runStatus[r] = "queued" =>
    \E j \in OpenJobs(r) : jobs[j].attempt <= MaxAttempts

\* An attempt is recorded as completed only for a run that has finished.
CompletedMeansFinished ==
  [][\A w \in Workers :
       /\ proc[w].pc = "ended"
       /\ jobs[proc[w].job].status = "running" /\ jobs'[proc[w].job].status = "completed"
       => IsTerminal(runStatus[proc[w].run])]_vars

\* Whatever a worker writes to its run, it writes as the owner of the attempt.
\* True only while no lease lapses and no cancellation meets an execution: the
\* run row has no fence, and a superseded worker writes it until it notices.
OnlyOwnerWrites ==
  [][\A w \in Workers :
       /\ proc[w].run # NoRun /\ proc'[w] # proc[w]
       /\ runStatus'[proc[w].run] # runStatus[proc[w].run]
       => Owns(w)]_vars

\* At most one worker at a time executes a run.
OneExecutorPerRun ==
  \A v, w \in Workers : /\ proc[v].pc = "executing" /\ proc[w].pc = "executing"
                        /\ proc[v].run = proc[w].run
                        => v = w

\* Cancelling is for runs that have not finished: no finished run becomes
\* cancelled.
CancelOnlyUnfinished ==
  [][\A r \in Runs : runStatus'[r] = "cancelled" /\ runStatus[r] # "cancelled"
                     => ~IsTerminal(runStatus[r])]_vars

\* A cancelled run is not given results by an execution the user cancelled.
CancelledKeepsNoResults ==
  [][\A r \in Runs : runStatus[r] = "cancelled" =>
       runStatus'[r] \notin {"success", "partial_success", "no_data"}]_vars

\* What does hold of the code: an EDGAR run takes a result only while it runs,
\* whatever was cancelled, reclaimed or started twice meanwhile.
ResultsEndRunning ==
  [][\A r \in Runs \ Agentic :
       /\ runStatus'[r] \in {"success", "partial_success", "no_data"}
       /\ runStatus'[r] # runStatus[r]
       => runStatus[r] = "running"]_vars

\* A worker that gives up a transiently failed attempt with attempts left, on a
\* run that was started and that nobody cancelled, leaves the next one behind.
TransientFailureRequeues ==
  [][\A w \in Workers :
       /\ Finalizing(w) /\ Retriable(w)
       /\ runStatus[proc[w].run] \notin {"queued", "cancelled"}
       /\ proc'[w] = Idle /\ crashes' = crashes
       => \E j \in JobIds : /\ jobs'[j].status = "pending"
                            /\ jobs'[j].run = proc[w].run
                            /\ jobs'[j].attempt = jobs[proc[w].job].attempt + 1]_vars

-------------------------------------------------------------------------------
(* Liveness *)

\* A queued run is eventually taken up, whoever dies, unless every poll is held
\* up by one row: that of an attempt that was abandoned while its run was running
\* and that the empty poll never gets rid of.
EveryQueuedRunIsServed ==
  []<>(StaleRunning = {})
    => \A r \in Runs : runStatus[r] = "queued" ~> runStatus[r] # "queued"

\* An attempt that a live worker holds is eventually recorded as completed,
\* failed or cancelled, unless a process dies first; the attempts of the others
\* are recorded even then.
EveryAttemptEnds ==
  \A j \in JobIds, n \in 0..MaxCrashes :
    (HeldByLiveWorker(j) /\ crashes = n)
      ~> (jobs[j].status \in ClosedStatus \/ crashes > n)

\* An attempt whose worker died before the run left queued does not hold the
\* run: a later poll claims it again, or its row is closed.
StaleQueuedIsReclaimed ==
  \A j \in JobIds : j \in StaleQueued ~> j \notin StaleQueued

\* What local-stack.md promises of the other case, that stale leases are
\* reclaimed: an attempt whose worker died in the middle of the run does not hold
\* the run for ever.
StaleRunningIsReclaimed ==
  \A j \in JobIds : j \in StaleRunning ~> j \notin StaleRunning

===============================================================================
