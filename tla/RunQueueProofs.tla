---------------------------- MODULE RunQueueProofs ----------------------------
(***************************************************************************)
(* Proofs about RunQueue, for any number of runs, workers, requests, rows, *)
(* crashes and lapses.                                                     *)
(*                                                                         *)
(* Every transaction does one of six things to the job table (RowStep);    *)
(* what is true of the rows is proved about those six, not about the       *)
(* thirty actions.  First come types, tokens and closed rows, of every     *)
(* behaviour.  Then, of behaviours in which no two retries of a run        *)
(* overlap: one open attempt, its number, no queued run without one, and   *)
(* that the table implements AttemptLedger.  Then, of behaviours without   *)
(* lapses and without cancellations of a run under execution: whoever      *)
(* executes owns.  Last, deployments in which these conditions hold.       *)
(***************************************************************************)
EXTENDS RunQueue, TLAPS, WellFoundedInduction, FiniteSetTheorems

-------------------------------------------------------------------------------
(* Extremal elements: the ORDER BY ... LIMIT 1 of the queries *)

LEMMA LeastNatural ==
  ASSUME NEW S \in SUBSET Nat, S # {}
  PROVE  \E x \in S : \A y \in S : x <= y
<1>1. PICK x \in S : \A y \in S : ~(<<y, x>> \in OpToRel(<, Nat))
  BY NatLessThanWellFounded, WFMin
<1>2. \A y \in S : ~(y < x)
  BY <1>1 DEF OpToRel
<1> QED
  BY <1>2

LEMMA LeastImage ==
  ASSUME NEW S, S # {}, NEW f \in [S -> Nat]
  PROVE  \E x \in S : \A y \in S : f[x] <= f[y]
<1> DEFINE T == {f[x] : x \in S}
<1>1. T \in SUBSET Nat /\ T # {}
  OBVIOUS
<1>2. PICK n \in T : \A m \in T : n <= m
  BY <1>1, LeastNatural
<1> QED
  BY <1>2

LEMMA GreatestBounded ==
  ASSUME NEW S \in SUBSET Nat, S # {}, NEW n \in Nat, \A x \in S : x <= n
  PROVE  \E x \in S : \A y \in S : y <= x
<1> DEFINE f == [x \in S |-> n - x]
<1>1. f \in [S -> Nat]
  OBVIOUS
<1>2. PICK x \in S : \A y \in S : f[x] <= f[y]
  <2> HIDE DEF f
  <2> QED BY <1>1, LeastImage
<1>3. \A y \in S : n - x <= n - y
  BY <1>2
<1> QED
  BY <1>3

\* A nonempty selection has an oldest row, by either order.
LEMMA OldestIsMember ==
  ASSUME TypeOK, NEW S \in SUBSET JobIds, S # {}
  PROVE  OldestCreated(S) \in S /\ OldestClaimed(S) \in S
<1>1. S \subseteq Nat
  BY BoundsAssumption DEF JobIds
<1>2. \E j \in S : \A k \in S : j <= k
  BY <1>1, LeastNatural
<1>3. \E j \in S : \A k \in S : jobs[j].token <= jobs[k].token
  <2> DEFINE f == [j \in S |-> jobs[j].token]
  <2>1. f \in [S -> Nat]
    BY DEF TypeOK, Job
  <2>2. PICK j \in S : \A k \in S : f[j] <= f[k]
    <3> HIDE DEF f
    <3> QED BY <2>1, LeastImage
  <2> QED
    BY <2>2
<1> QED
  BY <1>2, <1>3 DEF OldestCreated, OldestClaimed

-------------------------------------------------------------------------------
(* The inductive invariant *)

\* Rows are inserted from 1 on, belong to a run, and an attempt number never
\* exceeds the number of rows there were.
Rows ==
  \A j \in JobIds :
    /\ j > njobs => jobs[j].status = "absent"
    /\ jobs[j].status # "absent" => jobs[j].run \in Runs
    /\ jobs[j].attempt <= j

\* A process that is past its first read has a run, and a worker past its claim
\* a row.
Busy ==
  \A p \in Procs : proc[p].pc \notin {"idle", "polled"} => proc[p].run \in Runs

\* Tokens in rows and in processes have been handed out, to one row and to one
\* worker each; running rows are the rows with a token.
Tokens ==
  /\ \A j \in JobIds : /\ jobs[j].token <= claims
                       /\ (jobs[j].status = "running") <=> (jobs[j].token # NoToken)
  /\ \A i, j \in JobIds : jobs[i].token = jobs[j].token /\ i # j
                            => jobs[i].token = NoToken
  /\ \A p \in Procs : proc[p].token <= claims
  /\ \A p, q \in Procs : proc[p].token = proc[q].token /\ p # q
                            => proc[p].token = NoToken

\* A worker with an attempt in hand, and the row it has: it exists, and it is a
\* row of the worker's run.
Engaged(w) == proc[w].pc \in {"claimed", "loaded", "executing", "ended"}
Carries ==
  \A w \in Workers : Engaged(w) => /\ proc[w].job \in JobIds
                                   /\ jobs[proc[w].job].status # "absent"
                                   /\ jobs[proc[w].job].run = proc[w].run

IInv == TypeOK /\ Rows /\ Busy /\ Tokens /\ Carries

\* The number of the next attempt is at most the id of the row it is put in.
LEMMA LatestAttemptBound ==
  ASSUME TypeOK, Rows, NEW r \in Runs
  PROVE  LatestAttempt(r) \in 0..njobs
<1> DEFINE A == {jobs[j].attempt : j \in JobsOf(r)}
<1>1. A \in SUBSET Nat /\ \A a \in A : a <= njobs
  BY BoundsAssumption, SMTT(20) DEF JobsOf, TypeOK, Job, Rows, JobIds
<1>2. njobs \in Nat
  BY BoundsAssumption DEF TypeOK
<1>3. CASE A = {}
  BY <1>3, <1>2 DEF LatestAttempt
<1>4. CASE A # {}
  <2>1. PICK a \in A : \A b \in A : b <= a
    <3> HIDE DEF A
    <3> QED BY <1>1, <1>2, <1>4, GreatestBounded
  <2>2. LatestAttempt(r) \in A
    BY <2>1, <1>4 DEF LatestAttempt
  <2> QED
    BY <2>2, <1>1, <1>2
<1> QED
  BY <1>3, <1>4

-------------------------------------------------------------------------------
(* What a step does to the rows and to the tokens *)

ClaimsRow == \E j \in JobIds :
  /\ Stale(j) \/ j \in Claimable
  /\ jobs' = WithClaim(j)
  /\ claims' = claims + 1
  /\ njobs' = njobs

SetsLease == \E j \in JobIds, lease \in {"live", "expired"} :
  /\ jobs[j].status = "running"
  /\ jobs' = [jobs EXCEPT ![j].lease = lease]
  /\ UNCHANGED <<njobs, claims>>

\* Rows of one run.
ClosesRows == \E r \in Runs, S \in SUBSET JobIds, status \in ClosedStatus :
  /\ \A j \in S : jobs[j].status \in OpenStatus /\ jobs[j].run = r
  /\ jobs' = WithClosed(S, status)
  /\ UNCHANGED <<njobs, claims>>

\* A run is queued with a row added: its first, or the one a retry asked for.
Inserts(r, attempt) ==
  /\ Insert(jobs, r, attempt)
  /\ SetRun(r, "queued")
  /\ UNCHANGED claims
  /\ \/ runStatus[r] = "absent" /\ attempt = 1 /\ UNCHANGED proc
     \/ \E c \in Clients : /\ proc[c].pc = "retry_checked" /\ proc[c].run = r
                           /\ attempt = LatestAttempt(r) + 1 /\ Return(c)

InsertsRow == \E r \in Runs, attempt \in 1..(njobs + 1) : Inserts(r, attempt)

\* A run is queued again with a running row of it replaced by the next, as long
\* as it has attempts left.
Replaces(j) ==
  /\ jobs[j].status = "running" /\ jobs[j].attempt < MaxAttempts
  /\ Insert(WithClosed({j}, "failed"), jobs[j].run, jobs[j].attempt + 1)
  /\ SetRun(jobs[j].run, "queued")
  /\ UNCHANGED claims

ReplacesRow == \E j \in JobIds : Replaces(j)

RowStep == \/ UNCHANGED <<jobs, njobs, claims>>
           \/ ClaimsRow \/ SetsLease \/ ClosesRows \/ InsertsRow \/ ReplacesRow

TokenStep ==
  \/ /\ claims' = claims
     /\ \A p \in Procs : proc'[p].token \in {proc[p].token, NoToken}
  \/ /\ claims' = claims + 1
     /\ \E w \in Procs : /\ proc'[w].token = claims + 1
                         /\ \A p \in Procs \ {w} : proc'[p].token = proc[p].token

\* The process a transition writes to is one of the processes.
LEMMA ProcsFacts ==
  ASSUME TypeOK
  PROVE  /\ Workers \subseteq Procs /\ Clients \subseteq Procs
         /\ proc \in [Procs -> Proc]
BY DEF Procs, TypeOK

LEMMA RowStepOfPoll ==
  ASSUME IInv, NEW w \in Workers, Poll(w)
  PROVE  RowStep /\ TokenStep
<1> USE DEF IInv
<1>1. CASE BeginEmptyPoll(w)
  BY <1>1, ProcsFacts DEF BeginEmptyPoll, RowStep, TokenStep, store, Proc
<1>2. CASE EndEmptyPoll(w)
  BY <1>2, ProcsFacts DEF EndEmptyPoll, Return, Idle, RowStep, TokenStep, store, Proc
<1>3. CASE TidyOrphan(w)
  <2> DEFINE j == OldestCreated(Orphans)
  <2>1. j \in Orphans
    BY <1>3, OldestIsMember DEF TidyOrphan, TidiesOrphan, Visible, Orphans
  <2>2. ClosesRows
    <3>1. /\ {j} \in SUBSET JobIds /\ jobs[j].run \in Runs
          /\ \A i \in {j} : jobs[i].status \in OpenStatus /\ jobs[i].run = jobs[j].run
      BY <2>1 DEF Orphans, OpenStatus, Rows
    <3>2. jobs' = WithClosed({j}, "cancelled") /\ UNCHANGED <<njobs, claims>>
      BY <1>3 DEF TidyOrphan
    <3> HIDE DEF j
    <3> QED
      BY <3>1, <3>2 DEF ClosesRows, ClosedStatus
  <2> QED
    BY <1>3, <2>2 DEF TidyOrphan, RowStep, TokenStep
<1>4. CASE RescheduleRunning(w)
  <2> DEFINE j == OldestClaimed(StaleRunning)
             r == jobs[j].run
  <2>1. j \in StaleRunning
    BY <1>4, OldestIsMember DEF RescheduleRunning, TidiesRunning, Visible, StaleRunning
  <2>2. j \in JobIds /\ jobs[j].status = "running" /\ r \in Runs
    BY <2>1 DEF StaleRunning, Stale, Rows
  <2>3. ClosesRows \/ ReplacesRow
    <3> HIDE DEF j
    <3>1. /\ {j} \in SUBSET JobIds
          /\ \A i \in {j} : jobs[i].status \in OpenStatus /\ jobs[i].run = jobs[j].run
      BY <2>2 DEF OpenStatus
    <3>2. CASE jobs' = WithClosed({j}, "failed") /\ UNCHANGED <<njobs, claims>>
      BY <2>2, <3>1, <3>2 DEF ClosesRows, ClosedStatus
    <3>3. CASE /\ jobs[j].attempt < MaxAttempts
               /\ Insert(WithClosed({j}, "failed"), r, jobs[j].attempt + 1)
               /\ SetRun(r, "queued") /\ UNCHANGED claims
      BY <2>2, <3>3 DEF ReplacesRow, Replaces
    <3> QED
      BY <1>4, <3>2, <3>3 DEF RescheduleRunning, j
  <2> QED
    BY <1>4, <2>3 DEF RescheduleRunning, RowStep, TokenStep
<1>5. ASSUME NEW j \in JobIds, Claim(w, j), Stale(j) \/ j \in Claimable
      PROVE  RowStep /\ TokenStep
  <2>1. ClaimsRow
    BY <1>5 DEF Claim, ClaimsRow
  <2>2. proc'[w].token = claims + 1 /\ \A p \in Procs \ {w} : proc'[p] = proc[p]
    BY <1>5, ProcsFacts DEF Claim, Idle
  <2> QED
    BY <1>5, <2>1, <2>2, ProcsFacts DEF Claim, RowStep, TokenStep
<1>6. CASE ReclaimQueued(w)
  <2>1. OldestClaimed(Visible(StaleQueued)) \in StaleQueued
    BY <1>6, OldestIsMember DEF ReclaimQueued, Visible, StaleQueued
  <2> QED
    BY <1>5, <1>6, <2>1 DEF ReclaimQueued, StaleQueued
<1>7. CASE ClaimPending(w)
  <2>1. OldestCreated(Visible(Claimable)) \in Claimable
    BY <1>7, OldestIsMember DEF ClaimPending, Visible, Claimable
  <2> QED
    BY <1>5, <1>7, <2>1 DEF ClaimPending, Claimable
<1> QED
  BY <1>1, <1>2, <1>3, <1>4, <1>6, <1>7 DEF Poll

\* An engine, in a worker or in a request, leaves the job table alone.
LEMMA RowStepOfEngine ==
  ASSUME IInv, NEW p \in Procs, Engine(p)
  PROVE  RowStep /\ TokenStep
<1>1. UNCHANGED <<jobs, njobs, claims>>
  BY DEF Engine, StartFails, EdgarStart, AgenticStart, MarkRunning, AbortLeaseLost,
         AbortCancelled, EngineFails, EdgarComplete, AgenticComplete, CommitResult,
         PersistFails, store
<1>2. \A q \in Procs : proc'[q].token \in {proc[q].token, NoToken}
  <2>1. ASSUME NEW exc, EngineEnds(p, exc)
        PROVE  \A q \in Procs : proc'[q].token \in {proc[q].token, NoToken}
    BY <2>1, ProcsFacts DEF EngineEnds, Return, Idle, IInv, Proc
  <2>2. CASE Goto(p, "executing")
    BY <2>2, ProcsFacts DEF Goto, IInv, Proc
  <2>3. \/ Goto(p, "executing") \/ \E exc \in Exceptions : EngineEnds(p, exc)
    BY DEF Engine, StartFails, EdgarStart, AgenticStart, MarkRunning, AbortLeaseLost,
           AbortCancelled, EngineFails, FailRun, EdgarComplete, AgenticComplete,
           CommitResult, PersistFails, Exceptions
  <2> QED
    BY <2>1, <2>2, <2>3
<1> QED
  BY <1>1, <1>2 DEF RowStep, TokenStep

\* Finalization touches a row the worker owns, and gives the token up.
LEMMA RowStepOfFinalize ==
  ASSUME IInv, NEW w \in Workers, Finalize(w)
  PROVE  RowStep /\ TokenStep
<1>1. w \in Procs /\ proc \in [Procs -> Proc]
  BY ProcsFacts DEF IInv
<1>2. claims' = claims /\ Return(w)
  BY DEF Finalize, FinalizeLost, FinalizeCompleted, FinalizeCancelled,
         FinalizeNeverStarted, FinalizeRequeue, FinalizeFailed, CloseAttempt, store
<1>3. TokenStep
  BY <1>1, <1>2 DEF TokenStep, Return, Idle, Proc
<1>4. CASE FinalizeLost(w)
  BY <1>3, <1>4 DEF FinalizeLost, RowStep, store
<1>5. Finalizing(w) => /\ proc[w].job \in JobIds
                       /\ jobs[proc[w].job].status = "running"
                       /\ jobs[proc[w].job].run \in Runs
                       /\ jobs[proc[w].job].run = proc[w].run
  BY <1>1 DEF Finalizing, Owns, OwnedBy, Proc, IInv, Rows, Carries, Engaged
<1>6. ASSUME NEW status \in ClosedStatus, Finalizing(w), CloseAttempt(w, status)
      PROVE  RowStep
  <2> DEFINE j == proc[w].job
  <2>1. /\ {j} \in SUBSET JobIds /\ jobs[j].run \in Runs
        /\ \A i \in {j} : jobs[i].status \in OpenStatus /\ jobs[i].run = jobs[j].run
    BY <1>5, <1>6 DEF OpenStatus
  <2>2. jobs' = WithClosed({j}, status) /\ UNCHANGED <<njobs, claims>>
    BY <1>6 DEF CloseAttempt
  <2> HIDE DEF j
  <2> QED
    BY <2>1, <2>2 DEF RowStep, ClosesRows
<1>7. CASE FinalizeRequeue(w)
  <2>1. Finalizing(w)
    BY <1>7 DEF FinalizeRequeue, Raised, Failed
  <2>2. ReplacesRow
    BY <1>2, <1>5, <1>7, <2>1 DEF FinalizeRequeue, ReplacesRow, Replaces, Retriable
  <2> QED
    BY <1>3, <2>2 DEF RowStep
<1>8. CASE \/ FinalizeCompleted(w) \/ FinalizeCancelled(w)
           \/ FinalizeNeverStarted(w) \/ FinalizeFailed(w)
  <2>1. Finalizing(w) /\ \E status \in ClosedStatus : CloseAttempt(w, status)
    BY <1>8 DEF FinalizeCompleted, FinalizeCancelled, FinalizeNeverStarted,
                FinalizeFailed, Raised, Failed, ClosedStatus
  <2> QED
    BY <1>3, <1>6, <2>1
<1> QED
  BY <1>4, <1>7, <1>8 DEF Finalize

LEMMA RowStepOfRequest ==
  ASSUME IInv, NEW c \in Clients, Request(c)
  PROVE  RowStep /\ TokenStep
<1>1. c \in Procs /\ proc \in [Procs -> Proc]
  BY ProcsFacts DEF IInv
<1>2. ASSUME NEW r \in Runs, CancelRead(c, r) \/ RetryRead(c, r) \/ ExecuteRead(c, r)
      PROVE  RowStep /\ TokenStep
  <2>1. UNCHANGED <<jobs, njobs, claims>>
    BY <1>2 DEF CancelRead, RetryRead, ExecuteRead, store
  <2>2. \A p \in Procs : proc'[p].token \in {proc[p].token, NoToken}
    <3>1. CASE CancelRead(c, r)
      BY <1>1, <3>1 DEF CancelRead, Idle
    <3>2. CASE RetryRead(c, r)
      BY <1>1, <3>2 DEF RetryRead, Idle
    <3>3. CASE ExecuteRead(c, r)
      BY <1>1, <3>3 DEF ExecuteRead, Idle
    <3> QED
      BY <1>2, <3>1, <3>2, <3>3
  <2> QED
    BY <2>1, <2>2 DEF RowStep, TokenStep
<1>3. CASE CancelSend(c) \/ RetryCheck(c)
  BY <1>1, <1>3 DEF CancelSend, RetryCheck, Goto, Return, Idle, store, RowStep, TokenStep, Proc
<1>4. CASE CancelCommit(c)
  <2> DEFINE S == proc[c].snap \cap OpenJobs(proc[c].run)
  <2>1. /\ S \in SUBSET JobIds /\ proc[c].run \in Runs
        /\ \A j \in S : jobs[j].status \in OpenStatus /\ jobs[j].run = proc[c].run
    BY <1>1, <1>4 DEF OpenJobs, JobsOf, CancelCommit, IInv, Busy
  <2>2. jobs' = WithClosed(S, "cancelled") /\ UNCHANGED <<njobs, claims>>
    BY <1>4 DEF CancelCommit
  <2>3. ClosesRows
    <3> HIDE DEF S
    <3> QED BY <2>1, <2>2 DEF ClosesRows, ClosedStatus
  <2>4. TokenStep
    BY <1>1, <1>4 DEF CancelCommit, Return, Idle, TokenStep, Proc
  <2> QED
    BY <2>3, <2>4 DEF RowStep
<1>5. CASE RetryCommit(c)
  <2>1. proc[c].run \in Runs
    BY <1>1, <1>5 DEF RetryCommit, IInv, Busy
  <2>2. LatestAttempt(proc[c].run) + 1 \in 1..(njobs + 1)
    BY <2>1, LatestAttemptBound, BoundsAssumption DEF IInv, TypeOK
  <2>3. InsertsRow
    BY <1>5, <2>1, <2>2 DEF RetryCommit, InsertsRow, Inserts
  <2>4. TokenStep
    BY <1>1, <1>5 DEF RetryCommit, Return, Idle, TokenStep, Proc
  <2> QED
    BY <2>3, <2>4 DEF RowStep
<1>6. CASE Engine(c)
  BY <1>1, <1>6, RowStepOfEngine
<1> QED
  BY <1>2, <1>3, <1>4, <1>5, <1>6 DEF Request

LEMMA RowStepOfNext ==
  ASSUME IInv, [Next]_vars
  PROVE  RowStep /\ TokenStep
<1>0. proc \in [Procs -> Proc] /\ Workers \subseteq Procs
  BY ProcsFacts DEF IInv
<1>1. CASE UNCHANGED vars
  BY <1>1 DEF vars, store, RowStep, TokenStep
<1>2. ASSUME NEW r \in Runs, CreatePending(r)
      PROVE  RowStep /\ TokenStep
  BY <1>2 DEF CreatePending, RowStep, TokenStep
<1>3. ASSUME NEW r \in Runs, CreateQueued(r)
      PROVE  RowStep /\ TokenStep
  <2>1. 1 \in 1..(njobs + 1)
    BY BoundsAssumption DEF IInv, TypeOK
  <2>2. InsertsRow
    BY <1>3, <2>1 DEF CreateQueued, InsertsRow, Inserts
  <2> QED
    BY <1>3, <2>2 DEF CreateQueued, RowStep, TokenStep
<1>4. ASSUME NEW w \in Workers, WorkerStep(w)
      PROVE  RowStep /\ TokenStep
  <2>1. CASE LoadRun(w)
    BY <1>0, <2>1 DEF LoadRun, store, RowStep, TokenStep, Proc
  <2> QED
    BY <1>0, <1>4, <2>1, RowStepOfPoll, RowStepOfEngine, RowStepOfFinalize DEF WorkerStep
<1>5. ASSUME NEW w \in Workers, RenewLease(w)
      PROVE  RowStep /\ TokenStep
  <2>1. proc[w].job \in JobIds /\ jobs[proc[w].job].status = "running"
    BY <1>0, <1>5 DEF RenewLease, Owns, OwnedBy, Proc
  <2>2. SetsLease
    BY <1>5, <2>1 DEF RenewLease, SetsLease
  <2> QED
    BY <1>5, <2>2 DEF RenewLease, RowStep, TokenStep
<1>6. ASSUME NEW w \in Workers, LoseLease(w)
      PROVE  RowStep /\ TokenStep
  BY <1>0, <1>6 DEF LoseLease, store, RowStep, TokenStep, Proc
<1>7. ASSUME NEW p \in Procs, Crash(p)
      PROVE  RowStep /\ TokenStep
  BY <1>0, <1>7 DEF Crash, Return, Idle, store, RowStep, TokenStep, Proc
<1>8. ASSUME NEW j \in JobIds, LeaseRunsOut(j) \/ LeaseLapses(j)
      PROVE  RowStep /\ TokenStep
  <2>1. SetsLease
    BY <1>8 DEF LeaseRunsOut, LeaseLapses, ExpireLease, SetsLease
  <2> QED
    BY <1>8, <2>1 DEF LeaseRunsOut, LeaseLapses, RowStep, TokenStep
<1> QED
  BY <1>1, <1>2, <1>3, <1>4, <1>5, <1>6, <1>7, <1>8, RowStepOfRequest DEF Next

-------------------------------------------------------------------------------
(* The invariant is inductive: rows and tokens *)

\* What the six do, row by row.
LEMMA ClaimedRow ==
  ASSUME TypeOK, NEW j \in JobIds, jobs' = WithClaim(j)
  PROVE  /\ \A i \in JobIds \ {j} : jobs'[i] = jobs[i]
         /\ jobs'[j].status = "running" /\ jobs'[j].lease = "live"
         /\ jobs'[j].token = claims + 1
         /\ jobs'[j].run = jobs[j].run /\ jobs'[j].attempt = jobs[j].attempt
BY DEF WithClaim, TypeOK, Job

LEMMA LeasedRow ==
  ASSUME TypeOK, NEW j \in JobIds, NEW lease, jobs' = [jobs EXCEPT ![j].lease = lease]
  PROVE  /\ \A i \in JobIds \ {j} : jobs'[i] = jobs[i]
         /\ jobs'[j].status = jobs[j].status /\ jobs'[j].lease = lease
         /\ jobs'[j].token = jobs[j].token
         /\ jobs'[j].run = jobs[j].run /\ jobs'[j].attempt = jobs[j].attempt
BY DEF TypeOK, Job

LEMMA ClosedRow ==
  ASSUME TypeOK, NEW S \in SUBSET JobIds, NEW status \in ClosedStatus
  PROVE  /\ WithClosed(S, status) \in [JobIds -> Job]
         /\ \A j \in JobIds \ S : WithClosed(S, status)[j] = jobs[j]
         /\ \A j \in S : /\ WithClosed(S, status)[j].status = status
                         /\ WithClosed(S, status)[j].token = NoToken
                         /\ WithClosed(S, status)[j].run = jobs[j].run
                         /\ WithClosed(S, status)[j].attempt = jobs[j].attempt
BY DEF WithClosed, TypeOK, Job, NoToken

LEMMA PendingRow ==
  ASSUME TypeOK, NEW js \in [JobIds -> Job], NEW r \in Runs,
         NEW attempt \in Nat, Insert(js, r, attempt)
  PROVE  /\ jobs' \in [JobIds -> Job]
         /\ njobs' \in 0..MaxJobs /\ njobs' = njobs + 1 /\ njobs + 1 \in JobIds
         /\ \A j \in JobIds \ {njobs + 1} : jobs'[j] = js[j]
         /\ jobs'[njobs + 1].status = "pending"
         /\ jobs'[njobs + 1].token = NoToken
         /\ jobs'[njobs + 1].run = r
         /\ jobs'[njobs + 1].attempt = attempt
<1>1. njobs + 1 \in JobIds /\ njobs + 1 \in 0..MaxJobs
  BY BoundsAssumption DEF Insert, RoomForJob, TypeOK, JobIds
<1>2. [status |-> "pending", run |-> r, attempt |-> attempt,
       token |-> NoToken, lease |-> "none"] \in Job
  BY DEF Job, OpenStatus, NoToken
<1> QED
  BY <1>1, <1>2 DEF Insert, WithPending

LEMMA ReplacedRow ==
  ASSUME TypeOK, Rows, NEW j \in JobIds, Replaces(j)
  PROVE  /\ jobs' \in [JobIds -> Job]
         /\ njobs' = njobs + 1 /\ njobs' \in 0..MaxJobs
         /\ njobs + 1 \in JobIds /\ j # njobs + 1
         /\ \A i \in JobIds \ {j, njobs + 1} : jobs'[i] = jobs[i]
         /\ jobs'[j].status = "failed" /\ jobs'[j].token = NoToken
         /\ jobs'[j].run = jobs[j].run /\ jobs'[j].attempt = jobs[j].attempt
         /\ jobs'[njobs + 1].status = "pending"
         /\ jobs'[njobs + 1].token = NoToken
         /\ jobs'[njobs + 1].run = jobs[j].run
         /\ jobs'[njobs + 1].attempt = jobs[j].attempt + 1
<1> DEFINE js == WithClosed({j}, "failed")
<1>1. /\ js \in [JobIds -> Job] /\ js[j].status = "failed" /\ js[j].token = NoToken
      /\ js[j].run = jobs[j].run /\ js[j].attempt = jobs[j].attempt
      /\ \A i \in JobIds \ {j} : js[i] = jobs[i]
  BY ClosedRow DEF ClosedStatus
<1>2. /\ jobs[j].run \in Runs /\ jobs[j].attempt + 1 \in Nat
      /\ j \in Nat /\ njobs \in Nat /\ j <= njobs
  BY BoundsAssumption DEF Replaces, Rows, TypeOK, Job, JobIds
<1>3. Insert(js, jobs[j].run, jobs[j].attempt + 1) /\ j # njobs + 1
  BY <1>2 DEF Replaces
<1> HIDE DEF js
<1> QED
  BY <1>1, <1>2, <1>3, PendingRow

LEMMA RowsPreserved ==
  ASSUME IInv, RowStep
  PROVE  /\ jobs' \in [JobIds -> Job] /\ njobs' \in 0..MaxJobs /\ claims' \in Nat
         /\ Rows'
<1> USE DEF IInv
<1>0. /\ jobs \in [JobIds -> Job] /\ njobs \in 0..MaxJobs /\ claims \in Nat
      /\ JobIds \subseteq Nat \ {0} /\ njobs \in Nat
  BY BoundsAssumption DEF TypeOK, JobIds
<1>1. CASE UNCHANGED <<jobs, njobs, claims>>
  BY <1>0, <1>1 DEF Rows
<1>2. CASE ClaimsRow
  <2>1. PICK j \in JobIds : /\ jobs[j].status # "absent"
                            /\ jobs' = WithClaim(j)
                            /\ claims' = claims + 1 /\ njobs' = njobs
    BY <1>2 DEF ClaimsRow, Stale, Claimable
  <2>2. jobs' \in [JobIds -> Job]
    <3>1. [jobs[j] EXCEPT !.status = "running", !.token = claims + 1,
                          !.lease = "live"] \in Job
      <4>1. jobs[j] \in Job /\ claims + 1 \in Nat
        BY <1>0
      <4> QED
        BY <4>1 DEF Job, OpenStatus
    <3> QED
      BY <1>0, <2>1, <3>1 DEF WithClaim
  <2>3. \A i \in JobIds : /\ jobs'[i].attempt = jobs[i].attempt
                          /\ jobs'[i].run = jobs[i].run
                          /\ jobs'[i].status # jobs[i].status => i = j
    BY <1>0, <2>1 DEF WithClaim, Job
  <2> QED
    BY <1>0, <2>1, <2>2, <2>3 DEF Rows
<1>3. CASE SetsLease
  <2>1. PICK j \in JobIds, lease \in {"live", "expired"} :
          jobs' = [jobs EXCEPT ![j].lease = lease] /\ UNCHANGED <<njobs, claims>>
    BY <1>3 DEF SetsLease
  <2>2. jobs' \in [JobIds -> Job]
    BY <1>0, <2>1 DEF Job
  <2>3. \A i \in JobIds : /\ jobs'[i].attempt = jobs[i].attempt
                          /\ jobs'[i].run = jobs[i].run
                          /\ jobs'[i].status = jobs[i].status
    BY <1>0, <2>1 DEF Job
  <2> QED
    BY <1>0, <2>1, <2>2, <2>3 DEF Rows
<1>4. CASE ClosesRows
  <2>1. PICK S \in SUBSET JobIds, status \in ClosedStatus :
          /\ \A j \in S : jobs[j].status \in OpenStatus
          /\ jobs' = WithClosed(S, status)
          /\ UNCHANGED <<njobs, claims>>
    BY <1>4 DEF ClosesRows
  <2>2. \A j \in S : jobs[j].status # "absent"
    BY <2>1 DEF OpenStatus
  <2> QED
    BY <1>0, <2>1, <2>2, ClosedRow DEF Rows
<1>5. CASE InsertsRow
  <2>1. PICK r \in Runs, attempt \in 1..(njobs + 1) :
          Insert(jobs, r, attempt) /\ UNCHANGED claims
    BY <1>5 DEF InsertsRow, Inserts
  <2>2. attempt \in Nat /\ attempt <= njobs + 1
    BY <1>0
  <2> QED
    BY <1>0, <2>1, <2>2, PendingRow DEF Rows
<1>6. CASE ReplacesRow
  <2>1. PICK j \in JobIds : Replaces(j)
    BY <1>6 DEF ReplacesRow
  <2>2. /\ jobs[j].attempt \in Nat /\ jobs[j].attempt <= j /\ j <= njobs
        /\ jobs[j].run \in Runs /\ claims' = claims
    BY <1>0, <2>1 DEF Rows, Job, Replaces
  <2>3. Rows'
    <3> SUFFICES ASSUME NEW i \in JobIds
                 PROVE  /\ i > njobs' => jobs'[i].status = "absent"
                        /\ jobs'[i].status # "absent" => jobs'[i].run \in Runs
                        /\ jobs'[i].attempt <= i
      BY DEF Rows
    <3>1. CASE i = njobs + 1
      BY <1>0, <2>1, <2>2, <3>1, ReplacedRow
    <3>2. CASE i = j
      BY <1>0, <2>1, <2>2, <3>2, ReplacedRow
    <3>3. CASE i \notin {j, njobs + 1}
      <4>1. jobs'[i] = jobs[i] /\ njobs' = njobs + 1
        BY <2>1, <3>3, ReplacedRow
      <4>2. i > njobs' => i > njobs
        BY <1>0, <4>1
      <4> QED
        BY <4>1, <4>2 DEF Rows
    <3> QED
      BY <3>1, <3>2, <3>3
  <2> QED
    BY <1>0, <2>1, <2>2, <2>3, ReplacedRow
<1> QED
  BY <1>1, <1>2, <1>3, <1>4, <1>5, <1>6 DEF RowStep

LEMMA TokensPreserved ==
  ASSUME IInv, RowStep, TokenStep
  PROVE  Tokens'
<1> USE DEF IInv
<1>0. /\ jobs \in [JobIds -> Job] /\ claims \in Nat
      /\ \A p \in Procs : proc[p].token \in Nat
  BY DEF TypeOK, Proc
<1>1. CASE ClaimsRow
  <2>1. PICK j \in JobIds : jobs' = WithClaim(j) /\ claims' = claims + 1
    BY <1>1 DEF ClaimsRow
  <2>2. /\ jobs'[j].status = "running" /\ jobs'[j].token = claims + 1
        /\ \A i \in JobIds \ {j} : jobs'[i] = jobs[i]
    BY <1>0, <2>1 DEF WithClaim
  <2>3. \A i \in JobIds : jobs[i].token \in Nat
    BY <1>0 DEF Job
  <2>4. \E w \in Procs : /\ proc'[w].token = claims + 1
                         /\ \A p \in Procs \ {w} : proc'[p].token = proc[p].token
    BY <1>0, <2>1 DEF TokenStep
  <2> QED
    BY <1>0, <2>1, <2>2, <2>3, <2>4 DEF Tokens, NoToken
<1>2. CASE ~ClaimsRow
  <2>1. claims' = claims
    BY <1>2 DEF RowStep, SetsLease, ClosesRows, InsertsRow, Inserts, ReplacesRow, Replaces, Rows
  <2>2. /\ \A p \in Procs : proc'[p].token <= claims'
        /\ \A p, q \in Procs : proc'[p].token = proc'[q].token /\ p # q
                                => proc'[p].token = NoToken
    BY <1>0, <2>1 DEF TokenStep, Tokens, NoToken
  <2>3. \A i \in JobIds :
          \/ jobs'[i].token = jobs[i].token /\ jobs'[i].status = jobs[i].status
          \/ jobs'[i].token = NoToken /\ jobs'[i].status # "running"
    <3>1. CASE UNCHANGED <<jobs, njobs, claims>>
      BY <3>1
    <3>2. CASE SetsLease
      BY <1>0, <3>2 DEF SetsLease, Job
    <3>3. CASE ClosesRows
      BY <3>3, ClosedRow DEF ClosesRows, ClosedStatus
    <3>4. CASE InsertsRow
      <4>1. PICK r \in Runs, attempt \in Nat : Insert(jobs, r, attempt)
        BY <3>4, BoundsAssumption DEF InsertsRow, Inserts, TypeOK
      <4> QED
        BY <1>0, <4>1, PendingRow
    <3>5. CASE ReplacesRow
      <4>1. PICK j \in JobIds : Replaces(j)
        BY <3>5 DEF ReplacesRow
      <4> QED
        BY <4>1, ReplacedRow
    <3> QED
      BY <1>2, <3>1, <3>2, <3>3, <3>4, <3>5 DEF RowStep
  <2> QED
    BY <1>0, <2>1, <2>2, <2>3 DEF Tokens, NoToken, Job
<1> QED
  BY <1>1, <1>2

-------------------------------------------------------------------------------
(* The invariant is inductive: processes, runs and counters *)

LEMMA IdleTyped == Idle \in Proc /\ Idle.pc = "idle"
BY DEF Idle, Proc, NoToken, Exceptions

\* Processes stay well formed when one of them moves to a well-formed state.
ProcsFine == proc \in [Procs -> Proc] /\ Busy
Fine(s)   == s \in Proc /\ (s.pc \notin {"idle", "polled"} => s.run \in Runs)

LEMMA OneMoves ==
  ASSUME ProcsFine, NEW p \in Procs, NEW s, Fine(s), proc' = [proc EXCEPT ![p] = s]
  PROVE  ProcsFine'
<1>1. proc' \in [Procs -> Proc] /\ proc'[p] = s
      /\ \A q \in Procs \ {p} : proc'[q] = proc[q]
  BY DEF ProcsFine, Fine
<1> QED
  BY <1>1 DEF ProcsFine, Fine, Busy

LEMMA FineReturn ==
  ASSUME ProcsFine, NEW p \in Procs, Return(p)
  PROVE  ProcsFine'
BY IdleTyped, OneMoves DEF Return, Fine

LEMMA FineGoto ==
  ASSUME ProcsFine, NEW p \in Procs, NEW pc, Goto(p, pc), Fine([proc[p] EXCEPT !.pc = pc])
  PROVE  ProcsFine'
BY OneMoves DEF Goto

LEMMA FinePoll ==
  ASSUME IInv, NEW w \in Workers, Poll(w)
  PROVE  ProcsFine'
<1>0. ProcsFine /\ w \in Procs /\ TypeOK
  BY DEF ProcsFine, IInv, TypeOK, Procs
<1>1. CASE BeginEmptyPoll(w)
  <2>1. PICK j \in JobIds : proc' = [proc EXCEPT ![w].pc = "polled", ![w].job = j]
    <3>1. CASE TidiesOrphan
      <4>1. OldestCreated(Visible(Orphans)) \in JobIds
        BY <1>0, <3>1, OldestIsMember DEF TidiesOrphan, Visible, Orphans
      <4> QED
        BY <1>1, <3>1, <4>1 DEF BeginEmptyPoll, TidiesRunning
    <3>2. CASE ~TidiesOrphan
      <4>1. OldestClaimed(Visible(StaleRunning)) \in JobIds
        BY <1>0, <1>1, <3>2, OldestIsMember
           DEF BeginEmptyPoll, TidiesRunning, Visible, StaleRunning
      <4> QED
        BY <1>1, <3>2, <4>1 DEF BeginEmptyPoll
    <3> QED
      BY <3>1, <3>2
  <2> DEFINE s == [proc[w] EXCEPT !.pc = "polled", !.job = j]
  <2>2. Fine(s)
    BY <1>0 DEF Fine, Proc, ProcsFine
  <2>3. proc' = [proc EXCEPT ![w] = s]
    BY <2>1
  <2> HIDE DEF s
  <2> QED
    BY <1>0, <2>2, <2>3, OneMoves
<1>2. CASE EndEmptyPoll(w)
  BY <1>0, <1>2, FineReturn DEF EndEmptyPoll
<1>3. CASE TidyOrphan(w) \/ RescheduleRunning(w)
  BY <1>0, <1>3 DEF TidyOrphan, RescheduleRunning, ProcsFine, Busy
<1>4. ASSUME NEW j \in JobIds, Claim(w, j), jobs[j].status # "absent"
      PROVE  ProcsFine'
  <2> DEFINE s == [Idle EXCEPT !.pc = "claimed", !.job = j,
                               !.run = jobs[j].run, !.token = claims + 1]
  <2>1. jobs[j].run \in Runs /\ claims + 1 \in Nat
    BY <1>4 DEF IInv, Rows, TypeOK
  <2>2. Fine(s)
    BY <2>1, IdleTyped DEF Fine, Proc
  <2>3. proc' = [proc EXCEPT ![w] = s]
    BY <1>4 DEF Claim
  <2> HIDE DEF s
  <2> QED
    BY <1>0, <2>2, <2>3, OneMoves
<1>5. CASE ReclaimQueued(w)
  <2>1. OldestClaimed(Visible(StaleQueued)) \in StaleQueued
    BY <1>0, <1>5, OldestIsMember DEF ReclaimQueued, Visible, StaleQueued
  <2> QED
    BY <1>4, <1>5, <2>1 DEF ReclaimQueued, StaleQueued, Stale
<1>6. CASE ClaimPending(w)
  <2>1. OldestCreated(Visible(Claimable)) \in Claimable
    BY <1>0, <1>6, OldestIsMember DEF ClaimPending, Visible, Claimable
  <2> QED
    BY <1>4, <1>6, <2>1 DEF ClaimPending, Claimable
<1> QED
  BY <1>1, <1>2, <1>3, <1>5, <1>6 DEF Poll

LEMMA FineEngine ==
  ASSUME IInv, NEW p \in Procs, Engine(p)
  PROVE  ProcsFine'
<1>0. ProcsFine
  BY DEF ProcsFine, IInv, TypeOK
<1>1. proc[p].pc \in {"loaded", "executing"} /\ proc[p] \in Proc /\ proc[p].run \in Runs
  <2>1. proc[p].pc \in {"loaded", "executing"}
    BY DEF Engine, StartFails, EdgarStart, AgenticStart, MarkRunning, AbortLeaseLost,
           AbortCancelled, EngineFails, EdgarComplete, AgenticComplete, PersistFails
  <2> QED
    BY <1>0, <2>1 DEF ProcsFine, Busy
<1>2. \/ Goto(p, "executing") \/ \E exc \in Exceptions : EngineEnds(p, exc)
  BY DEF Engine, StartFails, EdgarStart, AgenticStart, MarkRunning, AbortLeaseLost,
         AbortCancelled, EngineFails, FailRun, EdgarComplete, AgenticComplete,
         CommitResult, PersistFails, Exceptions
<1>3. CASE Goto(p, "executing")
  <2>1. Fine([proc[p] EXCEPT !.pc = "executing"])
    BY <1>1 DEF Fine, Proc
  <2> QED
    BY <1>0, <1>3, <2>1, FineGoto
<1>4. ASSUME NEW exc \in Exceptions, EngineEnds(p, exc)
      PROVE  ProcsFine'
  <2>1. CASE p \in Workers
    <3> DEFINE s == [proc[p] EXCEPT !.pc = "ended", !.exc = exc]
    <3>1. Fine(s)
      BY <1>1 DEF Fine, Proc
    <3>2. proc' = [proc EXCEPT ![p] = s]
      BY <1>4, <2>1 DEF EngineEnds
    <3> HIDE DEF s
    <3> QED
      BY <1>0, <3>1, <3>2, OneMoves
  <2>2. CASE p \notin Workers
    BY <1>0, <1>4, <2>2, FineReturn DEF EngineEnds
  <2> QED
    BY <2>1, <2>2
<1> QED
  BY <1>2, <1>3, <1>4

LEMMA FineRequest ==
  ASSUME IInv, NEW c \in Clients, Request(c)
  PROVE  ProcsFine'
<1>0. ProcsFine /\ c \in Procs /\ proc[c] \in Proc
  BY DEF ProcsFine, IInv, TypeOK, Procs
<1>1. ASSUME NEW r \in Runs, NEW pc \in {"cancelling", "retrying", "loaded"},
             proc' = [proc EXCEPT ![c] = [Idle EXCEPT !.pc = pc, !.run = r,
                                                      !.seen = runStatus[r]]]
      PROVE  ProcsFine'
  <2> DEFINE s == [Idle EXCEPT !.pc = pc, !.run = r, !.seen = runStatus[r]]
  <2>1. runStatus[r] \in AnalysisRunStatus \cup {"absent"}
    BY DEF IInv, TypeOK
  <2>2. Fine(s)
    BY <2>1, IdleTyped DEF Fine, Proc
  <2> HIDE DEF s
  <2> QED
    BY <1>0, <1>1, <2>2, OneMoves DEF s
<1>2. ASSUME NEW r \in Runs, CancelRead(c, r) \/ RetryRead(c, r) \/ ExecuteRead(c, r)
      PROVE  ProcsFine'
  BY <1>1, <1>2 DEF CancelRead, RetryRead, ExecuteRead
<1>3. CASE CancelSend(c)
  <2> DEFINE snap == IF proc[c].seen = "pending" THEN {} ELSE OpenJobs(proc[c].run)
             s == [proc[c] EXCEPT !.pc = "cancel_sent", !.snap = snap]
  <2>1. snap \in SUBSET JobIds
    BY DEF OpenJobs, JobsOf
  <2>2. proc[c].run \in Runs
    BY <1>0, <1>3 DEF CancelSend, ProcsFine, Busy
  <2>3. proc' = [proc EXCEPT ![c] = s]
    BY <1>3 DEF CancelSend
  <2> HIDE DEF snap
  <2>4. Fine(s)
    BY <1>0, <2>1, <2>2 DEF Fine, Proc
  <2> HIDE DEF s
  <2> QED
    BY <1>0, <2>3, <2>4, OneMoves
<1>4. CASE RetryCheck(c)
  <2>1. Fine([proc[c] EXCEPT !.pc = "retry_checked"])
    BY <1>0, <1>4 DEF RetryCheck, Fine, Proc, ProcsFine, Busy
  <2> QED
    BY <1>0, <1>4, <2>1, FineGoto, FineReturn DEF RetryCheck
<1>5. CASE CancelCommit(c) \/ RetryCommit(c)
  BY <1>0, <1>5, FineReturn DEF CancelCommit, RetryCommit
<1> QED
  BY <1>0, <1>2, <1>3, <1>4, <1>5, FineEngine DEF Request

LEMMA FineNext ==
  ASSUME IInv, [Next]_vars
  PROVE  ProcsFine'
<1>0. ProcsFine /\ Workers \subseteq Procs
  BY DEF ProcsFine, IInv, TypeOK, Procs
<1>1. ASSUME UNCHANGED proc
      PROVE  ProcsFine'
  BY <1>0, <1>1 DEF ProcsFine, Busy
<1>2. CASE UNCHANGED vars
  BY <1>1, <1>2 DEF vars
<1>3. ASSUME NEW r \in Runs, CreatePending(r) \/ CreateQueued(r)
      PROVE  ProcsFine'
  BY <1>1, <1>3 DEF CreatePending, CreateQueued
<1>4. ASSUME NEW w \in Workers, WorkerStep(w)
      PROVE  ProcsFine'
  <2>1. CASE LoadRun(w)
    <3> DEFINE s == [proc[w] EXCEPT !.pc = "loaded", !.seen = runStatus[proc[w].run]]
    <3>1. proc[w].run \in Runs /\ proc[w] \in Proc
      BY <1>0, <2>1 DEF LoadRun, ProcsFine, Busy
    <3>2. runStatus[proc[w].run] \in AnalysisRunStatus \cup {"absent"}
      BY <3>1 DEF IInv, TypeOK
    <3>3. Fine(s)
      BY <3>1, <3>2 DEF Fine, Proc
    <3>4. proc' = [proc EXCEPT ![w] = s]
      BY <2>1 DEF LoadRun
    <3> HIDE DEF s
    <3> QED
      BY <1>0, <3>3, <3>4, OneMoves
  <2>2. CASE Finalize(w)
    <3>1. Return(w)
      BY <2>2 DEF Finalize, FinalizeLost, FinalizeCompleted, FinalizeCancelled,
             FinalizeNeverStarted, FinalizeRequeue, FinalizeFailed, CloseAttempt
    <3> QED
      BY <1>0, <3>1, FineReturn
  <2> QED
    BY <1>0, <1>4, <2>1, <2>2, FinePoll, FineEngine DEF WorkerStep
<1>5. ASSUME NEW w \in Workers, RenewLease(w)
      PROVE  ProcsFine'
  BY <1>1, <1>5 DEF RenewLease
<1>6. ASSUME NEW w \in Workers, LoseLease(w)
      PROVE  ProcsFine'
  <2> DEFINE s == [proc[w] EXCEPT !.lost = TRUE]
  <2>1. Fine(s)
    BY <1>0, <1>6 DEF LoseLease, Guarded, Fine, Proc, ProcsFine, Busy
  <2>2. proc' = [proc EXCEPT ![w] = s]
    BY <1>6 DEF LoseLease
  <2> HIDE DEF s
  <2> QED
    BY <1>0, <2>1, <2>2, OneMoves
<1>7. ASSUME NEW p \in Procs, Crash(p)
      PROVE  ProcsFine'
  BY <1>0, <1>7, FineReturn DEF Crash
<1>8. ASSUME NEW j \in JobIds, LeaseRunsOut(j) \/ LeaseLapses(j)
      PROVE  ProcsFine'
  BY <1>1, <1>8 DEF LeaseRunsOut, LeaseLapses
<1> QED
  BY <1>2, <1>3, <1>4, <1>5, <1>6, <1>7, <1>8, FineRequest DEF Next

LEMMA RunsTyped ==
  ASSUME IInv, [Next]_vars
  PROVE  runStatus' \in [Runs -> AnalysisRunStatus \cup {"absent"}]
<1>0. runStatus \in [Runs -> AnalysisRunStatus \cup {"absent"}]
  BY DEF IInv, TypeOK
<1>1. ASSUME UNCHANGED runStatus
      PROVE  runStatus' \in [Runs -> AnalysisRunStatus \cup {"absent"}]
  BY <1>0, <1>1
<1>2. ASSUME NEW r, NEW status \in AnalysisRunStatus, SetRun(r, status)
      PROVE  runStatus' \in [Runs -> AnalysisRunStatus \cup {"absent"}]
  BY <1>0, <1>2 DEF SetRun
<1>3. {"pending", "queued", "running", "success", "partial_success", "no_data",
       "error", "cancelled"} \subseteq AnalysisRunStatus
  BY DEF AnalysisRunStatus
<1>4. CASE UNCHANGED vars
  BY <1>1, <1>4 DEF vars, store
<1>5. ASSUME NEW r \in Runs, CreatePending(r) \/ CreateQueued(r)
      PROVE  runStatus' \in [Runs -> AnalysisRunStatus \cup {"absent"}]
  BY <1>2, <1>3, <1>5 DEF CreatePending, CreateQueued
<1>6. ASSUME NEW p \in Procs, Engine(p)
      PROVE  runStatus' \in [Runs -> AnalysisRunStatus \cup {"absent"}]
  <2>1. CASE EdgarStart(p) \/ AgenticStart(p)
    BY <1>2, <1>3, <2>1 DEF EdgarStart, AgenticStart, MarkRunning
  <2>2. CASE EngineFails(p)
    BY <1>1, <1>2, <1>3, <2>2 DEF EngineFails, FailRun
  <2>3. CASE EdgarComplete(p) \/ AgenticComplete(p)
    BY <1>2, <1>3, <2>3 DEF EdgarComplete, AgenticComplete, CommitResult
  <2>4. CASE StartFails(p) \/ AbortLeaseLost(p) \/ AbortCancelled(p) \/ PersistFails(p)
    BY <1>1, <2>4 DEF StartFails, AbortLeaseLost, AbortCancelled, PersistFails, store
  <2> QED
    BY <1>6, <2>1, <2>2, <2>3, <2>4 DEF Engine
<1>7. ASSUME NEW w \in Workers, Poll(w)
      PROVE  runStatus' \in [Runs -> AnalysisRunStatus \cup {"absent"}]
  <2>1. CASE RescheduleRunning(w)
    BY <1>2, <1>3, <2>1 DEF RescheduleRunning
  <2> QED
    BY <1>1, <1>7, <2>1 DEF Poll, BeginEmptyPoll, EndEmptyPoll, TidyOrphan,
       ReclaimQueued, ClaimPending, Claim, store
<1>8. ASSUME NEW w \in Workers, Finalize(w)
      PROVE  runStatus' \in [Runs -> AnalysisRunStatus \cup {"absent"}]
  <2>1. CASE FinalizeNeverStarted(w) \/ FinalizeRequeue(w)
    BY <1>2, <1>3, <2>1 DEF FinalizeNeverStarted, FinalizeRequeue
  <2> QED
    BY <1>1, <1>8, <2>1 DEF Finalize, FinalizeLost, FinalizeCompleted,
       FinalizeCancelled, FinalizeFailed, store
<1>9. ASSUME NEW w \in Workers, WorkerStep(w) \/ RenewLease(w) \/ LoseLease(w)
      PROVE  runStatus' \in [Runs -> AnalysisRunStatus \cup {"absent"}]
  BY <1>1, <1>6, <1>7, <1>8, <1>9 DEF WorkerStep, LoadRun, RenewLease, LoseLease, store, Procs
<1>10. ASSUME NEW c \in Clients, Request(c)
       PROVE  runStatus' \in [Runs -> AnalysisRunStatus \cup {"absent"}]
  <2>1. CASE CancelCommit(c) \/ RetryCommit(c)
    BY <1>2, <1>3, <2>1 DEF CancelCommit, RetryCommit
  <2> QED
    BY <1>1, <1>6, <1>10, <2>1 DEF Request, CancelRead, RetryRead, ExecuteRead,
       CancelSend, RetryCheck, store, Procs
<1>11. ASSUME NEW p \in Procs, Crash(p)
       PROVE  runStatus' \in [Runs -> AnalysisRunStatus \cup {"absent"}]
  BY <1>1, <1>11 DEF Crash, store
<1>12. ASSUME NEW j \in JobIds, LeaseRunsOut(j) \/ LeaseLapses(j)
       PROVE  runStatus' \in [Runs -> AnalysisRunStatus \cup {"absent"}]
  BY <1>1, <1>12 DEF LeaseRunsOut, LeaseLapses
<1> QED
  BY <1>4, <1>5, <1>9, <1>10, <1>11, <1>12 DEF Next

\* Only a crash and a lapse count as faults.
LEMMA FaultsCounted ==
  ASSUME IInv, [Next]_vars
  PROVE  crashes' \in 0..MaxCrashes /\ lapses' \in 0..MaxLapses
<1>0. crashes \in 0..MaxCrashes /\ lapses \in 0..MaxLapses
  BY DEF IInv, TypeOK
<1>1. ASSUME NEW p \in Procs, Crash(p)
      PROVE  crashes' \in 0..MaxCrashes /\ lapses' \in 0..MaxLapses
  BY <1>0, <1>1, ProcessAssumption DEF Crash
<1>2. ASSUME NEW j \in JobIds, LeaseLapses(j)
      PROVE  crashes' \in 0..MaxCrashes /\ lapses' \in 0..MaxLapses
  BY <1>0, <1>2, ProcessAssumption DEF LeaseLapses
<1>3. CASE NoFault
  BY <1>0, <1>3 DEF NoFault
<1>4. ASSUME NEW p, Engine(p)
      PROVE  NoFault
  BY <1>4 DEF Engine, StartFails, EdgarStart, AgenticStart, MarkRunning, AbortLeaseLost,
     AbortCancelled, EngineFails, EdgarComplete, AgenticComplete, CommitResult, PersistFails
<1>5. ASSUME NEW w, WorkerStep(w) \/ RenewLease(w) \/ LoseLease(w)
      PROVE  NoFault
  <2>1. CASE Poll(w)
    BY <2>1 DEF Poll, BeginEmptyPoll, EndEmptyPoll, TidyOrphan, RescheduleRunning,
       ReclaimQueued, ClaimPending, Claim
  <2>2. CASE Finalize(w)
    BY <2>2 DEF Finalize, FinalizeLost, FinalizeCompleted, FinalizeCancelled,
       FinalizeNeverStarted, FinalizeRequeue, FinalizeFailed, CloseAttempt
  <2> QED
    BY <1>4, <1>5, <2>1, <2>2 DEF WorkerStep, LoadRun, RenewLease, LoseLease
<1>6. ASSUME NEW c, Request(c)
      PROVE  NoFault
  BY <1>4, <1>6 DEF Request, CancelRead, RetryRead, ExecuteRead, CancelSend,
     CancelCommit, RetryCheck, RetryCommit
<1>7. CASE UNCHANGED vars
  BY <1>3, <1>7 DEF vars, NoFault
<1>8. ASSUME NEW r \in Runs, CreatePending(r) \/ CreateQueued(r)
      PROVE  NoFault
  BY <1>8 DEF CreatePending, CreateQueued
<1>9. ASSUME NEW j \in JobIds, LeaseRunsOut(j)
      PROVE  NoFault
  BY <1>9 DEF LeaseRunsOut
<1> QED
  BY <1>1, <1>2, <1>3, <1>5, <1>6, <1>7, <1>8, <1>9 DEF Next

-------------------------------------------------------------------------------
(* What a step does to one worker *)

Claims(w) == \E j \in JobIds :
  /\ Stale(j) \/ j \in Claimable
  /\ runStatus'[jobs[j].run] = "queued"
  /\ jobs' = WithClaim(j) /\ claims' = claims + 1
  /\ proc'[w] = [Idle EXCEPT !.pc = "claimed", !.job = j,
                             !.run = jobs[j].run, !.token = claims + 1]

\* Of the fields that say which attempt a worker has, a step changes all or none.
Moves(w) ==
  \/ ~Engaged(w)'
  \/ /\ Engaged(w) /\ proc'[w].job = proc[w].job
     /\ proc'[w].run = proc[w].run /\ proc'[w].token = proc[w].token
  \/ Claims(w)

LEMMA MovesAlone ==
  ASSUME TypeOK, NEW p \in Procs, NEW s, proc' = [proc EXCEPT ![p] = s],
         p \in Workers => Moves(p)
  PROVE  \A w \in Workers : Moves(w)
<1>1. \A w \in Workers \ {p} : proc'[w] = proc[w]
  BY ProcsFacts
<1> QED
  BY <1>1 DEF Moves, Engaged

LEMMA MovesOfPoll ==
  ASSUME IInv, NEW w \in Workers, Poll(w)
  PROVE  \A v \in Workers : Moves(v)
<1>0. TypeOK /\ w \in Procs /\ proc \in [Procs -> Proc]
  BY ProcsFacts DEF IInv
<1>1. CASE BeginEmptyPoll(w)
  <2>1. PICK j : proc' = [proc EXCEPT ![w].pc = "polled", ![w].job = j]
    BY <1>1 DEF BeginEmptyPoll
  <2> DEFINE s == [proc[w] EXCEPT !.pc = "polled", !.job = j]
  <2>2. proc' = [proc EXCEPT ![w] = s] /\ s.pc = "polled"
    BY <1>0, <2>1 DEF Proc
  <2> HIDE DEF s
  <2> QED
    BY <1>0, <2>2, MovesAlone DEF Moves, Engaged
<1>2. CASE EndEmptyPoll(w)
  BY <1>0, <1>2, MovesAlone, IdleTyped DEF EndEmptyPoll, Return, Moves, Engaged
<1>3. CASE TidyOrphan(w) \/ RescheduleRunning(w)
  BY <1>3 DEF TidyOrphan, RescheduleRunning, Moves, Engaged
<1>4. ASSUME NEW j \in JobIds, Claim(w, j), j \in StaleQueued \/ j \in Claimable
      PROVE  \A v \in Workers : Moves(v)
  <2> DEFINE s == [Idle EXCEPT !.pc = "claimed", !.job = j,
                               !.run = jobs[j].run, !.token = claims + 1]
  <2>1. proc' = [proc EXCEPT ![w] = s]
    BY <1>4 DEF Claim
  <2>2. Claims(w)
    BY <1>0, <1>4, <2>1 DEF Claims, Claim, StaleQueued, Claimable
  <2> HIDE DEF s
  <2> QED
    BY <1>0, <2>1, <2>2, MovesAlone DEF Moves
<1>5. CASE ReclaimQueued(w)
  <2>1. OldestClaimed(Visible(StaleQueued)) \in StaleQueued
    BY <1>0, <1>5, OldestIsMember DEF ReclaimQueued, Visible, StaleQueued
  <2> QED
    BY <1>4, <1>5, <2>1 DEF ReclaimQueued, StaleQueued
<1>6. CASE ClaimPending(w)
  <2>1. OldestCreated(Visible(Claimable)) \in Claimable
    BY <1>0, <1>6, OldestIsMember DEF ClaimPending, Visible, Claimable
  <2> QED
    BY <1>4, <1>6, <2>1 DEF ClaimPending, Claimable
<1> QED
  BY <1>1, <1>2, <1>3, <1>5, <1>6 DEF Poll

LEMMA MovesOfEngine ==
  ASSUME IInv, NEW p \in Procs, Engine(p)
  PROVE  \A v \in Workers : Moves(v)
<1>0. TypeOK /\ proc \in [Procs -> Proc]
  BY ProcsFacts DEF IInv
<1>1. proc[p].pc \in {"loaded", "executing"} /\ proc[p] \in Proc
  BY <1>0 DEF Engine, StartFails, EdgarStart, AgenticStart, MarkRunning, AbortLeaseLost,
         AbortCancelled, EngineFails, EdgarComplete, AgenticComplete, PersistFails
<1>2. \/ Goto(p, "executing") \/ \E exc \in Exceptions : EngineEnds(p, exc)
  BY DEF Engine, StartFails, EdgarStart, AgenticStart, MarkRunning, AbortLeaseLost,
         AbortCancelled, EngineFails, FailRun, EdgarComplete, AgenticComplete,
         CommitResult, PersistFails, Exceptions
<1>3. CASE Goto(p, "executing")
  <2> DEFINE s == [proc[p] EXCEPT !.pc = "executing"]
  <2>1. proc' = [proc EXCEPT ![p] = s]
    BY <1>3 DEF Goto
  <2>2. s.job = proc[p].job /\ s.run = proc[p].run /\ s.token = proc[p].token
    BY <1>1 DEF Proc
  <2> HIDE DEF s
  <2>3. Moves(p)
    BY <1>0, <1>1, <2>1, <2>2 DEF Moves, Engaged
  <2> QED
    BY <1>0, <2>1, <2>3, MovesAlone
<1>4. ASSUME NEW exc \in Exceptions, EngineEnds(p, exc)
      PROVE  \A v \in Workers : Moves(v)
  <2>1. CASE p \in Workers
    <3> DEFINE s == [proc[p] EXCEPT !.pc = "ended", !.exc = exc]
    <3>1. proc' = [proc EXCEPT ![p] = s]
      BY <1>4, <2>1 DEF EngineEnds
    <3>2. s.job = proc[p].job /\ s.run = proc[p].run /\ s.token = proc[p].token
      BY <1>1 DEF Proc
    <3> HIDE DEF s
    <3>3. Moves(p)
      BY <1>0, <1>1, <3>1, <3>2 DEF Moves, Engaged
    <3> QED
      BY <1>0, <3>1, <3>3, MovesAlone
  <2>2. CASE p \notin Workers
    BY <1>0, <1>4, <2>2, MovesAlone DEF EngineEnds, Return
  <2> QED
    BY <2>1, <2>2
<1> QED
  BY <1>2, <1>3, <1>4

LEMMA MovesOfNext ==
  ASSUME IInv, [Next]_vars
  PROVE  \A v \in Workers : Moves(v)
<1>0. /\ TypeOK /\ proc \in [Procs -> Proc]
      /\ Workers \subseteq Procs /\ Clients \subseteq Procs
      /\ \A c \in Clients : c \notin Workers
  BY ProcsFacts, ProcessAssumption DEF IInv
<1>1. ASSUME UNCHANGED proc
      PROVE  \A v \in Workers : Moves(v)
  BY <1>1 DEF Moves, Engaged
<1>2. ASSUME NEW p \in Procs, Return(p)
      PROVE  \A v \in Workers : Moves(v)
  BY <1>0, <1>2, MovesAlone, IdleTyped DEF Return, Moves, Engaged
<1>3. ASSUME NEW w \in Workers, WorkerStep(w)
      PROVE  \A v \in Workers : Moves(v)
  <2>1. CASE LoadRun(w)
    <3> DEFINE s == [proc[w] EXCEPT !.pc = "loaded", !.seen = runStatus[proc[w].run]]
    <3>1. proc' = [proc EXCEPT ![w] = s]
      BY <2>1 DEF LoadRun
    <3>2. s.job = proc[w].job /\ s.run = proc[w].run /\ s.token = proc[w].token
      BY <1>0 DEF Proc
    <3> HIDE DEF s
    <3>3. Moves(w)
      BY <1>0, <2>1, <3>1, <3>2 DEF Moves, Engaged, LoadRun
    <3> QED
      BY <1>0, <3>1, <3>3, MovesAlone
  <2>2. CASE Finalize(w)
    <3>1. Return(w)
      BY <2>2 DEF Finalize, FinalizeLost, FinalizeCompleted, FinalizeCancelled,
             FinalizeNeverStarted, FinalizeRequeue, FinalizeFailed, CloseAttempt
    <3> QED
      BY <1>0, <1>2, <3>1
  <2> QED
    BY <1>0, <1>3, <2>1, <2>2, MovesOfPoll, MovesOfEngine DEF WorkerStep
<1>4. ASSUME NEW w \in Workers, LoseLease(w)
      PROVE  \A v \in Workers : Moves(v)
  <2> DEFINE s == [proc[w] EXCEPT !.lost = TRUE]
  <2>1. proc' = [proc EXCEPT ![w] = s]
    BY <1>4 DEF LoseLease
  <2>2. s.job = proc[w].job /\ s.run = proc[w].run /\ s.token = proc[w].token
    BY <1>0 DEF Proc
  <2> HIDE DEF s
  <2>3. Moves(w)
    BY <1>0, <1>4, <2>1, <2>2 DEF Moves, Engaged, LoseLease, Guarded
  <2> QED
    BY <1>0, <2>1, <2>3, MovesAlone
<1>5. ASSUME NEW c \in Clients, Request(c)
      PROVE  \A v \in Workers : Moves(v)
  <2>1. CASE Engine(c)
    BY <1>0, <2>1, MovesOfEngine
  <2>2. CASE ~Engine(c)
    <3>1. \A p \in Procs \ {c} : proc'[p] = proc[p]
      BY <1>0, <1>5, <2>2 DEF Request, CancelRead, RetryRead, ExecuteRead, CancelSend,
         CancelCommit, RetryCheck, RetryCommit, Return, Goto
    <3> QED
      BY <1>0, <3>1 DEF Moves, Engaged
  <2> QED
    BY <2>1, <2>2
<1>6. ASSUME NEW p \in Procs, Crash(p)
      PROVE  \A v \in Workers : Moves(v)
  BY <1>2, <1>6 DEF Crash
<1>7. CASE UNCHANGED vars
  BY <1>1, <1>7 DEF vars
<1>8. CASE \/ \E r \in Runs : CreatePending(r) \/ CreateQueued(r)
           \/ \E w \in Workers : RenewLease(w)
           \/ \E j \in JobIds : LeaseRunsOut(j) \/ LeaseLapses(j)
  BY <1>1, <1>8 DEF CreatePending, CreateQueued, RenewLease, LeaseRunsOut, LeaseLapses
<1> QED
  BY <1>3, <1>4, <1>5, <1>6, <1>7, <1>8 DEF Next

\* Rows that exist keep their run and number, whatever the step does to them.
RowsStay ==
  \A j \in JobIds : jobs[j].status # "absent" =>
    /\ jobs'[j].status # "absent"
    /\ jobs'[j].run = jobs[j].run
    /\ jobs'[j].attempt = jobs[j].attempt

LEMMA RowsAreKept ==
  ASSUME IInv, RowStep
  PROVE  RowsStay
<1>0. /\ TypeOK /\ jobs \in [JobIds -> Job] /\ njobs \in Nat /\ JobIds \subseteq Nat
      /\ \A j \in JobIds : jobs[j].status # "absent" => j # njobs + 1
  BY BoundsAssumption DEF IInv, TypeOK, JobIds, Rows
<1>1. CASE UNCHANGED <<jobs, njobs, claims>>
  BY <1>1 DEF RowsStay
<1>2. CASE ClaimsRow \/ SetsLease
  BY <1>0, <1>2, ClaimedRow, LeasedRow DEF ClaimsRow, SetsLease, RowsStay
<1>3. CASE ClosesRows
  BY <1>0, <1>3, ClosedRow DEF ClosesRows, ClosedStatus, RowsStay
<1>4. CASE InsertsRow
  <2>1. PICK r \in Runs, attempt \in Nat : Insert(jobs, r, attempt)
    BY <1>0, <1>4 DEF InsertsRow, Inserts
  <2> QED
    BY <1>0, <2>1, PendingRow DEF RowsStay
<1>5. CASE ReplacesRow
  <2>1. PICK i \in JobIds : Replaces(i)
    BY <1>5 DEF ReplacesRow
  <2>2. jobs[i].status # "absent"
    BY <2>1 DEF Replaces
  <2> QED
    BY <1>0, <2>1, <2>2, ReplacedRow DEF RowsStay, IInv
<1> QED
  BY <1>1, <1>2, <1>3, <1>4, <1>5 DEF RowStep

LEMMA CarriesPreserved ==
  ASSUME IInv, [Next]_vars
  PROVE  Carries'
<1> SUFFICES ASSUME NEW w \in Workers, Engaged(w)'
             PROVE  /\ proc'[w].job \in JobIds
                    /\ jobs'[proc'[w].job].status # "absent"
                    /\ jobs'[proc'[w].job].run = proc'[w].run
  BY DEF Carries, JobIds
<1>1. RowsStay /\ Moves(w)
  BY RowStepOfNext, RowsAreKept, MovesOfNext
<1>2. CASE Engaged(w) /\ proc'[w].job = proc[w].job /\ proc'[w].run = proc[w].run
  BY <1>1, <1>2 DEF IInv, Carries, RowsStay
<1>3. CASE Claims(w)
  <2>1. PICK j \in JobIds : /\ Stale(j) \/ j \in Claimable
                            /\ proc'[w].job = j /\ proc'[w].run = jobs[j].run
    BY <1>3 DEF Claims, Idle
  <2>2. jobs[j].status # "absent"
    BY <2>1 DEF Stale, Claimable
  <2> QED
    BY <1>1, <2>1, <2>2 DEF RowsStay
<1> QED
  BY <1>1, <1>2, <1>3 DEF Moves

-------------------------------------------------------------------------------
(* The theorems *)

LEMMA InvInit == Init => IInv
<1> SUFFICES ASSUME Init PROVE IInv
  OBVIOUS
<1>1. TypeOK
  BY IdleTyped, BoundsAssumption, ProcessAssumption
     DEF Init, TypeOK, NoJob, Job, NoToken
<1>2. Rows
  BY BoundsAssumption DEF Init, Rows, NoJob, JobIds
<1>3. Busy /\ Tokens /\ Carries
  BY DEF Init, Busy, Tokens, Carries, Engaged, Idle, NoJob, NoToken, Procs
<1> QED
  BY <1>1, <1>2, <1>3 DEF IInv

LEMMA InvNext == IInv /\ [Next]_vars => IInv'
<1> SUFFICES ASSUME IInv, [Next]_vars PROVE IInv'
  OBVIOUS
<1>1. RowStep /\ TokenStep
  BY RowStepOfNext
<1>2. ProcsFine'
  BY FineNext
<1>3. TypeOK'
  BY <1>1, <1>2, RowsPreserved, RunsTyped, FaultsCounted DEF TypeOK, ProcsFine
<1> QED
  BY <1>1, <1>2, <1>3, RowsPreserved, TokensPreserved, CarriesPreserved DEF IInv, ProcsFine

LEMMA Invariant == Spec => []IInv
BY InvInit, InvNext, PTL DEF Spec

\* Every row, process and counter keeps its type, whatever interleaves: in
\* particular a run is only ever given statuses of AnalysisRunStatus.
THEOREM TypeCorrect == Spec => []TypeOK
<1>1. IInv => TypeOK
  BY DEF IInv
<1> QED
  BY <1>1, Invariant, PTL

\* The claim token fences: for any number of workers and requests, crashes,
\* lapsed leases and reclaims, no two workers own the same attempt, and no two
\* rows carry the same token.
THEOREM FencingIsSound == Spec => []OneOwnerPerClaim
<1>1. IInv => OneOwnerPerClaim
  <2> SUFFICES ASSUME IInv PROVE OneOwnerPerClaim
    OBVIOUS
  <2>1. ASSUME NEW v \in Workers, NEW w \in Workers,
               Owns(v), Owns(w), proc[v].job = proc[w].job
        PROVE  v = w
    <3>1. v \in Procs /\ w \in Procs /\ proc[v].job \in JobIds
      BY <2>1 DEF Owns, IInv, TypeOK, Procs, Proc
    <3>2. proc[v].token = proc[w].token /\ proc[v].token # NoToken
      BY <2>1, <3>1 DEF Owns, OwnedBy, IInv, Tokens
    <3> QED
      BY <3>1, <3>2 DEF IInv, Tokens
  <2> QED
    BY <2>1 DEF OneOwnerPerClaim, IInv, Tokens
<1> QED
  BY <1>1, Invariant, PTL

\* A completed, failed or cancelled row is never written again: every write to
\* the job table either tests that the row is open in the same statement or
\* goes to a row that did not exist.
THEOREM HistoryIsFinal == Spec => ClosedRowsAreFinal
<1>1. IInv /\ [Next]_vars
        => [\A j \in JobIds : jobs[j].status \in ClosedStatus => jobs'[j] = jobs[j]]_vars
  <2> SUFFICES ASSUME IInv, [Next]_vars, NEW j \in JobIds, jobs[j].status \in ClosedStatus
               PROVE  jobs'[j] = jobs[j]
    OBVIOUS
  <2>0. /\ TypeOK /\ jobs \in [JobIds -> Job] /\ RowStep /\ njobs \in Nat /\ j \in Nat
        /\ jobs[j].status \notin {"absent", "pending", "running"}
        /\ j # njobs + 1
    BY RowStepOfNext, BoundsAssumption DEF IInv, TypeOK, ClosedStatus, JobIds, Rows
  <2>1. CASE UNCHANGED <<jobs, njobs, claims>>
    BY <2>1
  <2>2. CASE ClaimsRow
    BY <2>0, <2>2 DEF ClaimsRow, Stale, Claimable, WithClaim
  <2>3. CASE SetsLease
    BY <2>0, <2>3 DEF SetsLease
  <2>4. CASE ClosesRows
    BY <2>0, <2>4, ClosedRow DEF ClosesRows, OpenStatus
  <2>5. CASE InsertsRow
    <3>1. PICK r \in Runs, attempt \in Nat : Insert(jobs, r, attempt)
      BY <2>0, <2>5 DEF InsertsRow, Inserts
    <3> QED
      BY <2>0, <3>1, PendingRow
  <2>6. CASE ReplacesRow
    <3>1. PICK i \in JobIds : Replaces(i)
      BY <2>6 DEF ReplacesRow
    <3>2. j \notin {i, njobs + 1}
      BY <2>0, <3>1 DEF Replaces
    <3> QED
      BY <3>1, <3>2, ReplacedRow DEF IInv
  <2> QED
    BY <2>0, <2>1, <2>2, <2>3, <2>4, <2>5, <2>6 DEF RowStep
<1> QED
  BY <1>1, Invariant, PTL DEF Spec, ClosedRowsAreFinal

\* No claim path hands out an attempt beyond run_job_max_attempts: the pending
\* branch tests it, and taking a stale row over keeps its number.
THEOREM CeilingIsKept == Spec => []CeilingHolds
<1>1. Init => CeilingHolds
  BY DEF Init, CeilingHolds, NoJob
<1>2. IInv /\ CeilingHolds /\ [Next]_vars => CeilingHolds'
  <2> SUFFICES ASSUME IInv, CeilingHolds, [Next]_vars,
                      NEW j \in JobIds, jobs'[j].status = "running"
               PROVE  jobs'[j].attempt <= MaxAttempts
    BY DEF CeilingHolds, JobIds
  <2>0. TypeOK /\ jobs \in [JobIds -> Job] /\ RowStep /\ njobs \in Nat
    BY RowStepOfNext, BoundsAssumption DEF IInv, TypeOK
  <2>1. CASE UNCHANGED <<jobs, njobs, claims>>
    BY <2>1 DEF CeilingHolds
  <2>2. CASE ClaimsRow
    BY <2>0, <2>2 DEF ClaimsRow, Stale, Claimable, WithClaim, CeilingHolds, Job
  <2>3. CASE SetsLease
    BY <2>0, <2>3 DEF SetsLease, CeilingHolds, Job
  <2>4. CASE ClosesRows
    BY <2>0, <2>4, ClosedRow DEF ClosesRows, ClosedStatus, CeilingHolds
  <2>5. CASE InsertsRow
    <3>1. PICK r \in Runs, attempt \in Nat : Insert(jobs, r, attempt)
      BY <2>0, <2>5 DEF InsertsRow, Inserts
    <3> QED
      BY <2>0, <3>1, PendingRow DEF CeilingHolds
  <2>6. CASE ReplacesRow
    <3>1. PICK i \in JobIds : Replaces(i)
      BY <2>6 DEF ReplacesRow
    <3>2. j \notin {i, njobs + 1}
      BY <3>1, ReplacedRow DEF IInv
    <3>3. jobs'[j] = jobs[j]
      BY <3>1, <3>2, ReplacedRow DEF IInv
    <3> QED
      BY <3>3 DEF CeilingHolds
  <2> QED
    BY <2>0, <2>1, <2>2, <2>3, <2>4, <2>5, <2>6 DEF RowStep
<1> QED
  BY <1>1, <1>2, Invariant, PTL DEF Spec

-------------------------------------------------------------------------------
(* One open attempt at a time                                              *)
(*                                                                         *)
(* What follows holds as long as no two retries of one run overlap: the    *)
(* code looks for open jobs in one transaction and inserts in another.     *)

RetriesApart ==
  \A c, d \in Clients :
    (/\ proc[c].pc = "retry_checked" /\ proc[d].pc = "retry_checked"
     /\ proc[c].run = proc[d].run) => c = d

\* A run nobody has created has no rows.
Unborn == \A r \in Runs : runStatus[r] = "absent" => JobsOf(r) = {}

OneOpen == \A r \in Runs : \A i, j \in OpenJobs(r) : i = j

\* A retry is of a run that exists, and once it has passed the check the run has
\* no open attempt.
Checked ==
  \A c \in Clients :
    /\ proc[c].pc \in {"retrying", "retry_checked"} => runStatus[proc[c].run] # "absent"
    /\ proc[c].pc = "retry_checked" => OpenJobs(proc[c].run) = {}

OInv == Unborn /\ OneOpen /\ Checked

LEMMA OpenRow ==
  ASSUME OneOpen, NEW r \in Runs
  PROVE  OpenJobs(r) = {} \/ \E j \in OpenJobs(r) : OpenJobs(r) = {j}
<1>1. ASSUME NEW j \in OpenJobs(r) PROVE OpenJobs(r) = {j}
  BY <1>1 DEF OneOpen
<1> QED
  BY <1>1

\* What a step makes of the rows of one run.
KeepsRows(r) == JobsOf(r)' = JobsOf(r) /\ OpenJobs(r)' \subseteq OpenJobs(r)

AddsRow(r) ==
  /\ \E attempt \in 1..(njobs + 1) : Inserts(r, attempt)
  /\ JobsOf(r)' = JobsOf(r) \cup {njobs + 1}
  /\ OpenJobs(r)' = OpenJobs(r) \cup {njobs + 1}

SwapsRow(r) == \E j \in OpenJobs(r) :
  /\ Replaces(j)
  /\ JobsOf(r)' = JobsOf(r) \cup {njobs + 1}
  /\ OpenJobs(r)' = (OpenJobs(r) \ {j}) \cup {njobs + 1}

LEMMA RowsOfRun ==
  ASSUME IInv, RowStep, NEW r \in Runs
  PROVE  KeepsRows(r) \/ AddsRow(r) \/ SwapsRow(r)
<1>0. /\ TypeOK /\ jobs \in [JobIds -> Job] /\ njobs \in Nat /\ Rows
      /\ \A j \in JobIds : jobs[j].status # "absent" => j # njobs + 1
  BY BoundsAssumption DEF IInv, TypeOK, JobIds, Rows
<1>1. ASSUME \A j \in JobIds : /\ jobs'[j].run = jobs[j].run
                               /\ jobs'[j].status = "absent" <=> jobs[j].status = "absent"
                               /\ jobs'[j].status \in OpenStatus
                                    => jobs[j].status \in OpenStatus
      PROVE  KeepsRows(r)
  BY <1>1 DEF KeepsRows, OpenJobs, JobsOf
<1>2. CASE UNCHANGED <<jobs, njobs, claims>>
  BY <1>1, <1>2
<1>3. CASE ClaimsRow
  <2>1. PICK j \in JobIds : (Stale(j) \/ j \in Claimable) /\ jobs' = WithClaim(j)
    BY <1>3 DEF ClaimsRow
  <2> QED
    BY <1>0, <1>1, <1>3, ClaimedRow DEF ClaimsRow, Stale, Claimable, OpenStatus
<1>4. CASE SetsLease
  BY <1>0, <1>1, <1>4, LeasedRow DEF SetsLease
<1>5. CASE ClosesRows
  BY <1>0, <1>1, <1>5, ClosedRow DEF ClosesRows, ClosedStatus, OpenStatus
<1>6. ASSUME NEW q \in Runs, NEW attempt \in 1..(njobs + 1), Inserts(q, attempt)
      PROVE  KeepsRows(r) \/ AddsRow(r)
  <2>1. attempt \in Nat /\ Insert(jobs, q, attempt)
    BY <1>0, <1>6 DEF Inserts
  <2>2. /\ njobs + 1 \in JobIds /\ jobs'[njobs + 1].status = "pending"
        /\ jobs'[njobs + 1].run = q
        /\ \A j \in JobIds \ {njobs + 1} : jobs'[j] = jobs[j]
    BY <1>0, <2>1, PendingRow
  <2>3. CASE q = r
    <3>1. JobsOf(r)' = JobsOf(r) \cup {njobs + 1}
      BY <1>0, <2>2, <2>3 DEF JobsOf
    <3>2. OpenJobs(r)' = OpenJobs(r) \cup {njobs + 1}
      BY <1>0, <2>2, <2>3, <3>1 DEF OpenJobs, OpenStatus, JobsOf
    <3> QED
      BY <1>6, <2>3, <3>1, <3>2 DEF AddsRow
  <2>4. CASE q # r
    <3>1. JobsOf(r)' = JobsOf(r)
      BY <1>0, <2>2, <2>4 DEF JobsOf
    <3>2. OpenJobs(r)' \subseteq OpenJobs(r)
      BY <1>0, <2>2, <2>4, <3>1 DEF OpenJobs, JobsOf
    <3> QED
      BY <3>1, <3>2 DEF KeepsRows
  <2> QED
    BY <2>3, <2>4
<1>7. ASSUME NEW i \in JobIds, Replaces(i)
      PROVE  KeepsRows(r) \/ SwapsRow(r)
  <2>1. /\ njobs + 1 \in JobIds /\ i # njobs + 1
        /\ jobs'[njobs + 1].status = "pending" /\ jobs'[njobs + 1].run = jobs[i].run
        /\ jobs'[i].status = "failed" /\ jobs'[i].run = jobs[i].run
        /\ \A j \in JobIds \ {i, njobs + 1} : jobs'[j] = jobs[j]
    BY <1>0, <1>7, ReplacedRow
  <2>2. jobs[i].status = "running"
    BY <1>7 DEF Replaces
  <2>3. CASE jobs[i].run = r
    <3>1. JobsOf(r)' = JobsOf(r) \cup {njobs + 1}
      BY <1>0, <2>1, <2>2, <2>3 DEF JobsOf
    <3>2. i \in OpenJobs(r)
      BY <2>2, <2>3 DEF OpenJobs, JobsOf, OpenStatus
    <3>3. OpenJobs(r)' = (OpenJobs(r) \ {i}) \cup {njobs + 1}
      BY <1>0, <2>1, <2>3, <3>1 DEF OpenJobs, OpenStatus, JobsOf
    <3> QED
      BY <1>7, <3>1, <3>2, <3>3 DEF SwapsRow
  <2>4. CASE jobs[i].run # r
    <3>1. JobsOf(r)' = JobsOf(r)
      BY <1>0, <2>1, <2>4 DEF JobsOf
    <3>2. OpenJobs(r)' \subseteq OpenJobs(r)
      BY <1>0, <2>1, <2>4, <3>1 DEF OpenJobs, JobsOf
    <3> QED
      BY <3>1, <3>2 DEF KeepsRows
  <2> QED
    BY <2>3, <2>4
<1> QED
  BY <1>2, <1>3, <1>4, <1>5, <1>6, <1>7 DEF RowStep, InsertsRow, ReplacesRow

\* A run becomes queued only together with a new row, and never becomes absent.
BecomesQueued(r) == \/ \E attempt \in 1..(njobs + 1) : Inserts(r, attempt)
                    \/ \E j \in JobIds : jobs[j].run = r /\ Replaces(j)

StatusStep ==
  \A r \in Runs : \/ runStatus'[r] = runStatus[r]
                  \/ runStatus'[r] \in AnalysisRunStatus \ {"queued"}
                  \/ BecomesQueued(r)

LEMMA StatusesMove ==
  ASSUME IInv, [Next]_vars
  PROVE  StatusStep
<1>0. /\ TypeOK /\ proc \in [Procs -> Proc] /\ Workers \subseteq Procs
      /\ runStatus \in [Runs -> AnalysisRunStatus \cup {"absent"}]
  BY ProcsFacts DEF IInv, TypeOK
<1>1. ASSUME UNCHANGED runStatus
      PROVE  StatusStep
  BY <1>1 DEF StatusStep
<1>2. ASSUME NEW r, NEW status \in AnalysisRunStatus \ {"queued"}, SetRun(r, status)
      PROVE  StatusStep
  BY <1>0, <1>2 DEF SetRun, StatusStep
<1>3. {"pending", "running", "success", "partial_success", "no_data", "error",
       "cancelled"} \subseteq AnalysisRunStatus \ {"queued"}
  BY DEF AnalysisRunStatus
<1>4. ASSUME NEW r \in Runs, SetRun(r, "queued"), BecomesQueued(r)
      PROVE  StatusStep
  BY <1>0, <1>4 DEF SetRun, StatusStep
<1>5. CASE UNCHANGED vars
  BY <1>1, <1>5 DEF vars, store
<1>6. ASSUME NEW r \in Runs, CreatePending(r)
      PROVE  StatusStep
  BY <1>2, <1>3, <1>6 DEF CreatePending
<1>7. ASSUME NEW r \in Runs, CreateQueued(r)
      PROVE  StatusStep
  <2>1. 1 \in 1..(njobs + 1)
    BY <1>0, BoundsAssumption DEF TypeOK
  <2>2. Inserts(r, 1)
    BY <1>7 DEF CreateQueued, Inserts
  <2> QED
    BY <1>4, <1>7, <2>1, <2>2 DEF CreateQueued, BecomesQueued
<1>8. ASSUME NEW p \in Procs, Engine(p)
      PROVE  StatusStep
  <2>1. CASE EdgarStart(p) \/ AgenticStart(p)
    BY <1>2, <1>3, <2>1 DEF EdgarStart, AgenticStart, MarkRunning
  <2>2. CASE EngineFails(p)
    BY <1>1, <1>2, <1>3, <2>2 DEF EngineFails, FailRun
  <2>3. CASE EdgarComplete(p) \/ AgenticComplete(p)
    BY <1>2, <1>3, <2>3 DEF EdgarComplete, AgenticComplete, CommitResult
  <2>4. CASE StartFails(p) \/ AbortLeaseLost(p) \/ AbortCancelled(p) \/ PersistFails(p)
    BY <1>1, <2>4 DEF StartFails, AbortLeaseLost, AbortCancelled, PersistFails, store
  <2> QED
    BY <1>8, <2>1, <2>2, <2>3, <2>4 DEF Engine
<1>9. ASSUME NEW w \in Workers, RescheduleRunning(w)
      PROVE  StatusStep
  <2> DEFINE j == OldestClaimed(StaleRunning)
  <2>1. j \in StaleRunning
    BY <1>0, <1>9, OldestIsMember DEF RescheduleRunning, TidiesRunning, Visible, StaleRunning
  <2>2. j \in JobIds /\ jobs[j].status = "running" /\ jobs[j].run \in Runs
    BY <2>1 DEF StaleRunning, Stale, Rows, IInv
  <2>3. \/ SetRun(jobs[j].run, "error")
        \/ /\ jobs[j].attempt < MaxAttempts
           /\ Insert(WithClosed({j}, "failed"), jobs[j].run, jobs[j].attempt + 1)
           /\ SetRun(jobs[j].run, "queued") /\ UNCHANGED claims
    BY <1>9 DEF RescheduleRunning
  <2> HIDE DEF j
  <2>4. SetRun(jobs[j].run, "error") \/ (SetRun(jobs[j].run, "queued") /\ Replaces(j))
    BY <2>2, <2>3 DEF Replaces
  <2> QED
    BY <1>2, <1>3, <1>4, <2>2, <2>4 DEF BecomesQueued
<1>10. ASSUME NEW w \in Workers, Poll(w)
       PROVE  StatusStep
  BY <1>1, <1>9, <1>10 DEF Poll, BeginEmptyPoll, EndEmptyPoll, TidyOrphan,
     ReclaimQueued, ClaimPending, Claim, store
<1>11. ASSUME NEW w \in Workers, FinalizeRequeue(w)
       PROVE  StatusStep
  <2> DEFINE j == proc[w].job
  <2>1. /\ j \in JobIds /\ jobs[j].status = "running" /\ jobs[j].run = proc[w].run
        /\ jobs[j].run \in Runs
    BY <1>0, <1>11 DEF FinalizeRequeue, Raised, Failed, Finalizing, Owns, OwnedBy, Proc,
       IInv, Carries, Engaged, Rows
  <2>2. Replaces(j) /\ SetRun(jobs[j].run, "queued")
    BY <1>11, <2>1 DEF FinalizeRequeue, Replaces, Retriable
  <2> QED
    BY <1>4, <2>1, <2>2 DEF BecomesQueued
<1>12. ASSUME NEW w \in Workers, Finalize(w)
       PROVE  StatusStep
  <2>1. CASE FinalizeNeverStarted(w)
    BY <1>2, <1>3, <2>1 DEF FinalizeNeverStarted
  <2> QED
    BY <1>1, <1>11, <1>12, <2>1 DEF Finalize, FinalizeLost, FinalizeCompleted,
       FinalizeCancelled, FinalizeFailed, store
<1>13. ASSUME NEW w \in Workers, WorkerStep(w) \/ RenewLease(w) \/ LoseLease(w)
       PROVE  StatusStep
  BY <1>0, <1>1, <1>8, <1>10, <1>12, <1>13 DEF WorkerStep, LoadRun, RenewLease, LoseLease, store
<1>14. ASSUME NEW c \in Clients, RetryCommit(c)
       PROVE  StatusStep
  <2>1. proc[c].run \in Runs
    BY <1>14 DEF RetryCommit, IInv, Busy, Procs
  <2>2. LatestAttempt(proc[c].run) + 1 \in 1..(njobs + 1)
    BY <2>1, LatestAttemptBound, BoundsAssumption DEF IInv, TypeOK
  <2>3. Inserts(proc[c].run, LatestAttempt(proc[c].run) + 1)
    BY <1>14 DEF RetryCommit, Inserts
  <2> QED
    BY <1>4, <1>14, <2>1, <2>2, <2>3 DEF RetryCommit, BecomesQueued
<1>15. ASSUME NEW c \in Clients, Request(c)
       PROVE  StatusStep
  <2>1. CASE CancelCommit(c)
    BY <1>2, <1>3, <2>1 DEF CancelCommit
  <2> QED
    BY <1>1, <1>8, <1>14, <1>15, <2>1 DEF Request, CancelRead, RetryRead, ExecuteRead,
       CancelSend, RetryCheck, store, Procs
<1>16. ASSUME NEW p \in Procs, Crash(p)
       PROVE  StatusStep
  BY <1>1, <1>16 DEF Crash, store
<1>17. ASSUME NEW j \in JobIds, LeaseRunsOut(j) \/ LeaseLapses(j)
       PROVE  StatusStep
  BY <1>1, <1>17 DEF LeaseRunsOut, LeaseLapses
<1> QED
  BY <1>5, <1>6, <1>7, <1>13, <1>15, <1>16, <1>17 DEF Next

\* How a request comes to be retrying: it read the status of a run that ended, and
\* it saw no open job.
BeginsRetry(c) == \E r \in Runs :
  /\ IsRetriable(runStatus[r]) /\ proc'[c].pc = "retrying" /\ proc'[c].run = r
  /\ UNCHANGED store

PassesCheck(c) ==
  /\ proc[c].pc = "retrying" /\ proc'[c].run = proc[c].run
  /\ ~HasOpenJob(proc[c].run)
  /\ UNCHANGED store

LEMMA RetryMoves ==
  ASSUME IInv, [Next]_vars, NEW c \in Clients,
         proc'[c].pc \in {"retrying", "retry_checked"}
  PROVE  proc'[c] = proc[c] \/ BeginsRetry(c) \/ PassesCheck(c)
<1>0. /\ proc \in [Procs -> Proc] /\ c \in Procs /\ c \notin Workers
      /\ Workers \subseteq Procs /\ Clients \subseteq Procs
  BY ProcsFacts, ProcessAssumption DEF IInv
<1>1. CASE UNCHANGED proc
  BY <1>1
<1>2. ASSUME NEW p \in Procs, Engine(p)
      PROVE  proc'[c] = proc[c]
  <2>1. proc[p].pc \in {"loaded", "executing"}
    BY <1>2 DEF Engine, StartFails, EdgarStart, AgenticStart, MarkRunning, AbortLeaseLost,
         AbortCancelled, EngineFails, EdgarComplete, AgenticComplete, PersistFails
  <2>2. \/ Goto(p, "executing") \/ \E exc \in Exceptions : EngineEnds(p, exc)
    BY <1>2 DEF Engine, StartFails, EdgarStart, AgenticStart, MarkRunning, AbortLeaseLost,
         AbortCancelled, EngineFails, FailRun, EdgarComplete, AgenticComplete,
         CommitResult, PersistFails, Exceptions
  <2>3. ASSUME p = c PROVE proc'[c].pc \in {"executing", "idle"}
    <3>1. \A exc : EngineEnds(p, exc) => Return(c)
      BY <1>0, <2>3 DEF EngineEnds
    <3>2. Return(c) => proc'[c].pc = "idle"
      BY <1>0, IdleTyped DEF Return
    <3>3. Goto(c, "executing") => proc'[c].pc = "executing"
      BY <1>0 DEF Goto, Proc
    <3> QED
      BY <2>2, <2>3, <3>1, <3>2, <3>3
  <2> QED
    BY <1>0, <2>2, <2>3 DEF Goto, EngineEnds, Return
<1>3. ASSUME NEW w \in Workers, WorkerStep(w) \/ RenewLease(w) \/ LoseLease(w)
      PROVE  proc'[c] = proc[c]
  <2>1. CASE Poll(w)
    BY <1>0, <2>1 DEF Poll, BeginEmptyPoll, EndEmptyPoll, TidyOrphan, RescheduleRunning,
       ReclaimQueued, ClaimPending, Claim, Return
  <2>2. CASE Finalize(w)
    BY <1>0, <2>2 DEF Finalize, FinalizeLost, FinalizeCompleted, FinalizeCancelled,
       FinalizeNeverStarted, FinalizeRequeue, FinalizeFailed, CloseAttempt, Return
  <2>3. CASE LoadRun(w) \/ RenewLease(w) \/ LoseLease(w)
    BY <1>0, <2>3 DEF LoadRun, RenewLease, LoseLease
  <2> QED
    BY <1>0, <1>2, <1>3, <2>1, <2>2, <2>3 DEF WorkerStep
<1>4. ASSUME NEW d \in Clients, Request(d), ~Engine(d)
      PROVE  proc'[c] = proc[c] \/ BeginsRetry(c) \/ PassesCheck(c)
  <2>1. CASE d # c
    BY <1>0, <1>4, <2>1 DEF Request, CancelRead, RetryRead, ExecuteRead, CancelSend,
       CancelCommit, RetryCheck, RetryCommit, Return, Goto
  <2>2. CASE d = c
    <3>1. ASSUME NEW r \in Runs, RetryRead(c, r)
          PROVE  BeginsRetry(c)
      BY <1>0, <3>1 DEF RetryRead, BeginsRetry, Idle
    <3>2. CASE RetryCheck(c)
      BY <1>0, <3>2, IdleTyped DEF RetryCheck, PassesCheck, Goto, Return, Proc
    <3>3. ASSUME NEW r \in Runs, CancelRead(c, r) \/ ExecuteRead(c, r)
          PROVE  FALSE
      BY <1>0, <3>3 DEF CancelRead, ExecuteRead, Idle
    <3>4. CASE CancelSend(c) \/ CancelCommit(c) \/ RetryCommit(c)
      BY <1>0, <3>4, IdleTyped DEF CancelSend, CancelCommit, RetryCommit, Return, Proc
    <3> QED
      BY <1>4, <2>2, <3>1, <3>2, <3>3, <3>4 DEF Request
  <2> QED
    BY <2>1, <2>2
<1>5. ASSUME NEW p \in Procs, Crash(p)
      PROVE  proc'[c] = proc[c]
  BY <1>0, <1>5, IdleTyped DEF Crash, Return
<1>6. CASE \/ UNCHANGED vars
           \/ \E r \in Runs : CreatePending(r) \/ CreateQueued(r)
           \/ \E j \in JobIds : LeaseRunsOut(j) \/ LeaseLapses(j)
  BY <1>1, <1>6 DEF vars, CreatePending, CreateQueued, LeaseRunsOut, LeaseLapses
<1> QED
  BY <1>0, <1>2, <1>3, <1>4, <1>5, <1>6 DEF Next

\* A row is added only to a run without an open attempt.
LEMMA InsertsWhereNone ==
  ASSUME IInv, OInv, NEW r \in Runs, NEW attempt, Inserts(r, attempt)
  PROVE  OpenJobs(r) = {}
<1>1. CASE runStatus[r] = "absent"
  BY <1>1 DEF OInv, Unborn, OpenJobs
<1>2. CASE \E c \in Clients : proc[c].pc = "retry_checked" /\ proc[c].run = r
  BY <1>2 DEF OInv, Checked
<1> QED
  BY <1>1, <1>2 DEF Inserts

LEMMA OInvInit == Init => OInv
BY DEF Init, OInv, Unborn, OneOpen, Checked, JobsOf, OpenJobs, NoJob, Idle, Procs

LEMMA OInvNext ==
  ASSUME IInv, OInv, RetriesApart, [Next]_vars
  PROVE  OInv'
<1>0. /\ RowStep /\ StatusStep /\ Unborn /\ OneOpen /\ Checked
      /\ \A r \in Runs : KeepsRows(r) \/ AddsRow(r) \/ SwapsRow(r)
      /\ runStatus \in [Runs -> AnalysisRunStatus \cup {"absent"}]
      /\ "absent" \notin AnalysisRunStatus
  BY RowStepOfNext, StatusesMove, RowsOfRun DEF OInv, IInv, TypeOK, AnalysisRunStatus
<1>1. \A r \in Runs : BecomesQueued(r) => runStatus'[r] = "queued"
  BY <1>0 DEF BecomesQueued, Inserts, Replaces, SetRun
<1>2. \A r \in Runs : runStatus'[r] = "absent" => runStatus[r] = "absent"
  BY <1>0, <1>1 DEF StatusStep
<1>3. \A r \in Runs : AddsRow(r) \/ SwapsRow(r) => BecomesQueued(r)
  BY DEF AddsRow, SwapsRow, BecomesQueued, OpenJobs, JobsOf
<1>4. Unborn'
  <2> SUFFICES ASSUME NEW r \in Runs, runStatus'[r] = "absent"
               PROVE  JobsOf(r)' = {}
    BY DEF Unborn
  <2>1. KeepsRows(r)
    BY <1>0, <1>1, <1>3
  <2> QED
    BY <1>0, <1>2, <2>1 DEF KeepsRows, Unborn
<1>5. OneOpen'
  <2> SUFFICES ASSUME NEW r \in Runs, NEW i \in OpenJobs(r)', NEW j \in OpenJobs(r)'
               PROVE  i = j
    BY DEF OneOpen
  <2>1. CASE KeepsRows(r)
    BY <1>0, <2>1 DEF KeepsRows, OneOpen
  <2>2. CASE AddsRow(r)
    BY <2>2, InsertsWhereNone DEF AddsRow
  <2>3. CASE SwapsRow(r)
    BY <1>0, <2>3 DEF SwapsRow, OneOpen
  <2> QED
    BY <1>0, <2>1, <2>2, <2>3
<1>6. Checked'
  <2> SUFFICES ASSUME NEW c \in Clients, proc'[c].pc \in {"retrying", "retry_checked"},
                      NEW r, r = proc'[c].run
               PROVE  /\ runStatus'[r] # "absent"
                      /\ proc'[c].pc = "retry_checked" => OpenJobs(r)' = {}
    BY DEF Checked, OpenJobs, JobsOf
  <2>1. CASE proc'[c] = proc[c]
    <3>1. r \in Runs /\ runStatus[r] # "absent" /\ c \in Procs
      BY <1>0, <2>1 DEF IInv, Busy, Procs, Checked
    <3>2. runStatus'[r] # "absent"
      BY <1>2, <3>1
    <3>3. ASSUME proc'[c].pc = "retry_checked", ~KeepsRows(r)
          PROVE  FALSE
      <4>1. OpenJobs(r) = {}
        BY <1>0, <2>1, <3>3 DEF Checked
      <4>2. PICK attempt : Inserts(r, attempt)
        BY <1>0, <3>1, <3>3, <4>1 DEF SwapsRow, AddsRow
      <4>3. PICK d \in Clients : proc[d].pc = "retry_checked" /\ proc[d].run = r /\ Return(d)
        BY <3>1, <4>2 DEF Inserts
      <4>4. d = c
        BY <2>1, <3>3, <4>3 DEF RetriesApart
      <4> QED
        BY <3>1, <3>3, <4>3, <4>4, IdleTyped, ProcsFacts DEF Return, IInv
    <3> QED
      BY <1>0, <2>1, <3>2, <3>3 DEF KeepsRows, Checked
  <2>2. CASE BeginsRetry(c)
    BY <2>2 DEF BeginsRetry, store, IsRetriable, RetryToQueued, Terminal
  <2>3. CASE PassesCheck(c)
    <3>1. runStatus[r] # "absent" /\ OpenJobs(r) = {}
      BY <1>0, <2>3 DEF PassesCheck, Checked, HasOpenJob
    <3>2. runStatus' = runStatus /\ jobs' = jobs
      BY <2>3 DEF PassesCheck, store
    <3> QED
      BY <3>1, <3>2 DEF OpenJobs, JobsOf
  <2> QED
    BY <2>1, <2>2, <2>3, RetryMoves
<1> QED
  BY <1>4, <1>5, <1>6 DEF OInv

LEMMA OpenRows == Spec /\ []RetriesApart => [](IInv /\ OInv)
BY OInvInit, OInvNext, Invariant, PTL DEF Spec

\* At most one attempt of a run is open, however many workers, requests, crashes
\* and lapses there are, as long as no two retries of the run overlap.
THEOREM OneAttemptAtATime == Spec /\ []RetriesApart => []OneOpenJobPerRun
<1>1. OInv => OneOpenJobPerRun
  <2> SUFFICES ASSUME OInv, NEW r \in Runs
               PROVE  Cardinality(OpenJobs(r)) <= 1
    BY DEF OneOpenJobPerRun
  <2>0. OneOpen
    BY DEF OInv
  <2>1. OpenJobs(r) = {} \/ \E j : OpenJobs(r) = {j}
    BY <2>0, OpenRow
  <2>2. Cardinality(OpenJobs(r)) \in {0, 1}
    BY <2>1, FS_EmptySet, FS_Singleton
  <2> QED
    BY <2>2
<1> QED
  BY <1>1, OpenRows, PTL

-------------------------------------------------------------------------------
(* Attempts are numbered in order *)

LEMMA RowsAreFinite ==
  ASSUME NEW r
  PROVE  IsFiniteSet(JobsOf(r)) /\ Cardinality(JobsOf(r)) \in Nat
<1>1. IsFiniteSet(JobIds)
  BY BoundsAssumption, FS_Interval DEF JobIds
<1>2. JobsOf(r) \in SUBSET JobIds
  BY DEF JobsOf
<1> QED
  BY <1>1, <1>2, FS_Subset, FS_CardinalityType

LEMMA LatestIsCount ==
  ASSUME NEW r \in Runs, AttemptsNumberedInOrder
  PROVE  LatestAttempt(r) = Cardinality(JobsOf(r))
<1> DEFINE n == Cardinality(JobsOf(r))
<1>1. n \in Nat /\ {jobs[j].attempt : j \in JobsOf(r)} = 1..n
  BY RowsAreFinite DEF AttemptsNumberedInOrder
<1> HIDE DEF n
<1>2. CASE n = 0
  <2>1. {jobs[j].attempt : j \in JobsOf(r)} = {}
    BY <1>1, <1>2
  <2>2. LatestAttempt(r) = 0
    <3> DEFINE A == {jobs[j].attempt : j \in JobsOf(r)}
    <3>1. LatestAttempt(r) = IF A = {} THEN 0 ELSE CHOOSE a \in A : \A b \in A : b <= a
      BY DEF LatestAttempt
    <3> HIDE DEF A
    <3> QED BY <2>1, <3>1 DEF A
  <2> QED
    BY <1>2, <2>2 DEF n
<1>3. CASE n # 0
  <2>1. n \in 1..n /\ \A b \in 1..n : b <= n
    BY <1>1, <1>3
  <2>2. LatestAttempt(r) = CHOOSE a \in 1..n : \A b \in 1..n : b <= a
    BY <1>1, <2>1 DEF LatestAttempt
  <2>3. LatestAttempt(r) \in 1..n /\ \A b \in 1..n : b <= LatestAttempt(r)
    BY <2>1, <2>2
  <2> QED
    BY <1>1, <2>1, <2>3 DEF n
<1> QED
  BY <1>2, <1>3 DEF n

\* A row added to a run without an open attempt, or in the place of its open one,
\* takes the next number.
LEMMA NextNumber ==
  ASSUME IInv, RowsStay, AttemptsNumberedInOrder, NEW r \in Runs,
         njobs + 1 \in JobIds, njobs + 1 \notin JobsOf(r),
         JobsOf(r)' = JobsOf(r) \cup {njobs + 1},
         OpenJobs(r)' \subseteq {njobs + 1},
         jobs'[njobs + 1].attempt = Cardinality(JobsOf(r)) + 1
  PROVE  /\ {jobs'[j].attempt : j \in JobsOf(r)'} = 1..Cardinality(JobsOf(r)')
         /\ \A j \in OpenJobs(r)' : jobs'[j].attempt = Cardinality(JobsOf(r)')
<1> DEFINE n == Cardinality(JobsOf(r))
           A == {jobs[j].attempt : j \in JobsOf(r)}
<1>1. Cardinality(JobsOf(r)') = n + 1
  BY RowsAreFinite, FS_AddElement
<1>2. n \in Nat /\ A = 1..n
  BY RowsAreFinite DEF AttemptsNumberedInOrder
<1>3. \A j \in JobsOf(r) : jobs'[j].attempt = jobs[j].attempt
  BY DEF RowsStay, JobsOf
<1>4. {jobs'[j].attempt : j \in JobsOf(r)'} = A \cup {n + 1}
  BY <1>3
<1> HIDE DEF n, A
<1>5. (1..n) \cup {n + 1} = 1..(n + 1)
  BY <1>2
<1>6. \A j \in OpenJobs(r)' : jobs'[j].attempt = n + 1
  BY DEF n
<1> QED
  BY <1>1, <1>2, <1>4, <1>5, <1>6

LEMMA NumberedNext ==
  ASSUME IInv, OInv, AttemptsNumberedInOrder, RowStep
  PROVE  AttemptsNumberedInOrder'
<1>0. /\ TypeOK /\ Rows /\ RowsStay /\ njobs \in Nat
      /\ \A r : njobs + 1 \notin JobsOf(r)
  BY RowsAreKept, BoundsAssumption DEF IInv, TypeOK, Rows, JobIds, JobsOf
<1> SUFFICES ASSUME NEW r \in Runs
             PROVE  /\ {jobs'[j].attempt : j \in JobsOf(r)'} = 1..Cardinality(JobsOf(r)')
                    /\ \A j \in OpenJobs(r)' : jobs'[j].attempt = Cardinality(JobsOf(r)')
  BY DEF AttemptsNumberedInOrder
<1> DEFINE n == Cardinality(JobsOf(r))
<1>1. CASE KeepsRows(r)
  <2>1. \A j \in JobsOf(r) : jobs'[j].attempt = jobs[j].attempt
    BY <1>0 DEF RowsStay, JobsOf
  <2>2. JobsOf(r)' = JobsOf(r) /\ OpenJobs(r)' \subseteq OpenJobs(r)
    BY <1>1 DEF KeepsRows
  <2>3. OpenJobs(r) \subseteq JobsOf(r)
    BY DEF OpenJobs
  <2> QED
    BY <2>1, <2>2, <2>3 DEF AttemptsNumberedInOrder
<1>2. CASE AddsRow(r)
  <2>1. PICK attempt \in 1..(njobs + 1) : Inserts(r, attempt)
    BY <1>2 DEF AddsRow
  <2>2. attempt \in Nat /\ Insert(jobs, r, attempt)
    BY <1>0, <2>1 DEF Inserts
  <2>3. njobs + 1 \in JobIds /\ jobs'[njobs + 1].attempt = attempt
    BY <1>0, <2>2, PendingRow DEF TypeOK
  <2>4. attempt = n + 1
    <3>1. CASE runStatus[r] = "absent" /\ attempt = 1
      BY <3>1, FS_EmptySet DEF OInv, Unborn
    <3>2. CASE attempt = LatestAttempt(r) + 1
      BY <3>2, LatestIsCount
    <3> QED
      BY <2>1, <3>1, <3>2 DEF Inserts
  <2> QED
    BY <1>0, <1>2, <2>3, <2>4, InsertsWhereNone, NextNumber DEF AddsRow
<1>3. CASE SwapsRow(r)
  <2>1. PICK j \in OpenJobs(r) : /\ Replaces(j)
                                 /\ JobsOf(r)' = JobsOf(r) \cup {njobs + 1}
                                 /\ OpenJobs(r)' = (OpenJobs(r) \ {j}) \cup {njobs + 1}
    BY <1>3 DEF SwapsRow
  <2>2. OpenJobs(r)' = {njobs + 1}
    BY <2>1 DEF OInv, OneOpen
  <2>3. jobs[j].attempt = n
    BY <2>1 DEF AttemptsNumberedInOrder
  <2>4. njobs + 1 \in JobIds /\ jobs'[njobs + 1].attempt = n + 1
    BY <1>0, <2>1, <2>3, ReplacedRow DEF OpenJobs, JobsOf
  <2> QED
    BY <1>0, <2>1, <2>2, <2>4, NextNumber
<1> QED
  BY <1>1, <1>2, <1>3, RowsOfRun

\* The attempts of a run are numbered without gap or repetition, whoever adds them,
\* and an open one is the last.
THEOREM NumbersAreInOrder == Spec /\ []RetriesApart => []AttemptsNumberedInOrder
<1>1. Init => AttemptsNumberedInOrder
  <2> SUFFICES ASSUME Init, NEW r \in Runs
               PROVE  JobsOf(r) = {}
    BY FS_EmptySet DEF AttemptsNumberedInOrder, OpenJobs
  <2> QED
    BY DEF Init, JobsOf, NoJob
<1>2. IInv /\ OInv /\ AttemptsNumberedInOrder /\ [Next]_vars => AttemptsNumberedInOrder'
  BY RowStepOfNext, NumberedNext
<1> QED
  BY <1>1, <1>2, OpenRows, PTL DEF Spec

-------------------------------------------------------------------------------
(* A queued run has an open attempt *)

\* An execution that has passed MarkRunning and has not failed since.
Started(w) == \/ proc[w].pc = "executing"
              \/ proc[w].pc = "ended" /\ proc[w].exc \in {"none", "cancelled"}

\* While a worker owns the attempt of an execution it started, the run does not
\* wait in the queue.
Begun ==
  \A w \in Workers : Owns(w) /\ Started(w) => runStatus[proc[w].run] # "queued"

\* Only the process that acts changes.
LEMMA OthersStay ==
  ASSUME IInv, NEW p \in Procs, NEW q \in Procs \ {p},
         \/ Poll(p) \/ LoadRun(p) \/ Engine(p) \/ Finalize(p)
         \/ RenewLease(p) \/ LoseLease(p) \/ Request(p) \/ Crash(p)
  PROVE  proc'[q] = proc[q]
<1>0. proc \in [Procs -> Proc]
  BY ProcsFacts DEF IInv
<1>1. ASSUME Engine(p)
      PROVE  proc'[q] = proc[q]
  <2>1. \/ Goto(p, "executing") \/ \E exc \in Exceptions : EngineEnds(p, exc)
    BY <1>1 DEF Engine, StartFails, EdgarStart, AgenticStart, MarkRunning, AbortLeaseLost,
         AbortCancelled, EngineFails, FailRun, EdgarComplete, AgenticComplete,
         CommitResult, PersistFails, Exceptions
  <2> QED
    BY <1>0, <2>1 DEF Goto, EngineEnds, Return
<1>2. CASE Poll(p)
  BY <1>0, <1>2 DEF Poll, BeginEmptyPoll, EndEmptyPoll, TidyOrphan, RescheduleRunning,
     ReclaimQueued, ClaimPending, Claim, Return
<1>3. CASE Finalize(p)
  BY <1>0, <1>3 DEF Finalize, FinalizeLost, FinalizeCompleted, FinalizeCancelled,
     FinalizeNeverStarted, FinalizeRequeue, FinalizeFailed, CloseAttempt, Return
<1>4. CASE LoadRun(p) \/ RenewLease(p) \/ LoseLease(p) \/ Crash(p)
  BY <1>0, <1>4 DEF LoadRun, RenewLease, LoseLease, Crash, Return
<1>5. CASE Request(p)
  BY <1>0, <1>1, <1>5 DEF Request, CancelRead, RetryRead, ExecuteRead, CancelSend,
     CancelCommit, RetryCheck, RetryCommit, Return, Goto
<1> QED
  BY <1>1, <1>2, <1>3, <1>4, <1>5

\* An execution is started by MarkRunning.
LEMMA StartsRunning ==
  ASSUME IInv, [Next]_vars, NEW w \in Workers, Started(w)', ~Started(w)
  PROVE  runStatus'[proc[w].run] = "running"
<1>0. /\ proc \in [Procs -> Proc] /\ Workers \subseteq Procs /\ Clients \subseteq Procs
      /\ runStatus \in [Runs -> AnalysisRunStatus \cup {"absent"}]
      /\ \A c \in Clients : c # w
  BY ProcsFacts, ProcessAssumption DEF IInv, TypeOK
<1>1. ASSUME proc'[w] = proc[w]
      PROVE  FALSE
  BY <1>1 DEF Started
<1>2. CASE Engine(w)
  <2>1. CASE EdgarStart(w) \/ AgenticStart(w)
    <3>1. proc[w].run \in Runs
      BY <1>0, <2>1 DEF EdgarStart, AgenticStart, MarkRunning, IInv, Busy
    <3> QED
      BY <1>0, <2>1, <3>1 DEF EdgarStart, AgenticStart, MarkRunning, SetRun
  <2>2. CASE StartFails(w)
    <3>1. PICK exc \in {"permanent", "transient", "lease_lost"} : EngineEnds(w, exc)
      BY <2>2 DEF StartFails
    <3>2. proc'[w].pc = "ended" /\ proc'[w].exc = exc
      BY <1>0, <3>1 DEF EngineEnds, Proc
    <3> QED
      BY <3>2 DEF Started
  <2>3. CASE ~(EdgarStart(w) \/ AgenticStart(w) \/ StartFails(w))
    BY <1>2, <2>3 DEF Engine, AbortLeaseLost, AbortCancelled, EngineFails, EdgarComplete,
       AgenticComplete, PersistFails, Started
  <2> QED
    BY <2>1, <2>2, <2>3
<1>3. CASE Poll(w)
  <2>1. CASE BeginEmptyPoll(w)
    BY <1>0, <2>1 DEF BeginEmptyPoll, Started, Proc
  <2>2. CASE EndEmptyPoll(w)
    BY <1>0, <2>2, IdleTyped DEF EndEmptyPoll, Return, Started
  <2>3. CASE TidyOrphan(w) \/ RescheduleRunning(w)
    BY <1>1, <2>3 DEF TidyOrphan, RescheduleRunning
  <2>4. ASSUME NEW j, Claim(w, j)
        PROVE  FALSE
    BY <1>0, <2>4 DEF Claim, Idle, Started
  <2> QED
    BY <1>3, <2>1, <2>2, <2>3, <2>4 DEF Poll, ReclaimQueued, ClaimPending
<1>4. CASE LoadRun(w)
  BY <1>0, <1>4 DEF LoadRun, Started, Proc
<1>5. ASSUME Return(w)
      PROVE  FALSE
  BY <1>0, <1>5, IdleTyped DEF Return, Started
<1>6. CASE Finalize(w)
  BY <1>5, <1>6 DEF Finalize, FinalizeLost, FinalizeCompleted, FinalizeCancelled,
     FinalizeNeverStarted, FinalizeRequeue, FinalizeFailed, CloseAttempt
<1>7. CASE RenewLease(w)
  BY <1>1, <1>7 DEF RenewLease
<1>8. CASE LoseLease(w)
  BY <1>0, <1>8 DEF LoseLease, Started, Proc
<1>9. CASE Crash(w)
  BY <1>5, <1>9 DEF Crash
<1>10. CASE UNCHANGED proc
  BY <1>1, <1>10
<1>11. ASSUME NEW p \in Procs \ {w},
              \/ WorkerStep(p) \/ RenewLease(p) \/ LoseLease(p) \/ Request(p) \/ Crash(p)
       PROVE  FALSE
  BY <1>0, <1>1, <1>11, OthersStay DEF WorkerStep
<1>12. CASE \/ UNCHANGED vars
            \/ \E r \in Runs : CreatePending(r) \/ CreateQueued(r)
            \/ \E j \in JobIds : LeaseRunsOut(j) \/ LeaseLapses(j)
  BY <1>10, <1>12 DEF vars, CreatePending, CreateQueued, LeaseRunsOut, LeaseLapses
<1> QED
  BY <1>0, <1>2, <1>3, <1>4, <1>6, <1>7, <1>8, <1>9, <1>11, <1>12 DEF Next, WorkerStep

\* A row that was not just claimed has the token it had, or none.
LEMMA TokensMove ==
  ASSUME IInv, RowStep, NEW j \in JobIds
  PROVE  \/ jobs'[j].token = jobs[j].token /\ jobs'[j].status = jobs[j].status
         \/ jobs'[j].token = NoToken /\ jobs'[j].status # "running"
         \/ jobs'[j].token = claims + 1
<1>0. TypeOK /\ Rows /\ njobs \in Nat
  BY BoundsAssumption DEF IInv, TypeOK
<1>1. CASE UNCHANGED <<jobs, njobs, claims>>
  BY <1>1
<1>2. CASE ClaimsRow \/ SetsLease
  BY <1>0, <1>2, ClaimedRow, LeasedRow DEF ClaimsRow, SetsLease
<1>3. CASE ClosesRows
  BY <1>0, <1>3, ClosedRow DEF ClosesRows, ClosedStatus
<1>4. CASE InsertsRow
  <2>1. PICK r \in Runs, attempt \in Nat : Insert(jobs, r, attempt)
    BY <1>0, <1>4 DEF InsertsRow, Inserts
  <2> QED
    BY <1>0, <2>1, PendingRow DEF TypeOK
<1>5. CASE ReplacesRow
  BY <1>0, <1>5, ReplacedRow DEF ReplacesRow
<1> QED
  BY <1>1, <1>2, <1>3, <1>4, <1>5 DEF RowStep

\* What a worker owns after a step that leaves it its attempt, it owned before.
LEMMA OwnershipIsOld ==
  ASSUME IInv, RowStep, NEW w \in Workers, Engaged(w), Owns(w)',
         proc'[w].job = proc[w].job, proc'[w].token = proc[w].token
  PROVE  /\ Owns(w) /\ proc[w].job \in JobIds
         /\ proc[w].job \in OpenJobs(proc[w].run)
         /\ jobs'[proc[w].job].status = "running"
<1>1. /\ w \in Procs /\ proc[w].job \in JobIds /\ proc[w].job # 0
      /\ jobs[proc[w].job].status # "absent" /\ jobs[proc[w].job].run = proc[w].run
  BY DEF IInv, Carries, Procs, JobIds
<1>2. jobs'[proc[w].job].status = "running" /\ jobs'[proc[w].job].token = proc[w].token
  BY DEF Owns, OwnedBy
<1>3. proc[w].token \in Nat /\ proc[w].token <= claims /\ claims \in Nat
  BY <1>1 DEF IInv, TypeOK, Proc, Tokens
<1>4. /\ jobs[proc[w].job].status = "running"
      /\ jobs[proc[w].job].token = proc[w].token
  BY <1>1, <1>2, <1>3, TokensMove
<1> QED
  BY <1>1, <1>2, <1>4 DEF Owns, OwnedBy, OpenJobs, JobsOf, OpenStatus

LEMMA BegunNext ==
  ASSUME IInv, OInv, Begun, [Next]_vars
  PROVE  Begun'
<1> SUFFICES ASSUME NEW w \in Workers, Owns(w)', Started(w)',
                    NEW r, r = proc'[w].run, runStatus'[r] = "queued"
             PROVE  FALSE
  BY DEF Begun
<1>1. RowStep /\ Moves(w) /\ StatusStep
  BY RowStepOfNext, MovesOfNext, StatusesMove
<1>2. Engaged(w)'
  BY DEF Started, Engaged
<1>3. ~Claims(w)
  BY DEF Claims, Started, Idle
<1>4. /\ Engaged(w) /\ proc'[w].job = proc[w].job
      /\ proc'[w].run = proc[w].run /\ proc'[w].token = proc[w].token
  BY <1>1, <1>2, <1>3 DEF Moves
<1> DEFINE j == proc[w].job
<1>5. /\ Owns(w) /\ j \in JobIds /\ j \in OpenJobs(r) /\ jobs'[j].status = "running"
      /\ r \in Runs
  BY <1>1, <1>4, OwnershipIsOld DEF IInv, Busy, Engaged, Procs
<1>6. Started(w)
  BY <1>4, StartsRunning
<1>7. runStatus[r] # "queued"
  BY <1>4, <1>5, <1>6 DEF Begun
<1>8. BecomesQueued(r)
  BY <1>1, <1>5, <1>7 DEF StatusStep
<1>9. ~\E attempt : Inserts(r, attempt)
  BY <1>5, InsertsWhereNone
<1>10. PICK k \in JobIds : jobs[k].run = r /\ Replaces(k)
  BY <1>8, <1>9 DEF BecomesQueued
<1>11. k \in OpenJobs(r)
  BY <1>10 DEF Replaces, OpenJobs, JobsOf, OpenStatus
<1>12. k = j
  BY <1>5, <1>11 DEF OInv, OneOpen
<1> QED
  BY <1>5, <1>10, <1>12, ReplacedRow DEF IInv

\* Closing rows, seen from one row of them.
LEMMA ClosedWith ==
  ASSUME TypeOK, NEW j \in JobIds, NEW k, NEW status,
         jobs' = WithClosed({k}, status), jobs'[j] # jobs[j]
  PROVE  j = k
BY DEF WithClosed

\* An attempt is not closed for good under a run that stays in the queue.
LEMMA ClosingEndsQueue ==
  ASSUME IInv, Begun, [Next]_vars, NEW j \in JobIds,
         jobs[j].status \in OpenStatus, jobs'[j].status \notin OpenStatus
  PROVE  runStatus[jobs[j].run] # "queued" \/ runStatus'[jobs[j].run] # "queued"
<1> DEFINE Goal == runStatus[jobs[j].run] # "queued" \/ runStatus'[jobs[j].run] # "queued"
<1>0. /\ TypeOK /\ Rows /\ jobs[j].run \in Runs
      /\ runStatus \in [Runs -> AnalysisRunStatus \cup {"absent"}]
      /\ proc \in [Procs -> Proc] /\ Workers \subseteq Procs /\ Clients \subseteq Procs
  BY ProcsFacts DEF IInv, TypeOK, Rows, OpenStatus
<1>1. jobs' # jobs /\ jobs'[j] # jobs[j]
  OBVIOUS
<1>2. ~ClaimsRow /\ ~SetsLease /\ ~InsertsRow
  <2>1. ~ClaimsRow /\ ~SetsLease
    BY <1>0, ClaimedRow, LeasedRow DEF ClaimsRow, SetsLease, OpenStatus
  <2>2. ~InsertsRow
    <3> SUFFICES ASSUME InsertsRow PROVE FALSE
      OBVIOUS
    <3>1. PICK r \in Runs, attempt \in Nat : Insert(jobs, r, attempt)
      BY <1>0, BoundsAssumption DEF InsertsRow, Inserts, TypeOK
    <3>2. jobs'[j] = jobs[j] \/ jobs'[j].status = "pending"
      BY <1>0, <3>1, PendingRow DEF TypeOK
    <3> QED
      BY <1>1, <3>2 DEF OpenStatus
  <2> QED
    BY <2>1, <2>2
<1>3. ASSUME NEW r \in Runs, CreatePending(r) \/ CreateQueued(r)
      PROVE  FALSE
  <2>1. CASE CreateQueued(r)
    <3>1. Inserts(r, 1) /\ 1 \in 1..(njobs + 1)
      BY <1>0, <2>1, BoundsAssumption DEF CreateQueued, Inserts, TypeOK
    <3> QED
      BY <1>2, <3>1 DEF InsertsRow
  <2> QED
    BY <1>1, <1>3, <2>1 DEF CreatePending
<1>4. ASSUME NEW w \in Workers, Poll(w)
      PROVE  Goal
  <2>1. CASE TidyOrphan(w)
    <3> DEFINE k == OldestCreated(Orphans)
    <3>1. k \in Orphans
      BY <1>0, <2>1, OldestIsMember DEF TidyOrphan, TidiesOrphan, Visible, Orphans
    <3>2. j = k
      BY <1>0, <1>1, <2>1, ClosedWith DEF TidyOrphan
    <3> HIDE DEF k
    <3> QED
      BY <3>1, <3>2 DEF Orphans
  <2>2. CASE RescheduleRunning(w)
    <3> DEFINE k == OldestClaimed(StaleRunning)
    <3>1. k \in StaleRunning
      BY <1>0, <2>2, OldestIsMember
         DEF RescheduleRunning, TidiesRunning, Visible, StaleRunning
    <3>2. \/ jobs' = WithClosed({k}, "failed")
          \/ /\ jobs[k].attempt < MaxAttempts
             /\ Insert(WithClosed({k}, "failed"), jobs[k].run, jobs[k].attempt + 1)
             /\ SetRun(jobs[k].run, "queued") /\ UNCHANGED claims
      BY <2>2 DEF RescheduleRunning
    <3> HIDE DEF k
    <3>3. CASE jobs' = WithClosed({k}, "failed")
      BY <1>0, <1>1, <3>1, <3>3, ClosedWith DEF StaleRunning
    <3>4. CASE Replaces(k)
      <4>1. j = k \/ jobs'[j] = jobs[j] \/ jobs'[j].status = "pending"
        BY <1>0, <3>1, <3>4, ReplacedRow DEF StaleRunning
      <4> QED
        BY <1>1, <3>1, <4>1 DEF StaleRunning, OpenStatus
    <3> QED
      BY <3>1, <3>2, <3>3, <3>4 DEF Replaces, StaleRunning, Stale
  <2>3. ASSUME NEW k \in JobIds, Claim(w, k), Stale(k) \/ k \in Claimable
        PROVE  Goal
    BY <1>2, <2>3 DEF Claim, ClaimsRow
  <2>4. CASE ReclaimQueued(w)
    <3>1. OldestClaimed(Visible(StaleQueued)) \in StaleQueued
      BY <1>0, <2>4, OldestIsMember DEF ReclaimQueued, Visible, StaleQueued
    <3> QED
      BY <2>3, <2>4, <3>1 DEF ReclaimQueued, StaleQueued
  <2>5. CASE ClaimPending(w)
    <3>1. OldestCreated(Visible(Claimable)) \in Claimable
      BY <1>0, <2>5, OldestIsMember DEF ClaimPending, Visible, Claimable
    <3> QED
      BY <2>3, <2>5, <3>1 DEF ClaimPending, Claimable
  <2> QED
    BY <1>1, <1>4, <2>1, <2>2, <2>4, <2>5 DEF Poll, BeginEmptyPoll, EndEmptyPoll, store
<1>5. ASSUME NEW w \in Workers, Finalize(w)
      PROVE  Goal
  <2>1. ~FinalizeLost(w)
    BY <1>1 DEF FinalizeLost, store
  <2>2. /\ proc[w].job \in JobIds /\ jobs[proc[w].job].status = "running"
        /\ jobs[proc[w].job].run = proc[w].run /\ Finalizing(w)
    BY <1>0, <1>5, <2>1 DEF Finalize, FinalizeCompleted, FinalizeCancelled, Failed, Raised,
       FinalizeNeverStarted, FinalizeRequeue, FinalizeFailed, Finalizing, Owns, OwnedBy,
       Proc, IInv, Carries, Engaged
  <2>3. CASE FinalizeRequeue(w)
    <3>1. runStatus[proc[w].run] # "queued" /\ Replaces(proc[w].job)
      BY <2>2, <2>3 DEF FinalizeRequeue, Replaces, Retriable
    <3>2. j = proc[w].job \/ jobs'[j] = jobs[j] \/ jobs'[j].status = "pending"
      BY <1>0, <2>2, <3>1, ReplacedRow
    <3> QED
      BY <1>1, <2>2, <3>1, <3>2 DEF OpenStatus
  <2>4. CASE ~FinalizeRequeue(w)
    <3>1. \E status : CloseAttempt(w, status)
      BY <1>5, <2>1, <2>4 DEF Finalize, FinalizeCompleted, FinalizeCancelled,
         FinalizeNeverStarted, FinalizeFailed
    <3>2. j = proc[w].job /\ jobs[j].run = proc[w].run
      BY <1>0, <1>1, <2>2, <3>1, ClosedWith DEF CloseAttempt
    <3>3. CASE FinalizeCompleted(w) \/ FinalizeCancelled(w)
      <4>1. runStatus[proc[w].run] # "queued" \/ Started(w)
        BY <2>2, <3>3 DEF FinalizeCompleted, FinalizeCancelled, Finalizing, Started
      <4> QED
        BY <2>2, <3>2, <4>1 DEF Begun, Finalizing
    <3>4. CASE FinalizeNeverStarted(w)
      BY <1>0, <3>2, <3>4 DEF FinalizeNeverStarted, SetRun
    <3>5. CASE FinalizeFailed(w)
      BY <3>2, <3>5 DEF FinalizeFailed
    <3> QED
      BY <1>5, <2>1, <2>4, <3>3, <3>4, <3>5 DEF Finalize
  <2> QED
    BY <2>3, <2>4
<1>6. ASSUME NEW p \in Procs, Engine(p)
      PROVE  FALSE
  BY <1>1, <1>6 DEF Engine, StartFails, EdgarStart, AgenticStart, MarkRunning,
     AbortLeaseLost, AbortCancelled, EngineFails, EdgarComplete, AgenticComplete,
     CommitResult, PersistFails, store
<1>7. ASSUME NEW w \in Workers, RenewLease(w)
      PROVE  FALSE
  <2>1. SetsLease
    BY <1>0, <1>7 DEF RenewLease, SetsLease, Owns, OwnedBy, Proc
  <2> QED
    BY <1>2, <2>1
<1>8. ASSUME NEW c \in Clients, Request(c)
      PROVE  Goal
  <2>1. CASE CancelCommit(c)
    <3>1. jobs[j].run = proc[c].run
      BY <1>1, <2>1 DEF CancelCommit, WithClosed, OpenJobs, JobsOf
    <3> QED
      BY <1>0, <2>1, <3>1 DEF CancelCommit, SetRun
  <2>2. CASE RetryCommit(c)
    <3>1. proc[c].run \in Runs
      BY <1>0, <2>2 DEF RetryCommit, IInv, Busy
    <3>2. LatestAttempt(proc[c].run) + 1 \in 1..(njobs + 1)
      BY <1>0, <3>1, LatestAttemptBound, BoundsAssumption DEF TypeOK
    <3>3. Inserts(proc[c].run, LatestAttempt(proc[c].run) + 1)
      BY <2>2 DEF RetryCommit, Inserts
    <3> QED
      BY <1>2, <3>1, <3>2, <3>3 DEF InsertsRow
  <2> QED
    BY <1>0, <1>1, <1>6, <1>8, <2>1, <2>2 DEF Request, CancelRead, RetryRead, ExecuteRead,
       CancelSend, RetryCheck, store
<1>9. ASSUME NEW k \in JobIds, LeaseRunsOut(k) \/ LeaseLapses(k)
      PROVE  FALSE
  <2>1. SetsLease
    BY <1>9 DEF LeaseRunsOut, LeaseLapses, ExpireLease, SetsLease
  <2> QED
    BY <1>2, <2>1
<1>10. CASE \/ UNCHANGED vars
            \/ \E w \in Workers : LoadRun(w) \/ LoseLease(w)
            \/ \E p \in Procs : Crash(p)
  BY <1>1, <1>10 DEF vars, LoadRun, LoseLease, Crash, store
<1> QED
  BY <1>0, <1>3, <1>4, <1>5, <1>6, <1>7, <1>8, <1>9, <1>10 DEF Next, WorkerStep

LEMMA QueuedNext ==
  ASSUME IInv, Begun, QueuedHasOpenJob, [Next]_vars
  PROVE  QueuedHasOpenJob'
<1> SUFFICES ASSUME NEW r \in Runs, runStatus'[r] = "queued"
             PROVE  HasOpenJob(r)'
  BY DEF QueuedHasOpenJob
<1>0. /\ StatusStep /\ RowStep /\ RowsStay
      /\ TypeOK /\ Rows /\ njobs \in Nat /\ jobs \in [JobIds -> Job]
  BY StatusesMove, RowStepOfNext, RowsAreKept, BoundsAssumption DEF IInv, TypeOK
<1>1. ASSUME NEW i \in JobIds, jobs'[i].status \in OpenStatus, jobs'[i].run = r
      PROVE  HasOpenJob(r)'
  <2>1. i \in OpenJobs(r)'
    BY <1>1 DEF OpenJobs, JobsOf, OpenStatus
  <2> QED
    BY <2>1 DEF HasOpenJob
<1>2. ASSUME NEW attempt \in 1..(njobs + 1), Inserts(r, attempt)
      PROVE  HasOpenJob(r)'
  <2>1. attempt \in Nat /\ Insert(jobs, r, attempt)
    BY <1>0, <1>2 DEF Inserts
  <2> QED
    BY <1>0, <1>1, <2>1, PendingRow DEF OpenStatus
<1>3. ASSUME NEW k \in JobIds, jobs[k].run = r, Replaces(k)
      PROVE  HasOpenJob(r)'
  BY <1>0, <1>1, <1>3, ReplacedRow DEF OpenStatus
<1>4. CASE runStatus[r] = "queued"
  <2>1. PICK j \in JobIds : jobs[j].status \in OpenStatus /\ jobs[j].run = r
    BY <1>4 DEF QueuedHasOpenJob, HasOpenJob, OpenJobs, JobsOf
  <2>2. jobs'[j].status \in OpenStatus
    BY <1>4, <2>1, ClosingEndsQueue
  <2>3. jobs'[j].run = r
    BY <1>0, <2>1 DEF RowsStay, OpenStatus
  <2> QED
    BY <1>1, <2>2, <2>3
<1> QED
  BY <1>0, <1>2, <1>3, <1>4 DEF StatusStep, BecomesQueued

\* A queued run is never forgotten: whatever closes its open attempt takes the run
\* out of the queue or puts another attempt in.
THEOREM NothingIsForgotten == Spec /\ []RetriesApart => []QueuedHasOpenJob
<1>1. Init => Begun /\ QueuedHasOpenJob
  BY DEF Init, Begun, Started, Idle, QueuedHasOpenJob, Procs
<1>2. IInv /\ OInv /\ Begun /\ QueuedHasOpenJob /\ [Next]_vars
        => Begun' /\ QueuedHasOpenJob'
  BY BegunNext, QueuedNext
<1> QED
  BY <1>1, <1>2, OpenRows, PTL DEF Spec

\* No row is numbered beyond run_job_max_attempts if users do not retry runs whose
\* attempts are used up: the retry does not look at the bound.
RetriesBelowCeiling ==
  \A c \in Clients : proc[c].pc = "retry_checked"
                       => LatestAttempt(proc[c].run) < MaxAttempts

WithinCeiling == \A j \in JobIds : jobs[j].attempt <= MaxAttempts

LEMMA WithinNext ==
  ASSUME IInv, RetriesBelowCeiling, WithinCeiling, RowStep
  PROVE  WithinCeiling'
<1>0. /\ TypeOK /\ Rows /\ njobs \in Nat /\ jobs \in [JobIds -> Job]
      /\ MaxAttempts \in Nat \ {0}
  BY BoundsAssumption DEF IInv, TypeOK
<1>1. CASE UNCHANGED <<jobs, njobs, claims>>
  BY <1>1 DEF WithinCeiling
<1>2. CASE ClaimsRow \/ SetsLease
  BY <1>0, <1>2, ClaimedRow, LeasedRow DEF ClaimsRow, SetsLease, WithinCeiling
<1>3. CASE ClosesRows
  <2>1. PICK S \in SUBSET JobIds, status \in ClosedStatus : jobs' = WithClosed(S, status)
    BY <1>3 DEF ClosesRows
  <2>2. \A j \in JobIds : jobs'[j].attempt = jobs[j].attempt
    BY <1>0, <2>1, ClosedRow
  <2> QED
    BY <2>2 DEF WithinCeiling
<1>4. CASE InsertsRow
  <2>1. PICK r \in Runs, attempt \in 1..(njobs + 1) : Inserts(r, attempt)
    BY <1>4 DEF InsertsRow
  <2>2. attempt \in Nat /\ Insert(jobs, r, attempt)
    BY <1>0, <2>1 DEF Inserts
  <2>3. attempt <= MaxAttempts
    <3>1. CASE \E c \in Clients : /\ proc[c].pc = "retry_checked" /\ proc[c].run = r
                                  /\ attempt = LatestAttempt(r) + 1
      <4>1. LatestAttempt(r) \in Nat /\ LatestAttempt(r) < MaxAttempts
        BY <1>0, <3>1, LatestAttemptBound DEF RetriesBelowCeiling
      <4> QED
        BY <1>0, <3>1, <4>1
    <3> QED
      BY <1>0, <2>1, <3>1 DEF Inserts
  <2> QED
    BY <1>0, <2>2, <2>3, PendingRow DEF WithinCeiling
<1>5. CASE ReplacesRow
  <2>1. PICK k \in JobIds : Replaces(k)
    BY <1>5 DEF ReplacesRow
  <2>2. jobs[k].attempt \in Nat /\ jobs[k].attempt + 1 <= MaxAttempts
    BY <1>0, <2>1 DEF Replaces, Job
  <2> QED
    BY <1>0, <2>1, <2>2, ReplacedRow DEF WithinCeiling
<1> QED
  BY <1>1, <1>2, <1>3, <1>4, <1>5 DEF RowStep

\* A queued run has an attempt that claim_next_runnable may hand out, whatever
\* lapses, crashes or is cancelled: a retry past the ceiling, or two at once, are
\* the only ways to lose it.
THEOREM QueuedIsServable ==
  Spec /\ []RetriesApart /\ []RetriesBelowCeiling => []QueuedIsClaimable
<1>1. Init => WithinCeiling
  BY BoundsAssumption DEF Init, WithinCeiling, NoJob
<1>2. IInv /\ RetriesBelowCeiling /\ WithinCeiling /\ [Next]_vars => WithinCeiling'
  BY RowStepOfNext, WithinNext
<1>3. WithinCeiling /\ QueuedHasOpenJob => QueuedIsClaimable
  <2> SUFFICES ASSUME WithinCeiling, QueuedHasOpenJob,
                      NEW r \in Runs, runStatus[r] = "queued"
               PROVE  \E j \in OpenJobs(r) : jobs[j].attempt <= MaxAttempts
    BY DEF QueuedIsClaimable
  <2>1. PICK j : j \in OpenJobs(r)
    BY DEF QueuedHasOpenJob, HasOpenJob
  <2>2. j \in JobIds
    BY <2>1 DEF OpenJobs, JobsOf
  <2> QED
    BY <2>1, <2>2 DEF WithinCeiling
<1> QED
  BY <1>1, <1>2, <1>3, Invariant, NothingIsForgotten, PTL DEF Spec

-------------------------------------------------------------------------------
(* The job table implements the attempt ledger *)

\* What the ledger shows of a run is what its open row says.
Shown ==
  /\ Opened = [r \in Runs |-> Opened[r]]
  /\ Phase = [r \in Runs |-> Phase[r]] /\ Holder = [r \in Runs |-> Holder[r]]
  /\ \A r \in Runs :
       /\ Opened[r] = Cardinality(JobsOf(r))
       /\ OpenJobs(r) = {} => Phase[r] = "none" /\ Holder[r] = 0
       /\ \A j \in OpenJobs(r) :
            /\ Phase[r] = IF jobs[j].status = "pending" THEN "waiting" ELSE "held"
            /\ Holder[r] = jobs[j].token

LEMMA LedgerShowsRows == OneOpen => Shown
<1> SUFFICES ASSUME OneOpen PROVE Shown
  OBVIOUS
<1>1. /\ Opened = [r \in Runs |-> Opened[r]]
      /\ Phase = [r \in Runs |-> Phase[r]] /\ Holder = [r \in Runs |-> Holder[r]]
  BY DEF Opened, Phase, Holder
<1>2. ASSUME NEW r \in Runs
      PROVE  /\ Opened[r] = Cardinality(JobsOf(r))
             /\ OpenJobs(r) = {} => Phase[r] = "none" /\ Holder[r] = 0
  BY DEF Opened, Phase, Holder, HasOpenJob
<1>3. ASSUME NEW r \in Runs, NEW j \in OpenJobs(r)
      PROVE  /\ Phase[r] = IF jobs[j].status = "pending" THEN "waiting" ELSE "held"
             /\ Holder[r] = jobs[j].token
  <2>1. TheOpenJob(r) \in OpenJobs(r)
    BY DEF TheOpenJob
  <2>2. TheOpenJob(r) = j /\ HasOpenJob(r)
    BY <2>1 DEF OneOpen, HasOpenJob
  <2> QED
    BY <2>2 DEF Phase, Holder
<1> QED
  BY <1>1, <1>2, <1>3 DEF Shown

\* A step that leaves the rows of a run alone, but for their leases.
SameRows(r) ==
  /\ JobsOf(r)' = JobsOf(r) /\ OpenJobs(r)' = OpenJobs(r)
  /\ \A j \in OpenJobs(r) : /\ jobs'[j].status = jobs[j].status
                            /\ jobs'[j].token = jobs[j].token

LEMMA RowsLeftAlone ==
  ASSUME NEW r \in Runs,
         \A j \in JobIds :
           \/ /\ jobs'[j].status = jobs[j].status /\ jobs'[j].run = jobs[j].run
              /\ jobs'[j].token = jobs[j].token
           \/ /\ jobs[j].status = "absent" \/ jobs[j].run # r
              /\ jobs'[j].run # r
  PROVE  SameRows(r)
<1>1. JobsOf(r)' = JobsOf(r) /\ OpenJobs(r)' = OpenJobs(r)
  BY DEF JobsOf, OpenJobs
<1>2. ASSUME NEW j \in OpenJobs(r)
      PROVE  jobs'[j].status = jobs[j].status /\ jobs'[j].token = jobs[j].token
  BY DEF JobsOf, OpenJobs
<1> QED
  BY <1>1, <1>2 DEF SameRows

LEMMA SameShown ==
  ASSUME Shown, Shown', NEW r \in Runs, SameRows(r)
  PROVE  Opened'[r] = Opened[r] /\ Phase'[r] = Phase[r] /\ Holder'[r] = Holder[r]
<1>1. CASE OpenJobs(r) = {}
  BY <1>1 DEF Shown, SameRows
<1>2. ASSUME NEW j \in OpenJobs(r)
      PROVE  Phase'[r] = Phase[r] /\ Holder'[r] = Holder[r]
  BY DEF Shown, SameRows
<1> QED
  BY <1>1, <1>2 DEF Shown, SameRows

\* The ledger after a step on the rows of one run.
LEMMA LedgerMoves ==
  ASSUME Shown, Shown', NEW r \in Runs, \A q \in Runs \ {r} : SameRows(q)
  PROVE  /\ Opened' = [Opened EXCEPT ![r] = Opened'[r]]
         /\ Phase'  = [Phase EXCEPT ![r] = Phase'[r]]
         /\ Holder' = [Holder EXCEPT ![r] = Holder'[r]]
<1>1. \A q \in Runs \ {r} : /\ Opened'[q] = Opened[q] /\ Phase'[q] = Phase[q]
                            /\ Holder'[q] = Holder[q]
  BY SameShown
<1>2. ASSUME NEW f, NEW g, f = [q \in Runs |-> f[q]], g = [q \in Runs |-> g[q]],
             \A q \in Runs \ {r} : g[q] = f[q]
      PROVE  g = [f EXCEPT ![r] = g[r]]
  BY <1>2
<1> QED
  BY <1>1, <1>2 DEF Shown

LEMMA LedgerStill ==
  ASSUME Shown, Shown', \A r \in Runs : SameRows(r), claims' = claims
  PROVE  UNCHANGED Ledger!ledger
<1>1. \A r \in Runs : /\ Opened'[r] = Opened[r] /\ Phase'[r] = Phase[r]
                      /\ Holder'[r] = Holder[r]
  BY SameShown
<1>2. Opened' = Opened /\ Phase' = Phase /\ Holder' = Holder
  BY <1>1 DEF Shown
<1> QED
  BY <1>2 DEF Ledger!ledger

LEMMA LedgerTakes ==
  ASSUME IInv, OneOpen, Shown, Shown', ClaimsRow
  PROVE  Ledger!Next
<1>1. PICK j \in JobIds : /\ Stale(j) \/ j \in Claimable
                          /\ jobs' = WithClaim(j) /\ claims' = claims + 1
  BY DEF ClaimsRow
<1> DEFINE r == jobs[j].run
<1>2. jobs[j].status \in OpenStatus /\ r \in Runs
  BY <1>1 DEF Stale, Claimable, OpenStatus, IInv, Rows
<1>3. /\ \A i \in JobIds \ {j} : jobs'[i] = jobs[i]
      /\ jobs'[j].status = "running" /\ jobs'[j].token = claims + 1 /\ jobs'[j].run = r
  BY <1>1, ClaimedRow DEF IInv
<1>4. \A q \in Runs \ {r} : SameRows(q)
  BY <1>3, RowsLeftAlone
<1>5. /\ j \in OpenJobs(r) /\ j \in OpenJobs(r)' /\ JobsOf(r)' = JobsOf(r)
  BY <1>2, <1>3 DEF OpenJobs, JobsOf, OpenStatus
<1>6. /\ Phase[r] \in {"waiting", "held"} /\ Phase'[r] = "held"
      /\ Holder'[r] = claims + 1 /\ Opened'[r] = Opened[r]
  BY <1>2, <1>3, <1>5 DEF Shown
<1> HIDE DEF r
<1>7. Opened' = [Opened EXCEPT ![r] = Opened[r]] /\ Opened' = Opened
  BY <1>2, <1>4, <1>6, LedgerMoves DEF Shown
<1>8. /\ Phase' = [Phase EXCEPT ![r] = "held"]
      /\ Holder' = [Holder EXCEPT ![r] = claims + 1]
  BY <1>2, <1>4, <1>6, LedgerMoves
<1>9. Ledger!Take(r)
  BY <1>1, <1>6, <1>7, <1>8 DEF Ledger!Take
<1> QED
  BY <1>2, <1>9 DEF Ledger!Next

LEMMA LedgerEnds ==
  ASSUME IInv, OneOpen, Shown, Shown', ClosesRows
  PROVE  Ledger!Next \/ UNCHANGED Ledger!ledger
<1>1. PICK r \in Runs, S \in SUBSET JobIds, status \in ClosedStatus :
        /\ \A j \in S : jobs[j].status \in OpenStatus /\ jobs[j].run = r
        /\ jobs' = WithClosed(S, status) /\ claims' = claims
  BY DEF ClosesRows
<1>2. /\ \A j \in JobIds \ S : jobs'[j] = jobs[j]
      /\ \A j \in S : jobs'[j].status = status /\ jobs'[j].run = jobs[j].run
  BY <1>1, ClosedRow DEF IInv
<1>3. \A q \in Runs \ {r} : SameRows(q)
  BY <1>1, <1>2, RowsLeftAlone
<1>4. CASE S = {}
  <2>1. SameRows(r)
    BY <1>2, <1>4, RowsLeftAlone
  <2> QED
    BY <1>1, <1>3, <2>1, LedgerStill
<1>5. ASSUME NEW j \in S
      PROVE  Ledger!Next
  <2>1. j \in OpenJobs(r)
    BY <1>1, <1>5 DEF OpenJobs, JobsOf, OpenStatus
  <2>2. JobsOf(r)' = JobsOf(r)
    BY <1>1, <1>2 DEF JobsOf, OpenStatus, ClosedStatus
  <2>3. OpenJobs(r)' = {}
    <3>1. ASSUME NEW i \in OpenJobs(r)'
          PROVE  i \in OpenJobs(r) /\ i \notin S
      BY <1>1, <1>2, <2>2, <3>1 DEF OpenJobs, JobsOf, OpenStatus, ClosedStatus
    <3> QED
      BY <1>5, <2>1, <3>1 DEF OneOpen
  <2>4. /\ Phase[r] \in {"waiting", "held"} /\ Phase'[r] = "none"
        /\ Holder'[r] = 0 /\ Opened'[r] = Opened[r]
    BY <2>1, <2>2, <2>3 DEF Shown
  <2>5. Opened' = [Opened EXCEPT ![r] = Opened[r]] /\ Opened' = Opened
    BY <1>3, <2>4, LedgerMoves DEF Shown
  <2>6. Phase' = [Phase EXCEPT ![r] = "none"] /\ Holder' = [Holder EXCEPT ![r] = 0]
    BY <1>3, <2>4, LedgerMoves
  <2>7. Ledger!End(r)
    BY <1>1, <2>4, <2>5, <2>6 DEF Ledger!End
  <2> QED
    BY <2>7 DEF Ledger!Next
<1> QED
  BY <1>4, <1>5

LEMMA LedgerOpens ==
  ASSUME IInv, OInv, Shown, Shown', InsertsRow
  PROVE  Ledger!Next
<1>0. /\ TypeOK /\ Rows /\ njobs \in Nat /\ jobs \in [JobIds -> Job]
      /\ jobs[njobs + 1].status = "absent" \/ njobs + 1 \notin JobIds
  BY BoundsAssumption DEF IInv, TypeOK, Rows, JobIds
<1>1. PICK r \in Runs, attempt \in 1..(njobs + 1) : Inserts(r, attempt)
  BY DEF InsertsRow
<1>2. attempt \in Nat /\ Insert(jobs, r, attempt) /\ claims' = claims
  BY <1>0, <1>1 DEF Inserts
<1>3. /\ njobs + 1 \in JobIds
      /\ \A j \in JobIds \ {njobs + 1} : jobs'[j] = jobs[j]
      /\ jobs'[njobs + 1].status = "pending"
      /\ jobs'[njobs + 1].token = 0 /\ jobs'[njobs + 1].run = r
  BY <1>0, <1>2, PendingRow DEF NoToken
<1>4. \A q \in Runs \ {r} : SameRows(q)
  BY <1>0, <1>3, RowsLeftAlone
<1>5. OpenJobs(r) = {}
  BY <1>1, InsertsWhereNone
<1>6. /\ njobs + 1 \notin JobsOf(r) /\ JobsOf(r)' = JobsOf(r) \cup {njobs + 1}
      /\ njobs + 1 \in OpenJobs(r)'
  BY <1>0, <1>3 DEF JobsOf, OpenJobs, OpenStatus
<1>7. Cardinality(JobsOf(r)') = Cardinality(JobsOf(r)) + 1
  BY <1>6, RowsAreFinite, FS_AddElement
<1>8. /\ Phase[r] = "none" /\ Phase'[r] = "waiting"
      /\ Holder'[r] = Holder[r] /\ Opened'[r] = Opened[r] + 1
  <2>1. \A j \in OpenJobs(r)' : jobs'[j].status = "pending" =>
                                 Phase'[r] = "waiting" /\ Holder'[r] = jobs'[j].token
    BY DEF Shown
  <2>2. Phase'[r] = "waiting" /\ Holder'[r] = 0
    BY <1>3, <1>6, <2>1
  <2>3. Phase[r] = "none" /\ Holder[r] = 0
    BY <1>5 DEF Shown
  <2>4. Opened'[r] = Opened[r] + 1
    BY <1>7 DEF Shown
  <2> QED
    BY <2>2, <2>3, <2>4
<1>9. Holder' = [Holder EXCEPT ![r] = Holder[r]] /\ Holder' = Holder
  BY <1>4, <1>8, LedgerMoves DEF Shown
<1>10. /\ Phase' = [Phase EXCEPT ![r] = "waiting"]
       /\ Opened' = [Opened EXCEPT ![r] = Opened[r] + 1]
  BY <1>4, <1>8, LedgerMoves
<1>11. Ledger!Open(r)
  BY <1>2, <1>8, <1>9, <1>10 DEF Ledger!Open
<1> QED
  BY <1>11 DEF Ledger!Next

LEMMA LedgerReopens ==
  ASSUME IInv, OInv, Shown, Shown', ReplacesRow
  PROVE  Ledger!Next
<1>0. /\ TypeOK /\ Rows /\ njobs \in Nat /\ jobs \in [JobIds -> Job]
      /\ jobs[njobs + 1].status = "absent" \/ njobs + 1 \notin JobIds
  BY BoundsAssumption DEF IInv, TypeOK, Rows, JobIds
<1>1. PICK j \in JobIds : Replaces(j)
  BY DEF ReplacesRow
<1>2. PICK r \in Runs : r = jobs[j].run /\ jobs[j].status = "running" /\ claims' = claims
  BY <1>0, <1>1 DEF Replaces, Rows
<1>3. /\ njobs + 1 \in JobIds /\ j # njobs + 1
      /\ \A i \in JobIds \ {j, njobs + 1} : jobs'[i] = jobs[i]
      /\ jobs'[j].status = "failed" /\ jobs'[j].run = r
      /\ jobs'[njobs + 1].status = "pending"
      /\ jobs'[njobs + 1].token = 0 /\ jobs'[njobs + 1].run = r
  BY <1>0, <1>1, <1>2, ReplacedRow DEF NoToken
<1>4. \A q \in Runs \ {r} : SameRows(q)
  BY <1>0, <1>2, <1>3, RowsLeftAlone
<1>5. /\ njobs + 1 \notin JobsOf(r) /\ JobsOf(r)' = JobsOf(r) \cup {njobs + 1}
      /\ j \in OpenJobs(r) /\ njobs + 1 \in OpenJobs(r)'
  BY <1>0, <1>2, <1>3 DEF JobsOf, OpenJobs, OpenStatus
<1>6. Cardinality(JobsOf(r)') = Cardinality(JobsOf(r)) + 1
  BY <1>5, RowsAreFinite, FS_AddElement
<1>7. /\ Phase[r] = "held" /\ Phase'[r] = "waiting"
      /\ Holder'[r] = 0 /\ Opened'[r] = Opened[r] + 1
  <2>1. \A i \in OpenJobs(r)' : jobs'[i].status = "pending" =>
                                 Phase'[r] = "waiting" /\ Holder'[r] = jobs'[i].token
    BY <1>2 DEF Shown
  <2>2. Phase'[r] = "waiting" /\ Holder'[r] = 0
    BY <1>3, <1>5, <2>1
  <2>3. Phase[r] = "held"
    BY <1>2, <1>5 DEF Shown
  <2>4. Opened'[r] = Opened[r] + 1
    BY <1>2, <1>6 DEF Shown
  <2> QED
    BY <2>2, <2>3, <2>4
<1>8. /\ Holder' = [Holder EXCEPT ![r] = 0]
      /\ Phase' = [Phase EXCEPT ![r] = "waiting"]
      /\ Opened' = [Opened EXCEPT ![r] = Opened[r] + 1]
  BY <1>2, <1>4, <1>7, LedgerMoves
<1>9. Ledger!EndAndReopen(r)
  BY <1>2, <1>7, <1>8 DEF Ledger!EndAndReopen
<1> QED
  BY <1>2, <1>9 DEF Ledger!Next

LEMMA LedgerStep ==
  ASSUME IInv, OInv, Shown, Shown', RowStep
  PROVE  [Ledger!Next]_(Ledger!ledger)
<1>0. OneOpen
  BY DEF OInv
<1>1. CASE UNCHANGED <<jobs, njobs, claims>>
  BY <1>1, RowsLeftAlone, LedgerStill
<1>2. CASE SetsLease
  <2>1. PICK j \in JobIds, lease \in {"live", "expired"} :
          jobs' = [jobs EXCEPT ![j].lease = lease]
    BY <1>2 DEF SetsLease
  <2>2. /\ \A i \in JobIds : /\ jobs'[i].status = jobs[i].status
                             /\ jobs'[i].token = jobs[i].token
                             /\ jobs'[i].run = jobs[i].run
        /\ claims' = claims
    BY <1>2, <2>1, LeasedRow DEF IInv, SetsLease
  <2> QED
    BY <2>2, RowsLeftAlone, LedgerStill
<1> QED
  BY <1>0, <1>1, <1>2, LedgerTakes, LedgerEnds, LedgerOpens, LedgerReopens DEF RowStep

\* The job table keeps the ledger: every transaction on it opens, takes, ends or
\* replaces one attempt of one run, or shows as no step at all.
THEOREM JobTableKeepsLedger == Spec /\ []RetriesApart => KeepsLedger
<1>1. Init => Ledger!Init
  <2> SUFFICES ASSUME Init PROVE Ledger!Init
    OBVIOUS
  <2>1. \A r \in Runs : JobsOf(r) = {} /\ ~HasOpenJob(r)
    BY DEF Init, JobsOf, OpenJobs, HasOpenJob, NoJob
  <2>2. /\ Opened = [r \in Runs |-> 0] /\ Phase = [r \in Runs |-> "none"]
        /\ Holder = [r \in Runs |-> 0]
    BY <2>1, FS_EmptySet DEF Opened, Phase, Holder
  <2> QED
    BY <2>2 DEF Init, Ledger!Init
<1>2. OInv => Shown
  BY LedgerShowsRows DEF OInv
<1>3. IInv /\ OInv /\ Shown /\ Shown' /\ [Next]_vars => [Ledger!Next]_(Ledger!ledger)
  BY RowStepOfNext, LedgerStep
<1> QED
  BY <1>1, <1>2, <1>3, OpenRows, PTL DEF Spec, KeepsLedger, Ledger!Spec

-------------------------------------------------------------------------------
(* Whoever executes a run owns its attempt                                 *)
(*                                                                         *)
(* A lease that lapses under a live worker, and a cancellation of a run    *)
(* that one is executing, leave an execution behind that owns nothing:     *)
(* these theorems are about the behaviours without them.                   *)

Undisturbed ==
  /\ lapses = 0
  /\ \A c \in Clients, w \in Workers :
       proc[c].pc = "cancel_sent" /\ Engaged(w) => proc[w].run # proc[c].run

\* How a running row changes: it was stale, its run was cancelled before or is
\* now, its lease ran out, or its owner finalized the attempt.
OwnerEnds(w, j) ==
  /\ Owns(w) /\ proc[w].job = j /\ proc[w].pc = "ended" /\ Return(w)
  /\ jobs'[j].status = "completed" => proc[w].exc = "none"

LEMMA RunningRowMoves ==
  ASSUME IInv, [Next]_vars, NEW j \in JobIds,
         jobs[j].status = "running", jobs'[j] # jobs[j]
  PROVE  \/ Stale(j) \/ j \in Orphans \/ ~HeldByLiveWorker(j)
         \/ lapses' = lapses + 1 /\ jobs'[j].token = jobs[j].token
         \/ \E c \in Clients : /\ proc[c].pc = "cancel_sent" /\ proc[c].run = jobs[j].run
                               /\ runStatus'[jobs[j].run] = "cancelled"
         \/ \E w \in Workers : OwnerEnds(w, j)
<1> DEFINE Goal == \/ Stale(j) \/ j \in Orphans \/ ~HeldByLiveWorker(j)
                   \/ lapses' = lapses + 1 /\ jobs'[j].token = jobs[j].token
                   \/ \E c \in Clients : /\ proc[c].pc = "cancel_sent" /\ proc[c].run = jobs[j].run
                                         /\ runStatus'[jobs[j].run] = "cancelled"
                   \/ \E w \in Workers : OwnerEnds(w, j)
<1>0. /\ TypeOK /\ Rows /\ njobs \in Nat /\ jobs \in [JobIds -> Job] /\ jobs' # jobs
      /\ proc \in [Procs -> Proc] /\ Workers \subseteq Procs /\ Clients \subseteq Procs
      /\ j # njobs + 1
  BY ProcsFacts, BoundsAssumption DEF IInv, TypeOK, Rows, JobIds
<1>1. ASSUME NEW r \in Runs, NEW attempt \in Nat, Insert(jobs, r, attempt)
      PROVE  FALSE
  BY <1>0, <1>1, PendingRow
<1>2. ASSUME NEW k \in JobIds, Replaces(k)
      PROVE  j = k
  BY <1>0, <1>2, ReplacedRow
<1>3. ASSUME NEW k \in JobIds, jobs' = WithClaim(k)
      PROVE  j = k
  BY <1>0, <1>3, ClaimedRow
<1>4. ASSUME NEW k \in JobIds, NEW lease, jobs' = [jobs EXCEPT ![k].lease = lease]
      PROVE  j = k
  BY <1>0, <1>4
<1>5. ASSUME NEW r \in Runs, CreatePending(r) \/ CreateQueued(r)
      PROVE  FALSE
  BY <1>0, <1>1, <1>5 DEF CreatePending, CreateQueued
<1>6. ASSUME NEW w \in Workers, Poll(w)
      PROVE  Goal
  <2>1. CASE TidyOrphan(w)
    <3> DEFINE k == OldestCreated(Orphans)
    <3>1. k \in Orphans
      BY <1>0, <2>1, OldestIsMember DEF TidyOrphan, TidiesOrphan, Visible, Orphans
    <3>2. j = k
      BY <1>0, <2>1, ClosedWith DEF TidyOrphan
    <3> HIDE DEF k
    <3> QED
      BY <3>1, <3>2
  <2>2. CASE RescheduleRunning(w)
    <3> DEFINE k == OldestClaimed(StaleRunning)
    <3>1. k \in StaleRunning
      BY <1>0, <2>2, OldestIsMember
         DEF RescheduleRunning, TidiesRunning, Visible, StaleRunning
    <3>2. \/ jobs' = WithClosed({k}, "failed")
          \/ /\ jobs[k].attempt < MaxAttempts
             /\ Insert(WithClosed({k}, "failed"), jobs[k].run, jobs[k].attempt + 1)
             /\ SetRun(jobs[k].run, "queued") /\ UNCHANGED claims
      BY <2>2 DEF RescheduleRunning
    <3> HIDE DEF k
    <3>3. k \in JobIds /\ Stale(k) /\ jobs[k].status = "running"
      BY <3>1 DEF StaleRunning, Stale
    <3>4. j = k
      BY <1>0, <1>2, <3>2, <3>3, ClosedWith DEF Replaces
    <3> QED
      BY <3>3, <3>4
  <2>3. ASSUME NEW k \in JobIds, Claim(w, k), Stale(k) \/ k \in Claimable
        PROVE  Goal
    BY <1>3, <2>3 DEF Claim, Claimable
  <2>4. CASE ReclaimQueued(w)
    <3>1. OldestClaimed(Visible(StaleQueued)) \in StaleQueued
      BY <1>0, <2>4, OldestIsMember DEF ReclaimQueued, Visible, StaleQueued
    <3> QED
      BY <2>3, <2>4, <3>1 DEF ReclaimQueued, StaleQueued
  <2>5. CASE ClaimPending(w)
    <3>1. OldestCreated(Visible(Claimable)) \in Claimable
      BY <1>0, <2>5, OldestIsMember DEF ClaimPending, Visible, Claimable
    <3> QED
      BY <2>3, <2>5, <3>1 DEF ClaimPending, Claimable
  <2> QED
    BY <1>0, <1>6, <2>1, <2>2, <2>4, <2>5 DEF Poll, BeginEmptyPoll, EndEmptyPoll, store
<1>7. ASSUME NEW w \in Workers, Finalize(w)
      PROVE  Goal
  <2>1. ~FinalizeLost(w)
    BY <1>0 DEF FinalizeLost, store
  <2>2. /\ proc[w].job \in JobIds /\ jobs[proc[w].job].status = "running"
        /\ jobs[proc[w].job].run = proc[w].run /\ proc[w].pc = "ended" /\ Owns(w)
        /\ Return(w)
    BY <1>0, <1>7, <2>1 DEF Finalize, FinalizeCompleted, FinalizeCancelled, Failed, Raised,
       FinalizeNeverStarted, FinalizeRequeue, FinalizeFailed, Finalizing, Owns, OwnedBy,
       Proc, IInv, Carries, Engaged, CloseAttempt
  <2>3. CASE FinalizeRequeue(w)
    <3>1. Replaces(proc[w].job)
      BY <2>2, <2>3 DEF FinalizeRequeue, Replaces, Retriable
    <3>2. j = proc[w].job
      BY <1>2, <2>2, <3>1
    <3>3. jobs'[j].status = "failed"
      BY <1>0, <2>2, <3>1, <3>2, ReplacedRow
    <3> QED
      BY <2>2, <3>2, <3>3 DEF OwnerEnds
  <2>4. ASSUME NEW status \in ClosedStatus, CloseAttempt(w, status)
        PROVE  j = proc[w].job /\ jobs'[j].status = status
    <3>1. j = proc[w].job
      BY <1>0, <2>4, ClosedWith DEF CloseAttempt
    <3>2. jobs' = WithClosed({j}, status)
      BY <2>4, <3>1 DEF CloseAttempt
    <3>3. jobs'[j].status = status
      BY <1>0, <3>2, ClosedRow
    <3> QED
      BY <3>1, <3>3
  <2>5. CASE FinalizeCompleted(w)
    BY <2>2, <2>4, <2>5 DEF FinalizeCompleted, OwnerEnds, ClosedStatus
  <2>6. CASE FinalizeCancelled(w) \/ FinalizeNeverStarted(w) \/ FinalizeFailed(w)
    BY <2>2, <2>4, <2>6
       DEF FinalizeCancelled, FinalizeNeverStarted, FinalizeFailed, OwnerEnds, ClosedStatus
  <2> QED
    BY <1>7, <2>1, <2>3, <2>5, <2>6 DEF Finalize
<1>8. ASSUME NEW p \in Procs, Engine(p)
      PROVE  FALSE
  BY <1>0, <1>8 DEF Engine, StartFails, EdgarStart, AgenticStart, MarkRunning,
     AbortLeaseLost, AbortCancelled, EngineFails, EdgarComplete, AgenticComplete,
     CommitResult, PersistFails, store
<1>9. ASSUME NEW w \in Workers, RenewLease(w)
      PROVE  Stale(j)
  <2>1. proc[w].job \in JobIds /\ jobs[proc[w].job].lease = "expired"
    BY <1>0, <1>9 DEF RenewLease, Guarded, IInv, Carries, Engaged
  <2>2. j = proc[w].job
    BY <1>4, <1>9, <2>1 DEF RenewLease
  <2> QED
    BY <2>1, <2>2 DEF Stale
<1>10. ASSUME NEW c \in Clients, Request(c)
       PROVE  Goal
  <2>1. CASE RetryCommit(c)
    <3>1. proc[c].run \in Runs
      BY <1>0, <2>1 DEF RetryCommit, IInv, Busy
    <3>2. LatestAttempt(proc[c].run) \in Nat
      BY <1>0, <3>1, LatestAttemptBound
    <3>3. LatestAttempt(proc[c].run) + 1 \in Nat
      BY <3>2
    <3> QED
      BY <1>1, <2>1, <3>1, <3>3 DEF RetryCommit
  <2>2. CASE CancelCommit(c)
    <3>1. j \in OpenJobs(proc[c].run)
      BY <1>0, <2>2 DEF CancelCommit, WithClosed
    <3>2. jobs[j].run = proc[c].run /\ jobs[j].run \in Runs
      BY <1>0, <3>1 DEF OpenJobs, JobsOf, Rows
    <3>3. runStatus \in [Runs -> AnalysisRunStatus \cup {"absent"}]
      BY <1>0 DEF TypeOK
    <3>4. runStatus' = [runStatus EXCEPT ![proc[c].run] = "cancelled"]
      BY <2>2 DEF CancelCommit, SetRun
    <3>5. runStatus'[jobs[j].run] = "cancelled"
      BY <3>2, <3>3, <3>4
    <3> QED
      BY <2>2, <3>2, <3>5 DEF CancelCommit
  <2> QED
    BY <1>0, <1>8, <1>10, <2>1, <2>2 DEF Request, CancelRead, RetryRead, ExecuteRead,
       CancelSend, RetryCheck, store
<1>11. ASSUME NEW k \in JobIds, LeaseRunsOut(k) \/ LeaseLapses(k)
       PROVE  Goal
  <2>1. j = k
    BY <1>4, <1>11 DEF LeaseRunsOut, LeaseLapses, ExpireLease
  <2>2. jobs'[j].token = jobs[j].token
    BY <1>0, <1>11, <2>1, LeasedRow DEF LeaseRunsOut, LeaseLapses, ExpireLease
  <2> QED
    BY <1>11, <2>1, <2>2 DEF LeaseRunsOut, LeaseLapses
<1>12. CASE \/ UNCHANGED vars
            \/ \E w \in Workers : LoadRun(w) \/ LoseLease(w)
            \/ \E p \in Procs : Crash(p)
  BY <1>0, <1>12 DEF vars, LoadRun, LoseLease, Crash, store
<1> QED
  BY <1>0, <1>5, <1>6, <1>7, <1>8, <1>9, <1>10, <1>11, <1>12 DEF Next, WorkerStep

\* How the status of a run changes: the run is created, its attempt was abandoned,
\* it is executed or finalized, or the user cancels or retries it.
LEMMA RunStatusMoves ==
  ASSUME IInv, [Next]_vars, NEW r \in Runs, runStatus'[r] # runStatus[r]
  PROVE  /\ \/ runStatus[r] = "absent"
            \/ \E j \in StaleRunning : jobs[j].run = r
            \/ \E p \in Procs : Engine(p) /\ proc[p].run = r
            \/ \E w \in Workers : Finalize(w) /\ Engaged(w) /\ proc[w].run = r
            \/ \E c \in Clients : /\ proc[c].pc \in {"cancel_sent", "retry_checked"}
                                  /\ proc[c].run = r
         /\ runStatus'[r] = "cancelled"
              => \E c \in Clients : proc[c].pc = "cancel_sent" /\ proc[c].run = r
<1> DEFINE Who == \/ runStatus[r] = "absent"
                  \/ \E j \in StaleRunning : jobs[j].run = r
                  \/ \E p \in Procs : Engine(p) /\ proc[p].run = r
                  \/ \E w \in Workers : Finalize(w) /\ Engaged(w) /\ proc[w].run = r
                  \/ \E c \in Clients : /\ proc[c].pc \in {"cancel_sent", "retry_checked"}
                                        /\ proc[c].run = r
           What == runStatus'[r] # "cancelled"
<1>0. /\ TypeOK /\ runStatus \in [Runs -> AnalysisRunStatus \cup {"absent"}]
      /\ runStatus' # runStatus /\ Workers \subseteq Procs /\ Clients \subseteq Procs
  BY ProcsFacts DEF IInv, TypeOK
<1>1. ASSUME NEW q, NEW status, SetRun(q, status)
      PROVE  q = r /\ runStatus'[r] = status
  BY <1>0, <1>1 DEF SetRun
<1>2. ASSUME NEW q \in Runs, CreatePending(q) \/ CreateQueued(q)
      PROVE  Who /\ What
  BY <1>1, <1>2 DEF CreatePending, CreateQueued
<1>3. ASSUME NEW p \in Procs, Engine(p)
      PROVE  Who /\ What
  <2>1. \E status \in {"running", "success", "partial_success", "no_data", "error"} :
          SetRun(proc[p].run, status)
    BY <1>0, <1>3 DEF Engine, StartFails, EdgarStart, AgenticStart, MarkRunning,
       AbortLeaseLost, AbortCancelled, EngineFails, FailRun, EdgarComplete,
       AgenticComplete, CommitResult, PersistFails, store
  <2> QED
    BY <1>1, <1>3, <2>1
<1>4. ASSUME NEW w \in Workers, Poll(w)
      PROVE  Who /\ What
  <2>1. RescheduleRunning(w)
    BY <1>0, <1>4 DEF Poll, BeginEmptyPoll, EndEmptyPoll, TidyOrphan, ReclaimQueued,
       ClaimPending, Claim, store
  <2> DEFINE j == OldestClaimed(StaleRunning)
  <2>2. j \in StaleRunning
    BY <1>0, <2>1, OldestIsMember DEF RescheduleRunning, TidiesRunning, Visible, StaleRunning
  <2>3. SetRun(jobs[j].run, "error") \/ SetRun(jobs[j].run, "queued")
    BY <2>1 DEF RescheduleRunning
  <2> HIDE DEF j
  <2> QED
    BY <1>1, <2>2, <2>3
<1>5. ASSUME NEW w \in Workers, Finalize(w)
      PROVE  Who /\ What
  <2>1. SetRun(proc[w].run, "error") \/ SetRun(proc[w].run, "queued")
    BY <1>0, <1>5 DEF Finalize, FinalizeLost, FinalizeCompleted, FinalizeCancelled,
       FinalizeNeverStarted, FinalizeRequeue, FinalizeFailed, store
  <2>2. Engaged(w)
    BY <1>5 DEF Finalize, FinalizeLost, FinalizeCompleted, FinalizeCancelled, Raised,
       Failed, Finalizing, FinalizeNeverStarted, FinalizeRequeue, FinalizeFailed, Engaged
  <2> QED
    BY <1>1, <1>5, <2>1, <2>2
<1>6. ASSUME NEW c \in Clients, Request(c), ~Engine(c)
      PROVE  Who /\ (What \/ (proc[c].pc = "cancel_sent" /\ proc[c].run = r))
  <2>1. CancelCommit(c) \/ RetryCommit(c)
    BY <1>0, <1>6 DEF Request, CancelRead, RetryRead, ExecuteRead, CancelSend, RetryCheck, store
  <2> QED
    BY <1>1, <2>1 DEF CancelCommit, RetryCommit
<1>7. ASSUME NEW w \in Workers, WorkerStep(w) \/ RenewLease(w) \/ LoseLease(w)
      PROVE  Who /\ What
  BY <1>0, <1>3, <1>4, <1>5, <1>7 DEF WorkerStep, LoadRun, RenewLease, LoseLease, store
<1>8. CASE \/ UNCHANGED vars
           \/ \E p \in Procs : Crash(p)
           \/ \E k \in JobIds : LeaseRunsOut(k) \/ LeaseLapses(k)
  BY <1>0, <1>8 DEF vars, Crash, LeaseRunsOut, LeaseLapses, store
<1> QED
  BY <1>0, <1>2, <1>3, <1>6, <1>7, <1>8 DEF Next

NotCancelled ==
  \A w \in Workers : Engaged(w) => runStatus[proc[w].run] # "cancelled"

\* A worker with an attempt in hand owns it under a live lease; one without has no
\* run either.
WorkersOwn ==
  \A w \in Workers : IF Engaged(w) THEN Owns(w) /\ jobs[proc[w].job].lease = "live"
                                   ELSE proc[w].run = NoRun

\* A row that a worker holds is left as it is, until that worker ends the attempt.
LEMMA HeldRowStays ==
  ASSUME IInv, NotCancelled, WorkersOwn, Undisturbed, Undisturbed', [Next]_vars,
         NEW w \in Workers, Engaged(w)
  PROVE  jobs'[proc[w].job] = jobs[proc[w].job] \/ OwnerEnds(w, proc[w].job)
<1> DEFINE j == proc[w].job
<1>1. /\ j \in JobIds /\ jobs[j].status = "running" /\ jobs[j].lease = "live"
      /\ jobs[j].token = proc[w].token /\ jobs[j].run \in Runs /\ Owns(w)
  BY DEF IInv, Carries, Rows, WorkersOwn, Owns, OwnedBy
<1>2. ~Stale(j) /\ j \notin Orphans /\ HeldByLiveWorker(j)
  BY <1>1 DEF Stale, Orphans, NotCancelled, HeldByLiveWorker, IInv, Carries
<1>3. /\ lapses' # lapses + 1
      /\ ~\E c \in Clients : proc[c].pc = "cancel_sent" /\ proc[c].run = jobs[j].run
  BY DEF Undisturbed, IInv, Carries
<1>4. ASSUME NEW v \in Workers, OwnerEnds(v, j)
      PROVE  v = w
  BY <1>1, <1>4 DEF OwnerEnds, Owns, OwnedBy, IInv, Tokens, Procs
<1> HIDE DEF j
<1>5. jobs'[j] = jobs[j] \/ OwnerEnds(w, j)
  BY <1>1, <1>2, <1>3, <1>4, RunningRowMoves
<1> QED
  BY <1>5 DEF j

\* A worker without a run has none until it claims.
LEMMA RunsAreClaimed ==
  ASSUME IInv, [Next]_vars, NEW w \in Workers, ~Engaged(w)'
  PROVE  proc'[w].run = NoRun \/ (~Engaged(w) /\ proc'[w].run = proc[w].run)
<1>0. /\ proc \in [Procs -> Proc] /\ w \in Procs
      /\ Workers \subseteq Procs /\ Clients \subseteq Procs
      /\ \A c \in Clients : c # w
  BY ProcsFacts, ProcessAssumption DEF IInv
<1> DEFINE Goal == proc'[w].run = NoRun \/ (~Engaged(w) /\ proc'[w].run = proc[w].run)
<1>1. CASE proc'[w] = proc[w]
  BY <1>1 DEF Engaged
<1>2. CASE Return(w)
  BY <1>0, <1>2 DEF Return, Idle
<1>3. CASE Engine(w)
  <2>1. \/ Goto(w, "executing") \/ \E exc \in Exceptions : EngineEnds(w, exc)
    BY <1>3 DEF Engine, StartFails, EdgarStart, AgenticStart, MarkRunning, AbortLeaseLost,
         AbortCancelled, EngineFails, FailRun, EdgarComplete, AgenticComplete,
         CommitResult, PersistFails, Exceptions
  <2> QED
    BY <1>0, <2>1 DEF Goto, EngineEnds, Engaged, Proc
<1>4. CASE Poll(w)
  <2>1. CASE BeginEmptyPoll(w)
    BY <1>0, <2>1 DEF BeginEmptyPoll, Engaged, Proc
  <2>2. ASSUME NEW j, Claim(w, j)
        PROVE  FALSE
    BY <1>0, <2>2 DEF Claim, Engaged, Idle
  <2> QED
    BY <1>1, <1>2, <1>4, <2>1, <2>2 DEF Poll, EndEmptyPoll, TidyOrphan,
       RescheduleRunning, ReclaimQueued, ClaimPending
<1>5. CASE LoadRun(w) \/ LoseLease(w)
  BY <1>0, <1>5 DEF LoadRun, LoseLease, Guarded, Engaged, Proc
<1>6. CASE Finalize(w) \/ Crash(w)
  BY <1>2, <1>6 DEF Finalize, FinalizeLost, FinalizeCompleted, FinalizeCancelled,
     FinalizeNeverStarted, FinalizeRequeue, FinalizeFailed, CloseAttempt, Crash
<1>7. CASE RenewLease(w)
  BY <1>1, <1>7 DEF RenewLease
<1>8. ASSUME NEW p \in Procs \ {w},
             \/ WorkerStep(p) \/ RenewLease(p) \/ LoseLease(p) \/ Request(p) \/ Crash(p)
      PROVE  Goal
  BY <1>0, <1>1, <1>8, OthersStay DEF WorkerStep
<1>9. CASE \/ UNCHANGED vars
           \/ \E r \in Runs : CreatePending(r) \/ CreateQueued(r)
           \/ \E j \in JobIds : LeaseRunsOut(j) \/ LeaseLapses(j)
  BY <1>1, <1>9 DEF vars, CreatePending, CreateQueued, LeaseRunsOut, LeaseLapses
<1> QED
  BY <1>0, <1>3, <1>4, <1>5, <1>6, <1>7, <1>8, <1>9 DEF Next, WorkerStep

UInv == NotCancelled /\ WorkersOwn

LEMMA UInvNext ==
  ASSUME IInv, UInv, Undisturbed, Undisturbed', [Next]_vars
  PROVE  UInv'
<1>1. ASSUME NEW w \in Workers, Engaged(w)'
      PROVE  runStatus'[proc'[w].run] # "cancelled"
  <2>1. CASE Engaged(w) /\ proc'[w].run = proc[w].run
    <3>1. runStatus[proc[w].run] # "cancelled" /\ proc[w].run \in Runs
      BY <2>1 DEF UInv, NotCancelled, IInv, Busy, Engaged, Procs
    <3>2. ~\E c \in Clients : proc[c].pc = "cancel_sent" /\ proc[c].run = proc[w].run
      BY <2>1 DEF Undisturbed
    <3> QED
      BY <2>1, <3>1, <3>2, RunStatusMoves
  <2>2. CASE Claims(w)
    BY <2>2 DEF Claims, Idle
  <2> QED
    BY <1>1, <2>1, <2>2, MovesOfNext DEF Moves
<1>2. ASSUME NEW w \in Workers, Engaged(w)'
      PROVE  Owns(w)' /\ jobs'[proc'[w].job].lease = "live"
  <2>1. CASE /\ Engaged(w) /\ proc'[w].job = proc[w].job
             /\ proc'[w].token = proc[w].token
    <3>1. Owns(w) /\ jobs[proc[w].job].lease = "live"
      BY <2>1 DEF UInv, WorkersOwn
    <3>2. ~OwnerEnds(w, proc[w].job)
      BY <1>2, ProcsFacts, IdleTyped DEF OwnerEnds, Return, Engaged, IInv
    <3>3. jobs'[proc[w].job] = jobs[proc[w].job]
      BY <2>1, <3>2, HeldRowStays DEF UInv
    <3> QED
      BY <2>1, <3>1, <3>3 DEF Owns, OwnedBy
  <2>2. CASE Claims(w)
    <3>1. PICK j \in JobIds : /\ jobs' = WithClaim(j) /\ proc'[w].job = j
                              /\ proc'[w].token = claims + 1
      BY <2>2 DEF Claims, Idle
    <3>2. /\ jobs'[j].status = "running" /\ jobs'[j].token = claims + 1
          /\ jobs'[j].lease = "live" /\ j # 0
      BY <3>1, ClaimedRow DEF IInv, JobIds
    <3> QED
      BY <3>1, <3>2 DEF Owns, OwnedBy
  <2> QED
    BY <1>2, <2>1, <2>2, MovesOfNext DEF Moves
<1>3. ASSUME NEW w \in Workers, ~Engaged(w)'
      PROVE  proc'[w].run = NoRun
  BY <1>3, RunsAreClaimed DEF UInv, WorkersOwn
<1>4. WorkersOwn'
  BY <1>2, <1>3 DEF WorkersOwn
<1> QED
  BY <1>1, <1>4 DEF UInv, NotCancelled

LEMMA Ownership == Spec /\ []Undisturbed => [](IInv /\ UInv)
<1>1. Init => UInv
  BY DEF Init, UInv, NotCancelled, WorkersOwn, Engaged, Idle, Procs
<1>2. IInv /\ UInv /\ Undisturbed /\ Undisturbed' /\ [Next]_vars => UInv'
  BY UInvNext
<1> QED
  BY <1>1, <1>2, Invariant, PTL DEF Spec

\* A claim that a live worker holds under a live lease is ended by nobody else, but
\* for a cancellation of its run: polls take stale rows only, and a worker that was
\* superseded, by a lapsed lease or otherwise, fails the compare-and-set.
THEOREM LiveClaimsStand == Spec => LiveClaimIsRespected
<1>1. ASSUME IInv, [Next]_vars, NEW w \in Workers,
             proc[w].job # 0, jobs[proc[w].job].status = "running",
             jobs[proc[w].job].token = proc[w].token,
             jobs[proc[w].job].lease = "live",
             jobs'[proc[w].job].token # proc[w].token,
             proc'[w] = proc[w]
      PROVE  "cancelled" \in {runStatus[jobs[proc[w].job].run],
                              runStatus'[jobs[proc[w].job].run]}
  <2> DEFINE j == proc[w].job
  <2>1. /\ j \in JobIds /\ w \in Procs /\ proc \in [Procs -> Proc]
        /\ Owns(w) /\ jobs[j].token # NoToken
    BY <1>1 DEF IInv, TypeOK, Tokens, Procs, Proc, Owns, OwnedBy
  <2>2. ~Stale(j) /\ HeldByLiveWorker(j)
    BY <1>1, <2>1 DEF Stale, HeldByLiveWorker
  <2>3. ASSUME NEW v \in Workers, OwnerEnds(v, j)
        PROVE  FALSE
    <3>1. v = w
      BY <1>1, <2>1, <2>3 DEF OwnerEnds, Owns, OwnedBy, IInv, Tokens, Procs
    <3>2. proc[w].pc = "ended" /\ proc'[w] = Idle
      BY <2>1, <2>3, <3>1 DEF OwnerEnds, Return
    <3> QED
      BY <1>1, <3>2 DEF Idle
  <2>4. jobs'[j] # jobs[j] /\ jobs'[j].token # jobs[j].token /\ jobs[j].status = "running"
    BY <1>1
  <2> HIDE DEF j
  <2>5. \/ j \in Orphans
        \/ \E c \in Clients : runStatus'[jobs[j].run] = "cancelled"
    BY <1>1, <2>1, <2>2, <2>3, <2>4, RunningRowMoves
  <2> QED
    BY <2>5 DEF j, Orphans
<1>2. IInv /\ [Next]_vars =>
        [\A w \in Workers :
           LET j == proc[w].job IN
           /\ j # 0 /\ jobs[j].status = "running"
           /\ jobs[j].token = proc[w].token /\ jobs[j].lease = "live"
           /\ jobs'[j].token # proc[w].token
           => \/ proc'[w] # proc[w]
              \/ "cancelled" \in {runStatus[jobs[j].run], runStatus'[jobs[j].run]}]_vars
  BY <1>1
<1> QED
  BY <1>2, Invariant, PTL DEF Spec, LiveClaimIsRespected

\* Whatever a worker writes to its run, it writes as the owner of the attempt, if no
\* lease lapses under a live worker and no run is cancelled while it is executed: a
\* worker then never outlives its ownership.
THEOREM WritesAreOwned == Spec /\ []Undisturbed => OnlyOwnerWrites
<1>1. IInv /\ UInv =>
        \A w \in Workers : proc[w].run # NoRun => Owns(w)
  BY DEF UInv, WorkersOwn
<1>2. IInv /\ UInv /\ [Next]_vars =>
        [\A w \in Workers :
           /\ proc[w].run # NoRun /\ proc'[w] # proc[w]
           /\ runStatus'[proc[w].run] # runStatus[proc[w].run]
           => Owns(w)]_vars
  BY <1>1
<1> QED
  BY <1>2, Ownership, PTL DEF Spec, OnlyOwnerWrites

\* Two workers with an attempt of one run in hand are one worker.
LEMMA OneWorkerPerRun ==
  ASSUME IInv, OneOpen, UInv, NEW v \in Workers, NEW w \in Workers,
         Engaged(v), Engaged(w), proc[v].run = proc[w].run
  PROVE  v = w
<1>1. \A u \in {v, w} :
        /\ proc[u].job \in OpenJobs(proc[w].run) /\ proc[u].job \in JobIds
        /\ jobs[proc[u].job].token = proc[u].token /\ jobs[proc[u].job].status = "running"
  BY DEF UInv, WorkersOwn, Owns, OwnedBy, IInv, Carries, OpenJobs, JobsOf, OpenStatus
<1>2. proc[w].run \in Runs /\ v \in Procs /\ w \in Procs
  BY DEF IInv, Busy, Engaged, Procs
<1>3. proc[v].job = proc[w].job
  BY <1>1, <1>2 DEF OneOpen
<1> QED
  BY <1>1, <1>2, <1>3 DEF IInv, Tokens

\* At most one worker executes a run: two would own two open attempts of it.
THEOREM OneExecutor ==
  Spec /\ []RetriesApart /\ []Undisturbed => []OneExecutorPerRun
<1>1. IInv /\ OInv /\ UInv => OneExecutorPerRun
  BY OneWorkerPerRun DEF OInv, OneExecutorPerRun, Engaged
<1> QED
  BY <1>1, OpenRows, Ownership, PTL

-------------------------------------------------------------------------------
(* A completed attempt is of a finished run *)

\* Nobody calls POST /runs/{id}/execute.
NoneSync == \A c \in Clients : proc[c].pc \notin {"loaded", "executing"}

LEMMA NoneSyncNext ==
  ASSUME ~SyncExecute \/ Clients = {}, IInv, NoneSync, [Next]_vars
  PROVE  NoneSync'
<1> SUFFICES ASSUME NEW c \in Clients
             PROVE  proc'[c].pc \notin {"loaded", "executing"}
  BY DEF NoneSync
<1>0. /\ proc \in [Procs -> Proc] /\ c \in Procs /\ \A w \in Workers : w # c
      /\ Workers \subseteq Procs /\ Clients \subseteq Procs
      /\ proc[c].pc \notin {"loaded", "executing"} /\ ~SyncExecute
  BY ProcsFacts, ProcessAssumption DEF IInv, NoneSync
<1>1. CASE proc'[c] = proc[c]
  BY <1>0, <1>1
<1>2. CASE Return(c)
  BY <1>0, <1>2, IdleTyped DEF Return
<1>3. ~Engine(c)
  BY <1>0 DEF Engine, StartFails, EdgarStart, AgenticStart, MarkRunning, AbortLeaseLost,
     AbortCancelled, EngineFails, EdgarComplete, AgenticComplete, PersistFails
<1>4. CASE Request(c)
  <2>1. ASSUME NEW r \in Runs, CancelRead(c, r) \/ RetryRead(c, r)
        PROVE  proc'[c].pc \in {"cancelling", "retrying"}
    BY <1>0, <2>1 DEF CancelRead, RetryRead, Idle
  <2>2. CASE CancelSend(c) \/ RetryCheck(c)
    <3>1. \/ Return(c) \/ proc'[c].pc \in {"cancel_sent", "retry_checked"}
      BY <1>0, <2>2 DEF CancelSend, RetryCheck, Goto, Proc
    <3> QED
      BY <1>2, <3>1
  <2> QED
    BY <1>0, <1>2, <1>3, <1>4, <2>1, <2>2 DEF Request, CancelCommit, RetryCommit, ExecuteRead
<1>5. ASSUME NEW p \in Procs \ {c},
             \/ WorkerStep(p) \/ RenewLease(p) \/ LoseLease(p) \/ Request(p) \/ Crash(p)
      PROVE  proc'[c] = proc[c]
  BY <1>0, <1>5, OthersStay DEF WorkerStep
<1>6. CASE \/ UNCHANGED vars
           \/ \E r \in Runs : CreatePending(r) \/ CreateQueued(r)
           \/ \E j \in JobIds : LeaseRunsOut(j) \/ LeaseLapses(j)
  BY <1>1, <1>6 DEF vars, CreatePending, CreateQueued, LeaseRunsOut, LeaseLapses
<1>7. CASE Crash(c)
  BY <1>2, <1>7 DEF Crash
<1> QED
  BY <1>0, <1>1, <1>4, <1>5, <1>6, <1>7 DEF Next

\* While a worker has an attempt of a run in hand, nobody else touches the run.
LEMMA OnlyItsWorker ==
  ASSUME IInv, OInv, UInv, NoneSync, Undisturbed, [Next]_vars,
         NEW w \in Workers, Engaged(w), runStatus'[proc[w].run] # runStatus[proc[w].run]
  PROVE  Engine(w) \/ Finalize(w)
<1> DEFINE r == proc[w].run
           j == proc[w].job
<1>1. r \in Runs /\ j \in OpenJobs(r) /\ jobs[j].lease = "live"
  BY DEF IInv, Busy, Procs, Carries, Engaged, UInv, WorkersOwn, Owns, OwnedBy, OpenJobs,
     JobsOf, OpenStatus
<1> HIDE DEF r, j
<1>2. runStatus[r] # "absent"
  BY <1>1 DEF OInv, Unborn, OpenJobs
<1>3. ASSUME NEW k \in StaleRunning, jobs[k].run = r
      PROVE  FALSE
  <2>1. k \in OpenJobs(r)
    BY <1>3 DEF StaleRunning, Stale, OpenJobs, JobsOf, OpenStatus
  <2> QED
    BY <1>1, <1>3, <2>1 DEF OInv, OneOpen, StaleRunning, Stale
<1>4. ASSUME NEW c \in Clients, proc[c].pc \in {"cancel_sent", "retry_checked"},
             proc[c].run = r
      PROVE  FALSE
  BY <1>1, <1>4 DEF Undisturbed, OInv, Checked, r
<1>5. ASSUME NEW p \in Procs, Engine(p), proc[p].run = r
      PROVE  p = w
  <2>1. proc[p].pc \in {"loaded", "executing"}
    BY <1>5 DEF Engine, StartFails, EdgarStart, AgenticStart, MarkRunning, AbortLeaseLost,
         AbortCancelled, EngineFails, EdgarComplete, AgenticComplete, PersistFails
  <2>2. p \in Workers /\ Engaged(p)
    BY <2>1 DEF NoneSync, Procs, Engaged
  <2> QED
    BY <1>5, <2>2, OneWorkerPerRun DEF OInv, r
<1>6. ASSUME NEW v \in Workers, Engaged(v), proc[v].run = r
      PROVE  v = w
  BY <1>6, OneWorkerPerRun DEF OInv, r
<1>7. runStatus'[r] # runStatus[r]
  BY DEF r
<1> QED
  BY <1>1, <1>2, <1>3, <1>4, <1>5, <1>6, <1>7, RunStatusMoves

\* A worker whose engine returned normally has left its run finished.
Done == \A w \in Workers : proc[w].pc = "ended" /\ proc[w].exc = "none"
                             => IsTerminal(runStatus[proc[w].run])

\* An engine that returns normally has just committed an outcome.
LEMMA EndsWithOutcome ==
  ASSUME IInv, [Next]_vars, NEW w \in Workers,
         proc'[w].pc = "ended", proc'[w].exc = "none", proc'[w] # proc[w]
  PROVE  IsTerminal(runStatus'[proc[w].run]) /\ proc'[w].run = proc[w].run /\ Engine(w)
<1>0. /\ proc \in [Procs -> Proc] /\ w \in Procs /\ \A c \in Clients : c # w
      /\ Workers \subseteq Procs /\ Clients \subseteq Procs
      /\ runStatus \in [Runs -> AnalysisRunStatus \cup {"absent"}]
  BY ProcsFacts, ProcessAssumption DEF IInv, TypeOK
<1>1. ~Return(w)
  BY <1>0, IdleTyped DEF Return
<1>2. ASSUME NEW exc, EngineEnds(w, exc)
      PROVE  exc = "none"
  BY <1>0, <1>2 DEF EngineEnds, Proc
<1>3. CASE Engine(w)
  <2>1. EdgarComplete(w) \/ AgenticComplete(w)
    <3>1. ~EdgarStart(w) /\ ~AgenticStart(w)
      BY <1>0 DEF EdgarStart, AgenticStart, MarkRunning, Goto, Proc
    <3> QED
      BY <1>2, <1>3, <3>1 DEF Engine, StartFails, AbortLeaseLost, AbortCancelled,
         EngineFails, FailRun, PersistFails
  <2>2. PICK outcome \in {"success", "partial_success", "no_data", "error"} :
          CommitResult(w, outcome)
    BY <2>1 DEF EdgarComplete, AgenticComplete
  <2>3. proc[w].run \in Runs
    BY <1>0, <2>1 DEF EdgarComplete, AgenticComplete, IInv, Busy
  <2>4. runStatus'[proc[w].run] = outcome
    BY <1>0, <2>2, <2>3 DEF CommitResult, SetRun
  <2>5. proc'[w].run = proc[w].run
    BY <1>0, <2>2 DEF CommitResult, EngineEnds, Proc
  <2> QED
    BY <1>3, <2>4, <2>5 DEF IsTerminal, Terminal
<1>4. CASE Poll(w)
  <2>1. CASE BeginEmptyPoll(w)
    BY <1>0, <2>1 DEF BeginEmptyPoll, Proc
  <2>2. ASSUME NEW j, Claim(w, j)
        PROVE  FALSE
    BY <1>0, <2>2 DEF Claim, Idle
  <2> QED
    BY <1>1, <1>4, <2>1, <2>2 DEF Poll, EndEmptyPoll, TidyOrphan, RescheduleRunning,
       ReclaimQueued, ClaimPending
<1>5. CASE LoadRun(w) \/ LoseLease(w) \/ RenewLease(w)
  BY <1>0, <1>5 DEF LoadRun, LoseLease, RenewLease, Guarded, Proc
<1>6. CASE Finalize(w) \/ Crash(w)
  BY <1>1, <1>6 DEF Finalize, FinalizeLost, FinalizeCompleted, FinalizeCancelled,
     FinalizeNeverStarted, FinalizeRequeue, FinalizeFailed, CloseAttempt, Crash
<1>7. ASSUME NEW p \in Procs \ {w},
             \/ WorkerStep(p) \/ RenewLease(p) \/ LoseLease(p) \/ Request(p) \/ Crash(p)
      PROVE  FALSE
  BY <1>0, <1>7, OthersStay DEF WorkerStep
<1>8. CASE \/ UNCHANGED vars
           \/ \E r \in Runs : CreatePending(r) \/ CreateQueued(r)
           \/ \E j \in JobIds : LeaseRunsOut(j) \/ LeaseLapses(j)
  BY <1>8 DEF vars, CreatePending, CreateQueued, LeaseRunsOut, LeaseLapses
<1> QED
  BY <1>0, <1>3, <1>4, <1>5, <1>6, <1>7, <1>8 DEF Next, WorkerStep

LEMMA DoneNext ==
  ASSUME IInv, OInv, UInv, NoneSync, Undisturbed, Done, [Next]_vars
  PROVE  Done'
<1> SUFFICES ASSUME NEW w \in Workers, proc'[w].pc = "ended", proc'[w].exc = "none"
             PROVE  IsTerminal(runStatus'[proc'[w].run])
  BY DEF Done
<1>1. CASE proc'[w] = proc[w]
  <2>1. Engaged(w) /\ IsTerminal(runStatus[proc[w].run])
    BY <1>1 DEF Done, Engaged
  <2>2. CASE runStatus'[proc[w].run] = runStatus[proc[w].run]
    BY <1>1, <2>1, <2>2
  <2>3. ~Engine(w)
    BY <1>1 DEF Engine, StartFails, EdgarStart, AgenticStart, MarkRunning, AbortLeaseLost,
         AbortCancelled, EngineFails, EdgarComplete, AgenticComplete, PersistFails
  <2>4. ~Finalize(w)
    <3>1. Finalize(w) => Return(w)
      BY DEF Finalize, FinalizeLost, FinalizeCompleted, FinalizeCancelled,
         FinalizeNeverStarted, FinalizeRequeue, FinalizeFailed, CloseAttempt
    <3> QED
      BY <1>1, <3>1, ProcsFacts, IdleTyped DEF Return, IInv
  <2> QED
    BY <2>1, <2>2, <2>3, <2>4, OnlyItsWorker
<1>2. CASE proc'[w] # proc[w]
  BY <1>2, EndsWithOutcome
<1> QED
  BY <1>1, <1>2

\* An attempt is recorded as completed only for a run that has finished: between
\* the engine's commit and the finalization nobody else writes to the run.
THEOREM CompletionsAreReal ==
  ASSUME ~SyncExecute \/ Clients = {}
  PROVE  Spec /\ []RetriesApart /\ []Undisturbed => CompletedMeansFinished
<1>1. Init => NoneSync /\ Done
  BY DEF Init, NoneSync, Done, Idle, Procs
<1>2. IInv /\ OInv /\ UInv /\ NoneSync /\ Done /\ Undisturbed /\ [Next]_vars
        => NoneSync' /\ Done'
  BY NoneSyncNext, DoneNext
<1>3. IInv /\ UInv /\ Done /\ Undisturbed /\ Undisturbed' /\ [Next]_vars =>
        [\A w \in Workers :
           /\ proc[w].pc = "ended"
           /\ jobs[proc[w].job].status = "running" /\ jobs'[proc[w].job].status = "completed"
           => IsTerminal(runStatus[proc[w].run])]_vars
  <2> SUFFICES ASSUME IInv, UInv, Done, Undisturbed, Undisturbed', [Next]_vars,
                      NEW w \in Workers, proc[w].pc = "ended",
                      jobs[proc[w].job].status = "running",
                      jobs'[proc[w].job].status = "completed"
               PROVE  IsTerminal(runStatus[proc[w].run])
    OBVIOUS
  <2>1. OwnerEnds(w, proc[w].job)
    BY HeldRowStays DEF UInv, Engaged
  <2> QED
    BY <2>1 DEF OwnerEnds, Done
<1> QED
  BY <1>1, <1>2, <1>3, OpenRows, Ownership, PTL DEF Spec, CompletedMeansFinished

-------------------------------------------------------------------------------
(* Results and cancellations *)

Completes(p) == EdgarComplete(p) \/ AgenticComplete(p)

\* Only an engine's completion gives a run a result.
LEMMA ResultsAreCommitted ==
  ASSUME IInv, [Next]_vars, NEW r \in Runs, runStatus'[r] # runStatus[r],
         runStatus'[r] \in {"success", "partial_success", "no_data"}
  PROVE  \E p \in Procs : Completes(p) /\ proc[p].run = r
<1> DEFINE Goal == \E p \in Procs : Completes(p) /\ proc[p].run = r
<1>0. /\ runStatus \in [Runs -> AnalysisRunStatus \cup {"absent"}]
      /\ runStatus' # runStatus /\ Workers \subseteq Procs /\ Clients \subseteq Procs
  BY ProcsFacts DEF IInv, TypeOK
<1>1. ASSUME NEW q, NEW status, SetRun(q, status)
      PROVE  q = r /\ status \in {"success", "partial_success", "no_data"}
  BY <1>0, <1>1 DEF SetRun
<1>2. ASSUME NEW q \in Runs, CreatePending(q) \/ CreateQueued(q)
      PROVE  Goal
  BY <1>1, <1>2 DEF CreatePending, CreateQueued
<1>3. ASSUME NEW p \in Procs, Engine(p)
      PROVE  Goal
  <2>1. \/ Completes(p) /\ \E status : SetRun(proc[p].run, status)
        \/ \E status \in {"running", "error"} : SetRun(proc[p].run, status)
    BY <1>0, <1>3 DEF Completes, Engine, StartFails, EdgarStart, AgenticStart, MarkRunning,
       AbortLeaseLost, AbortCancelled, EngineFails, FailRun, EdgarComplete,
       AgenticComplete, CommitResult, PersistFails, store
  <2> QED
    BY <1>1, <2>1
<1>4. ASSUME NEW w \in Workers, Poll(w) \/ Finalize(w)
      PROVE  Goal
  <2>1. \E q : SetRun(q, "error") \/ SetRun(q, "queued")
    BY <1>0, <1>4 DEF Poll, BeginEmptyPoll, EndEmptyPoll, TidyOrphan, RescheduleRunning,
       ReclaimQueued, ClaimPending, Claim, Finalize, FinalizeLost, FinalizeCompleted,
       FinalizeCancelled, FinalizeNeverStarted, FinalizeRequeue, FinalizeFailed, store
  <2> QED
    BY <1>1, <2>1
<1>5. ASSUME NEW c \in Clients, Request(c), ~Engine(c)
      PROVE  Goal
  <2>1. CancelCommit(c) \/ RetryCommit(c)
    BY <1>0, <1>5 DEF Request, CancelRead, RetryRead, ExecuteRead, CancelSend, RetryCheck, store
  <2> QED
    BY <1>1, <2>1 DEF CancelCommit, RetryCommit
<1>6. ASSUME NEW w \in Workers, WorkerStep(w) \/ RenewLease(w) \/ LoseLease(w)
      PROVE  Goal
  BY <1>0, <1>3, <1>4, <1>6 DEF WorkerStep, LoadRun, RenewLease, LoseLease, store
<1>7. CASE \/ UNCHANGED vars
           \/ \E p \in Procs : Crash(p)
           \/ \E k \in JobIds : LeaseRunsOut(k) \/ LeaseLapses(k)
  BY <1>0, <1>7 DEF vars, Crash, LeaseRunsOut, LeaseLapses, store
<1> QED
  BY <1>0, <1>2, <1>3, <1>5, <1>6, <1>7 DEF Next

\* A process that executes a run has marked it running.
LEMMA ExecutionsAreMarked ==
  ASSUME IInv, [Next]_vars, NEW p \in Procs, proc'[p].pc = "executing"
  PROVE  \/ proc[p].pc = "executing" /\ proc'[p].run = proc[p].run
         \/ MarkRunning(p)
<1> DEFINE Goal == \/ proc[p].pc = "executing" /\ proc'[p].run = proc[p].run
                   \/ MarkRunning(p)
<1>0. /\ proc \in [Procs -> Proc] /\ proc[p] \in Proc
      /\ Workers \subseteq Procs /\ Clients \subseteq Procs
  BY ProcsFacts DEF IInv
<1>1. CASE proc'[p] = proc[p]
  BY <1>1
<1>2. ~Return(p)
  BY <1>0, IdleTyped DEF Return
<1>3. ASSUME NEW exc PROVE ~EngineEnds(p, exc)
  BY <1>0, <1>2 DEF EngineEnds, Proc
<1>4. CASE Engine(p)
  <2>1. MarkRunning(p)
    BY <1>3, <1>4 DEF Engine, StartFails, EdgarStart, AgenticStart, AbortLeaseLost,
       AbortCancelled, EngineFails, FailRun, EdgarComplete, AgenticComplete, CommitResult,
       PersistFails
  <2> QED
    BY <2>1
<1>5. CASE p \in Workers /\ Poll(p)
  <2>1. ~BeginEmptyPoll(p)
    BY <1>0 DEF BeginEmptyPoll, Proc
  <2>2. ASSUME NEW j, Claim(p, j) PROVE FALSE
    BY <1>0, <2>2 DEF Claim, Idle
  <2> QED
    BY <1>1, <1>2, <1>5, <2>1, <2>2 DEF Poll, EndEmptyPoll, TidyOrphan, RescheduleRunning,
       ReclaimQueued, ClaimPending
<1>6. CASE p \in Workers /\ (LoadRun(p) \/ LoseLease(p) \/ RenewLease(p))
  BY <1>0, <1>1, <1>6 DEF LoadRun, LoseLease, RenewLease, Guarded, Proc
<1>7. CASE (p \in Workers /\ Finalize(p)) \/ Crash(p)
  BY <1>2, <1>7 DEF Finalize, FinalizeLost, FinalizeCompleted, FinalizeCancelled,
     FinalizeNeverStarted, FinalizeRequeue, FinalizeFailed, CloseAttempt, Crash
<1>8. CASE p \in Clients /\ Request(p)
  <2>1. ASSUME NEW r \in Runs, CancelRead(p, r) \/ RetryRead(p, r) \/ ExecuteRead(p, r)
        PROVE  FALSE
    BY <1>0, <2>1 DEF CancelRead, RetryRead, ExecuteRead, Idle
  <2>2. ~CancelSend(p) /\ ~RetryCheck(p)
    BY <1>0, <1>2 DEF CancelSend, RetryCheck, Goto, Proc
  <2> QED
    BY <1>2, <1>4, <1>8, <2>1, <2>2 DEF Request, CancelCommit, RetryCommit
<1>9. ASSUME NEW q \in Procs \ {p},
             \/ q \in Workers /\ (WorkerStep(q) \/ RenewLease(q) \/ LoseLease(q))
             \/ q \in Clients /\ Request(q)
             \/ Crash(q)
      PROVE  proc'[p] = proc[p]
  BY <1>0, <1>9, OthersStay DEF WorkerStep
<1>10. CASE \/ UNCHANGED vars
            \/ \E r \in Runs : CreatePending(r) \/ CreateQueued(r)
            \/ \E j \in JobIds : LeaseRunsOut(j) \/ LeaseLapses(j)
  BY <1>1, <1>10 DEF vars, CreatePending, CreateQueued, LeaseRunsOut, LeaseLapses
<1> QED
  BY <1>0, <1>1, <1>4, <1>5, <1>6, <1>7, <1>8, <1>9, <1>10 DEF Next, WorkerStep

\* Only a run that exists is executed.
Exist == \A p \in Procs : proc[p].pc = "executing" => runStatus[proc[p].run] # "absent"

LEMMA ExistNext == ASSUME IInv, Exist, [Next]_vars PROVE Exist'
<1> SUFFICES ASSUME NEW p \in Procs, proc'[p].pc = "executing"
             PROVE  runStatus'[proc'[p].run] # "absent"
  BY DEF Exist
<1>0. /\ runStatus \in [Runs -> AnalysisRunStatus \cup {"absent"}]
      /\ proc \in [Procs -> Proc] /\ StatusStep /\ "absent" \notin AnalysisRunStatus
  BY StatusesMove DEF IInv, TypeOK, AnalysisRunStatus
<1>1. CASE proc[p].pc = "executing" /\ proc'[p].run = proc[p].run
  <2>1. proc[p].run \in Runs /\ runStatus[proc[p].run] # "absent"
    BY <1>1 DEF IInv, Busy, Exist
  <2>2. \A r \in Runs : BecomesQueued(r) => runStatus'[r] = "queued"
    BY <1>0 DEF BecomesQueued, Inserts, Replaces, SetRun
  <2> QED
    BY <1>0, <1>1, <2>1, <2>2 DEF StatusStep
<1>2. CASE MarkRunning(p)
  <2>1. proc[p].run \in Runs /\ proc'[p].run = proc[p].run
    BY <1>0, <1>2 DEF MarkRunning, Goto, Proc, IInv, Busy
  <2> QED
    BY <1>0, <1>2, <2>1 DEF MarkRunning, SetRun
<1> QED
  BY <1>1, <1>2, ExecutionsAreMarked

\* An EDGAR run takes a result only while it is running, however many executions of
\* it overlap and whatever was cancelled: its completion locks the row, by flushing
\* the output payload, before it looks at the status again
\* (edgar_pipeline_execution_service.py: the refresh at line 349).
THEOREM EdgarResultsEndRunning == Spec => ResultsEndRunning
<1>1. IInv /\ Exist /\ [Next]_vars =>
        [\A r \in Runs \ Agentic :
           /\ runStatus'[r] \in {"success", "partial_success", "no_data"}
           /\ runStatus'[r] # runStatus[r]
           => runStatus[r] = "running"]_vars
  <2> SUFFICES ASSUME IInv, Exist, [Next]_vars, NEW r \in Runs \ Agentic,
                      runStatus'[r] \in {"success", "partial_success", "no_data"},
                      runStatus'[r] # runStatus[r]
               PROVE  runStatus[r] = "running"
    OBVIOUS
  <2>0. runStatus \in [Runs -> AnalysisRunStatus \cup {"absent"}]
    BY DEF IInv, TypeOK
  <2>1. PICK p \in Procs : Completes(p) /\ proc[p].run = r
    BY ResultsAreCommitted
  <2>2. EdgarComplete(p)
    BY <2>1 DEF Completes, AgenticComplete
  <2>3. PICK outcome \in {"success", "partial_success", "no_data", "error"} :
          CanTransition(runStatus[r], outcome) /\ SetRun(r, outcome)
    BY <2>1, <2>2 DEF EdgarComplete, CommitResult
  <2>4. outcome = runStatus'[r]
    BY <2>0, <2>3 DEF SetRun
  <2>5. runStatus[r] # "absent"
    BY <2>1, <2>2 DEF EdgarComplete, Exist
  <2> QED
    BY <2>0, <2>3, <2>4, <2>5 DEF CanTransition, Allowed, RestartToRunning, RetryToQueued, Terminal,
       AnalysisRunStatus
<1>2. Init => Exist
  BY DEF Init, Exist, Idle
<1>3. IInv /\ Exist /\ [Next]_vars => Exist'
  BY ExistNext
<1> QED
  BY <1>1, <1>2, <1>3, Invariant, PTL DEF Spec, ResultsEndRunning

\* A cancelled run gets no results, if nobody cancels a run that a worker has in
\* hand and no lease lapses under a live worker: what breaks the property is the
\* agentic engine's look at its own session's row, and nothing that retries, deaths
\* or other requests do.
THEOREM CancelledRunsStayEmpty ==
  ASSUME ~SyncExecute \/ Clients = {}
  PROVE  Spec /\ []Undisturbed => CancelledKeepsNoResults
<1>1. Init => NoneSync
  BY DEF Init, NoneSync, Idle, Procs
<1>2. IInv /\ NoneSync /\ [Next]_vars => NoneSync'
  BY NoneSyncNext
<1>3. IInv /\ UInv /\ NoneSync /\ [Next]_vars =>
        [\A r \in Runs : runStatus[r] = "cancelled" =>
           runStatus'[r] \notin {"success", "partial_success", "no_data"}]_vars
  <2> SUFFICES ASSUME IInv, UInv, NoneSync, [Next]_vars, NEW r \in Runs,
                      runStatus[r] = "cancelled",
                      runStatus'[r] \in {"success", "partial_success", "no_data"}
               PROVE  FALSE
    OBVIOUS
  <2>1. PICK p \in Procs : Completes(p) /\ proc[p].run = r
    BY ResultsAreCommitted
  <2>2. proc[p].pc = "executing"
    BY <2>1 DEF Completes, EdgarComplete, AgenticComplete
  <2>3. p \in Workers
    BY <2>2 DEF NoneSync, Procs
  <2> QED
    BY <2>1, <2>2, <2>3 DEF UInv, NotCancelled, Engaged
<1> QED
  BY <1>1, <1>2, <1>3, Invariant, Ownership, PTL DEF Spec, CancelledKeepsNoResults

-------------------------------------------------------------------------------
(* Two deployments in which the hypotheses always hold *)

\* One request at a time: attempts are opened one by one and numbered in order,
\* queued runs keep theirs, and the job table keeps the ledger, whatever crashes,
\* lapses or is cancelled.
THEOREM OneRequestAtATime ==
  ASSUME \A c, d \in Clients : c = d
  PROVE  Spec => /\ [](OneOpenJobPerRun /\ AttemptsNumberedInOrder /\ QueuedHasOpenJob)
                 /\ KeepsLedger
<1>1. RetriesApart
  BY DEF RetriesApart
<1> QED
  BY <1>1, OneAttemptAtATime, NumbersAreInOrder, NothingIsForgotten, JobTableKeepsLedger, PTL

\* Background workers alone, whose heartbeats keep their leases alive: any of
\* them may crash at any time.
THEOREM BackgroundIsSafe ==
  ASSUME Clients = {}, MaxLapses = 0
  PROVE  Spec => /\ [](OneExecutorPerRun /\ QueuedIsClaimable)
                 /\ OnlyOwnerWrites /\ CompletedMeansFinished
<1>1. RetriesApart /\ RetriesBelowCeiling
  BY DEF RetriesApart, RetriesBelowCeiling
<1>2. IInv => Undisturbed
  BY DEF IInv, TypeOK, Undisturbed
<1>3. Spec /\ []RetriesApart /\ []Undisturbed => CompletedMeansFinished
  BY CompletionsAreReal
<1> QED
  BY <1>1, <1>2, <1>3, Invariant, OneExecutor, QueuedIsServable, WritesAreOwned, PTL

===============================================================================
