---------------------------- MODULE ControlProofs ----------------------------
(***************************************************************************)
(* Proofs about the two parts of the backend that decide about runs and    *)
(* execute none: SpendGuard, which admits their starts, and                *)
(* EvaluationControl, which starts the runs of a suite and judges them.    *)
(*                                                                         *)
(* For any number of accounts, requests in flight and runs, any ceilings   *)
(* and prices: a ceiling is passed by requests that were in flight         *)
(* together only, and no account that is not adaptive ever runs on the     *)
(* agentic engine.  For any suite, any number of child runs and starters,  *)
(* and any order in which child runs move while a read goes from one to    *)
(* the next: an evaluation answers only what its rows justify.             *)
(***************************************************************************)
EXTENDS SpendGuard, EvaluationControl, FiniteSetTheorems, TLAPS

(***************************************************************************)
(* The spend guard                                                         *)
(***************************************************************************)

\* What the guard's count rests on: a run that a guarded request started is
\* one that the guard counts, no run was created later than now, and a request
\* about an existing run is charged to the owner of that run.
Charged ==
  /\ \A r \in Tasks : task[r].via = "guard" => Billable(r)
  /\ \A r \in Tasks : task[r].created <= month
  /\ \A c \in Requests : request[c].op \in {"retry", "execute"} =>
       /\ task[request[c].run].status # "absent"
       /\ task[request[c].run].owner = request[c].user

SpendInv == SpendTypeOK /\ Charged

-------------------------------------------------------------------------------
(* Rows and requests have their types *)

LEMMA SpendInitInv == ASSUME SpendInit PROVE SpendInv
<1>1. (CHOOSE u \in Accounts : TRUE) \in Accounts
  BY AccountAssumption
<1>2. 0 \in 0..MaxMonth
  BY FiniteAssumption
<1>3. SpendTypeOK
  BY <1>1, <1>2 DEF SpendInit, SpendTypeOK, Task, Idle, Engines, AnalysisRunStatus
<1>4. Charged
  BY <1>1, <1>2 DEF SpendInit, Charged, Idle
<1> QED BY <1>3, <1>4 DEF SpendInv

LEMMA NewTyped ==
  ASSUME SpendTypeOK, NEW u \in Accounts, NEW e \in Engines,
         NEW s \in AnalysisRunStatus, NEW v \in {"none", "guard", "evaluation"}
  PROVE  New(u, e, s, v) \in Task
BY DEF New, Task, SpendTypeOK

LEMMA StartedTyped ==
  ASSUME SpendTypeOK, NEW row \in Task
  PROVE  /\ Started(row) \in Task
         /\ Started(row).owner = row.owner /\ Started(row).created = row.created
         /\ Started(row).ran = row.ran /\ Started(row).status = row.status
BY DEF Started, Task, SpendTypeOK

LEMMA EngineTyped == ASSUME NEW r PROVE EngineOf(r) \in Engines
BY DEF EngineOf, Engines

\* What a request record is, by its operation.
LEMMA RequestCases ==
  ASSUME SpendTypeOK, NEW c \in Requests
  PROVE  /\ request[c].op = "create" => request[c] \in Ask
         /\ request[c].op \in {"retry", "execute"} => request[c] \in Again
         /\ request[c] # Idle <=> request[c].op # "none"
BY DEF SpendTypeOK, Ask, Again, Idle

LEMMA TypesKept ==
  ASSUME SpendTypeOK, [SpendNext]_spendVars PROVE SpendTypeOK'
<1> USE FiniteAssumption
<1>0. Idle \in Ask \cup Again \cup {Idle}
  OBVIOUS
<1>1. ASSUME NEW u \in Accounts, NEW r \in Tasks, NEW e \in Engines,
             CreatePending(u, r, e)
      PROVE  SpendTypeOK'
  <2>1. New(u, e, "pending", "none") \in Task
    BY NewTyped DEF AnalysisRunStatus
  <2> QED BY <1>1, <2>1 DEF CreatePending, SpendTypeOK
<1>2. ASSUME NEW c \in Requests, NEW u \in Accounts, NEW e \in Engines,
             AdmitNew(c, u, e)
      PROVE  SpendTypeOK'
  BY <1>2 DEF AdmitNew, SpendTypeOK, Ask
<1>3. ASSUME NEW c \in Requests, NEW op \in {"retry", "execute"},
             NEW r \in Tasks, AdmitAgain(c, op, r)
      PROVE  SpendTypeOK'
  <2>1. task[r].owner \in Accounts
    BY DEF SpendTypeOK, Task
  <2> QED BY <1>3, <2>1 DEF AdmitAgain, SpendTypeOK, Again
<1>4. ASSUME NEW c \in Requests, NEW r \in Tasks, CommitNew(c, r)
      PROVE  SpendTypeOK'
  <2>1. request[c] \in Ask
    BY <1>4, RequestCases DEF CommitNew
  <2>2. New(request[c].user, request[c].engine, "queued", "guard") \in Task
    BY <2>1, NewTyped DEF Ask, AnalysisRunStatus
  <2> QED BY <1>4, <1>0, <2>2 DEF CommitNew, SpendTypeOK
<1>5. ASSUME NEW c \in Requests, CommitRetry(c) \/ CommitExecute(c)
      PROVE  SpendTypeOK'
  <2> DEFINE r == request[c].run
  <2>1. r \in Tasks
    BY <1>5, RequestCases DEF CommitRetry, CommitExecute, Again
  <2>2. Started(task[r]) \in Task
    BY <2>1, StartedTyped DEF SpendTypeOK
  <2>3. [Started(task[r]) EXCEPT !.status = "queued"] \in Task
    BY <2>2 DEF Task, AnalysisRunStatus
  <2>4. [Started(task[r]) EXCEPT !.status = "running", !.ran = EngineOf(r)] \in Task
    BY <2>2, EngineTyped DEF Task, AnalysisRunStatus
  <2>5. task' \in [Tasks -> Task]
    BY <1>5, <2>1, <2>3, <2>4 DEF CommitRetry, CommitExecute, SpendTypeOK
  <2> QED BY <1>5, <1>0, <2>5 DEF CommitRetry, CommitExecute, SpendTypeOK
<1>6. ASSUME NEW r \in Tasks, CancelTask(r) PROVE SpendTypeOK'
  <2>1. [task[r] EXCEPT !.status = "cancelled"] \in Task
    BY DEF SpendTypeOK, Task, AnalysisRunStatus
  <2> QED BY <1>6, <2>1 DEF CancelTask, SpendTypeOK
<1>7. ASSUME NEW u \in Accounts, NEW r \in Tasks, QueueEvaluationChild(u, r)
      PROVE  SpendTypeOK'
  <2>1. New(u, "edgar", "queued", "evaluation") \in Task
    BY NewTyped DEF AnalysisRunStatus, Engines
  <2> QED BY <1>7, <2>1 DEF QueueEvaluationChild, SpendTypeOK
<1>8. ASSUME NEW r \in Tasks, Work(r) PROVE SpendTypeOK'
  <2>1. [task[r] EXCEPT !.status = "running", !.ran = EngineOf(r)] \in Task
    BY EngineTyped DEF SpendTypeOK, Task, AnalysisRunStatus
  <2> QED BY <1>8, <2>1 DEF Work, SpendTypeOK
<1>9. ASSUME NEW r \in Tasks, NEW o \in {"success", "error"}, NEW n \in 0..MaxTokens,
             Finish(r, o, n)
      PROVE  SpendTypeOK'
  <2>1. task[r].tokens \in [Models -> Nat]
    BY DEF SpendTypeOK, Task
  <2>2. [m \in Models |-> task[r].tokens[m] + n] \in [Models -> Nat]
    BY <2>1
  <2>3. [task[r] EXCEPT !.status = o,
                        !.tokens = [m \in Models |-> task[r].tokens[m] + n]] \in Task
    <3> DEFINE tokens == [m \in Models |-> task[r].tokens[m] + n]
    <3>1. task[r] \in Task /\ o \in AnalysisRunStatus
      BY DEF SpendTypeOK, AnalysisRunStatus
    <3>2. tokens \in [Models -> Nat]
      BY <2>2
    <3> HIDE DEF tokens
    <3>3. [task[r] EXCEPT !.status = o, !.tokens = tokens] \in Task
      BY <3>1, <3>2 DEF Task
    <3> QED BY <3>3 DEF tokens
  <2>4. task' = [task EXCEPT ![r] = [task[r] EXCEPT !.status = o,
                    !.tokens = [m \in Models |-> task[r].tokens[m] + n]]]
    BY <1>9 DEF Finish, SpendTypeOK
  <2> QED BY <1>9, <2>3, <2>4 DEF Finish, SpendTypeOK
<1>10. CASE NextMonth
  BY <1>10 DEF NextMonth, SpendTypeOK
<1>11. CASE UNCHANGED spendVars
  BY <1>11 DEF spendVars, SpendTypeOK
<1> QED BY <1>1, <1>2, <1>3, <1>4, <1>5, <1>6, <1>7, <1>8, <1>9, <1>10, <1>11
        DEF SpendNext

-------------------------------------------------------------------------------
(* Every step does one of four things to what the ceilings look at *)

\* A run that the guard started stays what it was, and no other becomes one.
SameRun(r) ==
  task'[r].via = "guard" =>
    /\ task[r].via = "guard"
    /\ task'[r].owner = task[r].owner /\ task'[r].created = task[r].created

SameRequests(C) == \A c \in C : request'[c] = request[c]

Quiet ==
  /\ month' = month /\ SameRequests(Requests)
  /\ \A r \in Tasks : SameRun(r)

\* Request c is answered, and may have made run r a guarded one.
CommitOf(c, r) ==
  /\ month' = month /\ SameRequests(Requests \ {c})
  /\ request[c] # Idle /\ request'[c] = Idle
  /\ \A q \in Tasks \ {r} : SameRun(q)
  /\ task'[r].owner = request[c].user

\* Request c is admitted for account u.
AdmitOf(c, u) ==
  /\ UNCHANGED <<month, task>> /\ SameRequests(Requests \ {c})
  /\ request[c] = Idle /\ request'[c].user = u /\ Admissible(u)

\* The calendar turns and everything else stands still.
Turn == month' = month + 1 /\ UNCHANGED <<task, request>>

Step == \/ Quiet
        \/ \E c \in Requests, r \in Tasks : CommitOf(c, r)
        \/ \E c \in Requests, u \in Accounts : AdmitOf(c, u)
        \/ Turn

\* The ledger is kept and the step is of one of the four kinds.
LEMMA ChargedKept ==
  ASSUME SpendInv, [SpendNext]_spendVars PROVE Charged' /\ Step
<1> USE DEF SpendInv, SameRun, SameRequests
<1>t. task \in [Tasks -> Task] /\ request \in [Requests -> Ask \cup Again \cup {Idle}]
      /\ month \in 0..MaxMonth
  BY DEF SpendTypeOK
<1>i. Idle.op = "none"
  BY DEF Idle
<1>1. ASSUME NEW u \in Accounts, NEW r \in Tasks, NEW e \in Engines,
             CreatePending(u, r, e)
      PROVE  Charged' /\ Quiet
  BY <1>1, <1>t, RequestCases DEF CreatePending, Charged, Quiet, New, Unborn, Billable, Again
<1>2. ASSUME NEW c \in Requests, NEW u \in Accounts, NEW e \in Engines,
             AdmitNew(c, u, e)
      PROVE  Charged' /\ AdmitOf(c, u)
  BY <1>2, <1>t DEF AdmitNew, Charged, AdmitOf, Billable
<1>3. ASSUME NEW c \in Requests, NEW op \in {"retry", "execute"},
             NEW r \in Tasks, AdmitAgain(c, op, r)
      PROVE  Charged' /\ AdmitOf(c, task[r].owner)
  BY <1>3, <1>t DEF AdmitAgain, Charged, AdmitOf, Billable
<1>4. ASSUME NEW c \in Requests, NEW r \in Tasks, CommitNew(c, r)
      PROVE  Charged' /\ CommitOf(c, r)
  <2>1. request[c] # Idle
    BY <1>4, <1>i DEF CommitNew
  <2>2. CommitOf(c, r)
    BY <1>4, <1>t, <2>1 DEF CommitNew, CommitOf, New
  <2>3. Charged'
    BY <1>4, <1>t, <1>i, RequestCases DEF CommitNew, Charged, New, Unborn, Billable, Again
  <2> QED BY <2>2, <2>3
<1>5. ASSUME NEW c \in Requests, CommitRetry(c) \/ CommitExecute(c)
      PROVE  Charged' /\ CommitOf(c, request[c].run)
  <2> DEFINE r == request[c].run
  <2>1. /\ r \in Tasks /\ request[c] # Idle /\ request'[c] = Idle
        /\ task[r].owner = request[c].user /\ task[r].status # "absent"
        /\ month' = month /\ SameRequests(Requests \ {c})
    BY <1>5, <1>t, <1>i, RequestCases DEF CommitRetry, CommitExecute, Again, Charged
  <2>2. task[r] \in Task
    BY <1>t, <2>1
  <2>3. /\ \A q \in Tasks \ {r} : task'[q] = task[q]
        /\ task'[r].owner = task[r].owner /\ task'[r].created = task[r].created
        /\ \/ task'[r] = task[r]
           \/ task'[r].status \in {"queued", "running"}
    <3>1. CASE task' = task
      BY <3>1
    <3>2. CASE task' = [task EXCEPT ![r] = [Started(@) EXCEPT !.status = "queued"]]
      BY <1>t, <2>1, <2>2, <3>2, StartedTyped DEF Task
    <3>3. CASE task' = [task EXCEPT ![r] = [Started(@) EXCEPT !.status = "running",
                                                              !.ran = EngineOf(r)]]
      BY <1>t, <2>1, <2>2, <3>3, StartedTyped DEF Task
    <3> QED BY <1>5, <3>1, <3>2, <3>3 DEF CommitRetry, CommitExecute
  <2>4. CommitOf(c, r)
    BY <2>1, <2>3 DEF CommitOf
  <2>5. Charged'
    BY <1>i, <1>t, <2>1, <2>3, RequestCases DEF Charged, Billable, Again
  <2> QED BY <2>4, <2>5
<1>s. ASSUME NEW r \in Tasks, NEW s \in AnalysisRunStatus \ {"pending"},
             task[r].status # "absent", UNCHANGED <<month, request>>,
             \A q \in Tasks : /\ task'[q].via = task[q].via
                              /\ task'[q].owner = task[q].owner
                              /\ task'[q].created = task[q].created
                              /\ task'[q].status = IF q = r THEN s ELSE task[q].status
      PROVE  Charged' /\ Quiet
  <2>1. Quiet
    BY <1>s DEF Quiet
  <2>2. s \notin {"absent", "pending"}
    BY DEF AnalysisRunStatus
  <2>3. Charged'
    BY <1>s, <1>t, <2>2, RequestCases DEF Charged, Billable, Again
  <2> QED BY <2>1, <2>3
<1>6. ASSUME NEW r \in Tasks, CancelTask(r) PROVE Charged' /\ Quiet
  <2>1. /\ task[r].status # "absent" /\ UNCHANGED <<month, request>>
        /\ \A q \in Tasks : /\ task'[q].via = task[q].via
                            /\ task'[q].owner = task[q].owner
                            /\ task'[q].created = task[q].created
                            /\ task'[q].status = IF q = r THEN "cancelled" ELSE task[q].status
    BY <1>6, <1>t DEF CancelTask, Task
  <2>2. "cancelled" \in AnalysisRunStatus \ {"pending"}
    BY DEF AnalysisRunStatus
  <2> QED BY <2>1, <2>2, <1>s
<1>7. ASSUME NEW u \in Accounts, NEW r \in Tasks, QueueEvaluationChild(u, r)
      PROVE  Charged' /\ Quiet
  BY <1>7, <1>t, RequestCases
     DEF QueueEvaluationChild, Charged, Quiet, New, Unborn, Billable, Again
<1>8. ASSUME NEW r \in Tasks, Work(r) PROVE Charged' /\ Quiet
  <2>1. /\ task[r].status # "absent" /\ UNCHANGED <<month, request>>
        /\ \A q \in Tasks : /\ task'[q].via = task[q].via
                            /\ task'[q].owner = task[q].owner
                            /\ task'[q].created = task[q].created
                            /\ task'[q].status = IF q = r THEN "running" ELSE task[q].status
    BY <1>8, <1>t DEF Work, Task
  <2>2. "running" \in AnalysisRunStatus \ {"pending"}
    BY DEF AnalysisRunStatus
  <2> QED BY <2>1, <2>2, <1>s
<1>9. ASSUME NEW r \in Tasks, NEW o \in {"success", "error"}, NEW n \in 0..MaxTokens,
             Finish(r, o, n)
      PROVE  Charged' /\ Quiet
  <2>1. /\ task[r].status # "absent" /\ UNCHANGED <<month, request>>
        /\ \A q \in Tasks : /\ task'[q].via = task[q].via
                            /\ task'[q].owner = task[q].owner
                            /\ task'[q].created = task[q].created
                            /\ task'[q].status = IF q = r THEN o ELSE task[q].status
    BY <1>9, <1>t DEF Finish, Task
  <2>2. o \in AnalysisRunStatus \ {"pending"}
    BY DEF AnalysisRunStatus
  <2> QED BY <2>1, <2>2, <1>s
<1>10. ASSUME NextMonth PROVE Charged' /\ Turn
  <2>1. task' = task /\ request' = request /\ month' = month + 1
    BY <1>10 DEF NextMonth
  <2>2. \A r \in Tasks : task[r].created <= month + 1
    <3>1. \A r \in Tasks : task[r].created \in Nat /\ task[r].created <= month
      BY <1>t, FiniteAssumption DEF Charged, Task
    <3>2. month \in Nat
      BY <1>t, FiniteAssumption
    <3> QED BY <3>1, <3>2
  <2> QED BY <2>1, <2>2 DEF Charged, Turn, Billable
<1>11. ASSUME UNCHANGED spendVars PROVE Charged' /\ Quiet
  <2>1. task' = task /\ request' = request /\ month' = month
    BY <1>11 DEF spendVars
  <2> QED BY <2>1 DEF Charged, Quiet, Billable
<1>12. ASSUME NEW r \in Tasks PROVE task[r].owner \in Accounts
  BY <1>t DEF Task
<1> QED
  <2>1. CASE UNCHANGED spendVars
    BY <2>1, <1>11 DEF Step
  <2>2. CASE SpendNext
    <3>1. request \in [Requests -> Ask \cup Again \cup {Idle}]
      BY <1>t
    <3>2. \A c \in Requests : CommitRetry(c) \/ CommitExecute(c) => request[c].run \in Tasks
      BY RequestCases DEF CommitRetry, CommitExecute, Again
    <3> QED BY <2>2, <1>1, <1>2, <1>3, <1>4, <1>5, <1>6, <1>7, <1>8, <1>9, <1>10,
               <1>12, <3>2 DEF SpendNext, Step
  <2> QED BY <2>1, <2>2

-------------------------------------------------------------------------------
(* Counting *)

\* G and H are the guarded runs before and after a step, F and E the requests
\* in flight.
LEMMA Overshoot ==
  ASSUME NEW G \in SUBSET Tasks, NEW H \in SUBSET Tasks,
         NEW F \in SUBSET Requests, NEW E \in SUBSET Requests, NEW limit \in Nat,
         Cardinality(G) + Cardinality(F) <= limit + Cardinality(Requests) - 1,
         \/ H \subseteq G /\ E \subseteq F
         \/ \E c \in F, r \in Tasks : H \subseteq G \cup {r} /\ E \subseteq F \ {c}
         \/ Cardinality(H) < limit
  PROVE  Cardinality(H) + Cardinality(E) <= limit + Cardinality(Requests) - 1
<1>1. IsFiniteSet(Tasks) /\ IsFiniteSet(Requests)
  BY FS_Interval, FiniteAssumption DEF Tasks
<1>2. IsFiniteSet(G) /\ IsFiniteSet(H) /\ IsFiniteSet(F) /\ IsFiniteSet(E)
  BY <1>1, FS_Subset
<1>3. /\ Cardinality(G) \in Nat /\ Cardinality(H) \in Nat
      /\ Cardinality(F) \in Nat /\ Cardinality(E) \in Nat
      /\ Cardinality(Requests) \in Nat
  BY <1>1, <1>2, FS_CardinalityType
<1>4. CASE H \subseteq G /\ E \subseteq F
  <2>1. Cardinality(H) <= Cardinality(G) /\ Cardinality(E) <= Cardinality(F)
    BY <1>2, <1>4, FS_Subset
  <2> QED BY <1>3, <2>1
<1>5. ASSUME NEW c \in F, NEW r \in Tasks, H \subseteq G \cup {r}, E \subseteq F \ {c}
      PROVE  Cardinality(H) + Cardinality(E) <= limit + Cardinality(Requests) - 1
  <2>0. IsFiniteSet(G \cup {r})
        /\ Cardinality(G \cup {r}) = IF r \in G THEN Cardinality(G) ELSE Cardinality(G) + 1
    BY <1>2, FS_AddElement
  <2>1. IsFiniteSet(G \cup {r}) /\ Cardinality(G \cup {r}) <= Cardinality(G) + 1
        /\ Cardinality(G \cup {r}) \in Nat
    BY <2>0, <1>3
  <2>2. IsFiniteSet(F \ {c}) /\ Cardinality(F \ {c}) = Cardinality(F) - 1
    BY <1>2, FS_RemoveElement
  <2>3. Cardinality(H) <= Cardinality(G \cup {r})
    BY <1>5, <2>1, FS_Subset
  <2>4. Cardinality(E) <= Cardinality(F) - 1
    BY <1>5, <2>2, FS_Subset
  <2> QED BY <1>3, <2>1, <2>3, <2>4
<1>6. CASE Cardinality(H) < limit
  <2>1. Cardinality(E) <= Cardinality(Requests)
    BY <1>1, FS_Subset
  <2> QED BY <1>3, <1>6, <2>1
<1> QED BY <1>4, <1>5, <1>6

\* A guarded run counts, so a ceiling that has not been reached bounds them.
LEMMA GuardedIsBilled ==
  ASSUME SpendInv
  PROVE  /\ \A u \in Accounts : Cardinality(GuardedFor(u)) <= Cardinality(BilledTo(u))
         /\ Cardinality(Guarded) <= Cardinality(BilledThisMonth)
<1>1. IsFiniteSet(Tasks)
  BY FS_Interval, FiniteAssumption DEF Tasks
<1>2. ASSUME NEW u \in Accounts
      PROVE  Cardinality(GuardedFor(u)) <= Cardinality(BilledTo(u))
  <2>1. IsFiniteSet(BilledTo(u))
    BY <1>1, FS_Subset DEF BilledTo
  <2>2. GuardedFor(u) \subseteq BilledTo(u)
    BY DEF GuardedFor, BilledTo, SpendInv, Charged
  <2> QED BY <2>1, <2>2, FS_Subset
<1>3. IsFiniteSet(BilledThisMonth)
  BY <1>1, FS_Subset DEF BilledThisMonth
<1>4. Guarded \subseteq BilledThisMonth
  BY DEF Guarded, BilledThisMonth, SpendInv, Charged
<1>5. Cardinality(Guarded) <= Cardinality(BilledThisMonth)
  BY <1>3, <1>4, FS_Subset
<1> QED BY <1>2, <1>5

-------------------------------------------------------------------------------
(* The ceilings *)

LEMMA AccountStep ==
  ASSUME SpendInv, Step, AccountOvershootBounded
  PROVE  AccountOvershootBounded'
<1> SUFFICES ASSUME NEW u \in Accounts \ Admins, RunLimit(u) # 0
             PROVE  Cardinality(GuardedFor(u)') + Cardinality(InFlightFor(u)')
                      <= RunLimit(u) + Cardinality(Requests) - 1
  BY DEF AccountOvershootBounded, RunLimit
<1> DEFINE G == GuardedFor(u)  H == GuardedFor(u)'
           F == InFlightFor(u) E == InFlightFor(u)'
<1>1. /\ G \in SUBSET Tasks /\ H \in SUBSET Tasks
      /\ F \in SUBSET Requests /\ E \in SUBSET Requests
  BY DEF GuardedFor, InFlightFor
<1>2. RunLimit(u) \in Nat
  BY AccountAssumption, LimitAssumption DEF RunLimit
<1>3. Cardinality(G) + Cardinality(F) <= RunLimit(u) + Cardinality(Requests) - 1
  BY DEF AccountOvershootBounded
<1>4. \/ H \subseteq G /\ E \subseteq F
      \/ \E c \in F, r \in Tasks : H \subseteq G \cup {r} /\ E \subseteq F \ {c}
      \/ Cardinality(H) < RunLimit(u)
  <2>1. CASE Quiet
    BY <2>1 DEF Quiet, SameRun, SameRequests, GuardedFor, InFlightFor
  <2>2. ASSUME NEW c \in Requests, NEW r \in Tasks, CommitOf(c, r)
        PROVE  \/ H \subseteq G /\ E \subseteq F
               \/ c \in F /\ H \subseteq G \cup {r} /\ E \subseteq F \ {c}
    <3>1. E \subseteq F \ {c}
      BY <2>2 DEF CommitOf, SameRequests, InFlightFor, Idle
    <3>2. H \subseteq G \cup {r}
      BY <2>2 DEF CommitOf, SameRun, GuardedFor
    <3>3. CASE request[c].user = u
      BY <2>2, <3>1, <3>2, <3>3 DEF CommitOf, InFlightFor
    <3>4. CASE request[c].user # u
      BY <2>2, <3>1, <3>4 DEF CommitOf, SameRun, GuardedFor
    <3> QED BY <3>3, <3>4
  <2>3. ASSUME NEW c \in Requests, NEW v \in Accounts, AdmitOf(c, v)
        PROVE  (H \subseteq G /\ E \subseteq F) \/ Cardinality(H) < RunLimit(u)
    <3>1. H = G
      BY <2>3 DEF AdmitOf, GuardedFor
    <3>2. CASE v # u
      BY <2>3, <3>1, <3>2 DEF AdmitOf, SameRequests, InFlightFor
    <3>3. CASE v = u
      <4>1. ~Reached(RunLimit(u), Cardinality(BilledTo(u)))
        BY <2>3, <3>3 DEF AdmitOf, Admissible
      <4>2. Cardinality(G) <= Cardinality(BilledTo(u))
        BY GuardedIsBilled
      <4>3. IsFiniteSet(Tasks)
        BY FS_Interval, FiniteAssumption DEF Tasks
      <4>4. Cardinality(G) \in Nat /\ Cardinality(BilledTo(u)) \in Nat
        BY <1>1, <4>3, FS_Subset, FS_CardinalityType DEF BilledTo
      <4> QED BY <1>2, <3>1, <4>1, <4>2, <4>4 DEF Reached
    <3> QED BY <3>2, <3>3
  <2>4. CASE Turn
    BY <2>4 DEF Turn, GuardedFor, InFlightFor
  <2> QED BY <2>1, <2>2, <2>3, <2>4 DEF Step
<1> HIDE DEF G, H, F, E
<1>5. Cardinality(H) + Cardinality(E) <= RunLimit(u) + Cardinality(Requests) - 1
  BY <1>1, <1>2, <1>3, <1>4, Overshoot
<1> QED BY <1>5 DEF H, E

LEMMA GlobalStep ==
  ASSUME SpendInv, Step, GlobalOvershootBounded
  PROVE  GlobalOvershootBounded'
<1> SUFFICES ASSUME GlobalMaxRuns # 0
             PROVE  Cardinality(Guarded') + Cardinality(InFlight')
                      <= GlobalMaxRuns + Cardinality(Requests) - 1
  BY DEF GlobalOvershootBounded
<1> DEFINE G == Guarded  H == Guarded'  F == InFlight  E == InFlight'
<1>1. /\ G \in SUBSET Tasks /\ H \in SUBSET Tasks
      /\ F \in SUBSET Requests /\ E \in SUBSET Requests
  BY DEF Guarded, InFlight
<1>2. GlobalMaxRuns \in Nat
  BY LimitAssumption
<1>3. Cardinality(G) + Cardinality(F) <= GlobalMaxRuns + Cardinality(Requests) - 1
  BY DEF GlobalOvershootBounded
<1>4. \/ H \subseteq G /\ E \subseteq F
      \/ \E c \in F, r \in Tasks : H \subseteq G \cup {r} /\ E \subseteq F \ {c}
      \/ Cardinality(H) < GlobalMaxRuns
  <2>1. CASE Quiet
    BY <2>1 DEF Quiet, SameRun, SameRequests, Guarded, InFlight
  <2>2. ASSUME NEW c \in Requests, NEW r \in Tasks, CommitOf(c, r)
        PROVE  \/ H \subseteq G /\ E \subseteq F
               \/ c \in F /\ H \subseteq G \cup {r} /\ E \subseteq F \ {c}
    <3>1. E \subseteq F \ {c}
      BY <2>2 DEF CommitOf, SameRequests, InFlight, Idle
    <3>2. H \subseteq G \cup {r}
      BY <2>2 DEF CommitOf, SameRun, Guarded
    <3>3. CASE request[c].user \notin Admins
      BY <2>2, <3>1, <3>2, <3>3 DEF CommitOf, InFlight
    <3>4. CASE request[c].user \in Admins
      BY <2>2, <3>1, <3>4 DEF CommitOf, SameRun, Guarded
    <3> QED BY <3>3, <3>4
  <2>3. ASSUME NEW c \in Requests, NEW v \in Accounts, AdmitOf(c, v)
        PROVE  (H \subseteq G /\ E \subseteq F) \/ Cardinality(H) < GlobalMaxRuns
    <3>1. H = G
      BY <2>3 DEF AdmitOf, Guarded
    <3>2. CASE v \in Admins
      BY <2>3, <3>1, <3>2 DEF AdmitOf, SameRequests, InFlight
    <3>3. CASE v \notin Admins
      <4>1. ~Reached(GlobalMaxRuns, Cardinality(BilledThisMonth))
        BY <2>3, <3>3 DEF AdmitOf, Admissible
      <4>2. Cardinality(G) <= Cardinality(BilledThisMonth)
        BY GuardedIsBilled
      <4>3. IsFiniteSet(Tasks)
        BY FS_Interval, FiniteAssumption DEF Tasks
      <4>4. Cardinality(G) \in Nat /\ Cardinality(BilledThisMonth) \in Nat
        BY <1>1, <4>3, FS_Subset, FS_CardinalityType DEF BilledThisMonth
      <4> QED BY <1>2, <3>1, <4>1, <4>2, <4>4 DEF Reached
    <3> QED BY <3>2, <3>3
  <2>4. CASE Turn
    <3>1. month \in Nat /\ \A r \in Tasks : task[r].created \in Nat /\ task[r].created <= month
      BY FiniteAssumption DEF SpendInv, SpendTypeOK, Task, Charged
    <3>2. \A r \in Tasks : task'[r].created # month'
      BY <2>4, <3>1 DEF Turn
    <3>3. H = {}
      BY <3>2 DEF Guarded
    <3> QED BY <2>4, <3>3 DEF Turn, InFlight
  <2> QED BY <2>1, <2>2, <2>3, <2>4 DEF Step
<1> HIDE DEF G, H, F, E
<1>5. Cardinality(H) + Cardinality(E) <= GlobalMaxRuns + Cardinality(Requests) - 1
  BY <1>1, <1>2, <1>3, <1>4, Overshoot
<1> QED BY <1>5 DEF H, E

-------------------------------------------------------------------------------
(* The engine *)

\* A row's owner never changes once something has run it, and what runs it is
\* chosen from the owner's tier at that moment.
LEMMA EngineStep ==
  ASSUME SpendInv, [SpendNext]_spendVars, AgenticOnlyForAdaptive
  PROVE  AgenticOnlyForAdaptive'
<1>t. task \in [Tasks -> Task]
  BY DEF SpendInv, SpendTypeOK
<1>o. \A q \in Tasks : task[q].ran = "agentic" =>
        AgenticEnabled /\ Tier[task[q].owner] = "adaptive"
  BY DEF AgenticOnlyForAdaptive
<1> SUFFICES ASSUME NEW q \in Tasks
             PROVE  \/ task'[q].ran # "agentic"
                    \/ task'[q].ran = task[q].ran /\ task'[q].owner = task[q].owner
                    \/ task'[q].ran = EngineOf(q) /\ task'[q].owner = task[q].owner
  BY <1>o DEF AgenticOnlyForAdaptive, EngineOf
<1>1. CASE \/ \E u \in Accounts, r \in Tasks, e \in Engines : CreatePending(u, r, e)
           \/ \E c \in Requests, r \in Tasks : CommitNew(c, r)
           \/ \E u \in Accounts, r \in Tasks : QueueEvaluationChild(u, r)
  BY <1>1, <1>t DEF CreatePending, CommitNew, QueueEvaluationChild, New
<1>2. CASE \/ \E c \in Requests, u \in Accounts, e \in Engines : AdmitNew(c, u, e)
           \/ \E c \in Requests, op \in {"retry", "execute"}, r \in Tasks : AdmitAgain(c, op, r)
           \/ NextMonth \/ UNCHANGED spendVars
  BY <1>2 DEF AdmitNew, AdmitAgain, NextMonth, spendVars
<1>3. ASSUME NEW c \in Requests, CommitRetry(c) \/ CommitExecute(c)
      PROVE  /\ task'[q].owner = task[q].owner
             /\ task'[q].ran = task[q].ran \/ task'[q].ran = EngineOf(q)
  <2> DEFINE r == request[c].run
  <2>1. r \in Tasks /\ task[r] \in Task
    BY <1>3, <1>t, RequestCases DEF CommitRetry, CommitExecute, Again, SpendInv
  <2>2. SpendTypeOK
    BY DEF SpendInv
  <2>3. CASE task' = task
    BY <2>3
  <2>4. CASE task' = [task EXCEPT ![r] = [Started(@) EXCEPT !.status = "queued"]]
    BY <1>t, <2>1, <2>2, <2>4, StartedTyped DEF Task
  <2>5. CASE task' = [task EXCEPT ![r] = [Started(@) EXCEPT !.status = "running",
                                                            !.ran = EngineOf(r)]]
    BY <1>t, <2>1, <2>2, <2>5, StartedTyped DEF Task
  <2> QED BY <1>3, <2>3, <2>4, <2>5 DEF CommitRetry, CommitExecute
<1>4. CASE \E r \in Tasks : CancelTask(r)
  BY <1>4, <1>t DEF CancelTask, Task
<1>5. CASE \E r \in Tasks : Work(r)
  BY <1>5, <1>t DEF Work, Task
<1>6. CASE \E r \in Tasks, o \in {"success", "error"}, n \in 0..MaxTokens : Finish(r, o, n)
  BY <1>6, <1>t DEF Finish, Task
<1> QED BY <1>1, <1>2, <1>3, <1>4, <1>5, <1>6 DEF SpendNext

-------------------------------------------------------------------------------
(* Theorems *)

LEMMA SpendInvariant == SpendSpec => []SpendInv
<1>1. SpendInv /\ [SpendNext]_spendVars => SpendInv'
  BY TypesKept, ChargedKept DEF SpendInv
<1> QED BY SpendInitInv, <1>1, PTL DEF SpendSpec

\* Rows and requests keep their types.
THEOREM SpendTypeCorrect == SpendSpec => []SpendTypeOK
<1>1. SpendInv => SpendTypeOK
  BY DEF SpendInv
<1> QED BY SpendInvariant, <1>1, PTL

\* However many requests check the account's ceiling before any of them has
\* committed, the runs that an account starts through the guard exceed it by
\* the requests in flight at once, less one (spend_guard.check_run_admission).
THEOREM AccountCeiling == SpendSpec => []AccountOvershootBounded
<1>1. SpendInit => AccountOvershootBounded
  <2> SUFFICES ASSUME SpendInit, NEW u \in Accounts \ Admins, RunLimit(u) # 0
               PROVE  Cardinality(GuardedFor(u)) + Cardinality(InFlightFor(u))
                        <= RunLimit(u) + Cardinality(Requests) - 1
    BY DEF AccountOvershootBounded
  <2>1. GuardedFor(u) = {} /\ InFlightFor(u) = {}
    BY DEF SpendInit, GuardedFor, InFlightFor
  <2>2. Cardinality(Requests) \in Nat /\ RunLimit(u) \in Nat
    BY FS_CardinalityType, FiniteAssumption, AccountAssumption, LimitAssumption DEF RunLimit
  <2> QED BY <2>1, <2>2, FS_EmptySet
<1>2. SpendInv /\ [SpendNext]_spendVars /\ AccountOvershootBounded => AccountOvershootBounded'
  BY ChargedKept, AccountStep
<1> QED BY SpendInvariant, <1>1, <1>2, PTL DEF SpendSpec

\* The same for the deployment and a calendar month, whoever asks
\* (global_monthly_max_runs).
THEOREM GlobalCeiling == SpendSpec => []GlobalOvershootBounded
<1>1. SpendInit => GlobalOvershootBounded
  <2> SUFFICES ASSUME SpendInit, GlobalMaxRuns # 0
               PROVE  Cardinality(Guarded) + Cardinality(InFlight)
                        <= GlobalMaxRuns + Cardinality(Requests) - 1
    BY DEF GlobalOvershootBounded
  <2>1. Guarded = {} /\ InFlight = {}
    BY DEF SpendInit, Guarded, InFlight
  <2>2. Cardinality(Requests) \in Nat /\ GlobalMaxRuns \in Nat
    BY FS_CardinalityType, FiniteAssumption, LimitAssumption
  <2> QED BY <2>1, <2>2, FS_EmptySet
<1>2. SpendInv /\ [SpendNext]_spendVars /\ GlobalOvershootBounded => GlobalOvershootBounded'
  BY ChargedKept, GlobalStep
<1> QED BY SpendInvariant, <1>1, <1>2, PTL DEF SpendSpec

\* Both ceilings together: concurrent admissions that all read the last free
\* slot (spend_guard.py) pass neither by as much as a full set of requests.
THEOREM CeilingsAreKept == SpendSpec => []OvershootBounded
<1>1. AccountOvershootBounded /\ GlobalOvershootBounded => OvershootBounded
  BY DEF OvershootBounded
<1> QED BY AccountCeiling, GlobalCeiling, <1>1, PTL

\* Whatever a request asked for, and whether a request, a worker or an
\* evaluation started the run, only adaptive accounts run the agentic engine
\* (select_run_engine reads the tier when the run starts).
THEOREM AgenticNeedsTier == SpendSpec => []AgenticOnlyForAdaptive
<1>1. SpendInit => AgenticOnlyForAdaptive
  BY DEF SpendInit, AgenticOnlyForAdaptive
<1>2. SpendInv /\ [SpendNext]_spendVars /\ AgenticOnlyForAdaptive => AgenticOnlyForAdaptive'
  BY EngineStep
<1> QED BY SpendInvariant, <1>1, <1>2, PTL DEF SpendSpec

-------------------------------------------------------------------------------
(* What holds of the two claims that do not hold as they are written       *)

\* A run that nothing has started waits, at most, for a request that will.
StartedFirst ==
  \A r \in Tasks : task[r].via = "none" =>
    task[r].ran = "none" /\ task[r].status \notin {"queued", "running"}

LEMMA StartedFirstKept ==
  ASSUME SpendInv, [SpendNext]_spendVars, StartedFirst
  PROVE  StartedFirst'
<1>t. task \in [Tasks -> Task] /\ SpendTypeOK
  BY DEF SpendInv, SpendTypeOK
<1> SUFFICES ASSUME NEW q \in Tasks, task'[q].via = "none"
             PROVE  task'[q].ran = "none" /\ task'[q].status \notin {"queued", "running"}
  BY DEF StartedFirst
<1>s. task[q].via = "none" => task[q].ran = "none" /\ task[q].status \notin {"queued", "running"}
  BY DEF StartedFirst
<1>1. CASE \/ \E u \in Accounts, r \in Tasks, e \in Engines : CreatePending(u, r, e)
           \/ \E c \in Requests, r \in Tasks : CommitNew(c, r)
           \/ \E u \in Accounts, r \in Tasks : QueueEvaluationChild(u, r)
  BY <1>1, <1>t, <1>s DEF CreatePending, CommitNew, QueueEvaluationChild, New
<1>2. CASE \/ \E c \in Requests, u \in Accounts, e \in Engines : AdmitNew(c, u, e)
           \/ \E c \in Requests, op \in {"retry", "execute"}, r \in Tasks : AdmitAgain(c, op, r)
           \/ NextMonth \/ UNCHANGED spendVars
  BY <1>2, <1>s DEF AdmitNew, AdmitAgain, NextMonth, spendVars
<1>3. ASSUME NEW c \in Requests, CommitRetry(c) \/ CommitExecute(c)
      PROVE  task'[q] = task[q]
  <2> DEFINE r == request[c].run
  <2>1. r \in Tasks /\ task[r] \in Task
    BY <1>3, <1>t, RequestCases DEF CommitRetry, CommitExecute, Again
  <2>2. Started(task[r]) \in Task /\ Started(task[r]).via # "none"
    BY <1>t, <2>1, StartedTyped DEF Started, Task
  <2>3. CASE task' = task
    BY <2>3
  <2>4. CASE task' = [task EXCEPT ![r] = [Started(@) EXCEPT !.status = "queued"]]
    BY <1>t, <2>1, <2>2, <2>4 DEF Task
  <2>5. CASE task' = [task EXCEPT ![r] = [Started(@) EXCEPT !.status = "running",
                                                            !.ran = EngineOf(r)]]
    BY <1>t, <2>1, <2>2, <2>5 DEF Task
  <2> QED BY <1>3, <2>3, <2>4, <2>5 DEF CommitRetry, CommitExecute
<1>4. CASE \E r \in Tasks : CancelTask(r)
  BY <1>4, <1>t, <1>s DEF CancelTask, Task
<1>5. CASE \E r \in Tasks : Work(r)
  BY <1>5, <1>t, <1>s DEF Work, Task
<1>6. CASE \E r \in Tasks, o \in {"success", "error"}, n \in 0..MaxTokens : Finish(r, o, n)
  BY <1>6, <1>t, <1>s DEF Finish, Task
<1> QED BY <1>1, <1>2, <1>3, <1>s, <1>4, <1>5, <1>6 DEF SpendNext

\* The decision record's "admission checks on every path that starts execution"
\* is wrong of evaluations only: every other execution was admitted, so it stays
\* within the ceiling of its account, requests in flight aside.
THEOREM StartsAreAdmitted == SpendSpec => []OtherStartsAreAdmitted
<1>1. SpendInit => StartedFirst
  BY DEF SpendInit, StartedFirst
<1>2. SpendInv /\ [SpendNext]_spendVars /\ StartedFirst => StartedFirst'
  BY StartedFirstKept
<1>3. SpendInv /\ StartedFirst /\ AccountOvershootBounded => OtherStartsAreAdmitted
  <2> SUFFICES ASSUME SpendInv, StartedFirst, AccountOvershootBounded,
                      NEW u \in Accounts \ Admins, RunLimit(u) # 0
               PROVE  Cardinality({r \in Tasks : /\ task[r].ran # "none"
                                                 /\ task[r].via # "evaluation"
                                                 /\ task[r].owner = u})
                        <= RunLimit(u) + Cardinality(Requests) - 1
    BY DEF OtherStartsAreAdmitted
  <2> DEFINE S == {r \in Tasks : /\ task[r].ran # "none" /\ task[r].via # "evaluation"
                                 /\ task[r].owner = u}
  <2>1. S \subseteq GuardedFor(u)
    BY DEF StartedFirst, GuardedFor, SpendInv, SpendTypeOK, Task
  <2>2. IsFiniteSet(GuardedFor(u)) /\ IsFiniteSet(InFlightFor(u))
    <3>1. IsFiniteSet(Tasks)
      BY FS_Interval, FiniteAssumption DEF Tasks
    <3>2. GuardedFor(u) \subseteq Tasks /\ InFlightFor(u) \subseteq Requests
      BY DEF GuardedFor, InFlightFor
    <3> QED BY <3>1, <3>2, FS_Subset, FiniteAssumption
  <2>3. Cardinality(S) <= Cardinality(GuardedFor(u)) /\ IsFiniteSet(S)
    BY <2>1, <2>2, FS_Subset
  <2>4. /\ Cardinality(S) \in Nat /\ Cardinality(GuardedFor(u)) \in Nat
        /\ Cardinality(InFlightFor(u)) \in Nat /\ Cardinality(Requests) \in Nat
    BY <2>2, <2>3, FS_CardinalityType, FiniteAssumption
  <2>5. RunLimit(u) \in Nat
    BY AccountAssumption, LimitAssumption DEF RunLimit
  <2>6. Cardinality(GuardedFor(u)) + Cardinality(InFlightFor(u))
          <= RunLimit(u) + Cardinality(Requests) - 1
    BY DEF AccountOvershootBounded
  <2> HIDE DEF S
  <2>7. Cardinality(S) <= RunLimit(u) + Cardinality(Requests) - 1
    BY <2>3, <2>4, <2>5, <2>6
  <2> QED BY <2>7 DEF S
<1> QED BY SpendInvariant, AccountCeiling, <1>1, <1>2, <1>3, PTL DEF SpendSpec

\* What settings.py says of the kill switch is wrong only of runs that start in a
\* later month than they were created in: while no request starts such a run,
\* the starts of a month are the runs that the guard counts.
THEOREM KillSwitchWithinTheMonth ==
  SpendSpec /\ []StartsInItsMonth => []KillSwitchCountsStarts
<1>1. StartsInItsMonth /\ GlobalOvershootBounded /\ SpendInv => KillSwitchCountsStarts
  <2> SUFFICES ASSUME StartsInItsMonth, GlobalOvershootBounded, GlobalMaxRuns # 0
               PROVE  Cardinality({r \in Tasks : task[r].via = "guard" /\ task[r].begun = month
                                                 /\ task[r].owner \notin Admins})
                        <= GlobalMaxRuns + Cardinality(Requests) - 1
    BY DEF KillSwitchCountsStarts
  <2>1. {r \in Tasks : task[r].via = "guard" /\ task[r].begun = month
                       /\ task[r].owner \notin Admins} = Guarded
    BY DEF StartsInItsMonth, Guarded
  <2>2. IsFiniteSet(Guarded) /\ IsFiniteSet(InFlight)
    <3>1. IsFiniteSet(Tasks)
      BY FS_Interval, FiniteAssumption DEF Tasks
    <3>2. Guarded \subseteq Tasks /\ InFlight \subseteq Requests
      BY DEF Guarded, InFlight
    <3> QED BY <3>1, <3>2, FS_Subset, FiniteAssumption
  <2>3. /\ Cardinality(Guarded) \in Nat /\ Cardinality(InFlight) \in Nat
        /\ Cardinality(Requests) \in Nat /\ GlobalMaxRuns \in Nat
    BY <2>2, FS_CardinalityType, FiniteAssumption, LimitAssumption
  <2>4. Cardinality(Guarded) + Cardinality(InFlight)
          <= GlobalMaxRuns + Cardinality(Requests) - 1
    BY DEF GlobalOvershootBounded
  <2>5. Cardinality(Guarded) <= GlobalMaxRuns + Cardinality(Requests) - 1
    BY <2>3, <2>4
  <2> QED BY <2>1, <2>5
<1> QED BY SpendInvariant, GlobalCeiling, <1>1, PTL

(***************************************************************************)
(* The evaluation control plane                                            *)
(***************************************************************************)

\* The row of a case of the suite: linked to a child run when the case is live,
\* settled when it is not, and without a failure that is blamed on nothing.
RowFits(c, row) ==
  /\ row \in CaseRow
  /\ (c \in live) <=> (row.child # NoChild)
  /\ c \notin live => row.status # "pending"
  /\ row.class = "none" => row.status \in {"passed", "pending"}

\* Either no case has a row, because nothing ran, or all have one.
Complete(rows) ==
  \/ (\A c \in Cases : rows[c] = NoRow) /\ evalRun \in {"pending", "error"}
  \/ \A c \in Cases : RowFits(c, rows[c])

\* A read has looked at the child runs of `seen`, has `todo` before it, and its
\* row of a case that it has looked at says what it saw.
Reading ==
  reader # NoReader =>
    /\ reader \in [open : {TRUE}, rows : [Cases -> CaseRow \cup {NoRow}],
                   todo : SUBSET Cases, seen : {reader.seen}]
    /\ DOMAIN reader.seen \subseteq Cases
    /\ evalRun # "pending" /\ Complete(reader.rows)
    /\ reader.todo \cup DOMAIN reader.seen = Linked(reader.rows)
    /\ \A c \in DOMAIN reader.seen : reader.rows[c].status = CaseStatus(reader.seen[c])

EvalInv == EvalTypeOK /\ Complete(caseRow) /\ Reading

-------------------------------------------------------------------------------
(* The pure parts *)

\* RunCase settles a case.
LEMMA OfflineSettles == OfflineOutcomes \subseteq {"error", "failed", "passed"}
BY DEF OfflineOutcomes, RunCase

LEMMA VerdictTyped == ASSUME NEW S PROVE Verdict(S) \in EvaluationRunStatus \ {"pending"}
BY DEF Verdict, EvaluationRunStatus

LEMMA CaseStatusTyped ==
  ASSUME NEW s
  PROVE  /\ CaseStatus(s) \in {"pending", "passed", "failed", "error"}
         /\ CaseStatus(s) = "pending" <=> ~IsTerminal(s)
         /\ CaseStatus(s) = "passed" => s = "success"
BY DEF CaseStatus, IsTerminal, Terminal

LEMMA ClassifyTyped ==
  ASSUME NEW live_ \in BOOLEAN, NEW s, NEW e, NEW allow \in BOOLEAN
  PROVE  /\ Classify(live_, s, e, allow) \in Degradation
         /\ Classify(live_, s, e, allow) = "none" => s \notin {"failed", "error"}
BY DEF Classify, Degradation

LEMMA NoRowIsNoCaseRow == NoRow \notin CaseRow
BY DEF NoRow, CaseRow, EvaluationStatus

LEMMA ReaderUpdate ==
  ASSUME NEW A, NEW B, NEW D,
         NEW r \in [open : {TRUE}, rows : A, todo : B, seen : D],
         NEW c, NEW x, NEW y, NEW z
  PROVE  [r EXCEPT !.rows[c] = x, !.todo = y, !.seen = z]
           \in [open : {TRUE}, rows : {[r.rows EXCEPT ![c] = x]}, todo : {y}, seen : {z}]
OBVIOUS

-------------------------------------------------------------------------------
(* The invariant *)

LEMMA EvalInitInv == ASSUME EvalInit PROVE EvalInv
<1>1. EvalTypeOK
  BY DEF EvalInit, EvalTypeOK, EvaluationRunStatus, Absent, Evidence
<1>2. Complete(caseRow) /\ Reading
  BY DEF EvalInit, Complete, Reading
<1> QED BY <1>1, <1>2 DEF EvalInv

\* What start_evaluation_run stores.
LEMMA StartKeeps ==
  ASSUME EvalInv, NEW s \in Starters, Start(s) PROVE EvalInv'
<1> PICK link \in Injection(live, Unused), outcome \in [Cases \ live -> OfflineOutcomes] :
      LET rows == [c \in Cases |->
                     IF c \in live
                     THEN [status |-> "pending", class |-> "none", child |-> link[c]]
                     ELSE [status |-> outcome[c],
                           class |-> Classify(FALSE, outcome[c], "clean", FALSE),
                           child |-> NoChild]]
      IN  /\ caseRow' = rows
          /\ evalRun' = Verdict(StatusesOf(rows))
          /\ child' = [k \in Children |->
                         IF k \in Range(link)
                         THEN [status |-> "queued", evidence |-> "clean"]
                         ELSE child[k]]
  BY DEF Start
<1>1. /\ live' = live /\ reader' = reader /\ reader = NoReader
      /\ starter' = [starter EXCEPT ![s] = "idle"]
  BY DEF Start
<1>2. \A c \in live : link[c] \in Children
  BY DEF Injection, IsInjective, Unused
<1>3. ASSUME NEW c \in Cases PROVE RowFits(c, caseRow[c])'
  <2>1. CASE c \in live
    BY <1>1, <1>2, <2>1, ChildrenAssumption
       DEF RowFits, CaseRow, EvaluationStatus, Degradation
  <2>2. CASE c \notin live
    <3> DEFINE o == outcome[c]
    <3>1. o \in {"error", "failed", "passed"}
      BY <2>2, OfflineSettles
    <3>2. caseRow'[c] = [status |-> o, class |-> Classify(FALSE, o, "clean", FALSE),
                         child |-> NoChild]
      BY <2>2
    <3>3. /\ Classify(FALSE, o, "clean", FALSE) \in Degradation
          /\ Classify(FALSE, o, "clean", FALSE) = "none" => o \notin {"failed", "error"}
      BY ClassifyTyped
    <3> QED BY <1>1, <2>2, <3>1, <3>2, <3>3 DEF RowFits, CaseRow, EvaluationStatus
  <2> QED BY <2>1, <2>2
<1>4. Complete(caseRow)'
  BY <1>3 DEF Complete
<1>5. caseRow' \in [Cases -> CaseRow \cup {NoRow}]
  BY <1>3 DEF RowFits
<1>6. evalRun' \in EvaluationRunStatus
  BY VerdictTyped
<1>7. child' \in [Children -> [status : AnalysisRunStatus \cup {"absent"}, evidence : Evidence]]
  BY DEF EvalInv, EvalTypeOK, AnalysisRunStatus, Evidence
<1>8. EvalTypeOK'
  BY <1>1, <1>5, <1>6, <1>7 DEF EvalInv, EvalTypeOK
<1>9. Reading'
  BY <1>1 DEF Reading
<1> QED BY <1>4, <1>8, <1>9 DEF EvalInv

LEMMA ReconcileKeeps ==
  ASSUME EvalInv, NEW c \in Cases, Reconcile(c) PROVE Reading'
<1> DEFINE k == child[reader.rows[c].child]
           status == CaseStatus(k.status)
           class == Classify(c \in live, status, k.evidence, TRUE)
           rows == reader.rows
           seen == [d \in DOMAIN reader.seen \cup {c} |->
                      IF d = c THEN k.status ELSE reader.seen[d]]
<1>1. /\ reader # NoReader /\ c \in reader.todo
      /\ reader \in [open : {TRUE}, rows : [Cases -> CaseRow \cup {NoRow}],
                     todo : SUBSET Cases, seen : {reader.seen}]
      /\ rows \in [Cases -> CaseRow \cup {NoRow}]
      /\ reader.todo \subseteq Cases /\ DOMAIN reader.seen \subseteq Cases
      /\ evalRun # "pending" /\ Complete(rows)
      /\ reader.todo \cup DOMAIN reader.seen = Linked(rows)
      /\ \A d \in DOMAIN reader.seen : rows[d].status = CaseStatus(reader.seen[d])
      /\ UNCHANGED <<live, evalRun>>
  BY DEF Reconcile, EvalInv, Reading
<1>2. rows[c] \in CaseRow /\ rows[c] # NoRow /\ rows[c].child # NoChild
  BY <1>1 DEF Linked
<1>3. RowFits(c, rows[c]) /\ \A d \in Cases : RowFits(d, rows[d])
  BY <1>1, <1>2 DEF Complete
<1> DEFINE row == [rows[c] EXCEPT !.status = status, !.class = class]
<1>4. reader' \in [open : {TRUE}, rows : {[rows EXCEPT ![c] = row]},
                   todo : {reader.todo \ {c}}, seen : {seen}]
  <2>1. reader' = [reader EXCEPT !.rows[c] = row, !.todo = @ \ {c}, !.seen = seen]
    BY DEF Reconcile
  <2> HIDE DEF row, seen
  <2>2. reader' = [reader EXCEPT !.rows[c] = row, !.todo = reader.todo \ {c}, !.seen = seen]
    BY <1>1, <2>1
  <2> QED BY <1>1, <2>2, ReaderUpdate
<1>5. status \in {"pending", "passed", "failed", "error"}
  BY CaseStatusTyped
<1>6. class \in Degradation /\ (class = "none" => status \notin {"failed", "error"})
  BY DEF Classify, Degradation
<1> HIDE DEF status, class
<1>7. row \in CaseRow /\ row.status = status /\ row.class = class /\ row.child = rows[c].child
  BY <1>2, <1>5, <1>6 DEF CaseRow, EvaluationStatus
<1> HIDE DEF row
<1>8. RowFits(c, row)
  <2>1. c \in live
    BY <1>2, <1>3 DEF RowFits
  <2> QED BY <1>2, <1>5, <1>6, <1>7, <2>1 DEF RowFits
<1> DEFINE new == [rows EXCEPT ![c] = row]
<1>9. new \in [Cases -> CaseRow \cup {NoRow}]
  BY <1>1, <1>7
<1>10. \A d \in Cases : new[d] = IF d = c THEN row ELSE rows[d]
  BY <1>1
<1>11. \A d \in Cases : RowFits(d, new[d])
  BY <1>3, <1>8, <1>10
<1>12. Linked(new) = Linked(rows)
  BY <1>2, <1>7, <1>10, NoRowIsNoCaseRow DEF Linked
<1>13. /\ seen[c] = k.status /\ DOMAIN seen = DOMAIN reader.seen \cup {c}
       /\ \A d \in DOMAIN reader.seen \ {c} : seen[d] = reader.seen[d]
  OBVIOUS
<1> HIDE DEF seen, new
<1>14. \A d \in DOMAIN seen : new[d].status = CaseStatus(seen[d])
  BY <1>1, <1>7, <1>10, <1>13 DEF status
<1>15. (reader.todo \ {c}) \cup DOMAIN seen = Linked(new)
  BY <1>1, <1>12, <1>13
<1>16. reader' \in [open : {TRUE}, rows : {new}, todo : {reader.todo \ {c}}, seen : {seen}]
  BY <1>4 DEF new
<1>17. /\ reader'.rows = new /\ reader'.todo = reader.todo \ {c} /\ reader'.seen = seen
  BY <1>16
<1>18. (\A d \in Cases : RowFits(d, reader.rows[d]))'
  BY <1>1, <1>11, <1>17 DEF RowFits
<1>19. Linked(reader.rows)' = Linked(new)
  BY <1>17 DEF Linked
<1> QED BY <1>1, <1>9, <1>13, <1>14, <1>15, <1>16, <1>17, <1>18, <1>19 DEF Reading, Complete

\* The other steps leave the read and the rows as they are.
LEMMA StepKeeps ==
  ASSUME EvalInv, [EvalNext]_evalVars PROVE EvalInv'
<1> USE DEF EvalInv
<1>1. ASSUME NEW s \in Starters, CheckPending(s) PROVE EvalInv'
  BY <1>1 DEF CheckPending, EvalTypeOK, Complete, RowFits, Reading, Linked
<1>2. ASSUME NEW s \in Starters, StartFails(s) PROVE EvalInv'
  BY <1>2 DEF StartFails, EvalTypeOK, Complete, Reading, EvaluationRunStatus
<1>3. ASSUME NEW k \in Children, ChildStarts(k) \/ ChildEnds(k) \/ ChildRetried(k)
      PROVE  EvalInv'
  <2>1. UNCHANGED <<live, evalRun, caseRow, starter, reader>>
    BY <1>3 DEF ChildStarts, ChildEnds, ChildRetried
  <2>2. child' \in [Children -> [status : AnalysisRunStatus \cup {"absent"},
                                evidence : Evidence]]
    BY <1>3, EndingsAssumption
       DEF ChildStarts, ChildEnds, ChildRetried, EvalTypeOK, AnalysisRunStatus, Evidence
  <2>3. EvalTypeOK'
    BY <2>1, <2>2 DEF EvalTypeOK
  <2> QED BY <2>1, <2>3 DEF Complete, RowFits, Reading, Linked
<1>4. ASSUME ReadLocks PROVE EvalInv'
  <2>1. /\ UNCHANGED <<live, evalRun, caseRow, child, starter>> /\ evalRun # "pending"
        /\ reader' = [open |-> TRUE, rows |-> caseRow, todo |-> Linked(caseRow), seen |-> << >>]
    BY <1>4 DEF ReadLocks
  <2>2. /\ reader'.rows = caseRow /\ reader'.todo = Linked(caseRow) /\ reader'.seen = << >>
        /\ DOMAIN << >> = {}
    BY <2>1
  <2>3. EvalTypeOK' /\ Complete(caseRow)'
    BY <2>1 DEF EvalTypeOK, Complete, RowFits
  <2>4. (\A c \in Cases : RowFits(c, reader.rows[c]) <=> RowFits(c, caseRow[c]))'
    BY <2>1, <2>2 DEF RowFits
  <2>5. Complete(reader.rows)'
    BY <2>1, <2>2, <2>3, <2>4 DEF Complete
  <2>6. Linked(reader.rows)' = Linked(caseRow) /\ Linked(caseRow) \subseteq Cases
    BY <2>2 DEF Linked
  <2> QED BY <2>1, <2>2, <2>3, <2>5, <2>6 DEF Reading, EvalTypeOK
<1>5. ASSUME NEW c \in Cases, Reconcile(c) PROVE EvalInv'
  <2>1. UNCHANGED <<live, evalRun, caseRow, child, starter>>
    BY <1>5 DEF Reconcile
  <2> QED BY <1>5, <2>1, ReconcileKeeps DEF EvalTypeOK, Complete, RowFits
<1>6. ASSUME ReadCloses PROVE EvalInv'
  BY <1>6 DEF ReadCloses, EvalTypeOK, Complete, RowFits, Reading
<1>7. ASSUME UNCHANGED evalVars PROVE EvalInv'
  BY <1>7 DEF evalVars, EvalTypeOK, Complete, RowFits, Reading, Linked
<1> QED BY <1>1, <1>2, <1>3, <1>4, <1>5, <1>6, <1>7, StartKeeps DEF EvalNext

LEMMA EvalInvariant == EvalSpec => []EvalInv
BY EvalInitInv, StepKeeps, PTL DEF EvalSpec

-------------------------------------------------------------------------------
(* Theorems *)

\* The rows and the statuses of an evaluation keep their types.
THEOREM EvaluationTypeCorrect == EvalSpec => []EvalTypeOK
<1>1. EvalInv => EvalTypeOK
  BY DEF EvalInv
<1> QED BY EvalInvariant, <1>1, PTL

\* A closed read has seen what its rows say.
LEMMA SeenIsJustified == EvalInv => VerdictIsJustified
<1>1. ASSUME EvalInv, Answered PROVE VerdictIsJustified
  <2> DEFINE rows == reader.rows  seen == reader.seen  S == StatusesOf(rows)
  <2>1. /\ reader # NoReader /\ evalRun # "pending" /\ Complete(rows)
        /\ rows \in [Cases -> CaseRow \cup {NoRow}]
        /\ DOMAIN seen \subseteq Cases /\ DOMAIN seen = Linked(rows)
        /\ \A c \in DOMAIN seen : rows[c].status = CaseStatus(seen[c])
    BY <1>1 DEF EvalInv, Reading, Answered
  <2>2. CASE \A c \in Cases : rows[c] = NoRow
    <3>1. S = {} /\ DOMAIN seen = {}
      BY <2>1, <2>2 DEF StatusesOf, Linked
    <3>2. Cases # {} => evalRun = "error"
      BY <2>1, <2>2, NoRowIsNoCaseRow DEF Complete, RowFits
    <3> QED BY <2>1, <2>2, <3>1, <3>2 DEF VerdictIsJustified, Answer
  <2>3. CASE \A c \in Cases : RowFits(c, rows[c])
    <3>1. \A c \in Cases : rows[c] # NoRow /\ rows[c].status \in S
      BY <2>3, NoRowIsNoCaseRow DEF RowFits, StatusesOf
    <3>2. \A c \in Cases : c \in live <=> c \in DOMAIN seen
      BY <2>1, <2>3, <3>1 DEF Linked, RowFits
    <3>3. ASSUME NEW c \in Cases PROVE Answer = Verdict(S)
      BY <3>1, <3>3 DEF Answer
    <3>4. ASSUME Answer = "passed", NEW c \in Cases
          PROVE  rows[c] # NoRow /\ (c \in live => seen[c] = "success")
      <4>1. S \cap {"pending", "error", "failed"} = {}
        BY <3>3, <3>4 DEF Verdict
      <4>2. CASE c \in live
        <5>1. rows[c].status = CaseStatus(seen[c]) /\ rows[c].status \in S
          BY <2>1, <3>1, <3>2, <4>2
        <5>2. CaseStatus(seen[c]) = "passed"
          BY <4>1, <5>1, CaseStatusTyped
        <5> QED BY <3>1, <5>2, CaseStatusTyped
      <4> QED BY <3>1, <4>2
    <3>5. ASSUME NEW c \in DOMAIN seen, ~IsTerminal(seen[c]) PROVE Answer = "running"
      <4>1. "pending" \in S
        BY <2>1, <3>1, <3>5, CaseStatusTyped
      <4> QED BY <2>1, <3>3, <4>1 DEF Verdict
    <3>6. \A c \in Cases : rows[c].class = "none" => rows[c].status \in {"passed", "pending"}
      BY <2>3 DEF RowFits
    <3> QED BY <2>1, <3>4, <3>5, <3>6 DEF VerdictIsJustified
  <2> QED BY <2>1, <2>2, <2>3 DEF Complete
<1> QED BY <1>1 DEF VerdictIsJustified

\* Whatever the child runs did while a read went through them, its answer is
\* borne out by what it saw of each (_reconcile_evaluation_run).
THEOREM AnswersAreJustified == EvalSpec => []VerdictIsJustified
BY EvalInvariant, SeenIsJustified, PTL

-------------------------------------------------------------------------------
(* One child per case *)

\* Before the start there is nothing to replace, and whoever is about to start
\* has seen the evaluation before its start.
OneStart ==
  /\ evalRun = "pending" => \A k \in Children : child[k] = Absent
  /\ (\E s \in Starters : starter[s] = "checked") => evalRun = "pending"
  /\ OneChildPerCase

LEMMA NothingYet == ASSUME EvalInit PROVE OneStart
BY DEF EvalInit, OneStart, OneChildPerCase

\* A start that finds no children links every child it creates.
LEMMA StartLinks ==
  ASSUME EvalInv, OneStart, StartsApart, NEW s \in Starters, Start(s)
  PROVE  OneStart'
<1> PICK link \in Injection(live, Unused), outcome \in [Cases \ live -> OfflineOutcomes] :
      LET rows == [c \in Cases |->
                     IF c \in live
                     THEN [status |-> "pending", class |-> "none", child |-> link[c]]
                     ELSE [status |-> outcome[c],
                           class |-> Classify(FALSE, outcome[c], "clean", FALSE),
                           child |-> NoChild]]
      IN  /\ caseRow' = rows
          /\ evalRun' = Verdict(StatusesOf(rows))
          /\ child' = [k \in Children |->
                         IF k \in Range(link)
                         THEN [status |-> "queued", evidence |-> "clean"]
                         ELSE child[k]]
  BY DEF Start
<1>1. /\ starter[s] = "checked" /\ starter' = [starter EXCEPT ![s] = "idle"]
      /\ starter \in [Starters -> {"idle", "checked"}] /\ live \subseteq Cases
  BY DEF Start, EvalInv, EvalTypeOK
<1>2. \A k \in Children : child[k] = Absent
  BY <1>1 DEF OneStart
<1>3. evalRun' # "pending"
  BY VerdictTyped
<1>4. \A t \in Starters : starter'[t] # "checked"
  BY <1>1 DEF StartsApart
<1>5. ASSUME NEW k \in Children, child'[k] # Absent
      PROVE  \E c \in Cases : caseRow'[c] # NoRow /\ caseRow'[c].child = k
  <2>1. k \in Range(link)
    BY <1>2, <1>5
  <2>2. PICK c \in live : link[c] = k
    BY <2>1 DEF Range, Injection, IsInjective
  <2>3. caseRow'[c] = [status |-> "pending", class |-> "none", child |-> k]
    BY <1>1, <2>2
  <2> QED BY <1>1, <2>3 DEF NoRow
<1> QED BY <1>3, <1>4, <1>5 DEF OneStart, OneChildPerCase

\* Child runs come from a start only; the other steps keep those there are.
LEMMA OneStartKept ==
  ASSUME EvalInv, OneStart, StartsApart, [EvalNext]_evalVars PROVE OneStart'
<1> USE DEF OneStart, OneChildPerCase
<1>t. starter \in [Starters -> {"idle", "checked"}] /\ evalRun \in EvaluationRunStatus
      /\ child \in [Children -> [status : AnalysisRunStatus \cup {"absent"},
                                 evidence : Evidence]]
  BY DEF EvalInv, EvalTypeOK
<1>1. ASSUME NEW s \in Starters, CheckPending(s) PROVE OneStart'
  BY <1>1, <1>t DEF CheckPending
<1>2. ASSUME NEW s \in Starters, StartFails(s) PROVE OneStart'
  <2>1. \A k \in Children : child[k] = Absent
    BY <1>2 DEF StartFails
  <2>2. \A t \in Starters : starter'[t] # "checked"
    BY <1>2, <1>t DEF StartFails, StartsApart
  <2> QED BY <1>2, <2>1, <2>2 DEF StartFails
<1>3. ASSUME NEW k \in Children, ChildStarts(k) \/ ChildEnds(k) \/ ChildRetried(k)
      PROVE  OneStart'
  <2>1. /\ UNCHANGED <<evalRun, caseRow, starter>>
        /\ \A j \in Children : j # k => child'[j] = child[j]
    BY <1>3, <1>t DEF ChildStarts, ChildEnds, ChildRetried
  <2>2. child[k] # Absent
    BY <1>3 DEF ChildStarts, ChildEnds, ChildRetried, Absent, IsRetriable, RetryToQueued, Terminal
  <2> QED BY <2>1, <2>2
<1>4. CASE ReadLocks \/ (\E c \in Cases : Reconcile(c)) \/ ReadCloses \/ UNCHANGED evalVars
  BY <1>4 DEF ReadLocks, Reconcile, ReadCloses, evalVars
<1> QED BY <1>1, <1>2, <1>3, <1>4, StartLinks DEF EvalNext

\* The hazard of the unlocked look at the status (routes/evaluations.py) is
\* exactly an overlap: where no two start requests stand between their look and
\* their start together, no child run is left that no case points to, whichever
\* starts fail and whatever becomes of the children.
THEOREM StartsApartLinkChildren == EvalSpec /\ []StartsApart => []OneChildPerCase
<1>1. EvalInit => OneStart
  BY NothingYet
<1>2. EvalInv /\ OneStart /\ StartsApart /\ [EvalNext]_evalVars => OneStart'
  BY OneStartKept
<1>3. OneStart => OneChildPerCase
  BY DEF OneStart
<1> QED BY <1>1, <1>2, <1>3, EvalInvariant, PTL DEF EvalSpec

\* With one start request at a time the hypothesis always holds.
THEOREM OneStarterLinksChildren ==
  ASSUME \A s, t \in Starters : s = t
  PROVE  EvalSpec => []OneChildPerCase
<1>1. StartsApart
  BY DEF StartsApart
<1>2. []StartsApart
  BY <1>1, PTL
<1> QED BY <1>2, StartsApartLinkChildren, PTL

===============================================================================
