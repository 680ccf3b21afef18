--------------------------- MODULE InvestigationLoop ---------------------------
(***************************************************************************)
(* The adaptive investigation loop: interpret the goal, propose claims,    *)
(* then plan, select, run, fold and criticise experiments until a typed    *)
(* reason to stop is found and a conclusion is written.  The aggregate is  *)
(* checkpointed after every iteration and a later call may resume it.      *)
(*                                                                         *)
(* The policy (a language model) and the tools are the environment: every  *)
(* answer they may give is a nondeterministic choice.  A policy error is   *)
(* AgentPolicyError; any other exception leaves the loop, and what is in   *)
(* memory is lost, exactly as in a crash (action Crash).                   *)
(***************************************************************************)
EXTENDS Belief, FiniteSets

CONSTANTS
  Metrics,        \* columns an experiment can measure
  MetricOf,       \* claim -> the metric in its metric_refs, else the hint
  Hint,           \* metric_hint of the interpretation, else the first metric
  NTools,         \* tool names are 1..NTools
  NIntent,        \* the first NIntent are the intent's, in priority order
  Runnable,       \* <<tool, metric>>: the tool is registered and validates
  Readings,       \* what one experiment may say about one claim
  Windows,        \* max_new_experiments of a call; MaxExperiments is no window
  MaxExperiments, MaxParallel, MaxModelCalls, MaxToolUses,  \* LoopBudget
  MaxIterations, MaxFailures                                \* SafetyLimits

Tools == 1..NTools
IntentTools == 1..NIntent
NoTool == 0
NoClaim == 0

ASSUME LoopAssumption ==
  /\ MetricOf \in [Claims -> Metrics] /\ Hint \in Metrics
  /\ NTools \in Nat /\ NIntent \in 0..NTools
  /\ Runnable \subseteq Tools \X Metrics
  /\ Readings \subseteq Evidence
  /\ Windows \subseteq 0..MaxExperiments
  /\ \A n \in {MaxExperiments, MaxParallel, MaxModelCalls, MaxToolUses,
               MaxIterations, MaxFailures} : n \in Nat \ {0}

VARIABLES
  inv,      \* the aggregate in memory
  saved,    \* its latest checkpoint
  pc,       \* where the running call is; "idle" and "raised" if none is
  tracker,  \* BudgetTracker of the call
  call      \* arguments and loop-local state of the call

vars == <<inv, saved, pc, tracker, call>>

-------------------------------------------------------------------------------
Reasons ==
  {"sufficient_evidence", "insufficient_evidence", "unanswerable_premise",
   "budget_exhausted", "no_valid_experiment", "repeated_failure",
   "user_stop", "safety_constraint", "error"}

Request == [id : Nat, tool : Tools, metric : Metrics, targets : SUBSET Claims]

\* An executed request and its result: did it succeed, and about which claims
\* did it file supporting or refuting evidence?
Result == [id : Nat, tool : Tools, metric : Metrics, targets : SUBSET Claims,
           ok : BOOLEAN, told : SUBSET Claims]

Critique == [kind   : {"challenge", "contradiction"},
             target : Claims,
             other  : Claims \cup {NoClaim},
             tool   : Tools \cup {NoTool}]

Investigation ==
  [status     : InvestigationStatus \cup {"absent"},
   claims     : ClaimStates,
   rivals     : BOOLEAN,          \* mutually_exclusive_with of the two claims
   evidence   : [Claims -> Evidence],
   ran        : Seq(Result),      \* executed_requests with their results
   critiques  : Seq(Critique),
   iterations : Nat,
   stop       : Reasons \cup {"none"},
   verdict    : Dispositions \cup {"none"}]

NoInvestigation ==
  [status |-> "absent", claims |-> [c \in Claims |-> "absent"], rivals |-> FALSE,
   evidence |-> [c \in Claims |-> NoEvidence], ran |-> <<>>, critiques |-> <<>>,
   iterations |-> 0, stop |-> "none", verdict |-> "none"]

NewTracker(used) == [calls |-> 0, used |-> used, failures |-> 0]

\* fresh: experiments of this call; batch: selected and not folded yet;
\* lead: id of the experiment the policy selected; won: did one succeed?
NewCall(window, userStop) ==
  [window |-> window, userStop |-> userStop, fresh |-> 0,
   batch |-> {}, lead |-> 0, won |-> FALSE]

TypeOK ==
  /\ inv \in Investigation /\ saved \in Investigation
  /\ pc \in {"idle", "raised", "interpret", "generate", "decide", "fold", "critic"}
  /\ tracker \in [calls : Nat, used : Nat, failures : Nat]
  /\ call \in [window : 0..MaxExperiments, userStop : BOOLEAN, fresh : Nat,
               batch : SUBSET Request, lead : Nat, won : BOOLEAN]

Init ==
  /\ inv = NoInvestigation /\ saved = NoInvestigation
  /\ pc = "idle"
  /\ tracker = NewTracker(0)
  /\ call = NewCall(0, FALSE)

Running == pc \notin {"idle", "raised"}
ModelCall == tracker' = [tracker EXCEPT !.calls = @ + 1]

-------------------------------------------------------------------------------
\* What the planner reads from the aggregate i.
Ran(i) == {i.ran[n] : n \in DOMAIN i.ran}
ExecutedTools(i) == {r.tool : r \in Ran(i)}
ToolUses(i, t) == Cardinality({n \in DOMAIN i.ran : i.ran[n].tool = t})
AtLimit(i, t) == ToolUses(i, t) >= MaxToolUses

First(S) == CHOOSE n \in S : \A m \in S : n <= m

MetricFor(i, c) == IF i.claims[c] = "absent" THEN Hint ELSE MetricOf[c]
MetricOfFirst(i, targets) ==
  IF targets = {} THEN Hint ELSE MetricFor(i, First(targets))

\* Mutant: only successful experiments are remembered.
ExecutedPairs_SuccessOnly(i) ==
  {<<r.tool, MetricOfFirst(i, r.targets)>> : r \in {q \in Ran(i) : q.ok}}

\* An executed request is remembered under the metric of its first target,
\* which is not always the metric it measured.
ExecutedPairs(i) == {<<r.tool, MetricOfFirst(i, r.targets)>> : r \in Ran(i)}

Plannable(i, t, m) ==
  /\ ~AtLimit(i, t)
  /\ <<t, m>> \notin ExecutedPairs(i)
  /\ <<t, m>> \in Runnable

\* Critiques that name a tool worth running, the first of each key.
CritiqueKey(i, n) ==
  <<i.critiques[n].tool, MetricFor(i, i.critiques[n].target)>>
Useful(i) == {n \in DOMAIN i.critiques :
                /\ i.critiques[n].tool # NoTool
                /\ Plannable(i, i.critiques[n].tool,
                             MetricFor(i, i.critiques[n].target))}
Falsifiers(i) ==
  {n \in Useful(i) : \A m \in Useful(i) :
                       CritiqueKey(i, m) = CritiqueKey(i, n) => n <= m}

\* Open claims are grouped by metric; a group is named by its first claim.
\* With no open claim there is one group without members.
SameMetric(i, c) == {d \in OpenClaims(i.claims) : MetricOf[d] = MetricOf[c]}
Groups(i) ==
  IF OpenClaims(i.claims) = {} THEN {NoClaim}
  ELSE {c \in OpenClaims(i.claims) : \A d \in SameMetric(i, c) : c <= d}
GroupMetric(g) == IF g = NoClaim THEN Hint ELSE MetricOf[g]
GroupTargets(i, g) ==
  IF g # NoClaim THEN SameMetric(i, g) ELSE Proposed(i.claims) \cap {1}

Planned(i) ==
  {p \in Groups(i) \X IntentTools :
     /\ Plannable(i, p[2], GroupMetric(p[1]))
     /\ \A n \in Falsifiers(i) : CritiqueKey(i, n) # <<p[2], GroupMetric(p[1])>>}

\* Ids continue from the number of experiments on record: falsifications
\* first, then group by group, each in the intent's order.
FalsifierId(i, n) == Len(i.ran) + Cardinality({m \in Falsifiers(i) : m < n})
PlannedId(i, p) ==
  Len(i.ran) + Cardinality(Falsifiers(i))
    + Cardinality({q \in Planned(i) : q[1] < p[1] \/ (q[1] = p[1] /\ q[2] < p[2])})

Candidates(i) ==
  {[id |-> FalsifierId(i, n), tool |-> i.critiques[n].tool,
    metric |-> MetricFor(i, i.critiques[n].target),
    targets |-> {i.critiques[n].target}] : n \in Falsifiers(i)}
  \cup
  {[id |-> PlannedId(i, p), tool |-> p[2], metric |-> GroupMetric(p[1]),
    targets |-> GroupTargets(i, p[1])] : p \in Planned(i)}

\* select_batch: the lead, then the first candidate of each other tool, in
\* order, until the batch is full.
Lesser(a, b) == IF a <= b THEN a ELSE b
\* Mutant: a batch may overshoot the budget.
BatchLimit_NoClamp == Lesser(Stronger(1, MaxParallel), Stronger(1, call.window - call.fresh))
BatchLimit ==
  Lesser(Lesser(Stronger(1, MaxParallel), Stronger(1, MaxExperiments - tracker.used)),
         Stronger(1, call.window - call.fresh))
Followers(cands, lead) ==
  {c \in cands : /\ c.tool # lead.tool
                 /\ \A d \in cands : d.tool = c.tool => c.id <= d.id}
Batch(cands, lead) ==
  {lead} \cup {c \in Followers(cands, lead) :
                 Cardinality({d \in Followers(cands, lead) : d.id < c.id})
                   < BatchLimit - 1}

-------------------------------------------------------------------------------
\* Leaving the loop.  The counters of the call die with it; how many policy
\* calls it made is kept for the properties.
Leave(calls) ==
  /\ tracker' = [NewTracker(0) EXCEPT !.calls = tracker.calls + calls]
  /\ call' = NewCall(0, FALSE)
Return(i, calls) == inv' = i /\ saved' = i /\ pc' = "idle" /\ Leave(calls)

\* A caller that goes on after an exception loads the checkpoint.
Raise(calls) == inv' = saved /\ UNCHANGED saved /\ pc' = "raised" /\ Leave(calls)

Conclude(i, reason) ==
  [i EXCEPT !.claims = Closed(i.claims),
            !.verdict = Disposition(Closed(i.claims), reason),
            !.stop = reason]

TerminalStatus(reason) ==
  CASE reason = "sufficient_evidence" -> "converged"
    [] reason \in {"error", "safety_constraint"} -> "failed"
    [] OTHER -> "exhausted"

\* This step made `calls` policy calls; writing the answer is one more.
Finalize(i, reason, calls) ==
  IF CanMoveInvestigation(i.status, TerminalStatus(reason))
  THEN Return([Conclude(i, reason) EXCEPT !.status = TerminalStatus(reason)], calls + 1)
  ELSE Raise(calls + 1)

Failed(i) == IF i.status \in Ended THEN i ELSE [i EXCEPT !.status = "failed"]

\* The policy call of this step raised AgentPolicyError.
FailSafe == IF inv.stop # "none" THEN Return(Failed(inv), 1)
                                 ELSE Return(Failed(Conclude(inv, "error")), 2)

\* Mutant: the checkpoint is left to the end of the call.
EndIteration_Unsaved(i) ==
  inv' = [i EXCEPT !.iterations = @ + 1] /\ UNCHANGED saved /\ pc' = "decide"

\* advance_iteration, then the checkpoint.
EndIteration(i) ==
  LET next == [i EXCEPT !.iterations = @ + 1]
  IN inv' = next /\ saved' = next /\ pc' = "decide"

-------------------------------------------------------------------------------
\* TerminationPolicy.  late: has the elapsed time or the cost run over, and
\* over which limit?
OpenContradictions(i) ==
  {n \in DOMAIN i.critiques :
     /\ i.critiques[n].kind = "contradiction"
     /\ ~Settled(i.claims, {i.critiques[n].target, i.critiques[n].other})}

\* No intent tool is left, or a critique of c named a tool that has run.
Tested(i, c) ==
  \/ IntentTools \subseteq ExecutedTools(i)
  \/ \E n \in DOMAIN i.critiques : /\ i.critiques[n].target = c
                                   /\ i.critiques[n].tool \in ExecutedTools(i)

\* The discriminating experiment of the first open contradiction is still to run.
TieBreakerLeft(i) ==
  LET tool == i.critiques[First(OpenContradictions(i))].tool
  IN tool # NoTool /\ tool \notin ExecutedTools(i)

EvidenceReason(i) ==
  IF With(i.claims, "proposed") # {} THEN "none"
  ELSE IF OpenContradictions(i) # {}
       THEN IF TieBreakerLeft(i) THEN "none" ELSE "insufficient_evidence"
  ELSE IF /\ With(i.claims, "supported") # {}
          /\ \A c \in With(i.claims, "supported") : Tested(i, c)
       THEN "sufficient_evidence" ELSE "none"

Late == {"no", "budget", "safety"}

\* Mutant: model calls are not counted against the budget.
StopReason_CallsUncounted(late) ==
  CASE call.userStop -> "user_stop"
    [] ~call.userStop /\ (late = "safety" \/ inv.iterations >= MaxIterations)
         -> "safety_constraint"
    [] OTHER -> IF tracker.failures >= MaxFailures THEN "repeated_failure"
                ELSE IF tracker.used >= MaxExperiments THEN "budget_exhausted"
                ELSE EvidenceReason(inv)

StopReason(late) ==
  CASE call.userStop -> "user_stop"
    [] ~call.userStop /\ (late = "safety" \/ inv.iterations >= MaxIterations)
         -> "safety_constraint"
    [] OTHER ->
         IF tracker.failures >= MaxFailures THEN "repeated_failure"
         ELSE IF \/ tracker.used >= MaxExperiments
                 \/ tracker.calls >= MaxModelCalls
                 \/ late = "budget"
              THEN "budget_exhausted" ELSE EvidenceReason(inv)

\* Mutant: claims that no experiment was run for do not matter.
OutOfCandidates_UntestedIgnored(i, used) ==
  IF OpenContradictions(i) = {} /\ With(i.claims, "supported") # {}
  THEN "sufficient_evidence"
  ELSE IF used > 0 THEN "insufficient_evidence" ELSE "no_valid_experiment"

\* finalize_no_candidates
OutOfCandidates(i, used) ==
  LET unsettled == OpenContradictions(i) # {}
      untested  == With(i.claims, "proposed") # {}
  IN CASE unsettled -> "insufficient_evidence"
       [] ~unsettled /\ ~untested /\ With(i.claims, "supported") # {}
            -> "sufficient_evidence"
       [] OTHER -> IF used > 0 THEN "insufficient_evidence" ELSE "no_valid_experiment"

-------------------------------------------------------------------------------
\* _persist_children: the table has one row for each request id, the first;
\* a later request with that id changes nothing in it but its status.
RequestRow(i, id) == i.ran[First({n \in DOMAIN i.ran : i.ran[n].id = id})]

-------------------------------------------------------------------------------
\* Calls.
\* InvestigationLoop.start: the fresh aggregate is stored before anything else.
Start ==
  /\ pc = "idle" /\ saved = NoInvestigation
  /\ inv' = [NoInvestigation EXCEPT !.status = "created"]
  /\ saved' = inv'
  /\ pc' = "interpret"
  /\ tracker' = NewTracker(0)
  /\ \E window \in Windows, userStop \in BOOLEAN :
       call' = NewCall(window, userStop)

\* Of the counters, resume rebuilds the experiments and the tool uses only.
Resume ==
  /\ ~Running /\ saved # NoInvestigation
  /\ pc' = "interpret"
  /\ tracker' = NewTracker(Len(inv.ran))
  /\ \E window \in Windows, userStop \in BOOLEAN :
       call' = NewCall(window, userStop)
  /\ UNCHANGED <<inv, saved>>

\* The process dies, or an exception other than AgentPolicyError escapes.
Crash ==
  /\ Running
  /\ inv' = saved /\ UNCHANGED saved
  /\ pc' = "idle"
  /\ Leave(0)

\* Interpreting the goal.
Begin(i) == [i EXCEPT !.status = IF @ \in {"created", "planning"} THEN "running" ELSE @]
NoClaims == Proposed(inv.claims) = {}

InterpretFails == pc = "interpret" /\ FailSafe

Unanswerable ==
  /\ pc = "interpret" /\ NoClaims
  /\ Finalize(Begin(inv), "unanswerable_premise", 1)

Interpreted ==
  /\ pc = "interpret"
  /\ pc' = IF NoClaims THEN "generate" ELSE "decide"
  /\ inv' = IF inv.status = "created" /\ ~NoClaims
            THEN [inv EXCEPT !.status = "running"] ELSE inv
  /\ ModelCall
  /\ UNCHANGED <<saved, call>>

\* Proposing the claims.  A goal posed as alternatives makes two claims rivals.
\* set_status(planning) is legal for a fresh investigation only.
GenerateFails == pc = "generate" /\ FailSafe

Generate ==
  /\ pc = "generate"
  /\ \E n \in 0..NClaims, alternatives \in BOOLEAN :
       IF CanMoveInvestigation(inv.status, "planning")
       THEN /\ inv' = [inv EXCEPT
                         !.claims = [c \in Claims |-> IF c <= n THEN "proposed" ELSE "absent"],
                         !.rivals = alternatives /\ n = 2,
                         !.status = "running"]
            /\ saved' = inv'
            /\ pc' = "decide"
            /\ ModelCall
            /\ UNCHANGED call
       ELSE Raise(1)

-------------------------------------------------------------------------------
\* One iteration: decide, plan and select, run and fold, criticise.
LoopSkipped ==
  /\ pc = "decide" /\ inv.stop # "none"
  /\ inv' = inv /\ UNCHANGED saved
  /\ pc' = "idle"
  /\ Leave(0)

StopAt(late) ==
  /\ pc = "decide" /\ inv.stop = "none"
  /\ StopReason(late) # "none"
  /\ Finalize(inv, StopReason(late), 0)
Stop == \E late \in Late : StopAt(late)

GoesOn == pc = "decide" /\ inv.stop = "none" /\ StopReason("no") = "none"

\* A partial run: the caller's window is used up.
WindowUsed == GoesOn /\ call.fresh >= call.window /\ Return(inv, 0)

Selecting == GoesOn /\ call.fresh < call.window

\* Mutant: an iteration without a candidate is skipped.
NothingToRun_Skipped == Selecting /\ Candidates(inv) = {} /\ UNCHANGED vars

NothingToRun ==
  /\ Selecting /\ Candidates(inv) = {}
  /\ Finalize(inv, OutOfCandidates(inv, tracker.used), 0)

SelectFails == Selecting /\ Candidates(inv) # {} /\ FailSafe

SelectNone ==
  /\ Selecting /\ Candidates(inv) # {}
  /\ Finalize(inv, OutOfCandidates(inv, tracker.used), 1)

Select ==
  /\ Selecting
  /\ \E lead \in Candidates(inv) :
       call' = [call EXCEPT !.batch = Batch(Candidates(inv), lead),
                            !.lead = lead.id, !.won = FALSE]
  /\ pc' = "fold"
  /\ ModelCall
  /\ UNCHANGED <<inv, saved>>

\* Outcomes are folded in selection order: the lead, then by id.
Due == LET leads == {r \in call.batch : r.id = call.lead}
           ids   == {r.id : r \in call.batch}
       IN CHOOSE r \in call.batch :
            r.id = IF leads # {} THEN call.lead ELSE First(ids)

\* After outcome r the aggregate is i; did the experiment succeed?
Folded(i, ok) ==
  LET left == call.batch \ {Due}
      won  == call.won \/ ok
  IN /\ call' = [call EXCEPT !.fresh = @ + 1, !.batch = left,
                             !.lead = IF left = {} THEN 0 ELSE @,
                             !.won = won /\ left # {}]
     /\ tracker' = [tracker EXCEPT !.used = @ + 1,
                                   !.failures = IF ok THEN 0 ELSE @ + 1]
     /\ CASE left # {}         -> inv' = i /\ pc' = "fold" /\ UNCHANGED saved
          [] left = {} /\ won  -> inv' = i /\ pc' = "critic" /\ UNCHANGED saved
          [] left = {} /\ ~won -> EndIteration(i)

Recorded(ok, told) ==
  Append(inv.ran, [id |-> Due.id, tool |-> Due.tool, metric |-> Due.metric,
                   targets |-> Due.targets, ok |-> ok, told |-> told])

FoldFailure == pc = "fold" /\ Folded([inv EXCEPT !.ran = Recorded(FALSE, {})], FALSE)

Contradiction(t, o, tool) ==
  [kind |-> "contradiction", target |-> t, other |-> o, tool |-> tool]

\* Mutant: the conflict is left to the critic.
Exclusive_Missed(i) == i

\* enforce_mutual_exclusivity: rivals may not both stand.
Exclusive(i) ==
  IF i.rivals /\ {1, 2} \subseteq With(i.claims, "supported")
  THEN [i EXCEPT !.claims = Weakened(@, {1, 2}),
                 !.critiques = Append(@, Contradiction(1, 2, NoTool))]
  ELSE i

\* The evidence is filed against every target there is, and every target that
\* is not rejected is scored on all the evidence about it.
FoldSuccess ==
  /\ pc = "fold"
  /\ \E reading \in [Due.targets \cap Proposed(inv.claims) -> Readings] :
       LET heard    == DOMAIN reading
           told     == {c \in heard : Directional(reading[c])}
           evidence == [c \in Claims |-> IF c \in heard
                                         THEN Filed(inv.evidence[c], reading[c])
                                         ELSE inv.evidence[c]]
           scored   == heard \cap OpenClaims(inv.claims)
           claims   == [c \in Claims |-> IF c \in scored
                                         THEN Scored(inv.claims[c], evidence[c])
                                         ELSE inv.claims[c]]
       IN IF \A c \in scored : ScoreIsLegal(inv.claims[c], evidence[c])
          THEN Folded(Exclusive([inv EXCEPT !.ran = Recorded(TRUE, told),
                                            !.evidence = evidence,
                                            !.claims = claims]), TRUE)
          ELSE Raise(0)

\* The critic.  It asks about a claim that is supported, or open with evidence
\* that has not simply supported it.
Challengeable(c) ==
  \/ inv.claims[c] = "supported"
  \/ /\ inv.claims[c] \in {"proposed", "active", "weakened"}
     /\ inv.evidence[c] # NoEvidence
     /\ ~(inv.evidence[c].sup > 0 /\ inv.evidence[c].ref = 0)

Criticising == pc = "critic" /\ \E c \in Claims : Challengeable(c)

NothingToChallenge ==
  /\ pc = "critic" /\ ~Criticising
  /\ EndIteration(inv)
  /\ UNCHANGED <<tracker, call>>

CriticFails == Criticising /\ FailSafe

CriticIsSilent == Criticising /\ EndIteration(inv) /\ ModelCall /\ UNCHANGED call

\* Two claims that both stand are reported to contradict each other.
Contradict ==
  /\ Criticising
  /\ \E t, o \in With(inv.claims, "supported"), tool \in Tools \cup {NoTool} :
       /\ t # o
       /\ EndIteration([inv EXCEPT !.critiques = Append(@, Contradiction(t, o, tool)),
                                   !.claims = Weakened(@, {t, o})])
  /\ ModelCall
  /\ UNCHANGED call

\* A tool is named that could falsify a claim; the claim need not exist.
Challenge ==
  /\ Criticising
  /\ \E t \in Claims, tool \in Tools :
       EndIteration([inv EXCEPT !.critiques = Append(@,
         [kind |-> "challenge", target |-> t, other |-> NoClaim, tool |-> tool])])
  /\ ModelCall
  /\ UNCHANGED call

-------------------------------------------------------------------------------
Work ==
  \/ InterpretFails \/ Unanswerable \/ Interpreted
  \/ GenerateFails \/ Generate
  \/ LoopSkipped \/ WindowUsed \/ NothingToRun
  \/ SelectFails \/ SelectNone \/ Select
  \/ FoldFailure \/ FoldSuccess
  \/ NothingToChallenge \/ CriticFails \/ CriticIsSilent \/ Contradict \/ Challenge

LoopStep == Stop \/ Work

Next == Start \/ Resume \/ Crash \/ LoopStep

Spec == Init /\ [][Next]_vars

\* A call that is running keeps running: the policy and the tools answer.
\* Nothing makes the time or the money run out.
Fairness == WF_vars(StopAt("no") \/ Work)
LiveSpec == Spec /\ Fairness

-------------------------------------------------------------------------------
\* The limits on the whole investigation hold across batches, resumed calls and
\* crashes: experiments, iterations and the uses of each tool.
BudgetHolds ==
  \A i \in {inv, saved} :
    /\ Len(i.ran) <= MaxExperiments
    /\ i.iterations <= MaxIterations
    /\ \A t \in Tools : ToolUses(i, t) <= MaxToolUses

\* The limit on model calls is looked at between iterations only: one call of
\* the loop may make two more than that.
ModelCallsBounded == tracker.calls <= MaxModelCalls + 2

\* The limit on consecutive failures is looked at between iterations only, and a
\* batch folds all its outcomes: a call may pass it by what is left of a batch.
FailureRunBounded == tracker.failures <= MaxFailures + MaxParallel - 1

\* The two limits that hold per call and are checked between iterations only:
\* neither is passed by more than one iteration can add, in any order of
\* selection, outcomes, critique and failures.
PerCallLimitsHold == ModelCallsBounded /\ FailureRunBounded

\* Both ways of stopping for sufficient evidence leave some claim supported, no
\* claim without an experiment and no open contradiction.
SufficientIsEarned ==
  saved.stop = "sufficient_evidence" =>
    /\ With(saved.claims, "supported") # {}
    /\ With(saved.claims, "proposed") = {}
    /\ OpenContradictions(saved) = {}

\* An illegal status change, which no caller expects, can only come out of a
\* call on an investigation without claims: with claims, every change the loop
\* asks for is an edge of the two graphs.
RaisesOnlyWithoutClaims == pc = "raised" => NoClaims

\* A concluded investigation that has claims is not touched by later calls.
ConcludedIsFinal ==
  [][saved.stop # "none" /\ Proposed(saved.claims) # {} => saved' = saved]_vars

\* Seen through its store, an investigation is a notebook; its answer is the whole
\* checkpoint, from the moment in which it is concluded.
Done   == inv.ran
Kept   == saved.ran
Answer == IF saved.stop # "none" /\ Proposed(saved.claims) # {} THEN saved
          ELSE NoInvestigation

Notes == INSTANCE Notebook WITH
  Budget <- MaxExperiments, BatchSize <- MaxParallel, NoAnswer <- NoInvestigation,
  done <- Done, kept <- Kept, answer <- Answer

\* Every step of the loop is one of a notebook or none: results are only added
\* and never reordered, a crash or an exception costs at most one batch, nothing
\* is run after the conclusion, and the conclusion stays as it was written.
KeepsNotebook == Notes!Spec

\* A claim stands on strong evidence that nothing refutes, and a claim about
\* which there is evidence is no longer merely proposed; both hold while a batch
\* is being folded, after a critique and after a restart.
BeliefFollowsEvidence ==
  \A c \in Claims :
    /\ inv.claims[c] = "supported" => inv.evidence[c].sup = 2 /\ inv.evidence[c].ref = 0
    /\ inv.claims[c] = "proposed" => inv.evidence[c] = NoEvidence

\* Two claims the goal posed as alternatives are never both standing.
RivalsNeverBothStand == inv.rivals => ~({1, 2} \subseteq With(inv.claims, "supported"))

\* Every call of the loop comes back, with an answer or an exception, even if
\* the limits on time and cost are never reached.
EveryCallReturns == Running ~> ~Running

\* When the first claim is about the metric hint, no experiment is run twice: a
\* tool measures a metric once, failures, critiques and restarts notwithstanding.
NoRedundantRun ==
  Hint = MetricOf[1] =>
    \A m, n \in DOMAIN inv.ran :
      inv.ran[m].tool = inv.ran[n].tool /\ inv.ran[m].metric = inv.ran[n].metric => m = n

\* The request on record for a result names the claims that the experiment
\* tested: the read API joins the two by the request's id.
TraceNamesTheClaimTested ==
  \A n \in DOMAIN saved.ran :
    RequestRow(saved, saved.ran[n].id).targets = saved.ran[n].targets

\* Experiments are run in the order in which the planner numbered them, the
\* policy and the batch passing over none.
WorksInOrder == pc = "fold" => Due.id = Len(inv.ran)
===============================================================================
