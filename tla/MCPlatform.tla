----------------------------- MODULE MCPlatform -----------------------------
(***************************************************************************)
(* Small instances of SpendGuard, ArtifactVault, EvaluationControl,        *)
(* PipelineRun, FilingSignals and ChatThread.  The six share no variable,  *)
(* so one state space serves them all: a behaviour chooses the component   *)
(* it is about, the others stay where they start.  Their sum is explored,  *)
(* not their product.                                                      *)
(***************************************************************************)
EXTENDS SpendGuard, ArtifactVault, EvaluationControl, PipelineRun, FilingSignals,
        ChatThread, TLC

CONSTANT Foci   \* the components to explore
CONSTANTS a1, a2, f1, r1, c1, c2, k1, k2, s1, s2, u1, u2, q1, q2, w1, w2

VARIABLE focus   \* the component that moves

\* One account that the agentic engine is closed to, one that it is open to.
MCTier     == [u \in Accounts |-> IF u = u1 THEN "guest" ELSE "adaptive"]
MCPrices   == [m \in Models |-> 1]
MCMaxRuns  == [t \in Tiers |-> 1]
MCMaxSpend == [t \in Tiers |-> IF t = "adaptive" THEN 1 ELSE 0]

\* One way of ending per case status and per kind of degradation.
MCEndings ==
  {[status |-> "success",         evidence |-> "stale"],
   [status |-> "partial_success", evidence |-> "clean"],
   [status |-> "error",           evidence |-> "upstream"],
   [status |-> "cancelled",       evidence |-> "clean"]}

MCTickers == <<"AAPL", "MSFT">>

\* Every cross-section of up to four companies with three values, some with
\* silent companies, one large enough for a low rank and one for a high z.
MCCrossSections ==
  [own : {1, 3}, peers : UNION {[1..n -> {1, 2, 3}] : n \in 0..3}, silent : {0}]
    \union [own : {3}, peers : UNION {[1..n -> {1, 3}] : n \in 0..2}, silent : {1, 3}]
    \union {[own |-> 0, peers |-> [n \in 1..9 |-> 5], silent |-> 0],
            [own |-> 9, peers |-> [n \in 1..6 |-> n \div 4], silent |-> 0]}

\* Just past the threshold, and past the cap.
MCRatios == {101, 400}

platformVars == <<focus, spendVars, vaultVars, evalVars, pipeVars, signalVars,
                  chatVars>>

PlatformInit ==
  /\ focus \in Foci
  /\ SpendInit /\ VaultInit /\ EvalInit /\ PipeInit /\ SignalInit /\ ChatInit
  /\ focus # "vault"      => \A r \in Runs : run[r].status = "success"
  /\ focus # "evaluation" => live = Cases
  /\ focus # "pipeline"   => unknown = {} /\ supported
  /\ focus # "signals"    => rows = <<>>

SpendStep(A)  == focus = "spend" /\ A
  /\ UNCHANGED <<vaultVars, evalVars, pipeVars, signalVars, chatVars>>
VaultStep(A)  == focus = "vault" /\ A
  /\ UNCHANGED <<spendVars, evalVars, pipeVars, signalVars, chatVars>>
EvalStep(A)   == focus = "evaluation" /\ A
  /\ UNCHANGED <<spendVars, vaultVars, pipeVars, signalVars, chatVars>>
PipeStep(A)   == focus = "pipeline" /\ A
  /\ UNCHANGED <<spendVars, vaultVars, evalVars, signalVars, chatVars>>
SignalStep(A) == focus = "signals" /\ A
  /\ UNCHANGED <<spendVars, vaultVars, evalVars, pipeVars, chatVars>>
ChatStep(A)   == focus = "chat" /\ A
  /\ UNCHANGED <<spendVars, vaultVars, evalVars, pipeVars, signalVars>>

PlatformNext ==
  /\ UNCHANGED focus
  /\ \/ SpendStep(SpendNext) \/ VaultStep(VaultNext) \/ EvalStep(EvalNext)
     \/ PipeStep(PipeNext) \/ SignalStep(SignalNext) \/ ChatStep(ChatNext)

\* VaultFairness and EvalFairness, of the component that moves.
PlatformFairness ==
  /\ WF_platformVars(VaultStep(PassStarts) /\ UNCHANGED focus)
  /\ WF_platformVars(VaultStep(PrunesBlob \/ PruneFails) /\ UNCHANGED focus)
  /\ WF_platformVars(VaultStep(PassCommits) /\ UNCHANGED focus)
  /\ WF_platformVars(EvalStep(ReadLocks) /\ UNCHANGED focus)
  /\ WF_platformVars(EvalStep(ReadCloses) /\ UNCHANGED focus)
  /\ \A c \in Cases : WF_platformVars(EvalStep(Reconcile(c)) /\ UNCHANGED focus)

PlatformSpec == PlatformInit /\ [][PlatformNext]_platformVars /\ PlatformFairness

\* The component that moves keeps its types; the others rest where it started.
PlatformTypeOK ==
  /\ focus = "spend"      => SpendTypeOK
  /\ focus = "vault"      => VaultTypeOK
  /\ focus = "evaluation" => EvalTypeOK
  /\ focus = "pipeline"   => PipeTypeOK
  /\ focus = "signals"    => SignalTypeOK
  /\ focus = "chat"       => ChatTypeOK
==============================================================================
