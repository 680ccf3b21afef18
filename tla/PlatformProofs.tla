---------------------------- MODULE PlatformProofs ----------------------------
(***************************************************************************)
(* The platform's behaviours are the components' behaviours: whatever is   *)
(* proved of a component holds of it inside MCPlatform, whose run checks   *)
(* the six of them together.                                               *)
(***************************************************************************)
EXTENDS MCPlatform, ControlProofs, VaultProofs, PipelineProofs, SignalProofs,
        ChatProofs

\* A step of the platform is a step of the component that moves and of no other.
LEMMA StepsAreTheComponents ==
  ASSUME [PlatformNext]_platformVars
  PROVE  /\ [SpendNext]_spendVars /\ [VaultNext]_vaultVars /\ [EvalNext]_evalVars
         /\ [PipeNext]_pipeVars /\ [SignalNext]_signalVars /\ [ChatNext]_chatVars
BY DEF PlatformNext, platformVars, SpendStep, VaultStep, EvalStep, PipeStep, SignalStep,
       ChatStep

\* Seen in its own variables, every component of the platform takes the steps
\* of its specification, so the run of MCPlatform checks the specifications that
\* the theorems are about, and what they say of the steps holds of what it
\* explores.  Fairness is stated for the component that moves only.
THEOREM PlatformRunsTheComponents ==
  PlatformSpec => /\ SpendSpec /\ PipeSpec /\ SignalSpec /\ ChatSpec
                  /\ VaultInit /\ [][VaultNext]_vaultVars
                  /\ EvalInit /\ [][EvalNext]_evalVars
<1>1. PlatformInit => /\ SpendInit /\ VaultInit /\ EvalInit
                      /\ PipeInit /\ SignalInit /\ ChatInit
  BY DEF PlatformInit
<1>2. [PlatformNext]_platformVars =>
        /\ [SpendNext]_spendVars /\ [VaultNext]_vaultVars /\ [EvalNext]_evalVars
        /\ [PipeNext]_pipeVars /\ [SignalNext]_signalVars /\ [ChatNext]_chatVars
  BY StepsAreTheComponents
<1> QED BY <1>1, <1>2, PTL DEF PlatformSpec, SpendSpec, PipeSpec, SignalSpec, ChatSpec

LEMMA VaultHolds == VaultInit /\ [][VaultNext]_vaultVars => []VaultInv
BY VaultInitInv, VaultStepInv, PTL

LEMMA EvaluationHolds == EvalInit /\ [][EvalNext]_evalVars => []EvalInv
BY EvalInitInv, StepKeeps, PTL

\* The type invariant of the platform, for any choice of components to explore.
THEOREM PlatformTypeCorrect == PlatformSpec => []PlatformTypeOK
<1>1. SpendTypeOK /\ VaultInv /\ EvalInv /\ PipeTypeOK /\ SignalTypeOK /\ ChatInv
        => PlatformTypeOK
  BY DEF PlatformTypeOK, VaultInv, EvalInv, ChatInv
<1> QED BY <1>1, PlatformRunsTheComponents, VaultHolds, EvaluationHolds, SpendTypeCorrect,
           PipelineTypeCorrect, SignalTypeCorrect, ChatInductive, PTL

\* The invariants that the run of MCPlatform checks hold of it for all values of
\* the constants: one component of the platform cannot break the promises of
\* another.  PenaltySurvives alone needs a hypothesis, see PenaltyIsNeverUndone.
THEOREM PlatformKeepsPromises ==
  PlatformSpec => /\ [](OvershootBounded /\ AgenticOnlyForAdaptive)
                  /\ [](TombstoneMeansGone /\ RowsHaveBlobs)
                  /\ []VerdictIsJustified
                  /\ []StatusIsHonest /\ ResultHasItsTrace
                  /\ [](BestFactWins /\ GapIsFlagged)
                  /\ [](StopNoteIsTrue /\ BubbleIsAwaited /\ AwaitedIsServed)
<1>1. VaultInv => TombstoneMeansGone /\ RowsHaveBlobs
  BY DEF VaultInv
<1>2. PlatformSpec => [](TombstoneMeansGone /\ RowsHaveBlobs) /\ []VerdictIsJustified
  BY <1>1, PlatformRunsTheComponents, VaultHolds, EvaluationHolds, SeenIsJustified, PTL
<1>3. PlatformSpec => [](OvershootBounded /\ AgenticOnlyForAdaptive)
  BY PlatformRunsTheComponents, CeilingsAreKept, AgenticNeedsTier, PTL
<1>4. PlatformSpec => []StatusIsHonest /\ ResultHasItsTrace
  BY PlatformRunsTheComponents, CoordinatorIsHonest, ResultsAreTraced, PTL
<1>5. PlatformSpec => [](BestFactWins /\ GapIsFlagged)
  BY PlatformRunsTheComponents, BestFactIsSelected, GapsAreFlagged, PTL
<1>6. PlatformSpec => [](StopNoteIsTrue /\ BubbleIsAwaited /\ AwaitedIsServed)
  BY PlatformRunsTheComponents, StopNotesAreTrue, BubblesAreAwaited, WaitsAreServed, PTL
<1> QED BY <1>2, <1>3, <1>4, <1>5, <1>6
===============================================================================
