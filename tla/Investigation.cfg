SPECIFICATION LiveSpec
CONSTANTS
  NClaims = 2
  Metrics = {"revenue", "margin"}
  Hint = "revenue"
  NTools = 2
  NIntent = 2
  MaxExperiments = 3
  MaxParallel = 2
  MaxModelCalls = 4
  MaxToolUses = 2
  MaxIterations = 3
  MaxFailures = 1
  Windows = {2, 3}
  MetricOf <- MCMetricOf
  Runnable <- MCRunnable
  Readings <- MCReadings
INVARIANTS
  TypeOK
  BudgetHolds
  BeliefFollowsEvidence
  RivalsNeverBothStand
  PerCallLimitsHold
  SufficientIsEarned
  RaisesOnlyWithoutClaims
  NoRedundantRun
PROPERTIES
  EveryCallReturns
  KeepsNotebook
