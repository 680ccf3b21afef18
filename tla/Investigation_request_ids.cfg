SPECIFICATION Spec
CONSTANTS
  NClaims = 2
  Metrics = {"revenue", "margin"}
  Hint = "revenue"
  NTools = 2
  NIntent = 2
  MaxExperiments = 3
  MaxParallel = 1
  MaxModelCalls = 4
  MaxToolUses = 2
  MaxIterations = 3
  MaxFailures = 2
  Windows = {3}
  MetricOf <- MCMetricOf
  Runnable <- MCRunnable
  Readings <- MCReadings
INVARIANTS
  TraceNamesTheClaimTested
