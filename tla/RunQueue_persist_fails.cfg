SPECIFICATION Spec
CONSTANTS
  r1 = r1  r2 = r2  w1 = w1  w2 = w2  c1 = c1  c2 = c2
  NoRun = NoRun
  Runs = {r1}
  Workers = {w1}
  Clients = {}
  Agentic = {}
  EmptyPollEnds = {"rollback"}
  SyncExecute = FALSE
  MaxAttempts = 2
  MaxJobs = 2
  MaxCrashes = 0
  MaxLapses = 0
PROPERTIES
  TransientFailureRequeues
CHECK_DEADLOCK FALSE
