SPECIFICATION LiveSpec
CONSTANTS
  r1 = r1  r2 = r2  w1 = w1  w2 = w2  c1 = c1  c2 = c2
  NoRun = NoRun
  Runs = {r1, r2}
  Workers = {w1, w2}
  Clients = {}
  Agentic = {r2}
  EmptyPollEnds = {"rollback"}
  SyncExecute = FALSE
  MaxAttempts = 1
  MaxJobs = 2
  MaxCrashes = 1
  MaxLapses = 1
PROPERTIES
  LiveClaimIsRespected
  EveryQueuedRunIsServed
  StaleQueuedIsReclaimed
CHECK_DEADLOCK FALSE
