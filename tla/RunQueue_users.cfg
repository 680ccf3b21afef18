SPECIFICATION Spec
CONSTANTS
  r1 = r1  r2 = r2  w1 = w1  w2 = w2  c1 = c1  c2 = c2
  NoRun = NoRun
  Runs = {r1}
  Workers = {w1, w2}
  Clients = {c1}
  Agentic = {}
  EmptyPollEnds = {"rollback", "commit"}
  SyncExecute = TRUE
  MaxAttempts = 2
  MaxJobs = 3
  MaxCrashes = 1
  MaxLapses = 0
SYMMETRY MCSymmetry
INVARIANTS
  AttemptsNumberedInOrder
  QueuedHasOpenJob
  OneOwnerPerClaim
PROPERTIES
  KeepsLedger
  ClosedRowsAreFinal
CHECK_DEADLOCK FALSE
