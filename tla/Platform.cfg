SPECIFICATION PlatformSpec
CONSTANTS
  Foci = {"spend", "vault", "evaluation", "pipeline", "signals", "chat"}
  a1 = a1  a2 = a2  f1 = f1  r1 = r1  c1 = c1  c2 = c2  k1 = k1  k2 = k2
  s1 = s1  s2 = s2  u1 = u1  u2 = u2  q1 = q1  q2 = q2  w1 = w1  w2 = w2
  Questions = {w1, w2}
  NoQuestion = NoQuestion
  MaxLost = 1
  Accounts = {u1, u2}
  Tier <- MCTier
  Admins = {}
  MaxTasks = 2
  Requests = {q1, q2}
  Models = {"gpt"}
  Prices <- MCPrices
  MaxRunsOf <- MCMaxRuns
  MaxSpendOf <- MCMaxSpend
  GlobalMaxRuns = 1
  GlobalMaxSpend = 2
  AgenticEnabled = TRUE
  MaxMonth = 1
  MaxTokens = 1
  Artifacts = {a1, a2, f1}
  Foreign = {f1}
  Batch = 2
  Runs = {r1}
  MaxFaults = 2
  MaxRetries = 1
  Cases = {c1, c2}
  Children = {k1, k2}
  NoChild = NoChild
  Starters = {s1, s2}
  MaxReruns = 1
  Endings <- MCEndings
  Tickers <- MCTickers
  MaxAttempts = 2
  MaxMishaps = 1
  Now = 5
  NTags = 2
  MaxRows = 3
  CrossSections <- MCCrossSections
  SelfRatios <- MCRatios
  ZScoreWindow = 4
  MinPeerGroup = 3
  MinPeriods = 4
INVARIANTS
  PlatformTypeOK
  OvershootBounded
  AgenticOnlyForAdaptive
  StatusIsHonest
  TombstoneMeansGone
  RowsHaveBlobs
  VerdictIsJustified
  BestFactWins
  PenaltySurvives
  GapIsFlagged
  StopNoteIsTrue
  BubbleIsAwaited
  AwaitedIsServed
PROPERTIES
  ResultHasItsTrace
  CancelAfterExecutionLasts
  PrunedIsTombstoned
  ServedVerdictSettles
CHECK_DEADLOCK FALSE
