CONSTANTS
  NoJob = NoJob  NoLoop = NoLoop
  j1 = j1  j2 = j2
  w1 = w1  w2 = w2
  r1 = r1  r2 = r2
  Jobs = {j1, j2}
  Kinds = {"crawl"}
  Priorities = {5}
  Runners = {r1, r2}
  Loops = {w1, w2}
  RunnerOf <- TwoRunners
  Handles <- HandlesAll
  MaxPerTick = 1
  MaxAttempts = 2
  AllowCancel = FALSE
  AllowStop = FALSE
  MaxNow = 0
  MaxRuns = 4
  MaxStarts = 1
  MaxCrashes = 0
  MaxDbErrors = 0
SPECIFICATION Spec
INVARIANTS PendingIsClaimable
CHECK_DEADLOCK FALSE
