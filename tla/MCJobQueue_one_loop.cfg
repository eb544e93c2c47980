CONSTANTS
  NoJob = NoJob  NoLoop = NoLoop
  j1 = j1  j2 = j2
  w1 = w1  w2 = w2
  r1 = r1  r2 = r2
  Jobs = {j1, j2}
  Kinds = {"crawl", "crawl_no_url", "other"}
  Priorities = {1, 5}
  Runners = {r1}
  Loops = {w1, w2}
  RunnerOf <- OneRunner
  Handles <- HandlesAll
  MaxPerTick = 2
  MaxAttempts = 2
  AllowCancel = TRUE
  AllowStop = FALSE
  MaxNow = 1
  MaxRuns = 4
  MaxStarts = 2
  MaxCrashes = 1
  MaxDbErrors = 0
SPECIFICATION FairSpec
INVARIANTS TypeOK AttemptsCountRuns PendingIsClaimable SerialTicks
PROPERTIES ImplementsContract EventuallySettled
\* after the last crash nobody polls
CHECK_DEADLOCK FALSE
