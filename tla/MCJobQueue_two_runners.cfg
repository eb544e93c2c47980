CONSTANTS
  NoJob = NoJob  NoLoop = NoLoop
  j1 = j1  j2 = j2
  w1 = w1  w2 = w2
  r1 = r1  r2 = r2
  Jobs = {j1, j2}
  Kinds = {"crawl", "other"}
  Priorities = {5}
  Runners = {r1, r2}
  Loops = {w1, w2}
  RunnerOf <- TwoRunners
  Handles <- HandlesAll
  MaxPerTick = 1
  MaxAttempts = 2
  AllowCancel = TRUE
  AllowStop = TRUE
  MaxNow = 0
  MaxRuns = 3
  MaxStarts = 1
  MaxCrashes = 1
  MaxDbErrors = 1
SPECIFICATION Spec
INVARIANTS NeverFailedEarly RunningIsHeld
PROPERTIES CancelledIdleStays
SYMMETRY JobSymmetry
\* both runners may be stopped
CHECK_DEADLOCK FALSE
