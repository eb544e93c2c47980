CONSTANTS
  NoItem = NoItem
  x = x  y = y
  p1 = p1  p2 = p2
  Items = {x, y}
  Rank <- XFirst
  Risky = {y}
  NeedsAi = {x}
  Wired = {x, y}
  Procs = {p1}
  Runs <- RunsAll
  Overlap = FALSE
  Dashboard = {}
  MaxStarts = 3
  MaxCrashes = 0
  MaxDbErrors = 0
SPECIFICATION Spec
INVARIANTS PendingIsNotLive
\* every command may have ended
CHECK_DEADLOCK FALSE
