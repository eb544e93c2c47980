CONSTANTS
  NoItem = NoItem
  x = x  y = y
  p1 = p1  p2 = p2
  Items = {x, y}
  Rank <- XFirst
  Risky = {y}
  NeedsAi = {x}
  Wired = {x}
  Procs = {p1, p2}
  Runs <- Operators
  Overlap = TRUE
  Dashboard = {"fixes"}
  MaxStarts = 3
  MaxCrashes = 0
  MaxDbErrors = 0
SPECIFICATION Spec
INVARIANTS NoAutoDeployOfRisky DeployedWasWritten
\* every command may have ended
CHECK_DEADLOCK FALSE
