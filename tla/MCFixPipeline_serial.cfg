CONSTANTS
  NoItem = NoItem
  x = x  y = y
  p1 = p1  p2 = p2
  Items = {x, y}
  Rank <- XFirst
  Risky = {y}
  NeedsAi = {x}
  Wired = {x}
  Procs = {p1}
  Runs <- RunsAll
  Overlap = FALSE
  Dashboard = {"buttons"}
  MaxStarts = 3
  MaxCrashes = 1
  MaxDbErrors = 1
SPECIFICATION FairSpec
INVARIANTS TypeOK DeployedHasManifest
PROPERTIES ImplementsLifecycle EveryItemRouted
\* every command may have ended
CHECK_DEADLOCK FALSE
