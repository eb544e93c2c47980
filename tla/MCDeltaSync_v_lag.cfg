SPECIFICATION DeltaSpec
CHECK_DEADLOCK FALSE
CONSTANTS
  s1 = s1  Syncs = {s1}
  Lag = 3  Tolerance = 1  FullDays = 4  MaxDeltaAge = 2  FullAfter = 5  MaxDay = 7
INVARIANT WindowComplete
