CONSTANTS
  NoItem = NoItem
  i1 = i1  i2 = i2  q1 = q1  q2 = q2
  Items = {i1, i2}
  Requests = {q1}
  Pasts <- Trusted
  MinSamples = 3
  MinConfidence = 85
  MaxAuto = 1
  MaxFaults = 0
SPECIFICATION Spec
PROPERTY BatchTakesPending
\* no verification passed: nothing is left to decide
CHECK_DEADLOCK FALSE
