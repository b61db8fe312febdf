CONSTANTS
  Conns = {k1, k2, k3, k4, k5, k6}
  First = k1
  MaxFaults = 3
  MaxSteps = 0
  MaxAway = 5
  Cost = 9
  NULL = NULL
SPECIFICATION FairSpec
PROPERTIES LogsInAgain
\* The client may be stopped.
CHECK_DEADLOCK FALSE
