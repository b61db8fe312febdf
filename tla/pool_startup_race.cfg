\* The sleep of Init is no synchronisation: a worker may still be in SetUpEvent
\* when the first connection is dispatched to it.
CONSTANTS
  Conns = {c1, c2}
  NThreads = 2
  PipeCap = 2
  MaxInt = 100
  SleepSuffices = FALSE
  NULL = NULL
SPECIFICATION FairSpec
PROPERTIES EveryNodeServed
CHECK_DEADLOCK FALSE
