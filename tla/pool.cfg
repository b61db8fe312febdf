\* Two workers, four connections, pipes of one byte: the round robin wraps,
\* a worker holds several connections, and Active blocks on a full pipe.
CONSTANTS
  Conns = {c1, c2, c3, c4}
  NThreads = 2
  PipeCap = 1
  MaxInt = 100
  SleepSuffices = TRUE
  NULL = NULL
SPECIFICATION FairSpec
INVARIANTS NoLostWakeup ThreadAffinity Balanced
PROPERTIES ImplementsHandoff EveryNodeServed DispatchReturns
\* All connections served: nothing is left to do.
CHECK_DEADLOCK FALSE
