\* No assumption on the sleep of Init, and a round-robin counter of 2 bits plus
\* sign that overflows at the fifth connection, to an index of -4 % 3 = -1.
CONSTANTS
  Conns = {c1, c2, c3, c4, c5}
  NThreads = 3
  PipeCap = 2
  MaxInt = 3
  SleepSuffices = FALSE
  NULL = NULL
SPECIFICATION Spec
SYMMETRY ConnSymmetry
INVARIANTS NoSpuriousWakeup OneHome IndexFaultNeedsOverflow
\* The process may die, and all connections may be served.
CHECK_DEADLOCK FALSE
