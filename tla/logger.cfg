SPECIFICATION FairSpec
CONSTANTS
  main = main
  w = w
  LOG = LOG
  NULL = NULL
  Main = main
  Programs <- ClientAndServer
  Levels = {1, 2}
  Banner = 1
  MaxCalls = 3
  FreeLimit = 1
INVARIANTS InOrder FreeBound DiscardExplained NothingLostOnExit
PROPERTIES StopReturns EveryRecordHandled
CHECK_DEADLOCK FALSE
