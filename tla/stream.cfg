CONSTANTS
  Cuts = {6, 13}
  MaxFlight = 1
  MaxBacklog = 1
SPECIFICATION FairSpec
INVARIANTS ShornNeedsCut
PROPERTIES ImplementsExchange HeardAgain StopArrives
\* A node that has been told to close has ended.
CHECK_DEADLOCK FALSE
