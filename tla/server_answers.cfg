CONSTANTS
  c1 = c1
  c2 = c2
  Conns = {c1}
  Logins <- TwoMachines
  Addrs = {a1}
  Workers = {w1}
  Leavers = {}
  Requests = {"REQ_NODE_LOGIN", "REQ_HEART_BEAT", "UNKNOWN", "NOT_PB"}
  MaxRequests = 3
  MaxHttp = 2
  Formats = {}
  Posts = {"long", "odd"}
  TORN = TORN
  NULL = NULL
SPECIFICATION FairSpec
INVARIANTS AnswersInOrder
PROPERTIES EveryRequestAnswered
\* Bounded numbers of requests: the system runs out of work.
CHECK_DEADLOCK FALSE
