CONSTANTS
  c1 = c1
  c2 = c2
  Conns = {c1, c2}
  Logins <- OneNodeTwice
  Addrs = {a1, a2}
  Workers = {w1}
  Leavers = {c1, c2}
  Requests = {"REQ_NODE_LOGIN"}
  MaxRequests = 1
  MaxHttp = 1
  Formats = {}
  Posts = {}
  TORN = TORN
  NULL = NULL
SPECIFICATION Spec
PROPERTIES ListsCurrentNodes
\* Bounded numbers of requests: the system runs out of work.
CHECK_DEADLOCK FALSE
