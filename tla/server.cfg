CONSTANTS
  c1 = c1
  c2 = c2
  Conns = {c1, c2}
  Logins <- NodeThatMoves
  Addrs = {a1, a2}
  Workers = {w1, w2}
  Leavers = {c1, c2}
  Requests = {"REQ_NODE_LOGIN"}
  MaxRequests = 2
  MaxHttp = 1
  Formats = {"node%d"}
  Posts = {"long", "odd"}
  TORN = TORN
  NULL = NULL
SYMMETRY Alike
SPECIFICATION Spec
INVARIANTS CrashExplained ConnectedStaysListed
PROPERTY ImplementsDirectory
\* Bounded numbers of requests: the system runs out of work.
CHECK_DEADLOCK FALSE
