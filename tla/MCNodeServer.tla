---------------------------- MODULE MCNodeServer ----------------------------
(* NodeServer for TLC: who is behind each connection. *)
EXTENDS NodeServer, TLC

CONSTANTS c1, c2

Node(i, p, n) == [ip |-> i, port |-> p, name |-> n]

\* Two nodes on two machines; the first has two addresses and a new name for each.
TwoMachines ==
     (c1 :> {Node("ip1", 3300, "node1"), Node("ip3", 3300, "node3")})
  @@ (c2 :> {Node("ip2", 3300, "node2")})

\* One node that connects again, and then logs in under a name that acts as a format.
OneNodeTwice ==
     (c1 :> {Node("ip1", 3300, "node1")})
  @@ (c2 :> {Node("ip1", 3300, "node1"), Node("ip1", 3300, "node%d")})

\* A node that changes its name and its address, and another with its first address
\* and a name that acts as a format.
NodeThatMoves ==
     (c1 :> {Node("ip1", 3300, "node1"), Node("ip2", 3300, "node2")})
  @@ (c2 :> {Node("ip1", 3300, "node%d")})

\* Objects may lie anywhere, and the workers are alike.
Alike == Permutations(Addrs) \cup Permutations(Workers)
=============================================================================
