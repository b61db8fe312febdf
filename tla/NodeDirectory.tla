----------------------------- MODULE NodeDirectory -----------------------------
(***************************************************************************)
(* What the server offers to the HTTP side while no node disconnects: a    *)
(* directory with one node per ip, the last to log in with it, under the   *)
(* name that node gave last.  NodeServer is shown to implement it as long  *)
(* as no node has gone.  Nodes that differ in their port only are not told *)
(* apart, unlike what the HTTP document says: the registry's key is the ip *)
(* (global.cpp:33).                                                        *)
(***************************************************************************)
CONSTANTS Conns,     \* connections of nodes
          Ips,       \* ips the nodes log in with
          Names,     \* names they give themselves
          Formats,   \* ips and names that cannot be printed
          NULL

VARIABLES dir,       \* dir[ip]: the node listed under ip, and its name
          listing,   \* the last answer to GetAllNodes, NULL if it cannot be read
          told       \* connections asked to close by StopNode

vars == <<dir, listing, told>>

Init ==
  /\ dir = [ip \in {} |-> NULL]
  /\ listing = {}
  /\ told = {}

Listed == DOMAIN dir

\* A login gives its node a name wherever the node is listed,
Name(c, n) ==
  /\ dir' = [ip \in Listed |-> IF dir[ip].node = c THEN [node |-> c, name |-> n] ELSE dir[ip]]
  /\ UNCHANGED <<listing, told>>

\* and then lists the node under its ip, in place of whoever was there.
Login(c, ip, n) ==
  /\ dir' = [i \in Listed \cup {ip} |-> IF i = ip THEN [node |-> c, name |-> n] ELSE dir[i]]
  /\ UNCHANGED <<listing, told>>

\* All are listed at once; an answer with a text that cannot be printed is lost.
GetAllNodes ==
  /\ \/ listing' = {<<ip, dir[ip].name>> : ip \in Listed}
     \/ /\ \E ip \in Listed : ip \in Formats \/ dir[ip].name \in Formats
        /\ listing' = NULL
  /\ UNCHANGED <<dir, told>>

StopNode(ip) ==
  /\ ip \in Listed
  /\ told' = told \cup {dir[ip].node}
  /\ UNCHANGED <<dir, listing>>

Next ==
  \/ \E c \in Conns, n \in Names : Name(c, n) \/ \E ip \in Ips : Login(c, ip, n)
  \/ GetAllNodes
  \/ \E ip \in Ips : StopNode(ip)

Spec == Init /\ [][Next]_vars
=============================================================================
