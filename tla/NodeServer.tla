------------------------------ MODULE NodeServer ------------------------------
(***************************************************************************)
(* The sessions of the server and the registry of nodes: NodeConnect       *)
(* (serverDiscover/nodeConnect.cpp), Global (global.cpp) and the HTTP      *)
(* handlers of httpReq.cpp, run by three kinds of threads.                 *)
(*                                                                         *)
(* Each connection belongs to one worker, whose event loop runs its        *)
(* callbacks one at a time.  The main thread accepts connections and runs  *)
(* the HTTP handlers.  The registry m_mapNode is guarded by a mutex; it    *)
(* holds pointers to NodeConnect objects, which are deleted without it,    *)
(* and the memory of a deleted object may be given to a new one.           *)
(*                                                                         *)
(* What ReadCallBack reads is one whole request here.  Undefined behaviour *)
(* (the use of a deleted object, a double delete, two threads inside one   *)
(* bufferevent or one string, text printed as a format, a buffer written   *)
(* over) is a choice between going on with what the memory still holds and *)
(* the end of the process.                                                 *)
(***************************************************************************)
EXTENDS Naturals, Sequences, FiniteSets, Functions, Selection

CONSTANTS
  Conns,        \* TCP connections of nodes
  Workers,      \* worker threads
  Addrs,        \* heap addresses at which NodeConnect objects are made
  Logins,       \* Logins[c]: the login data the node behind c may send
  Leavers,      \* the connections that may be closed or reset by the node
  Requests,     \* the kinds of requests the nodes send
  MaxRequests,  \* bound: requests a node sends on one connection
  MaxHttp,      \* bound: HTTP requests
  Formats,      \* ips and names that printf does not print as they are
  Posts,        \* bodies posted to StopNode that do not just give an ip
  TORN,         \* a name read while it is being written
  NULL

\* A login, a heartbeat, a protobuf message with an id the server does not know,
\* and a message of another format.
RequestKinds == {"REQ_NODE_LOGIN", "REQ_HEART_BEAT", "UNKNOWN", "NOT_PB"}

ASSUME ServerAssumption ==
  /\ \A c \in Conns : \A data \in Logins[c] : {"ip", "port", "name"} \subseteq DOMAIN data
  /\ Leavers \subseteq Conns
  /\ Requests \subseteq RequestKinds
  /\ Posts \subseteq {"long", "odd"}
  /\ MaxRequests \in Nat /\ MaxHttp \in Nat
  /\ NULL \notin Conns \cup Addrs \cup Workers \cup Formats /\ TORN \notin Formats

VARIABLES
  peer,      \* peer[c]: "absent", "up" or "gone", the node's end of the connection
  owner,     \* owner[c]: the worker c was dispatched to
  addr,      \* addr[c]: the NodeConnect of c, the argument of its callbacks
  heap,      \* heap[a]: the connection whose NodeConnect lives at a, or NULL
  name,      \* name[a]: m_strNodeName as found at a, deleted or not
  pbev,      \* pbev[a]: m_pBev as found at a: the connection it serves, or NULL
  enabled,   \* enabled[c]: directions of c's bufferevent that still report events
  sent,      \* sent[c]: the requests the node of c has sent, in order
  handled,   \* handled[c]: how many of them ReadCallBack has read
  out,       \* out[c]: what was written to the output of c's bufferevent
  unsent,    \* unsent[c]: some of it has not been sent
  raced,     \* raced[c]: two threads have been inside c's bufferevent at once
  map,       \* m_mapNode: map[ip] is an address or NULL
  wpc,       \* wpc[w]: where worker w is in ReadCallBack
  wconn,     \* wconn[w]: the connection it serves
  wreply,    \* wreply[w]: the answer it will write
  mpc,       \* where the main thread is in an HTTP handler
  mconn,     \* the connection SendReqCloseNode writes to
  todo,      \* entries GetAllNode has still to visit
  seen,      \* entries it has visited, with the names it read
  renamed,   \* a listed object was being given another name during this GetAllNode
  listing,   \* the last answer to GetAllNodes; NULL if it cannot be read as a list
  https,     \* number of HTTP requests so far
  fault      \* what brought the process down, "none" while it is up

objects == <<addr, heap, name, pbev>>
network == <<peer, sent, handled>>
output  == <<out, unsent>>
workers == <<wpc, wconn, wreply>>
main    == <<mpc, mconn, todo, seen, renamed, listing, https>>

vars == <<peer, owner, addr, heap, name, pbev, enabled, sent, handled, out, unsent, raced, map,
          wpc, wconn, wreply, mpc, mconn, todo, seen, renamed, listing, https, fault>>

-----------------------------------------------------------------------------
(* Data *)

\* What ReadCallBack answers: for an id it does not know, the zeroed buffer.
AnswerTo == [REQ_NODE_LOGIN |-> "RESP_NODE_LOGIN",
             REQ_HEART_BEAT |-> "RESP_HEART_BEAT",
             UNKNOWN        |-> "ZEROS"]

Answers == {"RESP_NODE_LOGIN", "RESP_HEART_BEAT", "ZEROS", "REQ_CLOSE_NODE"}

\* HandleNodeOnlineReq: the login data the server keeps.  The port is not kept.
HandleNodeOnlineReq(data) == [strIp |-> data.ip, strName |-> data.name]

\* What the node behind c may send.
MessagesOf(c) ==
  [type : Requests \ {"REQ_NODE_LOGIN"}, info : {NULL}]
    \cup [type : Requests \cap {"REQ_NODE_LOGIN"}, info : Logins[c]]

Messages == UNION {MessagesOf(c) : c \in Conns}

NodeInfos == {HandleNodeOnlineReq(data) : data \in UNION {Logins[c] : c \in Conns}}

Ips   == {info.strIp : info \in NodeInfos}
Names == {info.strName : info \in NodeInfos}

Faults == {"none", "use_after_free", "double_free", "null_bufferevent", "race", "format",
           "overrun", "exception"}

TypeOK ==
  /\ peer \in [Conns -> {"absent", "up", "gone"}]
  /\ owner \in [Conns -> Workers \cup {NULL}]
  /\ addr \in [Conns -> Addrs \cup {NULL}]
  /\ heap \in [Addrs -> Conns \cup {NULL}]
  /\ name \in [Addrs -> Names \cup {NULL}]
  /\ pbev \in [Addrs -> Conns \cup {NULL}]
  /\ enabled \in [Conns -> SUBSET {"R", "W"}]
  /\ sent \in [Conns -> Seq(Messages)]
  /\ handled \in [Conns -> 0 .. MaxRequests]
  /\ out \in [Conns -> Seq(Answers)]
  /\ unsent \in [Conns -> BOOLEAN]
  /\ raced \in [Conns -> BOOLEAN]
  /\ map \in [Ips -> Addrs \cup {NULL}]
  /\ wpc \in [Workers -> {"idle", "naming", "login", "write"}]
  /\ wconn \in [Workers -> Conns \cup {NULL}]
  /\ wreply \in [Workers -> Answers \cup {NULL}]
  /\ mpc \in {"idle", "listing", "stopping"}
  /\ mconn \in Conns \cup {NULL}
  /\ todo \subseteq Ips
  /\ seen \subseteq Ips \X (Names \cup {NULL, TORN})
  /\ renamed \in BOOLEAN
  /\ listing = NULL \/ listing \subseteq Ips \X (Names \cup {NULL, TORN})
  /\ https \in 0 .. MaxHttp
  /\ fault \in Faults

Running == fault = "none"

\* The data of the login that worker w has in hand, as the server keeps it.
NodeInfo(w) == HandleNodeOnlineReq(sent[wconn[w]][handled[wconn[w]]].info)

\* The addresses the registry leads to.
Entries == {map[ip] : ip \in Ips} \ {NULL}

\* A login under another name is in ReadCallBack of an object that is listed.
Renames(a, n) == a \in Entries /\ name[a] # n

\* Global::m_mutex is held by the main thread throughout GetAllNode and DelNode;
\* a worker holds it only within AddNode, one step of this model.
Locked == mpc # "idle"

\* The threads inside bufferevent_write on c.
Writers(c) ==
  {w \in Workers : wpc[w] = "write" /\ wconn[w] = c}
    \cup (IF mpc = "stopping" /\ mconn = c THEN {NULL} ELSE {})

\* A thread enters bufferevent_write on c.  Neither the base nor the bufferevent
\* has a lock: if another thread is inside, the buffer cannot be trusted again.
EnterWrite(c) == raced' = [raced EXCEPT ![c] = @ \/ Writers(c) # {}]

\* A thread leaves bufferevent_write on c: msg is in the output, unless the
\* buffer was corrupted, in which case it may be lost or the process may end.
LeaveWrite(c, msg) ==
  \/ /\ out' = [out EXCEPT ![c] = Append(@, msg)]
     /\ unsent' = [unsent EXCEPT ![c] = TRUE]
     /\ UNCHANGED fault
  \/ /\ raced[c]
     /\ fault' \in {"none", "race"}
     /\ UNCHANGED output

-----------------------------------------------------------------------------
(* The nodes and the network *)

\* A node sends a request.
Send(c, req) ==
  /\ peer[c] = "up" /\ Len(sent[c]) < MaxRequests
  /\ sent' = [sent EXCEPT ![c] = Append(@, req)]
  /\ UNCHANGED <<peer, handled, owner, objects, enabled, output, raced, map, workers, main, fault>>

\* A node closes its connection, or it is reset.
Leave(c) ==
  /\ peer[c] = "up" /\ c \in Leavers
  /\ peer' = [peer EXCEPT ![c] = "gone"]
  /\ UNCHANGED <<sent, handled, owner, objects, enabled, output, raced, map, workers, main, fault>>

-----------------------------------------------------------------------------
(* The main thread *)

\* ListenCallBack: a NodeConnect is made for a new connection and given to a
\* worker.  The new object may lie where a deleted one was.
Accept(c, a, w) ==
  /\ Running /\ mpc = "idle"
  /\ peer[c] = "absent" /\ heap[a] = NULL
  /\ peer' = [peer EXCEPT ![c] = "up"]
  /\ owner' = [owner EXCEPT ![c] = w]
  /\ addr' = [addr EXCEPT ![c] = a]
  /\ heap' = [heap EXCEPT ![a] = c]
  /\ name' = [name EXCEPT ![a] = NULL]
  /\ pbev' = [pbev EXCEPT ![a] = NULL]
  /\ UNCHANGED <<sent, handled, enabled, output, raced, map, workers, main, fault>>

\* GET GetAllNodes, GetAllNode: take the mutex and start the iteration.
ListBegin ==
  /\ Running /\ mpc = "idle" /\ https < MaxHttp
  /\ https' = https + 1
  /\ mpc' = "listing"
  /\ todo' = {ip \in Ips : map[ip] # NULL}
  /\ seen' = {}
  /\ renamed' = \E w \in Workers : wpc[w] = "naming" /\ Renames(addr[wconn[w]], NodeInfo(w).strName)
  /\ UNCHANGED <<mconn, listing, network, owner, objects, enabled, output, raced, map, workers, fault>>

\* Names a worker is writing at address a, other than the one that is there: to
\* write the same text once more changes nothing.
NamesWritten(a) ==
  {NodeInfo(w).strName : w \in {v \in Workers : wpc[v] = "naming" /\ addr[wconn[v]] = a}} \ {name[a]}

\* What GetNodeName may return for the object at a: the string is copied while
\* a worker may be assigning it.
GetNodeName(a) ==
  {name[a]} \cup (IF NamesWritten(a) = {} THEN {} ELSE NamesWritten(a) \cup {TORN})

\* One entry of the iteration: GetNodeName on whatever the pointer leads to.
ListVisit(ip) ==
  /\ Running /\ mpc = "listing" /\ ip \in todo
  /\ todo' = todo \ {ip}
  /\ \E n \in GetNodeName(map[ip]) : seen' = seen \cup {<<ip, n>>}
  /\ fault' \in {"none"} \cup (IF heap[map[ip]] = NULL THEN {"use_after_free"} ELSE {})
                      \cup (IF NamesWritten(map[ip]) # {} THEN {"race"} ELSE {})
  /\ UNCHANGED <<mpc, mconn, renamed, listing, https, network, owner, objects, enabled, output, raced,
                 map, workers>>

\* The text of a listing is the format of evbuffer_add_printf.
ActsAsFormat(entries) == \E e \in entries : e[1] \in Formats \/ e[2] \in Formats

\* The end of the iteration: release the mutex, print the listing and send it.
ListEnd ==
  /\ Running /\ mpc = "listing" /\ todo = {}
  /\ mpc' = "idle"
  /\ \/ ~ActsAsFormat(seen) /\ listing' = seen /\ UNCHANGED fault
     \/ ActsAsFormat(seen) /\ listing' = NULL /\ fault' \in {"none", "format"}
  /\ renamed' = FALSE
  /\ UNCHANGED <<mconn, todo, seen, https, network, owner, objects, enabled, output, raced, map, workers>>

\* POST StopNode with a body that is no shorter than buf, where it is copied over
\* what follows buf, or with one that is not an object, or whose "ip" is an array
\* or an object: jsonPost["ip"] or asString throws, and no one catches.  A long body
\* may also be handled like another one.
StopFails ==
  /\ Running /\ mpc = "idle" /\ https < MaxHttp
  /\ https' = https + 1
  /\ \/ "long" \in Posts /\ fault' = "overrun"
     \/ "odd" \in Posts /\ fault' = "exception"
  /\ UNCHANGED <<mpc, mconn, todo, seen, renamed, listing, network, owner, objects, enabled, output, raced,
                 map, workers>>

\* POST StopNode for an ip that is not in the registry.
StopUnknown(ip) ==
  /\ Running /\ mpc = "idle" /\ https < MaxHttp
  /\ map[ip] = NULL
  /\ https' = https + 1
  /\ UNCHANGED <<mpc, mconn, todo, seen, renamed, listing, network, owner, objects, enabled, output, raced,
                 map, workers, fault>>

\* POST StopNode, DelNode: take the mutex, find the pointer and enter
\* bufferevent_write on the m_pBev found behind it.  The entry stays.
StopBegin(ip) ==
  /\ Running /\ mpc = "idle" /\ https < MaxHttp
  /\ map[ip] # NULL
  /\ https' = https + 1
  /\ \/ /\ pbev[map[ip]] # NULL
        /\ mpc' = "stopping"
        /\ mconn' = pbev[map[ip]]
        /\ EnterWrite(pbev[map[ip]])
        /\ UNCHANGED fault
     \/ /\ pbev[map[ip]] = NULL
        /\ fault' = "null_bufferevent"
        /\ UNCHANGED <<mpc, mconn, raced>>
     \/ /\ heap[map[ip]] = NULL
        /\ fault' = "use_after_free"
        /\ UNCHANGED <<mpc, mconn, raced>>
  /\ UNCHANGED <<todo, seen, renamed, listing, network, owner, objects, enabled, output, map, workers>>

\* SendReqCloseNode returns, the mutex is released, the reply is sent.
StopEnd ==
  /\ Running /\ mpc = "stopping"
  /\ LeaveWrite(mconn, "REQ_CLOSE_NODE")
  /\ mpc' = "idle"
  /\ mconn' = NULL
  /\ UNCHANGED <<todo, seen, renamed, listing, https, network, owner, objects, enabled, raced, map, workers>>

-----------------------------------------------------------------------------
(* The worker of connection c *)

Idle(c) == owner[c] # NULL /\ wpc[owner[c]] = "idle"

\* A request has arrived that the bufferevent of c reports to ReadCallBack.
CanRead(c)  == Running /\ Idle(c) /\ "R" \in enabled[c] /\ handled[c] < Len(sent[c])
Arriving(c) == sent[c][handled[c] + 1]

\* Mutation of HandlerConnect: m_pBev is not set.
HandlerForgetsBev(c) ==
  /\ Running /\ Idle(c) /\ heap[addr[c]] = c /\ pbev[addr[c]] = NULL
  /\ enabled' = [enabled EXCEPT ![c] = {"R", "W"}]
  /\ UNCHANGED <<network, owner, objects, output, raced, map, workers, main, fault>>

\* Mutation of HandlerConnect: EV_READ is not enabled.
HandlerWriteOnly(c) ==
  /\ Running /\ Idle(c) /\ heap[addr[c]] = c /\ pbev[addr[c]] = NULL
  /\ pbev' = [pbev EXCEPT ![addr[c]] = c]
  /\ enabled' = [enabled EXCEPT ![c] = {"W"}]
  /\ UNCHANGED <<network, owner, addr, heap, name, output, raced, map, workers, main, fault>>

\* HandlerConnect: make the bufferevent and install the callbacks.
HandlerConnect(c) ==
  /\ Running /\ Idle(c) /\ heap[addr[c]] = c /\ pbev[addr[c]] = NULL
  /\ pbev' = [pbev EXCEPT ![addr[c]] = c]
  /\ enabled' = [enabled EXCEPT ![c] = {"R", "W"}]
  /\ UNCHANGED <<network, owner, addr, heap, name, output, raced, map, workers, main, fault>>

\* HandlerConnect when no bufferevent can be made: the object deletes itself.
HandlerFails(c) ==
  /\ Running /\ Idle(c) /\ heap[addr[c]] = c /\ pbev[addr[c]] = NULL
  /\ heap' = [heap EXCEPT ![addr[c]] = NULL]
  /\ UNCHANGED <<network, owner, addr, name, pbev, enabled, output, raced, map, workers, main, fault>>

\* Mutation of ReadForeign: the check of the format does not return.
ReadForeignGoesOn(c) ==
  /\ CanRead(c) /\ Arriving(c).type = "NOT_PB"
  /\ handled' = [handled EXCEPT ![c] = @ + 1]
  /\ wpc' = [wpc EXCEPT ![owner[c]] = "write"]
  /\ wconn' = [wconn EXCEPT ![owner[c]] = c]
  /\ wreply' = [wreply EXCEPT ![owner[c]] = "ZEROS"]
  /\ EnterWrite(c)
  /\ UNCHANGED <<peer, sent, owner, objects, enabled, output, map, main, fault>>

\* ReadCallBack on a message of another format: nothing is done.
ReadForeign(c) ==
  /\ CanRead(c) /\ Arriving(c).type = "NOT_PB"
  /\ handled' = [handled EXCEPT ![c] = @ + 1]
  /\ UNCHANGED <<peer, sent, owner, objects, enabled, output, raced, map, workers, main, fault>>

\* ReadCallBack on a login, up to SetNodeName on the object behind the argument.
\* The name is written without a lock.
ReadLogin(c) ==
  /\ CanRead(c) /\ Arriving(c).type = "REQ_NODE_LOGIN"
  /\ handled' = [handled EXCEPT ![c] = @ + 1]
  /\ fault' \in (IF heap[addr[c]] = NULL THEN {"none", "use_after_free"} ELSE {"none"})
  /\ wpc' = [wpc EXCEPT ![owner[c]] = "naming"]
  /\ wconn' = [wconn EXCEPT ![owner[c]] = c]
  /\ wreply' = [wreply EXCEPT ![owner[c]] = AnswerTo["REQ_NODE_LOGIN"]]
  /\ renamed' = (renamed \/ (mpc = "listing" /\ Renames(addr[c], HandleNodeOnlineReq(Arriving(c).info).strName)))
  /\ UNCHANGED <<peer, sent, owner, objects, enabled, output, raced, map, mpc, mconn, todo, seen, listing, https>>

\* ReadCallBack on a login: SetNodeName returns.
SetNodeName(w) ==
  /\ Running /\ wpc[w] = "naming"
  /\ name' = [name EXCEPT ![addr[wconn[w]]] = NodeInfo(w).strName]
  /\ wpc' = [wpc EXCEPT ![w] = "login"]
  /\ UNCHANGED <<wconn, wreply, network, owner, addr, heap, pbev, enabled, output, raced, map, main, fault>>

\* Mutation of AddNode: the mutex is not taken.
AddNodeUnlocked(w) ==
  /\ Running /\ wpc[w] = "login"
  /\ map' = [map EXCEPT ![NodeInfo(w).strIp] = addr[wconn[w]]]
  /\ wpc' = [wpc EXCEPT ![w] = "write"]
  /\ EnterWrite(wconn[w])
  /\ UNCHANGED <<wconn, wreply, network, owner, objects, enabled, output, main, fault>>

\* ReadCallBack on a login, continued: AddNode under the mutex, then into
\* bufferevent_write with the response.
AddNode(w) ==
  /\ Running /\ wpc[w] = "login" /\ ~Locked
  /\ map' = [map EXCEPT ![NodeInfo(w).strIp] = addr[wconn[w]]]
  /\ wpc' = [wpc EXCEPT ![w] = "write"]
  /\ EnterWrite(wconn[w])
  /\ UNCHANGED <<wconn, wreply, network, owner, objects, enabled, output, main, fault>>

\* ReadCallBack on any other protobuf message, up to bufferevent_write.
ReadOther(c) ==
  /\ CanRead(c) /\ Arriving(c).type \in {"REQ_HEART_BEAT", "UNKNOWN"}
  /\ handled' = [handled EXCEPT ![c] = @ + 1]
  /\ wpc' = [wpc EXCEPT ![owner[c]] = "write"]
  /\ wconn' = [wconn EXCEPT ![owner[c]] = c]
  /\ wreply' = [wreply EXCEPT ![owner[c]] = AnswerTo[Arriving(c).type]]
  /\ EnterWrite(c)
  /\ UNCHANGED <<peer, sent, owner, objects, enabled, output, map, main, fault>>

\* ReadCallBack returns from bufferevent_write.
ReadEnd(w) ==
  /\ Running /\ wpc[w] = "write"
  /\ LeaveWrite(wconn[w], wreply[w])
  /\ wpc' = [wpc EXCEPT ![w] = "idle"]
  /\ wconn' = [wconn EXCEPT ![w] = NULL]
  /\ wreply' = [wreply EXCEPT ![w] = NULL]
  /\ UNCHANGED <<network, owner, objects, enabled, raced, map, main>>

\* The event loop sends the output.
Flush(c) ==
  /\ Running /\ Idle(c) /\ "W" \in enabled[c] /\ unsent[c]
  /\ unsent' = [unsent EXCEPT ![c] = FALSE]
  /\ UNCHANGED <<network, owner, objects, enabled, out, raced, map, workers, main, fault>>

\* Mutation of ErrorCallBack: the entries of the ips the node logged in with are
\* erased under the mutex, whoever they are for.
ErrorErasesIp(c, dir) ==
  /\ ~Locked
  /\ enabled' = [enabled EXCEPT ![c] = @ \ {dir}]
  /\ heap' = [heap EXCEPT ![addr[c]] = NULL]
  /\ fault' = IF heap[addr[c]] = NULL THEN "double_free" ELSE "none"
  /\ map' = [ip \in Ips |-> IF \E i \in 1 .. handled[c] : sent[c][i].type = "REQ_NODE_LOGIN" /\ sent[c][i].info.ip = ip
                            THEN NULL ELSE map[ip]]
  /\ UNCHANGED <<network, owner, addr, name, pbev, output, raced, workers, main>>

\* ErrorCallBack: delete the object behind the argument.  Neither the registry
\* nor the bufferevent learns of it.  libevent has disabled direction dir, and
\* reports the failure of the other one with the same argument.
ErrorCallBack(c, dir) ==
  /\ enabled' = [enabled EXCEPT ![c] = @ \ {dir}]
  /\ heap' = [heap EXCEPT ![addr[c]] = NULL]
  /\ fault' = IF heap[addr[c]] = NULL THEN "double_free" ELSE "none"
  /\ UNCHANGED <<network, owner, addr, name, pbev, output, raced, map, workers, main>>

\* The read side of the bufferevent meets the end of the stream or a reset.
ReadFails(c) ==
  /\ Running /\ Idle(c) /\ "R" \in enabled[c] /\ peer[c] = "gone"
  /\ ErrorCallBack(c, "R")

\* The write side meets a connection that is gone.
WriteFails(c) ==
  /\ Running /\ Idle(c) /\ "W" \in enabled[c] /\ peer[c] = "gone" /\ unsent[c]
  /\ ErrorCallBack(c, "W")

-----------------------------------------------------------------------------
(* The specification *)

Init ==
  /\ peer = [c \in Conns |-> "absent"]
  /\ owner = [c \in Conns |-> NULL]
  /\ addr = [c \in Conns |-> NULL]
  /\ heap = [a \in Addrs |-> NULL]
  /\ name = [a \in Addrs |-> NULL]
  /\ pbev = [a \in Addrs |-> NULL]
  /\ enabled = [c \in Conns |-> {}]
  /\ sent = [c \in Conns |-> <<>>]
  /\ handled = [c \in Conns |-> 0]
  /\ out = [c \in Conns |-> <<>>]
  /\ unsent = [c \in Conns |-> FALSE]
  /\ raced = [c \in Conns |-> FALSE]
  /\ map = [ip \in Ips |-> NULL]
  /\ wpc = [w \in Workers |-> "idle"]
  /\ wconn = [w \in Workers |-> NULL]
  /\ wreply = [w \in Workers |-> NULL]
  /\ mpc = "idle"
  /\ mconn = NULL
  /\ todo = {}
  /\ seen = {}
  /\ renamed = FALSE
  /\ listing = {}
  /\ https = 0
  /\ fault = "none"

NodeStep(c) == Leave(c) \/ \E req \in MessagesOf(c) : Send(c, req)

HttpStart == ListBegin \/ StopFails \/ \E ip \in Ips : StopUnknown(ip) \/ StopBegin(ip)

\* The main thread within an HTTP handler.
MainStep == ListEnd \/ StopEnd \/ \E ip \in Ips : ListVisit(ip)

WorkerStep(w) ==
  \/ SetNodeName(w) \/ AddNode(w) \/ ReadEnd(w)
  \/ \E c \in Conns :
       /\ owner[c] = w
       /\ \/ HandlerConnect(c) \/ ReadForeign(c) \/ ReadLogin(c) \/ ReadOther(c)
          \/ Flush(c) \/ ReadFails(c) \/ WriteFails(c)

Next ==
  \/ \E c \in Conns : NodeStep(c) \/ HandlerFails(c)
  \/ \E c \in Conns, a \in Addrs, w \in Workers : Accept(c, a, w)
  \/ HttpStart \/ MainStep
  \/ \E w \in Workers : WorkerStep(w)

Spec == Init /\ [][Next]_vars

\* The event loops of the main thread and of the workers run.  The mutex is not
\* fair, but at most MaxHttp requests compete with AddNode for it.
Fairness == WF_vars(MainStep) /\ \A w \in Workers : WF_vars(WorkerStep(w))

FairSpec == Spec /\ Fairness

-----------------------------------------------------------------------------
(* Properties *)

\* The answers written to c, without the requests to close it.
AnswersOf(c) == Those(out[c], Answers \ {"REQ_CLOSE_NODE"})

\* The answers to a sequence of requests: one to each protobuf message.
Replies(reqs) ==
  LET pb == Those(reqs, {req \in Messages : req.type # "NOT_PB"})
  IN  [i \in DOMAIN pb |-> AnswerTo[pb[i].type]]

\* The answers ReadCallBack owes to the first n requests of c.
Owed(c, n) == Replies(SubSeq(sent[c], 1, n))

\* The NodeConnect object made for c has not been deleted.
Alive(c) == addr[c] # NULL /\ heap[addr[c]] = c

\* The logins ReadCallBack has read from c, by their place among its requests.
LoginsOf(c) == {i \in 1 .. handled[c] : sent[c][i].type = "REQ_NODE_LOGIN"}

\* Those of them it has answered.
Answered(c) ==
  IF owner[c] # NULL /\ wconn[owner[c]] = c THEN LoginsOf(c) \ {handled[c]} ELSE LoginsOf(c)

\* A login that speaks of the ip has been read from c.
LoggedIn(c, ip) == \E i \in LoginsOf(c) : sent[c][i].info.ip = ip

\* The node of c has sent a login in which the text is the ip or the name.
Spoke(c, text) ==
  \E i \in 1 .. Len(sent[c]) :
    sent[c][i].type = "REQ_NODE_LOGIN" /\ text \in {sent[c][i].info.ip, sent[c][i].info.name}

\* A node receives one answer for each protobuf request it sent, in the order of
\* the requests (ReadCallBack answers before it returns to the event loop), with
\* requests to close it in between, unless two threads were in its bufferevent.
AnswersInOrder ==
  \A c \in Conns :
    ~raced[c] /\ Running =>
      AnswersOf(c) \o (IF owner[c] # NULL /\ wconn[owner[c]] = c THEN <<wreply[owner[c]]>> ELSE <<>>)
        = Owed(c, handled[c])

\* What brings the process down, apart from a body posted to StopNode ("overrun",
\* "exception").  A deleted object, or one without a bufferevent, is met only after
\* a node has gone: as long as the nodes stay, whatever the registry (DelNode,
\* GetAllNode) and the callbacks lead to is alive.  Two threads meet only in a
\* bufferevent StopNode writes to, or in the name of a listed node that logs in
\* under another one while GetAllNode copies it.  A listing is printed as it is
\* unless some node gave a text that acts as a format.
CrashExplained ==
  LET gone == \E c \in Conns : peer[c] = "gone"
  IN  /\ fault \in {"use_after_free", "double_free", "null_bufferevent"} => gone
      /\ fault = "race" => gone \/ renamed \/ \E c \in Conns : raced[c]
      /\ fault = "format" => \E c \in Conns, text \in Formats : Spoke(c, text)

\* A node that is connected is in the registry under each ip with which a login of it
\* has been answered, or another node that logged in with the ip is, whatever happens
\* to older connections of it (AddNode replaces the entry, ErrorCallBack leaves it).
ConnectedStaysListed ==
  \A c \in Conns : peer[c] = "up" =>
    \A i \in Answered(c) : \E d \in Conns :
      /\ LoggedIn(d, sent[c][i].info.ip)
      /\ addr[d] # NULL /\ map[sent[c][i].info.ip] = addr[d]

\* What the directory sees of the server.
Dir  == [ip \in {i \in Ips : map[i] # NULL} |-> [node |-> heap[map[ip]], name |-> name[map[ip]]]]
Told == {c \in Conns : "REQ_CLOSE_NODE" \in Range(out[c])}

D == INSTANCE NodeDirectory WITH dir <- Dir, told <- Told

\* As long as no node goes, the server implements the directory: the last login of
\* an ip is listed under it, with the last name its node logged in under, StopNode
\* reaches the listed node, and a listing is the registry at one moment although it
\* is read entry by entry, unless a listed node was being given another name meanwhile.
ImplementsDirectory ==
  /\ D!Init
  /\ [][\/ D!Next
        \/ renamed /\ UNCHANGED <<Dir, Told>>
        \/ \E c \in Conns : peer[c] = "gone"]_<<Dir, listing, Told>>

\* Every request of a node that stays connected is answered in the end, although
\* AddNode may have to wait for the mutex.  HandlerConnect may fail, a race may
\* corrupt the bufferevent.
EveryRequestAnswered ==
  \A c \in Conns \ Leavers : \A n \in 1 .. MaxRequests :
    Len(sent[c]) >= n ~>
      \/ Len(sent[c]) >= n /\ Len(AnswersOf(c)) >= Len(Owed(c, n))
      \/ ~Alive(c) \/ raced[c] \/ ~Running

\* "Get the information of all current nodes" (http interface document): the
\* nodes GetAllNode is about to visit are connected as far as the server knows.
ListsCurrentNodes ==
  [][mpc = "idle" /\ mpc' = "listing" =>
       \A ip \in todo' : \E c \in Conns : LoggedIn(c, ip) /\ Alive(c)]_vars
=============================================================================
