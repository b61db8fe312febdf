---------------------------- MODULE MessageStream ----------------------------
(***************************************************************************)
(* The byte streams between one node and the server.  Every message is     *)
(* written as a buffer of 1024 bytes (nodeConnect.cpp:47 and :136,         *)
(* ClientConnect.cpp:166 and :196).  The read callbacks run once for each  *)
(* arrival of bytes, take at most 1024 bytes of what is there, and decode  *)
(* a message from their first byte, wherever in the stream that is.  What  *)
(* they leave waits for the next arrival.                                  *)
(*                                                                         *)
(* The network is calm while arrivals end where messages end and take less *)
(* than 5 s; before that, they may end within a message and take any time. *)
(* A node that hears nothing for 15 s connects again.  It is followed on   *)
(* its newest connection only: late answers on older ones are the subject  *)
(* of HeartbeatClient.                                                     *)
(***************************************************************************)
EXTENDS Integers, Sequences, FiniteSets, Functions

CONSTANTS
  Cuts,         \* offsets in a message at which the network may cut
  MaxFlight,    \* bound: messages written and not yet delivered, each way
  MaxBacklog    \* bound: messages delivered and not yet read, each way

\* sizeof(databuff): the bytes of a message, and the most that a callback reads.
MessageSize == 1024

\* Mutation of BufferSize: a buffer for the head and a small body.
SmallBuffer == 40

BufferSize == 1024

\* Where in a message the fields that are looked at end: the format, the length
\* and the id, the body of a login (24 bytes of head, 42 of body).
TypeEnd  == 4
IdEnd    == 8
LoginEnd == 66

\* Timer events without an answer after which 15 s may have passed.
MissedLimit == 3

ASSUME StreamAssumption ==
  /\ Cuts \subseteq 1 .. MessageSize - 1
  /\ MaxFlight \in Nat \ {0} /\ MaxBacklog \in Nat

VARIABLES
  up,          \* the stream from the node to the server
  down,        \* the stream from the server to the node
  calm,        \* the network no longer cuts or holds up messages
  cut,         \* it has cut one on its way up on this connection
  login,       \* what the server made of the last login: "none", "whole" or "shorn"
  timers,      \* heartbeat timers of the node: 0, 1, or 2 for several
  fired,       \* timer events in the current interval of 5 s
  silent,      \* intervals since the node last heard of the server
  got          \* the message the node last acted on since its last heartbeat

vars == <<up, down, calm, cut, login, timers, fired, silent, got>>

-----------------------------------------------------------------------------
(* Streams of messages *)

Requests == {"REQ_NODE_LOGIN", "REQ_HEART_BEAT"}
Answers  == {"RESP_NODE_LOGIN", "RESP_HEART_BEAT", "ZEROS", "REQ_CLOSE_NODE"}

\* A stream: the messages that are not read to their end, how much of the first
\* one is read, and the bytes that wait in the input of the bufferevent.
Empty == [msgs |-> <<>>, at |-> 0, here |-> 0]

Streams(kinds) == [msgs : Seq(kinds), at : 0 .. MessageSize - 1, here : Nat]

\* The bytes that are on their way.
Behind(s) == MessageSize * Len(s.msgs) - s.at - s.here

\* bufferevent_write of a whole buffer.
Write(s, m) == [s EXCEPT !.msgs = Append(@, m)]

\* The sizes an arrival may have: it ends between two messages or at a cut.
Arrivals(s) ==
  LET ends == {MessageSize * k + o : k \in 0 .. Len(s.msgs), o \in {0} \cup (IF calm THEN {} ELSE Cuts)}
  IN  {e - s.at - s.here : e \in ends} \cap 1 .. Behind(s)

\* bufferevent_read when n bytes have arrived: how many it takes.
Taken(s, n) == IF s.here + n < BufferSize THEN s.here + n ELSE BufferSize

\* The stream after that.
After(s, n) ==
  LET end == s.at + Taken(s, n)
  IN  [msgs |-> SubSeq(s.msgs, 1 + end \div MessageSize, Len(s.msgs)),
       at   |-> end % MessageSize,
       here |-> s.here + n - Taken(s, n)]

\* The bound on what may wait.
Fits(s, n) == After(s, n).here <= MessageSize * MaxBacklog

\* Where a read may start within a message and find, three bytes on, the 1 of
\* PB_PROTOCAL_TYPE: at the start, and before a 1 that begins the priority 456
\* of a login or the reserved field 456 of what the server sends.
PbStarts(m) ==
  (IF m # "ZEROS" THEN {0} ELSE {})
    \cup (IF m = "REQ_NODE_LOGIN" THEN {13} ELSE {})
    \cup (IF m \in {"RESP_NODE_LOGIN", "RESP_HEART_BEAT", "REQ_CLOSE_NODE"} THEN {17} ELSE {})

\* Mutation of Decode: the buffer is not zeroed, a short read finds what the read
\* before it left there.
DecodeStale(s, n) ==
  IF s.at \notin PbStarts(Head(s.msgs)) \/ Taken(s, n) < TypeEnd THEN "NOT_PB"
  ELSE IF s.at # 0 THEN "UNKNOWN"
  ELSE IF Taken(s, n) >= IdEnd THEN Head(s.msgs)
  ELSE IF s = up THEN "REQ_HEART_BEAT" ELSE "RESP_HEART_BEAT"

\* What the callbacks decode: the format must be protobuf, the id may be cut off
\* or be that of no message; bytes that are not read are zero.
Decode(s, n) ==
  IF s.at \notin PbStarts(Head(s.msgs)) \/ Taken(s, n) < TypeEnd THEN "NOT_PB"
  ELSE IF s.at = 0 /\ Taken(s, n) >= IdEnd THEN Head(s.msgs) ELSE "UNKNOWN"

-----------------------------------------------------------------------------
(* The server *)

\* What ReadCallBack answers; zeros when it does not know the id.
AnswerTo == [REQ_NODE_LOGIN |-> "RESP_NODE_LOGIN",
             REQ_HEART_BEAT |-> "RESP_HEART_BEAT",
             UNKNOWN        |-> "ZEROS"]

\* ReadCallBack, for an arrival of n bytes.
ServerRead(n) ==
  LET id == Decode(up, n) IN
  /\ n \in Arrivals(up) /\ Fits(up, n)
  /\ Behind(down) < MessageSize * MaxFlight
  /\ up' = After(up, n)
  /\ cut' = (cut \/ (up.at + up.here + n) % MessageSize # 0)
  /\ down' = IF id = "NOT_PB" THEN down ELSE Write(down, AnswerTo[id])
  /\ login' = IF id # "REQ_NODE_LOGIN" THEN login
              ELSE IF Taken(up, n) >= LoginEnd THEN "whole" ELSE "shorn"
  /\ UNCHANGED <<calm, timers, fired, silent, got>>

\* StopNode, SendReqCloseNode: once on a connection.
SendReqCloseNode ==
  /\ login # "none" /\ "REQ_CLOSE_NODE" \notin Range(down.msgs) /\ got # "REQ_CLOSE_NODE"
  /\ Behind(down) <= MessageSize * MaxFlight
  /\ down' = Write(down, "REQ_CLOSE_NODE")
  /\ UNCHANGED <<up, calm, cut, login, timers, fired, silent, got>>

-----------------------------------------------------------------------------
(* The node *)

\* exit(0) on REQ_CLOSE_NODE.
Ended == got = "REQ_CLOSE_NODE"

\* ReadCB, for an arrival of n bytes.
ClientRead(n) ==
  LET id == Decode(down, n) IN
  /\ ~Ended
  /\ n \in Arrivals(down) /\ Fits(down, n)
  /\ down' = After(down, n)
  /\ got' = IF id \in {"NOT_PB", "UNKNOWN"} THEN got ELSE id
  /\ silent' = IF id \in {"RESP_NODE_LOGIN", "RESP_HEART_BEAT"} THEN 0 ELSE silent
  /\ timers' = IF id = "RESP_NODE_LOGIN" /\ timers < 2 THEN timers + 1 ELSE timers
  /\ UNCHANGED <<up, calm, cut, login, fired>>

\* 5 s pass: each timer that runs comes due once.
Interval ==
  /\ ~Ended /\ timers > 0 /\ fired > 0
  /\ calm => Behind(up) = 0 /\ Behind(down) = 0
  /\ fired' = 0
  /\ silent' = IF silent <= MissedLimit THEN silent + 1 ELSE silent
  /\ UNCHANGED <<up, down, calm, cut, login, timers, got>>

Due == ~Ended /\ timers > 0 /\ fired < timers

\* HeartTimeoutCB within 15 s of the last answer: a heartbeat.
ReqHeatBeat ==
  /\ Due /\ silent <= MissedLimit
  /\ Behind(up) < MessageSize * MaxFlight
  /\ up' = Write(up, "REQ_HEART_BEAT")
  /\ fired' = fired + 1
  /\ got' = "nothing"
  /\ UNCHANGED <<down, calm, cut, login, timers, silent>>

\* Mutation of Reconnect: the connection is kept.
ReconnectInPlace ==
  /\ Due /\ silent >= MissedLimit
  /\ Behind(up) < MessageSize * MaxFlight
  /\ up' = Write(Write(up, "REQ_NODE_LOGIN"), "REQ_HEART_BEAT")
  /\ fired' = fired + 1
  /\ silent' = 0
  /\ got' = "nothing"
  /\ UNCHANGED <<down, calm, cut, login, timers>>

\* HeartTimeoutCB after more than 15 s: ConnectToSerd, UpdateHeartTime, ReqLogin
\* and the heartbeat, on a connection whose streams are empty.
Reconnect ==
  /\ Due /\ silent >= MissedLimit
  /\ up' = Write(Write(Empty, "REQ_NODE_LOGIN"), "REQ_HEART_BEAT")
  /\ down' = Empty
  /\ cut' = FALSE
  /\ fired' = fired + 1
  /\ silent' = 0
  /\ got' = "nothing"
  /\ login' = "none"
  /\ UNCHANGED <<calm, timers>>

\* The network becomes calm.
Settle == ~calm /\ calm' = TRUE /\ UNCHANGED <<up, down, cut, login, timers, fired, silent, got>>

-----------------------------------------------------------------------------
(* The specification *)

\* The node has connected and sent the login that the terminal asked for.
Init ==
  /\ up = Write(Empty, "REQ_NODE_LOGIN")
  /\ down = Empty
  /\ calm \in BOOLEAN
  /\ cut = FALSE
  /\ login = "none"
  /\ timers = 0
  /\ fired = 0
  /\ silent = 0
  /\ got = "nothing"

ServerStep == \E n \in Arrivals(up) : ServerRead(n)
ClientStep == \E n \in Arrivals(down) : ClientRead(n)
HeartTimeoutCB == ReqHeatBeat \/ Reconnect

Next == ServerStep \/ SendReqCloseNode \/ ClientStep \/ Interval \/ HeartTimeoutCB \/ Settle

Spec == Init /\ [][Next]_vars

\* Bytes arrive, time passes and the timers fire.
Fairness ==
  WF_vars(ServerStep) /\ WF_vars(ClientStep) /\ WF_vars(Interval) /\ WF_vars(HeartTimeoutCB)

FairSpec == Spec /\ Fairness

-----------------------------------------------------------------------------
(* Properties *)

\* Every variable keeps its type.
TypeOK ==
  /\ up \in Streams(Requests) /\ down \in Streams(Answers)
  /\ calm \in BOOLEAN /\ cut \in BOOLEAN
  /\ login \in {"none", "whole", "shorn"}
  /\ timers \in 0 .. 2 /\ fired \in 0 .. 2 /\ silent \in 0 .. MissedLimit + 1
  /\ got \in Answers \cup {"nothing"}

\* The messages whose first byte is still to be read.
Unread(s) == IF s.at > 0 THEN Tail(s.msgs) ELSE s.msgs

\* A stream that may be misread: the network cuts, or a read starts off a message.
Torn(s) == ~calm \/ s.at > 0

\* The conversation over the streams: no message is acted on twice or out of
\* order, none is made up by a read that starts in the middle of one, and none is
\* lost once arrivals are whole and reads start where messages do.
X == INSTANCE Exchange WITH
       reqs    <- Unread(up),
       answers <- Unread(down),
       torn    <- (IF Torn(up) THEN {"up"} ELSE {}) \cup (IF Torn(down) THEN {"down"} ELSE {})

ImplementsExchange == X!Spec

\* The server only ever takes part of a login for the whole (and lists a node
\* under what it could read of its ip) on a connection that cut a message.
ShornNeedsCut == login = "shorn" => cut

\* Once the network is calm, a node that sends heartbeats hears of the server
\* again and again: streams that have come out of step are given up in time.
HeardAgain == calm /\ timers > 0 ~> got # "nothing" \/ Ended

\* A request to close, written while a node that sends heartbeats reads in step
\* on a calm network, ends the node, or the node has given the connection up.  It
\* may have to wait in the node's input for the answer to the next heartbeat.
StopArrives ==
  calm /\ timers > 0 /\ down.at = 0 /\ "REQ_CLOSE_NODE" \in Range(down.msgs)
    ~> Ended \/ "REQ_CLOSE_NODE" \notin Range(down.msgs)
=============================================================================
