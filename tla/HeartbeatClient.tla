--------------------------- MODULE HeartbeatClient ---------------------------
(***************************************************************************)
(* The client of a node: ClientConnect (client/ClientConnect.cpp) and the  *)
(* login that libeventClient.cpp takes from the terminal, against a server *)
(* that may crash, hang and come back.                                     *)
(*                                                                         *)
(* Time passes in ticks of 5 s, the period of the heartbeat timers.  The   *)
(* two readings of the clock matter only by their unsigned difference, in  *)
(* ticks: age.  A clock set back makes the difference huge.                *)
(*                                                                         *)
(* The client runs one event loop, so a callback is one step.  Every       *)
(* connection it makes keeps its bufferevent and its descriptor for good,  *)
(* the ones that are over too.                                             *)
(***************************************************************************)
EXTENDS Naturals, FiniteSets

CONSTANTS
  Conns,        \* the descriptors the process may have, one for each connection
  First,        \* the one ConnectToSerd makes at the start
  MaxFaults,    \* bound: crashes, hangs, failures to connect and settings of the clock
  MaxSteps,     \* bound: how often the wall clock is set
  MaxAway,      \* bound: ticks that the server is hung or down
  Cost,         \* how many connections a fault or a setting of the clock may cost
  NULL

ASSUME ClientAssumption ==
  /\ First \in Conns /\ NULL \notin Conns
  /\ MaxFaults \in Nat /\ MaxSteps \in Nat /\ MaxAway \in Nat /\ Cost \in Nat

HEART_BEAT_TIME_PASS_INTERVAL == 3    \* 15 s
Long == HEART_BEAT_TIME_PASS_INTERVAL + 1

VARIABLES
  bev,        \* m_pBev, NULL if no connection could be made
  connected,  \* m_bConnected
  age,        \* the current time less m_timeLastHeart, at most Long
  timers,     \* heartbeat timers: all of them stay
  due,        \* timers that have still to fire in this tick
  terminal,   \* the terminal event is still armed
  exited,     \* the process has ended
  status,     \* status[i]: "unused", "connecting", "up", "closed" (not heard of yet), "over"
  pending,    \* pending[i]: requests written to i and not answered
  login,      \* login[i]: the server has i as a logged-in connection
  server,     \* "up", "hung" or "down"
  away,       \* ticks the server has been hung or down
  faults,     \* faults so far
  steps       \* how often the clock has been set

client == <<bev, connected, age, timers, due, terminal, exited>>
conns  == <<status, pending, login>>
world  == <<server, away, faults, steps>>
vars   == <<bev, connected, age, timers, due, terminal, exited,
            status, pending, login, server, away, faults, steps>>

Messages == {"REQ_NODE_LOGIN", "REQ_HEART_BEAT"}

Unused == {i \in Conns : status[i] = "unused"}

-----------------------------------------------------------------------------
(* Callbacks of the connections *)

\* ErrorCB: m_bConnected follows the last event, of whichever connection.
\* BEV_EVENT_CONNECTED.
ErrorCBConnected(i) ==
  /\ ~exited /\ status[i] = "connecting"
  /\ status' = [status EXCEPT ![i] = "up"]
  /\ connected' = TRUE
  /\ UNCHANGED <<bev, age, timers, due, terminal, exited, pending, login, world>>

\* BEV_EVENT_EOF or BEV_EVENT_ERROR: the connection was refused, closed or reset.
ErrorCBClosed(i) ==
  /\ ~exited /\ status[i] = "closed"
  /\ status' = [status EXCEPT ![i] = "over"]
  /\ pending' = [pending EXCEPT ![i] = {}]
  /\ connected' = FALSE
  /\ UNCHANGED <<bev, age, timers, due, terminal, exited, login, world>>

Answering(i, m) == ~exited /\ server = "up" /\ status[i] = "up" /\ m \in pending[i]

\* The server logs the node in; ReadCB on RESP_NODE_LOGIN: UpdateHeartTime, and
\* one more timer.
ReadLoginAnswer(i) ==
  /\ Answering(i, "REQ_NODE_LOGIN")
  /\ pending' = [pending EXCEPT ![i] = @ \ {"REQ_NODE_LOGIN"}]
  /\ login' = [login EXCEPT ![i] = TRUE]
  /\ age' = 0
  /\ timers' = timers + 1
  /\ UNCHANGED <<bev, connected, due, terminal, exited, status, world>>

\* Mutation of ReadHeartAnswer: the time of the answer is not noted.
ReadHeartAnswerUnnoted(i) ==
  /\ Answering(i, "REQ_HEART_BEAT") /\ "REQ_NODE_LOGIN" \notin pending[i]
  /\ pending' = [pending EXCEPT ![i] = @ \ {"REQ_HEART_BEAT"}]
  /\ UNCHANGED <<bev, connected, age, timers, due, terminal, exited, status, login, world>>

\* ReadCB on RESP_HEART_BEAT: UpdateHeartTime.  On one connection the answer to
\* the login comes first.
ReadHeartAnswer(i) ==
  /\ Answering(i, "REQ_HEART_BEAT") /\ "REQ_NODE_LOGIN" \notin pending[i]
  /\ pending' = [pending EXCEPT ![i] = @ \ {"REQ_HEART_BEAT"}]
  /\ age' = 0
  /\ UNCHANGED <<bev, connected, timers, due, terminal, exited, status, login, world>>

\* ReadCB on REQ_CLOSE_NODE: exit(0).
ReadCloseNode(i) ==
  /\ ~exited /\ server = "up" /\ status[i] = "up" /\ login[i]
  /\ exited' = TRUE
  /\ UNCHANGED <<bev, connected, age, timers, due, terminal, conns, world>>

-----------------------------------------------------------------------------
(* The timers and the terminal *)

\* bufferevent_write of messages ms on the connection m_pBev; on one that is over
\* they stay in the buffer.
WriteTo(i, ms) ==
  IF i # NULL /\ status[i] # "over"
    THEN pending' = [pending EXCEPT ![i] = @ \cup ms]
    ELSE UNCHANGED pending

\* More than 15 s have passed, or not.  The clock is read in whole seconds and timers
\* fire some milliseconds late: after three ticks it shows 15 s, or 16 s from one timer
\* of the tick on.
InTime  == age <= HEART_BEAT_TIME_PASS_INTERVAL
Overdue == age >= HEART_BEAT_TIME_PASS_INTERVAL

\* Mutation of HeartBeat: a request that is sent counts as a sign of life.
HeartBeatIsLife ==
  /\ ~exited /\ due > 0 /\ InTime
  /\ due' = due - 1
  /\ age' = 0
  /\ WriteTo(bev, {"REQ_HEART_BEAT"})
  /\ UNCHANGED <<bev, connected, timers, terminal, exited, status, login, world>>

\* HeartTimeoutCB while answers keep coming: ReqHeatBeat.
HeartBeat ==
  /\ ~exited /\ due > 0 /\ InTime
  /\ due' = due - 1
  /\ WriteTo(bev, {"REQ_HEART_BEAT"})
  /\ UNCHANGED <<bev, connected, age, timers, terminal, exited, status, login, world>>

\* The kernel accepts while the process of the server exists, even hung; the
\* client hears of the outcome by ErrorCB only.
Outcome == IF server = "down" THEN "closed" ELSE "connecting"

\* ConnectToSerd: a new bufferevent with a new socket takes the place of m_pBev, which
\* is not freed, and begins to connect.
ConnectToSerd(i) ==
  /\ Unused # {} /\ i = CHOOSE j \in Unused : TRUE
  /\ bev' = i
  /\ status' = [status EXCEPT ![i] = Outcome]
  /\ login' = [login EXCEPT ![i] = FALSE]

\* Mutation of Reconnect: the test of IsConnected is the wrong way round.
ReconnectIfNotConnected(i) ==
  /\ ~exited /\ due > 0 /\ Overdue
  /\ due' = due - 1
  /\ ConnectToSerd(i)
  /\ IF connected
       THEN age' = Long /\ pending' = [pending EXCEPT ![i] = {}]
       ELSE age' = 0 /\ pending' = [pending EXCEPT ![i] = Messages]
  /\ UNCHANGED <<connected, timers, terminal, exited, world>>

\* Mutation of Reconnect: a heartbeat, but no login, on the new connection.
ReconnectWithoutLogin(i) ==
  /\ ~exited /\ due > 0 /\ Overdue
  /\ due' = due - 1
  /\ ConnectToSerd(i)
  /\ IF connected
       THEN age' = 0 /\ pending' = [pending EXCEPT ![i] = {"REQ_HEART_BEAT"}]
       ELSE age' = Long /\ pending' = [pending EXCEPT ![i] = {}]
  /\ UNCHANGED <<connected, timers, terminal, exited, world>>

\* HeartTimeoutCB after 15 s without an answer.  ConnectToSerd has only begun to
\* connect: IsConnected speaks of what happened to the connections before.
Reconnect(i) ==
  /\ ~exited /\ due > 0 /\ Overdue
  /\ due' = due - 1
  /\ ConnectToSerd(i)
  /\ IF connected
       THEN age' = 0 /\ pending' = [pending EXCEPT ![i] = Messages]
       ELSE age' = Long /\ pending' = [pending EXCEPT ![i] = {}]
  /\ UNCHANGED <<connected, timers, terminal, exited, world>>

\* HeartTimeoutCB when the new bufferevent cannot even begin to connect, for once or
\* because no descriptor is left: m_pBev is replaced all the same.
ReconnectFails ==
  /\ ~exited /\ due > 0 /\ Overdue
  /\ Unused = {} \/ faults + steps < MaxFaults
  /\ due' = due - 1
  /\ bev' = NULL
  /\ faults' = IF Unused = {} THEN faults ELSE faults + 1
  /\ age' = Long
  /\ UNCHANGED <<connected, timers, terminal, exited, conns, server, away, steps>>

\* ReadTerminal: the event is not persistent, so this happens once.
ReadTerminal ==
  /\ ~exited /\ terminal
  /\ terminal' = FALSE
  /\ WriteTo(bev, {"REQ_NODE_LOGIN"})
  /\ UNCHANGED <<bev, connected, age, timers, due, exited, status, login, world>>

-----------------------------------------------------------------------------
(* Time, the server and the network *)

\* The server is on the same machine (127.0.0.1): within a tick its kernel accepts
\* or refuses and reports what is closed, and a server that runs answers.
Settled ==
  /\ \A i \in Conns : status[i] \in {"unused", "up", "over"}
  /\ server = "up" => \A i \in Conns : status[i] = "up" => pending[i] = {}

\* 5 s pass.
Tick ==
  /\ ~exited /\ due = 0
  /\ Settled
  /\ server # "up" => away < MaxAway
  /\ age' = IF age < Long THEN age + 1 ELSE Long
  /\ due' = timers
  /\ away' = IF server = "up" THEN away ELSE away + 1
  /\ UNCHANGED <<bev, connected, timers, terminal, exited, conns, server, faults, steps>>

Fault == faults + steps < MaxFaults /\ faults' = faults + 1

\* The server ends, and all connections with it.
Crash ==
  /\ Fault /\ server # "down"
  /\ server' = "down"
  /\ status' = [i \in Conns |-> IF status[i] \in {"unused", "over"} THEN status[i] ELSE "closed"]
  /\ pending' = [i \in Conns |-> {}]
  /\ login' = [i \in Conns |-> FALSE]
  /\ away' = 0
  /\ UNCHANGED <<client, steps>>

Restart ==
  /\ server = "down"
  /\ server' = "up"
  /\ away' = 0
  /\ UNCHANGED <<client, conns, faults, steps>>

\* The server does not run for a while, its connections stay.
Hang ==
  /\ Fault /\ server = "up"
  /\ server' = "hung"
  /\ UNCHANGED <<client, conns, away, steps>>

Resume ==
  /\ server = "hung"
  /\ server' = "up"
  /\ away' = 0
  /\ UNCHANGED <<client, conns, faults, steps>>

\* The wall clock is set: back past the last answer, or to some other time.
ClockStep ==
  /\ steps < MaxSteps /\ faults + steps < MaxFaults
  /\ steps' = steps + 1
  /\ \E a \in 0 .. Long : age' = a
  /\ UNCHANGED <<bev, connected, timers, due, terminal, exited, conns, server, away, faults>>

-----------------------------------------------------------------------------
(* The specification *)

Init ==
  /\ server \in {"up", "down"}
  /\ bev = First
  /\ connected = FALSE
  /\ age = Long
  /\ timers = 0
  /\ due = 0
  /\ terminal = TRUE
  /\ exited = FALSE
  /\ status = [i \in Conns |-> IF i = First THEN Outcome ELSE "unused"]
  /\ pending = [i \in Conns |-> {}]
  /\ login = [i \in Conns |-> FALSE]
  /\ away = 0
  /\ faults = 0
  /\ steps = 0

ConnStep(i) ==
  \/ ErrorCBConnected(i) \/ ErrorCBClosed(i)
  \/ ReadLoginAnswer(i) \/ ReadHeartAnswer(i)

HeartTimeoutCB == HeartBeat \/ ReconnectFails \/ \E i \in Conns : Reconnect(i)

Next ==
  \/ HeartTimeoutCB \/ ReadTerminal \/ Tick
  \/ \E i \in Conns : ConnStep(i) \/ ReadCloseNode(i)
  \/ Crash \/ Restart \/ Hang \/ Resume \/ ClockStep

Spec == Init /\ [][Next]_vars

\* The event loop runs, time passes, and a server that is down or hung is brought
\* back by its operator.
Fairness ==
  /\ WF_vars(HeartTimeoutCB) /\ WF_vars(Tick)
  /\ WF_vars(\E i \in Conns : ConnStep(i))
  /\ WF_vars(Restart) /\ WF_vars(Resume)

FairSpec == Spec /\ Fairness

-----------------------------------------------------------------------------
(* Properties *)

TypeOK ==
  /\ bev \in Conns \cup {NULL} /\ connected \in BOOLEAN /\ age \in 0 .. Long
  /\ timers \in Nat /\ due \in 0 .. timers
  /\ terminal \in BOOLEAN /\ exited \in BOOLEAN
  /\ status \in [Conns -> {"unused", "connecting", "up", "closed", "over"}]
  /\ pending \in [Conns -> SUBSET Messages]
  /\ login \in [Conns -> BOOLEAN]
  /\ server \in {"up", "hung", "down"}
  /\ away \in 0 .. MaxAway /\ faults \in 0 .. MaxFaults /\ steps \in 0 .. MaxSteps

\* Where heartbeats go: a connection that is up.
Connected == bev # NULL /\ status[bev] = "up"

\* The server has run all the time, but for a hang of less than 10 s that is not over
\* yet, and nobody has set the clock.
Calm ==
  /\ steps = 0
  /\ \/ faults = 0
     \/ faults = 1 /\ server = "hung" /\ away + 1 < HEART_BEAT_TIME_PASS_INTERVAL

\* No needless reconnection: as long as all is calm, a client that is logged in keeps
\* the connection it has, whose server it hears of in each tick in which the server
\* runs (HeartTimeoutCB, HEART_BEAT_TIME_PASS_INTERVAL, UpdateHeartTime).
KeepsConnection == Calm /\ timers > 0 => bev = First /\ Connected /\ age <= away + 1

\* A client that has been logged in once always gets back to a connection that is up,
\* whatever happened to the server and to the clock, as long as it has a descriptor left
\* for one: neither a stale m_bConnected, nor a late answer, nor two timers that replace
\* each other's connection keep it on a dead one for ever (HeartTimeoutCB, UpdateHeartTime).
StaysConnected == timers > 0 ~> Connected \/ exited \/ Unused = {}

\* The node comes back to the server's list: it is logged in again over one of its
\* connections, if nobody has set the clock (HeartTimeoutCB, ReqLogin).
StaysListed ==
  timers > 0 ~> \/ \E i \in Conns : status[i] = "up" /\ login[i]
                \/ exited \/ steps > 0 \/ Unused = {}

\* ConnectToSerd frees no bufferevent it replaces, so that outages cost descriptors; but
\* only they do, and each no more than Cost: where the server comes back in time,
\* reconnections end, and do not use up what is left by replacing each other's connection
\* (HeartTimeoutCB, ConnectToSerd).
DescriptorsLast == Cardinality(Conns \ Unused) <= 1 + Cost * (faults + steps)

\* "Log in again after a reconnection" (ClientConnect.cpp:122): such a client is
\* also logged in again, over the connection it uses.
LogsInAgain == timers > 0 ~> (Connected /\ login[bev]) \/ exited \/ Unused = {}
=============================================================================
