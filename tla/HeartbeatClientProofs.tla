------------------------ MODULE HeartbeatClientProofs ------------------------
(***************************************************************************)
(* Theorems about HeartbeatClient, for any connections, faults, settings   *)
(* of the clock and length of an outage.                                   *)
(***************************************************************************)
EXTENDS HeartbeatClient, TLAPS

USE DEF HEART_BEAT_TIME_PASS_INTERVAL, Long, Overdue

-----------------------------------------------------------------------------
(* The type invariant *)

\* What WriteTo leaves behind is of the type of pending.
LEMMA WriteFact ==
  ASSUME TypeOK, NEW ms \in SUBSET Messages, WriteTo(bev, ms)
  PROVE  pending' \in [Conns -> SUBSET Messages]
<1>1. CASE bev # NULL /\ status[bev] # "over"
  <2>1. bev \in Conns /\ pending' = [pending EXCEPT ![bev] = @ \cup ms]
    BY <1>1 DEF TypeOK, WriteTo
  <2>2. QED BY <2>1 DEF TypeOK
<1>2. QED BY <1>1 DEF TypeOK, WriteTo

\* The program starts well.
LEMMA TypeInit == Init => TypeOK
<1> SUFFICES ASSUME Init PROVE TypeOK
  OBVIOUS
<1>1. status \in [Conns -> {"unused", "connecting", "up", "closed", "over"}]
  BY DEF Init, Outcome
<1>2. pending \in [Conns -> SUBSET Messages] /\ login \in [Conns -> BOOLEAN]
  BY DEF Init
<1>3. connected \in BOOLEAN /\ terminal \in BOOLEAN /\ exited \in BOOLEAN /\ server \in {"up", "hung", "down"}
  BY DEF Init
<1>4. /\ age \in 0 .. Long /\ timers \in Nat /\ due \in 0 .. timers
      /\ away \in 0 .. MaxAway /\ faults \in 0 .. MaxFaults /\ steps \in 0 .. MaxSteps
  BY ClientAssumption DEF Init
<1>5. QED BY <1>1, <1>2, <1>3, <1>4, ClientAssumption DEF Init, TypeOK

\* The steps of the connections.
LEMMA TypeConn ==
  ASSUME TypeOK, NEW i \in Conns, ConnStep(i) \/ ReadCloseNode(i)
  PROVE  TypeOK'
<1>1. CASE ErrorCBConnected(i)
  BY <1>1 DEF TypeOK, ErrorCBConnected, world
<1>2. CASE ErrorCBClosed(i)
  BY <1>2 DEF TypeOK, ErrorCBClosed, world
<1>3. CASE ReadLoginAnswer(i)
  BY <1>3 DEF TypeOK, ReadLoginAnswer, world
<1>4. CASE ReadHeartAnswer(i)
  BY <1>4 DEF TypeOK, ReadHeartAnswer, world
<1>5. CASE ReadCloseNode(i)
  BY <1>5 DEF TypeOK, ReadCloseNode, conns, world
<1>6. QED BY <1>1, <1>2, <1>3, <1>4, <1>5 DEF ConnStep

\* The steps of the timers and of the terminal.
LEMMA TypeTimers ==
  ASSUME TypeOK, HeartTimeoutCB \/ ReadTerminal
  PROVE  TypeOK'
<1>1. CASE HeartBeat
  <2>1. pending' \in [Conns -> SUBSET Messages]
    BY <1>1, WriteFact DEF HeartBeat, Messages
  <2>2. QED BY <1>1, <2>1 DEF TypeOK, HeartBeat, world
<1>2. CASE ReconnectFails
  BY <1>2, ClientAssumption DEF TypeOK, ReconnectFails, conns
<1>3. ASSUME NEW i \in Conns, Reconnect(i) PROVE TypeOK'
  <2>1. status' \in [Conns -> {"unused", "connecting", "up", "closed", "over"}] /\ login' \in [Conns -> BOOLEAN] /\ bev' \in Conns
    BY <1>3 DEF TypeOK, Reconnect, ConnectToSerd, Outcome
  <2>2. pending' \in [Conns -> SUBSET Messages] /\ age' \in 0 .. Long
    BY <1>3 DEF TypeOK, Reconnect, Messages
  <2>3. QED BY <1>3, <2>1, <2>2 DEF TypeOK, Reconnect, world
<1>4. CASE ReadTerminal
  <2>1. pending' \in [Conns -> SUBSET Messages]
    BY <1>4, WriteFact DEF ReadTerminal, Messages
  <2>2. QED BY <1>4, <2>1 DEF TypeOK, ReadTerminal, world
<1>5. QED BY <1>1, <1>2, <1>3, <1>4 DEF HeartTimeoutCB

\* The steps of time, of the server and of the clock.
LEMMA TypeWorld ==
  ASSUME TypeOK, Tick \/ Crash \/ Restart \/ Hang \/ Resume \/ ClockStep
  PROVE  TypeOK'
<1>1. CASE Tick
  BY <1>1, ClientAssumption DEF TypeOK, Tick, conns
<1>2. CASE Crash
  BY <1>2, ClientAssumption DEF TypeOK, Crash, Fault, client
<1>3. CASE Restart
  BY <1>3, ClientAssumption DEF TypeOK, Restart, client, conns
<1>4. CASE Hang
  BY <1>4, ClientAssumption DEF TypeOK, Hang, Fault, client, conns
<1>5. CASE Resume
  BY <1>5, ClientAssumption DEF TypeOK, Resume, client, conns
<1>6. CASE ClockStep
  BY <1>6, ClientAssumption DEF TypeOK, ClockStep, conns
<1>7. QED BY <1>1, <1>2, <1>3, <1>4, <1>5, <1>6

\* A step of the program keeps the type invariant.
LEMMA TypeStep == TypeOK /\ [Next]_vars => TypeOK'
<1> SUFFICES ASSUME TypeOK, [Next]_vars PROVE TypeOK'
  OBVIOUS
<1>1. CASE UNCHANGED vars
  BY <1>1 DEF TypeOK, vars
<1>2. CASE Next
  BY <1>2, TypeConn, TypeTimers, TypeWorld DEF Next
<1>3. QED BY <1>1, <1>2

\* The timers that have still to fire are timers, what is pending are requests, and the
\* bounds hold, whatever happens to the server and to the clock.
THEOREM TypeCorrect == Spec => []TypeOK
BY TypeInit, TypeStep, PTL DEF Spec

-----------------------------------------------------------------------------
(* No needless reconnection *)

\* The server is away only while it is down or hangs, and it hangs by a fault; there is no
\* other connection than the first, which is not up where the server is down.
OneConnection ==
  /\ bev = First
  /\ \A i \in Conns \ {First} : status[i] = "unused"
  /\ server = "hung" => faults > 0
  /\ server = "up" => away = 0
  /\ status[First] \in {"connecting", "up"} => server # "down"

\* The login goes out once and is answered with the one timer there is.
OneTimer ==
  /\ timers <= 1
  /\ timers = 1 => status[First] = "up"
  /\ terminal => timers = 0 /\ "REQ_NODE_LOGIN" \notin pending[First]
  /\ "REQ_NODE_LOGIN" \in pending[First] => timers = 0

\* The server has answered in this tick or is still to be asked, or has the question,
\* or it hangs since so many ticks.
Heard ==
  timers = 1 =>
    /\ age <= away + 1
    /\ server = "up" /\ age = 1 => due = 1 \/ "REQ_HEART_BEAT" \in pending[First]

Undisturbed == Calm => OneConnection /\ OneTimer /\ Heard

\* What is calm after a step was calm before it.
LEMMA CalmBefore == TypeOK /\ Next /\ Calm' => Calm
<1> SUFFICES ASSUME TypeOK, Next, Calm' PROVE Calm
  OBVIOUS
<1>1. CASE HeartTimeoutCB \/ ReadTerminal
  BY <1>1 DEF TypeOK, Calm, HeartTimeoutCB, HeartBeat, ReconnectFails, Reconnect, ReadTerminal, world
<1>2. ASSUME NEW i \in Conns, ConnStep(i) \/ ReadCloseNode(i) PROVE Calm
  BY <1>2 DEF Calm, ConnStep, ErrorCBConnected, ErrorCBClosed, ReadLoginAnswer, ReadHeartAnswer,
              ReadCloseNode, world
<1>3. CASE Tick
  BY <1>3 DEF TypeOK, Calm, Tick
<1>4. CASE Crash \/ Restart \/ Hang \/ Resume \/ ClockStep
  BY <1>4 DEF TypeOK, Calm, Crash, Restart, Hang, Resume, ClockStep, Fault
<1>5. QED BY <1>1, <1>2, <1>3, <1>4 DEF Next

\* Nothing has happened at the start.
LEMMA UndisturbedInit == Init => Undisturbed
<1> SUFFICES ASSUME Init PROVE OneConnection /\ OneTimer /\ Heard
  BY DEF Undisturbed
<1>1. OneConnection
  BY ClientAssumption DEF Init, OneConnection, Outcome
<1>2. OneTimer
  BY ClientAssumption DEF Init, OneTimer
<1>3. QED BY <1>1, <1>2 DEF Init, Heard

\* The callbacks of connections come from the first one.
LEMMA UndisturbedConn ==
  ASSUME TypeOK, Calm, OneConnection, OneTimer, Heard,
         NEW i \in Conns, ConnStep(i) \/ ReadCloseNode(i)
  PROVE  (OneConnection /\ OneTimer /\ Heard)'
<1>0. i = First /\ First \in Conns
  <2>1. status[i] # "unused"
    BY DEF TypeOK, ConnStep, ErrorCBConnected, ErrorCBClosed, ReadLoginAnswer, ReadHeartAnswer, ReadCloseNode, Answering
  <2>2. QED BY <2>1, ClientAssumption DEF OneConnection
<1>1. CASE ErrorCBConnected(i)
  BY <1>0, <1>1 DEF TypeOK, OneConnection, OneTimer, Heard, ErrorCBConnected, world
<1>2. CASE ErrorCBClosed(i)
  BY <1>0, <1>2 DEF TypeOK, OneConnection, OneTimer, Heard, ErrorCBClosed, world
<1>3. CASE ReadLoginAnswer(i)
  BY <1>0, <1>3 DEF TypeOK, OneConnection, OneTimer, Heard, ReadLoginAnswer, Answering, world
<1>4. CASE ReadHeartAnswer(i)
  BY <1>0, <1>4 DEF TypeOK, OneConnection, OneTimer, Heard, ReadHeartAnswer, Answering, world
<1>5. CASE ReadCloseNode(i)
  BY <1>5 DEF TypeOK, OneConnection, OneTimer, Heard, ReadCloseNode, conns, world
<1>6. QED BY <1>1, <1>2, <1>3, <1>4, <1>5 DEF ConnStep

\* No timer comes too late: each of them asks the server.
LEMMA UndisturbedTimers ==
  ASSUME TypeOK, Calm, OneConnection, OneTimer, Heard, HeartTimeoutCB
  PROVE  (OneConnection /\ OneTimer /\ Heard)'
<1>1. due > 0 => timers = 1 /\ ~Overdue
  BY DEF TypeOK, Calm, OneConnection, OneTimer, Heard
<1>2. HeartBeat
  BY <1>1 DEF TypeOK, HeartTimeoutCB, Reconnect, ReconnectFails
<1>3. First \in Conns /\ First # NULL /\ status[First] = "up" /\ timers = 1
  BY <1>1, <1>2, ClientAssumption DEF HeartBeat, OneTimer
<1>4. pending' = [pending EXCEPT ![First] = @ \cup {"REQ_HEART_BEAT"}]
  BY <1>2, <1>3 DEF HeartBeat, WriteTo, OneConnection
<1>5. OneConnection' /\ OneTimer'
  BY <1>2, <1>3, <1>4 DEF TypeOK, OneConnection, OneTimer, HeartBeat, world
<1>6. Heard'
  BY <1>2, <1>3, <1>4 DEF TypeOK, Heard, HeartBeat, world
<1>7. QED BY <1>5, <1>6

\* The login is asked for once.
LEMMA UndisturbedTerminal ==
  ASSUME TypeOK, Calm, OneConnection, OneTimer, Heard, ReadTerminal
  PROVE  (OneConnection /\ OneTimer /\ Heard)'
<1>1. timers = 0 /\ timers' = 0 /\ ~terminal'
  BY DEF ReadTerminal, OneTimer
<1>2. OneConnection'
  BY DEF ReadTerminal, OneConnection, world
<1>3. Heard'
  BY <1>1 DEF Heard
<1>4. OneTimer'
  BY <1>1 DEF OneTimer
<1>5. QED BY <1>2, <1>3, <1>4

\* When 5 s have passed the server has answered, unless it hangs.
LEMMA UndisturbedTick ==
  ASSUME TypeOK, Calm, OneConnection, OneTimer, Heard, Tick
  PROVE  (OneConnection /\ OneTimer /\ Heard)'
<1>1. OneConnection' /\ OneTimer'
  BY DEF Tick, OneConnection, OneTimer, conns
<1>2. ASSUME timers' = 1 PROVE Heard'
  <2>1. timers = 1 /\ due' = 1 /\ age' <= age + 1 /\ age \in Nat /\ away \in Nat
    BY <1>2 DEF TypeOK, Tick
  <2>2. CASE server = "hung"
    BY <2>1, <2>2 DEF Tick, Heard
  <2>3. CASE server = "up"
    <3>1. pending[First] = {} /\ due = 0 /\ away = 0
      BY <1>2, <2>1, <2>3, ClientAssumption DEF Tick, Settled, OneTimer, OneConnection
    <3>2. age = 0
      BY <2>1, <2>3, <3>1 DEF Heard, TypeOK
    <3>3. QED BY <2>1, <2>3, <3>1, <3>2 DEF Tick, Heard
  <2>4. QED BY <2>1, <2>2, <2>3 DEF TypeOK, OneTimer, OneConnection
<1>3. QED BY <1>1, <1>2 DEF Heard

\* The server goes down, and the clock is set, only where it is no longer calm.
LEMMA UndisturbedWorld ==
  ASSUME TypeOK, Calm, Calm', OneConnection, OneTimer, Heard,
         Crash \/ Restart \/ Hang \/ Resume \/ ClockStep
  PROVE  (OneConnection /\ OneTimer /\ Heard)'
<1>1. ~Crash /\ ~ClockStep /\ ~Resume
  BY DEF TypeOK, Calm, OneConnection, Crash, ClockStep, Resume, Fault
<1>2. CASE Restart
  BY <1>2 DEF TypeOK, OneConnection, OneTimer, Heard, Restart, client, conns
<1>3. CASE Hang
  BY <1>3 DEF TypeOK, OneConnection, OneTimer, Heard, Hang, Fault, client, conns
<1>4. QED BY <1>1, <1>2, <1>3

\* A step keeps what holds while all is calm.
LEMMA UndisturbedStep == TypeOK /\ Undisturbed /\ [Next]_vars => Undisturbed'
<1> SUFFICES ASSUME TypeOK, Undisturbed, [Next]_vars, Calm'
             PROVE  (OneConnection /\ OneTimer /\ Heard)'
  BY DEF Undisturbed
<1>1. CASE UNCHANGED vars
  BY <1>1 DEF vars, Calm, Undisturbed, OneConnection, OneTimer, Heard
<1>2. CASE Next
  <2>1. Calm /\ OneConnection /\ OneTimer /\ Heard
    BY <1>2, CalmBefore DEF Undisturbed
  <2>2. QED BY <1>2, <2>1, UndisturbedConn, UndisturbedTimers, UndisturbedTerminal, UndisturbedTick,
               UndisturbedWorld DEF Next
<1>3. QED BY <1>1, <1>2

\* As long as the server runs, but for a hang of less than 10 s, and the clock is left
\* alone, a client that is logged in keeps its connection and hears from the server.
THEOREM ConnectionKept == Spec => []KeepsConnection
<1>1. Init => TypeOK /\ Undisturbed
  BY TypeInit, UndisturbedInit
<1>2. TypeOK /\ Undisturbed /\ [Next]_vars => (TypeOK /\ Undisturbed)'
  BY TypeStep, UndisturbedStep
<1>3. TypeOK /\ Undisturbed => KeepsConnection
  BY ClientAssumption DEF TypeOK, Undisturbed, OneConnection, OneTimer, Heard, KeepsConnection, Connected
<1>4. QED BY <1>1, <1>2, <1>3, PTL DEF Spec
=============================================================================
