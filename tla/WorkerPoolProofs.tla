-------------------------- MODULE WorkerPoolProofs --------------------------
(***************************************************************************)
(* Theorems about WorkerPool, for any number of connections and threads,   *)
(* any pipe capacity and any width of the round-robin counter.             *)
(***************************************************************************)
EXTENDS WorkerPool, SequenceTheorems, FiniteSetTheorems, TLAPS

(***************************************************************************)
(* Type correctness.                                                       *)
(***************************************************************************)

\* A connection is being dispatched while pc = "AddConnect" and is being handled
\* exactly while the worker holds one; a thread not yet created does nothing.
Hands ==
  /\ pc = "AddConnect" => node \in Conns
  /\ \A t \in Threads : worker[t] = "handling" <=> taken[t] \in Conns
  /\ \A t \in Threads : t >= created => worker[t] = "absent"

\* There is a thread of index 0, and indices are integers.
LEMMA ThreadsFact == 0 \in Threads /\ Threads \subseteq Int
  BY PoolAssumption DEF Threads

\* The round-robin counter stays within its int, and so within its type.
LEMMA IncrementType ==
  ASSUME NEW i \in -(MaxInt + 1) .. MaxInt
  PROVE  Increment(i) \in -(MaxInt + 1) .. MaxInt
  BY PoolAssumption DEF Increment

\* TypeOK and Hands are kept by every step of the pool.
LEMMA TypeStep == TypeOK /\ Hands /\ [Next]_vars => TypeOK' /\ Hands'
<1> SUFFICES ASSUME TypeOK, Hands, [Next]_vars PROVE TypeOK' /\ Hands'
  OBVIOUS
<1> USE PoolAssumption, ThreadsFact DEF TypeOK, Hands, MainPcs, WorkerPcs, ConnStates, Faults
<1>1. CASE StartThread
  BY <1>1 DEF StartThread, Threads
<1>2. CASE InitReturns
  BY <1>2 DEF InitReturns
<1>3. CASE AddConnect
  BY <1>3 DEF AddConnect, CallAfter
<1>4. CASE Active
  BY <1>4 DEF Active, CallAfter
<1>5. CASE UnInit
  BY <1>5 DEF UnInit
<1>6. ASSUME NEW c \in Conns, ListenCallBack(c) PROVE TypeOK' /\ Hands'
  BY <1>6, IncrementType DEF ListenCallBack, CallAfter
<1>7. ASSUME NEW t \in Threads, SetUpBase(t) PROVE TypeOK' /\ Hands'
  BY <1>7 DEF SetUpBase, mainVars
<1>8. ASSUME NEW t \in Threads, EnterLoop(t) PROVE TypeOK' /\ Hands'
  BY <1>8 DEF EnterLoop, mainVars
<1>9. ASSUME NEW t \in Threads, NotifyRead(t) PROVE TypeOK' /\ Hands'
  <2>1. /\ worker[t] = "loop" /\ worker' = [worker EXCEPT ![t] = "notified"]
        /\ pipe[t] > 0 /\ pipe' = [pipe EXCEPT ![t] = pipe[t] - 1]
        /\ UNCHANGED <<pc, last, node, target, created, list, taken, base, state, fault>>
    BY <1>9 DEF NotifyRead, mainVars
  <2>2. pipe' \in [Threads -> 0 .. PipeCap]
    BY <2>1, PoolAssumption
  <2>3. TypeOK'
    BY <2>1, <2>2
  <2>4. Hands'
    BY <2>1
  <2>5. QED BY <2>3, <2>4
<1>10. ASSUME NEW t \in Threads, NotifyPop(t) PROVE TypeOK' /\ Hands'
  <2>1. CASE list[t] = <<>>
    BY <1>10, <2>1 DEF NotifyPop, mainVars
  <2>2. CASE list[t] # <<>>
    <3>1. Head(list[t]) \in Conns /\ Tail(list[t]) \in Seq(Conns)
      BY <2>2, HeadTailProperties
    <3>2. /\ taken' = [taken EXCEPT ![t] = Head(list[t])]
          /\ list' = [list EXCEPT ![t] = Tail(@)]
          /\ worker' = [worker EXCEPT ![t] = "handling"]
          /\ worker[t] = "notified"
          /\ UNCHANGED <<mainVars, pipe, base, state, fault>>
      BY <1>10, <2>2 DEF NotifyPop
    <3>3. TypeOK'
      BY <3>1, <3>2 DEF mainVars
    <3>4. Hands'
      BY <3>1, <3>2 DEF mainVars
    <3>5. QED BY <3>3, <3>4
  <2>3. QED BY <2>1, <2>2
<1>11. ASSUME NEW t \in Threads, HandlerConnect(t) PROVE TypeOK' /\ Hands'
  BY <1>11 DEF HandlerConnect, mainVars
<1>12. ASSUME NEW t \in Threads, HandlerConnectNullBase(t) PROVE TypeOK' /\ Hands'
  <2>1. worker[t] = "handling" /\ taken[t] \in Conns
    BY <1>12 DEF HandlerConnectNullBase
  <2>2. state' \in [Conns -> ConnStates] /\ fault' \in Faults
    <3>1. \/ state' = [state EXCEPT ![taken[t]] = "orphan"] /\ fault' = fault
          \/ state' = state /\ fault' = "nullbase"
      BY <1>12 DEF HandlerConnectNullBase
    <3>2. QED BY <2>1, <3>1
  <2>3. /\ taken' = [taken EXCEPT ![t] = NULL]
        /\ worker' = [worker EXCEPT ![t] = "loop"]
        /\ UNCHANGED <<mainVars, list, pipe, base>>
    BY <1>12 DEF HandlerConnectNullBase
  <2>4. TypeOK'
    BY <2>2, <2>3 DEF mainVars
  <2>5. Hands'
    BY <2>1, <2>3 DEF mainVars
  <2>6. QED BY <2>4, <2>5
<1>13. ASSUME NEW t \in Threads, SetUpFails(t) PROVE TypeOK' /\ Hands'
  BY <1>13 DEF SetUpFails, mainVars
<1>14. CASE UNCHANGED vars
  BY <1>14 DEF vars
<1>15. QED
  BY <1>1, <1>2, <1>3, <1>4, <1>5, <1>6, <1>7, <1>8, <1>9, <1>10, <1>11, <1>12, <1>13, <1>14
  DEF Next, MainStep, WorkerStep

\* Every variable of the pool keeps its type, for all constants.
THEOREM TypeCorrect == Spec => [](TypeOK /\ Hands)
<1>1. Init => TypeOK /\ Hands
  BY PoolAssumption, ThreadsFact DEF Init, TypeOK, Hands, MainPcs, WorkerPcs, ConnStates, Faults
<1>2. QED
  BY <1>1, TypeStep, PTL DEF Spec

-----------------------------------------------------------------------------
(***************************************************************************)
(* Wake-ups and connections.  NotifyPop takes one of each, AddConnect adds *)
(* a connection and the wake-up Active owes it, and Active only moves that *)
(* wake-up into the pipe, or loses it while the descriptor is not set.     *)
(***************************************************************************)

CountsOK == \A t \in Threads : Wakeups(t) \in Nat /\ Len(list[t]) \in Nat

\* Wake-ups and list lengths are natural numbers.
LEMMA WakeupsType == TypeOK => CountsOK
<1> SUFFICES ASSUME TypeOK, NEW t \in Threads
             PROVE  Wakeups(t) \in Nat /\ Len(list[t]) \in Nat
  BY DEF CountsOK
<1>1. Len(list[t]) \in Nat
  BY LenProperties DEF TypeOK
<1>2. Wakeups(t) \in Nat
  BY PoolAssumption DEF TypeOK, Wakeups, Flag
<1>3. QED BY <1>1, <1>2

\* What every step does to the difference between wake-ups and connections: it
\* keeps it, unless the byte of Active is lost.
LEMMA WakeupStep ==
  ASSUME TypeOK, Hands, [Next]_vars, NoSpuriousWakeup, NEW t \in Threads
  PROVE  \/ Len(list[t])' - Wakeups(t)' = Len(list[t]) - Wakeups(t)
         \/ /\ pc = "Active" /\ ~HasPipe(target)
            /\ Len(list[t])' - Wakeups(t)' >= Len(list[t]) - Wakeups(t)
<1> DEFINE Same == Len(list[t])' - Wakeups(t)' = Len(list[t]) - Wakeups(t)
<1>0. Wakeups(t) \in Nat /\ Len(list[t]) \in Nat
  BY WakeupsType DEF CountsOK
<1> USE PoolAssumption, <1>0 DEF TypeOK, Wakeups, Flag
<1>1. CASE StartThread
  <2>1. worker[created] = "absent"
    BY <1>1 DEF StartThread, Hands, Threads
  <2>2. QED BY <1>1, <2>1 DEF StartThread
<1>2. CASE InitReturns
  BY <1>2 DEF InitReturns
<1>3. CASE AddConnect
  <2>1. Len(Append(list[target], node)) = Len(list[target]) + 1
    BY <1>3, AppendProperties DEF AddConnect, Hands
  <2>2. /\ pc = "AddConnect" /\ pc' = "Active"
        /\ list' = [list EXCEPT ![target] = Append(@, node)]
        /\ UNCHANGED <<target, worker, pipe>>
    BY <1>3 DEF AddConnect, CallAfter
  <2>3. CASE t = target
    <3>1. Len(list[t])' = Len(list[t]) + 1
      BY <2>1, <2>2, <2>3
    <3>2. Wakeups(t)' = Wakeups(t) + 1
      BY <2>2, <2>3
    <3>3. QED BY <3>1, <3>2
  <2>4. CASE t # target
    <3>1. Len(list[t])' = Len(list[t])
      BY <2>2, <2>4
    <3>2. Wakeups(t)' = Wakeups(t)
      BY <2>2, <2>4
    <3>3. QED BY <3>1, <3>2
  <2>5. QED BY <2>3, <2>4
<1>4. CASE Active
  BY <1>4 DEF Active, CallAfter
<1>5. CASE UnInit
  BY <1>5 DEF UnInit
<1>6. ASSUME NEW c \in Conns, ListenCallBack(c) PROVE Same
  BY <1>6 DEF ListenCallBack, CallAfter
<1>7. ASSUME NEW u \in Threads, SetUpBase(u) PROVE Same
  BY <1>7 DEF SetUpBase, mainVars
<1>8. ASSUME NEW u \in Threads, EnterLoop(u) PROVE Same
  BY <1>8 DEF EnterLoop, mainVars
<1>9. ASSUME NEW u \in Threads, NotifyRead(u) PROVE Same
  BY <1>9 DEF NotifyRead, mainVars
<1>10. ASSUME NEW u \in Threads, NotifyPop(u) PROVE Same
  <2>1. list[u] # <<>>
    <3>1. Wakeups(u) >= 1
      BY <1>10 DEF NotifyPop
    <3>2. Len(list[u]) >= 1
      BY <3>1, WakeupsType DEF CountsOK, NoSpuriousWakeup
    <3>3. QED BY <3>2, EmptySeq
  <2>2. Len(Tail(list[u])) = Len(list[u]) - 1
    BY <2>1, HeadTailProperties
  <2>3. /\ list' = [list EXCEPT ![u] = Tail(@)]
        /\ worker' = [worker EXCEPT ![u] = "handling"]
        /\ worker[u] = "notified"
        /\ UNCHANGED <<mainVars, pipe>>
    BY <1>10, <2>1 DEF NotifyPop
  <2>4. CASE t = u
    <3>1. Len(list[t])' = Len(list[t]) - 1
      BY <2>2, <2>3, <2>4
    <3>2. Wakeups(t)' = Wakeups(t) - 1
      BY <2>3, <2>4 DEF mainVars
    <3>3. QED BY <3>1, <3>2
  <2>5. CASE t # u
    BY <2>3, <2>5 DEF mainVars
  <2>6. QED BY <2>4, <2>5
<1>11. ASSUME NEW u \in Threads, HandlerConnect(u) PROVE Same
  BY <1>11 DEF HandlerConnect, mainVars
<1>12. ASSUME NEW u \in Threads, HandlerConnectNullBase(u) PROVE Same
  BY <1>12 DEF HandlerConnectNullBase, mainVars
<1>13. ASSUME NEW u \in Threads, SetUpFails(u) PROVE Same
  BY <1>13 DEF SetUpFails, mainVars
<1>14. CASE UNCHANGED vars
  BY <1>14 DEF vars
<1>15. QED
  BY <1>1, <1>2, <1>3, <1>4, <1>5, <1>6, <1>7, <1>8, <1>9, <1>10, <1>11, <1>12, <1>13, <1>14
  DEF Next, MainStep, WorkerStep

\* Notify never reads a wake-up for which the list holds no connection, whatever
\* the timing of thread start-up.
THEOREM NeverSpurious == Spec => []NoSpuriousWakeup
<1>1. Init => NoSpuriousWakeup
  BY EmptySeq DEF Init, NoSpuriousWakeup, Wakeups, Flag
<1>2. TypeOK /\ Hands /\ CountsOK' /\ NoSpuriousWakeup /\ [Next]_vars => NoSpuriousWakeup'
  <2> SUFFICES ASSUME TypeOK, Hands, CountsOK', NoSpuriousWakeup, [Next]_vars, NEW t \in Threads
               PROVE  Wakeups(t)' <= Len(list[t])'
    BY DEF NoSpuriousWakeup
  <2>1. Wakeups(t) <= Len(list[t])
    BY DEF NoSpuriousWakeup
  <2>2. /\ Wakeups(t) \in Nat /\ Len(list[t]) \in Nat
        /\ Wakeups(t)' \in Nat /\ Len(list[t])' \in Nat
    BY WakeupsType DEF CountsOK
  <2>3. QED BY <2>1, <2>2, WakeupStep
<1>3. QED
  BY <1>1, <1>2, TypeCorrect, WakeupsType, PTL DEF Spec

-----------------------------------------------------------------------------
(***************************************************************************)
(* With workers that are set up before the first connection: what the      *)
(* sleep of XThreadPool::Init is there for.                                *)
(***************************************************************************)

\* When Init has returned, every worker has stored its base and its descriptor.
SetUp == SleepSuffices /\ pc # "Init" => \A t \in Threads : HasPipe(t)

\* SetUp is kept by every step: Init only returns once every thread is set up.
LEMMA SetUpStep == TypeOK /\ Hands /\ SetUp /\ [Next]_vars => SetUp'
<1> SUFFICES ASSUME TypeOK, Hands, SetUp, [Next]_vars PROVE SetUp'
  OBVIOUS
<1> USE PoolAssumption DEF TypeOK, SetUp, HasPipe, WorkerPcs, MainPcs
<1>1. CASE StartThread
  BY <1>1 DEF StartThread
<1>2. CASE InitReturns
  BY <1>2 DEF InitReturns
<1>3. CASE AddConnect
  BY <1>3 DEF AddConnect
<1>4. CASE Active
  BY <1>4 DEF Active
<1>5. CASE UnInit
  BY <1>5 DEF UnInit
<1>6. ASSUME NEW c \in Conns, ListenCallBack(c) PROVE SetUp'
  BY <1>6 DEF ListenCallBack
<1>7. ASSUME NEW t \in Threads, SetUpBase(t) PROVE SetUp'
  BY <1>7 DEF SetUpBase, mainVars
<1>8. ASSUME NEW t \in Threads, EnterLoop(t) PROVE SetUp'
  BY <1>8 DEF EnterLoop, mainVars
<1>9. ASSUME NEW t \in Threads, NotifyRead(t) PROVE SetUp'
  BY <1>9 DEF NotifyRead, mainVars
<1>10. ASSUME NEW t \in Threads, NotifyPop(t) PROVE SetUp'
  <2>1. \E w \in {"loop", "handling"} : worker' = [worker EXCEPT ![t] = w]
    BY <1>10 DEF NotifyPop
  <2>2. pc' = pc
    BY <1>10 DEF NotifyPop, mainVars
  <2>3. QED BY <2>1, <2>2
<1>11. ASSUME NEW t \in Threads, HandlerConnect(t) PROVE SetUp'
  BY <1>11 DEF HandlerConnect, mainVars
<1>12. ASSUME NEW t \in Threads, HandlerConnectNullBase(t) PROVE SetUp'
  BY <1>12 DEF HandlerConnectNullBase, mainVars
<1>13. ASSUME NEW t \in Threads, SetUpFails(t) PROVE SetUp'
  BY <1>13 DEF SetUpFails, mainVars
<1>14. CASE UNCHANGED vars
  BY <1>14 DEF vars
<1>15. QED
  BY <1>1, <1>2, <1>3, <1>4, <1>5, <1>6, <1>7, <1>8, <1>9, <1>10, <1>11, <1>12, <1>13, <1>14
  DEF Next, MainStep, WorkerStep

\* Once XThreadPool::Init has returned, every thread has its base and its pipe.
LEMMA SetUpAlways == Spec => []SetUp
<1>1. Init => SetUp
  BY DEF Init, SetUp
<1>2. QED
  BY <1>1, SetUpStep, TypeCorrect, PTL DEF Spec

\* No connection is left on a worker's list without a wake-up for it.
THEOREM NeverLost == Spec => []NoLostWakeup
<1>1. Init => NoLostWakeup
  BY EmptySeq DEF Init, NoLostWakeup, Wakeups, Flag
<1>2. TypeOK /\ Hands /\ SetUp /\ NoSpuriousWakeup /\ CountsOK' /\ NoLostWakeup /\ [Next]_vars
        => NoLostWakeup'
  <2> SUFFICES ASSUME TypeOK, Hands, SetUp, NoSpuriousWakeup, CountsOK', NoLostWakeup, [Next]_vars,
                      SleepSuffices, NEW t \in Threads
               PROVE  Len(list[t])' <= Wakeups(t)'
    BY DEF NoLostWakeup
  <2>1. Len(list[t]) <= Wakeups(t)
    BY DEF NoLostWakeup
  <2>2. /\ Wakeups(t) \in Nat /\ Len(list[t]) \in Nat
        /\ Wakeups(t)' \in Nat /\ Len(list[t])' \in Nat
    BY WakeupsType DEF CountsOK
  <2>3. ~(pc = "Active" /\ ~HasPipe(target))
    BY DEF SetUp, TypeOK
  <2>4. QED BY <2>1, <2>2, <2>3, WakeupStep
<1>3. QED
  BY <1>1, <1>2, TypeCorrect, SetUpAlways, NeverSpurious, WakeupsType, PTL DEF Spec

\* A connection has no event base before AddConnect gives it one.
BaseLater ==
  /\ \A c \in Conns : state[c] = "fresh" => base[c] = NULL
  /\ pc = "AddConnect" => base[node] = NULL /\ state[node] # "fresh"

\* Affinity is kept by every step: SetBase and the push name the same thread.
LEMMA AffinityStep ==
  TypeOK /\ Hands /\ SetUp /\ BaseLater /\ ThreadAffinity /\ [Next]_vars
    => BaseLater' /\ ThreadAffinity'
<1> SUFFICES ASSUME TypeOK, Hands, SetUp, BaseLater, ThreadAffinity, [Next]_vars
             PROVE  BaseLater' /\ ThreadAffinity'
  OBVIOUS
<1> USE PoolAssumption, ThreadsFact DEF TypeOK, Hands, BaseLater, ThreadAffinity
<1>1. CASE StartThread
  BY <1>1 DEF StartThread
<1>2. CASE InitReturns
  BY <1>2 DEF InitReturns
<1>3. CASE AddConnect
  <2>1. /\ base' = [base EXCEPT ![node] = IF HasBase(target) THEN target ELSE NULL]
        /\ list' = [list EXCEPT ![target] = Append(@, node)]
        /\ node \in Conns /\ base[node] = NULL /\ state[node] # "fresh"
        /\ pc = "AddConnect" /\ pc' = "Active"
        /\ UNCHANGED <<node, taken, state>>
    BY <1>3 DEF AddConnect, CallAfter
  <2>2. BaseLater'
    BY <2>1
  <2>3. ThreadAffinity'
    <3> SUFFICES ASSUME SleepSuffices, NEW t \in Threads
                 PROVE  /\ \A i \in 1 .. Len(list'[t]) : base'[list'[t][i]] = t
                        /\ taken'[t] # NULL => base'[taken'[t]] = t
      OBVIOUS
    <3>1. base' = [base EXCEPT ![node] = target]
      BY <2>1 DEF SetUp, HasPipe, HasBase
    <3>2. \A c \in Conns : base[c] = t => base'[c] = t
      BY <2>1, <3>1
    <3>3. ASSUME NEW i \in 1 .. Len(list'[t]) PROVE base'[list'[t][i]] = t
      <4>1. CASE t # target
        <5>1. list'[t] = list[t]
          BY <2>1, <4>1
        <5>2. list[t][i] \in Conns /\ base[list[t][i]] = t
          BY <5>1, LenProperties
        <5>3. QED BY <3>2, <5>1, <5>2
      <4>2. CASE t = target
        <5>1. list'[t] = Append(list[t], node)
          BY <2>1, <4>2
        <5>2. /\ Len(list'[t]) = Len(list[t]) + 1
              /\ \A j \in 1 .. Len(list[t]) : list'[t][j] = list[t][j]
              /\ list'[t][Len(list[t]) + 1] = node
          BY <5>1, <2>1, AppendProperties
        <5>3. Len(list[t]) \in Nat /\ \A j \in 1 .. Len(list[t]) : list[t][j] \in Conns
          BY LenProperties
        <5>4. CASE i \in 1 .. Len(list[t])
          BY <3>2, <5>2, <5>3, <5>4
        <5>5. CASE i = Len(list[t]) + 1
          BY <2>1, <3>1, <4>2, <5>2, <5>5
        <5>6. QED BY <5>2, <5>3, <5>4, <5>5
      <4>3. QED BY <4>1, <4>2
    <3>4. taken'[t] # NULL => base'[taken'[t]] = t
      BY <2>1, <3>2
    <3>5. QED BY <3>3, <3>4
  <2>4. QED BY <2>2, <2>3
<1>4. CASE Active
  BY <1>4 DEF Active, CallAfter
<1>5. CASE UnInit
  BY <1>5 DEF UnInit
<1>6. ASSUME NEW c \in Conns, ListenCallBack(c) PROVE BaseLater' /\ ThreadAffinity'
  BY <1>6 DEF ListenCallBack, CallAfter
<1>7. ASSUME NEW t \in Threads, SetUpBase(t) PROVE BaseLater' /\ ThreadAffinity'
  BY <1>7 DEF SetUpBase, mainVars
<1>8. ASSUME NEW t \in Threads, EnterLoop(t) PROVE BaseLater' /\ ThreadAffinity'
  BY <1>8 DEF EnterLoop, mainVars
<1>9. ASSUME NEW t \in Threads, NotifyRead(t) PROVE BaseLater' /\ ThreadAffinity'
  BY <1>9 DEF NotifyRead, mainVars
<1>10. ASSUME NEW t \in Threads, NotifyPop(t) PROVE BaseLater' /\ ThreadAffinity'
  <2>1. CASE list[t] = <<>>
    BY <1>10, <2>1 DEF NotifyPop, mainVars
  <2>2. CASE list[t] # <<>>
    <3>1. /\ taken' = [taken EXCEPT ![t] = Head(list[t])]
          /\ list' = [list EXCEPT ![t] = Tail(@)]
          /\ UNCHANGED <<mainVars, base, state>>
      BY <1>10, <2>2 DEF NotifyPop
    <3>2. /\ Len(Tail(list[t])) = Len(list[t]) - 1
          /\ \A i \in 1 .. Len(Tail(list[t])) : Tail(list[t])[i] = list[t][i + 1]
          /\ Head(list[t]) = list[t][1]
          /\ Len(list[t]) \in Nat /\ Len(list[t]) >= 1
      BY <2>2, HeadTailProperties, LenProperties, EmptySeq
    <3>3. ASSUME SleepSuffices PROVE \A i \in 1 .. Len(Tail(list[t])) : base[Tail(list[t])[i]] = t
      BY <3>2, <3>3
    <3>4. ASSUME SleepSuffices PROVE base[Head(list[t])] = t
      BY <3>2, <3>4
    <3>5. BaseLater'
      BY <3>1 DEF mainVars
    <3>6. ThreadAffinity'
      BY <3>1, <3>3, <3>4
    <3>7. QED BY <3>5, <3>6
  <2>3. QED BY <2>1, <2>2
<1>11. ASSUME NEW t \in Threads, HandlerConnect(t) PROVE BaseLater' /\ ThreadAffinity'
  BY <1>11 DEF HandlerConnect, mainVars
<1>12. ASSUME NEW t \in Threads, HandlerConnectNullBase(t) PROVE BaseLater' /\ ThreadAffinity'
  BY <1>12 DEF HandlerConnectNullBase, mainVars
<1>13. ASSUME NEW t \in Threads, SetUpFails(t) PROVE BaseLater' /\ ThreadAffinity'
  BY <1>13 DEF SetUpFails, mainVars
<1>14. CASE UNCHANGED vars
  BY <1>14 DEF vars
<1>15. QED
  BY <1>1, <1>2, <1>3, <1>4, <1>5, <1>6, <1>7, <1>8, <1>9, <1>10, <1>11, <1>12, <1>13, <1>14
  DEF Next, MainStep, WorkerStep

\* Affinity holds throughout, and so does what it rests on.
LEMMA BaseLaterAlways == Spec => [](BaseLater /\ ThreadAffinity)
<1>1. Init => BaseLater /\ ThreadAffinity
  BY EmptySeq DEF Init, BaseLater, ThreadAffinity
<1>2. QED
  BY <1>1, AffinityStep, TypeCorrect, SetUpAlways, PTL DEF Spec

\* A connection is only ever handled by the thread that runs its event base.
THEOREM AffinityHolds == Spec => []ThreadAffinity
  BY BaseLaterAlways, PTL

-----------------------------------------------------------------------------
(***************************************************************************)
(* The pool implements Handoff.  ListenCallBack is the offer, HandlerConnect *)
(* the service; AddConnect, Active and Notify only move a connection along *)
(* the line LineOf, and leave the line as it is.                           *)
(***************************************************************************)

\* The head of a sequence put back in front of its tail, with more behind it.
LEMMA HeadThenTail ==
  ASSUME NEW S, NEW s \in Seq(S), s # <<>>
  PROVE  <<Head(s)>> \o Tail(s) = s
<1>1. Len(s) \in Nat /\ Len(s) >= 1 /\ Head(s) = s[1]
  BY LenProperties, EmptySeq
<1>2. /\ Head(s) \in S
      /\ Tail(s) \in Seq(S)
      /\ Len(Tail(s)) = Len(s) - 1
      /\ \A i \in 1 .. Len(Tail(s)) : Tail(s)[i] = s[i + 1]
  BY HeadTailProperties
<1>3. <<Head(s)>> \in Seq(S) /\ Len(<<Head(s)>>) = 1 /\ <<Head(s)>>[1] = Head(s)
  BY <1>2
<1> DEFINE r == <<Head(s)>> \o Tail(s)
<1>4. /\ r \in Seq(S)
      /\ Len(r) = 1 + Len(Tail(s))
      /\ \A i \in 1 .. Len(r) : r[i] = IF i <= 1 THEN <<Head(s)>>[i] ELSE Tail(s)[i - 1]
  BY <1>2, <1>3, ConcatProperties
<1>5. Len(r) = Len(s)
  BY <1>1, <1>2, <1>4
<1>6. \A i \in 1 .. Len(r) : r[i] = s[i]
  BY <1>1, <1>2, <1>3, <1>4, <1>5
<1> HIDE DEF r
<1>7. QED BY <1>4, <1>5, <1>6, SeqEqual DEF r

\* Head and tail of an element put in front of a sequence.
LEMMA HeadOfCons ==
  ASSUME NEW S, NEW e \in S, NEW s \in Seq(S)
  PROVE  /\ <<e>> \o s # <<>>
         /\ Head(<<e>> \o s) = e
         /\ Tail(<<e>> \o s) = s
<1>1. <<e>> \in Seq(S) /\ Len(<<e>>) = 1 /\ <<e>>[1] = e
  OBVIOUS
<1>2. Len(s) \in Nat
  BY LenProperties
<1> DEFINE r == <<e>> \o s
<1>3. /\ r \in Seq(S)
      /\ Len(r) = 1 + Len(s)
      /\ \A i \in 1 .. Len(r) : r[i] = IF i <= 1 THEN <<e>>[i] ELSE s[i - 1]
  BY <1>1, ConcatProperties
<1>4. r # <<>> /\ Head(r) = r[1]
  BY <1>2, <1>3, EmptySeq
<1>5. /\ Tail(r) \in Seq(S)
      /\ Len(Tail(r)) = Len(s)
      /\ \A i \in 1 .. Len(Tail(r)) : Tail(r)[i] = s[i]
  BY <1>2, <1>3, <1>4, HeadTailProperties
<1>6. Tail(r) = s
  BY <1>5, SeqEqual
<1>7. QED BY <1>1, <1>2, <1>3, <1>4, <1>6

\* ConcatAssociative for sequences of connections.
LEMMA ConcatOnce ==
  \A r, s, u \in Seq(Conns) : (r \o s) \o u = r \o (s \o u)
  BY ConcatAssociative

\* The parts of the line of t: the connection being handled, the connection
\* about to be pushed.
Front(t) == IF taken[t] = NULL THEN <<>> ELSE <<taken[t]>>
Back(t)  == IF pc = "AddConnect" /\ target = t THEN <<node>> ELSE <<>>

\* The three parts of the line of a worker are sequences of connections.
LEMMA LineParts ==
  ASSUME TypeOK, Hands, NEW t \in Threads
  PROVE  /\ Front(t) \in Seq(Conns) /\ list[t] \in Seq(Conns) /\ Back(t) \in Seq(Conns)
         /\ LineOf(t) = (Front(t) \o list[t]) \o Back(t)
         /\ LineOf(t) \in Seq(Conns)
<1>1. Front(t) \in Seq(Conns)
  BY DEF Front, TypeOK
<1>2. list[t] \in Seq(Conns)
  BY DEF TypeOK
<1>3. Back(t) \in Seq(Conns)
  BY DEF Back, Hands
<1>4. LineOf(t) = (Front(t) \o list[t]) \o Back(t)
  BY DEF LineOf, Front, Back
<1>5. QED BY <1>1, <1>2, <1>3, <1>4, ConcatProperties

\* A step that does not touch what the line is made of.
LEMMA LineKept ==
  ASSUME UNCHANGED <<taken, list, node, target, state>>,
         (pc = "AddConnect") = (pc' = "AddConnect")
  PROVE  UNCHANGED H!vars
  BY DEF H!vars, LineOf

\* Accepting a connection is an Offer to the chosen worker.
LEMMA ListenRefines ==
  ASSUME TypeOK, Hands, TypeOK', Hands', NEW c \in Conns, ListenCallBack(c)
  PROVE  [H!Next]_H!vars
<1>1. CASE Remainder(Increment(last), NThreads) \in Threads
  <2>1. /\ pc = "Loop" /\ pc' = "AddConnect" /\ target' \in Threads /\ node' = c
        /\ state[c] = "fresh" /\ state' = [state EXCEPT ![c] = "dispatched"]
        /\ UNCHANGED <<list, taken>>
    BY <1>1 DEF ListenCallBack, CallAfter
  <2>2. \A t \in Threads : LineOf(t) = Front(t) \o list[t] /\ Front(t) \o list[t] \in Seq(Conns)
    <3> TAKE t \in Threads
    <3>1. Back(t) = <<>>
      BY <2>1 DEF Back
    <3>2. Front(t) \o list[t] \in Seq(Conns)
      BY LineParts, ConcatProperties
    <3>3. LineOf(t) = (Front(t) \o list[t]) \o <<>>
      BY <3>1, LineParts
    <3>4. QED BY <3>2, <3>3, ConcatEmptySeq
  <2>3. ASSUME NEW t \in Threads PROVE LineOf(t)' = IF t = target' THEN Append(LineOf(t), c) ELSE LineOf(t)
    <3>1. LineOf(t)' = (Front(t) \o list[t]) \o (IF target' = t THEN <<c>> ELSE <<>>)
      BY <2>1 DEF LineOf, Front
    <3>2. CASE t = target'
      BY <2>2, <3>1, <3>2, AppendIsConcat
    <3>3. CASE t # target'
      BY <2>2, <3>1, <3>3, ConcatEmptySeq
    <3>4. QED BY <3>2, <3>3
  <2>4. H!Offer(c, target')
    BY <2>1, <2>3 DEF H!Offer
  <2>5. QED BY <2>1, <2>4 DEF H!Next
<1>2. CASE Remainder(Increment(last), NThreads) \notin Threads
  <2>1. pc = "Loop" /\ UNCHANGED <<pc, target, state, list, taken>>
    BY <1>2 DEF ListenCallBack
  <2>2. QED BY <2>1 DEF H!vars, LineOf
<1>3. QED BY <1>1, <1>2

\* The push moves a connection within its line: nothing that Handoff sees.
LEMMA AddConnectRefines ==
  ASSUME TypeOK, Hands, AddConnect
  PROVE  UNCHANGED H!vars
<1>1. /\ pc = "AddConnect" /\ pc' = "Active" /\ node \in Conns
      /\ list' = [list EXCEPT ![target] = Append(@, node)]
      /\ UNCHANGED <<taken, node, target, state>>
  BY DEF AddConnect, CallAfter, Hands
<1>2. ASSUME NEW t \in Threads PROVE LineOf(t)' = LineOf(t)
  <2>1. LineOf(t)' = (Front(t) \o list'[t]) \o <<>>
    BY <1>1 DEF LineOf, Front
  <2>2. CASE t = target
    <3>1. LineOf(t) = (Front(t) \o list[t]) \o <<node>>
      BY <1>1, <2>2 DEF LineOf, Front
    <3>2. list'[t] = list[t] \o <<node>> /\ <<node>> \in Seq(Conns)
      BY <1>1, <2>2, LineParts, AppendIsConcat DEF TypeOK
    <3>3. Front(t) \in Seq(Conns) /\ list[t] \in Seq(Conns) /\ <<node>> \in Seq(Conns)
      BY <3>2, LineParts
    <3>4. (Front(t) \o list[t]) \o <<node>> = Front(t) \o (list[t] \o <<node>>)
      BY <3>3, ConcatOnce
    <3>5. Front(t) \o list'[t] = LineOf(t)
      BY <3>1, <3>2, <3>4
    <3>6. QED BY <2>1, <3>5, LineParts, ConcatEmptySeq
  <2>3. CASE t # target
    <3>1. list'[t] = list[t] /\ LineOf(t) = (Front(t) \o list[t]) \o <<>>
      BY <1>1, <2>3 DEF LineOf, Front, TypeOK
    <3>2. QED BY <2>1, <3>1
  <2>4. QED BY <2>2, <2>3
<1>3. QED BY <1>1, <1>2 DEF H!vars

\* Popping the list moves a connection within its line: nothing that Handoff sees.
LEMMA NotifyPopRefines ==
  ASSUME TypeOK, Hands, NEW t \in Threads, NotifyPop(t)
  PROVE  UNCHANGED H!vars
<1>1. CASE list[t] = <<>>
  BY <1>1, LineKept DEF NotifyPop, mainVars
<1>2. CASE list[t] # <<>>
  <2>1. /\ taken[t] = NULL
        /\ taken' = [taken EXCEPT ![t] = Head(list[t])]
        /\ list' = [list EXCEPT ![t] = Tail(@)]
        /\ UNCHANGED <<pc, node, target, state>>
    BY <1>2 DEF NotifyPop, mainVars, Hands, TypeOK
  <2>2. Head(list[t]) \in Conns
    BY <1>2, LineParts, HeadTailProperties
  <2>3. ASSUME NEW u \in Threads PROVE LineOf(u)' = LineOf(u)
    <3>1. CASE u = t
      <4>1. LineOf(u)' = (<<Head(list[t])>> \o Tail(list[t])) \o Back(t)
        BY <2>1, <2>2, <3>1, PoolAssumption DEF LineOf, Back, TypeOK
      <4>2. LineOf(u) = (<<>> \o list[t]) \o Back(t)
        BY <2>1, <3>1 DEF LineOf, Back
      <4>3. QED BY <1>2, <4>1, <4>2, LineParts, HeadThenTail, ConcatEmptySeq
    <3>2. CASE u # t
      BY <2>1, <3>2 DEF LineOf, TypeOK
    <3>3. QED BY <3>1, <3>2
  <2>4. QED BY <2>1, <2>3 DEF H!vars
<1>3. QED BY <1>1, <1>2

\* HandlerConnect serves the connection at the head of the line.
LEMMA HandlerRefines ==
  ASSUME TypeOK, Hands, NEW t \in Threads, HandlerConnect(t)
  PROVE  H!Next
<1>1. /\ taken[t] \in Conns
      /\ taken' = [taken EXCEPT ![t] = NULL]
      /\ UNCHANGED <<pc, node, target, list>>
      /\ \E o \in {"open", "deleted"} : state' = [state EXCEPT ![taken[t]] = o]
  BY DEF HandlerConnect, mainVars, Hands
<1>2. LineOf(t) = <<taken[t]>> \o (list[t] \o Back(t)) /\ list[t] \o Back(t) \in Seq(Conns)
  <2>1. Front(t) = <<taken[t]>>
    BY <1>1, PoolAssumption DEF Front
  <2>2. Front(t) \in Seq(Conns) /\ list[t] \in Seq(Conns) /\ Back(t) \in Seq(Conns)
    BY LineParts
  <2>3. (Front(t) \o list[t]) \o Back(t) = Front(t) \o (list[t] \o Back(t))
    BY <2>2, ConcatOnce
  <2>4. LineOf(t) = (Front(t) \o list[t]) \o Back(t)
    BY LineParts
  <2>5. list[t] \o Back(t) \in Seq(Conns)
    BY LineParts, ConcatProperties
  <2>6. QED BY <2>1, <2>3, <2>4, <2>5
<1>3. LineOf(t) # <<>> /\ Head(LineOf(t)) = taken[t] /\ Tail(LineOf(t)) = list[t] \o Back(t)
  BY <1>1, <1>2, HeadOfCons
<1>4. ASSUME NEW u \in Threads PROVE LineOf(u)' = IF u = t THEN Tail(LineOf(t)) ELSE LineOf(u)
  <2>1. CASE u = t
    <3>1. LineOf(u)' = (<<>> \o list[t]) \o Back(t)
      BY <1>1, <2>1 DEF LineOf, Back, TypeOK
    <3>2. QED BY <1>3, <2>1, <3>1, LineParts, ConcatEmptySeq
  <2>2. CASE u # t
    BY <1>1, <2>2 DEF LineOf, TypeOK
  <2>3. QED BY <2>1, <2>2
<1>5. H!Serve(t)
  BY <1>1, <1>3, <1>4 DEF H!Serve
<1>6. QED BY <1>5 DEF H!Next

\* The pool serves the connections of each worker in the order of acceptance and
\* each of them once: it implements Handoff.
THEOREM PoolImplementsHandoff == ASSUME SleepSuffices PROVE Spec => ImplementsHandoff
<1>1. Init => H!Init
  <2> SUFFICES ASSUME Init PROVE H!Init
    OBVIOUS
  <2>1. \A t \in Threads : LineOf(t) = <<>>
    BY DEF Init, LineOf
  <2>2. QED BY <2>1 DEF Init, H!Init
<1>2. TypeOK /\ Hands /\ TypeOK' /\ Hands' /\ ThreadAffinity /\ [Next]_vars => [H!Next]_H!vars
  <2> SUFFICES ASSUME TypeOK, Hands, TypeOK', Hands', ThreadAffinity, [Next]_vars
               PROVE  [H!Next]_H!vars
    OBVIOUS
  <2>1. CASE StartThread
    BY <2>1, LineKept DEF StartThread
  <2>2. CASE InitReturns
    BY <2>2, LineKept DEF InitReturns
  <2>3. CASE AddConnect
    BY <2>3, AddConnectRefines
  <2>4. CASE Active
    BY <2>4, LineKept DEF Active, CallAfter
  <2>5. CASE UnInit
    BY <2>5, LineKept DEF UnInit
  <2>6. ASSUME NEW c \in Conns, ListenCallBack(c) PROVE [H!Next]_H!vars
    BY <2>6, ListenRefines
  <2>7. ASSUME NEW t \in Threads, SetUpBase(t) PROVE UNCHANGED H!vars
    BY <2>7, LineKept DEF SetUpBase, mainVars
  <2>8. ASSUME NEW t \in Threads, EnterLoop(t) PROVE UNCHANGED H!vars
    BY <2>8, LineKept DEF EnterLoop, mainVars
  <2>9. ASSUME NEW t \in Threads, NotifyRead(t) PROVE UNCHANGED H!vars
    BY <2>9, LineKept DEF NotifyRead, mainVars
  <2>10. ASSUME NEW t \in Threads, NotifyPop(t) PROVE UNCHANGED H!vars
    BY <2>10, NotifyPopRefines
  <2>11. ASSUME NEW t \in Threads, HandlerConnect(t) PROVE H!Next
    BY <2>11, HandlerRefines
  <2>12. ASSUME NEW t \in Threads, HandlerConnectNullBase(t) PROVE FALSE
    <3>1. taken[t] \in Conns /\ base[taken[t]] = NULL
      BY <2>12 DEF HandlerConnectNullBase, Hands
    <3>2. QED BY <3>1, PoolAssumption, ThreadsFact DEF ThreadAffinity
  <2>13. ASSUME NEW t \in Threads, SetUpFails(t) PROVE UNCHANGED H!vars
    BY <2>13, LineKept DEF SetUpFails, mainVars
  <2>14. CASE UNCHANGED vars
    BY <2>14, LineKept DEF vars
  <2>15. QED
    BY <2>1, <2>2, <2>3, <2>4, <2>5, <2>6, <2>7, <2>8, <2>9, <2>10, <2>11, <2>12, <2>13, <2>14
    DEF Next, MainStep, WorkerStep
<1>3. QED
  BY <1>1, <1>2, TypeCorrect, AffinityHolds, PTL DEF Spec, ImplementsHandoff, H!Spec

-----------------------------------------------------------------------------
(***************************************************************************)
(* Each connection is in one place.  The steps move it from one to the     *)
(* next: what a step makes of the places of a connection is an image.      *)
(***************************************************************************)

\* While the process is up, a dispatched connection is in one place, any other in none.
Lone(c) == IF state[c] = "dispatched" THEN \E x : Homes(c) = {x} ELSE Homes(c) = {}

AllLone == Running => \A c \in Conns : Lone(c)

\* The places of a connection, one by one.
LEMMA HomesFact ==
  ASSUME NEW c, NEW x
  PROVE  x \in Homes(c) <=>
           \/ \E t \in Threads : \E i \in 1 .. Len(list[t]) : list[t][i] = c /\ x = <<t, i>>
           \/ \E t \in Threads : taken[t] = c /\ x = <<t, 0>>
           \/ pc = "AddConnect" /\ node = c /\ x = <<-1, 0>>
<1> DEFINE P(t) == {<<t, i>> : i \in {j \in 1 .. Len(list[t]) : list[t][j] = c}}
           Q == {<<t, 0>> : t \in {u \in Threads : taken[u] = c}}
           R == IF pc = "AddConnect" /\ node = c THEN {<<-1, 0>>} ELSE {}
<1>1. Homes(c) = (UNION {P(t) : t \in Threads}) \cup Q \cup R
  BY Zenon DEF Homes
<1>2. x \in UNION {P(t) : t \in Threads} <=> \E t \in Threads : x \in P(t)
  OBVIOUS
<1>3. \A t \in Threads : x \in P(t) <=> \E i \in 1 .. Len(list[t]) : list[t][i] = c /\ x = <<t, i>>
  OBVIOUS
<1>4. x \in Q <=> \E t \in Threads : taken[t] = c /\ x = <<t, 0>>
  OBVIOUS
<1>5. x \in R <=> pc = "AddConnect" /\ node = c /\ x = <<-1, 0>>
  OBVIOUS
<1> HIDE DEF P, Q, R
<1>6. x \in (UNION {P(t) : t \in Threads}) \cup Q \cup R
        <=> (\E t \in Threads : x \in P(t)) \/ x \in Q \/ x \in R
  BY <1>2
<1>7. QED BY <1>1, <1>3, <1>4, <1>5, <1>6

\* The same after a step.
LEMMA HomesLater ==
  ASSUME NEW c, NEW x
  PROVE  x \in Homes(c)' <=>
           \/ \E t \in Threads : \E i \in 1 .. Len(list'[t]) : list'[t][i] = c /\ x = <<t, i>>
           \/ \E t \in Threads : taken'[t] = c /\ x = <<t, 0>>
           \/ pc' = "AddConnect" /\ node' = c /\ x = <<-1, 0>>
<1> DEFINE P(t) == {<<t, i>> : i \in {j \in 1 .. Len(list'[t]) : list'[t][j] = c}}
           Q == {<<t, 0>> : t \in {u \in Threads : taken'[u] = c}}
           R == IF pc' = "AddConnect" /\ node' = c THEN {<<-1, 0>>} ELSE {}
<1>1. Homes(c)' = (UNION {P(t) : t \in Threads}) \cup Q \cup R
  BY Zenon DEF Homes
<1>2. x \in UNION {P(t) : t \in Threads} <=> \E t \in Threads : x \in P(t)
  OBVIOUS
<1>3. \A t \in Threads : x \in P(t) <=> \E i \in 1 .. Len(list'[t]) : list'[t][i] = c /\ x = <<t, i>>
  OBVIOUS
<1>4. x \in Q <=> \E t \in Threads : taken'[t] = c /\ x = <<t, 0>>
  OBVIOUS
<1>5. x \in R <=> pc' = "AddConnect" /\ node' = c /\ x = <<-1, 0>>
  OBVIOUS
<1> HIDE DEF P, Q, R
<1>6. x \in (UNION {P(t) : t \in Threads}) \cup Q \cup R
        <=> (\E t \in Threads : x \in P(t)) \/ x \in Q \/ x \in R
  BY <1>2
<1>7. QED BY <1>1, <1>3, <1>4, <1>5, <1>6

\* A step that leaves the places alone, and what is dispatched.
LEMMA HomesKept ==
  ASSUME UNCHANGED <<list, taken, node>>, (pc = "AddConnect") = (pc' = "AddConnect"), NEW c
  PROVE  Homes(c)' = Homes(c)
  BY DEF Homes

\* The place of a connection that is taken from a list.
Popped(t, x) == IF x[1] = t /\ x[2] >= 1 THEN <<t, x[2] - 1>> ELSE x

\* The steps that have to do with places.
LEMMA PlaceSteps ==
  ASSUME [Next]_vars
  PROVE  \/ UNCHANGED <<list, taken, node, state>> /\ (pc = "AddConnect") = (pc' = "AddConnect")
         \/ AddConnect
         \/ \E c \in Conns : ListenCallBack(c)
         \/ \E t \in Threads : NotifyPop(t) \/ HandlerConnect(t) \/ HandlerConnectNullBase(t)
  BY DEF Next, MainStep, WorkerStep, vars, mainVars, StartThread, InitReturns, Active, UnInit,
         SetUpBase, EnterLoop, NotifyRead, SetUpFails, CallAfter

\* AllLone is kept by every step.
LEMMA LoneStep == TypeOK /\ Hands /\ AllLone /\ [Next]_vars => AllLone'
<1> SUFFICES ASSUME TypeOK, Hands, AllLone, [Next]_vars, Running', NEW c \in Conns PROVE Lone(c)'
  BY DEF AllLone
<1> USE PoolAssumption, ThreadsFact
<1>0. Running
  BY DEF Running, Next, MainStep, WorkerStep, vars, mainVars, StartThread, InitReturns,
         AddConnect, Active, UnInit, ListenCallBack, SetUpBase, EnterLoop, NotifyRead,
         NotifyPop, HandlerConnect, HandlerConnectNullBase, SetUpFails
<1>1. \A d \in Conns : Lone(d)
  BY <1>0 DEF AllLone
<1>2. CASE UNCHANGED <<list, taken, node, state>> /\ (pc = "AddConnect") = (pc' = "AddConnect")
  BY <1>1, <1>2, HomesKept DEF Lone
<1>3. ASSUME NEW d \in Conns, ListenCallBack(d) PROVE Lone(c)'
  <2>1. /\ pc = "Loop" /\ pc' = "AddConnect" /\ node' = d /\ state[d] = "fresh"
        /\ state' = [state EXCEPT ![d] = "dispatched"] /\ UNCHANGED <<list, taken>>
    BY <1>3 DEF ListenCallBack, CallAfter, Running
  <2>2. \A x : x \in Homes(c)' <=> x \in Homes(c) \/ (c = d /\ x = <<-1, 0>>)
    BY <2>1, HomesFact, HomesLater
  <2>3. CASE c = d
    <3>1. Homes(c) = {} /\ state'[c] = "dispatched"
      BY <1>1, <2>1, <2>3 DEF Lone, TypeOK
    <3>2. Homes(c)' = {<<-1, 0>>}
      BY <2>2, <2>3, <3>1
    <3>3. QED BY <3>1, <3>2 DEF Lone
  <2>4. CASE c # d
    <3>1. Homes(c)' = Homes(c) /\ state'[c] = state[c]
      BY <2>1, <2>2, <2>4 DEF TypeOK
    <3>2. QED BY <1>1, <3>1 DEF Lone
  <2>5. QED BY <2>3, <2>4
<1>4. CASE AddConnect
  <2>1. /\ pc = "AddConnect" /\ pc' = "Active" /\ node \in Conns
        /\ list' = [list EXCEPT ![target] = Append(@, node)] /\ UNCHANGED <<taken, node, state>>
    BY <1>4 DEF AddConnect, CallAfter, Hands
  <2>2. /\ target \in Threads /\ list \in [Threads -> Seq(Conns)]
        /\ list[target] \in Seq(Conns) /\ Len(list[target]) \in Nat
    BY LenProperties DEF TypeOK
  <2> DEFINE n == Len(list[target])
  <2>3. /\ Len(list'[target]) = n + 1 /\ list'[target][n + 1] = node
        /\ \A i \in 1 .. n : list'[target][i] = list[target][i]
        /\ \A t \in Threads : t # target => list'[t] = list[t]
    BY <2>1, <2>2, AppendProperties
  <2>4. CASE c # node
    <3>1. \A x : x \in Homes(c)' <=> x \in Homes(c)
      <4> TAKE x
      <4>1. \A t \in Threads : (\E i \in 1 .. Len(list'[t]) : list'[t][i] = c /\ x = <<t, i>>)
                            <=> (\E i \in 1 .. Len(list[t]) : list[t][i] = c /\ x = <<t, i>>)
        <5> TAKE t \in Threads
        <5>1. CASE t # target
          BY <2>3, <5>1
        <5>2. CASE t = target
          <6>1. \A i \in 1 .. n : i \in 1 .. n + 1 /\ list'[t][i] = list[t][i]
            BY <2>2, <2>3, <5>2
          <6>2. \A i \in 1 .. n + 1 : list'[t][i] = c => i \in 1 .. n
            BY <2>2, <2>3, <2>4, <5>2
          <6>3. QED BY <2>3, <5>2, <6>1, <6>2
        <5>3. QED BY <5>1, <5>2
      <4>2. QED BY <2>1, <2>4, <4>1, HomesFact, HomesLater
    <3>2. Homes(c)' = Homes(c)
      BY <3>1
    <3>3. QED BY <1>1, <2>1, <3>2 DEF Lone
  <2>5. CASE c = node
    <3>1. <<-1, 0>> \in Homes(c)
      BY <2>1, <2>5, HomesFact
    <3>2. state[c] = "dispatched" /\ Homes(c) = {<<-1, 0>>}
      BY <1>1, <3>1 DEF Lone
    <3>3. \A t \in Threads : taken[t] # c /\ \A i \in 1 .. Len(list[t]) : list[t][i] # c
      <4>1. \A t \in Threads : \A i : <<t, i>> # <<-1, 0>>
        BY DEF Threads
      <4>2. \A t \in Threads : \A i : <<t, i>> \notin Homes(c)
        BY <3>2, <4>1
      <4>3. ASSUME NEW t \in Threads PROVE taken[t] # c
        BY <4>2, HomesFact
      <4>4. ASSUME NEW t \in Threads, NEW i \in 1 .. Len(list[t]) PROVE list[t][i] # c
        BY <4>2, HomesFact
      <4>5. QED BY <4>3, <4>4
    <3>4. \A x : x \in Homes(c)' <=> x = <<target, n + 1>>
      <4> TAKE x
      <4>1. ASSUME NEW t \in Threads, NEW i \in 1 .. Len(list'[t]), list'[t][i] = c
            PROVE  t = target /\ i = n + 1
        <5>1. t = target
          BY <2>3, <3>3, <4>1
        <5>2. i \in 1 .. n + 1 /\ (i \in 1 .. n => list[target][i] = c)
          BY <2>2, <2>3, <4>1, <5>1
        <5>3. ~(i \in 1 .. n)
          BY <2>2, <3>3, <5>2
        <5>4. QED BY <2>2, <5>1, <5>2, <5>3
      <4>2. list'[target][n + 1] = c /\ n + 1 \in 1 .. Len(list'[target])
        BY <2>2, <2>3, <2>5
      <4>3. \A t \in Threads : taken'[t] # c
        BY <2>1, <3>3
      <4>4. pc' # "AddConnect"
        BY <2>1
      <4>5. x \in Homes(c)' => x = <<target, n + 1>>
        BY <4>1, <4>3, <4>4, HomesLater
      <4>6. <<target, n + 1>> \in Homes(c)'
        BY <2>2, <4>2, HomesLater
      <4>7. QED BY <4>5, <4>6
    <3>5. Homes(c)' = {<<target, n + 1>>}
      BY <3>4
    <3>6. QED BY <2>1, <3>2, <3>5 DEF Lone
  <2>6. QED BY <2>4, <2>5
<1>5. ASSUME NEW t \in Threads, NotifyPop(t) PROVE Lone(c)'
  <2>1. CASE list[t] = <<>>
    BY <1>1, <1>5, <2>1, HomesKept DEF NotifyPop, mainVars, Lone
  <2>2. CASE list[t] # <<>>
    <3>1. /\ taken' = [taken EXCEPT ![t] = Head(list[t])] /\ list' = [list EXCEPT ![t] = Tail(@)]
          /\ worker[t] = "notified" /\ UNCHANGED <<pc, node, state>>
      BY <1>5, <2>2 DEF NotifyPop, mainVars
    <3>2. taken[t] = NULL
      BY <3>1 DEF Hands, TypeOK
    <3>3. /\ list[t] \in Seq(Conns) /\ list \in [Threads -> Seq(Conns)]
          /\ taken \in [Threads -> Conns \cup {NULL}]
      BY DEF TypeOK
    <3> DEFINE n == Len(list[t])
    <3>4. /\ n \in Nat /\ n >= 1 /\ Len(list'[t]) = n - 1 /\ taken'[t] = list[t][1]
          /\ \A i \in 1 .. n - 1 : list'[t][i] = list[t][i + 1]
          /\ \A u \in Threads : u # t => list'[u] = list[u] /\ taken'[u] = taken[u]
      BY <2>2, <3>1, <3>3, HeadTailProperties, LenProperties, EmptySeq
    <3>5. ASSUME NEW x \in Homes(c) PROVE Popped(t, x) \in Homes(c)'
      <4>1. ASSUME NEW u \in Threads, NEW i \in 1 .. Len(list[u]), list[u][i] = c, x = <<u, i>>
            PROVE  Popped(t, x) \in Homes(c)'
        <5>1. CASE u # t
          <6>1. Popped(t, x) = <<u, i>>
            BY <4>1, <5>1 DEF Popped
          <6>2. i \in 1 .. Len(list'[u]) /\ list'[u][i] = c
            BY <3>4, <4>1, <5>1
          <6>3. QED BY <6>1, <6>2, HomesLater
        <5>2. CASE u = t
          <6>1. Popped(t, x) = <<t, i - 1>>
            BY <3>4, <4>1, <5>2 DEF Popped
          <6>2. CASE i = 1
            <7>1. taken'[t] = c /\ Popped(t, x) = <<t, 0>>
              BY <3>4, <4>1, <5>2, <6>1, <6>2
            <7>2. QED BY <7>1, HomesLater
          <6>3. CASE i # 1
            <7>1. i - 1 \in 1 .. Len(list'[t]) /\ list'[t][i - 1] = c
              BY <3>4, <4>1, <5>2, <6>3
            <7>2. QED BY <6>1, <7>1, HomesLater
          <6>4. QED BY <6>2, <6>3
        <5>3. QED BY <5>1, <5>2
      <4>2. ASSUME NEW u \in Threads, taken[u] = c, x = <<u, 0>> PROVE Popped(t, x) \in Homes(c)'
        <5>1. u # t /\ Popped(t, x) = x
          BY <3>2, <4>2 DEF Popped
        <5>2. taken'[u] = c
          BY <3>4, <4>2, <5>1
        <5>3. QED BY <4>2, <5>1, <5>2, HomesLater
      <4>3. ASSUME pc = "AddConnect", node = c, x = <<-1, 0>> PROVE Popped(t, x) \in Homes(c)'
        <5>1. Popped(t, x) = x
          BY <4>3 DEF Popped
        <5>2. QED BY <3>1, <4>3, <5>1, HomesLater
      <4>4. QED BY <4>1, <4>2, <4>3, HomesFact
    <3>6. ASSUME NEW y \in Homes(c)' PROVE \E x \in Homes(c) : y = Popped(t, x)
      <4>1. ASSUME NEW u \in Threads, NEW i \in 1 .. Len(list'[u]), list'[u][i] = c, y = <<u, i>>
            PROVE  \E x \in Homes(c) : y = Popped(t, x)
        <5>1. CASE u # t
          <6>1. i \in 1 .. Len(list[u]) /\ list[u][i] = c
            BY <3>4, <4>1, <5>1
          <6>2. y \in Homes(c)
            BY <4>1, <6>1, HomesFact
          <6>3. Popped(t, y) = y
            BY <4>1, <5>1 DEF Popped
          <6>4. QED BY <6>2, <6>3
        <5>2. CASE u = t
          <6>1. i + 1 \in 1 .. n /\ list[t][i + 1] = c
            BY <3>4, <4>1, <5>2
          <6>2. <<t, i + 1>> \in Homes(c)
            BY <6>1, HomesFact
          <6>3. i \in Nat /\ y = <<t, i>>
            BY <3>4, <4>1, <5>2
          <6>4. Popped(t, <<t, i + 1>>) = <<t, i>>
            BY <6>3 DEF Popped
          <6>5. QED BY <6>2, <6>3, <6>4
        <5>3. QED BY <5>1, <5>2
      <4>2. ASSUME NEW u \in Threads, taken'[u] = c, y = <<u, 0>> PROVE \E x \in Homes(c) : y = Popped(t, x)
        <5>1. CASE u # t
          <6>1. y \in Homes(c)
            BY <3>4, <4>2, <5>1, HomesFact
          <6>2. Popped(t, y) = y
            BY <4>2, <5>1 DEF Popped
          <6>3. QED BY <6>1, <6>2
        <5>2. CASE u = t
          <6>1. 1 \in 1 .. n /\ list[t][1] = c
            BY <3>4, <4>2, <5>2
          <6>2. <<t, 1>> \in Homes(c)
            BY <6>1, HomesFact
          <6>3. Popped(t, <<t, 1>>) = <<t, 0>>
            BY DEF Popped
          <6>4. QED BY <4>2, <5>2, <6>2, <6>3
        <5>3. QED BY <5>1, <5>2
      <4>3. ASSUME pc' = "AddConnect", node' = c, y = <<-1, 0>> PROVE \E x \in Homes(c) : y = Popped(t, x)
        <5>1. y \in Homes(c)
          BY <3>1, <4>3, HomesFact
        <5>2. Popped(t, y) = y
          BY <4>3 DEF Popped
        <5>3. QED BY <5>1, <5>2
      <4>4. QED BY <4>1, <4>2, <4>3, HomesLater
    <3>7. Homes(c)' = {Popped(t, x) : x \in Homes(c)}
      BY <3>5, <3>6
    <3>8. CASE state[c] = "dispatched"
      <4>1. PICK x : Homes(c) = {x}
        BY <1>1, <3>8 DEF Lone
      <4>2. Homes(c)' = {Popped(t, x)}
        BY <3>7, <4>1
      <4>3. QED BY <3>1, <3>8, <4>2 DEF Lone
    <3>9. CASE state[c] # "dispatched"
      <4>1. Homes(c)' = {}
        BY <1>1, <3>7, <3>9 DEF Lone
      <4>2. QED BY <3>1, <3>9, <4>1 DEF Lone
    <3>10. QED BY <3>8, <3>9
  <2>3. QED BY <2>1, <2>2
<1>6. ASSUME NEW t \in Threads, HandlerConnect(t) \/ HandlerConnectNullBase(t) PROVE Lone(c)'
  <2>1. /\ taken[t] \in Conns /\ taken' = [taken EXCEPT ![t] = NULL]
        /\ \E s \in {"open", "deleted", "orphan"} : state' = [state EXCEPT ![taken[t]] = s]
        /\ UNCHANGED <<pc, node, list>>
    BY <1>6 DEF HandlerConnect, HandlerConnectNullBase, mainVars, Hands, Running
  <2>2. CASE c = taken[t]
    <3>1. <<t, 0>> \in Homes(c)
      BY <2>2, HomesFact
    <3>2. Homes(c) = {<<t, 0>>}
      BY <1>1, <3>1 DEF Lone
    <3>3. ASSUME NEW y \in Homes(c)' PROVE FALSE
      <4>1. y \in Homes(c)
        BY <2>1, HomesFact, HomesLater DEF TypeOK
      <4>2. y = <<t, 0>>
        BY <3>2, <4>1
      <4>3. taken'[t] # c
        BY <2>1 DEF TypeOK
      <4>4. \A u \in Threads : taken'[u] = c => u # t
        BY <4>3
      <4>5. \A u \in Threads : \A i \in 1 .. Len(list'[u]) : y # <<u, i>>
        BY <4>2
      <4>6. y # <<-1, 0>>
        BY <4>2 DEF Threads
      <4>7. QED BY <4>2, <4>4, <4>5, <4>6, HomesLater
    <3>4. state'[c] # "dispatched"
      BY <2>1, <2>2 DEF TypeOK
    <3>5. QED BY <3>3, <3>4 DEF Lone
  <2>3. CASE c # taken[t]
    <3>1. \A u \in Threads : taken'[u] = c <=> taken[u] = c
      BY <2>1, <2>3 DEF TypeOK
    <3>2. \A x : x \in Homes(c)' <=> x \in Homes(c)
      <4> TAKE x
      <4> DEFINE Lists(l) == \E u \in Threads : \E i \in 1 .. Len(l[u]) : l[u][i] = c /\ x = <<u, i>>
                 Hand     == \E u \in Threads : taken[u] = c /\ x = <<u, 0>>
                 Hand2    == \E u \in Threads : taken'[u] = c /\ x = <<u, 0>>
                 Main     == pc = "AddConnect" /\ node = c /\ x = <<-1, 0>>
                 Main2    == pc' = "AddConnect" /\ node' = c /\ x = <<-1, 0>>
      <4>1. Hand2 <=> Hand
        BY <3>1
      <4>2. x \in Homes(c) <=> Lists(list) \/ Hand \/ Main
        BY HomesFact
      <4>3. x \in Homes(c)' <=> Lists(list') \/ Hand2 \/ Main2
        BY HomesLater
      <4>4. (Main2 <=> Main) /\ list' = list
        BY <2>1
      <4> HIDE DEF Lists, Hand, Hand2, Main, Main2
      <4>5. QED BY <4>1, <4>2, <4>3, <4>4
    <3>3. Homes(c)' = Homes(c) /\ state'[c] = state[c]
      BY <2>1, <2>3, <3>2 DEF TypeOK
    <3>4. QED BY <1>1, <3>3 DEF Lone
  <2>4. QED BY <2>2, <2>3
<1>7. QED BY <1>2, <1>3, <1>4, <1>5, <1>6, PlaceSteps

LEMMA LoneAlways == Spec => []AllLone
<1>1. Init => AllLone
  <2> SUFFICES ASSUME Init, NEW c \in Conns PROVE Homes(c) = {}
    BY DEF AllLone, Lone, Init
  <2>1. \A t \in Threads : list[t] = <<>> /\ taken[t] = NULL
    BY DEF Init
  <2>2. pc # "AddConnect" /\ 1 .. Len(<<>>) = {} /\ NULL # c
    BY PoolAssumption DEF Init
  <2>3. \A x : x \notin Homes(c)
    BY <2>1, <2>2, HomesFact
  <2>4. QED BY <2>3
<1>2. QED BY <1>1, LoneStep, TypeCorrect, PTL DEF Spec

\* A dispatched connection is in exactly one place, the hands of the main thread, a list
\* or the hands of a worker, and any other in none: none is handled twice or dropped.
THEOREM HandledOnce == Spec => []OneHome
<1>1. AllLone => OneHome
  BY FS_Singleton, FS_EmptySet DEF AllLone, Lone, OneHome, Flag
<1>2. QED BY <1>1, LoneAlways, PTL

-----------------------------------------------------------------------------
(***************************************************************************)
(* The round-robin counter.  It has counted every connection accepted      *)
(* until it overflows, and only then can it pick a thread there is not.    *)
(***************************************************************************)

\* The connections ListenCallBack has dispatched.
Accepted == {c \in Conns : state[c] # "fresh"}

\* The counter agrees with the connections as long as it can count them.
Counted ==
  /\ IsFiniteSet(Accepted)
  /\ Running /\ Cardinality(Accepted) <= MaxInt + 1 => last = Cardinality(Accepted) - 1
  /\ fault = "index" => Cardinality(Accepted) > MaxInt

\* Only ListenCallBack accepts, counts and finds no thread: a handler only gets
\* connections that have been dispatched.
LEMMA CountSteps ==
  ASSUME TypeOK, Hands, AllLone, [Next]_vars
  PROVE  \/ Accepted' = Accepted /\ last' = last /\ (fault' = fault \/ fault' \in {"setup", "nullbase"})
         \/ \E c \in Conns : ListenCallBack(c)
<1>1. ASSUME NEW t \in Threads, HandlerConnect(t) \/ HandlerConnectNullBase(t)
      PROVE  Accepted' = Accepted
  <2>1. Running /\ taken[t] \in Conns
    <3>1. Running /\ worker[t] = "handling"
      BY <1>1, Zenon DEF HandlerConnect, HandlerConnectNullBase
    <3>2. QED BY <3>1, Zenon DEF Hands
  <2>2. state[taken[t]] = "dispatched"
    BY <2>1, HomesFact DEF AllLone, Lone
  <2>3. ASSUME NEW s \in {"open", "deleted", "orphan"}, state' = [state EXCEPT ![taken[t]] = s]
        PROVE  \A c \in Conns : state'[c] = "fresh" <=> state[c] = "fresh"
    BY <2>1, <2>2, <2>3 DEF TypeOK
  <2>4. CASE HandlerConnect(t)
    <3>1. PICK s \in {"open", "deleted"} : state' = [state EXCEPT ![taken[t]] = s]
      BY <2>4, Zenon DEF HandlerConnect
    <3>2. QED BY <2>3, <3>1 DEF Accepted
  <2>5. CASE HandlerConnectNullBase(t)
    <3>1. state' = state \/ state' = [state EXCEPT ![taken[t]] = "orphan"]
      BY <2>5, Zenon DEF HandlerConnectNullBase
    <3>2. QED BY <2>3, <3>1 DEF Accepted
  <2>6. QED BY <1>1, <2>4, <2>5
<1>2. ASSUME NEW t \in Threads, HandlerConnect(t) \/ HandlerConnectNullBase(t)
      PROVE  last' = last /\ (fault' = fault \/ fault' = "nullbase")
  BY <1>2 DEF HandlerConnect, HandlerConnectNullBase, mainVars
<1>3. \/ UNCHANGED <<state, last>> /\ (fault' = fault \/ fault' = "setup")
      \/ \E c \in Conns : ListenCallBack(c)
      \/ \E t \in Threads : HandlerConnect(t) \/ HandlerConnectNullBase(t)
  BY DEF Next, MainStep, WorkerStep, vars, mainVars, StartThread, InitReturns, AddConnect,
         Active, UnInit, SetUpBase, EnterLoop, NotifyRead, NotifyPop, SetUpFails
<1>4. UNCHANGED state => Accepted' = Accepted
  BY DEF Accepted
<1>5. QED BY <1>1, <1>2, <1>3, <1>4

\* Counted is kept by every step.
LEMMA CountedStep == TypeOK /\ Hands /\ AllLone /\ Counted /\ [Next]_vars => Counted'
<1> SUFFICES ASSUME TypeOK, Hands, AllLone, Counted, [Next]_vars PROVE Counted'
  OBVIOUS
<1>1. CASE Accepted' = Accepted /\ last' = last /\ (fault' = fault \/ fault' \in {"setup", "nullbase"})
  BY <1>1 DEF Counted, Running
<1>2. ASSUME NEW c \in Conns, ListenCallBack(c) PROVE Counted'
  <2> DEFINE k     == Cardinality(Accepted)
             index == Remainder(Increment(last), NThreads)
  <2>1. /\ Running /\ state[c] = "fresh" /\ last' = Increment(last)
        /\ IF index \in Threads THEN state' = [state EXCEPT ![c] = "dispatched"] /\ fault' = fault
                                ELSE state' = state /\ fault' = "index"
    BY <1>2 DEF ListenCallBack
  <2>2. IsFiniteSet(Accepted) /\ k \in Nat
    BY FS_CardinalityType DEF Counted
  <2>3. last \in -(MaxInt + 1) .. MaxInt /\ MaxInt \in Nat /\ NThreads \in Nat \ {0}
    BY PoolAssumption DEF TypeOK
  <2>4. k <= MaxInt + 1 => last = k - 1
    BY <2>1 DEF Counted
  <2>5. k <= MaxInt => last' = k /\ index \in Threads
    <3>1. k <= MaxInt => Increment(last) = k
      BY <2>2, <2>3, <2>4 DEF Increment
    <3>2. k <= MaxInt => k % NThreads \in 0 .. NThreads - 1
      BY <2>2, <2>3
    <3>3. QED BY <2>1, <2>2, <3>1, <3>2 DEF Remainder, Threads
  <2>6. CASE index \in Threads
    <3>1. Accepted' = Accepted \cup {c} /\ c \notin Accepted
      BY <2>1, <2>6 DEF Accepted, TypeOK
    <3>2. IsFiniteSet(Accepted') /\ Cardinality(Accepted') = k + 1
      BY <2>2, <3>1, FS_AddElement
    <3>3. fault' = "none"
      BY <2>1, <2>6 DEF Running
    <3>4. k + 1 <= MaxInt + 1 => last' = (k + 1) - 1
      BY <2>2, <2>3, <2>5
    <3>5. QED BY <3>2, <3>3, <3>4 DEF Counted, Running
  <2>7. CASE index \notin Threads
    <3>1. Accepted' = Accepted /\ fault' = "index"
      BY <2>1, <2>7 DEF Accepted
    <3>2. k > MaxInt
      BY <2>2, <2>3, <2>5, <2>7
    <3>3. QED BY <2>2, <3>1, <3>2 DEF Counted, Running
  <2>8. QED BY <2>6, <2>7
<1>3. QED BY <1>1, <1>2, CountSteps

\* DispatchThread indexes outside m_vecThread only once more connections have been
\* accepted than m_indexLastUseThread can count.
THEOREM IndexedUntilOverflow == Spec => []IndexFaultNeedsOverflow
<1>1. Init => Counted
  <2> SUFFICES ASSUME Init PROVE Counted
    OBVIOUS
  <2>1. Accepted = {} /\ last = -1 /\ fault = "none"
    BY DEF Init, Accepted
  <2>2. QED BY <2>1, FS_EmptySet DEF Counted
<1>2. Counted => IndexFaultNeedsOverflow
  BY DEF Counted, Accepted, IndexFaultNeedsOverflow
<1>3. QED BY <1>1, <1>2, CountedStep, LoneAlways, TypeCorrect, PTL DEF Spec

-----------------------------------------------------------------------------
(***************************************************************************)
(* Round robin.  Division first: what the remainder of the next number is. *)
(***************************************************************************)

\* A number is a multiple of the divisor and its remainder.
LEMMA Division ==
  ASSUME NEW x \in Nat, NEW n \in Nat \ {0}
  PROVE  x % n \in 0 .. n - 1 /\ x \div n \in Int /\ x = (n * (x \div n)) + (x % n)
  OBVIOUS

\* Multiples of n that are less than n apart are equal.
LEMMA Multiples ==
  ASSUME NEW n \in Nat \ {0}, NEW d \in Int, NEW r \in 0 .. n - 1, NEW s \in 0 .. n - 1,
         n * d = r - s
  PROVE  d = 0
<1>1. CASE d >= 1
  <2>1. n * d >= n
    BY <1>1
  <2>2. QED BY <2>1
<1>2. CASE d <= -1
  <2>1. n * d <= -n
    BY <1>2
  <2>2. QED BY <2>1
<1>3. QED BY <1>1, <1>2

\* There is only one remainder.
LEMMA OneRemainder ==
  ASSUME NEW n \in Nat \ {0}, NEW a \in Int, NEW b \in Int,
         NEW r \in 0 .. n - 1, NEW s \in 0 .. n - 1, (n * a) + r = (n * b) + s
  PROVE  r = s
<1>1. n * (a - b) = (n * a) - (n * b)
  OBVIOUS
<1>2. n * (a - b) = s - r /\ a - b \in Int
  BY <1>1
<1>3. a - b = 0
  BY <1>2, Multiples
<1>4. QED BY <1>2, <1>3

\* Remainders go round.
LEMMA NextRemainder ==
  ASSUME NEW x \in Nat, NEW n \in Nat \ {0}
  PROVE  (x + 1) % n = IF (x % n) + 1 < n THEN (x % n) + 1 ELSE 0
<1>1. \E q \in Int, r \in 0 .. n - 1 : x = (n * q) + r /\ r = x % n
  BY Division
<1> PICK q \in Int, r \in 0 .. n - 1 : x = (n * q) + r /\ r = x % n
  BY <1>1
<1>2. \E p \in Int, s \in 0 .. n - 1 : x + 1 = (n * p) + s /\ s = (x + 1) % n
  <2>1. x + 1 \in Nat
    OBVIOUS
  <2>2. QED BY <2>1, Division
<1> PICK p \in Int, s \in 0 .. n - 1 : x + 1 = (n * p) + s /\ s = (x + 1) % n
  BY <1>2
<1>3. CASE r + 1 < n
  <2>1. (n * q) + (r + 1) = (n * p) + s /\ r + 1 \in 0 .. n - 1
    BY <1>3
  <2>2. QED BY <1>3, <2>1, OneRemainder
<1>4. CASE r + 1 >= n
  <2>1. n * (q + 1) = (n * q) + n
    OBVIOUS
  <2>2. (n * (q + 1)) + 0 = (n * p) + s /\ 0 \in 0 .. n - 1 /\ q + 1 \in Int
    BY <1>4, <2>1
  <2>3. s = 0
    BY <2>2, OneRemainder
  <2>4. QED BY <1>4, <2>3
<1>5. QED BY <1>3, <1>4

\* The index DispatchThread computes next, outside Threads when it is negative.
Index == Remainder(Increment(last), NThreads)

\* Indices that are valid follow each other in turn, across the overflow too.
LEMMA IndexTurns ==
  ASSUME NEW i \in -(MaxInt + 1) .. MaxInt,
         Remainder(i, NThreads) \in Threads, Remainder(Increment(i), NThreads) \in Threads
  PROVE  Remainder(Increment(i), NThreads)
           = IF Remainder(i, NThreads) + 1 < NThreads THEN Remainder(i, NThreads) + 1 ELSE 0
<1> PICK n \in Nat \ {0} : n = NThreads
  BY PoolAssumption
<1>1. Threads = 0 .. n - 1 /\ MaxInt \in Nat \ {0}
  BY PoolAssumption DEF Threads
<1>2. CASE i >= 0
  <2>1. (i + 1) % n = IF (i % n) + 1 < n THEN (i % n) + 1 ELSE 0
    BY <1>2, NextRemainder
  <2>2. CASE i < MaxInt
    BY <1>1, <1>2, <2>1, <2>2 DEF Remainder, Increment
  <2>3. CASE i = MaxInt
    <3>1. Increment(i) = -(i + 1) /\ ~(-(i + 1) >= 0) /\ -(-(i + 1)) = i + 1
      BY <1>1, <2>3 DEF Increment
    <3>2. Remainder(Increment(i), n) = -((i + 1) % n) /\ Remainder(i, n) = i % n
      BY <1>2, <3>1 DEF Remainder
    <3>3. (i + 1) % n \in 0 .. n - 1
      BY <1>2
    <3>4. Remainder(Increment(i), n) = 0 /\ (i + 1) % n = 0
      BY <1>1, <3>2, <3>3
    <3>5. QED BY <1>2, <2>1, <3>2, <3>4
  <2>4. QED BY <1>1, <2>2, <2>3
<1>3. CASE i < 0
  <2>1. Increment(i) = i + 1
    BY <1>1, <1>3 DEF Increment
  <2>2. PICK m \in Nat : m = -i - 1
    BY <1>3
  <2>3. (m + 1) % n = IF (m % n) + 1 < n THEN (m % n) + 1 ELSE 0
    BY NextRemainder
  <2>4. m % n \in 0 .. n - 1 /\ (m + 1) % n \in 0 .. n - 1
    OBVIOUS
  <2>5. Remainder(i, n) = -((m + 1) % n)
    BY <1>3, <2>2 DEF Remainder
  <2>6. (m + 1) % n = 0 /\ Remainder(i, n) = 0
    BY <1>1, <2>4, <2>5
  <2>7. (m % n) + 1 >= n
    BY <2>3, <2>4, <2>6
  <2>8. Remainder(i + 1, n) = IF m = 0 THEN 0 % n ELSE -(m % n)
    BY <2>2 DEF Remainder
  <2>9. 0 % n = 0
    OBVIOUS
  <2>10. Remainder(i + 1, n) = 0
    BY <1>1, <2>1, <2>4, <2>8, <2>9
  <2>11. m = 0 => n = 1
    BY <2>7, <2>9
  <2>12. m # 0 => n = 1
    BY <1>1, <2>1, <2>4, <2>7, <2>8
  <2>13. QED BY <2>1, <2>6, <2>10, <2>11, <2>12
<1>4. QED BY <1>2, <1>3

\* The connections thread t has been given.
Given(t) == {c \in Conns : base[c] = t}

\* What thread t has been given, the connection DispatchThread is about to push included.
Share(t) == Cardinality(Given(t)) + Flag(pc = "AddConnect" /\ target = t)

\* The threads before n have had one connection more than the others, the one that is
\* about to have its connection among them, and n is next.
RoundOf(q, n) ==
  /\ \A t \in Threads : Share(t) = q + Flag(t < n)
  /\ pc = "AddConnect" => target < n \/ n = 0
  /\ Running /\ Index \in Threads => Index = n

Shared ==
  SleepSuffices =>
    /\ \A t \in Threads : IsFiniteSet(Given(t))
    /\ \E q \in Nat, n \in Threads : RoundOf(q, n)

\* The steps that give a connection to a thread.
LEMMA ShareSteps ==
  ASSUME [Next]_vars
  PROVE  \/ /\ UNCHANGED <<base, target, last>> /\ (pc = "AddConnect") = (pc' = "AddConnect")
            /\ Running' => Running
         \/ AddConnect
         \/ \E c \in Conns : ListenCallBack(c)
  BY DEF Next, MainStep, WorkerStep, vars, mainVars, StartThread, InitReturns, Active, UnInit,
         SetUpBase, EnterLoop, NotifyRead, NotifyPop, HandlerConnect, HandlerConnectNullBase,
         SetUpFails, CallAfter, Running

\* Shared is kept by every step.
LEMMA SharedStep == TypeOK /\ Hands /\ SetUp /\ BaseLater /\ Shared /\ [Next]_vars => Shared'
<1> SUFFICES ASSUME TypeOK, Hands, SetUp, BaseLater, Shared, [Next]_vars, SleepSuffices
             PROVE  Shared'
  BY DEF Shared
<1> USE PoolAssumption, ThreadsFact
<1>1. \A t \in Threads : IsFiniteSet(Given(t)) /\ Cardinality(Given(t)) \in Nat
  BY FS_CardinalityType DEF Shared
<1>2. PICK q \in Nat, n \in Threads : RoundOf(q, n)
  BY DEF Shared
<1>3. CASE /\ UNCHANGED <<base, target, last>> /\ (pc = "AddConnect") = (pc' = "AddConnect")
           /\ Running' => Running
  <2>1. \A t \in Threads : Given(t)' = Given(t) /\ Share(t)' = Share(t)
    BY <1>3 DEF Given, Share
  <2>2. Index' = Index
    BY <1>3 DEF Index
  <2>3. RoundOf(q, n)'
    BY <1>2, <1>3, <2>1, <2>2 DEF RoundOf
  <2>4. QED BY <1>1, <1>2, <2>1, <2>3 DEF Shared
<1>4. CASE AddConnect
  <2>1. /\ pc = "AddConnect" /\ pc' = "Active" /\ node \in Conns /\ base[node] = NULL
        /\ target \in Threads /\ HasBase(target) /\ base' = [base EXCEPT ![node] = target]
        /\ UNCHANGED <<last, target, fault>>
    BY <1>4 DEF AddConnect, CallAfter, Hands, BaseLater, TypeOK, SetUp, HasBase, HasPipe
  <2>2. \A t \in Threads : t # target => Given(t)' = Given(t)
    BY <2>1 DEF Given, TypeOK
  <2>3. Given(target)' = Given(target) \cup {node} /\ node \notin Given(target)
    BY <2>1 DEF Given, TypeOK, Threads
  <2>4. IsFiniteSet(Given(target)') /\ Cardinality(Given(target)') = Cardinality(Given(target)) + 1
    BY <1>1, <2>1, <2>3, FS_AddElement
  <2>5. ASSUME NEW t \in Threads PROVE IsFiniteSet(Given(t)') /\ Share(t)' = Share(t)
    <3>1. CASE t = target
      BY <1>1, <2>1, <2>4, <3>1 DEF Share, Flag
    <3>2. CASE t # target
      BY <1>1, <2>1, <2>2, <3>2 DEF Share, Flag
    <3>3. QED BY <3>1, <3>2
  <2>6. RoundOf(q, n)'
    BY <1>2, <2>1, <2>5 DEF RoundOf, Index, Running
  <2>7. QED BY <1>2, <2>5, <2>6 DEF Shared
<1>5. ASSUME NEW c \in Conns, ListenCallBack(c) PROVE Shared'
  <2>1. /\ Running /\ pc = "Loop" /\ last' = Increment(last) /\ UNCHANGED base
        /\ IF Index \in Threads THEN pc' = "AddConnect" /\ target' = Index /\ UNCHANGED fault
                                ELSE UNCHANGED <<pc, target>> /\ fault' = "index"
    BY <1>5 DEF ListenCallBack, CallAfter, Index
  <2>2. ASSUME NEW t \in Threads PROVE Given(t)' = Given(t) /\ Share(t) = Cardinality(Given(t))
    <3>1. Given(t)' = Given(t)
      BY <2>1 DEF Given
    <3>2. Cardinality(Given(t)) + 0 = Cardinality(Given(t))
      BY <1>1
    <3>3. QED BY <2>1, <3>1, <3>2 DEF Share, Flag
  <2>3. CASE Index \notin Threads
    <3>1. \A t \in Threads : Share(t)' = Share(t)
      BY <1>1, <2>1, <2>2, <2>3 DEF Share, Flag
    <3>2. RoundOf(q, n)'
      BY <1>2, <2>1, <2>3, <3>1 DEF RoundOf, Running
    <3>3. QED BY <1>1, <1>2, <2>2, <3>2 DEF Shared
  <2>4. CASE Index \in Threads
    <3>1. Index = n /\ pc' = "AddConnect" /\ target' = n /\ fault' = fault
      BY <1>2, <2>1, <2>4 DEF RoundOf
    <3>2. \A t \in Threads : Share(t)' = Share(t) + Flag(t = n)
      BY <1>1, <2>2, <3>1 DEF Share, Flag
    <3>3. \A t \in Threads : Share(t) = q + Flag(t < n)
      BY <1>2 DEF RoundOf
    <3>4. Index' \in Threads => Index' = IF n + 1 < NThreads THEN n + 1 ELSE 0
      <4>1. Index' = Remainder(Increment(last'), NThreads)
        BY DEF Index
      <4>2. last' \in -(MaxInt + 1) .. MaxInt /\ Remainder(last', NThreads) = n
        BY <2>1, <3>1, IncrementType DEF Index, TypeOK
      <4>3. QED BY <4>1, <4>2, IndexTurns
    <3>5. CASE n + 1 < NThreads
      <4>1. n + 1 \in Threads
        BY <3>5 DEF Threads
      <4>2. \A t \in Threads : Share(t)' = q + Flag(t < n + 1)
        BY <3>2, <3>3 DEF Flag
      <4>3. RoundOf(q, n + 1)'
        BY <3>1, <3>4, <3>5, <4>2 DEF RoundOf
      <4>4. QED BY <1>1, <2>2, <4>1, <4>3 DEF Shared
    <3>6. CASE ~(n + 1 < NThreads)
      <4>1. n = NThreads - 1
        BY <3>6 DEF Threads
      <4>2. \A t \in Threads : Flag(t < n) + Flag(t = n) = 1 /\ Flag(t < 0) = 0
        BY <4>1 DEF Threads, Flag
      <4>3. \A t \in Threads : Share(t)' = (q + 1) + Flag(t < 0)
        BY <3>2, <3>3, <4>2 DEF Flag
      <4>4. RoundOf(q + 1, 0)'
        BY <3>4, <3>6, <4>3 DEF RoundOf
      <4>5. QED BY <1>1, <2>2, <4>4 DEF Shared
    <3>7. QED BY <3>5, <3>6
  <2>5. QED BY <2>3, <2>4
<1>6. QED BY <1>3, <1>4, <1>5, ShareSteps

\* No thread is ever given two connections more than another.
THEOREM LoadShared == Spec => []Balanced
<1>1. Init => Shared
  <2> SUFFICES ASSUME Init PROVE Shared
    OBVIOUS
  <2>1. \A t \in Threads : Given(t) = {}
    BY PoolAssumption DEF Init, Given, Threads
  <2>2. \A t \in Threads : IsFiniteSet(Given(t)) /\ Cardinality(Given(t)) = 0
    BY <2>1, FS_EmptySet
  <2>3. \A t \in Threads : Share(t) = 0 + Flag(t < 0)
    BY <2>2 DEF Init, Share, Flag, Threads
  <2>4. Index = 0
    <3>1. Increment(last) = 0
      BY PoolAssumption DEF Init, Increment
    <3>2. 0 % NThreads = 0
      BY PoolAssumption
    <3>3. QED BY <3>1, <3>2 DEF Index, Remainder
  <2>5. RoundOf(0, 0)
    BY <2>3, <2>4 DEF RoundOf
  <2>6. QED BY <2>2, <2>5, ThreadsFact DEF Shared
<1>2. TypeOK /\ Shared => Balanced
  <2> SUFFICES ASSUME TypeOK, Shared, SleepSuffices, NEW t \in Threads, NEW u \in Threads
               PROVE  Cardinality(Given(t)) <= Cardinality(Given(u)) + 1
    BY DEF Balanced, Given
  <2>1. Cardinality(Given(t)) \in Nat /\ Cardinality(Given(u)) \in Nat
    BY FS_CardinalityType DEF Shared
  <2>2. PICK q \in Nat, n \in Threads : RoundOf(q, n)
    BY DEF Shared
  <2>3. Share(t) = q + Flag(t < n) /\ Share(u) = q + Flag(u < n)
    BY <2>2 DEF RoundOf
  <2>4. pc = "AddConnect" /\ target = u => u < n \/ n = 0
    BY <2>2 DEF RoundOf
  <2>5. QED BY <2>1, <2>3, <2>4, ThreadsFact DEF Share, Flag, Threads
<1>3. QED BY <1>1, <1>2, SharedStep, BaseLaterAlways, SetUpAlways, TypeCorrect, PTL DEF Spec
=============================================================================
