----------------------------- MODULE WorkerPool -----------------------------
(***************************************************************************)
(* The server's thread pool: XThreadPool (core/threadPool.cpp), Xthread    *)
(* (core/xthread.cpp), the listener callback of main.cpp that feeds them   *)
(* and NodeConnect::HandlerConnect, which a worker calls for each          *)
(* connection it takes.                                                    *)
(*                                                                         *)
(* The main thread creates the workers, then accepts connections.  Every   *)
(* accepted connection is given to the next worker in turn: it is pushed   *)
(* on the worker's list under the worker's mutex, and one byte is written  *)
(* to the worker's pipe.  The worker's event loop reads one byte, pops one *)
(* connection under the mutex and installs the connection's callbacks.     *)
(* Each access made under m_mutex is one step.                             *)
(***************************************************************************)
EXTENDS Integers, Sequences, FiniteSets

CONSTANTS
  Conns,          \* the NodeConnect objects ListenCallBack may create
  NThreads,       \* m_nThreadCount (5 in main.cpp)
  PipeCap,        \* bytes a pipe holds before write() blocks (65536 on Linux)
  MaxInt,         \* largest value of the int m_indexLastUseThread (2^31 - 1)
  SleepSuffices,  \* TRUE: the 100 ms sleep of XThreadPool::Init outlasts SetUpEvent
  NULL

ASSUME PoolAssumption ==
  /\ NThreads \in Nat \ {0}
  /\ PipeCap \in Nat \ {0}
  /\ MaxInt \in Nat \ {0}
  /\ SleepSuffices \in BOOLEAN
  /\ NULL \notin Int
  /\ NULL \notin Conns

Threads == 0 .. NThreads - 1    \* the indices of m_vecThread

VARIABLES
  pc,        \* where the main thread is
  last,      \* m_indexLastUseThread
  node,      \* the pNode of the DispatchThread call in progress
  target,    \* the index of the thread that call chose
  created,   \* number of Xthreads in m_vecThread
  worker,    \* worker[t]: where thread t is
  list,      \* list[t]: m_listconnect of thread t
  pipe,      \* pipe[t]: bytes in the pipe of thread t
  taken,     \* taken[t]: pConnect, the connection popped by Notify
  base,      \* base[c]: the thread whose event base is c's m_pBase, or NULL
  state,     \* state[c]: what became of connection c
  fault      \* what brought the process down, "none" while it is up

mainVars == <<pc, last, node, target, created>>
vars == <<pc, last, node, target, created, worker, list, pipe, taken, base, state, fault>>

MainPcs     == {"Init", "Loop", "AddConnect", "Active", "UnInit"}
WorkerPcs   == {"absent", "starting", "based", "loop", "notified", "handling"}
ConnStates  == {"fresh", "dispatched", "open", "orphan", "deleted"}
Faults      == {"none", "setup", "index", "nullbase"}

TypeOK ==
  /\ pc \in MainPcs
  /\ last \in -(MaxInt + 1) .. MaxInt
  /\ node \in Conns \cup {NULL}
  /\ target \in Threads
  /\ created \in 0 .. NThreads
  /\ worker \in [Threads -> WorkerPcs]
  /\ list \in [Threads -> Seq(Conns)]
  /\ pipe \in [Threads -> 0 .. PipeCap]
  /\ taken \in [Threads -> Conns \cup {NULL}]
  /\ base \in [Conns -> Threads \cup {NULL}]
  /\ state \in [Conns -> ConnStates]
  /\ fault \in Faults

-----------------------------------------------------------------------------
(* Helpers *)

Running == fault = "none"

\* Mutation of Increment: the index is incremented twice per connection.
IncrementTwice(i) == i + 2

\* The int m_indexLastUseThread++ in two's complement.
Increment(i) == IF i = MaxInt THEN -(MaxInt + 1) ELSE i + 1

\* Mutation of Remainder: the index is used as it is.
NoRemainder(i, n) == i

\* The remainder of C++: it has the sign of the dividend.
Remainder(i, n) == IF i >= 0 THEN i % n ELSE -((-i) % n)

\* m_base has been assigned by SetUpEvent; so has m_fdPipeWirte.
HasBase(t) == worker[t] \notin {"absent", "starting"}
HasPipe(t) == worker[t] \notin {"absent", "starting", "based"}

\* Mutation of CallAfter: the worker is notified before the push.
NotifyFirst == [Loop |-> "Active", Active |-> "AddConnect", AddConnect |-> "Loop"]

\* The order of the calls in DispatchThread: the connection is on the list
\* before the worker is notified.
CallAfter == [Loop |-> "AddConnect", AddConnect |-> "Active", Active |-> "Loop"]

-----------------------------------------------------------------------------
(* The main thread *)

\* One round of the loop of XThreadPool::Init: create and start a thread, sleep.
\* The sleep is the only thing that makes Init wait for the thread before it.
StartThread ==
  /\ Running /\ pc = "Init" /\ created < NThreads
  /\ SleepSuffices => \A t \in 0 .. created - 1 : HasPipe(t)
  /\ worker' = [worker EXCEPT ![created] = "starting"]
  /\ created' = created + 1
  /\ UNCHANGED <<pc, last, node, target, list, pipe, taken, base, state, fault>>

\* XThreadPool::Init returns and main runs its event loop.
InitReturns ==
  /\ Running /\ pc = "Init" /\ created = NThreads
  /\ SleepSuffices => \A t \in Threads : HasPipe(t)
  /\ pc' = "Loop"
  /\ UNCHANGED <<last, node, target, created, worker, list, pipe, taken, base, state, fault>>

\* ListenCallBack: a NodeConnect is created and DispatchThread picks the next
\* thread.  A negative index reads outside m_vecThread.
ListenCallBack(c) ==
  LET index == Remainder(Increment(last), NThreads) IN
  /\ Running /\ pc = "Loop" /\ state[c] = "fresh"
  /\ last' = Increment(last)
  /\ node' = c
  /\ IF index \in Threads
       THEN /\ pc' = CallAfter["Loop"]
            /\ target' = index
            /\ state' = [state EXCEPT ![c] = "dispatched"]
            /\ UNCHANGED fault
       ELSE /\ fault' = "index"
            /\ UNCHANGED <<pc, target, state>>
  /\ UNCHANGED <<created, worker, list, pipe, taken, base>>

\* Mutation of AddConnect: push_front.
AddConnectFront ==
  /\ Running /\ pc = "AddConnect"
  /\ base' = [base EXCEPT ![node] = IF HasBase(target) THEN target ELSE NULL]
  /\ list' = [list EXCEPT ![target] = <<node>> \o @]
  /\ pc' = CallAfter["AddConnect"]
  /\ UNCHANGED <<last, node, target, created, worker, pipe, taken, state, fault>>

\* Mutation of AddConnect: no SetBase.
AddConnectWithoutBase ==
  /\ Running /\ pc = "AddConnect"
  /\ list' = [list EXCEPT ![target] = Append(@, node)]
  /\ pc' = CallAfter["AddConnect"]
  /\ UNCHANGED <<last, node, target, created, worker, pipe, taken, base, state, fault>>

\* Xthread::AddConnect: SetBase with whatever m_base holds, push under the mutex.
AddConnect ==
  /\ Running /\ pc = "AddConnect"
  /\ base' = [base EXCEPT ![node] = IF HasBase(target) THEN target ELSE NULL]
  /\ list' = [list EXCEPT ![target] = Append(@, node)]
  /\ pc' = CallAfter["AddConnect"]
  /\ UNCHANGED <<last, node, target, created, worker, pipe, taken, state, fault>>

\* Mutation of Active: a full pipe is an error that is only logged.
ActiveGivesUp ==
  /\ Running /\ pc = "Active"
  /\ pipe' = [pipe EXCEPT ![target] = IF HasPipe(target) /\ @ < PipeCap THEN @ + 1 ELSE @]
  /\ pc' = CallAfter["Active"]
  /\ UNCHANGED <<last, node, target, created, worker, list, taken, base, state, fault>>

\* Xthread::Active: one byte into the pipe, blocking while it is full.  Before
\* SetUpEvent has stored the descriptor it is 0, and the byte goes elsewhere.
Active ==
  /\ Running /\ pc = "Active"
  /\ IF HasPipe(target)
       THEN pipe[target] < PipeCap /\ pipe' = [pipe EXCEPT ![target] = @ + 1]
       ELSE UNCHANGED pipe
  /\ pc' = CallAfter["Active"]
  /\ UNCHANGED <<last, node, target, created, worker, list, taken, base, state, fault>>

\* The main event loop ends and UnInit joins the threads.  Their loops hold the
\* persistent pipe event and do not end, so the join does not return.
UnInit ==
  /\ Running /\ pc = "Loop"
  /\ pc' = "UnInit"
  /\ UNCHANGED <<last, node, target, created, worker, list, pipe, taken, base, state, fault>>

-----------------------------------------------------------------------------
(* Worker t *)

\* SetUpEvent, first half: the pipe and the event base exist, m_base is assigned.
SetUpBase(t) ==
  /\ Running /\ worker[t] = "starting"
  /\ worker' = [worker EXCEPT ![t] = "based"]
  /\ UNCHANGED <<mainVars, list, pipe, taken, base, state, fault>>

\* SetUpEvent fails and returns false; Run does not look and dispatches a null base.
SetUpFails(t) ==
  /\ Running /\ worker[t] = "starting"
  /\ fault' = "setup"
  /\ UNCHANGED <<mainVars, worker, list, pipe, taken, base, state>>

\* SetUpEvent, second half: m_fdPipeWirte is assigned, the pipe event is added
\* and the thread enters its loop.
EnterLoop(t) ==
  /\ Running /\ worker[t] = "based"
  /\ worker' = [worker EXCEPT ![t] = "loop"]
  /\ UNCHANGED <<mainVars, list, pipe, taken, base, state, fault>>

\* Mutation of NotifyRead: the byte is left in the pipe.
NotifyPeek(t) ==
  /\ Running /\ worker[t] = "loop" /\ pipe[t] > 0
  /\ worker' = [worker EXCEPT ![t] = "notified"]
  /\ UNCHANGED <<mainVars, list, pipe, taken, base, state, fault>>

\* Notify, before the lock: one byte is read.
NotifyRead(t) ==
  /\ Running /\ worker[t] = "loop" /\ pipe[t] > 0
  /\ pipe' = [pipe EXCEPT ![t] = @ - 1]
  /\ worker' = [worker EXCEPT ![t] = "notified"]
  /\ UNCHANGED <<mainVars, list, taken, base, state, fault>>

\* Mutation of NotifyPop: front() without pop_front().
NotifyFront(t) ==
  /\ Running /\ worker[t] = "notified"
  /\ IF list[t] = <<>>
       THEN /\ worker' = [worker EXCEPT ![t] = "loop"]
            /\ UNCHANGED taken
       ELSE /\ taken' = [taken EXCEPT ![t] = Head(list[t])]
            /\ worker' = [worker EXCEPT ![t] = "handling"]
  /\ UNCHANGED <<mainVars, list, pipe, base, state, fault>>

\* Notify, under the lock: pop the front of the list, or give up if it is empty.
NotifyPop(t) ==
  /\ Running /\ worker[t] = "notified"
  /\ IF list[t] = <<>>
       THEN /\ worker' = [worker EXCEPT ![t] = "loop"]
            /\ UNCHANGED <<list, taken>>
       ELSE /\ taken' = [taken EXCEPT ![t] = Head(list[t])]
            /\ list' = [list EXCEPT ![t] = Tail(@)]
            /\ worker' = [worker EXCEPT ![t] = "handling"]
  /\ UNCHANGED <<mainVars, pipe, base, state, fault>>

\* HandlerConnect with the event base of a thread: the callbacks are installed,
\* or no bufferevent can be made and the object deletes itself.
HandlerConnect(t) ==
  /\ Running /\ worker[t] = "handling" /\ base[taken[t]] # NULL
  /\ \E s \in {"open", "deleted"} : state' = [state EXCEPT ![taken[t]] = s]
  /\ taken' = [taken EXCEPT ![t] = NULL]
  /\ worker' = [worker EXCEPT ![t] = "loop"]
  /\ UNCHANGED <<mainVars, list, pipe, base, fault>>

\* HandlerConnect with a null event base: depending on its version libevent
\* makes a bufferevent whose events cannot be added, or dereferences the base.
HandlerConnectNullBase(t) ==
  /\ Running /\ worker[t] = "handling" /\ base[taken[t]] = NULL
  /\ \/ /\ state' = [state EXCEPT ![taken[t]] = "orphan"]
        /\ UNCHANGED fault
     \/ /\ fault' = "nullbase"
        /\ UNCHANGED state
  /\ taken' = [taken EXCEPT ![t] = NULL]
  /\ worker' = [worker EXCEPT ![t] = "loop"]
  /\ UNCHANGED <<mainVars, list, pipe, base>>

-----------------------------------------------------------------------------
(* The specification *)

Init ==
  /\ pc = "Init"
  /\ last = -1
  /\ node = NULL
  /\ target = 0
  /\ created = 0
  /\ worker = [t \in Threads |-> "absent"]
  /\ list = [t \in Threads |-> <<>>]
  /\ pipe = [t \in Threads |-> 0]
  /\ taken = [t \in Threads |-> NULL]
  /\ base = [c \in Conns |-> NULL]
  /\ state = [c \in Conns |-> "fresh"]
  /\ fault = "none"

\* The main thread, apart from what its environment brings (a connection, the
\* end of the event loop).
MainStep == StartThread \/ InitReturns \/ AddConnect \/ Active

WorkerStep(t) ==
  \/ SetUpBase(t) \/ EnterLoop(t)
  \/ NotifyRead(t) \/ NotifyPop(t)
  \/ HandlerConnect(t) \/ HandlerConnectNullBase(t)

Next ==
  \/ MainStep \/ UnInit
  \/ \E c \in Conns : ListenCallBack(c)
  \/ \E t \in Threads : WorkerStep(t) \/ SetUpFails(t)

Spec == Init /\ [][Next]_vars

\* Threads are scheduled: the main thread inside a call, and every worker.
Fairness == WF_vars(MainStep) /\ \A t \in Threads : WF_vars(WorkerStep(t))

FairSpec == Spec /\ Fairness

-----------------------------------------------------------------------------
(* Properties *)

Flag(b) == IF b THEN 1 ELSE 0

\* Wake-ups on their way to thread t: bytes in its pipe, a byte read and not yet
\* used, and the byte of a connection pushed and not yet announced.
Wakeups(t) == pipe[t] + Flag(worker[t] = "notified") + Flag(pc = "Active" /\ target = t)

\* A byte read means that a connection has been put on the list, as the comment
\* at xthread.cpp:18 says: Notify never finds more wake-ups than connections.
NoSpuriousWakeup == \A t \in Threads : Wakeups(t) <= Len(list[t])

\* No connection is left on a list without a wake-up that will fetch it: the
\* list and the pipe, written by two threads, never disagree.
NoLostWakeup == SleepSuffices => \A t \in Threads : Len(list[t]) <= Wakeups(t)

\* Event bases are made without locks (xthread.cpp:87), so a connection may only
\* be handled by the thread that runs the base SetBase gave it.
ThreadAffinity ==
  SleepSuffices =>
    \A t \in Threads :
      /\ \A i \in 1 .. Len(list[t]) : base[list[t][i]] = t
      /\ taken[t] # NULL => base[taken[t]] = t

\* The places where a connection can be on its way to its callbacks.
Homes(c) ==
  (UNION {{<<t, i>> : i \in {j \in 1 .. Len(list[t]) : list[t][j] = c}} : t \in Threads})
    \cup {<<t, 0>> : t \in {u \in Threads : taken[u] = c}}
    \cup (IF pc = "AddConnect" /\ node = c THEN {<<-1, 0>>} ELSE {})

\* A dispatched connection is in exactly one place, any other in none: none is
\* handled twice or dropped between the main thread and its worker.
OneHome ==
  Running => \A c \in Conns : Cardinality(Homes(c)) = Flag(state[c] = "dispatched")

\* Round robin: no thread is ever given two connections more than another.
Balanced ==
  SleepSuffices =>
    \A t, u \in Threads :
      Cardinality({c \in Conns : base[c] = t}) <= Cardinality({c \in Conns : base[c] = u}) + 1

\* DispatchThread indexes outside m_vecThread only once more connections have
\* been accepted than m_indexLastUseThread can count.
IndexFaultNeedsOverflow ==
  fault = "index" => Cardinality({c \in Conns : state[c] # "fresh"}) > MaxInt

\* What worker t has been offered and not served: the connection it is handling,
\* its list, and the connection DispatchThread is about to push.
LineOf(t) ==
  (IF taken[t] = NULL THEN <<>> ELSE <<taken[t]>>)
    \o list[t]
    \o (IF pc = "AddConnect" /\ target = t THEN <<node>> ELSE <<>>)

H == INSTANCE Handoff WITH
       Workers <- Threads,
       line    <- [t \in Threads |-> LineOf(t)],
       outcome <- state

\* The pool implements the hand-off: each worker serves the connections given to
\* it in the order they were accepted, each of them once.
ImplementsHandoff == H!Spec

\* "Dispatch the task to a thread for execution" (threadPool.h:22): an accepted
\* connection gets its callbacks, or is deleted, while the process is up.
EveryNodeServed ==
  \A c \in Conns :
    state[c] = "dispatched" ~> (state[c] \in {"open", "deleted"} \/ ~Running)

\* DispatchThread returns, full pipe or not: the main thread goes back to its
\* loop, where it also answers the HTTP requests.
DispatchReturns == pc \in {"AddConnect", "Active"} ~> pc = "Loop"
=============================================================================
