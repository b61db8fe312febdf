-------------------------------- MODULE Logger --------------------------------
(***************************************************************************)
(* The log of the server and of the client: LogerManager (3rd/log/log4z.cpp)*)
(* with the one logger that MainLog::init (mainLog.cpp) sets up.           *)
(*                                                                         *)
(* A thread that logs checks the state of the logger, takes a LogData from *)
(* a list of free ones, checks again and appends it to _logs.  The log     *)
(* thread takes all of _logs at once into _logsCache and handles it record *)
(* by record.  Changes of the logger that switch something off travel      *)
(* through the same queue.  The free list and _logs have a mutex each; the *)
(* flags, and the tests of the sizes, have none: a call that looks at a    *)
(* flag and then writes it may write on the word of a test that no longer  *)
(* holds.                                                                  *)
(*                                                                         *)
(* stop() runs in the destructor, when the main thread leaves main or calls*)
(* exit.  Only the client gets there: the main thread of the server stays  *)
(* in UnInit (module WorkerPool).                                          *)
(***************************************************************************)
EXTENDS Naturals, Sequences, FiniteSets

CONSTANTS
  Programs,    \* the sets of threads that log, one for each program
  Main,        \* the thread that starts and stops the log
  LOG,         \* the log thread
  Levels,      \* levels of records and of the logger
  Banner,      \* records that the log thread writes about itself
  MaxCalls,    \* bound: calls of all the threads together
  FreeLimit,   \* the size from which the free list takes no more (200 in the code)
  NULL

ASSUME LoggerAssumption ==
  /\ \A p \in Programs : Main \in p /\ LOG \notin p /\ IsFiniteSet(p)
  /\ Levels \subseteq Nat
  /\ Banner \in Nat /\ MaxCalls \in Nat /\ FreeLimit \in Nat

VARIABLES
  threads,     \* the threads of this program that log
  running,     \* _runing
  enable,      \* _enable of the logger
  level,       \* _level of the logger
  outfile,     \* _outfile of the logger
  free,        \* _freeLogDatas.size()
  logs,        \* _logs
  cache,       \* _logsCache
  pc,          \* pc[t]: where thread t is in a call
  rec,         \* rec[t]: what is in the LogData in t's hands, or NULL
  calls,       \* the calls that have been made
  banner,      \* those that the log thread has made
  lpc,         \* where the log thread is in run
  mpc,         \* where the main thread is in start and stop
  accepted,    \* every record and change appended to _logs, in order
  fate,        \* what became of those the log thread has handled, in order
  stale        \* history: changes made at once whose tests no longer held

flags == <<running, enable, level, outfile>>
call  == <<pc, rec, calls, banner>>
vars  == <<threads, flags, free, logs, cache, call, lpc, mpc, accepted, fate, stale>>

Callers == threads \cup {LOG}

\* A record of some level, or a change for the log thread to apply.
Records == [type : {"GENERAL", "LEVEL"}, val : Levels] \cup [type : {"ENABLE"}, val : {FALSE}]

Record(l) == [type |-> "GENERAL", val |-> l]

\* The test that prePushLog and pushLog make, each at its own time.
Passes(r) == running /\ enable /\ r.val >= level

-----------------------------------------------------------------------------
(* Threads that log *)

\* Main calls the log before it starts it, to configure it, and between start and
\* stop; the log thread logs through the same calls when it begins.
CanCall(t) ==
  /\ pc[t] = "idle"
  /\ IF t = LOG
     THEN lpc = "banner" /\ mpc # "stopped" /\ banner < Banner
     ELSE mpc \in {"init", "up"} /\ calls < MaxCalls
  /\ mpc = "init" => t = Main

Calls(t)   == IF t = LOG
            THEN banner' = banner + 1 /\ UNCHANGED calls
            ELSE calls' = calls + 1 /\ UNCHANGED banner
GoTo(t, l) == pc' = [pc EXCEPT ![t] = l]

\* LOG_FORMAT: prePushLog filters the call, or it goes on to makeLogData.  The
\* wait that prePushLog makes when _logs is long changes nothing.
PrePushLog(t, l) ==
  /\ CanCall(t)
  /\ Calls(t)
  /\ IF Passes(Record(l))
     THEN GoTo(t, "make") /\ rec' = [rec EXCEPT ![t] = Record(l)]
     ELSE UNCHANGED <<pc, rec>>
  /\ UNCHANGED <<threads, flags, free, logs, cache, lpc, mpc, accepted, fate, stale>>

\* onHotChange.
Apply(r) ==
  /\ enable' = IF r.type = "ENABLE" THEN r.val ELSE enable
  /\ level'  = IF r.type = "LEVEL" THEN r.val ELSE level
  /\ UNCHANGED <<running, outfile>>

\* Where hotChange goes by its test of _runing: to onHotChange at once, or by way of the
\* queue.
HotChange == IF running THEN "make" ELSE "apply"

\* Mutation of EnableLogger: it disables the logger at once, too.
EnableAtOnce(t, e) ==
  /\ CanCall(t) /\ t # LOG
  /\ Calls(t)
  /\ enable' = e /\ UNCHANGED <<running, level, outfile, pc, rec>>
  /\ UNCHANGED <<threads, free, logs, cache, lpc, mpc, accepted, fate, stale>>

\* enableLogger enables at once and disables by a change.
EnableLogger(t, e) ==
  /\ CanCall(t) /\ t # LOG
  /\ Calls(t)
  /\ IF e
     THEN enable' = TRUE /\ UNCHANGED <<running, level, outfile, pc, rec>>
     ELSE /\ GoTo(t, HotChange)
          /\ rec' = [rec EXCEPT ![t] = [type |-> "ENABLE", val |-> FALSE]]
          /\ UNCHANGED flags
  /\ UNCHANGED <<threads, free, logs, cache, lpc, mpc, accepted, fate, stale>>

\* setLoggerLevel looks at the level: it will lower it at once, or raise it by a change.
SetLoggerLevel(t, l) ==
  /\ CanCall(t) /\ t # LOG
  /\ Calls(t)
  /\ GoTo(t, IF l <= level THEN "lower" ELSE "raise")
  /\ rec' = [rec EXCEPT ![t] = [type |-> "LEVEL", val |-> l]]
  /\ UNCHANGED <<threads, flags, free, logs, cache, lpc, mpc, accepted, fate, stale>>

\* hotChange, called by setLoggerLevel, looks at _runing.
RaiseLevel(t) ==
  /\ pc[t] = "raise"
  /\ GoTo(t, HotChange)
  /\ UNCHANGED <<threads, flags, free, logs, cache, rec, calls, banner, lpc, mpc, accepted, fate, stale>>

\* What t's test has found is no longer so: the log runs, or the level has been lowered.
Overtaken(t) == IF pc[t] = "apply" THEN running ELSE rec[t].val > level

\* The change in t's hands is made at once: by the assignment in setLoggerLevel, or by
\* onHotChange.
ChangeAtOnce(t) ==
  /\ pc[t] \in {"lower", "apply"}
  /\ Apply(rec[t])
  /\ stale' = IF Overtaken(t) THEN stale \cup {rec[t]} ELSE stale
  /\ GoTo(t, "idle") /\ rec' = [rec EXCEPT ![t] = NULL]
  /\ UNCHANGED <<threads, free, logs, cache, calls, banner, lpc, mpc, accepted, fate>>

\* makeLogData: the last of the free ones, or a new one.
MakeLogData(t) ==
  /\ pc[t] = "make"
  /\ free' = IF free > 0 THEN free - 1 ELSE free
  /\ GoTo(t, IF rec[t].type = "GENERAL" THEN "check" ELSE "enqueue")
  /\ UNCHANGED <<threads, flags, logs, cache, rec, calls, banner, lpc, mpc, accepted, fate, stale>>

\* pushLog looks at the logger again and may give the LogData back.
PushCheck(t) ==
  /\ pc[t] = "check"
  /\ IF Passes(rec[t])
     THEN GoTo(t, "enqueue") /\ UNCHANGED rec
     ELSE GoTo(t, "free") /\ rec' = [rec EXCEPT ![t] = NULL]
  /\ UNCHANGED <<threads, flags, free, logs, cache, calls, banner, lpc, mpc, accepted, fate, stale>>

\* The end of pushLog and of hotChange, with the mutex of _logs.
Enqueue(t) ==
  /\ pc[t] = "enqueue"
  /\ logs' = Append(logs, rec[t]) /\ accepted' = Append(accepted, rec[t])
  /\ GoTo(t, "idle") /\ rec' = [rec EXCEPT ![t] = NULL]
  /\ UNCHANGED <<threads, flags, free, cache, calls, banner, lpc, mpc, fate, stale>>

\* Mutation of FreeCheck: off by one.
FreeCheckPast(t) ==
  /\ pc[t] = "free"
  /\ GoTo(t, IF free <= FreeLimit THEN "return" ELSE "idle")
  /\ UNCHANGED <<threads, flags, free, logs, cache, rec, calls, banner, lpc, mpc, accepted, fate, stale>>

\* freeLogData looks at the size of the free list without its mutex and gives the
\* LogData to the list, or its memory back.
FreeCheck(t) ==
  /\ pc[t] = "free"
  /\ GoTo(t, IF free < FreeLimit THEN "return" ELSE "idle")
  /\ UNCHANGED <<threads, flags, free, logs, cache, rec, calls, banner, lpc, mpc, accepted, fate, stale>>

FreeReturn(t) ==
  /\ pc[t] = "return"
  /\ free' = free + 1
  /\ GoTo(t, "idle")
  /\ UNCHANGED <<threads, flags, logs, cache, rec, calls, banner, lpc, mpc, accepted, fate, stale>>

\* What a thread does within a call that it has begun, while the process lives.
CallGoesOn(t) ==
  /\ mpc # "stopped"
  /\ \/ RaiseLevel(t) \/ ChangeAtOnce(t)
     \/ MakeLogData(t) \/ PushCheck(t) \/ Enqueue(t) \/ FreeCheck(t) \/ FreeReturn(t)

-----------------------------------------------------------------------------
(* The log thread: run *)

Begin ==
  /\ lpc = "begin" /\ lpc' = "banner"
  /\ running' = TRUE
  /\ UNCHANGED <<threads, enable, level, outfile, free, logs, cache, call, mpc, accepted, fate, stale>>

BannerDone ==
  /\ lpc = "banner" /\ pc[LOG] = "idle" /\ banner = Banner
  /\ lpc' = "loop"
  /\ UNCHANGED <<threads, flags, free, logs, cache, call, mpc, accepted, fate, stale>>

\* Mutation of PopLog: it swaps whether or not anything is left in the cache.
PopSwaps ==
  /\ lpc = "loop" /\ pc[LOG] = "idle"
  /\ logs \o cache # <<>>
  /\ LET first == IF logs = <<>> THEN cache ELSE logs
     IN  /\ cache' = Tail(first)
         /\ logs' = IF logs = <<>> THEN <<>> ELSE cache
         /\ rec' = [rec EXCEPT ![LOG] = Head(first)]
  /\ lpc' = "have"
  /\ UNCHANGED <<threads, flags, free, pc, calls, banner, mpc, accepted, fate, stale>>

\* popLog finds something: in the cache, or in _logs, which becomes the cache.
PopLog ==
  /\ lpc = "loop" /\ pc[LOG] = "idle"
  /\ logs \o cache # <<>>
  /\ LET first == IF cache = <<>> THEN logs ELSE cache
     IN  /\ cache' = Tail(first)
         /\ logs' = IF cache = <<>> THEN <<>> ELSE logs
         /\ rec' = [rec EXCEPT ![LOG] = Head(first)]
  /\ lpc' = "have"
  /\ UNCHANGED <<threads, flags, free, pc, calls, banner, mpc, accepted, fate, stale>>

\* What happens to a record or a change.  openLogger may fail to open a file, and
\* the logger writes to no file from then on.
Outcome(r) ==
  IF r.type # "GENERAL" THEN {"applied"}
  ELSE IF ~enable \/ r.val < level THEN {"dropped"}
  ELSE IF outfile THEN {"written", "unwritten"} ELSE {"shown"}

\* The body of the inner loop; what follows is freeLogData.
Handle ==
  /\ lpc = "have"
  /\ \E o \in Outcome(rec[LOG]) :
       /\ fate' = Append(fate, o)
       /\ IF o = "applied"
          THEN Apply(rec[LOG])
          ELSE outfile' = (outfile /\ o # "unwritten") /\ UNCHANGED <<running, enable, level>>
  /\ lpc' = "loop"
  /\ GoTo(LOG, "free") /\ rec' = [rec EXCEPT ![LOG] = NULL]
  /\ UNCHANGED <<threads, free, logs, cache, calls, banner, mpc, accepted, stale>>

\* popLog finds nothing, and the log thread sleeps for 50 ms.
Idle ==
  /\ lpc = "loop" /\ pc[LOG] = "idle" /\ logs \o cache = <<>>
  /\ lpc' = "slept"
  /\ UNCHANGED <<threads, flags, free, logs, cache, call, mpc, accepted, fate, stale>>

\* Mutation of Quit: the end of the log does not wait for the queue.
QuitAtOnce ==
  /\ lpc = "slept"
  /\ lpc' = IF running THEN "loop" ELSE "closing"
  /\ UNCHANGED <<threads, flags, free, logs, cache, call, mpc, accepted, fate, stale>>

\* Mutation of Quit: an empty queue is the end of the log.
QuitWhenEmpty ==
  /\ lpc = "slept"
  /\ lpc' = IF logs = <<>> THEN "closing" ELSE "loop"
  /\ UNCHANGED <<threads, flags, free, logs, cache, call, mpc, accepted, fate, stale>>

\* The test at the end of the outer loop.
Quit ==
  /\ lpc = "slept"
  /\ lpc' = IF ~running /\ logs = <<>> THEN "closing" ELSE "loop"
  /\ UNCHANGED <<threads, flags, free, logs, cache, call, mpc, accepted, fate, stale>>

\* The loop after the outer loop.
Close ==
  /\ lpc = "closing" /\ lpc' = "done"
  /\ enable' = FALSE
  /\ UNCHANGED <<threads, running, level, outfile, free, logs, cache, call, mpc, accepted, fate, stale>>

LogThread ==
  /\ mpc # "stopped"
  /\ Begin \/ BannerDone \/ PopLog \/ Handle \/ Idle \/ Quit \/ Close

-----------------------------------------------------------------------------
(* The main thread: start and stop *)

Start ==
  /\ mpc = "init" /\ pc[Main] = "idle"
  /\ mpc' = "starting" /\ lpc' = "begin"
  /\ UNCHANGED <<threads, flags, free, logs, cache, call, accepted, fate, stale>>

\* The wait for the semaphore ends when run has posted it, or after 3 s; nobody
\* looks at the result.
StartReturns ==
  /\ mpc = "starting" /\ mpc' = "up"
  /\ UNCHANGED <<threads, flags, free, logs, cache, call, lpc, accepted, fate, stale>>

\* Mutation of Stop: it waits for a thread that it has not told to end.
StopWaitsFirst ==
  /\ mpc = "up" /\ threads = {Main} /\ pc[Main] = "idle"
  /\ mpc' = IF running THEN "join" ELSE "stopped"
  /\ UNCHANGED <<threads, flags, free, logs, cache, call, lpc, accepted, fate, stale>>

\* stop() does nothing unless the log runs, and then waits for the log thread.
Stop ==
  /\ mpc = "up" /\ threads = {Main} /\ pc[Main] = "idle"
  /\ mpc' = IF running THEN "join" ELSE "stopped"
  /\ running' = FALSE
  /\ UNCHANGED <<threads, enable, level, outfile, free, logs, cache, call, lpc, accepted, fate, stale>>

\* The join, and the end of the free list.
Joined ==
  /\ mpc = "join" /\ lpc = "done"
  /\ mpc' = "stopped" /\ free' = 0
  /\ UNCHANGED <<threads, flags, logs, cache, call, lpc, accepted, fate, stale>>

-----------------------------------------------------------------------------

Init ==
  /\ threads \in Programs
  /\ running = FALSE /\ enable = TRUE /\ outfile = TRUE
  /\ level \in Levels
  /\ free = 0 /\ logs = <<>> /\ cache = <<>>
  /\ pc = [t \in Callers |-> "idle"]
  /\ rec = [t \in Callers |-> NULL]
  /\ calls = 0 /\ banner = 0
  /\ lpc = "off" /\ mpc = "init"
  /\ accepted = <<>> /\ fate = <<>> /\ stale = {}

\* The process has ended when stop() has returned.
Next ==
  \/ \E t \in Callers :
       \/ \E l \in Levels : PrePushLog(t, l) \/ SetLoggerLevel(t, l)
       \/ \E e \in BOOLEAN : EnableLogger(t, e)
       \/ CallGoesOn(t)
  \/ LogThread
  \/ Start \/ StartReturns \/ Stop \/ Joined

Spec == Init /\ [][Next]_vars

\* A thread that is in a call, the log thread and a main thread in start or stop go
\* on; the log thread logs when it begins.  Nobody has to log, or to stop.
FairSpec ==
  /\ Spec
  /\ \A t \in UNION Programs : WF_vars(t \in threads /\ CallGoesOn(t))
  /\ WF_vars(LogThread \/ CallGoesOn(LOG) \/ \E l \in Levels : PrePushLog(LOG, l))
  /\ WF_vars(StartReturns \/ Joined)

-----------------------------------------------------------------------------
(* Properties *)

\* Where a thread can be in a call.
Places == {"idle", "raise", "lower", "apply", "make", "check", "enqueue", "free", "return"}

\* Every variable keeps its type.
TypeOK ==
  /\ threads \in Programs
  /\ running \in BOOLEAN /\ enable \in BOOLEAN /\ outfile \in BOOLEAN
  /\ level \in Levels
  /\ free \in Nat
  /\ logs \in Seq(Records) /\ cache \in Seq(Records) /\ accepted \in Seq(Records)
  /\ pc \in [Callers -> Places]
  /\ rec \in [Callers -> Records \cup {NULL}]
  /\ calls \in Nat /\ banner \in 0 .. Banner
  /\ lpc \in {"off", "begin", "banner", "loop", "have", "slept", "closing", "done"}
  /\ mpc \in {"init", "starting", "up", "join", "stopped"}
  /\ fate \in Seq({"applied", "dropped", "written", "unwritten", "shown"})
  /\ stale \subseteq Records

\* What the log thread holds, the cache and _logs are, in this order, what has been
\* appended and not handled: records are handled in the order of the appends, none
\* twice, none left out, through two queues of which one is read without a mutex.
Waiting == (IF lpc = "have" THEN <<rec[LOG]>> ELSE <<>>) \o cache \o logs

InOrder == Waiting = SubSeq(accepted, Len(fate) + 1, Len(accepted))

\* The free list can outgrow its limit, by the unlocked test of its size, but only
\* by the number of the other threads that may be in freeLogData with it.
Returning == {t \in Callers : pc[t] = "return"}

FreeBound == free + Cardinality(Returning) <= FreeLimit + Cardinality(Callers) - 1

\* A change that discards a record when it comes first.
Discards(c, r) == c.type = "ENABLE" \/ (c.type = "LEVEL" /\ c.val > r.val)

\* "immediately when enable, and queue up when disable", thread safe (log4z.h:344-349): a
\* record that was appended is only discarded by a change that was appended before it.
DiscardNeedsChange ==
  \A k \in 1 .. Len(fate) :
    fate[k] = "dropped" => \E j \in 1 .. k - 1 : Discards(accepted[j], accepted[k])

\* That much is true: it is discarded by such a change, or by one that was made at once on
\* the word of a test that another thread had overtaken (setLoggerLevel, hotChange).
DiscardExplained ==
  \A k \in 1 .. Len(fate) :
    fate[k] = "dropped" =>
      \/ \E j \in 1 .. k - 1 : Discards(accepted[j], accepted[k])
      \/ \E c \in stale : Discards(c, accepted[k])

\* "logger will not loss any log on process normal exit" (log4z.h:96): once stop()
\* has returned, every record of the program's threads has been handled, also when
\* the log thread came up too late for start() to wait for it.
NothingLostOnExit == mpc = "stopped" /\ lpc = "done" => Len(fate) = Len(accepted)

\* stop() returns.
StopReturns == mpc = "join" ~> mpc = "stopped"

\* Nothing that has been appended stays unhandled for ever, unless the process ends.
EveryRecordHandled == []<>(Waiting = <<>> \/ mpc = "stopped")
=============================================================================
