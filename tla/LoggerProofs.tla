----------------------------- MODULE LoggerProofs -----------------------------
(***************************************************************************)
(* Theorems about Logger, for any finite sets of threads, any levels and   *)
(* any numbers of calls and of free LogDatas.                              *)
(***************************************************************************)
EXTENDS Logger, SequenceTheorems, FiniteSetTheorems, TLAPS

(***************************************************************************)
(* Type correctness.                                                       *)
(***************************************************************************)

\* A thread between makeLogData and the append has a record in its hands, a thread that
\* changes the logger has the change, and the log thread has what it handles between
\* popLog and freeLogData, when it is in no call of its own; the log thread changes
\* nothing by a call, and there is none before start.
Hands ==
  /\ \A t \in Callers : pc[t] \notin {"idle", "free", "return"} => rec[t] \in Records
  /\ \A t \in Callers : pc[t] = "lower" => rec[t].type = "LEVEL"
  /\ \A t \in Callers : pc[t] \in {"raise", "apply"} => rec[t].type # "GENERAL"
  /\ pc[LOG] \notin {"raise", "lower", "apply"}
  /\ lpc = "have" => pc[LOG] = "idle" /\ rec[LOG] \in Records
  /\ mpc = "init" => lpc = "off"

\* The log thread is one of those that call, and it is not Main.
LEMMA CallersFact == LOG \in Callers /\ (threads \in Programs => Main \in Callers /\ Main # LOG)
  BY LoggerAssumption DEF Callers

\* Calls are counted within their bounds, and the log thread makes its own before it
\* looks at the queue.
LEMMA CallsType ==
  ASSUME TypeOK, NEW t \in Callers, CanCall(t), Calls(t)
  PROVE  calls' \in Nat /\ banner' \in 0 .. Banner /\ pc[t] = "idle" /\ (t = LOG => lpc = "banner")
  BY LoggerAssumption DEF CanCall, Calls, TypeOK

\* TypeOK and Hands are kept by every step.
LEMMA TypeStep == TypeOK /\ Hands /\ [Next]_vars => TypeOK' /\ Hands'
<1> SUFFICES ASSUME TypeOK, Hands, [Next]_vars PROVE TypeOK' /\ Hands'
  OBVIOUS
<1> USE LoggerAssumption, CallersFact DEF TypeOK, Hands, flags, call, GoTo, Callers, Places
<1>1. ASSUME NEW t \in Callers, NEW l \in Levels, PrePushLog(t, l) PROVE TypeOK' /\ Hands'
  <2>1. Record(l) \in Records
    BY DEF Record, Records
  <2>2. calls' \in Nat /\ banner' \in 0 .. Banner /\ pc[t] = "idle" /\ (t = LOG => lpc = "banner")
    BY <1>1, CallsType DEF PrePushLog
  <2>3. CASE Passes(Record(l))
    <3>1. /\ pc' = [pc EXCEPT ![t] = "make"] /\ rec' = [rec EXCEPT ![t] = Record(l)]
          /\ UNCHANGED <<threads, flags, free, logs, cache, lpc, mpc, accepted, fate, stale>>
      BY <1>1, <2>3 DEF PrePushLog
    <3>2. TypeOK'
      BY <2>1, <2>2, <3>1
    <3>3. Hands'
      BY <2>1, <2>2, <3>1
    <3>4. QED BY <3>2, <3>3
  <2>4. CASE ~Passes(Record(l))
    BY <1>1, <2>2, <2>4 DEF PrePushLog
  <2>5. QED BY <2>3, <2>4
<1>2. ASSUME NEW t \in Callers, NEW l \in Levels, SetLoggerLevel(t, l) PROVE TypeOK' /\ Hands'
  <2> DEFINE r == [type |-> "LEVEL", val |-> l]
  <2>1. r \in Records /\ r.type = "LEVEL"
    BY DEF Records
  <2>2. calls' \in Nat /\ banner' \in 0 .. Banner /\ pc[t] = "idle" /\ t # LOG
    BY <1>2, CallsType DEF SetLoggerLevel
  <2>3. PICK x \in {"lower", "raise"} : pc' = [pc EXCEPT ![t] = x]
    BY <1>2 DEF SetLoggerLevel
  <2>4. QED BY <1>2, <2>1, <2>2, <2>3 DEF SetLoggerLevel
<1>3. ASSUME NEW t \in Callers, NEW e \in BOOLEAN, EnableLogger(t, e) PROVE TypeOK' /\ Hands'
  <2> DEFINE r == [type |-> "ENABLE", val |-> FALSE]
  <2>1. r \in Records /\ r.type = "ENABLE"
    BY DEF Records
  <2>2. calls' \in Nat /\ banner' \in 0 .. Banner /\ pc[t] = "idle" /\ t # LOG
    BY <1>3, CallsType DEF EnableLogger
  <2>3. CASE e
    BY <1>3, <2>2, <2>3 DEF EnableLogger
  <2>4. CASE ~e
    <3>1. PICK x \in {"make", "apply"} : pc' = [pc EXCEPT ![t] = x]
      BY <1>3, <2>4 DEF EnableLogger, HotChange
    <3>2. /\ rec' = [rec EXCEPT ![t] = r] /\ UNCHANGED flags
          /\ UNCHANGED <<threads, free, logs, cache, lpc, mpc, accepted, fate, stale>>
      BY <1>3, <2>4 DEF EnableLogger
    <3>3. TypeOK'
      BY <2>1, <2>2, <3>1, <3>2
    <3>4. Hands'
      BY <2>1, <2>2, <3>1, <3>2
    <3>5. QED BY <3>3, <3>4
  <2>5. QED BY <2>3, <2>4
<1>31. ASSUME NEW t \in Callers, RaiseLevel(t) PROVE TypeOK' /\ Hands'
  <2>1. PICK x \in {"make", "apply"} : pc' = [pc EXCEPT ![t] = x]
    BY <1>31 DEF RaiseLevel, HotChange
  <2>2. QED BY <1>31, <2>1 DEF RaiseLevel
<1>32. ASSUME NEW t \in Callers, ChangeAtOnce(t) PROVE TypeOK' /\ Hands'
  <2>1. rec[t] \in Records /\ rec[t].type # "GENERAL" /\ t # LOG
    BY <1>32 DEF ChangeAtOnce
  <2>2. enable' \in BOOLEAN /\ level' \in Levels /\ stale' \subseteq Records
    BY <1>32, <2>1 DEF ChangeAtOnce, Apply, Records
  <2>3. /\ pc' = [pc EXCEPT ![t] = "idle"] /\ rec' = [rec EXCEPT ![t] = NULL]
        /\ UNCHANGED <<running, outfile, threads, free, logs, cache, calls, banner, lpc, mpc, accepted, fate>>
    BY <1>32 DEF ChangeAtOnce, Apply
  <2>4. TypeOK'
    BY <2>2, <2>3
  <2>5. Hands'
    <3>1. /\ \A u \in Callers : (pc'[u] = pc[u] /\ rec'[u] = rec[u]) \/ pc'[u] = "idle"
          /\ pc'[LOG] = pc[LOG] /\ rec'[LOG] = rec[LOG] /\ Callers' = Callers
      BY <2>1, <2>3
    <3>2. QED BY <2>3, <3>1
  <2>6. QED BY <2>4, <2>5
<1>4. ASSUME NEW t \in Callers, MakeLogData(t) PROVE TypeOK' /\ Hands'
  BY <1>4 DEF MakeLogData
<1>5. ASSUME NEW t \in Callers, PushCheck(t) PROVE TypeOK' /\ Hands'
  <2>1. /\ \/ pc' = [pc EXCEPT ![t] = "enqueue"] /\ rec' = rec
           \/ pc' = [pc EXCEPT ![t] = "free"] /\ rec' = [rec EXCEPT ![t] = NULL]
        /\ pc[t] = "check"
        /\ UNCHANGED <<threads, flags, free, logs, cache, calls, banner, lpc, mpc, accepted, fate, stale>>
    BY <1>5 DEF PushCheck
  <2>2. TypeOK'
    BY <2>1
  <2>3. Hands'
    BY <2>1
  <2>4. QED BY <2>2, <2>3
<1>6. ASSUME NEW t \in Callers, Enqueue(t) PROVE TypeOK' /\ Hands'
  <2>1. rec[t] \in Records
    BY <1>6 DEF Enqueue
  <2>2. logs' \in Seq(Records) /\ accepted' \in Seq(Records)
    BY <1>6, <2>1, AppendProperties DEF Enqueue
  <2>3. QED BY <1>6, <2>2 DEF Enqueue
<1>7. ASSUME NEW t \in Callers, FreeCheck(t) PROVE TypeOK' /\ Hands'
  BY <1>7 DEF FreeCheck
<1>8. ASSUME NEW t \in Callers, FreeReturn(t) PROVE TypeOK' /\ Hands'
  BY <1>8 DEF FreeReturn
<1>9. CASE Begin
  BY <1>9 DEF Begin
<1>10. CASE BannerDone
  BY <1>10 DEF BannerDone
<1>11. CASE PopLog
  <2> DEFINE first == IF cache = <<>> THEN logs ELSE cache
  <2>1. first \in Seq(Records) /\ first # <<>>
    BY <1>11, ConcatEqualIffEmpty DEF PopLog
  <2>2. Head(first) \in Records /\ Tail(first) \in Seq(Records)
    BY <2>1, HeadTailProperties
  <2>3. /\ cache' = Tail(first) /\ rec' = [rec EXCEPT ![LOG] = Head(first)]
        /\ logs' = (IF cache = <<>> THEN <<>> ELSE logs)
        /\ pc[LOG] = "idle" /\ lpc = "loop" /\ lpc' = "have"
        /\ UNCHANGED <<threads, flags, free, pc, calls, banner, mpc, accepted, fate, stale>>
    BY <1>11 DEF PopLog
  <2>4. QED BY <2>2, <2>3
<1>12. CASE Handle
  <2>1. PICK o \in Outcome(rec[LOG]) :
          /\ fate' = Append(fate, o)
          /\ IF o = "applied"
             THEN Apply(rec[LOG])
             ELSE outfile' = (outfile /\ o # "unwritten") /\ UNCHANGED <<running, enable, level>>
    BY <1>12 DEF Handle
  <2>2. o \in {"applied", "dropped", "written", "unwritten", "shown"}
    BY <2>1 DEF Outcome
  <2>3. fate' \in Seq({"applied", "dropped", "written", "unwritten", "shown"})
    BY <2>1, <2>2, AppendProperties
  <2>4. rec[LOG] \in Records
    BY <1>12 DEF Handle
  <2>5. running' \in BOOLEAN /\ enable' \in BOOLEAN /\ outfile' \in BOOLEAN /\ level' \in Levels
    <3>1. CASE o = "applied"
      BY <2>1, <2>4, <3>1 DEF Apply, Records
    <3>2. CASE o # "applied"
      BY <2>1, <3>2
    <3>3. QED BY <3>1, <3>2
  <2>6. /\ pc' = [pc EXCEPT ![LOG] = "free"] /\ rec' = [rec EXCEPT ![LOG] = NULL]
        /\ lpc = "have" /\ lpc' = "loop"
        /\ UNCHANGED <<threads, free, logs, cache, calls, banner, mpc, accepted, stale>>
    BY <1>12 DEF Handle
  <2>7. QED BY <2>3, <2>5, <2>6
<1>13. CASE Idle
  BY <1>13 DEF Idle
<1>14. CASE Quit
  BY <1>14 DEF Quit
<1>15. CASE Close
  BY <1>15 DEF Close
<1>16. CASE Start
  BY <1>16 DEF Start
<1>17. CASE StartReturns
  BY <1>17 DEF StartReturns
<1>18. CASE Stop
  BY <1>18 DEF Stop
<1>19. CASE Joined
  BY <1>19 DEF Joined
<1>20. CASE UNCHANGED vars
  BY <1>20 DEF vars
<1>21. QED
  BY <1>1, <1>2, <1>3, <1>31, <1>32, <1>4, <1>5, <1>6, <1>7, <1>8, <1>9, <1>10, <1>11, <1>12, <1>13,
     <1>14, <1>15, <1>16, <1>17, <1>18, <1>19, <1>20
  DEF Next, CallGoesOn, LogThread

\* TypeOK and Hands hold when the process begins.
LEMMA TypeInit == Init => TypeOK /\ Hands
<1> SUFFICES ASSUME Init PROVE TypeOK /\ Hands
  OBVIOUS
<1>1. TypeOK
  <2>1. threads \in Programs /\ level \in Levels /\ free \in Nat /\ calls \in Nat /\ banner \in 0 .. Banner
    BY LoggerAssumption DEF Init
  <2>2. running \in BOOLEAN /\ enable \in BOOLEAN /\ outfile \in BOOLEAN /\ stale \subseteq Records
    BY DEF Init
  <2>3. /\ logs \in Seq(Records) /\ cache \in Seq(Records) /\ accepted \in Seq(Records)
        /\ fate \in Seq({"applied", "dropped", "written", "unwritten", "shown"})
    BY DEF Init
  <2>4. /\ pc \in [Callers -> Places]
        /\ rec \in [Callers -> Records \cup {NULL}]
    BY DEF Init, Places
  <2>5. /\ lpc \in {"off", "begin", "banner", "loop", "have", "slept", "closing", "done"}
        /\ mpc \in {"init", "starting", "up", "join", "stopped"}
    BY DEF Init
  <2>6. QED BY <2>1, <2>2, <2>3, <2>4, <2>5 DEF TypeOK
<1>2. Hands
  BY CallersFact DEF Init, Hands
<1>3. QED BY <1>1, <1>2

\* Every variable of the log keeps its type, for all constants.
THEOREM TypeCorrect == Spec => [](TypeOK /\ Hands)
  BY TypeInit, TypeStep, PTL DEF Spec

-----------------------------------------------------------------------------
(***************************************************************************)
(* The order of records.                                                   *)
(***************************************************************************)

\* What the log thread holds, as a sequence.
Held == IF lpc = "have" THEN <<rec[LOG]>> ELSE <<>>

\* Waiting is a sequence of records, in three parts.
LEMMA WaitingType ==
  ASSUME TypeOK, Hands
  PROVE  /\ Held \in Seq(Records) /\ Waiting \in Seq(Records)
         /\ Waiting = (Held \o cache) \o logs
<1>1. Held \in Seq(Records)
  BY DEF Held, Hands
<1>2. Waiting = (Held \o cache) \o logs
  BY DEF Waiting, Held
<1>3. Held \o cache \in Seq(Records)
  BY <1>1, ConcatProperties DEF TypeOK
<1>4. QED BY <1>1, <1>2, <1>3, ConcatProperties DEF TypeOK

\* A step leaves what is waiting alone, appends a record to it that is accepted, or
\* handles the first of it.
Rests   == UNCHANGED <<Waiting, accepted, fate>>
Accepts == \E r \in Records : /\ Waiting' = Append(Waiting, r) /\ accepted' = Append(accepted, r)
                              /\ UNCHANGED fate
Handles == /\ Waiting # <<>> /\ Waiting' = Tail(Waiting) /\ UNCHANGED accepted
           /\ \E o \in Outcome(rec[LOG]) : fate' = Append(fate, o)

\* Actions that change none of the queues, and not what the log thread holds.
LEMMA Quiet ==
  ASSUME UNCHANGED <<logs, cache, accepted, fate>>, (lpc' = "have") = (lpc = "have"),
         lpc = "have" => rec'[LOG] = rec[LOG]
  PROVE  Rests
  BY DEF Rests, Waiting

\* Appending to the last part of three.
LEMMA AppendToLast ==
  ASSUME NEW S, NEW s \in Seq(S), NEW t \in Seq(S), NEW x \in S
  PROVE  s \o Append(t, x) = Append(s \o t, x)
<1>1. Append(t, x) = t \o <<x>> /\ Append(s \o t, x) = (s \o t) \o <<x>>
  BY AppendIsConcat, ConcatProperties
<1>2. <<x>> \in Seq(S)
  OBVIOUS
<1>3. QED BY <1>1, <1>2, ConcatAssociative

\* A sequence is its head before its tail.
LEMMA HeadBeforeTail ==
  ASSUME NEW S, NEW s \in Seq(S), s # <<>>
  PROVE  <<Head(s)>> \o Tail(s) = s
<1> DEFINE h == <<Head(s)>>
<1>1. h \in Seq(S) /\ Tail(s) \in Seq(S) /\ Len(h) = 1 /\ h[1] = s[1]
  BY HeadTailProperties
<1>2. Len(Tail(s)) = Len(s) - 1 /\ \A i \in 1 .. Len(Tail(s)) : Tail(s)[i] = s[i + 1]
  BY HeadTailProperties
<1>3. Len(s) \in Nat \ {0}
  BY EmptySeq
<1> DEFINE t == Tail(s)
<1> HIDE DEF h, t
<1>4. /\ h \o t \in Seq(S) /\ Len(h \o t) = 1 + Len(t)
      /\ \A i \in 1 .. 1 + Len(t) : (h \o t)[i] = IF i <= 1 THEN h[i] ELSE t[i - 1]
  BY <1>1, ConcatProperties DEF t
<1>5. Len(t) = Len(s) - 1 /\ \A i \in 2 .. Len(s) : t[i - 1] = s[i]
  BY <1>2, <1>3 DEF t
<1>6. \A i \in 1 .. Len(s) : (h \o t)[i] = s[i]
  BY <1>1, <1>3, <1>4, <1>5
<1>7. QED BY <1>3, <1>4, <1>5, <1>6, SeqEqual DEF h, t

\* What each step does to the queue.
LEMMA WaitingStep == TypeOK /\ Hands /\ [Next]_vars => Rests \/ Accepts \/ Handles
<1> SUFFICES ASSUME TypeOK, Hands, [Next]_vars PROVE Rests \/ Accepts \/ Handles
  OBVIOUS
<1> USE CallersFact DEF TypeOK, Hands, flags, call, GoTo
<1>1. ASSUME NEW t \in Callers, NEW l \in Levels, PrePushLog(t, l) PROVE Rests
  BY <1>1, Quiet, CallsType DEF PrePushLog
<1>2. ASSUME NEW t \in Callers, NEW l \in Levels, SetLoggerLevel(t, l) PROVE Rests
  BY <1>2, Quiet DEF SetLoggerLevel
<1>3. ASSUME NEW t \in Callers, NEW e \in BOOLEAN, EnableLogger(t, e) PROVE Rests
  BY <1>3, Quiet DEF EnableLogger
<1>31. ASSUME NEW t \in Callers, RaiseLevel(t) PROVE Rests
  BY <1>31, Quiet DEF RaiseLevel
<1>32. ASSUME NEW t \in Callers, ChangeAtOnce(t) PROVE Rests
  BY <1>32, Quiet DEF ChangeAtOnce
<1>4. ASSUME NEW t \in Callers, MakeLogData(t) PROVE Rests
  BY <1>4, Quiet DEF MakeLogData
<1>5. ASSUME NEW t \in Callers, PushCheck(t) PROVE Rests
  BY <1>5, Quiet DEF PushCheck
<1>6. ASSUME NEW t \in Callers, Enqueue(t) PROVE Accepts
  <2>1. /\ rec[t] \in Records /\ logs' = Append(logs, rec[t]) /\ accepted' = Append(accepted, rec[t])
        /\ (lpc = "have" => t # LOG) /\ rec' = [rec EXCEPT ![t] = NULL]
        /\ UNCHANGED <<cache, fate, lpc>>
    BY <1>6 DEF Enqueue
  <2>2. Held' = Held
    BY <2>1 DEF Held
  <2>3. Waiting' = (Held \o cache) \o Append(logs, rec[t])
    BY <2>1, <2>2 DEF Waiting, Held
  <2>4. Held \o cache \in Seq(Records) /\ Waiting = (Held \o cache) \o logs
    BY WaitingType, ConcatProperties
  <2> DEFINE s == Held \o cache
  <2>5. Waiting' = Append(Waiting, rec[t])
    <3> HIDE DEF s
    <3>1. s \in Seq(Records) /\ logs \in Seq(Records) /\ rec[t] \in Records
      BY <2>1, <2>4 DEF s
    <3>2. s \o Append(logs, rec[t]) = Append(s \o logs, rec[t])
      BY <3>1, AppendToLast
    <3>3. QED BY <2>3, <2>4, <3>2 DEF s
  <2>6. QED BY <2>1, <2>5 DEF Accepts
<1>7. ASSUME NEW t \in Callers, FreeCheck(t) PROVE Rests
  BY <1>7, Quiet DEF FreeCheck
<1>8. ASSUME NEW t \in Callers, FreeReturn(t) PROVE Rests
  BY <1>8, Quiet DEF FreeReturn
<1>9. CASE Begin
  BY <1>9, Quiet DEF Begin
<1>10. CASE BannerDone
  BY <1>10, Quiet DEF BannerDone
<1>11. CASE PopLog
  <2> DEFINE first == IF cache = <<>> THEN logs ELSE cache
             rest  == IF cache = <<>> THEN <<>> ELSE logs
  <2>1. /\ lpc = "loop" /\ lpc' = "have" /\ cache' = Tail(first) /\ rec'[LOG] = Head(first)
        /\ logs' = rest /\ UNCHANGED <<accepted, fate>>
    BY <1>11 DEF PopLog
  <2>2. first \in Seq(Records) /\ first # <<>> /\ rest \in Seq(Records)
    BY <1>11, ConcatEqualIffEmpty DEF PopLog
  <2>3. Waiting' = first \o rest
    <3>1. Waiting' = (<<Head(first)>> \o Tail(first)) \o rest
      BY <2>1 DEF Waiting
    <3>2. QED BY <3>1, <2>2, HeadBeforeTail
  <2>4. Waiting = cache \o logs
    <3>1. Waiting = (<<>> \o cache) \o logs
      BY <2>1 DEF Waiting
    <3>2. QED BY <3>1, ConcatEmptySeq
  <2>5. first \o rest = cache \o logs
    BY ConcatEmptySeq
  <2>6. QED BY <2>1, <2>3, <2>4, <2>5 DEF Rests
<1>12. CASE Handle
  <2>1. /\ lpc = "have" /\ lpc' = "loop" /\ rec[LOG] \in Records
        /\ UNCHANGED <<logs, cache, accepted>>
        /\ \E o \in Outcome(rec[LOG]) : fate' = Append(fate, o)
    BY <1>12 DEF Handle
  <2> DEFINE r == rec[LOG]
             s == cache \o logs
  <2>2. s \in Seq(Records) /\ <<r>> \in Seq(Records)
    BY <2>1, ConcatProperties
  <2>3. Waiting = <<r>> \o s
    <3>1. Waiting = (<<r>> \o cache) \o logs
      BY <2>1 DEF Waiting
    <3>2. QED BY <3>1, <2>2, ConcatAssociative
  <2>4. Waiting' = s
    <3>1. Waiting' = (<<>> \o cache) \o logs
      BY <2>1 DEF Waiting
    <3>2. QED BY <3>1, ConcatEmptySeq
  <2>5. <<r>> \o s # <<>> /\ Tail(<<r>> \o s) = s
    <3> HIDE DEF r, s
    <3>1. /\ <<r>> \o s \in Seq(Records) /\ Len(<<r>> \o s) = 1 + Len(s) /\ Len(s) \in Nat
          /\ \A i \in 1 .. 1 + Len(s) : (<<r>> \o s)[i] = IF i <= 1 THEN r ELSE s[i - 1]
      BY <2>2, ConcatProperties, LenProperties
    <3>2. <<r>> \o s # <<>>
      BY <3>1
    <3>3. /\ Tail(<<r>> \o s) \in Seq(Records) /\ Len(Tail(<<r>> \o s)) = Len(s)
          /\ \A i \in 1 .. Len(s) : Tail(<<r>> \o s)[i] = (<<r>> \o s)[i + 1]
      BY <3>1, <3>2, HeadTailProperties
    <3>4. \A i \in 1 .. Len(s) : Tail(<<r>> \o s)[i] = s[i]
      BY <3>1, <3>3
    <3>5. QED BY <2>2, <3>2, <3>3, <3>4, SeqEqual
  <2>6. QED BY <2>1, <2>3, <2>4, <2>5 DEF Handles
<1>13. CASE Idle
  BY <1>13, Quiet DEF Idle
<1>14. CASE Quit
  BY <1>14, Quiet DEF Quit
<1>15. CASE Close
  BY <1>15, Quiet DEF Close
<1>16. CASE Start
  BY <1>16, Quiet DEF Start
<1>17. CASE StartReturns
  BY <1>17, Quiet DEF StartReturns
<1>18. CASE Stop
  BY <1>18, Quiet DEF Stop
<1>19. CASE Joined
  BY <1>19, Quiet DEF Joined
<1>20. CASE UNCHANGED vars
  BY <1>20, Quiet DEF vars
<1>21. QED
  BY <1>1, <1>2, <1>3, <1>31, <1>32, <1>4, <1>5, <1>6, <1>7, <1>8, <1>9, <1>10, <1>11, <1>12, <1>13,
     <1>14, <1>15, <1>16, <1>17, <1>18, <1>19, <1>20
  DEF Next, CallGoesOn, LogThread

\* InOrder, element by element: what is waiting is the rest of what was accepted.
InQueue ==
  /\ Len(accepted) = Len(fate) + Len(Waiting)
  /\ \A i \in 1 .. Len(Waiting) : Waiting[i] = accepted[Len(fate) + i]

\* Sequences of the state that the arguments about positions are about.
LEMMA Lengths ==
  ASSUME TypeOK, Hands
  PROVE  Len(fate) \in Nat /\ Len(accepted) \in Nat /\ Len(Waiting) \in Nat
  BY WaitingType, LenProperties DEF TypeOK

\* Two sequences that agree on every element are the same.
LEMMA InQueueInOrder == TypeOK /\ Hands /\ InQueue => InOrder
<1> SUFFICES ASSUME TypeOK, Hands, InQueue PROVE InOrder
  OBVIOUS
<1> DEFINE m == Len(fate) + 1
           n == Len(accepted)
           rest == SubSeq(accepted, m, n)
<1>1. Len(fate) \in Nat /\ n \in Nat /\ Len(Waiting) \in Nat /\ n = Len(fate) + Len(Waiting)
  BY Lengths DEF InQueue
<1>2. \A i \in m .. n : accepted[i] \in Records
  BY <1>1, ElementOfSeq DEF TypeOK
<1>3. /\ rest \in Seq(Records) /\ Len(rest) = (IF m <= n THEN n - m + 1 ELSE 0)
      /\ \A i \in 1 .. n - m + 1 : rest[i] = accepted[m + i - 1]
  <2> HIDE DEF m, n
  <2>1. m \in Int /\ n \in Int
    BY <1>1 DEF m
  <2>2. QED BY <1>2, <2>1, SubSeqProperties
<1>4. Len(rest) = Len(Waiting) /\ \A i \in 1 .. Len(Waiting) : rest[i] = Waiting[i]
  BY <1>1, <1>3 DEF InQueue
<1>5. QED BY <1>3, <1>4, WaitingType, SeqEqual DEF InOrder

\* InQueue is kept by every step.
LEMMA InQueueStep == TypeOK /\ Hands /\ InQueue /\ [Next]_vars => InQueue'
<1> SUFFICES ASSUME TypeOK, Hands, InQueue, [Next]_vars PROVE InQueue'
  OBVIOUS
<1>1. Len(fate) \in Nat /\ Len(accepted) \in Nat /\ Len(Waiting) \in Nat
  BY Lengths
<1>2. CASE Rests
  BY <1>2 DEF Rests, InQueue
<1>3. CASE Accepts
  <2>1. PICK r \in Records : /\ Waiting' = Append(Waiting, r) /\ accepted' = Append(accepted, r)
                             /\ UNCHANGED fate
    BY <1>3 DEF Accepts
  <2>2. /\ Len(Waiting') = Len(Waiting) + 1 /\ Waiting'[Len(Waiting) + 1] = r
        /\ \A i \in 1 .. Len(Waiting) : Waiting'[i] = Waiting[i]
    BY <2>1, WaitingType, AppendProperties
  <2>3. /\ Len(accepted') = Len(accepted) + 1 /\ accepted'[Len(accepted) + 1] = r
        /\ \A i \in 1 .. Len(accepted) : accepted'[i] = accepted[i]
    BY <2>1, AppendProperties DEF TypeOK
  <2>4. QED BY <1>1, <2>1, <2>2, <2>3 DEF InQueue
<1>4. CASE Handles
  <2>1. /\ Waiting # <<>> /\ Waiting' = Tail(Waiting) /\ accepted' = accepted
        /\ Len(fate') = Len(fate) + 1
    BY <1>4, AppendProperties DEF Handles, TypeOK
  <2>2. /\ Len(Waiting') = Len(Waiting) - 1
        /\ \A i \in 1 .. Len(Waiting') : Waiting'[i] = Waiting[i + 1]
    BY <2>1, WaitingType, HeadTailProperties
  <2>3. QED BY <1>1, <2>1, <2>2 DEF InQueue
<1>5. QED BY <1>2, <1>3, <1>4, WaitingStep

\* Records are handled in the order in which they were accepted, none twice and none
\* left out.
THEOREM OrderKept == Spec => []InOrder
<1>1. Init => TypeOK /\ Hands /\ InQueue
  BY TypeInit DEF Init, InQueue, Waiting
<1>2. TypeOK /\ Hands /\ InQueue /\ [Next]_vars => (TypeOK /\ Hands /\ InQueue)'
  BY TypeStep, InQueueStep
<1>3. QED BY <1>1, <1>2, InQueueInOrder, PTL DEF Spec

-----------------------------------------------------------------------------
(***************************************************************************)
(* The bound of the free list.                                             *)
(***************************************************************************)

\* The threads are finitely many, and so are those of any set of them.
LEMMA Finite ==
  ASSUME TypeOK
  PROVE  /\ IsFiniteSet(Callers) /\ Cardinality(Callers) \in Nat \ {0}
         /\ IsFiniteSet(Returning) /\ Cardinality(Returning) \in Nat
         /\ \A R \in SUBSET Callers : IsFiniteSet(R) /\ Cardinality(R) \in Nat /\ Cardinality(R) <= Cardinality(Callers)
<1>1. IsFiniteSet(threads)
  BY LoggerAssumption DEF TypeOK
<1>2. IsFiniteSet(Callers)
  BY <1>1, FS_AddElement DEF Callers
<1>3. Cardinality(Callers) \in Nat \ {0}
  BY <1>2, FS_CardinalityType, FS_EmptySet, CallersFact
<1>4. \A R \in SUBSET Callers : IsFiniteSet(R) /\ Cardinality(R) \in Nat /\ Cardinality(R) <= Cardinality(Callers)
  BY <1>2, FS_Subset, FS_CardinalityType
<1>5. Returning \in SUBSET Callers
  BY DEF Returning
<1>6. QED BY <1>2, <1>3, <1>4, <1>5

\* A step that neither lengthens the list nor brings a thread to its end of freeLogData.
LEMMA NoMore ==
  ASSUME TypeOK, FreeBound, UNCHANGED threads, free' \in Nat, free' <= free,
         \A t \in Callers : pc'[t] = "return" => pc[t] = "return"
  PROVE  FreeBound'
<1>1. Callers' = Callers /\ Returning' \in SUBSET Returning
  BY DEF Callers, Returning
<1>2. Cardinality(Returning') <= Cardinality(Returning) /\ Cardinality(Returning') \in Nat
  BY <1>1, Finite, FS_Subset, FS_CardinalityType
<1>3. QED BY <1>1, <1>2, Finite, LoggerAssumption DEF FreeBound, TypeOK

\* FreeBound is kept by every step: a thread that finds room leaves a place for each
\* of the others.
LEMMA FreeStep == TypeOK /\ Hands /\ FreeBound /\ [Next]_vars => FreeBound'
<1> SUFFICES ASSUME TypeOK, Hands, FreeBound, [Next]_vars PROVE FreeBound'
  OBVIOUS
<1>0. /\ free \in Nat /\ pc \in [Callers -> Places]
      /\ LOG \in Callers
  BY CallersFact DEF TypeOK
<1> USE <1>0 DEF flags, call, GoTo
<1>1. ASSUME NEW t \in Callers, NEW l \in Levels, PrePushLog(t, l) PROVE FreeBound'
  BY <1>1, NoMore DEF PrePushLog
<1>2. ASSUME NEW t \in Callers, NEW l \in Levels, SetLoggerLevel(t, l) PROVE FreeBound'
  BY <1>2, NoMore DEF SetLoggerLevel
<1>3. ASSUME NEW t \in Callers, NEW e \in BOOLEAN, EnableLogger(t, e) PROVE FreeBound'
  BY <1>3, NoMore DEF EnableLogger, HotChange
<1>31. ASSUME NEW t \in Callers, RaiseLevel(t) PROVE FreeBound'
  BY <1>31, NoMore DEF RaiseLevel, HotChange
<1>32. ASSUME NEW t \in Callers, ChangeAtOnce(t) PROVE FreeBound'
  BY <1>32, NoMore DEF ChangeAtOnce, HotChange
<1>4. ASSUME NEW t \in Callers, MakeLogData(t) PROVE FreeBound'
  BY <1>4, NoMore DEF MakeLogData
<1>5. ASSUME NEW t \in Callers, PushCheck(t) PROVE FreeBound'
  BY <1>5, NoMore DEF PushCheck
<1>6. ASSUME NEW t \in Callers, Enqueue(t) PROVE FreeBound'
  BY <1>6, NoMore DEF Enqueue
<1>7. ASSUME NEW t \in Callers, FreeCheck(t) PROVE FreeBound'
  <2>1. CASE free < FreeLimit
    <3>1. free' = free /\ Callers' = Callers /\ Returning' \in SUBSET Callers
      BY <1>7 DEF FreeCheck, Callers, Returning
    <3>2. QED BY <2>1, <3>1, Finite, LoggerAssumption DEF FreeBound
  <2>2. CASE ~(free < FreeLimit)
    BY <1>7, <2>2, NoMore DEF FreeCheck
  <2>3. QED BY <2>1, <2>2
<1>8. ASSUME NEW t \in Callers, FreeReturn(t) PROVE FreeBound'
  <2>1. free' = free + 1 /\ Callers' = Callers /\ t \in Returning /\ Returning' = Returning \ {t}
    BY <1>8 DEF FreeReturn, Callers, Returning
  <2>2. Cardinality(Returning') = Cardinality(Returning) - 1
    BY <2>1, Finite, FS_RemoveElement
  <2>3. QED BY <2>1, <2>2, Finite, LoggerAssumption DEF FreeBound
<1>9. CASE Begin
  BY <1>9, NoMore DEF Begin
<1>10. CASE BannerDone
  BY <1>10, NoMore DEF BannerDone
<1>11. CASE PopLog
  BY <1>11, NoMore DEF PopLog
<1>12. CASE Handle
  BY <1>12, NoMore DEF Handle
<1>13. CASE Idle
  BY <1>13, NoMore DEF Idle
<1>14. CASE Quit
  BY <1>14, NoMore DEF Quit
<1>15. CASE Close
  BY <1>15, NoMore DEF Close
<1>16. CASE Start
  BY <1>16, NoMore DEF Start
<1>17. CASE StartReturns
  BY <1>17, NoMore DEF StartReturns
<1>18. CASE Stop
  BY <1>18, NoMore DEF Stop
<1>19. CASE Joined
  BY <1>19, NoMore DEF Joined
<1>20. CASE UNCHANGED vars
  BY <1>20, NoMore DEF vars
<1>21. QED
  BY <1>1, <1>2, <1>3, <1>31, <1>32, <1>4, <1>5, <1>6, <1>7, <1>8, <1>9, <1>10, <1>11, <1>12, <1>13,
     <1>14, <1>15, <1>16, <1>17, <1>18, <1>19, <1>20
  DEF Next, CallGoesOn, LogThread

\* However many threads find room in the free list at the same time, it outgrows its
\* limit by less than there are threads.
THEOREM FreeListBounded == Spec => []FreeBound
<1>1. Init => FreeBound
  <2> SUFFICES ASSUME Init PROVE FreeBound
    OBVIOUS
  <2>1. free = 0 /\ Returning = {}
    BY DEF Init, Returning
  <2>2. QED BY <2>1, TypeInit, Finite, FS_EmptySet, LoggerAssumption DEF FreeBound
<1>2. QED BY <1>1, TypeInit, TypeStep, FreeStep, PTL DEF Spec

-----------------------------------------------------------------------------
(***************************************************************************)
(* The end of the log.                                                     *)
(***************************************************************************)

\* Once stop has been called nobody logs any more but the log thread; the log thread
\* runs while _runing is set; and it leaves its loop only with nothing left to do.
Ending ==
  /\ mpc \in {"join", "stopped"} => threads = {Main} /\ pc[Main] = "idle"
  /\ lpc \notin {"off", "begin"} => running \/ mpc \in {"join", "stopped"}
  /\ lpc \in {"slept", "closing", "done"} => cache = <<>> /\ pc[LOG] = "idle"
  /\ lpc \in {"closing", "done"} => logs = <<>> /\ mpc \in {"join", "stopped"}

\* Ending is kept by every step.
LEMMA EndingStep == TypeOK /\ Hands /\ Ending /\ [Next]_vars => Ending'
<1> SUFFICES ASSUME TypeOK, Hands, Ending, [Next]_vars PROVE Ending'
  OBVIOUS
<1>0. /\ pc \in [Callers -> Places]
      /\ LOG \in Callers /\ Main \in Callers /\ Main # LOG
      /\ lpc = "have" => pc[LOG] = "idle"
      /\ mpc = "init" => lpc = "off"
      /\ pc[LOG] \notin {"raise", "lower", "apply"}
  BY CallersFact DEF TypeOK, Hands
<1> USE <1>0 DEF Ending, flags, call, GoTo
<1>1. ASSUME NEW t \in Callers, NEW l \in Levels, PrePushLog(t, l) PROVE Ending'
  BY <1>1 DEF PrePushLog, CanCall
<1>2. ASSUME NEW t \in Callers, NEW l \in Levels, SetLoggerLevel(t, l) PROVE Ending'
  BY <1>2 DEF SetLoggerLevel, CanCall
<1>3. ASSUME NEW t \in Callers, NEW e \in BOOLEAN, EnableLogger(t, e) PROVE Ending'
  BY <1>3 DEF EnableLogger, CanCall
<1>31. ASSUME NEW t \in Callers, RaiseLevel(t) PROVE Ending'
  BY <1>31 DEF RaiseLevel, Apply
<1>32. ASSUME NEW t \in Callers, ChangeAtOnce(t) PROVE Ending'
  BY <1>32 DEF ChangeAtOnce, Apply
<1>4. ASSUME NEW t \in Callers, MakeLogData(t) PROVE Ending'
  BY <1>4 DEF MakeLogData
<1>5. ASSUME NEW t \in Callers, PushCheck(t) PROVE Ending'
  BY <1>5 DEF PushCheck
<1>6. ASSUME NEW t \in Callers, Enqueue(t) PROVE Ending'
  BY <1>6 DEF Enqueue, Callers
<1>7. ASSUME NEW t \in Callers, FreeCheck(t) PROVE Ending'
  BY <1>7 DEF FreeCheck
<1>8. ASSUME NEW t \in Callers, FreeReturn(t) PROVE Ending'
  BY <1>8 DEF FreeReturn
<1>9. CASE Begin
  BY <1>9 DEF Begin
<1>10. CASE BannerDone
  BY <1>10 DEF BannerDone
<1>11. CASE PopLog
  BY <1>11 DEF PopLog
<1>12. CASE Handle
  <2>1. running' = running
    BY <1>12 DEF Handle, Apply
  <2>2. QED BY <1>12, <2>1 DEF Handle
<1>13. CASE Idle
  <2>1. cache = <<>>
    BY <1>13, ConcatEqualIffEmpty DEF Idle, TypeOK
  <2>2. QED BY <1>13, <2>1 DEF Idle
<1>14. CASE Quit
  BY <1>14 DEF Quit
<1>15. CASE Close
  BY <1>15 DEF Close
<1>16. CASE Start
  BY <1>16 DEF Start
<1>17. CASE StartReturns
  BY <1>17 DEF StartReturns
<1>18. CASE Stop
  BY <1>18 DEF Stop
<1>19. CASE Joined
  BY <1>19 DEF Joined
<1>20. CASE UNCHANGED vars
  BY <1>20 DEF vars
<1>21. QED
  BY <1>1, <1>2, <1>3, <1>31, <1>32, <1>4, <1>5, <1>6, <1>7, <1>8, <1>9, <1>10, <1>11, <1>12, <1>13,
     <1>14, <1>15, <1>16, <1>17, <1>18, <1>19, <1>20
  DEF Next, CallGoesOn, LogThread

\* When stop has waited for the log thread, every record has been handled.
THEOREM NothingLost == Spec => []NothingLostOnExit
<1>1. Init => Ending
  BY DEF Init, Ending
<1>2. Init => InQueue
  BY DEF Init, InQueue, Waiting
<1>3. TypeOK /\ Hands /\ InQueue /\ Ending => NothingLostOnExit
  <2> SUFFICES ASSUME TypeOK, Hands, InQueue, Ending, lpc = "done" PROVE Len(fate) = Len(accepted)
    BY DEF NothingLostOnExit
  <2>1. Waiting = <<>>
    BY DEF Waiting, Ending
  <2>2. QED BY <2>1, Lengths DEF InQueue
<1>4. QED BY <1>1, <1>2, <1>3, TypeInit, TypeStep, InQueueStep, EndingStep, PTL DEF Spec

-----------------------------------------------------------------------------
(***************************************************************************)
(* Nothing is discarded without a reason.                                  *)
(***************************************************************************)

\* The logger would let r through, or a change that has been handled tells not to, or one
\* that was made at once too late.
Excused(r) ==
  ~(enable /\ r.val >= level) => \/ \E j \in 1 .. Len(fate) : Discards(accepted[j], r)
                                \/ \E c \in stale : Discards(c, r)

\* Until the log thread begins, nothing has been accepted and nobody is in a call, but for
\* changes that will be made at once; what a thread is about to append, and what is
\* waiting, is excused.
Young  == lpc \in {"off", "begin"} =>
            /\ ~running /\ accepted = <<>>
            /\ \A t \in Callers : pc[t] \in {"idle", "raise", "lower", "apply"}
AtHand == \A t \in Callers : pc[t] = "enqueue" /\ rec[t].type = "GENERAL" => Excused(rec[t])
Queued == \A k \in Len(fate) + 1 .. Len(accepted) :
            accepted[k].type = "GENERAL" => Excused(accepted[k])

Reasons == AtHand /\ Queued /\ DiscardExplained

\* The log has not begun at all.
LEMMA ReasonsEmpty ==
  ASSUME accepted = <<>>, fate = <<>>, \A t \in Callers : pc[t] # "enqueue"
  PROVE  Reasons
  BY DEF Reasons, AtHand, Queued, DiscardExplained

\* A change that makes the logger let more through takes no excuse away.
LEMMA ExcusedKept ==
  ASSUME TypeOK, TypeOK', NEW r \in Records, r.type = "GENERAL", Excused(r),
         UNCHANGED <<accepted, fate, stale>>, enable => enable', level' <= level
  PROVE  Excused(r)'
<1>1. r.val \in Nat /\ level \in Nat /\ level' \in Nat
  BY LoggerAssumption DEF TypeOK, Records
<1>2. QED BY <1>1 DEF Excused

\* A step that lets more through, and brings to the append only what passes.
LEMMA Milder ==
  ASSUME TypeOK, TypeOK', Hands, Hands', Reasons,
         UNCHANGED <<threads, accepted, fate, stale>>, enable => enable', level' <= level,
         \A t \in Callers : pc'[t] = "enqueue" /\ rec'[t].type = "GENERAL" =>
           \/ pc[t] = "enqueue" /\ rec'[t] = rec[t]
           \/ enable' /\ rec'[t].val >= level'
  PROVE  Reasons'
<1>1. Callers' = Callers
  BY DEF Callers
<1>2. AtHand'
  <2> SUFFICES ASSUME NEW t \in Callers, pc'[t] = "enqueue", rec'[t].type = "GENERAL"
               PROVE  Excused(rec[t])'
    BY <1>1 DEF AtHand
  <2>1. CASE pc[t] = "enqueue" /\ rec'[t] = rec[t]
    <3>1. rec[t] \in Records /\ rec[t].type = "GENERAL" /\ Excused(rec[t])
      BY <2>1 DEF Hands, Reasons, AtHand
    <3> DEFINE r == rec[t]
    <3>2. ASSUME NEW q \in Records, q = r PROVE Excused(q)'
      BY <3>1, <3>2, ExcusedKept
    <3>3. QED BY <2>1, <3>1, <3>2 DEF Excused
  <2>2. CASE enable' /\ rec'[t].val >= level'
    BY <2>2 DEF Excused
  <2>3. QED BY <2>1, <2>2
<1>3. Queued'
  <2> SUFFICES ASSUME NEW k \in Len(fate) + 1 .. Len(accepted), accepted[k].type = "GENERAL"
               PROVE  Excused(accepted[k])'
    BY DEF Queued
  <2>1. accepted[k] \in Records
    BY Lengths, ElementOfSeq DEF TypeOK
  <2>2. Excused(accepted[k])
    BY DEF Reasons, Queued
  <2>3. ASSUME NEW q \in Records, q = accepted[k] PROVE Excused(q)'
    BY <2>2, <2>3, ExcusedKept
  <2>4. QED BY <2>1, <2>3 DEF Excused
<1>4. DiscardExplained'
  BY DEF DiscardExplained, Reasons
<1>5. QED BY <1>2, <1>3, <1>4 DEF Reasons

\* Young is kept by every step.
LEMMA YoungStep == TypeOK /\ Hands /\ Young /\ [Next]_vars => Young'
<1> SUFFICES ASSUME TypeOK, Hands, Young, [Next]_vars PROVE Young'
  OBVIOUS
<1>0. /\ pc \in [Callers -> Places]
      /\ LOG \in Callers
      /\ mpc = "init" => lpc = "off"
  BY CallersFact DEF TypeOK, Hands
<1> USE <1>0 DEF Young, flags, call, GoTo, Callers
<1>1. ASSUME NEW t \in Callers, NEW l \in Levels, PrePushLog(t, l) PROVE Young'
  BY <1>1 DEF PrePushLog, Passes
<1>2. ASSUME NEW t \in Callers, NEW l \in Levels, SetLoggerLevel(t, l) PROVE Young'
  BY <1>2 DEF SetLoggerLevel
<1>3. ASSUME NEW t \in Callers, NEW e \in BOOLEAN, EnableLogger(t, e) PROVE Young'
  BY <1>3 DEF EnableLogger, HotChange
<1>4. ASSUME NEW t \in Callers, CallGoesOn(t) PROVE Young'
  BY <1>4 DEF CallGoesOn, RaiseLevel, ChangeAtOnce, HotChange, Apply, MakeLogData, PushCheck, Enqueue,
               FreeCheck, FreeReturn
<1>5. CASE LogThread
  BY <1>5 DEF LogThread, Begin, BannerDone, PopLog, Handle, Idle, Quit, Close
<1>6. CASE Start
  BY <1>6 DEF Start
<1>7. CASE StartReturns
  BY <1>7 DEF StartReturns
<1>8. CASE Stop
  BY <1>8 DEF Stop
<1>9. CASE Joined
  BY <1>9 DEF Joined
<1>10. CASE UNCHANGED vars
  BY <1>10 DEF vars
<1>11. QED BY <1>1, <1>2, <1>3, <1>4, <1>5, <1>6, <1>7, <1>8, <1>9, <1>10 DEF Next

\* A change that hotChange makes while the log does not run is made before the log thread
\* begins.
LEMMA BeforeTheLog ==
  ASSUME Young, Ending, Hands, TypeOK, NEW t \in Callers, pc[t] = "apply", ~running
  PROVE  accepted = <<>> /\ \A u \in Callers : pc[u] # "enqueue"
<1>1. t \in threads /\ lpc \in {"off", "begin", "banner", "loop", "have", "slept", "closing", "done"}
  BY DEF Hands, Callers, TypeOK
<1>2. lpc \in {"off", "begin"}
  BY <1>1 DEF Ending
<1>3. QED BY <1>2 DEF Young

\* A change that is made at once keeps what is excused: it makes the logger milder, or is
\* itself the reason.
LEMMA ExcusedAtOnce ==
  ASSUME TypeOK, TypeOK', Hands, NEW t \in Callers, ChangeAtOnce(t), Overtaken(t) \/ pc[t] = "lower",
         NEW q \in Records, q.type = "GENERAL", Excused(q)
  PROVE  Excused(q)'
<1> DEFINE r == rec[t]
<1>1. /\ r \in Records /\ r.type \in {"LEVEL", "ENABLE"} /\ (pc[t] = "lower" => r.type = "LEVEL")
      /\ pc[t] \in {"lower", "apply"}
  BY DEF ChangeAtOnce, Hands, Records
<1>2. q.val \in Nat /\ level \in Nat /\ (r.type = "LEVEL" => r.val \in Nat) /\ (r.type = "ENABLE" => r.val = FALSE)
  BY <1>1, LoggerAssumption DEF TypeOK, Records
<1>3. /\ enable' = (IF r.type = "ENABLE" THEN r.val ELSE enable)
      /\ level' = (IF r.type = "LEVEL" THEN r.val ELSE level)
      /\ UNCHANGED <<accepted, fate>>
      /\ stale \subseteq stale' /\ (Overtaken(t) => r \in stale')
  BY DEF ChangeAtOnce, Apply
<1>4. CASE Overtaken(t) /\ Discards(r, q)
  BY <1>3, <1>4 DEF Excused
<1>5. CASE Overtaken(t) /\ ~Discards(r, q)
  <2>1. r.type = "LEVEL" /\ ~(r.val > q.val)
    BY <1>1, <1>5 DEF Discards
  <2>2. enable' = enable /\ q.val >= level'
    BY <1>2, <1>3, <2>1
  <2>3. CASE enable
    BY <2>2, <2>3 DEF Excused
  <2>4. CASE ~enable
    BY <1>3, <2>4 DEF Excused
  <2>5. QED BY <2>3, <2>4
<1>6. CASE ~Overtaken(t)
  <2>1. pc[t] = "lower" /\ r.type = "LEVEL" /\ ~(r.val > level)
    BY <1>1, <1>6 DEF Overtaken
  <2>2. enable' = enable /\ level' = r.val /\ level' <= level /\ level' \in Nat
    BY <1>2, <1>3, <2>1
  <2>3. (enable' /\ q.val >= level') \/ ~(enable /\ q.val >= level)
    BY <1>2, <2>2
  <2>4. QED BY <1>3, <2>3 DEF Excused
<1>7. QED BY <1>4, <1>5, <1>6

\* No step discards a record without a reason, or makes another one do so.
LEMMA ReasonsStep ==
  TypeOK /\ Hands /\ InQueue /\ Ending /\ Young /\ Reasons /\ [Next]_vars => Reasons'
<1> SUFFICES ASSUME TypeOK, Hands, InQueue, Ending, Young, Reasons, [Next]_vars PROVE Reasons'
  OBVIOUS
<1>0. /\ TypeOK' /\ Hands'
      /\ pc \in [Callers -> Places]
      /\ rec \in [Callers -> Records \cup {NULL}] /\ LOG \in Callers
      /\ level \in Nat /\ enable \in BOOLEAN /\ Levels \subseteq Nat
  BY TypeStep, CallersFact, LoggerAssumption DEF TypeOK
<1> DEFINE n == Len(fate)
<1>a. /\ n \in Nat /\ Len(accepted) \in Nat /\ n <= Len(accepted)
      /\ accepted \in Seq(Records) /\ Len(Waiting) \in Nat
  BY Lengths DEF TypeOK, InQueue
<1> USE <1>0 DEF flags, call, GoTo
<1>1. ASSUME NEW t \in Callers, NEW l \in Levels, PrePushLog(t, l) PROVE Reasons'
  BY <1>1, Milder DEF PrePushLog
<1>2. ASSUME NEW t \in Callers, NEW l \in Levels, SetLoggerLevel(t, l) PROVE Reasons'
  BY <1>2, Milder DEF SetLoggerLevel
<1>3. ASSUME NEW t \in Callers, NEW e \in BOOLEAN, EnableLogger(t, e) PROVE Reasons'
  BY <1>3, Milder DEF EnableLogger, HotChange
<1>31. ASSUME NEW t \in Callers, RaiseLevel(t) PROVE Reasons'
  BY <1>31, Milder DEF RaiseLevel, HotChange
<1>32. ASSUME NEW t \in Callers, ChangeAtOnce(t) PROVE Reasons'
  <2>1. /\ pc[t] \in {"lower", "apply"} /\ UNCHANGED <<threads, accepted, fate>>
        /\ pc' = [pc EXCEPT ![t] = "idle"] /\ rec' = [rec EXCEPT ![t] = NULL]
        /\ stale \subseteq stale' /\ Callers' = Callers
    BY <1>32 DEF ChangeAtOnce, Callers
  <2>2. CASE ~Overtaken(t) /\ pc[t] = "apply"
    <3>1. accepted = <<>> /\ \A u \in Callers : pc[u] # "enqueue"
      BY <2>2, BeforeTheLog DEF Overtaken
    <3>2. accepted' = <<>> /\ fate' = <<>> /\ \A u \in Callers' : pc'[u] # "enqueue"
      BY <1>a, <2>1, <3>1, EmptySeq DEF TypeOK
    <3>3. QED BY <3>2 DEF Reasons, AtHand, Queued, DiscardExplained
  <2>3. CASE Overtaken(t) \/ pc[t] = "lower"
    <3>1. ASSUME NEW q \in Records, q.type = "GENERAL", Excused(q) PROVE Excused(q)'
      BY <1>32, <2>3, <3>1, ExcusedAtOnce
    <3>2. AtHand'
      <4> SUFFICES ASSUME NEW u \in Callers, pc'[u] = "enqueue", rec'[u].type = "GENERAL"
                   PROVE  Excused(rec[u])'
        BY <2>1 DEF AtHand
      <4>1. pc[u] = "enqueue" /\ rec'[u] = rec[u] /\ rec[u] \in Records /\ rec[u].type = "GENERAL"
        BY <2>1 DEF Hands
      <4>2. Excused(rec[u])
        BY <4>1 DEF Reasons, AtHand
      <4>3. ASSUME NEW q \in Records, q = rec[u] PROVE Excused(q)'
        BY <3>1, <4>1, <4>2, <4>3
      <4>4. QED BY <4>1, <4>3 DEF Excused
    <3>3. Queued'
      <4> SUFFICES ASSUME NEW k \in n + 1 .. Len(accepted), accepted[k].type = "GENERAL"
                   PROVE  Excused(accepted[k])'
        BY <2>1 DEF Queued
      <4>1. accepted[k] \in Records /\ Excused(accepted[k])
        BY <1>a, ElementOfSeq DEF Reasons, Queued
      <4>2. ASSUME NEW q \in Records, q = accepted[k] PROVE Excused(q)'
        BY <3>1, <4>1, <4>2
      <4>3. QED BY <2>1, <4>1, <4>2 DEF Excused
    <3>4. DiscardExplained'
      BY <2>1 DEF DiscardExplained, Reasons, Discards
    <3>5. QED BY <3>2, <3>3, <3>4 DEF Reasons
  <2>4. QED BY <2>1, <2>2, <2>3
<1>4. ASSUME NEW t \in Callers, MakeLogData(t) PROVE Reasons'
  BY <1>4, Milder DEF MakeLogData
<1>5. ASSUME NEW t \in Callers, PushCheck(t) PROVE Reasons'
  BY <1>5, Milder DEF PushCheck, Passes
<1>6. ASSUME NEW t \in Callers, Enqueue(t) PROVE Reasons'
  <2> DEFINE r == rec[t]
             m == Len(accepted)
  <2>1. /\ r \in Records /\ pc[t] = "enqueue" /\ accepted' = Append(accepted, r)
        /\ pc' = [pc EXCEPT ![t] = "idle"] /\ rec' = [rec EXCEPT ![t] = NULL]
        /\ UNCHANGED <<fate, enable, level, threads, stale>>
    BY <1>6 DEF Enqueue, Hands
  <2>2. /\ Len(accepted') = m + 1 /\ accepted'[m + 1] = r
        /\ \A i \in 1 .. m : accepted'[i] = accepted[i]
    BY <1>a, <2>1, AppendProperties
  <2>3. ASSUME NEW q, Excused(q) PROVE Excused(q)'
    BY <1>a, <2>1, <2>2, <2>3 DEF Excused
  <2>4. AtHand'
    <3> SUFFICES ASSUME NEW u \in Callers, pc'[u] = "enqueue", rec'[u].type = "GENERAL"
                 PROVE  Excused(rec[u])'
      BY <2>1 DEF AtHand, Callers
    <3>1. pc[u] = "enqueue" /\ rec'[u] = rec[u] /\ rec[u].type = "GENERAL"
      BY <2>1
    <3>2. Excused(rec[u])
      BY <3>1 DEF Reasons, AtHand
    <3>3. ASSUME NEW q, q = rec[u] PROVE Excused(q)'
      BY <2>3, <3>2, <3>3
    <3>4. QED BY <3>1, <3>3 DEF Excused
  <2>5. Queued'
    <3> SUFFICES ASSUME NEW k \in n + 1 .. m + 1, accepted'[k].type = "GENERAL"
                 PROVE  Excused(accepted[k])'
      BY <2>1, <2>2 DEF Queued
    <3>1. Excused(accepted'[k])
      <4>1. CASE k = m + 1
        BY <2>1, <2>2, <4>1 DEF Reasons, AtHand
      <4>2. CASE k # m + 1
        BY <1>a, <2>2, <4>2 DEF Reasons, Queued
      <4>3. QED BY <4>1, <4>2
    <3>2. ASSUME NEW q, q = accepted'[k] PROVE Excused(q)'
      BY <2>3, <3>1, <3>2
    <3>3. QED BY <3>2 DEF Excused
  <2>6. DiscardExplained'
    <3> SUFFICES ASSUME NEW k \in 1 .. n, fate[k] = "dropped"
                 PROVE  \/ \E j \in 1 .. k - 1 : Discards(accepted'[j], accepted'[k])
                        \/ \E c \in stale : Discards(c, accepted'[k])
      BY <2>1 DEF DiscardExplained, Discards
    <3>1. accepted'[k] = accepted[k] /\ \A j \in 1 .. k - 1 : accepted'[j] = accepted[j]
      BY <1>a, <2>2
    <3>2. \/ \E j \in 1 .. k - 1 : Discards(accepted[j], accepted[k])
          \/ \E c \in stale : Discards(c, accepted[k])
      BY DEF Reasons, DiscardExplained
    <3>3. QED BY <3>1, <3>2
  <2>7. QED BY <2>4, <2>5, <2>6 DEF Reasons
<1>7. ASSUME NEW t \in Callers, FreeCheck(t) PROVE Reasons'
  BY <1>7, Milder DEF FreeCheck
<1>8. ASSUME NEW t \in Callers, FreeReturn(t) PROVE Reasons'
  BY <1>8, Milder DEF FreeReturn
<1>9. CASE Begin
  BY <1>9, Milder DEF Begin
<1>10. CASE BannerDone
  BY <1>10, Milder DEF BannerDone
<1>11. CASE PopLog
  BY <1>11, Milder DEF PopLog
<1>12. CASE Handle
  <2> DEFINE r == rec[LOG]
  <2>1. PICK o \in Outcome(r) :
          /\ fate' = Append(fate, o)
          /\ IF o = "applied"
             THEN Apply(r)
             ELSE outfile' = (outfile /\ o # "unwritten") /\ UNCHANGED <<running, enable, level>>
    BY <1>12 DEF Handle
  <2>2. /\ lpc = "have" /\ r \in Records /\ UNCHANGED <<threads, accepted, stale>>
        /\ pc' = [pc EXCEPT ![LOG] = "free"] /\ rec' = [rec EXCEPT ![LOG] = NULL]
    BY <1>12 DEF Handle, Hands
  <2>3. o \in {"applied", "dropped", "written", "unwritten", "shown"}
        /\ (o = "applied") = (r.type # "GENERAL") /\ (o = "dropped" => ~enable \/ r.val < level)
    BY <2>1 DEF Outcome
  <2>4. Len(fate') = n + 1 /\ fate'[n + 1] = o /\ \A i \in 1 .. n : fate'[i] = fate[i]
    BY <1>a, <2>1, <2>3, AppendProperties DEF TypeOK
  <2>5. n + 1 <= Len(accepted) /\ accepted[n + 1] = r
    <3>1. Waiting = (<<r>> \o cache) \o logs /\ <<r>> \in Seq(Records)
      BY <2>2 DEF Waiting
    <3>2. <<r>> \o cache \in Seq(Records) /\ (<<r>> \o cache)[1] = r /\ Len(<<r>> \o cache) \in Nat \ {0}
      <4> HIDE DEF r
      <4>1. QED BY <3>1, ConcatProperties, LenProperties DEF TypeOK
    <3>3. Len(Waiting) >= 1 /\ Waiting[1] = r
      <4> DEFINE s == <<r>> \o cache
      <4> HIDE DEF s
      <4>1. s \in Seq(Records) /\ s[1] = r /\ Len(s) \in Nat \ {0} /\ Waiting = s \o logs
        BY <3>1, <3>2 DEF s
      <4>2. QED BY <4>1, ConcatProperties, LenProperties DEF TypeOK
    <3>4. QED BY <1>a, <3>3 DEF InQueue
  <2>6. ASSUME NEW q \in Records, q.type = "GENERAL", Excused(q) PROVE Excused(q)'
    <3>1. q.val \in Nat
      BY <2>6 DEF Records
    <3>2. CASE o # "applied"
      BY <1>a, <2>1, <2>2, <2>4, <2>6, <3>2 DEF Excused
    <3>3. CASE o = "applied"
      <4>1. r.type \in {"LEVEL", "ENABLE"} /\ Apply(r) /\ (r.type = "LEVEL" => r.val \in Nat)
            /\ (r.type = "ENABLE" => r.val = FALSE)
        BY <2>1, <2>2, <2>3, <3>3 DEF Records
      <4>2. CASE r.type = "ENABLE"
        BY <1>a, <2>2, <2>4, <2>5, <4>2 DEF Excused, Discards
      <4>3. CASE r.type = "LEVEL"
        <5>1. enable' = enable /\ level' = r.val
          BY <4>1, <4>3 DEF Apply
        <5>2. CASE r.val > q.val
          BY <1>a, <2>2, <2>4, <2>5, <4>3, <5>2 DEF Excused, Discards
        <5>3. CASE ~(r.val > q.val)
          BY <1>a, <2>2, <2>4, <2>5, <2>6, <3>1, <4>1, <4>3, <5>1, <5>3 DEF Excused
        <5>4. QED BY <5>2, <5>3
      <4>4. QED BY <4>1, <4>2, <4>3
    <3>4. QED BY <3>2, <3>3
  <2>7. AtHand'
    <3> SUFFICES ASSUME NEW u \in Callers, pc'[u] = "enqueue", rec'[u].type = "GENERAL"
                 PROVE  Excused(rec[u])'
      BY <2>2 DEF AtHand, Callers
    <3>1. pc[u] = "enqueue" /\ rec'[u] = rec[u] /\ rec[u] \in Records /\ rec[u].type = "GENERAL"
      BY <2>2 DEF Hands
    <3>2. Excused(rec[u])
      BY <3>1 DEF Reasons, AtHand
    <3>3. ASSUME NEW q \in Records, q = rec[u] PROVE Excused(q)'
      BY <2>6, <3>1, <3>2, <3>3
    <3>4. QED BY <3>1, <3>3 DEF Excused
  <2>8. Queued'
    <3> SUFFICES ASSUME NEW k \in n + 2 .. Len(accepted), accepted[k].type = "GENERAL"
                 PROVE  Excused(accepted[k])'
      BY <1>a, <2>2, <2>4 DEF Queued
    <3>1. accepted[k] \in Records /\ Excused(accepted[k])
      BY <1>a, ElementOfSeq DEF Reasons, Queued
    <3>2. ASSUME NEW q \in Records, q = accepted[k] PROVE Excused(q)'
      BY <2>6, <3>1, <3>2
    <3>3. QED BY <2>2, <3>1, <3>2 DEF Excused
  <2>9. DiscardExplained'
    <3>1. ASSUME o = "dropped"
          PROVE  \/ \E j \in 1 .. n : Discards(accepted[j], accepted[n + 1])
                 \/ \E c \in stale : Discards(c, accepted[n + 1])
      <4>1. r.type = "GENERAL" /\ r.val \in Nat /\ (~enable \/ r.val < level)
        BY <2>2, <2>3, <3>1 DEF Records
      <4>2. Excused(accepted[n + 1])
        BY <1>a, <2>5, <4>1 DEF Reasons, Queued
      <4>3. ~(enable /\ accepted[n + 1].val >= level)
        BY <2>5, <4>1
      <4>4. QED BY <4>2, <4>3 DEF Excused
    <3>2. ASSUME NEW k \in 1 .. n + 1, fate'[k] = "dropped"
          PROVE  \/ \E j \in 1 .. k - 1 : Discards(accepted[j], accepted[k])
                 \/ \E c \in stale : Discards(c, accepted[k])
      <4>1. CASE k = n + 1
        BY <1>a, <2>4, <3>1, <3>2, <4>1
      <4>2. CASE k # n + 1
        BY <1>a, <2>4, <3>2, <4>2 DEF Reasons, DiscardExplained
      <4>3. QED BY <4>1, <4>2
    <3>3. QED BY <2>2, <2>4, <3>2 DEF DiscardExplained, Discards
  <2>10. QED BY <2>7, <2>8, <2>9 DEF Reasons
<1>13. CASE Idle
  BY <1>13, Milder DEF Idle
<1>14. CASE Quit
  BY <1>14, Milder DEF Quit
<1>15. CASE Close
  <2>1. /\ lpc = "closing" /\ UNCHANGED <<threads, pc, rec, accepted, fate, stale>>
    BY <1>15 DEF Close
  <2>2. Waiting = <<>> /\ \A u \in Callers : pc[u] = "idle"
    BY <2>1 DEF Ending, Waiting, Callers
  <2>3. Len(accepted) = n /\ Callers' = Callers
    BY <1>a, <2>1, <2>2 DEF InQueue, Callers
  <2>4. AtHand' /\ Queued'
    BY <1>a, <2>1, <2>2, <2>3 DEF AtHand, Queued
  <2>5. DiscardExplained'
    BY <2>1 DEF DiscardExplained, Reasons
  <2>6. QED BY <2>4, <2>5 DEF Reasons
<1>16. CASE Start
  BY <1>16, Milder DEF Start
<1>17. CASE StartReturns
  BY <1>17, Milder DEF StartReturns
<1>18. CASE Stop
  BY <1>18, Milder DEF Stop
<1>19. CASE Joined
  BY <1>19, Milder DEF Joined
<1>20. CASE UNCHANGED vars
  BY <1>20, Milder DEF vars
<1>21. QED
  BY <1>1, <1>2, <1>3, <1>31, <1>32, <1>4, <1>5, <1>6, <1>7, <1>8, <1>9, <1>10, <1>11, <1>12, <1>13,
     <1>14, <1>15, <1>16, <1>17, <1>18, <1>19, <1>20
  DEF Next, CallGoesOn, LogThread

\* The log thread discards a record only after a change that was accepted before it, or one
\* that was made at once on the word of a test that no longer held.
THEOREM DiscardsExcused == Spec => []DiscardExplained
<1>1. Init => InQueue /\ Ending /\ Young /\ Reasons
  <2> SUFFICES ASSUME Init PROVE InQueue /\ Ending /\ Young /\ Reasons
    OBVIOUS
  <2>1. Reasons
    BY ReasonsEmpty DEF Init
  <2>2. QED BY <2>1 DEF Init, InQueue, Waiting, Ending, Young
<1>2. Reasons => DiscardExplained
  BY DEF Reasons
<1>3. QED
  BY <1>1, <1>2, TypeInit, TypeStep, InQueueStep, EndingStep, YoungStep, ReasonsStep, PTL DEF Spec
=============================================================================
