-------------------------- MODULE MessageStreamProofs --------------------------
(***************************************************************************)
(* Theorems about MessageStream, wherever the network may cut and however  *)
(* much may be on its way or wait.                                         *)
(***************************************************************************)
EXTENDS MessageStream, SequenceTheorems, TLAPS

\* What the sizes of the source are.
Sizes == BufferSize = 1024 /\ MessageSize = 1024 /\ TypeEnd = 4 /\ IdEnd = 8 /\ LoginEnd = 66

\* The sizes are numbers.
LEMMA SizesFact == Sizes
  BY DEF Sizes, BufferSize, MessageSize, TypeEnd, IdEnd, LoginEnd

(***************************************************************************)
(* Reading from a stream.                                                  *)
(***************************************************************************)

\* An arrival has at least one byte, and ends within the stream.
LEMMA ArrivalFact ==
  ASSUME NEW kinds, NEW s \in Streams(kinds), NEW n \in Arrivals(s)
  PROVE  /\ n \in Nat /\ n >= 1 /\ Len(s.msgs) \in Nat /\ s.msgs \in Seq(kinds) /\ s.msgs # <<>>
         /\ s.at \in 0 .. 1023 /\ s.here \in Nat
         /\ s.at + s.here + n <= 1024 * Len(s.msgs)
<1> DEFINE at   == s.at
           here == s.here
           len  == Len(s.msgs)
<1>1. s.msgs \in Seq(kinds) /\ at \in 0 .. 1023 /\ here \in Nat /\ len \in Nat
  BY SizesFact, LenProperties DEF Streams, Sizes
<1>2. n \in 1 .. (1024 * len - at - here)
  BY SizesFact DEF Arrivals, Behind, Sizes
<1>3. s.msgs = <<>> => len = 0
  OBVIOUS
<1> HIDE DEF at, here, len
<1>4. n \in Nat /\ n >= 1 /\ at + here + n <= 1024 * len
  BY <1>1, <1>2
<1>5. len # 0
  BY <1>1, <1>4
<1>6. QED BY <1>1, <1>3, <1>4, <1>5 DEF at, here, len

\* On a calm network an arrival ends where a message ends.
LEMMA CalmArrival ==
  ASSUME NEW kinds, NEW s \in Streams(kinds), NEW n \in Arrivals(s), calm
  PROVE  \E k \in 0 .. Len(s.msgs) : s.at + s.here + n = 1024 * k
<1> DEFINE at   == s.at
           here == s.here
           len  == Len(s.msgs)
<1>1. n \in {e - at - here : e \in {1024 * k + o : k \in 0 .. len, o \in {0}}}
  BY SizesFact DEF Arrivals, Sizes
<1>2. at \in 0 .. 1023 /\ here \in Nat /\ len \in Nat
  BY ArrivalFact
<1> HIDE DEF at, here, len
<1>4. PICK e \in {1024 * k + o : k \in 0 .. len, o \in {0}} : n = e - at - here
  BY <1>1
<1>5. PICK k \in 0 .. len, o \in {0} : e = 1024 * k + o
  BY <1>4
<1>6. e = 1024 * k
  BY <1>2, <1>5
<1>7. n \in Nat
  BY ArrivalFact
<1>8. at + here + n = 1024 * k
  BY <1>2, <1>4, <1>6, <1>7
<1>9. QED BY <1>8 DEF at, here, len

\* A read spans two messages at most.
LEMMA TwoMessages ==
  ASSUME NEW e \in 1 .. 2047
  PROVE  /\ e < 1024 => e \div 1024 = 0 /\ e % 1024 = e
         /\ e >= 1024 => e \div 1024 = 1 /\ e % 1024 = e - 1024
  BY Z3

\* How much is taken, and what is left of the stream.
LEMMA ReadFact ==
  ASSUME NEW kinds, NEW s \in Streams(kinds), NEW n \in Arrivals(s)
  PROVE  /\ Taken(s, n) \in 1 .. 1024 /\ Taken(s, n) <= s.here + n
         /\ Taken(s, n) < 1024 => Taken(s, n) = s.here + n
         /\ After(s, n) \in Streams(kinds)
         /\ After(s, n).at = (s.at + Taken(s, n)) % 1024
         /\ s.at + Taken(s, n) < 1024 => After(s, n).msgs = s.msgs
         /\ s.at + Taken(s, n) >= 1024 => After(s, n).msgs = Tail(s.msgs)
<1> DEFINE at   == s.at
           here == s.here
           took == Taken(s, n)
           end  == at + took
           m    == 1 + end \div 1024
<1>1. /\ n \in Nat /\ n >= 1 /\ Len(s.msgs) \in Nat /\ s.msgs \in Seq(kinds) /\ s.msgs # <<>>
      /\ at \in 0 .. 1023 /\ here \in Nat
  BY ArrivalFact
<1>2. took = IF here + n < 1024 THEN here + n ELSE 1024
  BY SizesFact DEF Taken, Sizes
<1>3. After(s, n) = [msgs |-> SubSeq(s.msgs, m, Len(s.msgs)), at |-> end % 1024, here |-> here + n - took]
  BY SizesFact DEF After, Sizes
<1> HIDE DEF took, at, here
<1>a. took \in 1 .. 1024 /\ took <= here + n /\ (took < 1024 => took = here + n)
  BY <1>1, <1>2
<1>4. end \in 1 .. 2047 /\ end % 1024 \in 0 .. 1023
  BY <1>1, <1>a
<1> HIDE DEF end
<1>5. (end < 1024 => m = 1) /\ (end >= 1024 => m = 2)
  <2>1. (end < 1024 => end \div 1024 = 0) /\ (end >= 1024 => end \div 1024 = 1)
    BY <1>4, TwoMessages
  <2>2. QED BY <1>4, <2>1
<1>6. m = 1 => SubSeq(s.msgs, m, Len(s.msgs)) = s.msgs
  BY <1>1, SubSeqFull
<1>7. m = 2 => SubSeq(s.msgs, m, Len(s.msgs)) = Tail(s.msgs)
  BY <1>1, TailIsSubSeq
<1> HIDE DEF m
<1>8. SubSeq(s.msgs, m, Len(s.msgs)) \in Seq(kinds)
  <2>1. m = 1 \/ m = 2
    BY <1>4, <1>5
  <2>2. Tail(s.msgs) \in Seq(kinds)
    BY <1>1, HeadTailProperties
  <2>3. QED BY <1>1, <1>6, <1>7, <2>1, <2>2
<1>9. here + n - took \in Nat
  BY <1>1, <1>a
<1>10. After(s, n) \in Streams(kinds)
  BY <1>3, <1>4, <1>8, <1>9, SizesFact DEF Streams, Sizes
<1>11. /\ After(s, n).at = end % 1024
       /\ end < 1024 => After(s, n).msgs = s.msgs
       /\ end >= 1024 => After(s, n).msgs = Tail(s.msgs)
  BY <1>3, <1>5, <1>6, <1>7
<1>12. QED BY <1>a, <1>10, <1>11 DEF took, end, at, here

\* Messages that are written.
LEMMA WriteFact ==
  ASSUME NEW kinds, NEW s \in Streams(kinds), NEW m \in kinds
  PROVE  /\ Write(s, m) \in Streams(kinds)
         /\ Write(s, m).msgs = Append(s.msgs, m) /\ Write(s, m).at = s.at
  BY AppendProperties DEF Write, Streams

\* A stream with nothing in it.
LEMMA EmptyFact == \A kinds : Empty \in Streams(kinds)
  BY SizesFact DEF Empty, Streams, Sizes

\* A message is decoded where it begins, or nothing is.
LEMMA DecodeFact ==
  ASSUME NEW kinds, NEW s \in Streams(kinds), NEW n \in Arrivals(s)
  PROVE  /\ Decode(s, n) \in kinds \cup {"NOT_PB", "UNKNOWN"}
         /\ Decode(s, n) \notin {"NOT_PB", "UNKNOWN"} => s.at = 0 /\ Decode(s, n) = Head(s.msgs)
  BY ArrivalFact, HeadTailProperties DEF Decode

-----------------------------------------------------------------------------
(***************************************************************************)
(* Type correctness.                                                       *)
(***************************************************************************)

\* What the server does for an arrival.
LEMMA ServerType ==
  ASSUME TypeOK, NEW n \in Arrivals(up), ServerRead(n)
  PROVE  TypeOK'
<1> DEFINE id == Decode(up, n)
<1>1. id \in Requests \cup {"NOT_PB", "UNKNOWN"} /\ After(up, n) \in Streams(Requests)
  BY DecodeFact, ReadFact DEF TypeOK
<1>2. /\ up' = After(up, n)
      /\ down' = (IF id = "NOT_PB" THEN down ELSE Write(down, AnswerTo[id]))
      /\ login' \in {login, "whole", "shorn"}
      /\ cut' = (cut \/ (up.at + up.here + n) % MessageSize # 0)
      /\ UNCHANGED <<calm, timers, fired, silent, got>>
  BY DEF ServerRead
<1> HIDE DEF id
<1>3. id # "NOT_PB" => AnswerTo[id] \in Answers
  BY <1>1 DEF AnswerTo, Requests, Answers
<1>4. down' \in Streams(Answers)
  BY <1>2, <1>3, WriteFact DEF TypeOK
<1>5. cut' \in BOOLEAN
  BY <1>2 DEF TypeOK
<1>6. QED BY <1>1, <1>2, <1>4, <1>5 DEF TypeOK

\* TypeOK is kept by every step.
LEMMA TypeStep == TypeOK /\ [Next]_vars => TypeOK'
<1> SUFFICES ASSUME TypeOK, [Next]_vars PROVE TypeOK'
  OBVIOUS
<1>1. CASE ServerStep
  BY <1>1, ServerType DEF ServerStep
<1>2. CASE SendReqCloseNode
  <2>1. "REQ_CLOSE_NODE" \in Answers
    BY DEF Answers
  <2>2. QED BY <1>2, <2>1, WriteFact DEF SendReqCloseNode, TypeOK
<1>3. CASE ClientStep
  <2>1. PICK n \in Arrivals(down) : ClientRead(n)
    BY <1>3 DEF ClientStep
  <2> DEFINE id == Decode(down, n)
  <2>2. id \in Answers \cup {"NOT_PB", "UNKNOWN"} /\ After(down, n) \in Streams(Answers)
    BY DecodeFact, ReadFact DEF TypeOK
  <2>3. /\ down' = After(down, n)
        /\ got' = (IF id \in {"NOT_PB", "UNKNOWN"} THEN got ELSE id)
        /\ silent' \in {0, silent}
        /\ timers' = (IF id = "RESP_NODE_LOGIN" /\ timers < 2 THEN timers + 1 ELSE timers)
        /\ UNCHANGED <<up, calm, cut, login, fired>>
    BY <2>1 DEF ClientRead
  <2> HIDE DEF id
  <2>4. QED BY <2>2, <2>3 DEF TypeOK, MissedLimit
<1>4. CASE Interval
  BY <1>4 DEF Interval, TypeOK, MissedLimit
<1>5. CASE ReqHeatBeat
  <2>1. "REQ_HEART_BEAT" \in Requests
    BY DEF Requests
  <2>2. QED BY <1>5, <2>1, WriteFact DEF ReqHeatBeat, Due, TypeOK
<1>6. CASE Reconnect
  <2>1. "REQ_HEART_BEAT" \in Requests /\ "REQ_NODE_LOGIN" \in Requests
    BY DEF Requests
  <2>2. up' \in Streams(Requests) /\ down' \in Streams(Answers)
    BY <1>6, <2>1, WriteFact, EmptyFact DEF Reconnect
  <2>3. timers' \in 0 .. 2 /\ fired' \in 0 .. 2 /\ silent' \in 0 .. MissedLimit + 1
    BY <1>6 DEF Reconnect, Due, TypeOK, MissedLimit
  <2>4. /\ calm' \in BOOLEAN /\ cut' \in BOOLEAN
        /\ login' \in {"none", "whole", "shorn"} /\ got' \in Answers \cup {"nothing"}
    BY <1>6 DEF Reconnect, TypeOK
  <2>5. QED BY <2>2, <2>3, <2>4 DEF TypeOK
<1>7. CASE Settle
  BY <1>7 DEF Settle, TypeOK
<1>8. CASE UNCHANGED vars
  BY <1>8 DEF vars, TypeOK
<1>9. QED BY <1>1, <1>2, <1>3, <1>4, <1>5, <1>6, <1>7, <1>8 DEF Next, HeartTimeoutCB

\* TypeOK holds when the node has sent its first login.
LEMMA TypeInit == Init => TypeOK
<1> SUFFICES ASSUME Init PROVE TypeOK
  OBVIOUS
<1>1. "REQ_NODE_LOGIN" \in Requests
  BY DEF Requests
<1>3. Empty \in Streams(Requests) /\ Empty \in Streams(Answers)
  BY EmptyFact
<1>4. up \in Streams(Requests)
  <2>1. Write(Empty, "REQ_NODE_LOGIN") \in Streams(Requests)
    BY <1>1, <1>3, WriteFact
  <2>2. QED BY <2>1 DEF Init
<1>5. down \in Streams(Answers)
  BY <1>3 DEF Init
<1>6. timers \in 0 .. 2 /\ fired \in 0 .. 2 /\ silent \in 0 .. MissedLimit + 1
  BY DEF Init, MissedLimit
<1>7. /\ calm \in BOOLEAN /\ cut \in BOOLEAN
      /\ login \in {"none", "whole", "shorn"} /\ got \in Answers \cup {"nothing"}
  BY DEF Init
<1>8. QED BY <1>4, <1>5, <1>6, <1>7 DEF TypeOK

\* Every variable keeps its type.
THEOREM TypeCorrect == Spec => []TypeOK
  BY TypeInit, TypeStep, PTL DEF Spec

-----------------------------------------------------------------------------
(***************************************************************************)
(* Logins that are taken for whole.                                        *)
(***************************************************************************)

\* A login of which the body is not all there was read from an arrival that ended
\* within it.
LEMMA ShornStep == TypeOK /\ ShornNeedsCut /\ [Next]_vars => ShornNeedsCut'
<1> SUFFICES ASSUME TypeOK, ShornNeedsCut, [Next]_vars PROVE ShornNeedsCut'
  OBVIOUS
<1>1. CASE ServerStep
  <2>1. PICK n \in Arrivals(up) : ServerRead(n)
    BY <1>1 DEF ServerStep
  <2> DEFINE id == Decode(up, n)
  <2>a. cut \in BOOLEAN /\ login \in {"none", "whole", "shorn"}
    BY DEF TypeOK
  <2>2. CASE id = "REQ_NODE_LOGIN" /\ Taken(up, n) < LoginEnd
    <3>1. up.at = 0
      BY <2>2, DecodeFact DEF TypeOK
    <3>2. Taken(up, n) < 66 /\ Taken(up, n) >= 1 /\ Taken(up, n) = up.here + n
      BY <2>2, ReadFact, SizesFact DEF TypeOK, Sizes
    <3>3. (up.at + up.here + n) % 1024 # 0
      BY <3>1, <3>2, ArrivalFact DEF TypeOK
    <3>4. QED BY <2>1, <3>3, SizesFact DEF ServerRead, ShornNeedsCut, Sizes
  <2>3. CASE ~(id = "REQ_NODE_LOGIN" /\ Taken(up, n) < LoginEnd)
    <3>1. login' \in {login, "whole"} /\ (cut => cut')
      <4> DEFINE took == Taken(up, n)
      <4>1. took \in Nat
        BY ReadFact DEF TypeOK
      <4>2. login' = (IF id # "REQ_NODE_LOGIN" THEN login ELSE IF took >= LoginEnd THEN "whole" ELSE "shorn")
            /\ cut' = (cut \/ (up.at + up.here + n) % MessageSize # 0)
        BY <2>1 DEF ServerRead
      <4>3. id # "REQ_NODE_LOGIN" \/ ~(took < 66)
        BY <2>3, SizesFact DEF Sizes
      <4> HIDE DEF id, took
      <4>4. login' \in {login, "whole"}
        BY <4>1, <4>2, <4>3, SizesFact DEF Sizes
      <4>5. cut => cut'
        BY <4>2, Zenon
      <4>6. QED BY <4>4, <4>5
    <3>2. QED BY <3>1 DEF ShornNeedsCut
  <2>4. QED BY <2>2, <2>3
<1>2. CASE SendReqCloseNode
  BY <1>2 DEF SendReqCloseNode, ShornNeedsCut
<1>3. CASE ClientStep
  BY <1>3 DEF ClientStep, ClientRead, ShornNeedsCut
<1>4. CASE Interval
  BY <1>4 DEF Interval, ShornNeedsCut
<1>5. CASE ReqHeatBeat
  BY <1>5 DEF ReqHeatBeat, ShornNeedsCut
<1>6. CASE Reconnect
  BY <1>6 DEF Reconnect, ShornNeedsCut
<1>7. CASE Settle
  BY <1>7 DEF Settle, ShornNeedsCut
<1>8. CASE UNCHANGED vars
  BY <1>8 DEF vars, ShornNeedsCut
<1>9. QED BY <1>1, <1>2, <1>3, <1>4, <1>5, <1>6, <1>7, <1>8 DEF Next, HeartTimeoutCB

\* The server takes part of a login for the whole only on a connection that cut one.
THEOREM ShornOnlyByCut == Spec => []ShornNeedsCut
<1>1. Init => ShornNeedsCut
  BY DEF Init, ShornNeedsCut
<1>2. QED BY <1>1, TypeInit, TypeStep, ShornStep, PTL DEF Spec

-----------------------------------------------------------------------------
(***************************************************************************)
(* The refinement of Exchange.                                             *)
(***************************************************************************)

\* A stream that is read up to the inside of a message has that message.
Inside(s) == s.at > 0 => s.msgs # <<>>

\* What a read does to the messages whose first byte is still to be read: from the
\* start of a message it takes that one; from the inside it takes none, or the next
\* one with it.
LEMMA UnreadFact ==
  ASSUME NEW kinds, NEW s \in Streams(kinds), NEW n \in Arrivals(s)
  PROVE  /\ Inside(After(s, n))
         /\ s.at = 0 => /\ Unread(s) # <<>> /\ Head(Unread(s)) = Head(s.msgs) /\ Head(s.msgs) \in kinds
                        /\ Unread(After(s, n)) = Tail(Unread(s))
         /\ s.at # 0 => \/ Unread(After(s, n)) = Unread(s)
                        \/ Unread(s) # <<>> /\ Unread(After(s, n)) = Tail(Unread(s))
<1> DEFINE at   == s.at
           here == s.here
           took == Taken(s, n)
           len  == Len(s.msgs)
           then == After(s, n)
<1>1. /\ n \in Nat /\ n >= 1 /\ len \in Nat /\ s.msgs \in Seq(kinds) /\ s.msgs # <<>>
      /\ at \in 0 .. 1023 /\ here \in Nat /\ at + here + n <= 1024 * len
  BY ArrivalFact
<1>2. /\ took \in 1 .. 1024 /\ took <= here + n
      /\ then.at = (at + took) % 1024
      /\ at + took < 1024 => then.msgs = s.msgs
      /\ at + took >= 1024 => then.msgs = Tail(s.msgs)
  BY ReadFact
<1>3. Head(s.msgs) \in kinds /\ Tail(s.msgs) \in Seq(kinds) /\ Len(Tail(s.msgs)) = len - 1
  BY <1>1, HeadTailProperties
<1>4. ASSUME Tail(s.msgs) = <<>> PROVE len = 1
  <2>1. Len(Tail(s.msgs)) = 0
    BY <1>3, <1>4, EmptySeq
  <2>2. len - 1 = 0
    BY <1>3, <2>1
  <2> HIDE DEF len
  <2>3. QED BY <1>1, <2>2
<1>5. (at > 0 => Unread(s) = Tail(s.msgs)) /\ (at = 0 => Unread(s) = s.msgs)
  BY <1>1 DEF Unread
<1>6. (then.at > 0 => Unread(then) = Tail(then.msgs)) /\ (then.at = 0 => Unread(then) = then.msgs)
  BY DEF Unread
<1> HIDE DEF at, here, took, len, then
<1> DEFINE end == at + took
<1>7. end \in 1 .. 2047 /\ end >= at /\ (at = 0 => end <= 1024) /\ (len = 1 => end <= 1024)
  BY <1>1, <1>2
<1>8. /\ then.at = end % 1024
      /\ end < 1024 => then.msgs = s.msgs
      /\ end >= 1024 => then.msgs = Tail(s.msgs)
  BY <1>2
<1> HIDE DEF end
<1>9. /\ end < 1024 => then.at = end
      /\ end >= 1024 => then.at = end - 1024
  BY <1>7, <1>8, TwoMessages
<1>b. at = 0 \/ at > 0
  BY <1>1
<1>a. /\ Inside(then)
      /\ at = 0 => Unread(s) # <<>> /\ Head(Unread(s)) = Head(s.msgs) /\ Unread(then) = Tail(Unread(s))
      /\ at # 0 => \/ Unread(then) = Unread(s)
                   \/ Unread(s) # <<>> /\ Unread(then) = Tail(Unread(s))
  <2>1. CASE end < 1024
    <3>1. then.at > 0 /\ then.msgs = s.msgs
      BY <1>7, <1>8, <1>9, <2>1
    <3>2. Unread(then) = Tail(s.msgs) /\ Inside(then)
      BY <1>1, <1>6, <3>1 DEF Inside
    <3>3. QED BY <1>1, <1>5, <1>b, <3>2
  <2>2. CASE end = 1024
    <3>1. then.at = 0 /\ ~(then.at > 0) /\ then.msgs = Tail(s.msgs)
      BY <1>7, <1>8, <1>9, <2>2
    <3>2. Unread(then) = Tail(s.msgs) /\ Inside(then)
      BY <1>6, <3>1 DEF Inside
    <3>3. QED BY <1>1, <1>5, <1>b, <3>2
  <2>3. CASE end > 1024
    <3>1. then.at > 0 /\ then.msgs = Tail(s.msgs) /\ len # 1 /\ at # 0 /\ at > 0
      BY <1>1, <1>7, <1>8, <1>9, <2>3
    <3>2. Tail(s.msgs) # <<>> /\ Unread(s) = Tail(s.msgs) /\ Unread(then) = Tail(Tail(s.msgs))
      BY <1>4, <1>5, <1>6, <3>1
    <3>3. QED BY <3>1, <3>2 DEF Inside
  <2>4. QED BY <1>7, <2>1, <2>2, <2>3
<1>10. QED BY <1>3, <1>a DEF at, then

\* On a calm network a message is read as a whole from its start.
LEMMA WholeRead ==
  ASSUME NEW kinds, NEW s \in Streams(kinds), NEW n \in Arrivals(s), calm, s.at = 0
  PROVE  Taken(s, n) = 1024
<1> DEFINE here == s.here
<1>1. PICK k \in 0 .. Len(s.msgs) : 0 + here + n = 1024 * k
  BY CalmArrival
<1>2. here \in Nat /\ n \in Nat /\ n >= 1 /\ Len(s.msgs) \in Nat
  BY ArrivalFact
<1>3. Taken(s, n) = IF here + n < 1024 THEN here + n ELSE 1024
  BY SizesFact DEF Taken, Sizes
<1> HIDE DEF here
<1>4. k \in Nat /\ k # 0
  BY <1>1, <1>2
<1>5. here + n >= 1024
  BY <1>1, <1>2, <1>4
<1>6. QED BY <1>2, <1>3, <1>5

\* A message that is read from its start on a calm network is decoded, but for zeros.
LEMMA DecodeStart ==
  ASSUME NEW kinds, NEW s \in Streams(kinds), NEW n \in Arrivals(s), s.at = 0
  PROVE  /\ Decode(s, n) = "NOT_PB" => ~calm \/ Head(s.msgs) \in {"ZEROS", "NOT_PB"}
         /\ Decode(s, n) = "UNKNOWN" => ~calm \/ Head(s.msgs) = "UNKNOWN"
         /\ Head(s.msgs) = "ZEROS" => Decode(s, n) = "NOT_PB"
<1>1. 0 \in PbStarts(Head(s.msgs)) <=> Head(s.msgs) # "ZEROS"
  BY DEF PbStarts
<1>2. calm => Taken(s, n) = 1024
  BY WholeRead
<1> DEFINE took == Taken(s, n)
<1>3. Decode(s, n) = IF 0 \notin PbStarts(Head(s.msgs)) \/ took < 4 THEN "NOT_PB"
                     ELSE IF took >= 8 THEN Head(s.msgs) ELSE "UNKNOWN"
  BY SizesFact DEF Decode, Sizes
<1>4. calm => ~(took < 4) /\ took >= 8
  BY <1>2
<1> DEFINE id   == Decode(s, n)
           head == Head(s.msgs)
<1> HIDE DEF took, id, head
<1>5. /\ head = "ZEROS" \/ took < 4 => id = "NOT_PB"
      /\ head # "ZEROS" /\ ~(took < 4) => id = IF took >= 8 THEN head ELSE "UNKNOWN"
  BY <1>1, <1>3 DEF id, head
<1>6. head \in kinds
  BY ArrivalFact, HeadTailProperties DEF head
<1>7. /\ id = "NOT_PB" => ~calm \/ head \in {"ZEROS", "NOT_PB"}
      /\ id = "UNKNOWN" => ~calm \/ head = "UNKNOWN"
      /\ head = "ZEROS" => id = "NOT_PB"
  BY <1>4, <1>5
<1>8. QED BY <1>7 DEF id, head

\* Writing adds a message to the unread ones.
LEMMA UnreadWrite ==
  ASSUME NEW kinds, NEW s \in Streams(kinds), NEW m \in kinds, Inside(s)
  PROVE  Unread(Write(s, m)) = Append(Unread(s), m) /\ Inside(Write(s, m))
<1>a. Write(s, m).msgs = Append(s.msgs, m) /\ Write(s, m).at = s.at
  BY WriteFact
<1>1. /\ Write(s, m).msgs = Append(s.msgs, m) /\ Write(s, m).at = s.at
      /\ s.msgs \in Seq(kinds) /\ s.at \in 0 .. 1023
  BY <1>a, SizesFact DEF Streams, Sizes
<1>2. Append(s.msgs, m) # <<>>
  BY <1>1, AppendProperties
<1>3. CASE s.at > 0
  <2>1. s.msgs # <<>>
    BY <1>3 DEF Inside
  <2>2. Tail(Append(s.msgs, m)) = Append(Tail(s.msgs), m)
    BY <1>1, <2>1, HeadTailAppend
  <2>3. QED BY <1>1, <1>2, <1>3, <2>2 DEF Unread, Inside
<1>4. CASE ~(s.at > 0)
  BY <1>1, <1>4 DEF Unread, Inside
<1>5. QED BY <1>3, <1>4

\* The messages on the way that a stream of either direction has read into.
Boundaries == Inside(up) /\ Inside(down)

\* The server's step: in step it serves, and where it does not, it misreads a
\* stream that is torn.
LEMMA ServerRefines ==
  ASSUME TypeOK, Boundaries, NEW n \in Arrivals(up), ServerRead(n)
  PROVE  (X!Serve \/ X!Misread) /\ Boundaries'
<1> DEFINE id == Decode(up, n)
           head == Head(up.msgs)
<1>1. up \in Streams(Requests) /\ down \in Streams(Answers) /\ calm \in BOOLEAN
  BY DEF TypeOK
<1>2. /\ up' = After(up, n) /\ got' = got /\ calm' = calm
      /\ down' = (IF id = "NOT_PB" THEN down ELSE Write(down, AnswerTo[id]))
  BY DEF ServerRead
<1>3. /\ Inside(up')
      /\ up.at = 0 => /\ Unread(up) # <<>> /\ Head(Unread(up)) = head /\ head \in Requests
                      /\ Unread(up') = Tail(Unread(up))
      /\ up.at # 0 => \/ Unread(up') = Unread(up)
                      \/ Unread(up) # <<>> /\ Unread(up') = Tail(Unread(up))
  BY <1>1, <1>2, UnreadFact
<1>4. /\ id \in Requests \cup {"NOT_PB", "UNKNOWN"}
      /\ id \notin {"NOT_PB", "UNKNOWN"} => up.at = 0 /\ id = head
  BY <1>1, DecodeFact
<1>5. up.at = 0 => /\ id = "NOT_PB" => ~calm \/ head \in {"ZEROS", "NOT_PB"}
                   /\ id = "UNKNOWN" => ~calm \/ head = "UNKNOWN"
  BY <1>1, DecodeStart
<1>6. up.at # 0 => up.at > 0
  <2> DEFINE at == up.at
  <2>1. at \in 0 .. 1023
    BY <1>1, SizesFact DEF Streams, Sizes
  <2> HIDE DEF at
  <2>2. at # 0 => at > 0
    BY <2>1
  <2>3. QED BY <2>2 DEF at
<1> HIDE DEF id, head
<1>7. \/ id = "NOT_PB" /\ down' = down
      \/ /\ id # "NOT_PB" /\ AnswerTo[id] \in Answers
         /\ Unread(down') = Append(Unread(down), AnswerTo[id]) /\ Inside(down')
  <2>1. id # "NOT_PB" => AnswerTo[id] \in Answers
    BY <1>4 DEF AnswerTo, Requests, Answers
  <2>2. CASE id = "NOT_PB"
    BY <1>2, <2>2
  <2>3. CASE id # "NOT_PB"
    BY <1>1, <1>2, <2>1, <2>3, UnreadWrite DEF Boundaries
  <2>4. QED BY <2>2, <2>3
<1>8. Boundaries'
  BY <1>3, <1>7 DEF Boundaries
<1>9. CASE id \notin {"NOT_PB", "UNKNOWN"}
  <2>1. up.at = 0 /\ id = head /\ got' = got
    BY <1>2, <1>4, <1>9
  <2>2. /\ Unread(up) # <<>> /\ Unread(up') = Tail(Unread(up))
        /\ Unread(down') = Append(Unread(down), AnswerTo[Head(Unread(up))])
    BY <1>3, <1>7, <1>9, <2>1
  <2>3. X!Serve
    BY <2>1, <2>2 DEF X!Serve
  <2>4. QED BY <1>8, <2>3
<1>10. CASE id \in {"NOT_PB", "UNKNOWN"}
  <2>1. Torn(up)
    <3>1. CASE up.at = 0
      BY <1>3, <1>5, <1>10, <3>1 DEF Torn, Requests
    <3>2. CASE up.at # 0
      BY <1>6, <3>2 DEF Torn
    <3>3. QED BY <3>1, <3>2
  <2>2. Unread(down') \in {Unread(down), Append(Unread(down), "ZEROS")}
    BY <1>7, <1>10 DEF AnswerTo
  <2>3. Unread(up') \in {Unread(up)} \cup (IF Unread(up) # <<>> THEN {Tail(Unread(up))} ELSE {})
    BY <1>3
  <2>4. X!Misread
    BY <1>2, <2>1, <2>2, <2>3 DEF X!Misread
  <2>5. QED BY <1>8, <2>4
<1>11. QED BY <1>9, <1>10

\* The node's step: in step it receives, and where it does not, it misses a
\* message of a stream that is torn, or none.
LEMMA ClientRefines ==
  ASSUME TypeOK, Boundaries, NEW n \in Arrivals(down), ClientRead(n)
  PROVE  /\ X!Receive \/ X!Miss \/ UNCHANGED <<Unread(up), Unread(down), got>>
         /\ Boundaries'
<1> DEFINE id == Decode(down, n)
           head == Head(down.msgs)
<1>1. up \in Streams(Requests) /\ down \in Streams(Answers) /\ calm \in BOOLEAN
  BY DEF TypeOK
<1>2. /\ down' = After(down, n) /\ up' = up /\ calm' = calm
      /\ got' = (IF id \in {"NOT_PB", "UNKNOWN"} THEN got ELSE id)
  BY DEF ClientRead
<1>3. /\ Inside(down')
      /\ down.at = 0 => /\ Unread(down) # <<>> /\ Head(Unread(down)) = head /\ head \in Answers
                        /\ Unread(down') = Tail(Unread(down))
      /\ down.at # 0 => \/ Unread(down') = Unread(down)
                        \/ Unread(down) # <<>> /\ Unread(down') = Tail(Unread(down))
  BY <1>1, <1>2, UnreadFact
<1>4. id \notin {"NOT_PB", "UNKNOWN"} => down.at = 0 /\ id = head
  BY <1>1, DecodeFact
<1>5. down.at = 0 => /\ id = "NOT_PB" => ~calm \/ head \in {"ZEROS", "NOT_PB"}
                     /\ id = "UNKNOWN" => ~calm \/ head = "UNKNOWN"
                     /\ head = "ZEROS" => id = "NOT_PB"
  BY <1>1, DecodeStart
<1>6. down.at # 0 => down.at > 0
  <2> DEFINE at == down.at
  <2>1. at \in 0 .. 1023
    BY <1>1, SizesFact DEF Streams, Sizes
  <2> HIDE DEF at
  <2>2. at # 0 => at > 0
    BY <2>1
  <2>3. QED BY <2>2 DEF at
<1> HIDE DEF id, head
<1>7. Boundaries' /\ Unread(up') = Unread(up)
  BY <1>2, <1>3 DEF Boundaries
<1>8. CASE down.at = 0
  <2>1. CASE ~calm /\ id \in {"NOT_PB", "UNKNOWN"}
    <3>1. Torn(down) /\ got' = got
      BY <1>2, <2>1 DEF Torn
    <3>2. X!Miss
      BY <1>3, <1>7, <1>8, <3>1 DEF X!Miss
    <3>3. QED BY <1>7, <3>2
  <2>2. CASE calm \/ id \notin {"NOT_PB", "UNKNOWN"}
    <3>1. got' = IF head = "ZEROS" THEN got ELSE head
      BY <1>2, <1>3, <1>4, <1>5, <1>8, <2>2 DEF Answers
    <3>2. X!Receive
      BY <1>3, <1>7, <1>8, <3>1 DEF X!Receive
    <3>3. QED BY <1>7, <3>2
  <2>3. QED BY <2>1, <2>2
<1>9. CASE down.at # 0
  <2>1. Torn(down) /\ got' = got
    BY <1>2, <1>4, <1>6, <1>9 DEF Torn
  <2>2. CASE Unread(down') = Unread(down)
    BY <1>7, <2>1, <2>2
  <2>3. CASE Unread(down) # <<>> /\ Unread(down') = Tail(Unread(down))
    <3>1. X!Miss
      BY <1>7, <2>1, <2>3 DEF X!Miss
    <3>2. QED BY <1>7, <3>1
  <2>4. QED BY <1>3, <1>9, <2>2, <2>3
<1>10. QED BY <1>8, <1>9

\* Two messages in a row.
LEMMA AppendToOne == ASSUME NEW a, NEW b PROVE Append(<<a>>, b) = <<a, b>>
<1> DEFINE S    == {a, b}
           both == Append(<<a>>, b)
           pair == <<a, b>>
<1>1. <<a>> \in Seq(S) /\ pair \in Seq(S) /\ b \in S
  OBVIOUS
<1>2. both \in Seq(S) /\ Len(both) = 2 /\ Len(pair) = 2
  BY <1>1
<1>3. both[1] = pair[1] /\ both[2] = pair[2]
  BY <1>1
<1> HIDE DEF both, pair
<1>4. both = pair
  BY <1>1, <1>2, <1>3, SeqEqual
<1>5. QED BY <1>4 DEF both, pair

\* The steps that write.
LEMMA WritersRefine ==
  ASSUME TypeOK, Boundaries
  PROVE  /\ SendReqCloseNode => X!Notify /\ Boundaries'
         /\ ReqHeatBeat => X!Request("REQ_HEART_BEAT") /\ Boundaries'
         /\ Reconnect => X!Replace /\ Boundaries'
<1>1. up \in Streams(Requests) /\ down \in Streams(Answers) /\ Inside(up) /\ Inside(down)
  BY DEF TypeOK, Boundaries
<1>2. /\ "REQ_CLOSE_NODE" \in Answers
      /\ "REQ_HEART_BEAT" \in Requests /\ "REQ_NODE_LOGIN" \in Requests
  BY DEF Answers, Requests
<1>3. ASSUME SendReqCloseNode PROVE X!Notify /\ Boundaries'
  <2>1. down' = Write(down, "REQ_CLOSE_NODE") /\ up' = up /\ got' = got
    BY <1>3 DEF SendReqCloseNode
  <2>2. Unread(down') = Append(Unread(down), "REQ_CLOSE_NODE") /\ Inside(down')
    BY <1>1, <1>2, <2>1, UnreadWrite
  <2>3. QED BY <1>1, <2>1, <2>2 DEF X!Notify, Boundaries
<1>4. ASSUME ReqHeatBeat PROVE X!Request("REQ_HEART_BEAT") /\ Boundaries'
  <2>1. up' = Write(up, "REQ_HEART_BEAT") /\ down' = down /\ got' = "nothing"
    BY <1>4 DEF ReqHeatBeat
  <2>2. Unread(up') = Append(Unread(up), "REQ_HEART_BEAT") /\ Inside(up')
    BY <1>1, <1>2, <2>1, UnreadWrite
  <2>3. QED BY <1>1, <2>1, <2>2 DEF X!Request, Boundaries
<1>5. ASSUME Reconnect PROVE X!Replace /\ Boundaries'
  <2>1. /\ up' = Write(Write(Empty, "REQ_NODE_LOGIN"), "REQ_HEART_BEAT")
        /\ down' = Empty /\ got' = "nothing"
    BY <1>5 DEF Reconnect
  <2>2. up' = [msgs |-> <<"REQ_NODE_LOGIN", "REQ_HEART_BEAT">>, at |-> 0, here |-> 0]
    <3>1. Write(Empty, "REQ_NODE_LOGIN") = [msgs |-> <<"REQ_NODE_LOGIN">>, at |-> 0, here |-> 0]
      BY DEF Write, Empty
    <3>2. Append(<<"REQ_NODE_LOGIN">>, "REQ_HEART_BEAT") = <<"REQ_NODE_LOGIN", "REQ_HEART_BEAT">>
      BY AppendToOne
    <3>3. QED BY <2>1, <3>1, <3>2 DEF Write
  <2>3. Unread(up') = <<"REQ_NODE_LOGIN", "REQ_HEART_BEAT">> /\ Unread(down') = <<>>
    BY <2>1, <2>2 DEF Unread, Empty
  <2>4. Unread(up') \in {<<r, s>> : r, s \in Requests} /\ Boundaries'
    BY <1>2, <2>1, <2>2, <2>3 DEF Boundaries, Inside, Empty
  <2>5. QED BY <2>1, <2>3, <2>4 DEF X!Replace
<1>6. QED BY <1>3, <1>4, <1>5

\* Every step is one of the conversation, or none.
LEMMA StreamRefines == TypeOK /\ Boundaries /\ [Next]_vars => [X!Next]_X!vars /\ Boundaries'
<1> SUFFICES ASSUME TypeOK, Boundaries, [Next]_vars PROVE X!Next /\ Boundaries'
  BY DEF X!Next
<1> DEFINE lose == (IF Torn(up) THEN {"up"} ELSE {}) \cup (IF Torn(down) THEN {"down"} ELSE {})
           still == UNCHANGED <<Unread(up), Unread(down), got>>
<1>1. lose' \subseteq {"up", "down"}
  OBVIOUS
<1>2. CASE ServerStep
  <2>1. (X!Serve \/ X!Misread) /\ Boundaries'
    BY <1>2, ServerRefines DEF ServerStep
  <2>2. QED BY <1>1, <2>1 DEF X!Next
<1>3. CASE SendReqCloseNode
  BY <1>1, <1>3, WritersRefine DEF X!Next
<1>4. CASE ClientStep
  <2>1. (X!Receive \/ X!Miss \/ still) /\ Boundaries' /\ got # "REQ_CLOSE_NODE"
    BY <1>4, ClientRefines DEF ClientStep, ClientRead, Ended
  <2>2. QED BY <1>1, <2>1 DEF X!Next
<1>5. CASE Interval
  BY <1>1, <1>5 DEF X!Next, Interval, Boundaries, Inside, Unread
<1>6. CASE ReqHeatBeat
  <2>1. X!Request("REQ_HEART_BEAT") /\ Boundaries' /\ got # "REQ_CLOSE_NODE"
    BY <1>6, WritersRefine DEF ReqHeatBeat, Due, Ended
  <2>2. "REQ_HEART_BEAT" \in Requests
    BY DEF Requests
  <2>3. QED BY <1>1, <2>1, <2>2 DEF X!Next
<1>7. CASE Reconnect
  <2>1. X!Replace /\ Boundaries' /\ got # "REQ_CLOSE_NODE"
    BY <1>7, WritersRefine DEF Reconnect, Due, Ended
  <2>2. QED BY <1>1, <2>1 DEF X!Next
<1>8. CASE Settle
  BY <1>1, <1>8 DEF X!Next, Settle, Boundaries, Inside, Unread
<1>9. CASE UNCHANGED vars
  BY <1>1, <1>9 DEF X!Next, vars, Boundaries, Inside, Unread
<1>10. QED
  BY <1>2, <1>3, <1>4, <1>5, <1>6, <1>7, <1>8, <1>9 DEF Next, HeartTimeoutCB

\* Node and server act on each other's messages in order and at most once, make up
\* none, and lose none but on a stream that is torn: the streams implement Exchange.
THEOREM StreamImplementsExchange == Spec => ImplementsExchange
<1>1. Init => X!Init /\ Boundaries
  <2> SUFFICES ASSUME Init PROVE X!Init /\ Boundaries
    OBVIOUS
  <2>1. up = [msgs |-> <<"REQ_NODE_LOGIN">>, at |-> 0, here |-> 0] /\ down = Empty /\ got = "nothing"
    BY DEF Init, Write, Empty
  <2>2. Unread(up) = <<"REQ_NODE_LOGIN">> /\ Unread(down) = <<>> /\ Boundaries
    BY <2>1 DEF Unread, Empty, Boundaries, Inside
  <2>3. "REQ_NODE_LOGIN" \in Requests
    BY DEF Requests
  <2>4. QED BY <2>1, <2>2, <2>3 DEF X!Init
<1>2. QED
  BY <1>1, TypeInit, TypeStep, StreamRefines, PTL DEF Spec, ImplementsExchange, X!Spec
=============================================================================
