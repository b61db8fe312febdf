---------------------------- MODULE NodeServerProofs ----------------------------
(***************************************************************************)
(* Theorems about NodeServer, for any connections, workers, addresses and  *)
(* nodes, and however many requests.                                       *)
(***************************************************************************)
EXTENDS NodeServer, Integers, WellFoundedInduction, SequenceTheorems, TLAPS

-----------------------------------------------------------------------------
(***************************************************************************)
(* What Those does, for all sequences.  The library's induction theorems   *)
(* take an operator; the induction here goes by way of a set of numbers.   *)
(***************************************************************************)

\* Induction over the natural numbers, for a set of them.
LEMMA SetInduction ==
  ASSUME NEW A, 0 \in A, \A n \in Nat : n \in A => n + 1 \in A PROVE Nat \subseteq A
<1> DEFINE T == Nat \ A
<1> SUFFICES ASSUME T # {} PROVE FALSE
  OBVIOUS
<1>1. PICK x \in T : \A y \in T : ~(<<y, x>> \in OpToRel(<, Nat))
  BY WFMin, NatLessThanWellFounded, Zenon
<1>2. \A y \in T : ~(y < x)
  BY <1>1 DEF OpToRel
<1>3. x \in Nat /\ x # 0 /\ x - 1 \in Nat
  OBVIOUS
<1>4. x - 1 \notin T
  BY <1>2, <1>3
<1>5. (x - 1) + 1 \in A
  BY <1>3, <1>4
<1>6. QED BY <1>3, <1>5


\* The function by which Those is computed, up to the n-th element.
Computes(f, s, keep, n) ==
  f = [i \in 0 .. n |->
         IF i = 0 THEN <<>> ELSE IF s[i] \in keep THEN Append(f[i - 1], s[i]) ELSE f[i - 1]]

\* There is one for each length.
LEMMA ThoseExists == ASSUME NEW s, NEW keep, NEW n \in Nat PROVE \E f : Computes(f, s, keep, n)
<1> DEFINE A == {k \in Nat : \E f : Computes(f, s, keep, k)}
<1>1. 0 \in A
  <2>1. Computes([i \in 0 .. 0 |-> <<>>], s, keep, 0)
    BY DEF Computes
  <2>2. QED BY <2>1
<1>2. ASSUME NEW k \in Nat, k \in A PROVE k + 1 \in A
  <2>1. PICK f : Computes(f, s, keep, k)
    BY <1>2
  <2> DEFINE last == IF s[k + 1] \in keep THEN Append(f[k], s[k + 1]) ELSE f[k]
             g == [i \in 0 .. k + 1 |-> IF i <= k THEN f[i] ELSE last]
  <2>2. \A i \in 0 .. k : f[i] = IF i = 0 THEN <<>> ELSE IF s[i] \in keep THEN Append(f[i - 1], s[i]) ELSE f[i - 1]
    BY <2>1 DEF Computes
  <2>3. ASSUME NEW i \in 0 .. k + 1
        PROVE  g[i] = IF i = 0 THEN <<>> ELSE IF s[i] \in keep THEN Append(g[i - 1], s[i]) ELSE g[i - 1]
    <3>1. CASE i <= k
      <4>1. g[i] = f[i] /\ (i # 0 => g[i - 1] = f[i - 1])
        BY <3>1
      <4> HIDE DEF g
      <4>2. QED BY <2>2, <3>1, <4>1
    <3>2. CASE i = k + 1
      <4>1. g[i] = last /\ g[i - 1] = f[k] /\ i # 0
        BY <3>2
      <4> HIDE DEF g
      <4>2. QED BY <3>2, <4>1
    <3>3. QED BY <3>1, <3>2
  <2>4. g = [i \in 0 .. k + 1 |->
               IF i = 0 THEN <<>> ELSE IF s[i] \in keep THEN Append(g[i - 1], s[i]) ELSE g[i - 1]]
    <3>1. g = [i \in 0 .. k + 1 |-> g[i]]
      OBVIOUS
    <3> HIDE DEF g
    <3>2. QED BY <2>3, <3>1
  <2>5. Computes(g, s, keep, k + 1)
    BY <2>4 DEF Computes
  <2> HIDE DEF g
  <2>6. QED BY <2>5
<1> HIDE DEF A
<1>3. n \in A
  BY <1>1, <1>2, SetInduction
<1>4. QED BY <1>3 DEF A

\* They agree as far as they go, where the sequences do.
LEMMA ThoseAgrees ==
  ASSUME NEW s, NEW t, NEW keep, NEW n \in Nat, NEW m \in Nat, n <= m,
         \A i \in 1 .. n : s[i] = t[i],
         NEW f, Computes(f, s, keep, n), NEW g, Computes(g, t, keep, m)
  PROVE  f[n] = g[n]
<1> DEFINE A == {k \in Nat : k <= n => f[k] = g[k]}
<1>1. \A i \in 0 .. n : f[i] = IF i = 0 THEN <<>> ELSE IF s[i] \in keep THEN Append(f[i - 1], s[i]) ELSE f[i - 1]
  BY DEF Computes
<1>2. \A i \in 0 .. m : g[i] = IF i = 0 THEN <<>> ELSE IF t[i] \in keep THEN Append(g[i - 1], t[i]) ELSE g[i - 1]
  BY DEF Computes
<1>3. 0 \in A
  BY <1>1, <1>2
<1>4. ASSUME NEW k \in Nat, k \in A PROVE k + 1 \in A
  <2> SUFFICES ASSUME k + 1 <= n PROVE f[k + 1] = g[k + 1]
    OBVIOUS
  <2>1. f[k] = g[k] /\ s[k + 1] = t[k + 1]
    BY <1>4
  <2>2. f[k + 1] = IF s[k + 1] \in keep THEN Append(f[k], s[k + 1]) ELSE f[k]
    BY <1>1
  <2>3. g[k + 1] = IF t[k + 1] \in keep THEN Append(g[k], t[k + 1]) ELSE g[k]
    BY <1>2
  <2>4. QED BY <2>1, <2>2, <2>3
<1> HIDE DEF A
<1>5. n \in A
  BY <1>3, <1>4, SetInduction
<1>6. QED BY <1>5 DEF A

\* The function Those stands for.
LEMMA ThoseIs ==
  ASSUME NEW S, NEW s \in Seq(S), NEW keep
  PROVE  \E f : Computes(f, s, keep, Len(s)) /\ Those(s, keep) = f[Len(s)]
<1>1. \E f : Computes(f, s, keep, Len(s))
  BY ThoseExists, LenProperties
<1>2. QED BY <1>1 DEF Those, Computes

\* There is nothing to keep of nothing.
LEMMA ThoseEmpty == ASSUME NEW keep PROVE Those(<<>>, keep) = <<>>
<1>1. PICK f : Computes(f, <<>>, keep, Len(<<>>)) /\ Those(<<>>, keep) = f[Len(<<>>)]
  BY ThoseIs, EmptySeq
<1>2. Len(<<>>) = 0
  OBVIOUS
<1>3. QED BY <1>1, <1>2 DEF Computes

\* An element at the end is kept or not.
LEMMA ThoseAppend ==
  ASSUME NEW S, NEW s \in Seq(S), NEW e \in S, NEW keep
  PROVE  Those(Append(s, e), keep) = IF e \in keep THEN Append(Those(s, keep), e) ELSE Those(s, keep)
<1> DEFINE t == Append(s, e)
           n == Len(s)
<1>1. t \in Seq(S) /\ Len(t) = n + 1 /\ n \in Nat /\ t[n + 1] = e /\ \A i \in 1 .. n : s[i] = t[i]
  BY AppendProperties, LenProperties
<1>2. PICK f : Computes(f, s, keep, n) /\ Those(s, keep) = f[n]
  BY ThoseIs
<1>3. PICK g : Computes(g, t, keep, Len(t)) /\ Those(t, keep) = g[Len(t)]
  BY <1>1, ThoseIs
<1> HIDE DEF t, n
<1>4. f[n] = g[n]
  BY <1>1, <1>2, <1>3, ThoseAgrees
<1>5. g[n + 1] = IF t[n + 1] \in keep THEN Append(g[n], t[n + 1]) ELSE g[n]
  <2>1. \A i \in 0 .. n + 1 : g[i] = IF i = 0 THEN <<>> ELSE IF t[i] \in keep THEN Append(g[i - 1], t[i]) ELSE g[i - 1]
    BY <1>1, <1>3 DEF Computes
  <2>2. n + 1 \in 0 .. n + 1 /\ n + 1 # 0 /\ (n + 1) - 1 = n
    BY <1>1
  <2>3. QED BY <2>1, <2>2
<1>6. QED BY <1>1, <1>2, <1>3, <1>4, <1>5 DEF t

\* What is kept is a sequence of elements that are kept.
LEMMA ThoseType == ASSUME NEW S, NEW s \in Seq(S), NEW keep PROVE Those(s, keep) \in Seq(S \cap keep)
<1> DEFINE n == Len(s)
<1>1. n \in Nat /\ \A i \in 1 .. n : s[i] \in S
  BY LenProperties
<1>2. PICK f : Computes(f, s, keep, n) /\ Those(s, keep) = f[n]
  BY ThoseIs
<1> HIDE DEF n
<1> DEFINE A == {k \in Nat : k <= n => f[k] \in Seq(S \cap keep)}
<1>3. \A i \in 0 .. n : f[i] = IF i = 0 THEN <<>> ELSE IF s[i] \in keep THEN Append(f[i - 1], s[i]) ELSE f[i - 1]
  BY <1>1, <1>2 DEF Computes
<1>4. 0 \in A
  <2>1. f[0] = <<>>
    BY <1>1, <1>3
  <2>2. QED BY <2>1, EmptySeq
<1>5. ASSUME NEW k \in Nat, k \in A PROVE k + 1 \in A
  <2> SUFFICES ASSUME k + 1 <= n PROVE f[k + 1] \in Seq(S \cap keep)
    OBVIOUS
  <2>1. f[k] \in Seq(S \cap keep) /\ s[k + 1] \in S
    BY <1>1, <1>5
  <2>2. f[k + 1] = IF s[k + 1] \in keep THEN Append(f[k], s[k + 1]) ELSE f[k]
    BY <1>1, <1>3
  <2>3. QED BY <2>1, <2>2, AppendProperties
<1> HIDE DEF A
<1>6. n \in A
  BY <1>1, <1>4, <1>5, SetInduction
<1>7. QED BY <1>1, <1>2, <1>6 DEF A

-----------------------------------------------------------------------------
(***************************************************************************)
(* The invariants.                                                         *)
(***************************************************************************)

\* A worker in ReadCallBack serves a connection of its own, with an answer.
Serving ==
  \A w \in Workers :
    /\ wpc[w] = "idle" => wconn[w] = NULL
    /\ wpc[w] # "idle" =>
         /\ wconn[w] \in Conns /\ owner[wconn[w]] = w
         /\ wreply[w] \in Answers \ {"REQ_CLOSE_NODE"}

\* A connection has a worker and an object from its acceptance on, for good.
Placed ==
  \A c \in Conns :
    /\ peer[c] = "absent" <=> owner[c] = NULL
    /\ owner[c] = NULL <=> addr[c] = NULL
    /\ enabled[c] # {} => addr[c] # NULL

\* What lies at an address was made there.
Objects == \A a \in Addrs : heap[a] # NULL => addr[heap[a]] = a

\* The main thread writes to a connection; it visits entries that there are.
Registry ==
  /\ mpc = "stopping" => mconn \in Conns
  /\ mpc = "listing" => \A ip \in todo : map[ip] # NULL

\* What is handled has been sent.
Within == \A c \in Conns : handled[c] <= Len(sent[c]) /\ Len(sent[c]) <= MaxRequests

\* A worker that logs a node in has a login in hand.
InHand ==
  \A w \in Workers : wpc[w] \in {"naming", "login"} =>
    handled[wconn[w]] # 0 /\ sent[wconn[w]][handled[wconn[w]]].type = "REQ_NODE_LOGIN"

Shape == TypeOK /\ Serving /\ Placed /\ Objects /\ Registry /\ Within /\ InHand

\* Where the registry leads to, an object was made for a node that logged in with
\* the ip.
Rooted == \A ip \in Ips : map[ip] # NULL => \E d \in Conns : addr[d] = map[ip] /\ LoggedIn(d, ip)

\* The ip of a login that has been handled, or that AddNode is through with, has an
\* entry.
Logging(c) == owner[c] # NULL /\ wconn[owner[c]] = c /\ wpc[owner[c]] \in {"naming", "login"}

Registered ==
  \A c \in Conns : \A i \in LoginsOf(c) : (i = handled[c] => ~Logging(c)) => map[sent[c][i].info.ip] # NULL

\* What the server knows a node by was sent to it.
Heard(text) == \E c \in Conns : Spoke(c, text)

Known ==
  /\ \A a \in Addrs : name[a] # NULL => Heard(name[a])
  /\ \A e \in seen : Heard(e[1]) /\ (Heard(e[2]) \/ e[2] \in {NULL, TORN})

NoneGone == \A c \in Conns : peer[c] # "gone"

\* As long as no node has gone: a bufferevent that reports has a living object that
\* knows it; an entry leads to such an object; so does what a worker is doing.
Living(c) == enabled[c] # {} /\ addr[c] # NULL /\ heap[addr[c]] = c /\ pbev[addr[c]] = c

Healthy ==
  NoneGone =>
    /\ \A c \in Conns : enabled[c] # {} => Living(c)
    /\ \A ip \in Ips : map[ip] # NULL => \E c \in Conns : addr[c] = map[ip] /\ Living(c)
    /\ \A w \in Workers : wpc[w] # "idle" => Living(wconn[w])

\* A worker gives an object another name although it is listed, or not.
Renaming(w) == wpc[w] = "naming" /\ Renames(addr[wconn[w]], NodeInfo(w).strName)

\* While the registry is locked; and what a login leaves to AddNode.
Handlers ==
  NoneGone =>
    /\ mpc = "stopping" => \E ip \in Ips : map[ip] # NULL /\ heap[map[ip]] = mconn
    /\ mpc = "listing" /\ ~renamed => \A w \in Workers : ~Renaming(w)
    /\ mpc = "listing" /\ ~renamed =>
         seen = {<<ip, name[map[ip]]>> : ip \in {i \in Ips : map[i] # NULL} \ todo}

-----------------------------------------------------------------------------
(***************************************************************************)
(* Type correctness.                                                       *)
(***************************************************************************)

\* NULL is none of the others; the bounds are numbers.
LEMMA DataFact ==
  /\ NULL \notin Conns /\ NULL \notin Addrs /\ NULL \notin Workers
  /\ MaxRequests \in Nat /\ MaxHttp \in Nat
  /\ Requests \subseteq RequestKinds
  BY ServerAssumption

\* What the messages of a node hold.
LEMMA MessageFact ==
  /\ \A c \in Conns : MessagesOf(c) \subseteq Messages
  /\ \A m \in Messages : m.type \in Requests /\ m.type \in RequestKinds
  /\ \A m \in Messages : m.type = "REQ_NODE_LOGIN" =>
       /\ m.info.ip \in Ips /\ m.info.name \in Names
       /\ HandleNodeOnlineReq(m.info) = [strIp |-> m.info.ip, strName |-> m.info.name]
<1>1. \A c \in Conns : MessagesOf(c) \subseteq Messages
  BY DEF Messages
<1>2. ASSUME NEW m \in Messages PROVE m.type \in Requests /\ m.type \in RequestKinds
  <2>1. PICK c \in Conns : m \in MessagesOf(c)
    BY DEF Messages
  <2>2. QED BY <2>1, DataFact DEF MessagesOf
<1>3. ASSUME NEW m \in Messages, m.type = "REQ_NODE_LOGIN"
      PROVE  /\ m.info.ip \in Ips /\ m.info.name \in Names
             /\ HandleNodeOnlineReq(m.info) = [strIp |-> m.info.ip, strName |-> m.info.name]
  <2>1. PICK c \in Conns : m.info \in Logins[c]
    BY <1>3 DEF Messages, MessagesOf
  <2>2. HandleNodeOnlineReq(m.info) \in NodeInfos
    BY <2>1 DEF NodeInfos
  <2>3. HandleNodeOnlineReq(m.info) = [strIp |-> m.info.ip, strName |-> m.info.name]
    BY DEF HandleNodeOnlineReq
  <2>4. HandleNodeOnlineReq(m.info).strIp = m.info.ip /\ HandleNodeOnlineReq(m.info).strName = m.info.name
    BY <2>3
  <2>5. m.info.ip \in Ips
    BY <2>2, <2>4 DEF Ips
  <2>6. m.info.name \in Names
    BY <2>2, <2>4 DEF Names
  <2>7. QED BY <2>3, <2>5, <2>6
<1>4. QED BY <1>1, <1>2, <1>3

\* What ReadCallBack answers.
LEMMA AnswerFact ==
  /\ \A r \in {"REQ_NODE_LOGIN", "REQ_HEART_BEAT", "UNKNOWN"} : AnswerTo[r] \in Answers \ {"REQ_CLOSE_NODE"}
  /\ AnswerTo["REQ_NODE_LOGIN"] = "RESP_NODE_LOGIN"
  /\ \A r \in {"REQ_HEART_BEAT", "UNKNOWN"} : AnswerTo[r] # "RESP_NODE_LOGIN"
  /\ "REQ_CLOSE_NODE" \in Answers
  BY DEF AnswerTo, Answers

\* The login a worker has in hand.
LEMMA InfoFact ==
  ASSUME TypeOK, Serving, Within, InHand, NEW w \in Workers, wpc[w] \in {"naming", "login"}
  PROVE  /\ wconn[w] \in Conns /\ handled[wconn[w]] \in 1 .. Len(sent[wconn[w]])
         /\ sent[wconn[w]][handled[wconn[w]]].type = "REQ_NODE_LOGIN"
         /\ NodeInfo(w).strIp = sent[wconn[w]][handled[wconn[w]]].info.ip
         /\ NodeInfo(w).strName = sent[wconn[w]][handled[wconn[w]]].info.name
         /\ NodeInfo(w).strIp \in Ips /\ NodeInfo(w).strName \in Names
<1>1. PICK c \in Conns : c = wconn[w]
  BY DEF Serving
<1>2. /\ sent[c] \in Seq(Messages) /\ handled[c] \in Nat /\ handled[c] # 0 /\ handled[c] <= Len(sent[c])
      /\ sent[c][handled[c]].type = "REQ_NODE_LOGIN"
  BY <1>1 DEF TypeOK, Within, InHand
<1>3. handled[c] \in 1 .. Len(sent[c]) /\ sent[c][handled[c]] \in Messages
  BY <1>2, LenProperties, ElementOfSeq
<1>4. NodeInfo(w) = HandleNodeOnlineReq(sent[c][handled[c]].info)
  BY <1>1 DEF NodeInfo
<1>5. PICK m \in Messages : m = sent[c][handled[c]]
  BY <1>3
<1>6. /\ NodeInfo(w) = [strIp |-> m.info.ip, strName |-> m.info.name]
      /\ m.info.ip \in Ips /\ m.info.name \in Names
  BY <1>2, <1>4, <1>5, MessageFact
<1>7. QED BY <1>1, <1>2, <1>3, <1>5, <1>6

\* What a thread that leaves bufferevent_write makes of the output.
LEMMA WriteTyped ==
  ASSUME TypeOK, NEW c \in Conns, NEW msg \in Answers, LeaveWrite(c, msg)
  PROVE  out' \in [Conns -> Seq(Answers)] /\ unsent' \in [Conns -> BOOLEAN] /\ fault' \in Faults
<1>1. CASE /\ out' = [out EXCEPT ![c] = Append(@, msg)]
           /\ unsent' = [unsent EXCEPT ![c] = TRUE]
           /\ UNCHANGED fault
  <2>1. Append(out[c], msg) \in Seq(Answers)
    BY AppendProperties DEF TypeOK
  <2>2. QED BY <1>1, <2>1 DEF TypeOK
<1>2. CASE raced[c] /\ fault' \in {"none", "race"} /\ UNCHANGED output
  BY <1>2 DEF TypeOK, Faults, output
<1>3. QED BY <1>1, <1>2 DEF LeaveWrite

\* Shape is kept by every step.
LEMMA ShapeStep == Shape /\ [Next]_vars => Shape'
<1> SUFFICES ASSUME Shape, [Next]_vars PROVE Shape'
  OBVIOUS
<1> USE DataFact
<1>1. ASSUME NEW c \in Conns, Leave(c) PROVE Shape'
  <2>1. TypeOK'
    BY <1>1 DEF Shape, TypeOK, Leave, objects, output, workers, main
  <2>2. Placed'
    BY <1>1 DEF Shape, Placed, Leave, objects, output, workers, main
  <2>3. Serving' /\ Objects' /\ Registry' /\ Within'
    BY <1>1 DEF Shape, Serving, Objects, Registry, Within, Leave, objects, output, workers, main
  <2>4. InHand'
    BY <1>1 DEF Shape, InHand, Leave, network, workers
  <2>5. QED BY <2>1, <2>2, <2>3, <2>4 DEF Shape
<1>2. ASSUME NEW c \in Conns, NEW req \in MessagesOf(c), Send(c, req) PROVE Shape'
  <2>1. TypeOK'
    BY <1>2, MessageFact DEF Shape, TypeOK, Send, objects, output, workers, main
  <2>2. Within'
    BY <1>2 DEF Shape, TypeOK, Within, Send
  <2>3. Serving' /\ Placed' /\ Objects' /\ Registry'
    BY <1>2 DEF Shape, Serving, Placed, Objects, Registry, Send, objects, output, workers, main
  <2>4. InHand'
    <3>1. \A d \in Conns : sent[d] \in Seq(Messages) /\ handled[d] \in Nat /\ handled[d] <= Len(sent[d])
      BY DEF Shape, TypeOK, Within
    <3>2. req \in Messages
      BY MessageFact
    <3>3. \A d \in Conns : handled[d] # 0 => sent'[d][handled[d]] = sent[d][handled[d]]
      BY <1>2, <3>1, <3>2, AppendProperties DEF Shape, TypeOK, Send
    <3>4. ASSUME NEW w \in Workers, wpc'[w] \in {"naming", "login"}
          PROVE  handled'[wconn'[w]] # 0 /\ sent'[wconn'[w]][handled'[wconn'[w]]].type = "REQ_NODE_LOGIN"
      <4>1. UNCHANGED <<wpc, wconn, handled>>
        BY <1>2 DEF Send, workers
      <4>2. /\ wconn[w] \in Conns /\ handled[wconn[w]] # 0
            /\ sent[wconn[w]][handled[wconn[w]]].type = "REQ_NODE_LOGIN"
        BY <3>4, <4>1 DEF Shape, Serving, InHand
      <4>3. QED BY <3>3, <4>1, <4>2
    <3>5. QED BY <3>4 DEF InHand
  <2>5. QED BY <2>1, <2>2, <2>3, <2>4 DEF Shape
<1>3. ASSUME NEW c \in Conns, NEW a \in Addrs, NEW w \in Workers, Accept(c, a, w) PROVE Shape'
  <2>1. TypeOK'
    BY <1>3 DEF Shape, TypeOK, Accept, output, workers, main
  <2>2. Serving'
    BY <1>3 DEF Shape, TypeOK, Serving, Placed, Accept, output, workers, main
  <2>3. Placed'
    BY <1>3 DEF Shape, TypeOK, Placed, Accept, output, workers, main
  <2>4. Objects'
    BY <1>3 DEF Shape, TypeOK, Objects, Placed, Accept, output, workers, main
  <2>5. Registry'
    BY <1>3 DEF Shape, TypeOK, Registry, Placed, Accept, output, workers, main
  <2>6. Within'
    BY <1>3 DEF Shape, Within, Accept, output, workers, main
  <2>7. InHand'
    BY <1>3 DEF Shape, InHand, Accept, network, workers
  <2>8. QED BY <2>1, <2>2, <2>3, <2>4, <2>5, <2>6, <2>7 DEF Shape
<1>4. ASSUME ListBegin PROVE Shape'
  <2>1. TypeOK'
    BY <1>4 DEF Shape, TypeOK, ListBegin, objects, network, output, workers
  <2>2. Registry'
    BY <1>4 DEF Shape, Registry, ListBegin, objects, network, output, workers
  <2>3. Serving' /\ Placed' /\ Objects' /\ Within'
    BY <1>4
    DEF Shape, Serving, Placed, Objects, Within, ListBegin, objects, network, output, workers
  <2>4. InHand'
    BY <1>4 DEF Shape, InHand, ListBegin, network, workers
  <2>5. QED BY <2>1, <2>2, <2>3, <2>4 DEF Shape
<1>5. ASSUME NEW ip \in Ips, ListVisit(ip) PROVE Shape'
  <2>1. TypeOK'
    <3>1. map[ip] \in Addrs
      BY <1>5 DEF Shape, TypeOK, Registry, ListVisit
    <3>2. NamesWritten(map[ip]) \subseteq Names
      BY InfoFact DEF Shape, NamesWritten
    <3>3. GetNodeName(map[ip]) \subseteq Names \cup {NULL, TORN}
      BY <3>1, <3>2 DEF Shape, TypeOK, GetNodeName
    <3>4. seen' \subseteq Ips \X (Names \cup {NULL, TORN}) /\ todo' \subseteq Ips
      BY <1>5, <3>3 DEF Shape, TypeOK, ListVisit
    <3>5. fault' \in Faults
      BY <1>5 DEF ListVisit, Faults
    <3>6. QED BY <1>5, <3>4, <3>5 DEF Shape, TypeOK, ListVisit, objects, network, output, workers
  <2>2. Registry'
    BY <1>5 DEF Shape, Registry, ListVisit, objects, network, output, workers
  <2>3. Serving' /\ Placed' /\ Objects' /\ Within'
    BY <1>5
    DEF Shape, Serving, Placed, Objects, Within, ListVisit, objects, network, output, workers
  <2>4. InHand'
    BY <1>5 DEF Shape, InHand, ListVisit, network, workers
  <2>5. QED BY <2>1, <2>2, <2>3, <2>4 DEF Shape
<1>6. ASSUME ListEnd PROVE Shape'
  <2>1. TypeOK'
    <3>1. listing' = NULL \/ listing' \subseteq Ips \X (Names \cup {NULL, TORN})
      <4>1. listing' = seen \/ listing' = NULL
        BY <1>6 DEF ListEnd
      <4>2. seen \subseteq Ips \X (Names \cup {NULL, TORN})
        BY DEF Shape, TypeOK
      <4>3. QED BY <4>1, <4>2
    <3>2. fault' \in Faults
      BY <1>6 DEF Shape, TypeOK, ListEnd, Faults
    <3>3. QED BY <1>6, <3>1, <3>2 DEF Shape, TypeOK, ListEnd, objects, network, output, workers
  <2>2. Registry'
    BY <1>6 DEF Shape, Registry, ListEnd, objects, network, output, workers
  <2>3. Serving' /\ Placed' /\ Objects' /\ Within'
    BY <1>6 DEF Shape, Serving, Placed, Objects, Within, ListEnd, objects, network, output, workers
  <2>4. InHand'
    BY <1>6 DEF Shape, InHand, ListEnd, network, workers
  <2>5. QED BY <2>1, <2>2, <2>3, <2>4 DEF Shape
<1>7. ASSUME NEW ip \in Ips, StopUnknown(ip) PROVE Shape'
  <2>1. TypeOK'
    BY <1>7 DEF Shape, TypeOK, StopUnknown, objects, network, output, workers
  <2>2. Serving' /\ Placed' /\ Objects' /\ Registry' /\ Within'
    BY <1>7
    DEF Shape, Serving, Placed, Objects, Registry, Within, StopUnknown, objects, network,
        output, workers
  <2>3. InHand'
    BY <1>7 DEF Shape, InHand, StopUnknown, network, workers
  <2>4. QED BY <2>1, <2>2, <2>3 DEF Shape
<1>8. ASSUME NEW ip \in Ips, StopBegin(ip) PROVE Shape'
  <2>1. TypeOK'
    <3>1. https' \in 0 .. MaxHttp /\ mpc' \in {"idle", "listing", "stopping"}
      BY <1>8 DEF Shape, TypeOK, StopBegin
    <3>2. mconn' \in Conns \cup {NULL}
      BY <1>8 DEF Shape, TypeOK, StopBegin
    <3>3. raced' \in [Conns -> BOOLEAN]
      BY <1>8 DEF Shape, TypeOK, StopBegin, EnterWrite
    <3>4. fault' \in Faults
      BY <1>8 DEF Shape, TypeOK, StopBegin, Faults
    <3>5. QED BY <1>8, <3>1, <3>2, <3>3, <3>4
              DEF Shape, TypeOK, StopBegin, objects, network, output, workers
  <2>2. Registry'
    BY <1>8 DEF Shape, TypeOK, Registry, StopBegin, objects, network, output, workers
  <2>3. Serving' /\ Placed' /\ Objects' /\ Within'
    BY <1>8
    DEF Shape, Serving, Placed, Objects, Within, StopBegin, objects, network, output, workers
  <2>4. InHand'
    BY <1>8 DEF Shape, InHand, StopBegin, network, workers
  <2>5. QED BY <2>1, <2>2, <2>3, <2>4 DEF Shape
<1>9. ASSUME StopEnd PROVE Shape'
  <2>1. TypeOK'
    <3>1. mconn \in Conns /\ "REQ_CLOSE_NODE" \in Answers
      BY <1>9, AnswerFact DEF Shape, Registry, StopEnd
    <3>2. out' \in [Conns -> Seq(Answers)] /\ unsent' \in [Conns -> BOOLEAN] /\ fault' \in Faults
      BY <1>9, <3>1, WriteTyped DEF Shape, StopEnd
    <3>3. QED BY <1>9, <3>2 DEF Shape, TypeOK, StopEnd, objects, network, workers
  <2>2. Registry'
    BY <1>9 DEF Shape, Registry, StopEnd, objects, network, workers
  <2>3. Serving' /\ Placed' /\ Objects' /\ Within'
    BY <1>9 DEF Shape, Serving, Placed, Objects, Within, StopEnd, objects, network, workers
  <2>4. InHand'
    BY <1>9 DEF Shape, InHand, StopEnd, network, workers
  <2>5. QED BY <2>1, <2>2, <2>3, <2>4 DEF Shape
<1>10. ASSUME NEW c \in Conns, HandlerConnect(c) PROVE Shape'
  <2>1. TypeOK'
    BY <1>10 DEF Shape, TypeOK, HandlerConnect, network, output, workers, main
  <2>2. Placed'
    BY <1>10 DEF Shape, Placed, HandlerConnect, network, output, workers, main, Idle
  <2>3. Serving' /\ Objects' /\ Registry' /\ Within'
    BY <1>10
    DEF Shape, Serving, Objects, Registry, Within, HandlerConnect, network, output, workers,
        main
  <2>4. InHand'
    BY <1>10 DEF Shape, InHand, HandlerConnect, network, workers
  <2>5. QED BY <2>1, <2>2, <2>3, <2>4 DEF Shape
<1>11. ASSUME NEW c \in Conns, HandlerFails(c) PROVE Shape'
  <2>1. TypeOK'
    BY <1>11 DEF Shape, TypeOK, HandlerFails, network, output, workers, main
  <2>2. Objects'
    BY <1>11 DEF Shape, Objects, HandlerFails, network, output, workers, main
  <2>3. Serving' /\ Placed' /\ Registry' /\ Within'
    BY <1>11
    DEF Shape, Serving, Placed, Registry, Within, HandlerFails, network, output, workers, main
  <2>4. InHand'
    BY <1>11 DEF Shape, InHand, HandlerFails, network, workers
  <2>5. QED BY <2>1, <2>2, <2>3, <2>4 DEF Shape
<1>12. ASSUME NEW c \in Conns, ReadForeign(c) PROVE Shape'
  <2>1. TypeOK'
    BY <1>12
    DEF Shape, TypeOK, Within, ReadForeign, objects, output, workers, main, CanRead, Arriving,
        Idle
  <2>2. Within'
    BY <1>12
    DEF Shape, TypeOK, Within, ReadForeign, objects, output, workers, main, CanRead, Arriving,
        Idle
  <2>3. Serving' /\ Placed' /\ Objects' /\ Registry'
    BY <1>12
    DEF Shape, Serving, Placed, Objects, Registry, ReadForeign, objects, output, workers, main
  <2>4. InHand'
    <3>1. \A w \in Workers : wpc[w] # "idle" => wconn[w] # c
      BY <1>12 DEF Shape, Serving, ReadForeign, CanRead, Idle
    <3>2. QED BY <1>12, <3>1 DEF Shape, TypeOK, Serving, InHand, ReadForeign, workers
  <2>5. QED BY <2>1, <2>2, <2>3, <2>4 DEF Shape
<1>13. ASSUME NEW c \in Conns, ReadLogin(c) PROVE Shape'
  <2>1. owner[c] \in Workers /\ wpc[owner[c]] = "idle" /\ handled[c] < Len(sent[c]) /\ Len(sent[c]) <= MaxRequests
    BY <1>13 DEF Shape, TypeOK, Within, ReadLogin, CanRead, Idle
  <2>2. TypeOK'
    <3>1. handled' \in [Conns -> 0 .. MaxRequests]
      <4>1. handled[c] + 1 \in 0 .. MaxRequests
        BY <2>1, LenProperties DEF Shape, TypeOK
      <4>2. QED BY <1>13, <4>1 DEF Shape, TypeOK, ReadLogin
    <3>2. wpc' \in [Workers -> {"idle", "naming", "login", "write"}] /\ wconn' \in [Workers -> Conns \cup {NULL}]
      BY <1>13, <2>1 DEF Shape, TypeOK, ReadLogin
    <3>3. wreply' \in [Workers -> Answers \cup {NULL}]
      BY <1>13, <2>1, AnswerFact DEF Shape, TypeOK, ReadLogin
    <3>4. fault' \in Faults /\ raced' \in [Conns -> BOOLEAN]
      BY <1>13 DEF Shape, TypeOK, ReadLogin, Faults
    <3>5. QED BY <1>13, <3>1, <3>2, <3>3, <3>4 DEF Shape, TypeOK, ReadLogin, objects, output, main
  <2>3. Serving'
    <3>1. wreply' = [wreply EXCEPT ![owner[c]] = wreply'[owner[c]]] /\ wreply'[owner[c]] \in Answers \ {"REQ_CLOSE_NODE"}
      BY <1>13, <2>1, AnswerFact DEF Shape, TypeOK, ReadLogin
    <3>2. QED BY <1>13, <2>1, <3>1 DEF Shape, TypeOK, Serving, ReadLogin
  <2>4. Within'
    BY <1>13 DEF Shape, TypeOK, Within, ReadLogin, objects, output, main, CanRead, Arriving, Idle
  <2>5. Placed' /\ Objects' /\ Registry'
    BY <1>13 DEF Shape, Placed, Objects, Registry, ReadLogin, objects, output, main
  <2>6. InHand'
    <3>1. \A w \in Workers : wpc[w] # "idle" => wconn[w] # c /\ w # owner[c]
      BY <1>13, <2>1 DEF Shape, Serving
    <3>2. \A w \in Workers \ {owner[c]} : wpc'[w] = wpc[w] /\ wconn'[w] = wconn[w]
      BY <1>13, <2>1 DEF Shape, TypeOK, ReadLogin
    <3>3. \A d \in Conns : handled'[d] = IF d = c THEN handled[c] + 1 ELSE handled[d]
      BY <1>13 DEF Shape, TypeOK, ReadLogin
    <3>4. handled[c] \in Nat /\ sent[c][handled[c] + 1].type = "REQ_NODE_LOGIN" /\ wconn'[owner[c]] = c /\ sent' = sent
      BY <1>13, <2>1 DEF Shape, TypeOK, ReadLogin, Arriving
    <3>5. QED BY <3>1, <3>2, <3>3, <3>4 DEF Shape, Serving, InHand
  <2>7. QED BY <2>2, <2>3, <2>4, <2>5, <2>6 DEF Shape
<1>14. ASSUME NEW w \in Workers, SetNodeName(w) PROVE Shape'
  <2>1. TypeOK'
    <3>1. NodeInfo(w).strName \in Names /\ wconn[w] \in Conns
      BY <1>14, InfoFact DEF Shape, SetNodeName
    <3>2. QED BY <1>14, <3>1 DEF Shape, TypeOK, SetNodeName, network, output, main
  <2>2. Serving'
    BY <1>14 DEF Shape, Serving, SetNodeName, network, output, main
  <2>3. Placed' /\ Objects' /\ Registry' /\ Within'
    BY <1>14 DEF Shape, Placed, Objects, Registry, Within, SetNodeName, network, output, main
  <2>4. InHand'
    BY <1>14 DEF Shape, TypeOK, InHand, SetNodeName, network
  <2>5. QED BY <2>1, <2>2, <2>3, <2>4 DEF Shape
<1>15. ASSUME NEW w \in Workers, AddNode(w) PROVE Shape'
  <2>1. TypeOK'
    BY <1>15 DEF Shape, TypeOK, Serving, AddNode, objects, network, output, main, EnterWrite
  <2>2. Serving'
    BY <1>15 DEF Shape, Serving, AddNode, objects, network, output, main
  <2>3. Registry'
    BY <1>15 DEF Registry, AddNode, Locked, main
  <2>4. Placed' /\ Objects' /\ Within'
    BY <1>15 DEF Shape, Placed, Objects, Within, AddNode, objects, network, output, main
  <2>5. InHand'
    BY <1>15 DEF Shape, TypeOK, InHand, AddNode, network
  <2>6. QED BY <2>1, <2>2, <2>3, <2>4, <2>5 DEF Shape
<1>16. ASSUME NEW c \in Conns, ReadOther(c) PROVE Shape'
  <2>1. owner[c] \in Workers /\ wpc[owner[c]] = "idle" /\ handled[c] < Len(sent[c]) /\ Len(sent[c]) <= MaxRequests
    BY <1>16 DEF Shape, TypeOK, Within, ReadOther, CanRead, Idle
  <2>2. TypeOK'
    <3>1. handled' \in [Conns -> 0 .. MaxRequests]
      <4>1. handled[c] + 1 \in 0 .. MaxRequests
        BY <2>1, LenProperties DEF Shape, TypeOK
      <4>2. QED BY <1>16, <4>1 DEF Shape, TypeOK, ReadOther
    <3>2. wpc' \in [Workers -> {"idle", "naming", "login", "write"}] /\ wconn' \in [Workers -> Conns \cup {NULL}]
      BY <1>16, <2>1 DEF Shape, TypeOK, ReadOther
    <3>3. wreply' \in [Workers -> Answers \cup {NULL}]
      BY <1>16, <2>1, AnswerFact DEF Shape, TypeOK, ReadOther
    <3>4. fault' \in Faults /\ raced' \in [Conns -> BOOLEAN]
      BY <1>16 DEF Shape, TypeOK, ReadOther, Faults, EnterWrite
    <3>5. QED BY <1>16, <3>1, <3>2, <3>3, <3>4 DEF Shape, TypeOK, ReadOther, objects, output, main
  <2>3. Serving'
    <3>1. wreply' = [wreply EXCEPT ![owner[c]] = wreply'[owner[c]]] /\ wreply'[owner[c]] \in Answers \ {"REQ_CLOSE_NODE"}
      BY <1>16, <2>1, AnswerFact DEF Shape, TypeOK, ReadOther
    <3>2. QED BY <1>16, <2>1, <3>1 DEF Shape, TypeOK, Serving, ReadOther
  <2>4. Within'
    BY <1>16
    DEF Shape, TypeOK, Within, ReadOther, objects, output, main, EnterWrite, CanRead, Arriving,
        Idle
  <2>5. Placed' /\ Objects' /\ Registry'
    BY <1>16 DEF Shape, Placed, Objects, Registry, ReadOther, objects, output, main
  <2>6. InHand'
    <3>1. \A w \in Workers : wpc[w] # "idle" => wconn[w] # c /\ w # owner[c]
      BY <1>16, <2>1 DEF Shape, Serving
    <3>2. \A w \in Workers \ {owner[c]} : wpc'[w] = wpc[w] /\ wconn'[w] = wconn[w]
      BY <1>16, <2>1 DEF Shape, TypeOK, ReadOther
    <3>3. \A d \in Conns : handled'[d] = IF d = c THEN handled[c] + 1 ELSE handled[d]
      BY <1>16 DEF Shape, TypeOK, ReadOther
    <3>4. wpc'[owner[c]] = "write" /\ sent' = sent
      BY <1>16, <2>1 DEF Shape, TypeOK, ReadOther
    <3>5. QED BY <3>1, <3>2, <3>3, <3>4 DEF Shape, Serving, InHand
  <2>7. QED BY <2>2, <2>3, <2>4, <2>5, <2>6 DEF Shape
<1>17. ASSUME NEW w \in Workers, ReadEnd(w) PROVE Shape'
  <2>1. TypeOK'
    <3>1. wconn[w] \in Conns /\ wreply[w] \in Answers
      BY <1>17 DEF Shape, Serving, ReadEnd
    <3>2. out' \in [Conns -> Seq(Answers)] /\ unsent' \in [Conns -> BOOLEAN] /\ fault' \in Faults
      BY <1>17, <3>1, WriteTyped DEF Shape, ReadEnd
    <3>3. QED BY <1>17, <3>2 DEF Shape, TypeOK, ReadEnd, objects, network, main
  <2>2. Serving'
    BY <1>17 DEF Shape, TypeOK, Serving, ReadEnd, objects, network, main
  <2>3. Placed' /\ Objects' /\ Registry' /\ Within'
    BY <1>17 DEF Shape, Placed, Objects, Registry, Within, ReadEnd, objects, network, main
  <2>4. InHand'
    BY <1>17 DEF Shape, TypeOK, InHand, ReadEnd, network
  <2>5. QED BY <2>1, <2>2, <2>3, <2>4 DEF Shape
<1>18. ASSUME NEW c \in Conns, Flush(c) PROVE Shape'
  <2>1. TypeOK'
    BY <1>18 DEF Shape, TypeOK, Flush, objects, network, workers, main
  <2>2. Serving' /\ Placed' /\ Objects' /\ Registry' /\ Within'
    BY <1>18
    DEF Shape, Serving, Placed, Objects, Registry, Within, Flush, objects, network, workers,
        main
  <2>3. InHand'
    BY <1>18 DEF Shape, InHand, Flush, network, workers
  <2>4. QED BY <2>1, <2>2, <2>3 DEF Shape
<1>19. ASSUME NEW c \in Conns, ReadFails(c) PROVE Shape'
  <2>1. TypeOK'
    <3>1. enabled' \in [Conns -> SUBSET {"R", "W"}] /\ heap' \in [Addrs -> Conns \cup {NULL}]
      BY <1>19 DEF Shape, TypeOK, ReadFails, ErrorCallBack
    <3>2. fault' \in Faults
      BY <1>19 DEF ReadFails, ErrorCallBack, Faults
    <3>3. QED BY <1>19, <3>1, <3>2
              DEF Shape, TypeOK, ReadFails, ErrorCallBack, network, output, workers, main
  <2>2. Placed'
    BY <1>19 DEF Shape, Placed, ReadFails, ErrorCallBack, network, output, workers, main
  <2>3. Objects'
    BY <1>19 DEF Shape, Objects, ReadFails, ErrorCallBack, network, output, workers, main
  <2>4. Serving' /\ Registry' /\ Within'
    BY <1>19
    DEF Shape, Serving, Registry, Within, ReadFails, ErrorCallBack, network, output, workers,
        main
  <2>5. InHand'
    BY <1>19 DEF Shape, InHand, ReadFails, ErrorCallBack, network, workers
  <2>6. QED BY <2>1, <2>2, <2>3, <2>4, <2>5 DEF Shape
<1>20. ASSUME NEW c \in Conns, WriteFails(c) PROVE Shape'
  <2>1. TypeOK'
    <3>1. enabled' \in [Conns -> SUBSET {"R", "W"}] /\ heap' \in [Addrs -> Conns \cup {NULL}]
      BY <1>20 DEF Shape, TypeOK, WriteFails, ErrorCallBack
    <3>2. fault' \in Faults
      BY <1>20 DEF WriteFails, ErrorCallBack, Faults
    <3>3. QED BY <1>20, <3>1, <3>2
              DEF Shape, TypeOK, WriteFails, ErrorCallBack, network, output, workers, main
  <2>2. Placed'
    BY <1>20 DEF Shape, Placed, WriteFails, ErrorCallBack, network, output, workers, main
  <2>3. Objects'
    BY <1>20 DEF Shape, Objects, WriteFails, ErrorCallBack, network, output, workers, main
  <2>4. Serving' /\ Registry' /\ Within'
    BY <1>20
    DEF Shape, Serving, Registry, Within, WriteFails, ErrorCallBack, network, output, workers,
        main
  <2>5. InHand'
    BY <1>20 DEF Shape, InHand, WriteFails, ErrorCallBack, network, workers
  <2>6. QED BY <2>1, <2>2, <2>3, <2>4, <2>5 DEF Shape
<1>21. ASSUME StopFails PROVE Shape'
  <2>1. TypeOK'
    BY <1>21 DEF Shape, TypeOK, StopFails, Faults, objects, network, output, workers
  <2>2. Serving' /\ Placed' /\ Objects' /\ Registry' /\ Within' /\ InHand'
    BY <1>21
    DEF Shape, Serving, Placed, Objects, Registry, Within, InHand, StopFails, objects, network,
        output, workers
  <2>3. QED BY <2>1, <2>2 DEF Shape
<1>22. CASE UNCHANGED vars
  BY <1>22 DEF vars, Shape, TypeOK, Serving, Placed, Objects, Registry, Within, InHand
<1>23. QED
  BY <1>1, <1>2, <1>3, <1>4, <1>5, <1>6, <1>7, <1>8, <1>9, <1>10, <1>11, <1>12, <1>13, <1>14,
     <1>15, <1>16, <1>17, <1>18, <1>19, <1>20, <1>21, <1>22
  DEF Next, NodeStep, HttpStart, MainStep, WorkerStep
\* It holds at the start.
LEMMA ShapeInit == Init => Shape
<1> SUFFICES ASSUME Init PROVE Shape
  OBVIOUS
<1>1. TypeOK
  <2>1. /\ listing \in SUBSET (Ips \X (Names \cup {NULL, TORN})) \cup {NULL}
        /\ seen \subseteq Ips \X (Names \cup {NULL, TORN}) /\ todo \subseteq Ips
    BY DEF Init
  <2>2. /\ sent \in [Conns -> Seq(Messages)] /\ out \in [Conns -> Seq(Answers)]
        /\ handled \in [Conns -> 0 .. MaxRequests] /\ https \in 0 .. MaxHttp
    BY DataFact, EmptySeq DEF Init
  <2>3. QED BY <2>1, <2>2 DEF Init, TypeOK, Faults
<1>2. Serving /\ Placed /\ Objects /\ Registry /\ Within /\ InHand
  BY DataFact DEF Init, Serving, Placed, Objects, Registry, Within, InHand
<1>3. QED BY <1>1, <1>2 DEF Shape

\* Shape is an invariant of the server.
LEMMA ShapeAlways == Spec => []Shape
<1>1. QED BY ShapeInit, ShapeStep, PTL DEF Spec

\* Every variable of the server keeps its type, whatever the nodes, the workers and
\* the HTTP handlers do in whatever order.
THEOREM ServerTypeCorrect == Spec => []TypeOK
<1>1. Shape => TypeOK
  BY DEF Shape
<1>2. QED BY <1>1, ShapeAlways, PTL

-----------------------------------------------------------------------------
(***************************************************************************)
(* The registry keeps those that are logged in.                            *)
(***************************************************************************)

\* The steps that handle a request or move a worker through ReadCallBack.
LEMMA CallbackSteps ==
  ASSUME [Next]_vars
  PROVE  \/ UNCHANGED <<handled, map, wpc, wconn>>
         \/ \E c \in Conns : ReadForeign(c) \/ ReadLogin(c) \/ ReadOther(c)
         \/ \E w \in Workers : SetNodeName(w) \/ AddNode(w) \/ ReadEnd(w)
  BY DEF Next, vars, NodeStep, HttpStart, MainStep, WorkerStep, Leave, Send, Accept, ListBegin,
         ListVisit, ListEnd, StopFails, StopUnknown, StopBegin, StopEnd, HandlerConnect,
         HandlerFails, Flush, ReadFails, WriteFails, ErrorCallBack, workers, network

\* A request that has been sent stays what it is.
LEMMA SentStays ==
  ASSUME Shape, [Next]_vars, NEW c \in Conns, NEW i \in 1 .. Len(sent[c])
  PROVE  i \in 1 .. Len(sent'[c]) /\ sent'[c][i] = sent[c][i]
<1>1. sent' = sent \/ \E d \in Conns : \E req \in MessagesOf(d) : Send(d, req)
  BY DEF Next, vars, NodeStep, HttpStart, MainStep, WorkerStep, Leave, Accept, ListBegin,
         ListVisit, ListEnd, StopFails, StopUnknown, StopBegin, StopEnd, HandlerConnect,
         HandlerFails, ReadForeign, ReadLogin, ReadOther, SetNodeName, AddNode, ReadEnd, Flush,
         ReadFails, WriteFails, ErrorCallBack, network
<1>2. ASSUME NEW d \in Conns, NEW req \in MessagesOf(d), Send(d, req)
      PROVE  i \in 1 .. Len(sent'[c]) /\ sent'[c][i] = sent[c][i]
  <2>1. sent[c] \in Seq(Messages) /\ req \in Messages
    BY MessageFact DEF Shape, TypeOK
  <2>2. sent'[c] = sent[c] \/ sent'[c] = Append(sent[c], req)
    BY <1>2 DEF Shape, TypeOK, Send
  <2>3. QED BY <2>1, <2>2, AppendProperties, LenProperties
<1>3. QED BY <1>1, <1>2

\* What has been handled stays handled, and an object where it was made.
LEMMA HandledStays ==
  ASSUME Shape, [Next]_vars, NEW c \in Conns
  PROVE  /\ handled'[c] = handled[c] \/ handled'[c] = handled[c] + 1
         /\ handled'[c] # handled[c] => ReadForeign(c) \/ ReadLogin(c) \/ ReadOther(c)
<1>1. ASSUME NEW d \in Conns, ReadForeign(d) \/ ReadLogin(d) \/ ReadOther(d)
      PROVE  handled'[c] = handled[c] \/ (d = c /\ handled'[c] = handled[c] + 1)
  BY <1>1 DEF Shape, TypeOK, ReadForeign, ReadLogin, ReadOther
<1>2. ASSUME NEW w \in Workers, SetNodeName(w) \/ AddNode(w) \/ ReadEnd(w) PROVE handled' = handled
  BY <1>2 DEF SetNodeName, AddNode, ReadEnd, network
<1>3. QED BY <1>1, <1>2, CallbackSteps

\* The worker of a connection and the place of its object are given once.
LEMMA PlaceStays ==
  ASSUME Shape, [Next]_vars, NEW c \in Conns, owner[c] # NULL
  PROVE  addr[c] # NULL /\ addr'[c] = addr[c] /\ owner'[c] = owner[c]
<1>1. addr[c] # NULL
  BY DEF Shape, Placed
<1>2. UNCHANGED <<addr, owner>> \/ \E d \in Conns, a \in Addrs, w \in Workers : Accept(d, a, w)
  BY DEF Next, vars, NodeStep, HttpStart, MainStep, WorkerStep, Leave, Send, ListBegin,
         ListVisit, ListEnd, StopFails, StopUnknown, StopBegin, StopEnd, HandlerConnect,
         HandlerFails, ReadForeign, ReadLogin, ReadOther, SetNodeName, AddNode, ReadEnd, Flush,
         ReadFails, WriteFails, ErrorCallBack, objects
<1>3. ASSUME NEW d \in Conns, NEW a \in Addrs, NEW w \in Workers, Accept(d, a, w)
      PROVE  addr'[c] = addr[c] /\ owner'[c] = owner[c]
  <2>1. d # c
    BY <1>3 DEF Shape, Placed, Accept
  <2>2. QED BY <1>3, <2>1 DEF Shape, TypeOK, Accept
<1>4. QED BY <1>1, <1>2, <1>3

\* A login that has been read has been read for good.
LEMMA LoginsStay ==
  ASSUME Shape, [Next]_vars, NEW c \in Conns, NEW i \in LoginsOf(c)
  PROVE  i \in 1 .. Len(sent[c]) /\ i \in LoginsOf(c)' /\ sent'[c][i] = sent[c][i]
<1>1. handled[c] \in Nat /\ handled[c] <= Len(sent[c]) /\ Len(sent[c]) \in Nat
  BY LenProperties DEF Shape, TypeOK, Within
<1>2. i \in 1 .. handled[c] /\ sent[c][i].type = "REQ_NODE_LOGIN"
  BY DEF LoginsOf
<1>3. i \in 1 .. Len(sent[c])
  BY <1>1, <1>2
<1>4. sent'[c][i] = sent[c][i]
  BY <1>3, SentStays
<1>5. i \in 1 .. handled'[c]
  BY <1>1, <1>2, HandledStays
<1>6. QED BY <1>2, <1>3, <1>4, <1>5 DEF LoginsOf

\* An entry of the registry is replaced by AddNode, and never taken out.
LEMMA EntriesStay ==
  ASSUME Shape, [Next]_vars, NEW ip \in Ips
  PROVE  \/ map'[ip] = map[ip]
         \/ \E w \in Workers : /\ AddNode(w) /\ ip = NodeInfo(w).strIp
                               /\ map'[ip] = addr[wconn[w]] /\ map'[ip] # NULL
<1>1. CASE UNCHANGED map
  BY <1>1
<1>2. ASSUME NEW w \in Workers, AddNode(w)
      PROVE  \/ map'[ip] = map[ip]
             \/ ip = NodeInfo(w).strIp /\ map'[ip] = addr[wconn[w]] /\ map'[ip] # NULL
  <2>1. wconn[w] \in Conns /\ addr[wconn[w]] # NULL
    BY <1>2, DataFact DEF Shape, Serving, Placed, AddNode
  <2>2. QED BY <1>2, <2>1 DEF Shape, TypeOK, AddNode
<1>3. QED
  BY <1>1, <1>2, CallbackSteps DEF ReadForeign, ReadLogin, ReadOther, SetNodeName, ReadEnd

\* Rooted is kept by every step.
LEMMA RootedStep == Shape /\ Rooted /\ [Next]_vars => Rooted'
<1> SUFFICES ASSUME Shape, Rooted, [Next]_vars, NEW ip \in Ips, map'[ip] # NULL
             PROVE  \E d \in Conns : addr'[d] = map'[ip] /\ LoggedIn(d, ip)'
  BY DEF Rooted
<1>1. ASSUME NEW d \in Conns, addr[d] # NULL, LoggedIn(d, ip)
      PROVE  addr'[d] = addr[d] /\ LoggedIn(d, ip)'
  <2>1. addr'[d] = addr[d]
    BY <1>1, PlaceStays DEF Shape, Placed
  <2>2. PICK i \in LoginsOf(d) : sent[d][i].info.ip = ip
    BY <1>1 DEF LoggedIn
  <2>3. QED BY <2>1, <2>2, LoginsStay DEF LoggedIn
<1>2. CASE map'[ip] = map[ip]
  <2>1. PICK d \in Conns : addr[d] = map[ip] /\ LoggedIn(d, ip)
    BY <1>2 DEF Rooted
  <2>2. QED BY <1>1, <1>2, <2>1
<1>3. ASSUME NEW w \in Workers, AddNode(w), ip = NodeInfo(w).strIp, map'[ip] = addr[wconn[w]]
      PROVE  \E d \in Conns : addr'[d] = map'[ip] /\ LoggedIn(d, ip)'
  <2>1. PICK d \in Conns : d = wconn[w] /\ addr[d] = map'[ip] /\ addr[d] # NULL
    BY <1>3 DEF Shape, Serving, AddNode
  <2>2. /\ handled[d] # 0 /\ handled[d] \in Nat /\ sent[d][handled[d]].type = "REQ_NODE_LOGIN"
        /\ sent[d][handled[d]].info.ip = ip
    BY <1>3, <2>1, InfoFact DEF Shape, TypeOK, InHand, AddNode
  <2>3. LoggedIn(d, ip)
    BY <2>2 DEF LoggedIn, LoginsOf
  <2>4. QED BY <1>1, <2>1, <2>3
<1>4. QED BY <1>2, <1>3, EntriesStay

\* A worker stays with the login it has in hand until AddNode.
LEMMA LoggingStays ==
  ASSUME Shape, [Next]_vars, NEW c \in Conns, Logging(c)
  PROVE  /\ handled'[c] = handled[c]
         /\ Logging(c)' \/ AddNode(owner[c])
<1> DEFINE w == owner[c]
<1>1. w \in Workers /\ w # NULL /\ wconn[w] = c /\ wpc[w] \in {"naming", "login"}
  BY DEF Logging, Shape, TypeOK
<1>2. handled'[c] = handled[c]
  <2>1. ~(ReadForeign(c) \/ ReadLogin(c) \/ ReadOther(c))
    BY <1>1 DEF ReadForeign, ReadLogin, ReadOther, CanRead, Idle
  <2>2. QED BY <2>1, HandledStays
<1>3. owner'[c] = w
  BY <1>1, PlaceStays
<1> HIDE DEF w
<1>4. ASSUME UNCHANGED <<wpc, wconn>> PROVE Logging(c)'
  BY <1>1, <1>3, <1>4 DEF Logging
<1>5. ASSUME NEW d \in Conns, ReadForeign(d) \/ ReadLogin(d) \/ ReadOther(d) PROVE Logging(c)'
  <2>1. ReadForeign(d) \/ (owner[d] # w /\ owner[d] \in Workers)
    BY <1>1, <1>5 DEF Shape, TypeOK, ReadLogin, ReadOther, CanRead, Idle
  <2>2. wpc'[w] = wpc[w] /\ wconn'[w] = wconn[w]
    BY <1>1, <1>5, <2>1 DEF Shape, TypeOK, ReadForeign, ReadLogin, ReadOther, workers
  <2>3. QED BY <1>1, <1>3, <2>2 DEF Logging
<1>6. ASSUME NEW v \in Workers, SetNodeName(v) \/ AddNode(v) \/ ReadEnd(v)
      PROVE  Logging(c)' \/ AddNode(w)
  <2>1. CASE v # w
    <3>1. wpc'[w] = wpc[w] /\ wconn'[w] = wconn[w]
      BY <1>1, <1>6, <2>1 DEF Shape, TypeOK, SetNodeName, AddNode, ReadEnd
    <3>2. QED BY <1>1, <1>3, <3>1 DEF Logging
  <2>2. CASE v = w /\ SetNodeName(v)
    <3>1. wpc'[w] = "login" /\ wconn'[w] = wconn[w]
      BY <1>1, <2>2 DEF Shape, TypeOK, SetNodeName
    <3>2. QED BY <1>1, <1>3, <3>1 DEF Logging
  <2>3. QED BY <1>1, <1>6, <2>1, <2>2 DEF ReadEnd
<1>7. QED BY <1>2, <1>4, <1>5, <1>6, CallbackSteps DEF w

\* Registered is kept by every step.
LEMMA RegisteredStep == Shape /\ Registered /\ [Next]_vars => Registered'
<1> SUFFICES ASSUME Shape, Registered, [Next]_vars, NEW c \in Conns, NEW i \in LoginsOf(c)',
                    i = handled'[c] => ~Logging(c)'
             PROVE  map'[sent'[c][i].info.ip] # NULL
  BY DEF Registered
<1>0. handled[c] \in Nat /\ handled[c] <= Len(sent[c]) /\ sent[c] \in Seq(Messages)
  BY DEF Shape, TypeOK, Within
<1>1. CASE i \in LoginsOf(c)
  <2>1. i \in 1 .. Len(sent[c]) /\ sent'[c][i] = sent[c][i] /\ sent[c][i].type = "REQ_NODE_LOGIN"
    BY <1>1, LoginsStay DEF LoginsOf
  <2>2. PICK ip \in Ips : ip = sent[c][i].info.ip
    <3>1. sent[c][i] \in Messages
      BY <1>0, <2>1, ElementOfSeq
    <3>2. QED BY <2>1, <3>1, MessageFact
  <2>3. CASE i = handled[c] => ~Logging(c)
    <3>1. map[ip] # NULL
      BY <1>1, <2>2, <2>3 DEF Registered
    <3>2. QED BY <2>1, <2>2, <3>1, EntriesStay
  <2>4. CASE i = handled[c] /\ Logging(c)
    <3>1. AddNode(owner[c]) /\ owner[c] \in Workers /\ wconn[owner[c]] = c
      BY <2>4, LoggingStays DEF Logging, Shape, TypeOK
    <3>2. NodeInfo(owner[c]).strIp = ip
      BY <2>2, <2>4, <3>1, InfoFact DEF Shape, AddNode
    <3>3. map' = [map EXCEPT ![ip] = addr[c]] /\ addr[c] # NULL
      BY <3>1, <3>2, PlaceStays, DataFact DEF AddNode
    <3>4. QED BY <2>1, <2>2, <3>3 DEF Shape, TypeOK
  <2>5. QED BY <2>3, <2>4
<1>2. CASE i \notin LoginsOf(c)
  <2>1. i \in 1 .. handled'[c] /\ sent'[c][i].type = "REQ_NODE_LOGIN"
    BY DEF LoginsOf
  <2>2. ~(i \in 1 .. handled[c])
    <3>1. ASSUME i \in 1 .. handled[c] PROVE i \in LoginsOf(c)
      <4>1. i \in 1 .. Len(sent[c])
        BY <1>0, <3>1, LenProperties
      <4>2. sent'[c][i] = sent[c][i]
        BY <4>1, SentStays
      <4>3. QED BY <2>1, <3>1, <4>2 DEF LoginsOf
    <3>2. QED BY <1>2, <3>1
  <2>3. i = handled[c] + 1 /\ handled'[c] = handled[c] + 1
    BY <1>0, <2>1, <2>2, HandledStays
  <2>4. ReadForeign(c) \/ ReadLogin(c) \/ ReadOther(c)
    BY <1>0, <2>3, HandledStays
  <2>5. ReadLogin(c)
    <3>1. sent[c][i].type = "REQ_NODE_LOGIN"
      BY <2>1, <2>3, <2>4 DEF ReadForeign, ReadLogin, ReadOther
    <3>2. Arriving(c).type = "REQ_NODE_LOGIN"
      BY <2>3, <3>1 DEF Arriving
    <3>3. QED BY <2>4, <3>2 DEF ReadForeign, ReadOther
  <2>6. owner[c] \in Workers /\ owner[c] # NULL /\ owner'[c] = owner[c]
    BY <2>5 DEF Shape, TypeOK, ReadLogin, CanRead, Idle
  <2>7. wpc'[owner[c]] = "naming" /\ wconn'[owner[c]] = c
    BY <2>5, <2>6 DEF Shape, TypeOK, ReadLogin
  <2>8. Logging(c)'
    BY <2>6, <2>7 DEF Logging
  <2>9. QED BY <2>3, <2>8
<1>3. QED BY <1>1, <1>2

\* A node that is connected and has had a login answered is in the registry under the
\* ip of that login, or another node that logged in with the ip is: nothing takes an
\* entry out, and AddNode puts in what was made for the node whose login it handles.
THEOREM LoggedInListed == Spec => []ConnectedStaysListed
<1>1. Init => Rooted /\ Registered
  BY DEF Init, Rooted, Registered, LoginsOf
<1>2. Shape /\ Rooted /\ Registered => ConnectedStaysListed
  <2> SUFFICES ASSUME Shape, Rooted, Registered, NEW c \in Conns, NEW i \in Answered(c)
               PROVE  \E d \in Conns : /\ LoggedIn(d, sent[c][i].info.ip)
                                       /\ addr[d] # NULL /\ map[sent[c][i].info.ip] = addr[d]
    BY DEF ConnectedStaysListed
  <2>1. i \in LoginsOf(c) /\ (i = handled[c] => ~Logging(c))
    BY DEF Answered, Logging
  <2>2. map[sent[c][i].info.ip] # NULL
    BY <2>1 DEF Registered
  <2>3. sent[c][i].info.ip \in Ips
    <3>1. handled[c] \in Nat /\ handled[c] <= Len(sent[c]) /\ sent[c] \in Seq(Messages)
      BY DEF Shape, TypeOK, Within
    <3>2. i \in 1 .. Len(sent[c]) /\ sent[c][i].type = "REQ_NODE_LOGIN"
      BY <2>1, <3>1, LenProperties DEF LoginsOf
    <3>3. sent[c][i] \in Messages
      BY <3>1, <3>2, ElementOfSeq
    <3>4. QED BY <3>2, <3>3, MessageFact
  <2>4. QED BY <2>2, <2>3 DEF Rooted
<1>3. QED BY <1>1, <1>2, ShapeAlways, RootedStep, RegisteredStep, PTL DEF Spec

-----------------------------------------------------------------------------
(***************************************************************************)
(* What holds as long as no node has gone.                                 *)
(***************************************************************************)

\* A node that has gone does not come back.
LEMMA GoneForGood == ASSUME Shape, [Next]_vars, NoneGone' PROVE NoneGone
<1>1. ASSUME NEW c \in Conns, peer[c] = "gone" PROVE peer'[c] = "gone"
  <2>1. \/ peer' = peer
        \/ \E d \in Conns : peer' = [peer EXCEPT ![d] = "gone"]
        \/ \E d \in Conns : peer[d] = "absent" /\ peer' = [peer EXCEPT ![d] = "up"]
    BY DEF Next, vars, NodeStep, HttpStart, MainStep, WorkerStep, Leave, Send, Accept,
           ListBegin, ListVisit, ListEnd, StopFails, StopUnknown, StopBegin, StopEnd, HandlerConnect,
           HandlerFails, ReadForeign, ReadLogin, ReadOther, SetNodeName, AddNode, ReadEnd,
           Flush, ReadFails, WriteFails, ErrorCallBack, network
  <2>2. QED BY <1>1, <2>1 DEF Shape, TypeOK
<1>2. QED BY <1>1 DEF NoneGone

\* The steps that change what connections, objects, entries and workers are to each
\* other, while no node has gone.
LEMMA SettledSteps ==
  ASSUME [Next]_vars, NoneGone
  PROVE  \/ UNCHANGED <<addr, heap, name, pbev, enabled, map, wpc, wconn>>
         \/ \E c \in Conns, a \in Addrs, w \in Workers : Accept(c, a, w)
         \/ \E c \in Conns : HandlerConnect(c) \/ HandlerFails(c) \/ ReadLogin(c) \/ ReadOther(c)
         \/ \E w \in Workers : SetNodeName(w) \/ AddNode(w) \/ ReadEnd(w)
  BY DEF Next, vars, NodeStep, HttpStart, MainStep, WorkerStep, Leave, Send, ListBegin,
         ListVisit, ListEnd, StopFails, StopUnknown, StopBegin, StopEnd, ReadForeign, Flush, ReadFails,
         WriteFails, NoneGone, objects, workers

\* A worker goes on with a read callback of its own, or enters one.
LEMMA WorkerSteps ==
  ASSUME Shape, [Next]_vars, NoneGone, NEW w \in Workers
  PROVE  \/ wpc'[w] = wpc[w] /\ wconn'[w] = wconn[w]
         \/ \E c \in Conns : (ReadLogin(c) \/ ReadOther(c)) /\ w = owner[c]
         \/ SetNodeName(w) \/ AddNode(w) \/ ReadEnd(w)
<1>1. ASSUME NEW c \in Conns, ReadLogin(c) \/ ReadOther(c), w # owner[c]
      PROVE  wpc'[w] = wpc[w] /\ wconn'[w] = wconn[w]
  BY <1>1 DEF Shape, TypeOK, ReadLogin, ReadOther
<1>2. ASSUME NEW v \in Workers, SetNodeName(v) \/ AddNode(v), w # v
      PROVE  wpc'[w] = wpc[w] /\ wconn'[w] = wconn[w]
  BY <1>2 DEF Shape, TypeOK, SetNodeName, AddNode
<1>3. ASSUME NEW v \in Workers, ReadEnd(v), w # v
      PROVE  wpc'[w] = wpc[w] /\ wconn'[w] = wconn[w]
  BY <1>3 DEF Shape, TypeOK, ReadEnd
<1>4. ASSUME \/ \E c \in Conns, a \in Addrs, v \in Workers : Accept(c, a, v)
             \/ \E c \in Conns : HandlerConnect(c) \/ HandlerFails(c)
      PROVE  wpc'[w] = wpc[w] /\ wconn'[w] = wconn[w]
  BY <1>4 DEF Accept, HandlerConnect, HandlerFails, workers
<1>5. QED BY <1>1, <1>2, <1>3, <1>4, SettledSteps

\* A living object stays where it is, and alive, and so does its name unless its own
\* node changes it.
LEMMA LivingStays ==
  ASSUME Shape, Healthy, [Next]_vars, NoneGone, NEW c \in Conns, Living(c)
  PROVE  /\ Living(c)' /\ addr'[c] = addr[c]
         /\ \/ name'[addr[c]] = name[addr[c]]
            \/ \E w \in Workers : SetNodeName(w) /\ wconn[w] = c /\ name'[addr[c]] = NodeInfo(w).strName
<1> USE DataFact
<1>0. addr[c] \in Addrs
  BY DEF Shape, TypeOK, Living
<1>1. CASE UNCHANGED <<addr, heap, name, pbev, enabled, map, wpc, wconn>>
  BY <1>1 DEF Living
<1>2. ASSUME NEW d \in Conns, NEW a \in Addrs, NEW w \in Workers, Accept(d, a, w)
      PROVE  Living(c)' /\ addr'[c] = addr[c] /\ name'[addr[c]] = name[addr[c]]
  <2>1. addr[d] = NULL /\ heap[a] = NULL
    BY <1>2 DEF Shape, Placed, Accept
  <2>2. d # c /\ addr[c] # a
    BY <2>1 DEF Living
  <2>3. QED BY <1>0, <1>2, <2>2 DEF Shape, TypeOK, Living, Accept
<1>3. ASSUME NEW d \in Conns, HandlerConnect(d) \/ HandlerFails(d)
      PROVE  Living(c)' /\ addr'[c] = addr[c] /\ name'[addr[c]] = name[addr[c]]
  <2>1. addr[d] # addr[c]
    BY <1>3 DEF Living, HandlerConnect, HandlerFails
  <2>2. d # c
    BY <2>1
  <2>3. QED BY <1>0, <1>3, <2>1, <2>2 DEF Shape, TypeOK, Living, HandlerConnect, HandlerFails
<1>4. ASSUME NEW d \in Conns, ReadLogin(d) \/ ReadOther(d)
      PROVE  Living(c)' /\ addr'[c] = addr[c] /\ name'[addr[c]] = name[addr[c]]
  BY <1>4 DEF Living, ReadLogin, ReadOther, objects
<1>5. ASSUME NEW w \in Workers, SetNodeName(w)
      PROVE  /\ Living(c)' /\ addr'[c] = addr[c]
             /\ \/ name'[addr[c]] = name[addr[c]]
                \/ wconn[w] = c /\ name'[addr[c]] = NodeInfo(w).strName
  <2>1. Living(c)' /\ addr'[c] = addr[c]
    BY <1>5 DEF Living, SetNodeName
  <2>2. CASE addr[wconn[w]] # addr[c]
    BY <1>5, <2>1, <2>2 DEF Shape, TypeOK, SetNodeName
  <2>3. CASE addr[wconn[w]] = addr[c] /\ wconn[w] = c
    BY <1>0, <1>5, <2>1, <2>3 DEF Shape, TypeOK, SetNodeName
  <2>4. Living(wconn[w])
    BY <1>5 DEF Healthy, SetNodeName
  <2>5. QED BY <2>2, <2>3, <2>4 DEF Living
<1>6. ASSUME NEW w \in Workers, AddNode(w) \/ ReadEnd(w)
      PROVE  Living(c)' /\ addr'[c] = addr[c] /\ name'[addr[c]] = name[addr[c]]
  BY <1>6 DEF Living, AddNode, ReadEnd, objects
<1>7. QED BY <1>1, <1>2, <1>3, <1>4, <1>5, <1>6, SettledSteps

\* Healthy is kept by every step.
LEMMA HealthyStep == Shape /\ Healthy /\ [Next]_vars => Healthy'
<1> SUFFICES ASSUME Shape, Healthy, [Next]_vars, NoneGone' PROVE Healthy'
  BY DEF Healthy
<1> USE DataFact
<1>0. NoneGone
  BY GoneForGood
<1>1. ASSUME NEW c \in Conns, enabled'[c] # {} PROVE Living(c)'
  <2>1. CASE enabled[c] # {}
    BY <1>0, <2>1, LivingStays DEF Healthy
  <2>2. CASE HandlerConnect(c)
    <3>1. addr[c] \in Addrs /\ addr[c] # NULL
      BY <2>2 DEF Shape, TypeOK, Placed, HandlerConnect, Idle
    <3>2. QED BY <2>2, <3>1 DEF Shape, TypeOK, Living, HandlerConnect
  <2>3. CASE enabled'[c] = enabled[c]
    BY <1>1, <2>1, <2>3
  <2>4. QED BY <1>0, <2>2, <2>3, SettledSteps
            DEF Shape, TypeOK, Accept, HandlerConnect, HandlerFails, ReadLogin, ReadOther,
                SetNodeName, AddNode, ReadEnd
<1>2. ASSUME NEW w \in Workers, wpc'[w] # "idle" PROVE Living(wconn[w])'
  <2>1. CASE wpc[w] # "idle" /\ wconn'[w] = wconn[w]
    <3>1. PICK c \in Conns : c = wconn[w] /\ Living(c)
      BY <1>0, <2>1 DEF Healthy, Shape, Serving
    <3>2. Living(c)'
      BY <1>0, <3>1, LivingStays
    <3>3. QED BY <2>1, <3>1, <3>2 DEF Living
  <2>2. ASSUME NEW c \in Conns, ReadLogin(c) \/ ReadOther(c), w = owner[c] PROVE Living(wconn[w])'
    <3>1. wconn'[w] = c
      BY <2>2 DEF Shape, TypeOK, ReadLogin, ReadOther
    <3>2. Living(c)
      BY <1>0, <2>2 DEF Healthy, ReadLogin, ReadOther, CanRead
    <3>3. Living(c)'
      BY <1>0, <3>2, LivingStays
    <3>4. QED BY <3>1, <3>3 DEF Living
  <2>3. ASSUME SetNodeName(w) \/ AddNode(w) \/ ReadEnd(w)
        PROVE  wpc[w] # "idle" /\ wconn'[w] = wconn[w]
    <3>1. ~ReadEnd(w)
      BY <1>2 DEF Shape, TypeOK, ReadEnd
    <3>2. QED BY <2>3, <3>1 DEF SetNodeName, AddNode
  <2>4. QED BY <1>0, <1>2, <2>1, <2>2, <2>3, WorkerSteps
<1>3. ASSUME NEW ip \in Ips, map'[ip] # NULL PROVE \E c \in Conns : addr'[c] = map'[ip] /\ Living(c)'
  <2>1. CASE map'[ip] = map[ip]
    <3>1. PICK c \in Conns : addr[c] = map[ip] /\ Living(c)
      BY <1>0, <1>3, <2>1 DEF Healthy
    <3>2. QED BY <1>0, <2>1, <3>1, LivingStays
  <2>2. ASSUME NEW w \in Workers, AddNode(w), map'[ip] = addr[wconn[w]]
        PROVE  \E c \in Conns : addr'[c] = map'[ip] /\ Living(c)'
    <3>1. wconn[w] \in Conns /\ Living(wconn[w])
      BY <1>0, <2>2 DEF Healthy, Shape, Serving, AddNode
    <3>2. QED BY <1>0, <2>2, <3>1, LivingStays
  <2>3. QED BY <2>1, <2>2, EntriesStay
<1>4. QED BY <1>1, <1>2, <1>3 DEF Healthy

\* So it always holds.
LEMMA HealthyAlways == Spec => []Healthy
<1>1. Init => Healthy
  BY DEF Init, Healthy
<1>2. QED BY <1>1, ShapeAlways, HealthyStep, PTL DEF Spec

\* A bufferevent two threads have been in cannot be trusted again.
LEMMA RacedForGood == ASSUME Shape, [Next]_vars, NEW c \in Conns, raced[c] PROVE raced'[c]
<1>1. ASSUME NEW d, EnterWrite(d) PROVE raced'[c]
  BY <1>1 DEF Shape, TypeOK, EnterWrite
<1>2. ASSUME NEW d \in Conns, NodeStep(d) \/ HandlerFails(d) PROVE raced'[c]
  BY <1>2 DEF NodeStep, Leave, Send, HandlerFails
<1>3. ASSUME NEW d \in Conns, NEW a \in Addrs, NEW w \in Workers, Accept(d, a, w) PROVE raced'[c]
  BY <1>3 DEF Accept
<1>4. CASE HttpStart \/ MainStep
  BY <1>1, <1>4 DEF HttpStart, ListBegin, StopFails, StopUnknown, StopBegin, MainStep, ListVisit, ListEnd, StopEnd
<1>5. ASSUME NEW w \in Workers, SetNodeName(w) \/ AddNode(w) \/ ReadEnd(w) PROVE raced'[c]
  BY <1>1, <1>5 DEF SetNodeName, AddNode, ReadEnd
<1>6. ASSUME NEW d \in Conns, \/ HandlerConnect(d) \/ ReadForeign(d) \/ ReadLogin(d) \/ ReadOther(d)
                            \/ Flush(d) \/ ReadFails(d) \/ WriteFails(d)
      PROVE  raced'[c]
  BY <1>1, <1>6 DEF HandlerConnect, ReadForeign, ReadLogin, ReadOther, Flush, ReadFails, WriteFails,
                    ErrorCallBack
<1>7. QED BY <1>2, <1>3, <1>4, <1>5, <1>6 DEF Next, WorkerStep, vars

\* While no node has gone, an entry leads to an object that knows its bufferevent, and
\* only its own worker writes its name.
LEMMA Listed ==
  ASSUME Shape, Healthy, NoneGone, NEW ip \in Ips, map[ip] # NULL
  PROVE  /\ map[ip] \in Addrs
         /\ \E c \in Conns : /\ Living(c) /\ addr[c] = map[ip] /\ heap[map[ip]] = c /\ pbev[map[ip]] = c
                             /\ \A w \in Workers : wpc[w] # "idle" /\ addr[wconn[w]] = map[ip] => wconn[w] = c
         /\ heap[map[ip]] # NULL /\ pbev[map[ip]] # NULL
<1>1. PICK c \in Conns : addr[c] = map[ip] /\ Living(c)
  BY DEF Healthy
<1>2. ASSUME NEW w \in Workers, wpc[w] # "idle", addr[wconn[w]] = map[ip] PROVE wconn[w] = c
  <2>1. Living(wconn[w])
    BY <1>2 DEF Healthy
  <2>2. QED BY <1>1, <1>2, <2>1 DEF Living
<1>3. map[ip] \in Addrs
  BY DEF Shape, TypeOK
<1>4. QED BY <1>1, <1>2, <1>3, DataFact DEF Living

\* What a listing shows while it is made is at rest, unless a listed object is being
\* given another name.
LEMMA AtRest ==
  ASSUME NEW ip \in Ips, map[ip] # NULL, \A w \in Workers : ~Renaming(w)
  PROVE  NamesWritten(map[ip]) = {} /\ GetNodeName(map[ip]) = {name[map[ip]]}
<1>1. map[ip] \in Entries
  BY DEF Entries
<1>2. NamesWritten(map[ip]) = {}
  <2> SUFFICES ASSUME NEW w \in Workers, wpc[w] = "naming", addr[wconn[w]] = map[ip],
                      NodeInfo(w).strName # name[map[ip]]
               PROVE  FALSE
    BY DEF NamesWritten
  <2>1. QED BY <1>1 DEF Renaming, Renames
<1>3. QED BY <1>2 DEF GetNodeName

\* While no node has gone, what an entry leads to stays.
LEMMA EntryStays ==
  ASSUME Shape, Healthy, NoneGone, [Next]_vars, NEW ip \in Ips, map[ip] # NULL
  PROVE  heap'[map[ip]] = heap[map[ip]]
<1>1. PICK c \in Conns : Living(c) /\ addr[c] = map[ip] /\ heap[map[ip]] = c
  BY Listed
<1>2. Living(c)' /\ addr'[c] = addr[c]
  BY <1>1, LivingStays
<1>3. QED BY <1>1, <1>2 DEF Living

\* A login in hand is the same until its worker is through with it.
LEMMA InfoStays ==
  ASSUME Shape, [Next]_vars, NEW w \in Workers, wpc[w] \in {"naming", "login"}, wconn'[w] = wconn[w]
  PROVE  NodeInfo(w)' = NodeInfo(w)
<1>1. PICK c \in Conns : c = wconn[w]
  BY DEF Shape, Serving
<1>2. owner[c] = w /\ w # NULL
  BY <1>1, DataFact DEF Shape, Serving
<1>3. Logging(c)
  BY <1>1, <1>2 DEF Logging
<1>4. handled'[c] = handled[c]
  BY <1>3, LoggingStays
<1>5. sent'[c][handled[c]] = sent[c][handled[c]]
  <2>1. handled[c] \in 1 .. Len(sent[c])
    BY <1>1, InfoFact DEF Shape
  <2>2. QED BY <2>1, SentStays
<1>6. QED BY <1>1, <1>4, <1>5 DEF NodeInfo

\* The steps that are taken while GetAllNode has the mutex.
LEMMA ListingSteps ==
  ASSUME [Next]_vars, mpc' = "listing"
  PROVE  \/ ListBegin
         \/ /\ mpc = "listing" /\ map' = map /\ (renamed => renamed')
            /\ \/ todo' = todo /\ seen' = seen
               \/ \E ip \in Ips : ListVisit(ip)
<1> DEFINE Goal == /\ mpc = "listing" /\ map' = map /\ (renamed => renamed')
                   /\ \/ todo' = todo /\ seen' = seen
                      \/ \E ip \in Ips : ListVisit(ip)
<1>1. ASSUME NEW c \in Conns, ReadLogin(c) PROVE Goal
  BY <1>1 DEF ReadLogin
<1>2. ASSUME NEW ip \in Ips, ListVisit(ip) PROVE Goal
  BY <1>2 DEF ListVisit
<1>3. ASSUME NEW c \in Conns, NodeStep(c) \/ HandlerFails(c) PROVE Goal
  BY <1>3 DEF NodeStep, Leave, Send, HandlerFails, main
<1>4. ASSUME NEW w \in Workers, SetNodeName(w) \/ AddNode(w) \/ ReadEnd(w) PROVE Goal
  BY <1>4 DEF SetNodeName, AddNode, ReadEnd, main, Locked
<1>5. ASSUME NEW c \in Conns, \/ HandlerConnect(c) \/ ReadForeign(c) \/ ReadOther(c)
                            \/ Flush(c) \/ ReadFails(c) \/ WriteFails(c)
      PROVE  Goal
  BY <1>5 DEF HandlerConnect, ReadForeign, ReadOther, Flush, ReadFails, WriteFails, ErrorCallBack, main
<1>6. ASSUME NEW c \in Conns, NEW a \in Addrs, NEW w \in Workers PROVE ~Accept(c, a, w)
  BY DEF Accept, main
<1>7. /\ ~ListEnd /\ ~StopFails /\ ~StopEnd
      /\ \A ip \in Ips : ~StopUnknown(ip) /\ ~StopBegin(ip)
  BY DEF ListEnd, StopFails, StopEnd, StopUnknown, StopBegin
<1>8. CASE UNCHANGED vars
  BY <1>8 DEF vars
<1>9. QED BY <1>1, <1>2, <1>3, <1>4, <1>5, <1>6, <1>7, <1>8 DEF Next, HttpStart, MainStep, WorkerStep

\* The steps that are taken while DelNode has it.
LEMMA StoppingSteps ==
  ASSUME [Next]_vars, mpc' = "stopping"
  PROVE  (\E ip \in Ips : StopBegin(ip)) \/ (mpc = "stopping" /\ UNCHANGED <<map, mconn>>)
  BY DEF Next, vars, NodeStep, HttpStart, MainStep, WorkerStep, Leave, Send, Accept, ListBegin,
         ListVisit, ListEnd, StopFails, StopUnknown, StopEnd, HandlerConnect, HandlerFails,
         ReadForeign, ReadLogin, ReadOther, SetNodeName, AddNode, ReadEnd, Flush, ReadFails,
         WriteFails, ErrorCallBack, main, Locked

\* Handlers is kept by every step.
LEMMA HandlersStep == Shape /\ Healthy /\ Handlers /\ [Next]_vars => Handlers'
<1> SUFFICES ASSUME Shape, Healthy, Handlers, [Next]_vars, NoneGone' PROVE Handlers'
  BY DEF Handlers
<1> USE DataFact
<1>0. NoneGone
  BY GoneForGood
<1>1. ASSUME mpc' = "stopping" PROVE \E ip \in Ips : map'[ip] # NULL /\ heap'[map'[ip]] = mconn'
  <2>1. ASSUME NEW ip \in Ips, StopBegin(ip) PROVE map'[ip] # NULL /\ heap'[map'[ip]] = mconn'
    <3>1. map[ip] # NULL /\ mpc = "idle" /\ map' = map /\ heap' = heap
      BY <2>1 DEF StopBegin, objects
    <3>2. heap[map[ip]] # NULL /\ pbev[map[ip]] = heap[map[ip]]
      BY <1>0, <3>1, Listed
    <3>3. mconn' = heap[map[ip]]
      BY <1>1, <2>1, <3>1, <3>2 DEF StopBegin
    <3>4. QED BY <3>1, <3>3
  <2>2. CASE mpc = "stopping" /\ UNCHANGED <<map, mconn>>
    <3>1. PICK ip \in Ips : map[ip] # NULL /\ heap[map[ip]] = mconn
      BY <1>0, <2>2 DEF Handlers
    <3>2. QED BY <1>0, <2>2, <3>1, EntryStays
  <2>3. QED BY <1>1, <2>1, <2>2, StoppingSteps
<1>2. ASSUME mpc' = "listing", ~renamed', ~ListBegin
      PROVE  /\ mpc = "listing" /\ map' = map /\ \A w \in Workers : ~Renaming(w)
             /\ seen = {<<ip, name[map[ip]]>> : ip \in {i \in Ips : map[i] # NULL} \ todo}
             /\ \A ip \in Ips : map[ip] # NULL => name'[map[ip]] = name[map[ip]]
  <2>1. mpc = "listing" /\ map' = map /\ ~renamed
    BY <1>2, ListingSteps
  <2>2. /\ \A w \in Workers : ~Renaming(w)
        /\ seen = {<<ip, name[map[ip]]>> : ip \in {i \in Ips : map[i] # NULL} \ todo}
    BY <1>0, <2>1 DEF Handlers
  <2>3. ASSUME NEW ip \in Ips, map[ip] # NULL PROVE name'[map[ip]] = name[map[ip]]
    <3>1. PICK c \in Conns : Living(c) /\ addr[c] = map[ip]
      BY <1>0, <2>3, Listed
    <3>2. ASSUME NEW w \in Workers, SetNodeName(w), wconn[w] = c, name'[addr[c]] = NodeInfo(w).strName
          PROVE  name'[addr[c]] = name[addr[c]]
      <4>1. addr[c] \in Entries
        BY <2>3, <3>1 DEF Entries
      <4>2. QED BY <2>2, <3>2, <4>1 DEF Renaming, Renames, SetNodeName
    <3>3. QED BY <1>0, <3>1, <3>2, LivingStays
  <2>4. QED BY <2>1, <2>2, <2>3
<1>3. ASSUME mpc' = "listing", ~renamed', NEW w \in Workers, Renaming(w)' PROVE FALSE
  <2>1. CASE ListBegin
    <3>1. UNCHANGED <<wpc, wconn, addr, map, name, sent, handled>>
      BY <2>1 DEF ListBegin, objects, workers, network
    <3>2. Renaming(w)
      BY <1>3, <3>1 DEF Renaming, Renames, Entries, NodeInfo
    <3>3. QED BY <1>3, <2>1, <3>2 DEF ListBegin, Renaming
  <2>2. CASE ~ListBegin
    <3>1. wpc'[w] = "naming" /\ addr'[wconn'[w]] \in Entries' /\ name'[addr'[wconn'[w]]] # NodeInfo(w)'.strName
      BY <1>3 DEF Renaming, Renames
    <3>2. /\ mpc = "listing" /\ Entries' = Entries /\ ~Renaming(w)
          /\ \A ip \in Ips : map[ip] # NULL => name'[map[ip]] = name[map[ip]]
      BY <1>2, <1>3, <2>2 DEF Entries
    <3>3. \A a \in Entries : name'[a] = name[a]
      BY <3>2 DEF Entries
    <3>4. CASE wpc'[w] = wpc[w] /\ wconn'[w] = wconn[w]
      <4>1. NodeInfo(w)' = NodeInfo(w) /\ wpc[w] = "naming"
        BY <3>1, <3>4, InfoStays
      <4>2. addr'[wconn[w]] = addr[wconn[w]]
        <5>1. wconn[w] \in Conns /\ owner[wconn[w]] # NULL
          BY <4>1 DEF Shape, Serving
        <5>2. QED BY <5>1, PlaceStays
      <4>3. QED BY <3>1, <3>2, <3>3, <3>4, <4>1, <4>2 DEF Renaming, Renames
    <3>5. ASSUME NEW c \in Conns, ReadLogin(c), w = owner[c] PROVE FALSE
      <4>1. wconn'[w] = c /\ handled'[c] = handled[c] + 1 /\ UNCHANGED <<addr, name, sent>>
        BY <3>5 DEF Shape, TypeOK, ReadLogin, objects
      <4>2. NodeInfo(w)' = HandleNodeOnlineReq(Arriving(c).info)
        BY <4>1 DEF NodeInfo, Arriving
      <4>3. ~Renames(addr[c], HandleNodeOnlineReq(Arriving(c).info).strName)
        BY <1>3, <3>2, <3>5 DEF ReadLogin
      <4>4. QED BY <3>1, <3>2, <4>1, <4>2, <4>3 DEF Renames
    <3>6. ASSUME SetNodeName(w) \/ AddNode(w) \/ ReadEnd(w) \/ \E c \in Conns : ReadOther(c) /\ w = owner[c]
          PROVE  wpc'[w] # "naming"
      BY <3>6 DEF Shape, TypeOK, SetNodeName, AddNode, ReadEnd, ReadOther
    <3>7. QED BY <1>0, <3>1, <3>4, <3>5, <3>6, WorkerSteps
  <2>3. QED BY <2>1, <2>2
<1>4. ASSUME mpc' = "listing", ~renamed'
      PROVE  seen' = {<<ip, name'[map'[ip]]>> : ip \in {i \in Ips : map'[i] # NULL} \ todo'}
  <2>1. CASE ListBegin
    <3>1. seen' = {} /\ map' = map /\ todo' = {ip \in Ips : map[ip] # NULL}
      BY <2>1 DEF ListBegin
    <3>2. QED BY <3>1
  <2>2. CASE ~ListBegin
    <3>1. /\ map' = map /\ \A w \in Workers : ~Renaming(w)
          /\ seen = {<<ip, name[map[ip]]>> : ip \in {i \in Ips : map[i] # NULL} \ todo}
          /\ \A ip \in Ips : map[ip] # NULL => name'[map[ip]] = name[map[ip]]
      BY <1>2, <1>4, <2>2
    <3>2. CASE todo' = todo /\ seen' = seen
      BY <3>1, <3>2
    <3>3. ASSUME NEW ip \in Ips, ListVisit(ip)
          PROVE  seen' = {<<i, name'[map'[i]]>> : i \in {j \in Ips : map'[j] # NULL} \ todo'}
      <4>1. /\ todo' = todo \ {ip} /\ ip \in todo /\ mpc = "listing"
            /\ \E n \in GetNodeName(map[ip]) : seen' = seen \cup {<<ip, n>>}
        BY <3>3 DEF ListVisit
      <4>2. map[ip] # NULL
        BY <4>1 DEF Shape, Registry
      <4>3. seen' = seen \cup {<<ip, name[map[ip]]>>}
        BY <3>1, <4>1, <4>2, AtRest
      <4>4. {i \in Ips : map[i] # NULL} \ todo' = ({i \in Ips : map[i] # NULL} \ todo) \cup {ip}
        BY <4>1, <4>2
      <4>5. seen' = {<<i, name[map[i]]>> : i \in {j \in Ips : map[j] # NULL} \ todo'}
        BY <3>1, <4>3, <4>4
      <4>6. QED BY <3>1, <4>5
    <3>4. QED BY <1>4, <2>2, <3>2, <3>3, ListingSteps
  <2>3. QED BY <2>1, <2>2
<1>5. QED BY <1>1, <1>3, <1>4 DEF Handlers

\* So it always holds.
LEMMA HandlersAlways == Spec => []Handlers
<1>1. Init => Handlers
  BY DEF Init, Handlers
<1>2. QED BY <1>1, ShapeAlways, HealthyAlways, HandlersStep, PTL DEF Spec

\* What a node has sent it has sent for good.
LEMMA HeardForGood ==
  ASSUME Shape, [Next]_vars, NEW c \in Conns, NEW text, Spoke(c, text) PROVE Spoke(c, text)'
<1>1. PICK i \in 1 .. Len(sent[c]) :
        sent[c][i].type = "REQ_NODE_LOGIN" /\ text \in {sent[c][i].info.ip, sent[c][i].info.name}
  BY DEF Spoke
<1>2. i \in 1 .. Len(sent'[c]) /\ sent'[c][i] = sent[c][i]
  BY <1>1, SentStays
<1>3. QED BY <1>1, <1>2 DEF Spoke

\* The login a worker has in hand was sent.
LEMMA InHandHeard ==
  ASSUME Shape, NEW w \in Workers, wpc[w] \in {"naming", "login"} PROVE Heard(NodeInfo(w).strName)
<1>1. /\ wconn[w] \in Conns /\ handled[wconn[w]] \in 1 .. Len(sent[wconn[w]])
      /\ sent[wconn[w]][handled[wconn[w]]].type = "REQ_NODE_LOGIN"
      /\ NodeInfo(w).strName = sent[wconn[w]][handled[wconn[w]]].info.name
  BY InfoFact DEF Shape
<1>2. Spoke(wconn[w], NodeInfo(w).strName)
  BY <1>1 DEF Spoke
<1>3. QED BY <1>1, <1>2 DEF Heard

\* The steps that write a name or look at one.
LEMMA NamingSteps ==
  ASSUME [Next]_vars
  PROVE  \/ UNCHANGED <<name, seen>>
         \/ ListBegin \/ \E ip \in Ips : ListVisit(ip)
         \/ \E c \in Conns, a \in Addrs, w \in Workers : Accept(c, a, w)
         \/ \E w \in Workers : SetNodeName(w)
  BY DEF Next, vars, NodeStep, HttpStart, MainStep, WorkerStep, Leave, Send, ListEnd, StopFails,
         StopUnknown, StopBegin, StopEnd, HandlerConnect, HandlerFails, ReadForeign, ReadLogin,
         ReadOther, AddNode, ReadEnd, Flush, ReadFails, WriteFails, ErrorCallBack, main, objects

\* Known is kept by every step.
LEMMA KnownStep == Shape /\ Rooted /\ Known /\ [Next]_vars => Known'
<1> SUFFICES ASSUME Shape, Rooted, Known, [Next]_vars PROVE Known'
  OBVIOUS
<1>1. ASSUME NEW text, Heard(text) PROVE Heard(text)'
  BY <1>1, HeardForGood DEF Heard
<1>2. ASSUME NEW a \in Addrs, NEW n, n = name'[a], n # NULL PROVE Heard(n)'
  <2>1. CASE n = name[a]
    <3>1. Heard(n)
      BY <1>2, <2>1 DEF Known
    <3>2. QED BY <1>1, <3>1
  <2>2. ASSUME NEW c \in Conns, NEW b \in Addrs, NEW w \in Workers, Accept(c, b, w) PROVE n = name[a]
    BY <1>2, <2>2 DEF Shape, TypeOK, Accept
  <2>3. ASSUME NEW w \in Workers, SetNodeName(w), n # name[a] PROVE Heard(n)'
    <3>1. n = NodeInfo(w).strName
      BY <1>2, <2>3 DEF Shape, TypeOK, SetNodeName
    <3>2. Heard(n)
      BY <2>3, <3>1, InHandHeard DEF SetNodeName
    <3>3. QED BY <1>1, <3>2
  <2>4. QED BY <1>2, <2>1, <2>2, <2>3, NamingSteps DEF ListBegin, ListVisit, objects
<1>3. ASSUME NEW e \in seen' PROVE Heard(e[1])' /\ (Heard(e[2])' \/ e[2] \in {NULL, TORN})
  <2>1. CASE e \in seen
    BY <1>1, <2>1 DEF Known
  <2>2. ASSUME NEW ip \in Ips, ListVisit(ip), e \notin seen
        PROVE  Heard(e[1]) /\ (Heard(e[2]) \/ e[2] \in {NULL, TORN})
    <3>1. PICK n \in GetNodeName(map[ip]) : e = <<ip, n>>
      BY <1>3, <2>2 DEF ListVisit
    <3>2. map[ip] # NULL /\ map[ip] \in Addrs
      BY <2>2 DEF Shape, TypeOK, Registry, ListVisit
    <3>3. Heard(ip)
      <4>1. PICK d \in Conns : LoggedIn(d, ip)
        BY <3>2 DEF Rooted
      <4>2. PICK i \in LoginsOf(d) : sent[d][i].info.ip = ip
        BY <4>1 DEF LoggedIn
      <4>3. i \in 1 .. Len(sent[d])
        BY <4>2, LoginsStay
      <4>4. sent[d][i].type = "REQ_NODE_LOGIN"
        BY <4>2 DEF LoginsOf
      <4>5. QED BY <4>2, <4>3, <4>4 DEF Spoke, Heard
    <3>4. CASE n = name[map[ip]]
      BY <3>1, <3>2, <3>3, <3>4 DEF Known
    <3>5. ASSUME NEW w \in Workers, wpc[w] = "naming", n = NodeInfo(w).strName PROVE Heard(n)
      BY <3>5, InHandHeard
    <3>6. n = name[map[ip]] \/ n = TORN \/ \E w \in Workers : wpc[w] = "naming" /\ n = NodeInfo(w).strName
      BY DEF GetNodeName, NamesWritten
    <3>7. QED BY <3>1, <3>3, <3>4, <3>5, <3>6
  <2>3. CASE ListBegin
    BY <1>3, <2>3 DEF ListBegin
  <2>4. seen' = seen \/ ListBegin \/ \E ip \in Ips : ListVisit(ip)
    BY NamingSteps DEF Accept, SetNodeName, main
  <2>5. QED BY <1>1, <1>3, <2>1, <2>2, <2>3, <2>4
<1>4. ASSUME NEW a \in Addrs, name'[a] # NULL PROVE Heard(name[a])'
  <2>1. PICK n : n = name'[a]
    OBVIOUS
  <2>2. Heard(n)'
    BY <1>2, <1>4, <2>1
  <2>3. QED BY <2>1, <2>2 DEF Heard, Spoke
<1>5. QED BY <1>3, <1>4 DEF Known

\* Once the process is down, nothing but the nodes goes on.
LEMMA DownStays ==
  ASSUME [Next]_vars, fault # "none" PROVE fault' = fault /\ renamed' = renamed /\ raced' = raced
  BY DEF Running, Next, vars, NodeStep, HttpStart, MainStep, WorkerStep, Leave, Send, Accept,
         ListBegin, ListVisit, ListEnd, StopFails, StopUnknown, StopBegin, StopEnd,
         HandlerConnect, HandlerFails, ReadForeign, ReadLogin, ReadOther, SetNodeName, AddNode,
         ReadEnd, Flush, ReadFails, WriteFails, CanRead, main

\* While no node has gone, what the registry and the callbacks lead to is alive.
LEMMA Sound ==
  ASSUME Shape, Healthy, Handlers, NoneGone, [Next]_vars, fault = "none", fault' # "none"
  PROVE  \/ fault' \in {"format", "overrun", "exception"}
         \/ fault' = "race" /\ (renamed' \/ \E c \in Conns : raced[c])
<1> USE DataFact
<1>1. ASSUME NEW ip \in Ips, map[ip] # NULL PROVE heap[map[ip]] # NULL /\ pbev[map[ip]] # NULL
  BY <1>1, Listed
<1>2. ASSUME NEW ip \in Ips, ListVisit(ip) PROVE fault' = "race" /\ renamed'
  <2>1. map[ip] # NULL
    BY <1>2 DEF Shape, Registry, ListVisit
  <2>2. fault' = "race" /\ NamesWritten(map[ip]) # {}
    BY <1>1, <1>2, <2>1 DEF ListVisit
  <2>3. renamed
    BY <1>2, <2>1, <2>2, AtRest DEF Handlers, ListVisit
  <2>4. QED BY <1>2, <2>2, <2>3 DEF ListVisit
<1>3. ASSUME NEW ip \in Ips, StopBegin(ip) PROVE FALSE
  <2>1. heap[map[ip]] # NULL /\ pbev[map[ip]] # NULL
    BY <1>1, <1>3 DEF StopBegin
  <2>2. QED BY <1>3, <2>1 DEF StopBegin
<1>4. ASSUME NEW c \in Conns, ReadLogin(c) PROVE FALSE
  <2>1. Living(c)
    BY <1>4 DEF Healthy, ReadLogin, CanRead
  <2>2. QED BY <1>4, <2>1 DEF ReadLogin, Living
<1>5. ASSUME StopEnd PROVE fault' = "race" /\ \E c \in Conns : raced[c]
  BY <1>5 DEF Shape, Registry, StopEnd, LeaveWrite
<1>6. ASSUME NEW w \in Workers, ReadEnd(w) PROVE fault' = "race" /\ \E c \in Conns : raced[c]
  BY <1>6 DEF Shape, Serving, ReadEnd, LeaveWrite
<1>7. ASSUME ListEnd \/ StopFails PROVE fault' \in {"format", "overrun", "exception"}
  BY <1>7 DEF ListEnd, StopFails
<1>8. QED BY <1>2, <1>3, <1>4, <1>5, <1>6, <1>7
          DEF Next, vars, NodeStep, HttpStart, MainStep, WorkerStep, Leave, Send, Accept,
              ListBegin, StopUnknown, HandlerConnect, HandlerFails, ReadForeign, ReadOther,
              SetNodeName, AddNode, Flush, ReadFails, WriteFails, NoneGone

\* A listing is lost as a format only if a node has sent such a text.
LEMMA FormatSent ==
  ASSUME Shape, Known, [Next]_vars, fault = "none", fault' = "format"
  PROVE  \E c \in Conns, text \in Formats : Spoke(c, text)
<1>1. ListEnd
  BY DEF Next, vars, NodeStep, HttpStart, MainStep, WorkerStep, Leave, Send, Accept, ListBegin,
         ListVisit, StopFails, StopUnknown, StopBegin, StopEnd, LeaveWrite, HandlerConnect,
         HandlerFails, ReadForeign, ReadLogin, ReadOther, SetNodeName, AddNode, ReadEnd, Flush,
         ReadFails, WriteFails, ErrorCallBack
<1>2. PICK e \in seen : e[1] \in Formats \/ e[2] \in Formats
  BY <1>1 DEF ListEnd, ActsAsFormat
<1>3. NULL \notin Formats /\ TORN \notin Formats
  BY ServerAssumption
<1>4. PICK text \in Formats : Heard(text)
  BY <1>2, <1>3 DEF Known
<1>5. QED BY <1>4 DEF Heard

\* A deleted object, or one without a bufferevent, is met only after a node has gone:
\* while the nodes stay, the registry leads GetAllNode and DelNode to living objects.
\* Two threads meet only in a bufferevent StopNode has written to, or in the name of a
\* listed node that logs in under another one; a listing is lost as a format only if a
\* node has sent such a text.
THEOREM CrashesExplained == Spec => []CrashExplained
<1>1. Init => Known /\ Rooted /\ CrashExplained
  BY DEF Init, Known, Rooted, CrashExplained
<1>2. Shape /\ Healthy /\ Handlers /\ Known /\ CrashExplained /\ [Next]_vars => CrashExplained'
  <2> SUFFICES ASSUME Shape, Healthy, Handlers, Known, CrashExplained, [Next]_vars PROVE CrashExplained'
    OBVIOUS
  <2>1. /\ ~NoneGone => ~NoneGone'
        /\ \A c \in Conns : raced[c] => raced'[c]
        /\ \A c \in Conns, text \in Formats : Spoke(c, text) => Spoke(c, text)'
    BY GoneForGood, RacedForGood, HeardForGood
  <2>2. /\ fault \in {"use_after_free", "double_free", "null_bufferevent"} => ~NoneGone
        /\ fault = "race" => ~NoneGone \/ renamed \/ \E c \in Conns : raced[c]
        /\ fault = "format" => \E c \in Conns, text \in Formats : Spoke(c, text)
    BY DEF CrashExplained, NoneGone
  <2>3. /\ fault' \in {"use_after_free", "double_free", "null_bufferevent"} => ~NoneGone'
        /\ fault' = "race" => ~NoneGone' \/ renamed' \/ \E c \in Conns : raced'[c]
        /\ fault' = "format" => \E c \in Conns, text \in Formats : Spoke(c, text)'
    <3>1. CASE fault # "none"
      BY <2>1, <2>2, <3>1, DownStays
    <3>2. CASE fault = "none"
      <4>1. fault' = "format" => \E c \in Conns, text \in Formats : Spoke(c, text)'
        BY <2>1, <3>2, FormatSent
      <4>2. CASE NoneGone /\ fault' # "none"
        BY <2>1, <3>2, <4>1, <4>2, Sound
      <4>3. QED BY <2>1, <4>1, <4>2
    <3>3. QED BY <3>1, <3>2
  <2>4. QED BY <2>3 DEF CrashExplained, NoneGone
<1>3. QED BY <1>1, <1>2, ShapeAlways, RootedStep, KnownStep, HealthyAlways, HandlersAlways, PTL DEF Spec

-----------------------------------------------------------------------------
(***************************************************************************)
(* The answers.                                                            *)
(***************************************************************************)

\* Nothing is owed for nothing.
LEMMA RepliesEmpty == Replies(<<>>) = <<>>
<1>1. Those(<<>>, {req \in Messages : req.type # "NOT_PB"}) = <<>>
  BY ThoseEmpty
<1> DEFINE none == [i \in DOMAIN <<>> |-> AnswerTo[<<>>[i].type]]
<1>2. Replies(<<>>) = none
  BY <1>1 DEF Replies
<1>3. DOMAIN <<>> = 1 .. 0
  OBVIOUS
<1>4. none \in Seq({}) /\ <<>> \in Seq({}) /\ Len(none) = 0 /\ Len(<<>>) = 0
  BY <1>3
<1> HIDE DEF none
<1>5. none = <<>>
  BY <1>4, EmptySeq
<1>6. QED BY <1>2, <1>5

\* A request at the end adds one answer, or none.
LEMMA RepliesAppend ==
  ASSUME NEW s \in Seq(Messages), NEW e \in Messages
  PROVE  Replies(Append(s, e)) = IF e.type = "NOT_PB" THEN Replies(s) ELSE Append(Replies(s), AnswerTo[e.type])
<1> DEFINE keep == {req \in Messages : req.type # "NOT_PB"}
           pb   == Those(s, keep)
           pbe  == Those(Append(s, e), keep)
           R    == {AnswerTo[m.type] : m \in Messages}
           old  == [i \in DOMAIN pb |-> AnswerTo[pb[i].type]]
           new  == [i \in DOMAIN pbe |-> AnswerTo[pbe[i].type]]
<1>1. pbe = IF e \in keep THEN Append(pb, e) ELSE pb
  BY ThoseAppend
<1>2. pb \in Seq(Messages)
  <2>1. pb \in Seq(Messages \cap keep)
    BY ThoseType
  <2>2. QED BY <2>1, SeqMonotonic
<1>3. Replies(s) = old /\ Replies(Append(s, e)) = new
  BY DEF Replies
<1>4. CASE e.type = "NOT_PB"
  BY <1>1, <1>3, <1>4
<1>5. CASE e.type # "NOT_PB"
  <2>1. pbe = Append(pb, e)
    BY <1>1, <1>5
  <2> HIDE DEF pb, pbe
  <2>2. /\ Len(pb) \in Nat /\ DOMAIN pb = 1 .. Len(pb) /\ DOMAIN pbe = 1 .. Len(pb) + 1
        /\ pbe[Len(pb) + 1] = e /\ \A i \in 1 .. Len(pb) : pbe[i] = pb[i] /\ pb[i] \in Messages
    BY <1>2, <2>1, AppendProperties, LenProperties
  <2>3. old \in Seq(R) /\ Len(old) = Len(pb) /\ \A i \in 1 .. Len(pb) : old[i] = AnswerTo[pb[i].type]
    BY <2>2
  <2>4. new \in Seq(R) /\ Len(new) = Len(pb) + 1 /\ \A i \in 1 .. Len(pb) + 1 : new[i] = AnswerTo[pbe[i].type]
    BY <2>2
  <2>5. AnswerTo[e.type] \in R
    OBVIOUS
  <2> HIDE DEF old, new, R
  <2> DEFINE longer == Append(old, AnswerTo[e.type])
  <2>6. /\ longer \in Seq(R) /\ Len(longer) = Len(pb) + 1 /\ longer[Len(pb) + 1] = AnswerTo[e.type]
        /\ \A i \in 1 .. Len(pb) : longer[i] = old[i]
    BY <2>3, <2>5, AppendProperties
  <2>7. \A i \in 1 .. Len(pb) + 1 : new[i] = longer[i]
    BY <2>2, <2>3, <2>4, <2>6
  <2> HIDE DEF longer
  <2>8. new = longer
    BY <2>4, <2>6, <2>7, SeqEqual
  <2>9. QED BY <1>3, <1>5, <2>8 DEF longer
<1>6. QED BY <1>4, <1>5

\* The first n + 1 elements are the first n and one more.
LEMMA PrefixNext ==
  ASSUME NEW S, NEW s \in Seq(S), NEW n \in Nat, n < Len(s)
  PROVE  SubSeq(s, 1, n) \in Seq(S) /\ s[n + 1] \in S /\ SubSeq(s, 1, n + 1) = Append(SubSeq(s, 1, n), s[n + 1])
<1>1. Len(s) \in Nat /\ \A i \in 1 .. Len(s) : s[i] \in S
  BY LenProperties
<1>2. SubSeq(s, 1, n) \in Seq(S) /\ s[n + 1] \in S
  BY <1>1, SubSeqProperties
<1>3. SubSeq(s, 1, n + 1) = SubSeq(s, 1, (n + 1) - 1) \o <<s[n + 1]>>
  <2>1. 1 \in 1 .. Len(s) /\ n + 1 \in 1 .. Len(s)
    BY <1>1
  <2>2. QED BY <2>1, SubSeqRecursiveSecond
<1>4. (n + 1) - 1 = n
  OBVIOUS
<1>5. QED BY <1>2, <1>3, <1>4, AppendIsConcat

\* The first elements are the same after one is appended.
LEMMA PrefixStays ==
  ASSUME NEW S, NEW s \in Seq(S), NEW e \in S, NEW n \in Nat, n <= Len(s)
  PROVE  SubSeq(Append(s, e), 1, n) = SubSeq(s, 1, n)
<1> DEFINE t == Append(s, e)
<1>1. Len(s) \in Nat /\ t \in Seq(S) /\ Len(t) = Len(s) + 1 /\ \A i \in 1 .. n : t[i] = s[i] /\ s[i] \in S
  BY AppendProperties, LenProperties
<1> HIDE DEF t
<1> DEFINE p == SubSeq(s, 1, n)
           q == SubSeq(t, 1, n)
<1>2. p \in Seq(S) /\ q \in Seq(S) /\ Len(p) = n /\ Len(q) = n /\ \A i \in 1 .. n : p[i] = s[i] /\ q[i] = t[i]
  BY <1>1, SubSeqProperties
<1> HIDE DEF p, q
<1>3. p = q
  BY <1>1, <1>2, SeqEqual
<1>4. QED BY <1>3 DEF p, q, t
\* The answer a worker is about to write to c.
Pending(c) == IF owner[c] # NULL /\ wconn[owner[c]] = c THEN <<wreply[owner[c]]>> ELSE <<>>

\* The answers c has had, and the one under way, are those to what has been read.
InOrder(c) == AnswersOf(c) \o Pending(c) = Owed(c, handled[c])

\* The steps that have to do with requests and answers, while the process is up.
LEMMA TalkSteps ==
  ASSUME [Next]_vars
  PROVE  \/ UNCHANGED <<owner, sent, handled, out, wconn, wreply>>
         \/ \E c \in Conns : \E req \in MessagesOf(c) : Send(c, req)
         \/ \E c \in Conns, a \in Addrs, w \in Workers : Accept(c, a, w)
         \/ StopEnd
         \/ \E c \in Conns : ReadForeign(c) \/ ReadLogin(c) \/ ReadOther(c)
         \/ \E w \in Workers : ReadEnd(w)
  BY DEF Next, vars, NodeStep, HttpStart, MainStep, WorkerStep, Leave, ListBegin, ListVisit,
         ListEnd, StopFails, StopUnknown, StopBegin, HandlerConnect, HandlerFails, SetNodeName, AddNode,
         Flush, ReadFails, WriteFails, ErrorCallBack, workers, output, main, network

\* The process does not come up again.
LEMMA DownForGood == ASSUME [Next]_vars, Running' PROVE Running
  BY DEF Running, Next, vars, NodeStep, HttpStart, MainStep, WorkerStep, Leave, Send, Accept,
         ListBegin, ListVisit, ListEnd, StopFails, StopUnknown, StopBegin, StopEnd,
         HandlerConnect, HandlerFails, ReadForeign, ReadLogin, ReadOther, SetNodeName, AddNode, ReadEnd, Flush,
         ReadFails, WriteFails, CanRead

\* What a write makes of the answers, where no other thread is.
LEMMA WriteAnswers ==
  ASSUME TypeOK, NEW c \in Conns, NEW d \in Conns, ~raced[c], NEW msg \in Answers, LeaveWrite(d, msg)
  PROVE  AnswersOf(c)' = IF c = d /\ msg # "REQ_CLOSE_NODE" THEN Append(AnswersOf(c), msg) ELSE AnswersOf(c)
<1>1. out[c] \in Seq(Answers) /\ out \in [Conns -> Seq(Answers)]
  BY DEF TypeOK
<1>2. CASE c # d
  BY <1>1, <1>2 DEF LeaveWrite, output, AnswersOf
<1>3. CASE c = d
  <2>1. out'[c] = Append(out[c], msg)
    BY <1>1, <1>3 DEF LeaveWrite
  <2>2. QED BY <1>1, <1>3, <2>1, ThoseAppend DEF AnswersOf
<1>4. QED BY <1>2, <1>3

\* What the next request of c makes of what is owed to it.
LEMMA OwedNext ==
  ASSUME Shape, NEW c \in Conns, handled[c] < Len(sent[c])
  PROVE  /\ Arriving(c) \in Messages
         /\ Owed(c, handled[c] + 1) = IF Arriving(c).type = "NOT_PB" THEN Owed(c, handled[c])
                                     ELSE Append(Owed(c, handled[c]), AnswerTo[Arriving(c).type])
<1>1. sent[c] \in Seq(Messages) /\ handled[c] \in Nat
  BY DataFact DEF Shape, TypeOK
<1>2. /\ SubSeq(sent[c], 1, handled[c]) \in Seq(Messages) /\ sent[c][handled[c] + 1] \in Messages
      /\ SubSeq(sent[c], 1, handled[c] + 1) = Append(SubSeq(sent[c], 1, handled[c]), sent[c][handled[c] + 1])
  BY <1>1, PrefixNext
<1>3. QED BY <1>2, RepliesAppend DEF Owed, Arriving

\* Each step keeps the answers in order.
LEMMA AnsweredStep ==
  ASSUME Shape, [Next]_vars, NEW c \in Conns, ~raced[c], Running, InOrder(c) PROVE InOrder(c)'
<1> USE DataFact
<1> DEFINE T == Answers \ {"REQ_CLOSE_NODE"}
<1>1. out[c] \in Seq(Answers) /\ AnswersOf(c) \in Seq(T)
  <2>1. out[c] \in Seq(Answers)
    BY DEF Shape, TypeOK
  <2>2. AnswersOf(c) \in Seq(Answers \cap T)
    BY <2>1, ThoseType DEF AnswersOf
  <2>3. Answers \cap T = T
    OBVIOUS
  <2>4. QED BY <2>1, <2>2, <2>3
<1> HIDE DEF T
<1>2. CASE UNCHANGED <<owner, sent, handled, out, wconn, wreply>>
  BY <1>2 DEF InOrder, Pending, AnswersOf, Owed
<1>3. ASSUME NEW d \in Conns, NEW req \in MessagesOf(d), Send(d, req) PROVE InOrder(c)'
  <2>1. SubSeq(sent'[c], 1, handled[c]) = SubSeq(sent[c], 1, handled[c])
    <3>1. sent[c] \in Seq(Messages) /\ req \in Messages /\ handled[c] \in Nat /\ handled[c] <= Len(sent[c])
      BY MessageFact DEF Shape, TypeOK, Within
    <3>2. SubSeq(Append(sent[c], req), 1, handled[c]) = SubSeq(sent[c], 1, handled[c])
      BY <3>1, PrefixStays
    <3>3. sent'[c] = IF c = d THEN Append(sent[c], req) ELSE sent[c]
      BY <1>3 DEF Shape, TypeOK, Send
    <3>4. QED BY <3>2, <3>3
  <2>2. UNCHANGED <<owner, handled, out, wconn, wreply>>
    BY <1>3 DEF Send, output, workers
  <2>3. QED BY <2>1, <2>2 DEF InOrder, Pending, AnswersOf, Owed
<1>4. ASSUME NEW d \in Conns, NEW a \in Addrs, NEW w \in Workers, Accept(d, a, w) PROVE InOrder(c)'
  <2>1. UNCHANGED <<sent, handled, out, wconn, wreply>>
    BY <1>4 DEF Accept, output, workers
  <2>2. Pending(c)' = Pending(c)
    <3>1. CASE c # d
      BY <1>4, <2>1, <3>1 DEF Shape, TypeOK, Accept, Pending
    <3>2. CASE c = d
      <4>1. owner[c] = NULL
        BY <1>4, <3>2 DEF Shape, Placed, Accept
      <4>2. ASSUME NEW v \in Workers, wconn[v] = c PROVE FALSE
        <5>1. owner[c] = v
          BY <4>2 DEF Shape, Serving
        <5>2. QED BY <4>1, <5>1
      <4>3. owner'[c] = w
        BY <1>4, <3>2 DEF Shape, TypeOK, Accept
      <4>4. QED BY <2>1, <4>1, <4>2, <4>3 DEF Pending
    <3>3. QED BY <3>1, <3>2
  <2>3. QED BY <2>1, <2>2 DEF InOrder, AnswersOf, Owed
<1>5. CASE StopEnd
  <2>1. mconn \in Conns /\ LeaveWrite(mconn, "REQ_CLOSE_NODE")
    BY <1>5 DEF Shape, Registry, StopEnd
  <2>2. AnswersOf(c)' = AnswersOf(c)
    BY <2>1, WriteAnswers, AnswerFact DEF Shape
  <2>3. UNCHANGED <<owner, sent, handled, wconn, wreply>>
    BY <1>5 DEF StopEnd, network, workers
  <2>4. QED BY <2>2, <2>3 DEF InOrder, Pending, Owed
<1>6. ASSUME NEW d \in Conns, ReadForeign(d) PROVE InOrder(c)'
  <2>1. UNCHANGED <<owner, sent, out, wconn, wreply>>
    BY <1>6 DEF ReadForeign, output, workers
  <2>2. Owed(c, handled[c])' = Owed(c, handled[c])
    <3>1. CASE c # d
      BY <1>6, <2>1, <3>1 DEF Shape, TypeOK, ReadForeign, Owed
    <3>2. CASE c = d
      <4>1. handled[c] < Len(sent[c]) /\ Arriving(c).type = "NOT_PB" /\ handled'[c] = handled[c] + 1
        BY <1>6, <3>2 DEF Shape, TypeOK, ReadForeign, CanRead
      <4>2. Owed(c, handled[c] + 1) = Owed(c, handled[c])
        BY <4>1, OwedNext
      <4>3. QED BY <2>1, <4>1, <4>2 DEF Owed
    <3>3. QED BY <3>1, <3>2
  <2>3. QED BY <2>1, <2>2 DEF InOrder, Pending, AnswersOf
<1>7. ASSUME NEW d \in Conns, ReadLogin(d) \/ ReadOther(d) PROVE InOrder(c)'
  <2>1. UNCHANGED <<owner, sent, out>>
    BY <1>7 DEF ReadLogin, ReadOther, output
  <2>2. /\ owner[d] \in Workers /\ wpc[owner[d]] = "idle" /\ handled[d] < Len(sent[d])
        /\ Arriving(d).type \in {"REQ_NODE_LOGIN", "REQ_HEART_BEAT", "UNKNOWN"}
        /\ wconn' = [wconn EXCEPT ![owner[d]] = d] /\ wreply'[owner[d]] = AnswerTo[Arriving(d).type]
        /\ handled' = [handled EXCEPT ![d] = @ + 1]
        /\ \A v \in Workers \ {owner[d]} : wreply'[v] = wreply[v]
    BY <1>7 DEF Shape, TypeOK, ReadLogin, ReadOther, CanRead, Idle
  <2>3. wconn[owner[d]] = NULL
    BY <2>2 DEF Shape, Serving
  <2>4. CASE c # d
    <3>1. Pending(c)' = Pending(c)
      BY <2>1, <2>2, <2>3, <2>4 DEF Shape, TypeOK, Pending
    <3>2. handled'[c] = handled[c]
      BY <2>2, <2>4 DEF Shape, TypeOK
    <3>3. QED BY <2>1, <3>1, <3>2 DEF InOrder, AnswersOf, Owed
  <2>5. CASE c = d
    <3>1. handled'[c] = handled[c] + 1
      BY <2>2, <2>5 DEF Shape, TypeOK
    <3>2. Owed(c, handled[c] + 1) = Append(Owed(c, handled[c]), AnswerTo[Arriving(c).type])
      BY <2>2, <2>5, OwedNext
    <3>3. Pending(c) = <<>> /\ Pending(c)' = <<AnswerTo[Arriving(c).type]>>
      <4>1. owner[c] # NULL /\ wconn[owner[c]] # c /\ wconn'[owner[c]] = c
        BY <2>2, <2>3, <2>5 DEF Shape, TypeOK
      <4>2. QED BY <2>1, <2>2, <2>5, <4>1 DEF Pending
    <3>4. AnswersOf(c) \o <<>> = AnswersOf(c)
      BY <1>1, ConcatEmptySeq
    <3>5. Append(AnswersOf(c), AnswerTo[Arriving(c).type]) = AnswersOf(c) \o <<AnswerTo[Arriving(c).type]>>
      <4>1. AnswerTo[Arriving(c).type] \in T
        BY <2>2, <2>5, AnswerFact DEF T
      <4>2. QED BY <1>1, <4>1, AppendIsConcat
    <3>6. AnswersOf(c)' = AnswersOf(c) /\ Owed(c, handled[c])' = Owed(c, handled[c] + 1)
      BY <2>1, <3>1 DEF AnswersOf, Owed
    <3>7. QED BY <3>2, <3>3, <3>4, <3>5, <3>6 DEF InOrder
  <2>6. QED BY <2>4, <2>5
<1>8. ASSUME NEW w \in Workers, ReadEnd(w) PROVE InOrder(c)'
  <2>1. UNCHANGED <<owner, sent, handled>>
    BY <1>8 DEF ReadEnd, network
  <2>2. wconn[w] \in Conns /\ owner[wconn[w]] = w /\ wreply[w] \in T /\ T \subseteq Answers
    BY <1>8 DEF Shape, Serving, ReadEnd, T
  <2>3. AnswersOf(c)' = IF c = wconn[w] THEN Append(AnswersOf(c), wreply[w]) ELSE AnswersOf(c)
    <3>1. PICK d \in Conns, msg \in Answers : d = wconn[w] /\ msg = wreply[w] /\ LeaveWrite(d, msg)
      BY <1>8, <2>2 DEF ReadEnd
    <3>2. msg # "REQ_CLOSE_NODE"
      BY <2>2, <3>1 DEF T
    <3>3. QED BY <3>1, <3>2, WriteAnswers DEF Shape
  <2>4. CASE c = wconn[w]
    <3>1. Pending(c) = <<wreply[w]>>
      BY <2>2, <2>4 DEF Pending
    <3>2. Pending(c)' = <<>>
      <4>1. owner'[c] = w /\ wconn'[w] = NULL
        BY <1>8, <2>1, <2>2, <2>4 DEF Shape, TypeOK, ReadEnd
      <4>2. QED BY <4>1 DEF Pending
    <3>3. AnswersOf(c)' = Append(AnswersOf(c), wreply[w])
      BY <2>3, <2>4
    <3>4. Append(AnswersOf(c), wreply[w]) = AnswersOf(c) \o <<wreply[w]>>
      BY <1>1, <2>2, AppendIsConcat
    <3>5. Append(AnswersOf(c), wreply[w]) \o <<>> = Append(AnswersOf(c), wreply[w])
      <4>1. Append(AnswersOf(c), wreply[w]) \in Seq(T)
        BY <1>1, <2>2, AppendProperties
      <4>2. QED BY <4>1, ConcatEmptySeq
    <3>6. QED BY <2>1, <3>1, <3>2, <3>3, <3>4, <3>5 DEF InOrder, Owed
  <2>5. CASE c # wconn[w]
    <3>1. Pending(c)' = Pending(c)
      BY <1>8, <2>1, <2>2, <2>5 DEF Shape, TypeOK, Pending, ReadEnd
    <3>2. QED BY <2>1, <2>3, <2>5, <3>1 DEF InOrder, Owed
  <2>6. QED BY <2>4, <2>5
<1>9. QED BY <1>2, <1>3, <1>4, <1>5, <1>6, <1>7, <1>8, TalkSteps

\* A node receives one answer for each protobuf request it sent, in the order of the
\* requests, with requests to close it in between, however the workers, the nodes and
\* the HTTP handlers interleave, unless two threads were in its bufferevent.
THEOREM AnswersKeptInOrder == Spec => []AnswersInOrder
<1>1. AnswersInOrder <=> \A c \in Conns : ~raced[c] /\ Running => InOrder(c)
  BY DEF AnswersInOrder, InOrder, Pending
<1>2. AnswersInOrder' <=> \A c \in Conns : ~raced'[c] /\ Running' => InOrder(c)'
  BY DEF AnswersInOrder, InOrder, Pending
<1>3. Init => AnswersInOrder
  <2> SUFFICES ASSUME Init, NEW c \in Conns PROVE InOrder(c)
    BY <1>1
  <2>1. Pending(c) = <<>> /\ AnswersOf(c) = <<>>
    BY ThoseEmpty DEF Init, Pending, AnswersOf
  <2>2. SubSeq(sent[c], 1, handled[c]) = <<>>
    BY SubSeqEmpty DEF Init
  <2>3. Owed(c, handled[c]) = <<>>
    BY <2>2, RepliesEmpty DEF Owed
  <2>4. <<>> \o <<>> = <<>>
    BY ConcatEmptySeq, EmptySeq
  <2>5. QED BY <2>1, <2>3, <2>4 DEF InOrder
<1>4. Shape /\ AnswersInOrder /\ [Next]_vars => AnswersInOrder'
  <2> SUFFICES ASSUME Shape, AnswersInOrder, [Next]_vars, NEW c \in Conns, ~raced'[c], Running' PROVE InOrder(c)'
    BY <1>2
  <2>1. ~raced[c] /\ Running
    BY RacedForGood, DownForGood
  <2>2. InOrder(c)
    BY <1>1, <2>1
  <2>3. QED BY <2>1, <2>2, AnsweredStep
<1>5. QED BY <1>3, <1>4, ShapeAlways, PTL DEF Spec
-----------------------------------------------------------------------------
(***************************************************************************)
(* The directory.                                                          *)
(***************************************************************************)

\* Appending adds one element.
LEMMA RangeAppend ==
  ASSUME NEW S, NEW s \in Seq(S), NEW e \in S PROVE Range(Append(s, e)) = Range(s) \cup {e}
<1>1. /\ Len(s) \in Nat /\ DOMAIN s = 1 .. Len(s)
      /\ DOMAIN Append(s, e) = 1 .. Len(s) + 1 /\ Append(s, e)[Len(s) + 1] = e
      /\ \A i \in 1 .. Len(s) : Append(s, e)[i] = s[i]
  BY AppendProperties, LenProperties
<1>2. QED BY <1>1 DEF Range

\* The requests to close that a write makes.
LEMMA WriteTold ==
  ASSUME TypeOK, NEW d \in Conns, NEW msg \in Answers, LeaveWrite(d, msg)
  PROVE  \/ Told' = Told
         \/ Told' = Told \cup {d} /\ msg = "REQ_CLOSE_NODE"
<1>1. out[d] \in Seq(Answers) /\ out \in [Conns -> Seq(Answers)]
  BY DEF TypeOK
<1>2. CASE out' = [out EXCEPT ![d] = Append(@, msg)]
  <2>1. Range(Append(out[d], msg)) = Range(out[d]) \cup {msg}
    BY <1>1, RangeAppend
  <2>2. \A c \in Conns : Range(out'[c]) = IF c = d THEN Range(out[d]) \cup {msg} ELSE Range(out[c])
    BY <1>1, <1>2, <2>1
  <2>3. QED BY <2>2 DEF Told
<1>3. CASE out' = out
  BY <1>3 DEF Told
<1>4. QED BY <1>2, <1>3 DEF LeaveWrite, output

\* A node whose login AddNode is about to enter has the name of that login.
Named == NoneGone => \A w \in Workers : wpc[w] = "login" => name[addr[wconn[w]]] = NodeInfo(w).strName

\* Named is kept by every step.
LEMMA NamedStep == Shape /\ Healthy /\ Named /\ [Next]_vars => Named'
<1> SUFFICES ASSUME Shape, Healthy, Named, [Next]_vars, NoneGone', NEW w \in Workers, wpc'[w] = "login"
             PROVE  name'[addr'[wconn'[w]]] = NodeInfo(w)'.strName
  BY DEF Named
<1> USE DataFact
<1>0. NoneGone
  BY GoneForGood
<1>1. CASE wpc[w] = "login" /\ wconn'[w] = wconn[w]
  <2>1. PICK c \in Conns : c = wconn[w] /\ Living(c)
    BY <1>0, <1>1 DEF Shape, Serving, Healthy
  <2>2. NodeInfo(w)' = NodeInfo(w)
    BY <1>1, InfoStays
  <2>3. name[addr[c]] = NodeInfo(w).strName
    BY <1>0, <1>1, <2>1 DEF Named
  <2>4. addr'[c] = addr[c]
    BY <1>0, <2>1, LivingStays
  <2>5. ASSUME NEW v \in Workers, SetNodeName(v), wconn[v] = c PROVE FALSE
    <3>1. owner[c] = v /\ wpc[v] = "naming"
      BY <2>5 DEF Shape, Serving, SetNodeName
    <3>2. owner[c] = w
      BY <1>1, <2>1 DEF Shape, Serving
    <3>3. QED BY <1>1, <3>1, <3>2
  <2>6. name'[addr[c]] = name[addr[c]]
    BY <1>0, <2>1, <2>5, LivingStays
  <2>7. QED BY <1>1, <2>1, <2>2, <2>3, <2>4, <2>6
<1>2. CASE SetNodeName(w)
  <2>1. PICK c \in Conns : c = wconn[w] /\ Living(c)
    BY <1>0, <1>2 DEF Shape, Serving, Healthy, SetNodeName
  <2>2. addr[c] \in Addrs /\ UNCHANGED <<addr, wconn, sent, handled>> /\ name'[addr[c]] = NodeInfo(w).strName
    BY <1>2, <2>1 DEF Shape, TypeOK, Living, SetNodeName, network
  <2>3. NodeInfo(w)' = NodeInfo(w)
    BY <2>2 DEF NodeInfo
  <2>4. QED BY <2>1, <2>2, <2>3
<1>3. ASSUME \/ AddNode(w) \/ ReadEnd(w)
             \/ \E c \in Conns : (ReadLogin(c) \/ ReadOther(c)) /\ w = owner[c]
      PROVE  FALSE
  BY <1>3 DEF Shape, TypeOK, AddNode, ReadEnd, ReadLogin, ReadOther
<1>4. QED BY <1>0, <1>1, <1>2, <1>3, WorkerSteps

\* So it always holds.
LEMMA NamedAlways == Spec => []Named
<1>1. Init => Named
  BY DEF Init, Named
<1>2. QED BY <1>1, ShapeAlways, HealthyAlways, NamedStep, PTL DEF Spec

\* What the directory shows.
LEMMA DirIs ==
  /\ DOMAIN Dir = {ip \in Ips : map[ip] # NULL}
  /\ \A ip \in DOMAIN Dir : /\ Dir[ip] = [node |-> heap[map[ip]], name |-> name[map[ip]]]
                            /\ Dir[ip].node = heap[map[ip]] /\ Dir[ip].name = name[map[ip]]
  BY DEF Dir

\* SetNodeName gives a node its name wherever it is listed.
LEMMA NameStep ==
  ASSUME Shape, Healthy, NoneGone, NEW w \in Workers, SetNodeName(w), [Next]_vars PROVE D!Next
<1>1. PICK c \in Conns : c = wconn[w] /\ Living(c)
  BY DEF Shape, Serving, Healthy, SetNodeName
<1>2. PICK n \in Names : n = NodeInfo(w).strName
  BY InfoFact DEF Shape, SetNodeName
<1>3. /\ addr[c] \in Addrs /\ name' = [name EXCEPT ![addr[c]] = n] /\ name \in [Addrs -> Names \cup {NULL}]
      /\ UNCHANGED <<map, heap, out, listing>>
  BY <1>1, <1>2, DataFact DEF Shape, TypeOK, Living, SetNodeName, output, main
<1>4. ASSUME NEW ip \in Ips, map[ip] # NULL
      PROVE  /\ map[ip] \in Addrs
             /\ heap[map[ip]] = c <=> map[ip] = addr[c]
  <2>1. PICK d \in Conns : addr[d] = map[ip] /\ heap[map[ip]] = d
    BY <1>4, Listed
  <2>2. heap[addr[c]] = c
    BY <1>1 DEF Living
  <2>3. QED BY <1>4, <2>1, <2>2, Listed
<1>5. Dir' = [ip \in DOMAIN Dir |-> IF Dir[ip].node = c THEN [node |-> c, name |-> n] ELSE Dir[ip]]
  <2>1. Dir' = [ip \in {i \in Ips : map[i] # NULL} |-> [node |-> heap[map[ip]], name |-> name'[map[ip]]]]
    BY <1>3 DEF Dir
  <2>2. ASSUME NEW ip \in Ips, map[ip] # NULL
        PROVE  [node |-> heap[map[ip]], name |-> name'[map[ip]]]
                 = IF Dir[ip].node = c THEN [node |-> c, name |-> n] ELSE Dir[ip]
    <3>1. Dir[ip] = [node |-> heap[map[ip]], name |-> name[map[ip]]] /\ Dir[ip].node = heap[map[ip]]
      BY <2>2, DirIs
    <3>2. name'[map[ip]] = IF heap[map[ip]] = c THEN n ELSE name[map[ip]]
      BY <1>3, <1>4, <2>2
    <3>3. QED BY <3>1, <3>2
  <2>3. DOMAIN Dir = {i \in Ips : map[i] # NULL}
    BY DirIs
  <2>4. QED BY <2>1, <2>2, <2>3
<1>6. D!Name(c, n)
  BY <1>3, <1>5 DEF D!Name, D!Listed, Told
<1>7. QED BY <1>2, <1>6 DEF D!Next

\* AddNode lists a node.
LEMMA LoginStep ==
  ASSUME Shape, Healthy, Named, NoneGone, NEW w \in Workers, AddNode(w), [Next]_vars PROVE D!Next
<1>1. PICK c \in Conns : c = wconn[w] /\ Living(c)
  BY DEF Shape, Serving, Healthy, AddNode
<1>2. PICK ip \in Ips, n \in Names : ip = NodeInfo(w).strIp /\ n = NodeInfo(w).strName
  BY InfoFact DEF Shape, AddNode
<1>3. name[addr[c]] = n
  BY <1>1, <1>2 DEF Named, AddNode
<1>4. /\ map' = [map EXCEPT ![ip] = addr[c]] /\ addr[c] # NULL /\ heap[addr[c]] = c /\ map \in [Ips -> Addrs \cup {NULL}]
      /\ UNCHANGED <<heap, name, out, listing>>
  BY <1>1, <1>2 DEF Shape, TypeOK, AddNode, Living, objects, output, main
<1>5. Dir' = [i \in DOMAIN Dir \cup {ip} |-> IF i = ip THEN [node |-> c, name |-> n] ELSE Dir[i]]
  <2>1. {i \in Ips : map'[i] # NULL} = DOMAIN Dir \cup {ip}
    BY <1>4, DirIs
  <2>2. Dir' = [i \in DOMAIN Dir \cup {ip} |-> [node |-> heap[map'[i]], name |-> name[map'[i]]]]
    BY <1>4, <2>1 DEF Dir
  <2>3. ASSUME NEW i \in DOMAIN Dir \cup {ip}
        PROVE  [node |-> heap[map'[i]], name |-> name[map'[i]]] = IF i = ip THEN [node |-> c, name |-> n] ELSE Dir[i]
    <3>1. CASE i = ip
      BY <1>3, <1>4, <3>1
    <3>2. CASE i # ip
      BY <1>4, <3>2, DirIs
    <3>3. QED BY <3>1, <3>2
  <2>4. QED BY <2>2, <2>3
<1>6. D!Login(c, ip, n)
  BY <1>4, <1>5 DEF D!Login, D!Listed, Told
<1>7. QED BY <1>2, <1>6 DEF D!Next

\* Every step is one of the directory, or none, unless a listed node is being given
\* another name.
LEMMA DirectoryStep ==
  Shape /\ Healthy /\ Handlers /\ Named /\ NoneGone /\ [Next]_vars
    => [D!Next \/ (renamed /\ UNCHANGED <<Dir, Told>>)]_<<Dir, listing, Told>>
<1> SUFFICES ASSUME Shape, Healthy, Handlers, Named, NoneGone, [Next]_vars
             PROVE  D!Next \/ (renamed /\ Dir' = Dir /\ Told' = Told) \/ (Dir' = Dir /\ listing' = listing /\ Told' = Told)
  OBVIOUS
<1> USE DataFact
<1>1. ASSUME UNCHANGED map, \A w \in Workers : ~SetNodeName(w) PROVE Dir' = Dir
  <2>1. ASSUME NEW ip \in Ips, map[ip] # NULL PROVE heap'[map[ip]] = heap[map[ip]] /\ name'[map[ip]] = name[map[ip]]
    <3>1. PICK c \in Conns : Living(c) /\ addr[c] = map[ip] /\ heap[map[ip]] = c
      BY <2>1, Listed
    <3>2. name'[addr[c]] = name[addr[c]]
      BY <1>1, <3>1, LivingStays
    <3>3. QED BY <2>1, <3>1, <3>2, EntryStays
  <2>2. QED BY <1>1, <2>1 DEF Dir
<1>2. CASE UNCHANGED <<out, map, listing>> /\ \A w \in Workers : ~SetNodeName(w)
  BY <1>1, <1>2 DEF Told
<1>3. CASE StopEnd
  <2>1. /\ mconn \in Conns /\ LeaveWrite(mconn, "REQ_CLOSE_NODE") /\ UNCHANGED <<map, heap, name, listing>>
    BY <1>3 DEF Shape, Registry, StopEnd, objects
  <2>2. PICK ip \in Ips : map[ip] # NULL /\ heap[map[ip]] = mconn
    BY <1>3 DEF Handlers, StopEnd
  <2>3. ip \in DOMAIN Dir /\ Dir[ip].node = mconn
    BY <2>2, DirIs
  <2>4. Told' = Told \/ Told' = Told \cup {Dir[ip].node}
    BY <2>1, <2>3, WriteTold, AnswerFact DEF Shape
  <2>5. Dir' = Dir
    BY <2>1 DEF Dir
  <2>6. Told' = Told \cup {Dir[ip].node} => D!StopNode(ip)
    BY <2>1, <2>3, <2>5 DEF D!StopNode, D!Listed
  <2>7. QED BY <2>1, <2>4, <2>5, <2>6 DEF D!Next
<1>4. ASSUME NEW w \in Workers, ReadEnd(w) PROVE Dir' = Dir /\ listing' = listing /\ Told' = Told
  <2>1. /\ wconn[w] \in Conns /\ wreply[w] \in Answers \ {"REQ_CLOSE_NODE"}
        /\ LeaveWrite(wconn[w], wreply[w]) /\ UNCHANGED <<map, heap, name, listing>>
    BY <1>4 DEF Shape, Serving, ReadEnd, main, objects
  <2>2. Told' = Told
    BY <2>1, WriteTold DEF Shape
  <2>3. QED BY <2>1, <2>2 DEF Dir
<1>5. CASE ListEnd
  <2>1. mpc = "listing" /\ todo = {} /\ UNCHANGED <<map, heap, name, out>>
    BY <1>5 DEF ListEnd, objects, output
  <2>2. Dir' = Dir /\ Told' = Told
    BY <2>1 DEF Dir, Told
  <2>3. CASE renamed
    BY <2>2, <2>3
  <2>4. CASE ~renamed
    <3>1. seen = {<<ip, name[map[ip]]>> : ip \in {i \in Ips : map[i] # NULL}}
      BY <2>1, <2>4 DEF Handlers
    <3>2. seen = {<<ip, Dir[ip].name>> : ip \in DOMAIN Dir}
      <4>1. DOMAIN Dir = {i \in Ips : map[i] # NULL} /\ \A ip \in DOMAIN Dir : Dir[ip].name = name[map[ip]]
        BY DirIs
      <4>2. \A e : e \in seen <=> \E ip \in DOMAIN Dir : e = <<ip, name[map[ip]]>>
        BY <3>1, <4>1
      <4>3. \A e : e \in seen <=> \E ip \in DOMAIN Dir : e = <<ip, Dir[ip].name>>
        BY <4>1, <4>2
      <4>4. QED BY <4>3
    <3>3. CASE listing' = seen
      BY <2>2, <3>2, <3>3 DEF D!GetAllNodes, D!Listed, D!Next
    <3>4. CASE ActsAsFormat(seen) /\ listing' = NULL
      <4>1. \E ip \in DOMAIN Dir : ip \in Formats \/ Dir[ip].name \in Formats
        BY <3>2, <3>4 DEF ActsAsFormat
      <4>2. QED BY <2>2, <3>4, <4>1 DEF D!GetAllNodes, D!Listed, D!Next
    <3>5. QED BY <1>5, <3>3, <3>4 DEF ListEnd
  <2>5. QED BY <2>3, <2>4
<1>6. \/ UNCHANGED <<out, map, listing>> /\ \A w \in Workers : ~SetNodeName(w)
      \/ StopEnd \/ ListEnd
      \/ \E w \in Workers : SetNodeName(w) \/ AddNode(w) \/ ReadEnd(w)
  BY DEF Next, vars, NodeStep, HttpStart, MainStep, WorkerStep, Leave, Send, Accept, ListBegin,
         ListVisit, StopFails, StopUnknown, StopBegin, HandlerConnect, HandlerFails, ReadForeign,
         ReadLogin, ReadOther, Flush, ReadFails, WriteFails, ErrorCallBack, output, main
<1>7. QED BY <1>2, <1>3, <1>4, <1>5, <1>6, NameStep, LoginStep

\* While no node goes, the server implements the directory: the last login of an ip is
\* listed under it, with the last name its node logged in under; a listing is the
\* registry at one moment, although GetAllNode reads it entry by entry beside the
\* workers, unless a listed node is being given another name meanwhile; and StopNode
\* reaches the listed node.
THEOREM ServerImplementsDirectory == Spec => ImplementsDirectory
<1>1. Init => D!Init
  <2> SUFFICES ASSUME Init PROVE D!Init
    OBVIOUS
  <2>1. \A c \in Conns : Range(out[c]) = {}
    BY DEF Init, Range
  <2>2. Told = {} /\ listing = {}
    BY <2>1 DEF Init, Told
  <2>3. Dir = [ip \in {} |-> NULL]
    <3>1. DOMAIN Dir = {}
      BY DirIs DEF Init
    <3>2. QED BY <3>1 DEF Dir
  <2>4. QED BY <2>2, <2>3 DEF D!Init
<1>2. Shape /\ Healthy /\ Handlers /\ Named /\ [Next]_vars
        => [\/ D!Next
            \/ renamed /\ UNCHANGED <<Dir, Told>>
            \/ \E c \in Conns : peer[c] = "gone"]_<<Dir, listing, Told>>
  BY DirectoryStep DEF NoneGone
<1>3. QED BY <1>1, <1>2, ShapeAlways, HealthyAlways, HandlersAlways, NamedAlways, PTL
          DEF Spec, ImplementsDirectory
==============================================================================
