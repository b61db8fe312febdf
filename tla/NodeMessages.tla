----------------------------- MODULE NodeMessages -----------------------------
(***************************************************************************)
(* The messages of serdmessage (serverDiscover/message.pb.cpp), as protoc  *)
(* made them of message.proto, and what the protobuf library does for      *)
(* them: the bytes a message is sent as, and how it is read.               *)
(*                                                                         *)
(* The four classes differ in their fields only, so that one set of        *)
(* operators, that of ReqNodeLogin, serves all of them.  A schema maps the *)
(* number of a field to its type; a message has a value for each of its    *)
(* fields, and keeps the fields that it does not know.                     *)
(*                                                                         *)
(* Strings are sequences of bytes.  Integers are scaled down: there are    *)
(* Int32s numbers of type int32, and Varints numbers in a varint.  A group *)
(* is not read.                                                            *)
(***************************************************************************)
EXTENDS Integers, Sequences, SequencesExt

CONSTANTS
  Int32s, Varints,   \* 2^32 and 2^64 in the code
  Strings, Numbers,  \* the values that fields are given
  Arrivals           \* what arrives, beside what these classes write

Octet == 0 .. 255

\* A string is bytes, as many as a varint can say.
IsString(s) == s \in Seq(Octet) /\ Len(s) < Varints
IsInt32(n)  == n \in -(Int32s \div 2) .. Int32s \div 2 - 1

ASSUME VarintAssumption ==
  /\ Int32s \in Nat /\ Varints \in Nat /\ 128 <= Int32s /\ Int32s <= Varints
  /\ Int32s % 2 = 0 /\ Varints % Int32s = 0

ASSUME MessageAssumption ==
  /\ \A s \in Strings : IsString(s)
  /\ \A n \in Numbers : IsInt32(n)
  /\ \A b \in Arrivals : b \in Seq(Octet)

VARIABLES
  class,    \* the schema of the messages below
  mine,     \* a message
  theirs    \* another one

messageVars == <<class, mine, theirs>>

ReqHeartBeat  == <<>>
RespHeartBeat == <<>>
ReqNodeLogin  == <<"string", "int32", "string", "string">>
RespNodeLogin == <<"int32">>

Default(type) == IF type = "string" THEN <<>> ELSE 0

-----------------------------------------------------------------------------
(* The wire format *)

\* The two's complement of n among so many numbers, and the number it stands for.
Unsigned(n, many) == IF n < 0 THEN n + many ELSE n
Signed(n, many)   == LET cut == n % many IN IF 2 * cut >= many THEN cut - many ELSE cut

\* Seven bits to a byte, the lowest first; the last byte is below 128.
Varint(n) ==
  LET varint[k \in 0 .. Varints - 1] ==
        IF k < 128 THEN <<k>> ELSE <<128 + (k % 128)>> \o varint[k \div 128]
  IN  varint[n]

VarintBytes == Len(Varint(Varints - 1))

NotRead == [ok |-> FALSE, v |-> 0, at |-> 0]
Read(v, at) == [ok |-> TRUE, v |-> v, at |-> at]

\* What seven bits of each byte make, from i to the last one.
Sevens(b, i, last) ==
  LET value[k \in 1 .. last + 1] ==
        IF k = last + 1 THEN 0 ELSE 128 * value[k + 1] + (b[k] % 128)
  IN  value[i]

\* The varint at position i, if it ends within its length and the bytes.
ReadVarint(b, i) ==
  LET ends == {k \in i .. i + VarintBytes - 1 : k <= Len(b) /\ b[k] < 128}
      last == CHOOSE k \in ends : \A j \in ends : k <= j
  IN  IF ends = {} THEN NotRead ELSE Read(Sevens(b, i, last) % Varints, last + 1)

\* A length and as many bytes.
ReadBytes(b, i) ==
  LET length == ReadVarint(b, i)
  IN  IF length.ok /\ length.at + length.v - 1 <= Len(b)
      THEN Read(SubSeq(b, length.at, length.at + length.v - 1), length.at + length.v)
      ELSE NotRead

Take(b, i, n) == IF i + n - 1 <= Len(b) THEN Read(SubSeq(b, i, i + n - 1), i + n) ELSE NotRead

\* The values of a field by the three low bits of its tag.
ReadField(b, i, wire) ==
  CASE wire = 0 -> ReadVarint(b, i)
    [] wire = 1 -> Take(b, i, 8)
    [] wire = 2 -> ReadBytes(b, i)
    [] wire = 5 -> Take(b, i, 4)
    [] OTHER    -> NotRead

WriteField(wire, v) ==
  CASE wire = 0      -> Varint(v)
    [] wire = 2      -> Varint(Len(v)) \o v
    [] wire \in {1, 5} -> v

Wire(type)   == IF type = "string" THEN 2 ELSE 0
Tag(n, wire) == 8 * n + wire

\* VerifyUTF8: sequences for the scalar values of Unicode, in their shortest form.
IsUTF8(s) ==
  LET Second(first) == CASE first = 224 -> 160 .. 191 [] first = 237 -> 128 .. 159
                         [] first = 240 -> 144 .. 191 [] first = 244 -> 128 .. 143 [] OTHER -> 128 .. 191
      from[i \in 1 .. Len(s) + 1] ==
        \/ \A k \in i .. Len(s) : s[k] < 128
        \/ i <= Len(s) /\ \E n \in 1 .. 4 :
             /\ s[i] \in <<0 .. 127, 194 .. 223, 224 .. 239, 240 .. 244>>[n]
             /\ i + n - 1 <= Len(s)
             /\ \A k \in 1 .. n - 1 : s[i + k] \in IF k = 1 THEN Second(s[i]) ELSE 128 .. 191
             /\ from[i + n]
  IN  from[1]

-----------------------------------------------------------------------------
(* The messages *)

\* The constructor.
New(schema) == [field |-> [n \in DOMAIN schema |-> Default(schema[n])], unknown |-> <<>>]

\* set_port, set_ip, ...
Set(m, n, v) == [m EXCEPT !.field[n] = v]

IsSet(schema, m, n) == m.field[n] # Default(schema[n])

\* Mutation of Int32: a negative number with the bits of an int32.
Int32Short(n) == Unsigned(n, Int32s)

\* A negative number goes out with all the bits of a varint.
Int32(n) == Unsigned(n, Varints)

\* A field as it is sent: a tag, and the value by the type of the tag.
Field(schema, m, n) ==
  [tag |-> Tag(n, Wire(schema[n])), v |-> IF schema[n] = "string" THEN m.field[n] ELSE Int32(m.field[n])]

\* The fields that are set, by their numbers, and then the unknown ones.
Sent(schema, m) ==
  FlattenSeq([n \in DOMAIN schema |-> IF IsSet(schema, m, n) THEN <<Field(schema, m, n)>> ELSE <<>>])
    \o m.unknown

FieldBytes(f) == Varint(f.tag) \o WriteField(f.tag % 8, f.v)

Written(fields) == FlattenSeq([k \in DOMAIN fields |-> FieldBytes(fields[k])])

\* _InternalSerialize.
Serialize(schema, m) == Written(Sent(schema, m))

\* One byte for each seven bits.
VarintSize(n) ==
  LET size[k \in 0 .. Varints - 1] == IF k < 128 THEN 1 ELSE 1 + size[k \div 128] IN size[n]

Total(sizes) ==
  LET sum[k \in 0 .. Len(sizes)] == IF k = 0 THEN 0 ELSE sum[k - 1] + sizes[k] IN sum[Len(sizes)]

\* ByteSizeLong: one byte for each tag, and what the values take.
ByteSizeLong(schema, m) ==
  LET Size1(n) == IF schema[n] = "string" THEN 1 + VarintSize(Len(m.field[n])) + Len(m.field[n])
                  ELSE 1 + VarintSize(Unsigned(m.field[n], Varints))
  IN  Total([n \in DOMAIN schema |-> IF IsSet(schema, m, n) THEN Size1(n) ELSE 0])
        + Total([k \in DOMAIN m.unknown |-> Len(FieldBytes(m.unknown[k]))])

\* MergeFrom: what is set in the other message.
MergeFrom(schema, m, from) ==
  [field   |-> [n \in DOMAIN m.field |-> IF IsSet(schema, from, n) THEN from.field[n] ELSE m.field[n]],
   unknown |-> m.unknown \o from.unknown]

Clear(schema, m) == New(schema)

CopyFrom(schema, m, from) == MergeFrom(schema, Clear(schema, m), from)

\* One field into the message: a known one of the type it has, or one that is kept.
\* What a string that is cut off leaves behind is left out: the field stays as it was.
ParsedField(schema, m, tag, value) ==
  LET n == tag \div 8
  IN  IF n \in DOMAIN schema /\ tag % 8 = Wire(schema[n])
      THEN Set(m, n, IF schema[n] = "string" THEN value ELSE Signed(value, Int32s))
      ELSE [m EXCEPT !.unknown = Append(@, [tag |-> tag, v |-> value])]

\* What has been read, and where what follows is.
Reached(m, at) == [m |-> m, at |-> at, ok |-> FALSE, ended |-> FALSE]

\* _InternalParse reads one field more, into the message m, at position at: it goes on
\* to the end, or to a tag that ends it (a zero, or the end of a group), or to a field
\* that cannot be read.
ReadNext(schema, b, p) ==
  LET tag    == ReadVarint(b, p.at)
      ends   == ~tag.ok \/ tag.v < 8 \/ tag.v % 8 = 4
      value  == ReadField(b, tag.at, tag.v % 8)
      isText == tag.v \div 8 \in DOMAIN schema /\ tag.v % 8 = 2 /\ schema[tag.v \div 8] = "string"
      Ended(m, ok) == [m |-> m, at |-> p.at, ok |-> ok, ended |-> TRUE]
      next   == ParsedField(schema, p.m, tag.v, value.v)
  IN  IF p.ended THEN p
      ELSE CASE p.at > Len(b) -> Ended(p.m, TRUE)
             [] p.at <= Len(b) /\ (ends \/ ~value.ok) -> Ended(p.m, FALSE)
             [] p.at <= Len(b) /\ ~ends /\ value.ok /\ isText /\ ~IsUTF8(value.v) -> Ended(next, FALSE)
             [] OTHER -> Reached(next, value.at)

\* ParseFromIstream: a field takes two bytes at least.
Parse(schema, b) ==
  LET most == Len(b) \div 2 + 1
      read[k \in 0 .. most] ==
        IF k = 0 THEN Reached(New(schema), 1) ELSE ReadNext(schema, b, read[k - 1])
  IN  [ok |-> read[most].ok, m |-> read[most].m]

\* HandleNodeOnlineReq: what is read of a login is used, whether it was read to the
\* end or not.
NodeInfo(b) ==
  LET field == Parse(ReqNodeLogin, b).m.field
  IN  [strIp |-> field[1], strCity |-> field[3], strName |-> field[4]]

-----------------------------------------------------------------------------
(* Two messages of one class, filled in, combined and received *)

Becomes(m) == mine' = m /\ UNCHANGED <<class, theirs>>

SetField(n, v) == Becomes(Set(mine, n, v))

\* clear_ip, release_ip, ...: the default is back.
ClearField(n) == Becomes(Set(mine, n, Default(class[n])))

\* operator= as well.
Copy == Becomes(CopyFrom(class, mine, theirs))

\* Once for each unknown field, to keep their number small.
Merge ==
  /\ mine.unknown = <<>> \/ theirs.unknown = <<>>
  /\ Becomes(MergeFrom(class, mine, theirs))

\* Moving is swapping.
Swap == mine' = theirs /\ theirs' = mine /\ UNCHANGED class

Receive(b) == Becomes(Parse(class, b).m)

MessageInit ==
  /\ class \in {ReqHeartBeat, RespHeartBeat, ReqNodeLogin, RespNodeLogin}
  /\ mine = New(class) /\ theirs = New(class)

MessageNext ==
  \/ \E n \in DOMAIN class :
       ClearField(n) \/ \E v \in IF class[n] = "string" THEN Strings ELSE Numbers : SetField(n, v)
  \/ Copy \/ Merge \/ Swap
  \/ \E b \in Arrivals : Receive(b)

-----------------------------------------------------------------------------
(* Properties *)

Zeros8 == <<0, 0, 0, 0, 0, 0, 0, 0>>

Readable(m) == \A n \in DOMAIN class : class[n] = "string" => IsUTF8(m.field[n])

\* What is sent is received: a message reads back as it was, unknown fields included;
\* it takes as many bytes as it is said to; zeros after it, which end the
\* reading of a message, take nothing away; and two messages one after
\* the other read as the second merged into the first.
MessageKept ==
  LET bytes == Serialize(class, mine)
  IN  Readable(mine) =>
        /\ Parse(class, bytes) = [ok |-> TRUE, m |-> mine]
        /\ Len(bytes) = ByteSizeLong(class, mine)
        /\ Parse(class, bytes \o Zeros8) = [ok |-> FALSE, m |-> mine]
        /\ Readable(theirs) =>
             Parse(class, bytes \o Serialize(class, theirs))
               = [ok |-> TRUE, m |-> MergeFrom(class, mine, theirs)]
=============================================================================
