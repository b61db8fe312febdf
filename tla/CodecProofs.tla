----------------------------- MODULE CodecProofs -----------------------------
(***************************************************************************)
(* Theorems about what is put on the wire: the heads of HeadCodec, for any *)
(* heads and any size of buffer, and the messages of NodeMessages, for any *)
(* strings and numbers.                                                    *)
(***************************************************************************)
EXTENDS HeadCodec, NodeMessages, SequenceTheorems, WellFoundedInduction, TLAPS

-----------------------------------------------------------------------------
(* Heads *)

\* A value of n bytes.
Bytes(n) == [1 .. n -> Byte]

\* It is a sequence of length n, and turned around it is one, too.
LEMMA ReverseFact ==
  ASSUME NEW n \in Nat, NEW v \in Bytes(n)
  PROVE  /\ v \in Seq(Byte) /\ Len(v) = n
         /\ Reverse(v) \in Bytes(n) /\ Len(Reverse(v)) = n
         /\ \A i \in 1 .. n : Reverse(v)[i] = v[n - i + 1]
<1>1. \A w \in Bytes(n) : w \in Seq(Byte) /\ Len(w) = n
  BY SeqDef, LenProperties DEF Bytes
<1>2. Reverse(v) = [i \in 1 .. n |-> v[(n - i) + 1]]
  BY <1>1 DEF Reverse
<1>3. \A i \in 1 .. n : (n - i) + 1 \in 1 .. n
  OBVIOUS
<1>4. Reverse(v) \in Bytes(n)
  BY <1>2, <1>3 DEF Bytes
<1>5. QED BY <1>1, <1>2, <1>4

\* Two values of n bytes are equal when their bytes are.
LEMMA SameBytes ==
  ASSUME NEW n \in Nat, NEW v \in Bytes(n), NEW w \in Bytes(n), \A i \in 1 .. n : v[i] = w[i]
  PROVE  v = w
  BY DEF Bytes

\* Turned around twice, a value is itself: two bytes pass through htons in memory order.
LEMMA ReverseTwice ==
  ASSUME NEW n \in Nat, NEW v \in Bytes(n)
  PROVE  Reverse(Reverse(v)) = v
<1>1. Reverse(v) \in Bytes(n) /\ Reverse(Reverse(v)) \in Bytes(n)
  BY ReverseFact
<1>2. ASSUME NEW i \in 1 .. n PROVE Reverse(Reverse(v))[i] = v[i]
  <2>1. n - i + 1 \in 1 .. n /\ n - (n - i + 1) + 1 = i
    OBVIOUS
  <2>2. Reverse(Reverse(v))[i] = Reverse(v)[n - i + 1]
    BY <1>1, ReverseFact
  <2>3. Reverse(v)[n - i + 1] = v[n - (n - i + 1) + 1]
    BY <2>1, ReverseFact
  <2>4. QED BY <2>1, <2>2, <2>3
<1>3. QED BY <1>1, <1>2, SameBytes

\* Zeros in front of the bytes of a value.
LEMMA ZerosFact ==
  ASSUME NEW n \in Nat, NEW m \in Nat, NEW v \in Bytes(m)
  PROVE  /\ Zeros(n) \o v \in Bytes(n + m)
         /\ \A i \in 1 .. n + m : (Zeros(n) \o v)[i] = IF i <= n THEN 0 ELSE v[i - n]
<1>1. Zeros(n) \in Bytes(n) /\ \A i \in 1 .. n : Zeros(n)[i] = 0
  BY DEF Zeros, Bytes, Byte
<1>2. Zeros(n) \in Seq(Byte) /\ Len(Zeros(n)) = n /\ v \in Seq(Byte) /\ Len(v) = m
  BY <1>1, ReverseFact
<1>3. /\ Zeros(n) \o v \in Seq(Byte) /\ Len(Zeros(n) \o v) = n + m
      /\ \A i \in 1 .. n + m : (Zeros(n) \o v)[i] = IF i <= n THEN Zeros(n)[i] ELSE v[i - n]
  BY <1>2, ConcatProperties
<1>4. Zeros(n) \o v \in Bytes(n + m)
  BY <1>3, LenProperties DEF Bytes
<1>5. QED BY <1>1, <1>3, <1>4

\* The bytes of a value from one on.
LEMMA SubSeqFact ==
  ASSUME NEW n \in Nat, NEW v \in Bytes(n), NEW a \in 1 .. n, NEW m \in Nat, a + m - 1 <= n
  PROVE  /\ SubSeq(v, a, a + m - 1) \in Bytes(m)
         /\ \A i \in 1 .. m : SubSeq(v, a, a + m - 1)[i] = v[a + i - 1]
<1>1. v \in Seq(Byte) /\ Len(v) = n
  BY ReverseFact
<1> PICK b \in 0 .. n : b = a + m - 1
  OBVIOUS
<1>2. /\ SubSeq(v, a, b) \in Seq(Byte) /\ Len(SubSeq(v, a, b)) = m
      /\ \A i \in 1 .. m : SubSeq(v, a, b)[i] = v[a + i - 1]
  <2>1. \A i \in a .. b : v[i] \in Byte
    BY DEF Bytes
  <2>2. /\ SubSeq(v, a, b) \in Seq(Byte)
        /\ Len(SubSeq(v, a, b)) = IF a <= b THEN b - a + 1 ELSE 0
        /\ \A i \in 1 .. b - a + 1 : SubSeq(v, a, b)[i] = v[a + i - 1]
    BY <2>1, SubSeqProperties
  <2>3. b - a + 1 = m /\ (a > b => m = 0)
    OBVIOUS
  <2>4. QED BY <2>2, <2>3
<1>3. SubSeq(v, a, b) \in Bytes(m)
  BY <1>2, LenProperties DEF Bytes
<1>4. QED BY <1>2, <1>3

-----------------------------------------------------------------------------
(***************************************************************************)
(* What the setters leave in the buffer, byte by byte.                     *)
(***************************************************************************)

\* memcpy to the buffer.
LEMMA StoreFact ==
  ASSUME NEW n \in Nat, NEW v \in Bytes(n), NEW b, NEW at \in Nat
  PROVE  /\ DOMAIN Store(b, at, v) = DOMAIN b
         /\ \A i \in DOMAIN b :
              Store(b, at, v)[i] = IF i \in at .. at + n - 1 THEN v[i - at + 1] ELSE b[i]
<1>1. Len(v) = n
  BY ReverseFact
<1>2. QED BY <1>1 DEF Store

\* memcpy from the buffer.
LEMMA LoadFact ==
  ASSUME NEW n \in Nat, NEW b, NEW at \in Nat, \A i \in at .. at + n - 1 : b[i] \in Byte
  PROVE  Load(b, at, n) \in Bytes(n) /\ \A i \in 1 .. n : Load(b, at, n)[i] = b[at + i - 1]
<1>1. \A i \in 1 .. n : at + i - 1 \in at .. at + n - 1
  OBVIOUS
<1>2. QED BY <1>1 DEF Load, Bytes

\* A u16 is stored with its first byte first.
LEMMA ShortFact ==
  ASSUME NEW v \in Bytes(2), NEW b, NEW at \in Nat
  PROVE  SetUnsignedShort(b, at, v) = Store(b, at, v)
  BY ReverseTwice DEF SetUnsignedShort, Memory, htons

\* The lower half of a u32.
LEMMA CutFact ==
  ASSUME NEW v \in Bytes(4)
  PROVE  Cut(v) \in Bytes(2) /\ Cut(v)[1] = v[3] /\ Cut(v)[2] = v[4]
<1>1. v \in Seq(Byte) /\ Len(v) = 4
  BY ReverseFact
<1> PICK a \in 1 .. 5, b \in 2 .. 4 : a = Len(v) - 1 /\ b = Len(v) /\ a = 3 /\ b = 4
  BY <1>1
<1> DEFINE w == SubSeq(v, a, b)
<1>2. Cut(v) = w
  BY DEF Cut
<1>3. \A i \in a .. b : v[i] \in Byte
  BY DEF Bytes
<1>4. /\ w \in Seq(Byte) /\ Len(w) = IF a <= b THEN b - a + 1 ELSE 0
      /\ \A i \in 1 .. b - a + 1 : w[i] = v[a + i - 1]
  BY <1>3, SubSeqProperties
<1> HIDE DEF w
<1>5. w \in Seq(Byte) /\ Len(w) = 2 /\ \A i \in 1 .. 2 : w[i] = v[3 + i - 1]
  BY <1>4
<1>6. w \in Bytes(2)
  BY <1>5, LenProperties DEF Bytes
<1>7. w[1] = v[3] /\ w[2] = v[4]
  BY <1>5
<1>8. QED BY <1>2, <1>6, <1>7

\* A u16 made a u32.
LEMMA ExtendFact ==
  ASSUME NEW d \in Bytes(2)
  PROVE  /\ Extend(d) \in Bytes(4)
         /\ Extend(d)[1] = 0 /\ Extend(d)[2] = 0 /\ Extend(d)[3] = d[1] /\ Extend(d)[4] = d[2]
<1> PICK n \in Nat : n = 2
  OBVIOUS
<1> DEFINE w == Zeros(n) \o d
<1>1. d \in Bytes(n)
  OBVIOUS
<1>2. w \in Bytes(n + n) /\ \A i \in 1 .. n + n : w[i] = IF i <= n THEN 0 ELSE d[i - n]
  BY <1>1, ZerosFact, Zenon
<1>3. w = Extend(d)
  BY DEF Extend
<1> HIDE DEF w
<1>4. n + n = 4
  OBVIOUS
<1>5. w \in Bytes(4) /\ \A i \in 1 .. 4 : w[i] = IF i <= 2 THEN 0 ELSE d[i - 2]
  BY <1>2, <1>4
<1>6. w[1] = 0 /\ w[2] = 0 /\ w[3] = d[1] /\ w[4] = d[2]
  BY <1>5
<1>7. QED BY <1>3, <1>5, <1>6

\* What is stored of a u32: its lower half, first byte first, and two zeros.
IntBytes(v) == Memory(Extend(htons(Cut(v))))

\* They are four bytes, and read back as that half.
LEMMA IntFact ==
  ASSUME NEW v \in Bytes(4)
  PROVE  /\ IntBytes(v) \in Bytes(4)
         /\ htons(Cut(v)) \in Bytes(2) /\ Value(IntBytes(v)) = Extend(htons(Cut(v)))
<1>1. htons(Cut(v)) \in Bytes(2)
  BY CutFact, ReverseFact DEF htons
<1>2. Extend(htons(Cut(v))) \in Bytes(4)
  BY <1>1, ExtendFact
<1>3. QED BY <1>1, <1>2, ReverseFact, ReverseTwice DEF IntBytes, Memory, Value

\* A u64 fills its eight bytes, the last of its two stores all of them.
LongBytes(v) == Memory(Zeros(4) \o SubSeq(v, 1, 4))

\* That is what a u64 leaves in the buffer, and nothing outside its eight bytes.
LEMMA LongFact ==
  ASSUME NEW v \in Bytes(8), NEW b, NEW at \in Nat, at .. at + 7 \subseteq DOMAIN b
  PROVE  /\ LongBytes(v) \in Bytes(8)
         /\ DOMAIN SetUnsignedLonglong(b, at, v) = DOMAIN b
         /\ \A i \in DOMAIN b : SetUnsignedLonglong(b, at, v)[i]
                                  = IF i \in at .. at + 7 THEN LongBytes(v)[i - at + 1] ELSE b[i]
<1>1. SubSeq(v, 1, 4) \in Bytes(4) /\ SubSeq(v, 5, 8) \in Bytes(4)
  <2>1. 1 \in 1 .. 8 /\ 5 \in 1 .. 8 /\ 1 + 4 - 1 = 4 /\ 5 + 4 - 1 = 8
    OBVIOUS
  <2>2. QED BY <2>1, SubSeqFact
<1>2. LongBytes(v) \in Bytes(8)
  <2>1. Zeros(4) \o SubSeq(v, 1, 4) \in Bytes(4 + 4) /\ 4 + 4 = 8
    BY <1>1, ZerosFact
  <2>2. QED BY <2>1, ReverseFact DEF LongBytes, Memory
<1>3. PICK low \in Bytes(4) : low = Memory(htonl(SubSeq(v, 5, 8)))
  BY <1>1, ReverseFact DEF Memory, htonl
<1>4. /\ DOMAIN Store(b, at + 4, low) = DOMAIN b
      /\ \A i \in DOMAIN b : Store(b, at + 4, low)[i]
                               = IF i \in at + 4 .. (at + 4) + 4 - 1 THEN low[i - (at + 4) + 1] ELSE b[i]
  BY StoreFact
<1>5. SetUnsignedLonglong(b, at, v) = Store(Store(b, at + 4, low), at, LongBytes(v))
  BY <1>3 DEF SetUnsignedLonglong, LongBytes
<1>6. /\ DOMAIN SetUnsignedLonglong(b, at, v) = DOMAIN b
      /\ \A i \in DOMAIN b : SetUnsignedLonglong(b, at, v)[i]
           = IF i \in at .. at + 8 - 1 THEN LongBytes(v)[i - at + 1] ELSE Store(b, at + 4, low)[i]
  BY <1>2, <1>4, <1>5, StoreFact
<1>7. \A i \in Int : i \notin at .. at + 7 => i \notin at + 4 .. (at + 4) + 4 - 1
  OBVIOUS
<1>8. QED BY <1>2, <1>4, <1>6, <1>7

\* What is stored of each field.
Stored(h) ==
  [usTag |-> h.usTag, ucVersion |-> h.ucVersion, ucType |-> h.ucType, usLen |-> h.usLen,
   usMsgId |-> h.usMsgId, ullMsgSn |-> LongBytes(h.ullMsgSn),
   uiPriority |-> IntBytes(h.uiPriority), uiReserver1 |-> IntBytes(h.uiReserver1)]

\* A head whose fields have their widths.
IsHead(h) == DOMAIN h = Fields /\ \A f \in Fields : h[f] \in Bytes(Width[f])

\* The fields, by name.
LEMMA FieldsFact ==
  Fields = {"usTag", "ucVersion", "ucType", "usLen", "usMsgId", "ullMsgSn", "uiPriority", "uiReserver1"}
  BY DEF Fields, Width

\* Their widths, by name.
LEMMA HeadFact ==
  ASSUME NEW h, IsHead(h)
  PROVE  /\ h.usTag \in Bytes(2) /\ h.ucVersion \in Bytes(1) /\ h.ucType \in Bytes(1)
         /\ h.usLen \in Bytes(2) /\ h.usMsgId \in Bytes(2) /\ h.ullMsgSn \in Bytes(8)
         /\ h.uiPriority \in Bytes(4) /\ h.uiReserver1 \in Bytes(4)
  BY FieldsFact DEF IsHead, Width

\* One field at a time, the buffer fills up with what is stored of the fields.
LEMMA EncodeFact ==
  ASSUME NEW h, IsHead(h)
  PROVE  /\ DOMAIN Encode(h, Blank) = 0 .. Size - 1
         /\ \A i \in 0 .. Size - 1 : Encode(h, Blank)[i] =
              IF i \in 0 .. 1 THEN h.usTag[i + 1]
              ELSE IF i \in 2 .. 2 THEN h.ucVersion[i - 1]
              ELSE IF i \in 3 .. 3 THEN h.ucType[i - 2]
              ELSE IF i \in 4 .. 5 THEN h.usLen[i - 3]
              ELSE IF i \in 6 .. 7 THEN h.usMsgId[i - 5]
              ELSE IF i \in 8 .. 15 THEN LongBytes(h.ullMsgSn)[i - 7]
              ELSE IF i \in 16 .. 19 THEN IntBytes(h.uiPriority)[i - 15]
              ELSE IF i \in 20 .. 23 THEN IntBytes(h.uiReserver1)[i - 19]
              ELSE 0
<1> DEFINE b1 == SetUnsignedShort(Blank, 0, h.usTag)
           b2 == SetByte(b1, 2, h.ucVersion)
           b3 == SetByte(b2, 3, h.ucType)
           b4 == SetUnsignedShort(b3, 4, h.usLen)
           b5 == SetUnsignedShort(b4, 6, h.usMsgId)
           b6 == SetUnsignedLonglong(b5, 8, h.ullMsgSn)
           b7 == SetUnsignedInt(b6, 16, h.uiPriority)
           b8 == SetUnsignedInt(b7, 20, h.uiReserver1)
           All == 0 .. Size - 1
<1>1. Encode(h, Blank) = b8
  BY DEF Encode, Offset
<1>2. DOMAIN Blank = All /\ \A i \in All : Blank[i] = 0
  BY DEF Blank
<1>3. b1 = Store(Blank, 0, h.usTag)
  BY HeadFact, ShortFact
<1>4. b2 = Store(b1, 2, h.ucVersion) /\ b3 = Store(b2, 3, h.ucType)
  BY DEF SetByte
<1>5. b4 = Store(b3, 4, h.usLen)
  BY HeadFact, ShortFact
<1>6. b5 = Store(b4, 6, h.usMsgId)
  BY HeadFact, ShortFact
<1>7. b7 = Store(b6, 16, IntBytes(h.uiPriority)) /\ b8 = Store(b7, 20, IntBytes(h.uiReserver1))
  BY DEF SetUnsignedInt, IntBytes
<1>8. b6 = SetUnsignedLonglong(b5, 8, h.ullMsgSn)
  OBVIOUS
<1> HIDE DEF b1, b2, b3, b4, b5, b6, b7, b8
<1>9. /\ DOMAIN b1 = All
      /\ \A i \in All : b1[i] = IF i \in 0 .. 1 THEN h.usTag[i + 1] ELSE 0
  <2>1. /\ DOMAIN b1 = DOMAIN Blank
        /\ \A i \in DOMAIN Blank :
             b1[i] = IF i \in 0 .. 0 + 2 - 1 THEN h.usTag[i - 0 + 1] ELSE Blank[i]
    BY <1>3, HeadFact, StoreFact
  <2>2. QED BY <1>2, <2>1
<1>10. /\ DOMAIN b2 = All
       /\ \A i \in All : b2[i] = IF i \in 2 .. 2 THEN h.ucVersion[i - 1] ELSE b1[i]
  <2>1. /\ DOMAIN b2 = DOMAIN b1
        /\ \A i \in DOMAIN b1 :
             b2[i] = IF i \in 2 .. 2 + 1 - 1 THEN h.ucVersion[i - 2 + 1] ELSE b1[i]
    BY <1>4, HeadFact, StoreFact
  <2>2. QED BY <1>9, <2>1
<1>11. /\ DOMAIN b3 = All
       /\ \A i \in All : b3[i] = IF i \in 3 .. 3 THEN h.ucType[i - 2] ELSE b2[i]
  <2>1. /\ DOMAIN b3 = DOMAIN b2
        /\ \A i \in DOMAIN b2 :
             b3[i] = IF i \in 3 .. 3 + 1 - 1 THEN h.ucType[i - 3 + 1] ELSE b2[i]
    BY <1>4, HeadFact, StoreFact
  <2>2. QED BY <1>10, <2>1
<1>12. /\ DOMAIN b4 = All
       /\ \A i \in All : b4[i] = IF i \in 4 .. 5 THEN h.usLen[i - 3] ELSE b3[i]
  <2>1. /\ DOMAIN b4 = DOMAIN b3
        /\ \A i \in DOMAIN b3 :
             b4[i] = IF i \in 4 .. 4 + 2 - 1 THEN h.usLen[i - 4 + 1] ELSE b3[i]
    BY <1>5, HeadFact, StoreFact
  <2>2. QED BY <1>11, <2>1
<1>13. /\ DOMAIN b5 = All
       /\ \A i \in All : b5[i] = IF i \in 6 .. 7 THEN h.usMsgId[i - 5] ELSE b4[i]
  <2>1. /\ DOMAIN b5 = DOMAIN b4
        /\ \A i \in DOMAIN b4 :
             b5[i] = IF i \in 6 .. 6 + 2 - 1 THEN h.usMsgId[i - 6 + 1] ELSE b4[i]
    BY <1>6, HeadFact, StoreFact
  <2>2. QED BY <1>12, <2>1
<1>14. /\ DOMAIN b6 = All
       /\ \A i \in All : b6[i] = IF i \in 8 .. 15 THEN LongBytes(h.ullMsgSn)[i - 7] ELSE b5[i]
  <2>1. 8 .. 8 + 7 \subseteq DOMAIN b5
    BY <1>13, CodecAssumption
  <2> PICK at \in Nat : at = 8
    OBVIOUS
  <2>2. h.ullMsgSn \in Bytes(8) /\ at .. at + 7 \subseteq DOMAIN b5
    BY <2>1, HeadFact
  <2>3. /\ DOMAIN SetUnsignedLonglong(b5, at, h.ullMsgSn) = DOMAIN b5
        /\ \A i \in DOMAIN b5 : SetUnsignedLonglong(b5, at, h.ullMsgSn)[i]
             = IF i \in at .. at + 7 THEN LongBytes(h.ullMsgSn)[i - at + 1] ELSE b5[i]
    BY <2>2, LongFact, Zenon
  <2>4. b6 = SetUnsignedLonglong(b5, at, h.ullMsgSn)
    BY <1>8
  <2>5. QED BY <1>13, <2>3, <2>4
<1>15. /\ DOMAIN b7 = All
       /\ \A i \in All : b7[i] = IF i \in 16 .. 19 THEN IntBytes(h.uiPriority)[i - 15] ELSE b6[i]
  <2>1. /\ DOMAIN b7 = DOMAIN b6
        /\ \A i \in DOMAIN b6 :
             b7[i] = IF i \in 16 .. 16 + 4 - 1 THEN IntBytes(h.uiPriority)[i - 16 + 1] ELSE b6[i]
    BY <1>7, HeadFact, IntFact, StoreFact
  <2>2. QED BY <1>14, <2>1
<1>16. /\ DOMAIN b8 = All
       /\ \A i \in All : b8[i] = IF i \in 20 .. 23 THEN IntBytes(h.uiReserver1)[i - 19] ELSE b7[i]
  <2>1. /\ DOMAIN b8 = DOMAIN b7
        /\ \A i \in DOMAIN b7 :
             b8[i] = IF i \in 20 .. 20 + 4 - 1 THEN IntBytes(h.uiReserver1)[i - 20 + 1] ELSE b7[i]
    BY <1>7, HeadFact, IntFact, StoreFact
  <2>2. QED BY <1>15, <2>1
<1>17. QED BY <1>1, <1>9, <1>10, <1>11, <1>12, <1>13, <1>14, <1>15, <1>16

-----------------------------------------------------------------------------
(***************************************************************************)
(* What Decode makes of it.                                                *)
(***************************************************************************)

\* The two bytes of a u16 come back as they were stored.
LEMMA GetShortFact ==
  ASSUME NEW v \in Bytes(2), NEW b, NEW at \in Nat, b[at] = v[1], b[at + 1] = v[2]
  PROVE  GetUnsignedShort(b, at) = v
<1>1. v[1] \in Byte /\ v[2] \in Byte
  BY DEF Bytes
<1>2. Load(b, at, 2) = v
  <2>1. \A i \in 1 .. 2 : at + i - 1 = IF i = 1 THEN at ELSE at + 1
    OBVIOUS
  <2>2. \A i \in 1 .. 2 : b[at + i - 1] = v[i]
    BY <2>1
  <2>3. QED BY <2>2 DEF Load, Bytes
<1>3. QED BY <1>2, ReverseTwice DEF GetUnsignedShort, htons, Value

\* So does the byte of a u8.
LEMMA GetByteFact ==
  ASSUME NEW v \in Bytes(1), NEW b, NEW at \in Nat, b[at] = v[1]
  PROVE  GetByte(b, at) = v
<1>1. \A i \in 1 .. 1 : b[at + i - 1] = v[i]
  OBVIOUS
<1>2. QED BY <1>1 DEF GetByte, Load, Bytes

\* A u32 comes back with zeros in its upper half.
LEMMA GetIntFact ==
  ASSUME NEW v \in Bytes(4), SubSeq(v, 1, 2) = Zeros(2), NEW b, NEW at \in Nat,
         \A i \in 1 .. 4 : b[at + i - 1] = IntBytes(v)[i]
  PROVE  GetUnsignedInt(b, at) = v
<1>1. Load(b, at, 4) = IntBytes(v)
  BY IntFact DEF Load, Bytes
<1> PICK c \in Bytes(2) : c = Cut(v) /\ c[1] = v[3] /\ c[2] = v[4]
  BY CutFact
<1> PICK d \in Bytes(2) : d = htons(c) /\ htons(d) = c
  BY ReverseFact, ReverseTwice DEF htons
<1>2. Value(IntBytes(v)) = Extend(d)
  BY IntFact
<1>3. Cut(Extend(d)) = d
  <2>1. Extend(d) \in Bytes(4) /\ Extend(d)[3] = d[1] /\ Extend(d)[4] = d[2]
    BY ExtendFact
  <2>2. Cut(Extend(d)) \in Bytes(2) /\ Cut(Extend(d))[1] = d[1] /\ Cut(Extend(d))[2] = d[2]
    BY <2>1, CutFact
  <2>3. \A i \in 1 .. 2 : Cut(Extend(d))[i] = d[i]
    BY <2>2
  <2>4. QED BY <2>2, <2>3, SameBytes
<1>4. Extend(c) = v
  <2>1. v[1] = 0 /\ v[2] = 0
    <3>1. Len(v) = 4 /\ v \in Seq(Byte)
      BY ReverseFact
    <3>2. SubSeq(v, 1, 2)[1] = v[1] /\ SubSeq(v, 1, 2)[2] = v[2]
      BY <3>1, SubSeqProperties
    <3>3. QED BY <3>2 DEF Zeros
  <2>2. Extend(c) \in Bytes(4) /\ \A i \in 1 .. 4 : Extend(c)[i] = v[i]
    BY <2>1, ExtendFact
  <2>3. QED BY <2>2, SameBytes
<1>5. QED BY <1>1, <1>2, <1>3, <1>4 DEF GetUnsignedInt

-----------------------------------------------------------------------------
(***************************************************************************)
(* The two properties, of any head.                                        *)
(***************************************************************************)

\* Every field but the serial number comes back, the 32-bit ones if they fit.
LEMMA DecodeFact ==
  ASSUME NEW h, IsHead(h)
  PROVE  LET g == Decode(Encode(h, Blank))
         IN  /\ \A f \in {"usTag", "ucVersion", "ucType", "usLen", "usMsgId"} : g[f] = h[f]
             /\ \A f \in {"uiPriority", "uiReserver1"} : SubSeq(h[f], 1, 2) = Zeros(2) => g[f] = h[f]
<1> PICK b : b = Encode(h, Blank)
  OBVIOUS
<1>1. 24 <= Size /\ Size \in Nat
  BY CodecAssumption
<1>2. /\ b[0] = h.usTag[1] /\ b[0 + 1] = h.usTag[2]
      /\ b[2] = h.ucVersion[1] /\ b[3] = h.ucType[1]
      /\ b[4] = h.usLen[1] /\ b[4 + 1] = h.usLen[2]
      /\ b[6] = h.usMsgId[1] /\ b[6 + 1] = h.usMsgId[2]
  BY <1>1, EncodeFact
<1>3. /\ \A i \in 1 .. 4 : b[16 + i - 1] = IntBytes(h.uiPriority)[i]
      /\ \A i \in 1 .. 4 : b[20 + i - 1] = IntBytes(h.uiReserver1)[i]
  BY <1>1, EncodeFact
<1>4. /\ GetUnsignedShort(b, 0) = h.usTag /\ GetUnsignedShort(b, 4) = h.usLen
      /\ GetUnsignedShort(b, 6) = h.usMsgId
      /\ GetByte(b, 2) = h.ucVersion /\ GetByte(b, 3) = h.ucType
  BY <1>2, HeadFact, GetShortFact, GetByteFact
<1>5. /\ SubSeq(h.uiPriority, 1, 2) = Zeros(2) => GetUnsignedInt(b, 16) = h.uiPriority
      /\ SubSeq(h.uiReserver1, 1, 2) = Zeros(2) => GetUnsignedInt(b, 20) = h.uiReserver1
  BY <1>3, HeadFact, GetIntFact
<1> DEFINE g == Decode(b)
<1>6. /\ g.usTag = GetUnsignedShort(b, 0) /\ g.ucVersion = GetByte(b, 2)
      /\ g.ucType = GetByte(b, 3) /\ g.usLen = GetUnsignedShort(b, 4)
      /\ g.usMsgId = GetUnsignedShort(b, 6)
      /\ g.uiPriority = GetUnsignedInt(b, 16) /\ g.uiReserver1 = GetUnsignedInt(b, 20)
  BY DEF Decode, Offset
<1> HIDE DEF g
<1>7. QED BY <1>4, <1>5, <1>6 DEF g

\* Where two heads only differ in field f, their codes only differ in the bytes of f.
LEMMA FieldsApart ==
  ASSUME NEW h, IsHead(h), NEW k, IsHead(k), NEW f \in Fields, \A g \in Fields \ {f} : h[g] = k[g],
         NEW i \in 0 .. Size - 1, i \notin Offset[f] .. Offset[f] + Width[f] - 1
  PROVE  Encode(h, Blank)[i] = Encode(k, Blank)[i] /\ (i >= 24 => Encode(h, Blank)[i] = 0)
<1>1. /\ f # "usTag" => h.usTag = k.usTag
      /\ f # "ucVersion" => h.ucVersion = k.ucVersion
      /\ f # "ucType" => h.ucType = k.ucType
      /\ f # "usLen" => h.usLen = k.usLen
      /\ f # "usMsgId" => h.usMsgId = k.usMsgId
      /\ f # "ullMsgSn" => h.ullMsgSn = k.ullMsgSn
      /\ f # "uiPriority" => h.uiPriority = k.uiPriority
      /\ f # "uiReserver1" => h.uiReserver1 = k.uiReserver1
  BY FieldsFact
<1>2. /\ f = "usTag" => i \notin 0 .. 1
      /\ f = "ucVersion" => i \notin 2 .. 2
      /\ f = "ucType" => i \notin 3 .. 3
      /\ f = "usLen" => i \notin 4 .. 5
      /\ f = "usMsgId" => i \notin 6 .. 7
      /\ f = "ullMsgSn" => i \notin 8 .. 15
      /\ f = "uiPriority" => i \notin 16 .. 19
      /\ f = "uiReserver1" => i \notin 20 .. 23
  BY DEF Offset, Width
<1>3. Encode(h, Blank)[i] = Encode(k, Blank)[i]
  BY <1>1, <1>2, EncodeFact
<1>4. i >= 24 => Encode(h, Blank)[i] = 0
  BY EncodeFact
<1>5. QED BY <1>3, <1>4

\* One message on its own.
HeadSpec == HeadInit /\ [][HeadNext]_headVars

\* The buffer is blank or holds the code of the head, and what is received is decoded
\* from that.
HeadInvariant ==
  /\ head \in Heads
  /\ buffer \in {Blank, Encode(head, Blank)}
  /\ Received => got = Decode(Encode(head, Blank))

\* No field the receiver acts on is lost in coding a head, but for what does not fit,
\* and none reaches into another or into the body: for every head, and every size of
\* the buffer.
THEOREM HeadsKept == HeadSpec => [](FieldsKept /\ SettersStayInField /\ HeadKept)
<1>1. HeadInit => HeadInvariant
  BY DEF HeadInit, HeadInvariant, Received
<1>2. HeadInvariant /\ [HeadNext]_headVars => HeadInvariant'
  BY DEF HeadInvariant, HeadNext, SendHead, ReceiveHead, headVars, Received
<1>3. head \in Heads => IsHead(head)
  BY CodecAssumption DEF IsHead, Bytes
<1>4. HeadInvariant => FieldsKept
  BY <1>3, DecodeFact DEF HeadInvariant, FieldsKept
<1>5. HeadInvariant => SettersStayInField
  <2> SUFFICES ASSUME HeadInvariant, NEW f \in Fields, NEW i \in 0 .. Size - 1,
                      i \notin Offset[f] .. Offset[f] + Width[f] - 1
               PROVE  /\ Encode(head, Blank)[i] = Encode([head EXCEPT ![f] = Zeros(Width[f])], Blank)[i]
                      /\ i >= 24 => Encode(head, Blank)[i] = 0
    BY DEF SettersStayInField
  <2>1. IsHead(head)
    BY <1>3 DEF HeadInvariant
  <2>2. Width[f] \in Nat /\ Zeros(Width[f]) \in Bytes(Width[f])
    <3>1. Width[f] \in Nat
      BY DEF Fields, Width
    <3>2. QED BY <3>1 DEF Zeros, Bytes, Byte
  <2>3. PICK other : other = [head EXCEPT ![f] = Zeros(Width[f])]
    OBVIOUS
  <2>4. IsHead(other) /\ \A g \in Fields \ {f} : head[g] = other[g]
    BY <2>1, <2>2, <2>3 DEF IsHead
  <2>5. /\ Encode(head, Blank)[i] = Encode(other, Blank)[i]
        /\ i >= 24 => Encode(head, Blank)[i] = 0
    BY <2>1, <2>4, FieldsApart
  <2>6. QED BY <2>3, <2>5
<1>6. FieldsKept /\ SettersStayInField => HeadKept
  BY DEF HeadKept
<1>7. QED BY <1>1, <1>2, <1>4, <1>5, <1>6, PTL DEF HeadSpec

-----------------------------------------------------------------------------
(* Induction, for sets of numbers *)

\* Induction over the natural numbers, for a set of them.
LEMMA SetInduction ==
  ASSUME NEW A, 0 \in A, \A n \in Nat : n \in A => n + 1 \in A PROVE Nat \subseteq A
<1> DEFINE T == Nat \ A
<1> SUFFICES ASSUME T # {} PROVE FALSE
  OBVIOUS
<1>1. PICK x \in T : \A y \in T : ~(<<y, x>> \in OpToRel(<, Nat))
  BY WFMin, NatLessThanWellFounded, Zenon
<1>2. \A y \in T : ~(y < x)
  BY <1>1 DEF OpToRel
<1>3. x \in Nat /\ x # 0 /\ x - 1 \in Nat
  OBVIOUS
<1>4. x - 1 \notin T
  BY <1>2, <1>3
<1>5. (x - 1) + 1 \in A
  BY <1>3, <1>4
<1>6. QED BY <1>3, <1>5

\* The same, with all the smaller ones.
LEMMA StrongInduction ==
  ASSUME NEW A, \A n \in Nat : (\A m \in 0 .. n - 1 : m \in A) => n \in A PROVE Nat \subseteq A
<1> DEFINE B == {n \in Nat : \A m \in 0 .. n - 1 : m \in A}
<1>1. 0 \in B
  OBVIOUS
<1>2. ASSUME NEW n \in Nat, n \in B PROVE n + 1 \in B
  <2>1. n \in A
    BY <1>2
  <2>2. \A m \in 0 .. (n + 1) - 1 : m \in 0 .. n - 1 \/ m = n
    OBVIOUS
  <2>3. QED BY <1>2, <2>1, <2>2
<1>3. Nat \subseteq B
  <2> HIDE DEF B
  <2>1. QED BY <1>1, <1>2, SetInduction
<1>4. \A n \in Nat : n + 1 \in B /\ n \in 0 .. (n + 1) - 1
  BY <1>3
<1>5. QED BY <1>4

\* A set of numbers has a least one.
LEMMA LeastExists ==
  ASSUME NEW S, S \subseteq Nat, S # {} PROVE \E x \in S : \A y \in S : x <= y
<1>1. PICK x \in S : \A y \in S : ~(<<y, x>> \in OpToRel(<, Nat))
  BY WFMin, NatLessThanWellFounded, Zenon
<1>2. \A y \in S : ~(y < x)
  BY <1>1 DEF OpToRel
<1>3. QED BY <1>2

\* Division by 128.
LEMMA SevenBits ==
  ASSUME NEW n \in Nat
  PROVE  /\ n \div 128 \in Nat /\ n % 128 \in 0 .. 127 /\ n = 128 * (n \div 128) + (n % 128)
         /\ n \div 128 <= n /\ (n >= 128 => n \div 128 < n)
  OBVIOUS

-----------------------------------------------------------------------------
(* Varints, written *)

\* The function by which Varint is computed, below n.
Varies(f, n) ==
  f = [k \in 0 .. n |-> IF k < 128 THEN <<k>> ELSE <<128 + (k % 128)>> \o f[k \div 128]]

\* There is one.
LEMMA VariesExists == ASSUME NEW n \in Nat PROVE \E f : Varies(f, n)
<1> DEFINE A == {k \in Nat : \E f : Varies(f, k)}
<1>1. 0 \in A
  <2>1. \A k \in 0 .. 0 : k < 128
    OBVIOUS
  <2> DEFINE f == [k \in 0 .. 0 |-> <<k>>]
  <2>2. f = [k \in 0 .. 0 |-> IF k < 128 THEN <<k>> ELSE <<128 + (k % 128)>> \o f[k \div 128]]
    BY <2>1
  <2>3. Varies(f, 0)
    BY <2>2 DEF Varies
  <2> HIDE DEF f
  <2>4. QED BY <2>3
<1>2. ASSUME NEW k \in Nat, k \in A PROVE k + 1 \in A
  <2>1. PICK f : Varies(f, k)
    BY <1>2
  <2> DEFINE e(h, i) == IF i < 128 THEN <<i>> ELSE <<128 + (i % 128)>> \o h[i \div 128]
             g == [i \in 0 .. k + 1 |-> e(f, i)]
  <2>2. f = [i \in 0 .. k |-> e(f, i)]
    BY <2>1 DEF Varies
  <2>3. g = [i \in 0 .. k + 1 |-> e(f, i)]
    OBVIOUS
  <2>4. \A h, i : h[i \div 128] = f[i \div 128] => e(h, i) = e(f, i)
    OBVIOUS
  <2>5. \A h, i : i < 128 => e(h, i) = e(f, i)
    OBVIOUS
  <2> HIDE DEF e, g
  <2>6. \A i \in 0 .. k + 1 : g[i] = e(f, i)
    BY <2>3
  <2>7. \A i \in 0 .. k : g[i] = f[i]
    <3>1. SUFFICES ASSUME NEW i \in 0 .. k PROVE g[i] = f[i]
      OBVIOUS
    <3>2. f[i] = e(f, i)
      BY <2>2
    <3>3. g[i] = e(f, i)
      BY <2>6
    <3>4. QED BY <3>2, <3>3
  <2>8. \A i \in 0 .. k + 1 : e(g, i) = e(f, i)
    <3>1. SUFFICES ASSUME NEW i \in 0 .. k + 1, ~(i < 128) PROVE g[i \div 128] = f[i \div 128]
      BY <2>4, <2>5
    <3>2. i \div 128 \in 0 .. k
      BY <3>1, SevenBits
    <3>3. QED BY <2>7, <3>2
  <2>9. g = [i \in 0 .. k + 1 |-> e(g, i)]
    BY <2>3, <2>8
  <2>10. Varies(g, k + 1)
    BY <2>9 DEF Varies, e
  <2>11. QED BY <2>10
<1> HIDE DEF A
<1>3. n \in A
  BY <1>1, <1>2, SetInduction
<1>4. QED BY <1>3 DEF A

\* Bytes are numbers.
LEMMA OctetFact ==
  ASSUME NEW x \in Octet PROVE x \in Nat /\ x <= 255 /\ x % 128 \in 0 .. 127
  BY DEF Octet

\* There are numbers to write.
LEMMA VarintsFact == Varints \in Nat /\ Varints >= 128 /\ 0 \in 0 .. Varints - 1
<1>1. Varints \in Nat /\ Int32s \in Nat /\ Int32s >= 128 /\ Int32s <= Varints
  BY VarintAssumption
<1>2. QED BY <1>1

\* What Varint writes.
LEMMA VarintIs ==
  ASSUME NEW n \in 0 .. Varints - 1
  PROVE  Varint(n) = IF n < 128 THEN <<n>> ELSE <<128 + (n % 128)>> \o Varint(n \div 128)
<1>1. Varints - 1 \in Nat
  BY VarintAssumption
<1> DEFINE f == CHOOSE f : Varies(f, Varints - 1)
<1>2. Varies(f, Varints - 1)
  BY <1>1, VariesExists
<1>3. \A k : Varint(k) = f[k]
  BY DEF Varint, Varies
<1>4. f = [k \in 0 .. Varints - 1 |-> IF k < 128 THEN <<k>> ELSE <<128 + (k % 128)>> \o f[k \div 128]]
  BY <1>2 DEF Varies
<1> HIDE DEF f
<1>5. f[n] = IF n < 128 THEN <<n>> ELSE <<128 + (n % 128)>> \o f[n \div 128]
  BY <1>4
<1>6. QED BY <1>3, <1>5

\* A varint is bytes, and at least one.
LEMMA VarintType ==
  ASSUME NEW n \in 0 .. Varints - 1
  PROVE  Varint(n) \in Seq(Octet) /\ Len(Varint(n)) \in Nat \ {0}
<1> DEFINE A == {k \in Nat : k < Varints => Varint(k) \in Seq(Octet) /\ Len(Varint(k)) \in Nat \ {0}}
<1>1. ASSUME NEW k \in Nat, \A m \in 0 .. k - 1 : m \in A PROVE k \in A
  <2>1. SUFFICES ASSUME k < Varints PROVE Varint(k) \in Seq(Octet) /\ Len(Varint(k)) \in Nat \ {0}
    OBVIOUS
  <2>2. k \in 0 .. Varints - 1
    BY <2>1, VarintAssumption
  <2>3. CASE k < 128
    <3>1. Varint(k) = <<k>>
      BY <2>2, <2>3, VarintIs
    <3>2. k \in Octet
      BY <2>3 DEF Octet
    <3>3. QED BY <3>1, <3>2
  <2>4. CASE k >= 128
    <3>1. k \div 128 \in 0 .. k - 1 /\ k \div 128 < Varints /\ 128 + (k % 128) \in Octet
      BY <2>1, <2>4, SevenBits, VarintAssumption DEF Octet
    <3>2. Varint(k \div 128) \in Seq(Octet) /\ Len(Varint(k \div 128)) \in Nat \ {0}
      BY <1>1, <3>1
    <3>3. Varint(k) = <<128 + (k % 128)>> \o Varint(k \div 128)
      <4>1. ~(k < 128)
        BY <2>4
      <4>2. QED BY <2>2, <4>1, VarintIs
    <3>4. QED BY <3>1, <3>2, <3>3
  <2>5. QED BY <2>3, <2>4
<1> HIDE DEF A
<1>2. n \in A
  BY <1>1, StrongInduction, VarintAssumption
<1>3. QED BY <1>2, VarintAssumption DEF A

\* The bytes of a varint, and its length.
LEMMA VarintBytesAre ==
  ASSUME NEW n \in 0 .. Varints - 1
  PROVE  /\ n < 128 => Len(Varint(n)) = 1 /\ Varint(n)[1] = n
         /\ n >= 128 =>
              /\ n \div 128 \in 0 .. Varints - 1
              /\ Len(Varint(n)) = Len(Varint(n \div 128)) + 1
              /\ Varint(n)[1] = 128 + (n % 128)
              /\ \A k \in 1 .. Len(Varint(n \div 128)) : Varint(n)[k + 1] = Varint(n \div 128)[k]
<1>1. n < 128 => Len(Varint(n)) = 1 /\ Varint(n)[1] = n
  <2>1. n < 128 => Varint(n) = <<n>>
    BY VarintIs
  <2>2. QED BY <2>1
<1>2. ASSUME n >= 128
      PROVE  /\ n \div 128 \in 0 .. Varints - 1
             /\ Len(Varint(n)) = Len(Varint(n \div 128)) + 1
             /\ Varint(n)[1] = 128 + (n % 128)
             /\ \A k \in 1 .. Len(Varint(n \div 128)) : Varint(n)[k + 1] = Varint(n \div 128)[k]
  <2>1. n \div 128 \in 0 .. Varints - 1 /\ 128 + (n % 128) \in Octet
    BY <1>2, SevenBits, VarintAssumption DEF Octet
  <2>2. Varint(n \div 128) \in Seq(Octet)
    BY <2>1, VarintType
  <2>3. Varint(n) = <<128 + (n % 128)>> \o Varint(n \div 128)
    BY <1>2, VarintIs, SevenBits
  <2>4. QED BY <2>1, <2>2, <2>3
<1>3. QED BY <1>1, <1>2

\* A greater number takes no fewer bytes.
LEMMA VarintGrows ==
  ASSUME NEW m \in 0 .. Varints - 1, NEW n \in 0 .. m
  PROVE  Len(Varint(n)) <= Len(Varint(m))
<1> DEFINE A == {k \in Nat : k < Varints => \A j \in 0 .. k : Len(Varint(j)) <= Len(Varint(k))}
<1>1. ASSUME NEW k \in Nat, \A i \in 0 .. k - 1 : i \in A PROVE k \in A
  <2>1. SUFFICES ASSUME k < Varints, NEW j \in 0 .. k PROVE Len(Varint(j)) <= Len(Varint(k))
    OBVIOUS
  <2>2. k \in 0 .. Varints - 1 /\ j \in 0 .. Varints - 1
    BY <2>1, VarintAssumption
  <2>3. Len(Varint(k)) \in Nat \ {0} /\ Len(Varint(j)) \in Nat \ {0}
    BY <2>2, VarintType
  <2>4. CASE j < 128
    <3>1. Len(Varint(j)) = 1
      BY <2>2, <2>4, VarintBytesAre
    <3>2. QED BY <2>3, <3>1
  <2>5. CASE j >= 128
    <3>1. k \div 128 \in 0 .. k - 1 /\ j \div 128 \in 0 .. k \div 128 /\ k >= 128
      BY <2>1, <2>5
    <3>2. k \div 128 < Varints
      BY <2>1, <3>1, VarintAssumption
    <3>3. Len(Varint(j \div 128)) <= Len(Varint(k \div 128))
      BY <1>1, <3>1, <3>2
    <3>4. /\ Len(Varint(j)) = Len(Varint(j \div 128)) + 1
          /\ Len(Varint(k)) = Len(Varint(k \div 128)) + 1
      BY <2>2, <2>5, <3>1, VarintBytesAre
    <3>5. /\ j \div 128 \in 0 .. Varints - 1 /\ k \div 128 \in 0 .. Varints - 1
      BY <2>2, <2>5, <3>1, VarintBytesAre
    <3>6. QED BY <3>3, <3>4, <3>5, VarintType
  <2>6. QED BY <2>1, <2>4, <2>5
<1> HIDE DEF A
<1>2. m \in A
  BY <1>1, StrongInduction, VarintAssumption
<1>3. QED BY <1>2, VarintAssumption DEF A

\* None takes more than VarintBytes.
LEMMA VarintFits ==
  ASSUME NEW n \in 0 .. Varints - 1 PROVE Len(Varint(n)) <= VarintBytes /\ VarintBytes \in Nat \ {0}
<1>1. Varints - 1 \in 0 .. Varints - 1 /\ n \in 0 .. Varints - 1
  BY VarintAssumption
<1>2. QED BY <1>1, VarintGrows, VarintType DEF VarintBytes

-----------------------------------------------------------------------------
(* Varints, read *)

\* The function by which Sevens is computed, down to i.
Sums(f, b, i, last) ==
  f = [k \in i .. last + 1 |-> IF k = last + 1 THEN 0 ELSE 128 * f[k + 1] + (b[k] % 128)]

\* There is one.
LEMMA SumsExists ==
  ASSUME NEW b, NEW last \in Nat, NEW i \in 1 .. last + 1 PROVE \E f : Sums(f, b, i, last)
<1> DEFINE A == {j \in Nat : j <= last => \E f : Sums(f, b, last + 1 - j, last)}
<1>1. 0 \in A
  <2>1. \A k \in last + 1 .. last + 1 : k = last + 1
    OBVIOUS
  <2> DEFINE f == [k \in last + 1 .. last + 1 |-> 0]
  <2>2. f = [k \in last + 1 .. last + 1 |-> IF k = last + 1 THEN 0 ELSE 128 * f[k + 1] + (b[k] % 128)]
    BY <2>1
  <2> HIDE DEF f
  <2>3. Sums(f, b, last + 1, last) /\ last + 1 - 0 = last + 1
    BY <2>2 DEF Sums
  <2>4. QED BY <2>3
<1>2. ASSUME NEW j \in Nat, j \in A PROVE j + 1 \in A
  <2>1. SUFFICES ASSUME j + 1 <= last PROVE \E f : Sums(f, b, last + 1 - (j + 1), last)
    OBVIOUS
  <2>2. PICK f : Sums(f, b, last + 1 - j, last)
    BY <1>2, <2>1
  <2>3. PICK d \in Nat : d = last - j /\ last + 1 - j = d + 1 /\ last + 1 - (j + 1) = d /\ d <= last
    BY <2>1
  <2> DEFINE e(h, k) == IF k = last + 1 THEN 0 ELSE 128 * h[k + 1] + (b[k] % 128)
             g == [k \in d .. last + 1 |-> e(f, k)]
  <2>4. f = [k \in d + 1 .. last + 1 |-> e(f, k)]
    BY <2>2, <2>3 DEF Sums
  <2>5. \A k \in d + 1 .. last + 1 : g[k] = f[k]
    <3>1. \A k \in d + 1 .. last + 1 : f[k] = e(f, k)
      BY <2>4
    <3>2. \A k \in d + 1 .. last + 1 : k \in d .. last + 1
      BY <2>3
    <3>3. QED BY <3>1, <3>2
  <2>6. \A k \in d .. last + 1 : e(f, k) = e(g, k)
    <3>1. SUFFICES ASSUME NEW k \in d .. last + 1, k # last + 1 PROVE g[k + 1] = f[k + 1]
      OBVIOUS
    <3>2. k + 1 \in d + 1 .. last + 1
      BY <2>3, <3>1
    <3>3. QED BY <2>5, <3>2
  <2>7. g = [k \in d .. last + 1 |-> e(g, k)]
    BY <2>6
  <2>8. Sums(g, b, d, last)
    BY <2>7 DEF Sums
  <2> HIDE DEF g
  <2>9. QED BY <2>3, <2>8
<1> HIDE DEF A
<1>3. last + 1 - i \in A /\ last + 1 - i <= last /\ last + 1 - (last + 1 - i) = i
  BY <1>1, <1>2, SetInduction
<1>4. QED BY <1>3 DEF A

\* What Sevens is.
LEMMA SevensIs ==
  ASSUME NEW b, NEW last \in Nat, NEW i \in 1 .. last + 1
  PROVE  Sevens(b, i, last) = IF i = last + 1 THEN 0 ELSE 128 * Sevens(b, i + 1, last) + (b[i] % 128)
<1> DEFINE f == CHOOSE f : Sums(f, b, 1, last)
<1>1. Sums(f, b, 1, last)
  <2>1. 1 \in 1 .. last + 1
    OBVIOUS
  <2>2. QED BY <2>1, SumsExists
<1>2. \A k : Sevens(b, k, last) = f[k]
  BY DEF Sevens, Sums
<1>3. f = [k \in 1 .. last + 1 |-> IF k = last + 1 THEN 0 ELSE 128 * f[k + 1] + (b[k] % 128)]
  BY <1>1 DEF Sums
<1> HIDE DEF f
<1>4. f[i] = IF i = last + 1 THEN 0 ELSE 128 * f[i + 1] + (b[i] % 128)
  BY <1>3
<1>5. QED BY <1>2, <1>4

\* It is a number.
LEMMA SevensType ==
  ASSUME NEW b \in Seq(Octet), NEW last \in 0 .. Len(b), NEW i \in 1 .. last + 1
  PROVE  Sevens(b, i, last) \in Nat
<1> DEFINE A == {j \in Nat : j <= last => Sevens(b, last + 1 - j, last) \in Nat}
<1>1. 0 \in A
  <2>1. last + 1 \in 1 .. last + 1 /\ last + 1 - 0 = last + 1 /\ last \in Nat
    OBVIOUS
  <2>2. QED BY <2>1, SevensIs
<1>2. ASSUME NEW j \in Nat, j \in A PROVE j + 1 \in A
  <2>1. SUFFICES ASSUME j + 1 <= last PROVE Sevens(b, last + 1 - (j + 1), last) \in Nat
    OBVIOUS
  <2>2. PICK d \in Nat : /\ d = last + 1 - (j + 1) /\ d + 1 = last + 1 - j
                         /\ d \in 1 .. last + 1 /\ d # last + 1
    BY <2>1
  <2>3. Sevens(b, d + 1, last) \in Nat
    BY <1>2, <2>1, <2>2
  <2>4. d \in 1 .. Len(b) /\ b[d] \in Octet
    BY <2>2
  <2>5. b[d] % 128 \in Nat
    <3>1. b[d] \in Nat
      BY <2>4, OctetFact
    <3>2. QED BY <3>1, SevenBits
  <2>6. Sevens(b, d, last) = 128 * Sevens(b, d + 1, last) + (b[d] % 128)
    BY <2>2, SevensIs
  <2>7. QED BY <2>2, <2>3, <2>5, <2>6
<1> HIDE DEF A
<1>3. last + 1 - i \in A /\ last + 1 - i <= last /\ last + 1 - (last + 1 - i) = i
  BY <1>1, <1>2, SetInduction
<1>4. QED BY <1>3 DEF A

\* The bytes w are in b from position i on.
Lies(b, i, w) == i + Len(w) - 1 <= Len(b) /\ \A k \in 1 .. Len(w) : b[i + k - 1] = w[k]

\* The bytes of a varint end at its last one, and make its number.
LEMMA VarintLies ==
  ASSUME NEW b \in Seq(Octet), NEW n \in 0 .. Varints - 1, NEW i \in Nat \ {0}, Lies(b, i, Varint(n))
  PROVE  LET last == i + Len(Varint(n)) - 1
         IN  /\ last \in i .. Len(b) /\ b[last] < 128
             /\ \A k \in i .. last - 1 : b[k] >= 128
             /\ Sevens(b, i, last) = n
<1> DEFINE EndAt(k, j) == j + Len(Varint(k)) - 1
           Ends(k, j) == /\ EndAt(k, j) \in j .. Len(b) /\ b[EndAt(k, j)] < 128
                         /\ \A l \in j .. EndAt(k, j) - 1 : b[l] >= 128
                         /\ Sevens(b, j, EndAt(k, j)) = k
           A == {k \in Nat : k < Varints => \A j \in Nat \ {0} : Lies(b, j, Varint(k)) => Ends(k, j)}
<1>1. ASSUME NEW k \in Nat, \A m \in 0 .. k - 1 : m \in A PROVE k \in A
  <2>1. SUFFICES ASSUME k < Varints, NEW j \in Nat \ {0}, Lies(b, j, Varint(k)) PROVE Ends(k, j)
    OBVIOUS
  <2>2. k \in 0 .. Varints - 1
    BY <2>1, VarintAssumption
  <2>3. Len(Varint(k)) \in Nat \ {0}
    BY <2>2, VarintType
  <2>4. j + Len(Varint(k)) - 1 <= Len(b) /\ \A l \in 1 .. Len(Varint(k)) : b[j + l - 1] = Varint(k)[l]
    BY <2>1 DEF Lies
  <2>5. CASE k < 128
    <3>1. Len(Varint(k)) = 1 /\ Varint(k)[1] = k
      BY <2>2, <2>5, VarintBytesAre
    <3>2. EndAt(k, j) = j /\ j \in 1 .. Len(b) /\ b[j] = k
      <4>1. j + 1 - 1 = j /\ 1 \in 1 .. Len(Varint(k))
        BY <3>1
      <4>2. b[j + 1 - 1] = Varint(k)[1]
        BY <2>4, <4>1
      <4>3. QED BY <2>4, <3>1, <4>1, <4>2
    <3>3. Sevens(b, j, j) = k
      <4>1. j \in Nat /\ j \in 1 .. j + 1 /\ j + 1 \in 1 .. j + 1 /\ j # j + 1
        OBVIOUS
      <4>2. Sevens(b, j + 1, j) = 0
        BY <4>1, SevensIs
      <4>3. Sevens(b, j, j) = 128 * Sevens(b, j + 1, j) + (b[j] % 128)
        BY <4>1, SevensIs
      <4>4. QED BY <2>5, <3>2, <4>2, <4>3
    <3>4. QED BY <2>5, <3>2, <3>3
  <2>6. CASE k >= 128
    <3>1. PICK q \in 0 .. k - 1 : q = k \div 128
      BY <2>6, SevenBits
    <3>2. /\ q \in 0 .. Varints - 1
          /\ Len(Varint(k)) = Len(Varint(q)) + 1
          /\ Varint(k)[1] = 128 + (k % 128)
          /\ \A l \in 1 .. Len(Varint(q)) : Varint(k)[l + 1] = Varint(q)[l]
      BY <2>2, <2>6, <3>1, VarintBytesAre
    <3>3. Len(Varint(q)) \in Nat \ {0}
      BY <3>2, VarintType
    <3>4. Lies(b, j + 1, Varint(q))
      <4>1. (j + 1) + Len(Varint(q)) - 1 <= Len(b)
        BY <2>4, <3>2, <3>3
      <4>2. ASSUME NEW l \in 1 .. Len(Varint(q)) PROVE b[(j + 1) + l - 1] = Varint(q)[l]
        <5>1. l + 1 \in 1 .. Len(Varint(k)) /\ j + (l + 1) - 1 = (j + 1) + l - 1
          BY <3>2, <3>3
        <5>2. b[j + (l + 1) - 1] = Varint(k)[l + 1]
          BY <2>4, <5>1
        <5>3. QED BY <3>2, <5>1, <5>2
      <4>3. QED BY <4>1, <4>2 DEF Lies
    <3>5. Ends(q, j + 1)
      <4>1. q \in A
        BY <1>1, <3>1
      <4>2. q < Varints /\ j + 1 \in Nat \ {0}
        BY <3>2, VarintsFact
      <4>3. QED BY <3>4, <4>1, <4>2
    <3>6. b[j] = 128 + (k % 128) /\ b[j] >= 128 /\ b[j] % 128 = k % 128
      <4>1. 1 \in 1 .. Len(Varint(k)) /\ j + 1 - 1 = j
        BY <2>3
      <4>2. b[j] = 128 + (k % 128)
        BY <2>4, <3>2, <4>1
      <4>3. k % 128 \in 0 .. 127
        BY SevenBits
      <4>4. QED BY <4>2, <4>3
    <3>7. PICK last \in Nat : last = EndAt(k, j) /\ last = EndAt(q, j + 1) /\ j <= last - 1 /\ last <= Len(b)
      BY <2>4, <3>2, <3>3
    <3>8. last \in j .. Len(b) /\ b[last] < 128
      BY <3>5, <3>7
    <3>9. \A l \in j .. last - 1 : b[l] >= 128
      <4>1. \A l \in j .. last - 1 : l = j \/ l \in j + 1 .. last - 1
        OBVIOUS
      <4>2. \A l \in j + 1 .. last - 1 : b[l] >= 128
        BY <3>5, <3>7
      <4>3. QED BY <3>6, <4>1, <4>2
    <3>10. Sevens(b, j, last) = k
      <4>1. j \in 1 .. last + 1 /\ j # last + 1
        BY <3>7
      <4>2. Sevens(b, j, last) = 128 * Sevens(b, j + 1, last) + (b[j] % 128)
        BY <4>1, SevensIs
      <4>3. Sevens(b, j + 1, last) = q
        BY <3>5, <3>7
      <4>4. k = 128 * (k \div 128) + (k % 128)
        BY SevenBits
      <4>5. QED BY <3>1, <3>6, <4>2, <4>3, <4>4
    <3>11. QED BY <3>7, <3>8, <3>9, <3>10
  <2>7. QED BY <2>5, <2>6
<1>2. n \in A
  <2> HIDE DEF A
  <2>1. QED BY <1>1, StrongInduction, VarintAssumption
<1>3. n < Varints
  BY VarintAssumption
<1>4. Ends(n, i)
  BY <1>2, <1>3
<1>5. QED BY <1>4

\* A varint is read as the number that was written.
LEMMA VarintRead ==
  ASSUME NEW b \in Seq(Octet), NEW n \in 0 .. Varints - 1, NEW i \in Nat \ {0}, Lies(b, i, Varint(n))
  PROVE  ReadVarint(b, i) = Read(n, i + Len(Varint(n)))
<1> DEFINE end == i + Len(Varint(n)) - 1
           ends == {k \in i .. i + VarintBytes - 1 : k <= Len(b) /\ b[k] < 128}
           last == CHOOSE k \in ends : \A j \in ends : k <= j
<1>1. Len(Varint(n)) \in Nat \ {0} /\ Len(Varint(n)) <= VarintBytes /\ VarintBytes \in Nat \ {0}
  BY VarintType, VarintFits
<1>2. /\ end \in i .. Len(b) /\ b[end] < 128
      /\ \A k \in i .. end - 1 : b[k] >= 128
      /\ Sevens(b, i, end) = n
  BY VarintLies
<1>3. end \in ends
  BY <1>1, <1>2
<1>4. \A j \in ends : end <= j
  <2>1. SUFFICES ASSUME NEW j \in ends, ~(end <= j) PROVE FALSE
    OBVIOUS
  <2>2. j \in i .. end - 1 /\ b[j] < 128 /\ j \in 1 .. Len(b) /\ b[j] \in Octet
    BY <1>1, <1>2, <2>1
  <2>3. b[j] >= 128
    BY <1>2, <2>2
  <2>4. b[j] \in Nat
    BY <2>2, OctetFact
  <2> HIDE DEF ends
  <2>5. QED BY <2>2, <2>3, <2>4
<1>5. last = end
  <2>1. last \in ends /\ \A j \in ends : last <= j
    BY <1>3, <1>4
  <2>2. last <= end /\ end <= last
    BY <1>3, <1>4, <2>1
  <2>3. last \in Nat /\ end \in Nat
    BY <1>1, <1>2, <2>1
  <2> HIDE DEF last, end
  <2>4. QED BY <2>2, <2>3
<1>6. n % Varints = n
  BY VarintAssumption
<1>7. ReadVarint(b, i) = Read(Sevens(b, i, last) % Varints, last + 1)
  BY <1>3 DEF ReadVarint
<1>8. end + 1 = i + Len(Varint(n))
  BY <1>1
<1> HIDE DEF end, last
<1>9. QED BY <1>2, <1>5, <1>6, <1>7, <1>8

\* What is read as a varint is a number of a varint, and takes a byte at least.
LEMMA VarintReads ==
  ASSUME NEW b \in Seq(Octet), NEW i \in Nat \ {0}, ReadVarint(b, i).ok
  PROVE  /\ ReadVarint(b, i).v \in 0 .. Varints - 1
         /\ ReadVarint(b, i).at \in i + 1 .. Len(b) + 1
<1> DEFINE ends == {k \in i .. i + VarintBytes - 1 : k <= Len(b) /\ b[k] < 128}
           last == CHOOSE k \in ends : \A j \in ends : k <= j
<1>1. ends # {} /\ ReadVarint(b, i) = Read(Sevens(b, i, last) % Varints, last + 1)
  BY DEF ReadVarint, NotRead
<1>2. VarintBytes \in Nat \ {0}
  BY VarintsFact, VarintFits
<1>3. ends \in SUBSET Nat
  BY <1>2
<1>4. \E x \in ends : \A y \in ends : x <= y
  <2> HIDE DEF ends
  <2>1. QED BY <1>1, <1>3, LeastExists
<1>5. last \in ends
  BY <1>4
<1>6. last \in i .. Len(b)
  BY <1>2, <1>5
<1>7. Sevens(b, i, last) \in Nat
  <2>1. last \in 0 .. Len(b) /\ i \in 1 .. last + 1
    BY <1>6
  <2>2. QED BY <2>1, SevensType
<1>8. Sevens(b, i, last) % Varints \in 0 .. Varints - 1
  BY <1>7, VarintsFact
<1> HIDE DEF last
<1>9. QED BY <1>1, <1>6, <1>8 DEF Read

-----------------------------------------------------------------------------
(* Sequences, one after the other *)

\* Induction over sequences, for a set of them.
LEMMA SeqInduction ==
  ASSUME NEW S, NEW A, <<>> \in A, \A s \in Seq(S) : \A x \in S : s \in A => Append(s, x) \in A
  PROVE  Seq(S) \subseteq A
<1> DEFINE B == {n \in Nat : \A s \in Seq(S) : Len(s) = n => s \in A}
<1>1. 0 \in B
  <2>1. \A s \in Seq(S) : Len(s) = 0 => s = <<>>
    BY EmptySeq
  <2>2. QED BY <2>1
<1>2. ASSUME NEW n \in Nat, n \in B PROVE n + 1 \in B
  <2>1. SUFFICES ASSUME NEW s \in Seq(S), Len(s) = n + 1 PROVE s \in A
    OBVIOUS
  <2>2. s # <<>>
    BY <2>1
  <2>3. PICK t \in Seq(S), x \in S : s = Append(t, x)
    BY <2>2, SequenceEmptyOrAppend
  <2>4. Len(t) = n
    BY <2>1, <2>3
  <2>5. QED BY <1>2, <2>3, <2>4
<1> HIDE DEF B
<1>3. \A s \in Seq(S) : Len(s) \in B
  BY <1>1, <1>2, SetInduction
<1>4. QED BY <1>3 DEF B

\* The function by which FlattenSeq is computed.
Flattens(f, ss) == f = [i \in 1 .. Len(ss) |-> IF i = 1 THEN ss[i] ELSE f[i - 1] \o ss[i]]

\* There is one.
LEMMA FlattensExists ==
  ASSUME NEW T, NEW ss \in Seq(T) PROVE \E f : Flattens(f, ss)
<1> DEFINE A == {s \in Seq(T) : \E f : Flattens(f, s)}
<1>1. <<>> \in A
  <2> DEFINE f == [i \in 1 .. Len(<<>>) |-> 0]
  <2>1. f = [i \in 1 .. Len(<<>>) |-> IF i = 1 THEN <<>>[i] ELSE f[i - 1] \o <<>>[i]]
    OBVIOUS
  <2> HIDE DEF f
  <2>2. Flattens(f, <<>>)
    BY <2>1 DEF Flattens
  <2>3. QED BY <2>2
<1>2. ASSUME NEW s \in Seq(T), NEW x \in T, s \in A PROVE Append(s, x) \in A
  <2>1. PICK f : Flattens(f, s)
    BY <1>2
  <2> DEFINE u == Append(s, x)
             e(h, i) == IF i = 1 THEN u[i] ELSE h[i - 1] \o u[i]
             g == [i \in 1 .. Len(u) |-> e(f, i)]
  <2>2. u \in Seq(T) /\ Len(u) = Len(s) + 1 /\ \A i \in 1 .. Len(s) : u[i] = s[i]
    BY AppendProperties
  <2> HIDE DEF u
  <2>3. \A i \in 1 .. Len(s) : g[i] = f[i]
    <3>1. f = [i \in 1 .. Len(s) |-> IF i = 1 THEN s[i] ELSE f[i - 1] \o s[i]]
      BY <2>1 DEF Flattens
    <3>2. \A i \in 1 .. Len(s) : f[i] = IF i = 1 THEN s[i] ELSE f[i - 1] \o s[i]
      BY <3>1
    <3>3. \A i \in 1 .. Len(s) : i \in 1 .. Len(u)
      BY <2>2
    <3>4. QED BY <2>2, <3>2, <3>3
  <2>4. \A i \in 1 .. Len(u) : e(f, i) = e(g, i)
    <3>1. SUFFICES ASSUME NEW i \in 1 .. Len(u), i # 1 PROVE g[i - 1] = f[i - 1]
      OBVIOUS
    <3>2. i - 1 \in 1 .. Len(s)
      BY <2>2, <3>1
    <3>3. QED BY <2>3, <3>2
  <2>5. g = [i \in 1 .. Len(u) |-> e(g, i)]
    BY <2>4
  <2>6. Flattens(g, u)
    BY <2>5 DEF Flattens
  <2> HIDE DEF g
  <2>7. QED BY <2>2, <2>6 DEF u
<1>3. ss \in A
  <2> HIDE DEF A
  <2>1. QED BY <1>1, <1>2, SeqInduction
<1>4. QED BY <1>3

\* It is the same for a sequence and a longer one, as far as they agree.
LEMMA FlattensSame ==
  ASSUME NEW T, NEW ss \in Seq(T), NEW tt \in Seq(T), Len(ss) <= Len(tt),
         \A i \in 1 .. Len(ss) : ss[i] = tt[i],
         NEW f, NEW g, Flattens(f, ss), Flattens(g, tt)
  PROVE  \A i \in 1 .. Len(ss) : f[i] = g[i]
<1> PICK n \in Nat : n = Len(ss)
  OBVIOUS
<1> DEFINE A == {k \in Nat : k \in 1 .. n => f[k] = g[k]}
<1>1. \A i \in 1 .. n : /\ f[i] = IF i = 1 THEN ss[i] ELSE f[i - 1] \o ss[i]
                        /\ g[i] = IF i = 1 THEN tt[i] ELSE g[i - 1] \o tt[i]
  <2>1. f = [i \in 1 .. Len(ss) |-> IF i = 1 THEN ss[i] ELSE f[i - 1] \o ss[i]]
    BY DEF Flattens
  <2>2. g = [i \in 1 .. Len(tt) |-> IF i = 1 THEN tt[i] ELSE g[i - 1] \o tt[i]]
    BY DEF Flattens
  <2>3. \A i \in 1 .. n : i \in 1 .. Len(ss) /\ i \in 1 .. Len(tt)
    OBVIOUS
  <2>4. QED BY <2>1, <2>2, <2>3
<1>2. 0 \in A
  OBVIOUS
<1>3. ASSUME NEW k \in Nat, k \in A PROVE k + 1 \in A
  <2>1. SUFFICES ASSUME k + 1 \in 1 .. n PROVE f[k + 1] = g[k + 1]
    OBVIOUS
  <2>2. ss[k + 1] = tt[k + 1] /\ (k + 1) - 1 = k /\ (k + 1 # 1 => k \in 1 .. n)
    BY <2>1
  <2>3. k + 1 # 1 => f[k] = g[k]
    BY <1>3, <2>2
  <2>4. /\ f[k + 1] = IF k + 1 = 1 THEN ss[k + 1] ELSE f[k] \o ss[k + 1]
        /\ g[k + 1] = IF k + 1 = 1 THEN tt[k + 1] ELSE g[k] \o tt[k + 1]
    <3>1. /\ f[k + 1] = IF k + 1 = 1 THEN ss[k + 1] ELSE f[(k + 1) - 1] \o ss[k + 1]
          /\ g[k + 1] = IF k + 1 = 1 THEN tt[k + 1] ELSE g[(k + 1) - 1] \o tt[k + 1]
      BY <1>1, <2>1, Zenon
    <3>2. QED BY <2>2, <3>1, Zenon
  <2>5. QED BY <2>2, <2>3, <2>4, Zenon
<1> HIDE DEF A
<1>4. Nat \subseteq A
  BY <1>2, <1>3, SetInduction
<1>5. \A i \in 1 .. n : i \in A
  BY <1>4
<1>6. QED BY <1>5 DEF A

\* What FlattenSeq makes.
LEMMA FlattenAppend ==
  ASSUME NEW T, NEW ss \in Seq(T), NEW s \in T
  PROVE  FlattenSeq(Append(ss, s)) = (IF ss = <<>> THEN s ELSE FlattenSeq(ss) \o s)
<1> DEFINE u == Append(ss, s)
           f == CHOOSE h : Flattens(h, ss)
           g == CHOOSE h : Flattens(h, u)
<1>1. u \in Seq(T) /\ Len(u) = Len(ss) + 1 /\ u[Len(ss) + 1] = s /\ \A i \in 1 .. Len(ss) : u[i] = ss[i]
  BY AppendProperties
<1> HIDE DEF u
<1>2. Flattens(f, ss) /\ Flattens(g, u)
  BY <1>1, FlattensExists
<1>3. FlattenSeq(u) = g[Len(u)]
  BY <1>1 DEF FlattenSeq, Flattens
<1>4. ss # <<>> => FlattenSeq(ss) = f[Len(ss)]
  <2>1. ss # <<>> => Len(ss) # 0
    BY EmptySeq
  <2>2. QED BY <2>1 DEF FlattenSeq, Flattens
<1> HIDE DEF f, g
<1>5. \A i \in 1 .. Len(ss) : f[i] = g[i]
  <2>1. Len(ss) <= Len(u)
    BY <1>1
  <2>2. \A i \in 1 .. Len(ss) : ss[i] = u[i]
    BY <1>1
  <2>3. QED BY <1>1, <1>2, <2>1, <2>2, FlattensSame
<1>6. g[Len(u)] = IF Len(u) = 1 THEN u[Len(u)] ELSE g[Len(u) - 1] \o u[Len(u)]
  <2>1. g = [i \in 1 .. Len(u) |-> IF i = 1 THEN u[i] ELSE g[i - 1] \o u[i]]
    BY <1>2 DEF Flattens
  <2>2. Len(u) \in 1 .. Len(u)
    BY <1>1
  <2>3. QED BY <2>1, <2>2
<1>7. CASE ss = <<>>
  BY <1>1, <1>3, <1>6, <1>7 DEF u
<1>8. CASE ss # <<>>
  <2>1. Len(ss) \in Nat \ {0}
    BY <1>8, EmptySeq
  <2>2. Len(u) # 1 /\ Len(u) - 1 = Len(ss) /\ g[Len(ss)] = f[Len(ss)]
    BY <1>1, <1>5, <2>1
  <2>3. QED BY <1>1, <1>3, <1>4, <1>6, <1>8, <2>2 DEF u
<1>9. QED BY <1>7, <1>8

\* Nothing makes nothing,
LEMMA FlattenEmpty == FlattenSeq(<<>>) = <<>>
  BY DEF FlattenSeq

\* and sequences of a type make one of that type.
LEMMA FlattenType ==
  ASSUME NEW S, NEW ss \in Seq(Seq(S)) PROVE FlattenSeq(ss) \in Seq(S)
<1> DEFINE A == {s \in Seq(Seq(S)) : FlattenSeq(s) \in Seq(S)}
<1>1. <<>> \in A
  <2>1. <<>> \in Seq(S) /\ <<>> \in Seq(Seq(S))
    OBVIOUS
  <2>2. QED BY <2>1, FlattenEmpty
<1>2. ASSUME NEW s \in Seq(Seq(S)), NEW x \in Seq(S), s \in A PROVE Append(s, x) \in A
  <2>1. FlattenSeq(s) \in Seq(S) /\ Append(s, x) \in Seq(Seq(S))
    BY <1>2, AppendProperties
  <2>2. FlattenSeq(s) \o x \in Seq(S)
    BY <2>1, ConcatProperties
  <2>3. FlattenSeq(Append(s, x)) \in Seq(S)
    BY <2>2, FlattenAppend
  <2>4. QED BY <2>1, <2>3
<1> HIDE DEF A
<1>3. ss \in A
  BY <1>1, <1>2, SeqInduction
<1>4. QED BY <1>3 DEF A

\* One sequence more at the end.
LEMMA FlattenOneMore ==
  ASSUME NEW S, NEW ss \in Seq(Seq(S)), NEW s \in Seq(S)
  PROVE  FlattenSeq(Append(ss, s)) = FlattenSeq(ss) \o s
<1>1. CASE ss = <<>>
  <2>1. FlattenSeq(Append(ss, s)) = s
    BY <1>1, FlattenAppend
  <2>2. FlattenSeq(ss) \o s = s
    BY <1>1, FlattenEmpty, ConcatEmptySeq
  <2>3. QED BY <2>1, <2>2
<1>2. CASE ss # <<>>
  BY <1>2, FlattenAppend
<1>3. QED BY <1>1, <1>2

\* Bytes that follow each other.
LEMMA LiesConcat ==
  ASSUME NEW b \in Seq(Octet), NEW u \in Seq(Octet), NEW w \in Seq(Octet), NEW i \in Nat \ {0}
  PROVE  /\ Lies(b, i, u \o w) <=> Lies(b, i, u) /\ Lies(b, i + Len(u), w)
         /\ Lies(u \o w, 1, u) /\ Lies(u \o w, 1 + Len(u), w)
<1>1. /\ Len(u) \in Nat /\ Len(w) \in Nat /\ Len(b) \in Nat
      /\ u \o w \in Seq(Octet) /\ Len(u \o w) = Len(u) + Len(w)
  BY ConcatProperties
<1>2. ASSUME NEW k \in 1 .. Len(u) PROVE (u \o w)[k] = u[k]
  BY <1>1, ConcatProperties
<1>3. ASSUME NEW k \in 1 .. Len(w) PROVE (u \o w)[Len(u) + k] = w[k]
  BY <1>1, ConcatProperties
<1>4. \A k \in 1 .. Len(u) + Len(w) : k \in 1 .. Len(u) \/ \E j \in 1 .. Len(w) : k = Len(u) + j
  <2>1. SUFFICES ASSUME NEW k \in 1 .. Len(u) + Len(w), k \notin 1 .. Len(u)
                 PROVE  \E j \in 1 .. Len(w) : k = Len(u) + j
    OBVIOUS
  <2>2. k - Len(u) \in 1 .. Len(w) /\ k = Len(u) + (k - Len(u))
    BY <1>1, <2>1
  <2>3. QED BY <2>2
<1>5. ASSUME Lies(b, i, u \o w) PROVE Lies(b, i, u) /\ Lies(b, i + Len(u), w)
  <2>1. /\ i + Len(u) + Len(w) - 1 <= Len(b)
        /\ \A k \in 1 .. Len(u) + Len(w) : b[i + k - 1] = (u \o w)[k]
    BY <1>1, <1>5 DEF Lies
  <2>2. i + Len(u) - 1 <= Len(b) /\ (i + Len(u)) + Len(w) - 1 <= Len(b)
    BY <1>1, <2>1
  <2>3. ASSUME NEW k \in 1 .. Len(u) PROVE b[i + k - 1] = u[k]
    <3>1. k \in 1 .. Len(u) + Len(w)
      BY <1>1
    <3>2. QED BY <1>2, <2>1, <3>1
  <2>4. ASSUME NEW k \in 1 .. Len(w) PROVE b[(i + Len(u)) + k - 1] = w[k]
    <3>1. Len(u) + k \in 1 .. Len(u) + Len(w) /\ (i + Len(u)) + k - 1 = i + (Len(u) + k) - 1
      BY <1>1
    <3>2. b[i + (Len(u) + k) - 1] = (u \o w)[Len(u) + k]
      BY <2>1, <3>1
    <3>3. QED BY <1>3, <3>1, <3>2
  <2>5. QED BY <2>2, <2>3, <2>4 DEF Lies
<1>6. ASSUME Lies(b, i, u), Lies(b, i + Len(u), w) PROVE Lies(b, i, u \o w)
  <2>1. /\ (i + Len(u)) + Len(w) - 1 <= Len(b)
        /\ \A k \in 1 .. Len(u) : b[i + k - 1] = u[k]
        /\ \A k \in 1 .. Len(w) : b[(i + Len(u)) + k - 1] = w[k]
    BY <1>6 DEF Lies
  <2>2. i + Len(u \o w) - 1 <= Len(b)
    BY <1>1, <2>1
  <2>3. ASSUME NEW k \in 1 .. Len(u) + Len(w) PROVE b[i + k - 1] = (u \o w)[k]
    <3>1. CASE k \in 1 .. Len(u)
      BY <1>2, <2>1, <3>1
    <3>2. ASSUME NEW j \in 1 .. Len(w), k = Len(u) + j PROVE b[i + k - 1] = (u \o w)[k]
      <4>1. (i + Len(u)) + j - 1 = i + k - 1
        BY <1>1, <3>2
      <4>2. b[i + k - 1] = w[j]
        BY <2>1, <4>1
      <4>3. QED BY <1>3, <3>2, <4>2
    <3>3. QED BY <1>4, <3>1, <3>2
  <2>4. QED BY <1>1, <2>2, <2>3 DEF Lies
<1>7. Lies(u \o w, 1, u) /\ Lies(u \o w, 1 + Len(u), w)
  <2>1. \A k \in 1 .. Len(u) : 1 + k - 1 = k
    OBVIOUS
  <2>2. \A k \in 1 .. Len(w) : (1 + Len(u)) + k - 1 = Len(u) + k
    BY <1>1
  <2>3. 1 + Len(u) - 1 <= Len(u \o w) /\ (1 + Len(u)) + Len(w) - 1 <= Len(u \o w)
    BY <1>1
  <2>4. QED BY <1>2, <1>3, <2>1, <2>2, <2>3 DEF Lies
<1>8. QED BY <1>5, <1>6, <1>7

\* What lies somewhere is what is cut out there.
LEMMA LiesSubSeq ==
  ASSUME NEW b \in Seq(Octet), NEW w \in Seq(Octet), NEW i \in Nat \ {0}, Lies(b, i, w)
  PROVE  SubSeq(b, i, i + Len(w) - 1) = w
<1> PICK j \in Nat : j = i + Len(w) - 1
  OBVIOUS
<1>1. j <= Len(b) /\ Len(w) = j - i + 1 /\ \A k \in 1 .. Len(w) : b[i + k - 1] = w[k]
  BY DEF Lies
<1>2. \A k \in i .. j : b[k] \in Octet
  <2>1. \A k \in i .. j : k \in 1 .. Len(b)
    BY <1>1
  <2>2. QED BY <2>1, ElementOfSeq
<1>3. /\ SubSeq(b, i, j) \in Seq(Octet)
      /\ Len(SubSeq(b, i, j)) = IF i <= j THEN j - i + 1 ELSE 0
      /\ \A k \in 1 .. j - i + 1 : SubSeq(b, i, j)[k] = b[i + k - 1]
  BY <1>2, SubSeqProperties
<1>4. Len(SubSeq(b, i, j)) = Len(w)
  BY <1>1, <1>3
<1>5. \A k \in 1 .. Len(w) : SubSeq(b, i, j)[k] = w[k]
  BY <1>1, <1>3
<1>6. QED BY <1>3, <1>4, <1>5, SeqEqual

-----------------------------------------------------------------------------
(* Fields *)

\* Fields as they are sent.
WireFields ==
  {f \in [tag : 8 .. Varints - 1, v : (0 .. Varints - 1) \cup Seq(Octet)] :
     /\ f.tag % 8 \in {0, 1, 2, 5}
     /\ f.tag % 8 = 0 => f.v \in 0 .. Varints - 1
     /\ f.tag % 8 = 1 => f.v \in Seq(Octet) /\ Len(f.v) = 8
     /\ f.tag % 8 = 2 => f.v \in Seq(Octet) /\ Len(f.v) < Varints
     /\ f.tag % 8 = 5 => f.v \in Seq(Octet) /\ Len(f.v) = 4}

\* How a value is written and read, by the three low bits of its tag.
LEMMA WireFact ==
  /\ \A v : /\ WriteField(0, v) = Varint(v) /\ WriteField(2, v) = Varint(Len(v)) \o v
            /\ WriteField(1, v) = v /\ WriteField(5, v) = v
  /\ \A b, i : /\ ReadField(b, i, 0) = ReadVarint(b, i) /\ ReadField(b, i, 2) = ReadBytes(b, i)
                /\ ReadField(b, i, 1) = Take(b, i, 8) /\ ReadField(b, i, 5) = Take(b, i, 4)
  BY DEF WriteField, ReadField

\* The bytes of a field are two at least: a tag, and a value.
LEMMA FieldBytesFact ==
  ASSUME NEW f \in WireFields
  PROVE  /\ Varint(f.tag) \in Seq(Octet) /\ Len(Varint(f.tag)) \in Nat \ {0}
         /\ WriteField(f.tag % 8, f.v) \in Seq(Octet) /\ Len(WriteField(f.tag % 8, f.v)) \in Nat \ {0}
         /\ FieldBytes(f) \in Seq(Octet)
         /\ Len(FieldBytes(f)) = Len(Varint(f.tag)) + Len(WriteField(f.tag % 8, f.v))
<1>1. f.tag \in 0 .. Varints - 1
  BY VarintsFact DEF WireFields
<1>2. Varint(f.tag) \in Seq(Octet) /\ Len(Varint(f.tag)) \in Nat \ {0}
  BY <1>1, VarintType
<1>3. WriteField(f.tag % 8, f.v) \in Seq(Octet) /\ Len(WriteField(f.tag % 8, f.v)) \in Nat \ {0}
  <2>1. CASE f.tag % 8 = 0
    <3>1. WriteField(f.tag % 8, f.v) = Varint(f.v) /\ f.v \in 0 .. Varints - 1
      BY <2>1, WireFact DEF WireFields
    <3>2. QED BY <3>1, VarintType
  <2>2. CASE f.tag % 8 = 2
    <3>1. WriteField(f.tag % 8, f.v) = Varint(Len(f.v)) \o f.v
      BY <2>2, WireFact
    <3>2. f.v \in Seq(Octet) /\ Len(f.v) \in 0 .. Varints - 1
      BY <2>2, VarintsFact DEF WireFields
    <3>3. Varint(Len(f.v)) \in Seq(Octet) /\ Len(Varint(Len(f.v))) \in Nat \ {0}
      BY <3>2, VarintType
    <3>4. /\ Varint(Len(f.v)) \o f.v \in Seq(Octet)
          /\ Len(Varint(Len(f.v)) \o f.v) = Len(Varint(Len(f.v))) + Len(f.v)
      BY <3>2, <3>3, ConcatProperties
    <3>5. Len(Varint(Len(f.v)) \o f.v) \in Nat \ {0}
      <4>1. \A m \in Nat \ {0}, n \in 0 .. Varints - 1 : m + n \in Nat \ {0}
        OBVIOUS
      <4>2. QED BY <3>2, <3>3, <3>4, <4>1, Zenon
    <3>6. QED BY <3>1, <3>4, <3>5, Zenon
  <2>3. CASE f.tag % 8 \in {1, 5}
    <3>1. f.v \in Seq(Octet) /\ Len(f.v) \in {4, 8}
      BY <2>3 DEF WireFields
    <3>2. WriteField(f.tag % 8, f.v) = f.v
      BY <2>3, WireFact
    <3>3. Len(f.v) \in Nat \ {0}
      <4>1. \A n \in {4, 8} : n \in Nat \ {0}
        OBVIOUS
      <4>2. QED BY <3>1, <4>1, Zenon
    <3>4. QED BY <3>1, <3>2, <3>3, Zenon
  <2>4. QED BY <2>1, <2>2, <2>3 DEF WireFields
<1>4. QED BY <1>2, <1>3, ConcatProperties DEF FieldBytes

\* A string is read with its length.
LEMMA StringRead ==
  ASSUME NEW b \in Seq(Octet), NEW s \in Seq(Octet), Len(s) < Varints, NEW i \in Nat \ {0},
         Lies(b, i, Varint(Len(s)) \o s)
  PROVE  ReadBytes(b, i) = Read(s, i + Len(Varint(Len(s)) \o s))
<1> PICK n \in 0 .. Varints - 1 : n = Len(s)
  BY VarintsFact
<1>1. Varint(n) \in Seq(Octet) /\ Len(Varint(n)) \in Nat \ {0}
  BY VarintType
<1> PICK l \in Nat \ {0} : l = Len(Varint(n))
  BY <1>1
<1> PICK at \in Nat \ {0} : at = i + l
  OBVIOUS
<1>2. Lies(b, i, Varint(n)) /\ Lies(b, at, s)
  BY <1>1, LiesConcat
<1>3. ReadVarint(b, i) = Read(n, at)
  BY <1>2, VarintRead
<1>4. at + n - 1 <= Len(b) /\ SubSeq(b, at, at + n - 1) = s
  BY <1>2, LiesSubSeq DEF Lies
<1>5. ReadBytes(b, i) = Read(s, at + n)
  <2>1. ReadVarint(b, i).ok /\ ReadVarint(b, i).v = n /\ ReadVarint(b, i).at = at
    BY <1>3 DEF Read
  <2>2. QED BY <1>4, <2>1, Zenon DEF ReadBytes
<1>6. Len(Varint(n) \o s) = l + n
  BY <1>1, ConcatProperties
<1>7. at + n = i + (l + n)
  OBVIOUS
<1>8. QED BY <1>5, <1>6, <1>7

\* So many bytes.
LEMMA TakeRead ==
  ASSUME NEW b \in Seq(Octet), NEW s \in Seq(Octet), NEW i \in Nat \ {0}, Lies(b, i, s)
  PROVE  Take(b, i, Len(s)) = Read(s, i + Len(s))
  BY LiesSubSeq DEF Take, Lies

\* A field is read as it was written.
LEMMA FieldRead ==
  ASSUME NEW b \in Seq(Octet), NEW f \in WireFields, NEW i \in Nat \ {0}, Lies(b, i, FieldBytes(f))
  PROVE  /\ ReadVarint(b, i) = Read(f.tag, i + Len(Varint(f.tag)))
         /\ ReadField(b, i + Len(Varint(f.tag)), f.tag % 8) = Read(f.v, i + Len(FieldBytes(f)))
<1> DEFINE u == Varint(f.tag)
           w == WriteField(f.tag % 8, f.v)
           j == i + Len(u)
<1>1. /\ u \in Seq(Octet) /\ Len(u) \in Nat \ {0} /\ w \in Seq(Octet) /\ Len(w) \in Nat \ {0}
      /\ FieldBytes(f) = u \o w /\ Len(FieldBytes(f)) = Len(u) + Len(w)
  BY FieldBytesFact, Zenon DEF FieldBytes
<1>2. f.tag \in 0 .. Varints - 1
  BY VarintsFact DEF WireFields
<1>3. /\ f.tag % 8 \in {0, 1, 2, 5}
      /\ f.tag % 8 = 0 => f.v \in 0 .. Varints - 1
      /\ f.tag % 8 = 1 => f.v \in Seq(Octet) /\ Len(f.v) = 8
      /\ f.tag % 8 = 2 => f.v \in Seq(Octet) /\ Len(f.v) < Varints
      /\ f.tag % 8 = 5 => f.v \in Seq(Octet) /\ Len(f.v) = 4
  BY Zenon DEF WireFields
<1>4. Lies(b, i, u) /\ Lies(b, j, w)
  <2> HIDE DEF u, w
  <2>1. Lies(b, i, u \o w)
    BY <1>1, Zenon
  <2>2. QED BY <1>1, <2>1, LiesConcat
<1>5. ReadVarint(b, i) = Read(f.tag, j)
  BY <1>2, <1>4, VarintRead, Zenon
<1>6. j \in Nat \ {0} /\ i + Len(FieldBytes(f)) = j + Len(w)
  <2>1. \A l, m \in Nat \ {0} : i + l \in Nat \ {0} /\ i + (l + m) = (i + l) + m
    OBVIOUS
  <2> HIDE DEF u, w
  <2>2. i + (Len(u) + Len(w)) = (i + Len(u)) + Len(w) /\ i + Len(u) \in Nat \ {0}
    BY <1>1, <2>1, Zenon
  <2>3. QED BY <1>1, <2>2, Zenon
<1> HIDE DEF j
<1>7. ReadField(b, j, f.tag % 8) = Read(f.v, j + Len(w))
  <2>1. CASE f.tag % 8 = 0
    <3>1. w = Varint(f.v) /\ f.v \in 0 .. Varints - 1
      BY <1>3, <2>1, WireFact, Zenon
    <3> HIDE DEF w
    <3>2. ReadVarint(b, j) = Read(f.v, j + Len(w))
      BY <1>4, <1>6, <3>1, VarintRead, Zenon
    <3>3. QED BY <2>1, <3>2, WireFact, Zenon
  <2>2. CASE f.tag % 8 = 2
    <3>1. w = Varint(Len(f.v)) \o f.v /\ f.v \in Seq(Octet) /\ Len(f.v) < Varints
      BY <1>3, <2>2, WireFact, Zenon
    <3> HIDE DEF w
    <3>2. ReadBytes(b, j) = Read(f.v, j + Len(w))
      BY <1>4, <1>6, <3>1, StringRead, Zenon
    <3>3. QED BY <2>2, <3>2, WireFact, Zenon
  <2>3. CASE f.tag % 8 = 1
    <3>1. w = f.v /\ f.v \in Seq(Octet) /\ Len(f.v) = 8
      BY <1>3, <2>3, WireFact, Zenon
    <3> HIDE DEF w
    <3>2. Take(b, j, 8) = Read(f.v, j + Len(w))
      BY <1>4, <1>6, <3>1, TakeRead, Zenon
    <3>3. QED BY <2>3, <3>2, WireFact, Zenon
  <2>4. CASE f.tag % 8 = 5
    <3>1. w = f.v /\ f.v \in Seq(Octet) /\ Len(f.v) = 4
      BY <1>3, <2>4, WireFact, Zenon
    <3> HIDE DEF w
    <3>2. Take(b, j, 4) = Read(f.v, j + Len(w))
      BY <1>4, <1>6, <3>1, TakeRead, Zenon
    <3>3. QED BY <2>4, <3>2, WireFact, Zenon
  <2>5. QED BY <1>3, <2>1, <2>2, <2>3, <2>4
<1>8. QED BY <1>5, <1>6, <1>7 DEF j

\* Functions on the first numbers are sequences.
LEMMA SeqFact ==
  ASSUME NEW T, NEW n \in Nat, NEW s \in [1 .. n -> T] PROVE s \in Seq(T) /\ Len(s) = n
<1>1. s \in Seq(T)
  BY SeqDef
<1>2. QED BY <1>1, LenProperties

\* What each of the fields takes.
BytesOf(fs) == [k \in DOMAIN fs |-> FieldBytes(fs[k])]

\* The bytes of fields, each for itself.
LEMMA BytesOfFact ==
  ASSUME NEW fs \in Seq(WireFields)
  PROVE  /\ BytesOf(fs) \in Seq(Seq(Octet)) /\ BytesOf(<<>>) = <<>>
         /\ \A f \in WireFields : BytesOf(Append(fs, f)) = Append(BytesOf(fs), FieldBytes(f))
<1>1. \A f \in WireFields : FieldBytes(f) \in Seq(Octet)
  BY FieldBytesFact
<1>2. \A gs \in Seq(WireFields) : BytesOf(gs) \in Seq(Seq(Octet)) /\ Len(BytesOf(gs)) = Len(gs)
  <2>1. SUFFICES ASSUME NEW gs \in Seq(WireFields)
                 PROVE  BytesOf(gs) \in Seq(Seq(Octet)) /\ Len(BytesOf(gs)) = Len(gs)
    OBVIOUS
  <2>2. Len(gs) \in Nat /\ DOMAIN gs = 1 .. Len(gs) /\ \A k \in 1 .. Len(gs) : gs[k] \in WireFields
    BY LenProperties
  <2>3. BytesOf(gs) \in [1 .. Len(gs) -> Seq(Octet)]
    BY <1>1, <2>2 DEF BytesOf
  <2>4. BytesOf(gs) \in Seq(Seq(Octet))
    BY <2>2, <2>3, SeqFact, Zenon
  <2>5. DOMAIN BytesOf(gs) = 1 .. Len(gs)
    BY <2>3
  <2>6. QED BY <2>2, <2>4, <2>5, LenProperties
<1>3. ASSUME NEW f \in WireFields PROVE BytesOf(Append(fs, f)) = Append(BytesOf(fs), FieldBytes(f))
  <2> DEFINE gs == Append(fs, f)
             n  == Len(fs)
  <2>1. gs \in Seq(WireFields) /\ Len(gs) = n + 1 /\ gs[n + 1] = f /\ \A k \in 1 .. n : gs[k] = fs[k]
    BY AppendProperties
  <2> HIDE DEF gs
  <2>2. n \in Nat /\ DOMAIN fs = 1 .. n /\ DOMAIN gs = 1 .. n + 1
    BY <2>1, LenProperties
  <2>3. FieldBytes(f) \in Seq(Octet) /\ BytesOf(fs) \in Seq(Seq(Octet)) /\ Len(BytesOf(fs)) = n
    BY <1>1, <1>2
  <2>4. /\ Append(BytesOf(fs), FieldBytes(f)) \in Seq(Seq(Octet))
        /\ Len(Append(BytesOf(fs), FieldBytes(f))) = n + 1
        /\ Append(BytesOf(fs), FieldBytes(f))[n + 1] = FieldBytes(f)
        /\ \A k \in 1 .. n : Append(BytesOf(fs), FieldBytes(f))[k] = BytesOf(fs)[k]
    BY <2>3, AppendProperties
  <2>5. BytesOf(gs) \in Seq(Seq(Octet)) /\ Len(BytesOf(gs)) = n + 1
    BY <1>2, <2>1
  <2>6. \A k \in 1 .. n : BytesOf(gs)[k] = BytesOf(fs)[k]
    BY <2>1, <2>2 DEF BytesOf
  <2>7. BytesOf(gs)[n + 1] = FieldBytes(f)
    BY <2>1, <2>2 DEF BytesOf
  <2>8. \A k \in 1 .. n + 1 : BytesOf(gs)[k] = Append(BytesOf(fs), FieldBytes(f))[k]
    <3>1. \A k \in 1 .. n + 1 : k \in 1 .. n \/ k = n + 1
      BY <2>2
    <3>2. QED BY <2>4, <2>6, <2>7, <3>1
  <2>9. BytesOf(gs) = Append(BytesOf(fs), FieldBytes(f))
    BY <2>4, <2>5, <2>8, SeqEqual
  <2>10. QED BY <2>9 DEF gs
<1>4. BytesOf(<<>>) = <<>>
  BY DEF BytesOf
<1>5. QED BY <1>2, <1>3, <1>4

\* What is written, field by field: two bytes at least for each.
LEMMA WrittenFact ==
  ASSUME NEW fs \in Seq(WireFields)
  PROVE  /\ Written(fs) \in Seq(Octet) /\ Written(<<>>) = <<>>
         /\ \A f \in WireFields : Written(Append(fs, f)) = Written(fs) \o FieldBytes(f)
<1>1. \A gs : Written(gs) = FlattenSeq(BytesOf(gs))
  BY DEF Written, BytesOf
<1>2. BytesOf(fs) \in Seq(Seq(Octet)) /\ BytesOf(<<>>) = <<>>
  BY BytesOfFact
<1>3. ASSUME NEW f \in WireFields PROVE Written(Append(fs, f)) = Written(fs) \o FieldBytes(f)
  <2>1. BytesOf(Append(fs, f)) = Append(BytesOf(fs), FieldBytes(f)) /\ FieldBytes(f) \in Seq(Octet)
    BY BytesOfFact, FieldBytesFact
  <2>2. QED BY <1>1, <1>2, <2>1, FlattenOneMore
<1>4. QED BY <1>1, <1>2, <1>3, FlattenType, FlattenEmpty

\* A field takes two bytes at least.
LEMMA WrittenLong ==
  ASSUME NEW fs \in Seq(WireFields) PROVE 2 * Len(fs) <= Len(Written(fs))
<1> DEFINE A == {gs \in Seq(WireFields) : 2 * Len(gs) <= Len(Written(gs))}
<1>1. <<>> \in A
  <2>1. Len(Written(<<>>)) = 0 /\ Len(<<>>) = 0 /\ <<>> \in Seq(WireFields)
    BY WrittenFact
  <2>2. QED BY <2>1
<1>2. ASSUME NEW gs \in Seq(WireFields), NEW f \in WireFields, gs \in A PROVE Append(gs, f) \in A
  <2>1. PICK n \in Nat : n = Len(gs)
    OBVIOUS
  <2>2. PICK l \in Nat : l = Len(Written(gs))
    BY WrittenFact
  <2>3. PICK m \in Nat : m = Len(FieldBytes(f)) /\ m >= 2
    <3>1. \A i, j \in Nat \ {0} : i + j \in Nat /\ i + j >= 2
      OBVIOUS
    <3>2. QED BY <3>1, FieldBytesFact, Zenon
  <2>4. Append(gs, f) \in Seq(WireFields) /\ Len(Append(gs, f)) = n + 1
    BY <2>1, AppendProperties
  <2>5. Written(gs) \in Seq(Octet) /\ FieldBytes(f) \in Seq(Octet)
    BY WrittenFact, FieldBytesFact
  <2>6. Len(Written(Append(gs, f))) = l + m
    BY <2>2, <2>3, <2>5, WrittenFact, ConcatProperties
  <2>7. 2 * n <= l
    BY <1>2, <2>1, <2>2
  <2>8. 2 * (n + 1) <= l + m
    BY <2>3, <2>7
  <2>9. QED BY <2>4, <2>6, <2>8
<1> HIDE DEF A
<1>3. fs \in A
  BY <1>1, <1>2, SeqInduction
<1>4. QED BY <1>3 DEF A

\* Fields after fields are bytes after bytes.
LEMMA WrittenConcat ==
  ASSUME NEW fs \in Seq(WireFields), NEW hs \in Seq(WireFields)
  PROVE  Written(fs \o hs) = Written(fs) \o Written(hs)
<1> DEFINE A == {gs \in Seq(WireFields) : Written(fs \o gs) = Written(fs) \o Written(gs)}
<1>1. <<>> \in A
  <2>1. fs \o <<>> = fs /\ <<>> \in Seq(WireFields)
    BY ConcatEmptySeq
  <2>2. Written(fs) \o Written(<<>>) = Written(fs)
    BY WrittenFact, ConcatEmptySeq
  <2>3. QED BY <2>1, <2>2
<1>2. ASSUME NEW gs \in Seq(WireFields), NEW f \in WireFields, gs \in A PROVE Append(gs, f) \in A
  <2>1. /\ Append(gs, f) \in Seq(WireFields) /\ Append(gs, f) = gs \o <<f>> /\ <<f>> \in Seq(WireFields)
        /\ fs \o gs \in Seq(WireFields) /\ Append(fs \o gs, f) = (fs \o gs) \o <<f>>
    BY AppendProperties, AppendIsConcat, ConcatProperties
  <2>2. fs \o Append(gs, f) = Append(fs \o gs, f)
    BY <2>1, ConcatAssociative
  <2>3. /\ Written(fs) \in Seq(Octet) /\ Written(gs) \in Seq(Octet) /\ FieldBytes(f) \in Seq(Octet)
        /\ Written(Append(fs \o gs, f)) = Written(fs \o gs) \o FieldBytes(f)
        /\ Written(Append(gs, f)) = Written(gs) \o FieldBytes(f)
    BY <2>1, WrittenFact, FieldBytesFact
  <2>4. Written(fs \o gs) = Written(fs) \o Written(gs)
    BY <1>2
  <2>5. (Written(fs) \o Written(gs)) \o FieldBytes(f) = Written(fs) \o (Written(gs) \o FieldBytes(f))
    <3>1. \A u, v, w \in Seq(Octet) : (u \o v) \o w = u \o (v \o w)
      BY ConcatAssociative
    <3>2. QED BY <2>3, <3>1, Zenon
  <2>6. Written(fs \o Append(gs, f)) = Written(fs) \o Written(Append(gs, f))
    BY <2>2, <2>3, <2>4, <2>5, Zenon
  <2>7. QED BY <2>1, <2>6
<1> HIDE DEF A
<1>3. hs \in A
  BY <1>1, <1>2, SeqInduction
<1>4. QED BY <1>3 DEF A

-----------------------------------------------------------------------------
(* Numbers *)

\* What is left of a sum.
LEMMA ModFact ==
  ASSUME NEW a \in Nat \ {0}, NEW q \in Int, NEW r \in 0 .. a - 1 PROVE (a * q + r) % a = r
  OBVIOUS

\* A negative number takes the numbers of a varint from the top; what is left of it as an
\* int32 is the number.
LEMMA NumberKept ==
  ASSUME NEW n, IsInt32(n)
  PROVE  Unsigned(n, Varints) \in 0 .. Varints - 1 /\ Signed(Unsigned(n, Varints), Int32s) = n
<1> PICK h \in Nat : Int32s = 2 * h /\ h >= 64
  <2>1. Int32s \in Nat /\ Int32s % 2 = 0 /\ Int32s >= 128
    BY VarintAssumption
  <2>2. Int32s \div 2 \in Nat /\ Int32s = 2 * (Int32s \div 2) /\ Int32s \div 2 >= 64
    BY <2>1
  <2>3. QED BY <2>2
<1> PICK q \in Nat : Varints = Int32s * q /\ q >= 1
  <2>1. Int32s \in Nat /\ Varints \in Nat /\ Varints % Int32s = 0 /\ Int32s <= Varints /\ Int32s >= 128
    BY VarintAssumption
  <2>2. Varints \div Int32s \in Nat /\ Varints = Int32s * (Varints \div Int32s)
    BY <2>1
  <2>3. Varints \div Int32s >= 1
    BY <2>1, <2>2
  <2>4. QED BY <2>2, <2>3
<1>1. n \in -h .. h - 1
  BY DEF IsInt32
<1>2. CASE n >= 0
  <2>1. Unsigned(n, Varints) = n /\ n \in 0 .. Int32s - 1 /\ Int32s <= Varints
    BY <1>1, <1>2, VarintAssumption DEF Unsigned
  <2>2. n % Int32s = n
    BY <2>1
  <2>3. 2 * n < Int32s
    BY <1>1
  <2>4. QED BY <2>1, <2>2, <2>3, VarintsFact DEF Signed
<1>3. CASE n < 0
  <2>1. Unsigned(n, Varints) = n + Varints /\ Int32s <= Varints
    BY <1>3, VarintAssumption DEF Unsigned
  <2>2. n + Int32s \in h .. Int32s - 1
    BY <1>1, <1>3
  <2> PICK p \in Nat : q = p + 1
    <3>1. q - 1 \in Nat /\ q = (q - 1) + 1
      OBVIOUS
    <3>2. QED BY <3>1
  <2>3. n + Varints = Int32s * p + (n + Int32s)
    BY <1>1
  <2>4. (n + Varints) % Int32s = n + Int32s
    <3>1. Int32s \in Nat \ {0} /\ p \in Int /\ n + Int32s \in 0 .. Int32s - 1
      BY <2>2
    <3>2. (Int32s * p + (n + Int32s)) % Int32s = n + Int32s
      BY <3>1, ModFact
    <3>3. QED BY <2>3, <3>2
  <2>5. 2 * (n + Int32s) >= Int32s /\ (n + Int32s) - Int32s = n
    BY <1>1, <2>2
  <2>6. Signed(n + Varints, Int32s) = n
    BY <2>4, <2>5 DEF Signed
  <2>7. n + Varints \in 0 .. Varints - 1
    BY <1>1, <1>3, <2>1, <2>2, VarintsFact
  <2>8. QED BY <2>1, <2>6, <2>7
<1>4. QED BY <1>1, <1>2, <1>3

\* What is left of any number is an int32.
LEMMA NumberType ==
  ASSUME NEW v \in Nat PROVE IsInt32(Signed(v, Int32s))
<1> PICK h \in Nat : Int32s = 2 * h /\ h >= 64
  <2>1. Int32s \in Nat /\ Int32s % 2 = 0 /\ Int32s >= 128
    BY VarintAssumption
  <2>2. Int32s \div 2 \in Nat /\ Int32s = 2 * (Int32s \div 2) /\ Int32s \div 2 >= 64
    BY <2>1
  <2>3. QED BY <2>2
<1>1. v % Int32s \in 0 .. 2 * h - 1
  OBVIOUS
<1>2. QED BY <1>1 DEF Signed, IsInt32

-----------------------------------------------------------------------------
(* Messages *)

\* The four classes.
Schemas == {ReqHeartBeat, RespHeartBeat, ReqNodeLogin, RespNodeLogin}

\* A class has four fields at most, of two types.
LEMMA SchemaFact ==
  ASSUME NEW c \in Schemas
  PROVE  Len(c) \in 0 .. 4 /\ DOMAIN c = 1 .. Len(c) /\ \A n \in DOMAIN c : c[n] \in {"string", "int32"}
<1>1. CASE c = <<>>
  BY <1>1
<1>2. CASE c = ReqNodeLogin
  <2>1. c = <<"string", "int32", "string", "string">>
    BY <1>2 DEF ReqNodeLogin
  <2>2. Len(c) = 4 /\ DOMAIN c = 1 .. 4
    BY <2>1
  <2>3. c[1] = "string" /\ c[2] = "int32" /\ c[3] = "string" /\ c[4] = "string"
    BY <2>1
  <2>4. \A n \in 1 .. 4 : n = 1 \/ n = 2 \/ n = 3 \/ n = 4
    OBVIOUS
  <2>5. QED BY <2>2, <2>3, <2>4
<1>3. CASE c = RespNodeLogin
  <2>1. Len(c) = 1 /\ DOMAIN c = 1 .. 1 /\ c[1] = "int32"
    BY <1>3 DEF RespNodeLogin
  <2>2. \A n \in 1 .. 1 : n = 1
    OBVIOUS
  <2>3. QED BY <2>1, <2>2
<1>4. QED BY <1>1, <1>2, <1>3 DEF Schemas, ReqHeartBeat, RespHeartBeat

\* Fields that a class does not have, or not with that type.
UnknownFields(c) ==
  {f \in WireFields : ~(f.tag \div 8 \in DOMAIN c /\ f.tag % 8 = Wire(c[f.tag \div 8]))}

\* A value of its type for each field, and fields that are unknown.
IsMessage(c, m) ==
  /\ m = [field |-> m.field, unknown |-> m.unknown]
  /\ m.field = [n \in DOMAIN c |-> m.field[n]]
  /\ \A n \in DOMAIN c : IF c[n] = "string" THEN IsString(m.field[n]) ELSE IsInt32(m.field[n])
  /\ m.unknown \in Seq(UnknownFields(c))

\* A field as it is sent can be read, and into a message it brings the value it has.
LEMMA FieldSent ==
  ASSUME NEW c \in Schemas, NEW m, IsMessage(c, m), NEW n \in DOMAIN c, NEW t
  PROVE  /\ Field(c, m, n) \in WireFields
         /\ Field(c, m, n).tag \div 8 = n /\ Field(c, m, n).tag % 8 = Wire(c[n])
         /\ c[n] = "string" => Field(c, m, n).v = m.field[n]
         /\ ParsedField(c, t, Field(c, m, n).tag, Field(c, m, n).v) = Set(t, n, m.field[n])
<1>1. n \in 1 .. 4 /\ c[n] \in {"string", "int32"}
  BY SchemaFact
<1> DEFINE f == Field(c, m, n)
<1>2. f.tag = 8 * n + Wire(c[n]) /\ Wire(c[n]) \in {0, 2} /\ (c[n] = "string" <=> Wire(c[n]) = 2)
  BY <1>1 DEF Field, Tag, Wire
<1>3. /\ f.tag \in 8 .. Varints - 1 /\ f.tag \div 8 = n /\ f.tag % 8 = Wire(c[n])
  <2>1. f.tag \in {8 * n, 8 * n + 2}
    BY <1>1, <1>2
  <2>2. f.tag \in 8 .. 34 /\ f.tag \div 8 = n /\ f.tag % 8 = Wire(c[n])
    BY <1>1, <1>2, <2>1
  <2>3. QED BY <2>2, VarintsFact
<1>4. CASE c[n] = "string"
  <2>1. f.v = m.field[n] /\ f.v \in Seq(Octet) /\ Len(f.v) < Varints
    BY <1>4 DEF Field, IsMessage, IsString
  <2>2. f \in WireFields
    <3>1. f \in [tag : 8 .. Varints - 1, v : (0 .. Varints - 1) \cup Seq(Octet)]
      BY <1>3, <2>1 DEF Field
    <3>2. f.tag % 8 = 2
      BY <1>2, <1>3, <1>4
    <3> HIDE DEF f
    <3>3. QED BY <2>1, <3>1, <3>2 DEF WireFields
  <2>3. ParsedField(c, t, f.tag, f.v) = Set(t, n, m.field[n])
    BY <1>3, <1>4, <2>1 DEF ParsedField
  <2>4. QED BY <1>3, <2>1, <2>2, <2>3
<1>5. CASE c[n] = "int32"
  <2>1. f.v = Unsigned(m.field[n], Varints) /\ IsInt32(m.field[n])
    BY <1>5 DEF Field, IsMessage, Int32
  <2>2. f.v \in 0 .. Varints - 1 /\ Signed(f.v, Int32s) = m.field[n]
    BY <2>1, NumberKept
  <2>3. f \in WireFields
    <3>1. f \in [tag : 8 .. Varints - 1, v : (0 .. Varints - 1) \cup Seq(Octet)]
      BY <1>3, <2>2 DEF Field
    <3>2. f.tag % 8 = 0
      BY <1>2, <1>3, <1>5
    <3> HIDE DEF f
    <3>3. QED BY <2>2, <3>1, <3>2 DEF WireFields
  <2>4. ParsedField(c, t, f.tag, f.v) = Set(t, n, m.field[n])
    BY <1>3, <1>5, <2>2 DEF ParsedField
  <2>5. QED BY <1>3, <1>5, <2>3, <2>4
<1>6. QED BY <1>1, <1>4, <1>5

-----------------------------------------------------------------------------
(* Reading, field by field *)

\* The function by which Parse is computed.
Reading(R, c, b, most) ==
  R = [k \in 0 .. most |-> IF k = 0 THEN Reached(New(c), 1) ELSE ReadNext(c, b, R[k - 1])]

\* There is one.
LEMMA ReadingExists ==
  ASSUME NEW c, NEW b, NEW most \in Nat PROVE \E R : Reading(R, c, b, most)
<1> DEFINE A == {n \in Nat : \E R : Reading(R, c, b, n)}
<1>1. 0 \in A
  <2>1. \A k \in 0 .. 0 : k = 0
    OBVIOUS
  <2> DEFINE R == [k \in 0 .. 0 |-> Reached(New(c), 1)]
  <2>2. R = [k \in 0 .. 0 |-> IF k = 0 THEN Reached(New(c), 1) ELSE ReadNext(c, b, R[k - 1])]
    BY <2>1
  <2>3. Reading(R, c, b, 0)
    BY <2>2 DEF Reading
  <2> HIDE DEF R
  <2>4. QED BY <2>3
<1>2. ASSUME NEW n \in Nat, n \in A PROVE n + 1 \in A
  <2>1. PICK R : Reading(R, c, b, n)
    BY <1>2
  <2> DEFINE e(h, k) == IF k = 0 THEN Reached(New(c), 1) ELSE ReadNext(c, b, h[k - 1])
             Q == [k \in 0 .. n + 1 |-> e(R, k)]
  <2>2. R = [k \in 0 .. n |-> e(R, k)]
    BY <2>1 DEF Reading
  <2>3. \A k \in 0 .. n : Q[k] = R[k]
    <3>1. \A k \in 0 .. n : R[k] = e(R, k)
      BY <2>2
    <3>2. \A k \in 0 .. n : Q[k] = e(R, k)
      OBVIOUS
    <3>3. QED BY <3>1, <3>2
  <2>4. \A k \in 0 .. n + 1 : e(R, k) = e(Q, k)
    <3>1. SUFFICES ASSUME NEW k \in 0 .. n + 1, k # 0 PROVE Q[k - 1] = R[k - 1]
      OBVIOUS
    <3>2. k - 1 \in 0 .. n
      BY <3>1
    <3>3. QED BY <2>3, <3>2
  <2>5. Q = [k \in 0 .. n + 1 |-> e(Q, k)]
    BY <2>4
  <2>6. Reading(Q, c, b, n + 1)
    BY <2>5 DEF Reading
  <2> HIDE DEF Q
  <2>7. QED BY <2>6
<1> HIDE DEF A
<1>3. most \in A
  BY <1>1, <1>2, SetInduction
<1>4. QED BY <1>3 DEF A

\* It reads a field at a time.
LEMMA ReadingSteps ==
  ASSUME NEW c, NEW b, NEW most \in Nat, NEW R, Reading(R, c, b, most)
  PROVE  R[0] = Reached(New(c), 1) /\ \A k \in 0 .. most - 1 : R[k + 1] = ReadNext(c, b, R[k])
<1>1. \A k \in 0 .. most : R[k] = IF k = 0 THEN Reached(New(c), 1) ELSE ReadNext(c, b, R[k - 1])
  BY DEF Reading
<1>2. R[0] = Reached(New(c), 1)
  BY <1>1
<1>3. ASSUME NEW k \in 0 .. most - 1 PROVE R[k + 1] = ReadNext(c, b, R[k])
  <2>1. k + 1 \in 0 .. most /\ k + 1 # 0 /\ (k + 1) - 1 = k
    OBVIOUS
  <2>2. R[k + 1] = ReadNext(c, b, R[(k + 1) - 1])
    BY <1>1, <2>1
  <2>3. QED BY <2>1, <2>2
<1>4. QED BY <1>2, <1>3

\* Parse gives what has been read in the end.
LEMMA ParseIs ==
  ASSUME NEW c, NEW b \in Seq(Octet)
  PROVE  LET most == Len(b) \div 2 + 1
         IN  \E R : Reading(R, c, b, most) /\ Parse(c, b) = [ok |-> R[most].ok, m |-> R[most].m]
<1> DEFINE most == Len(b) \div 2 + 1
           R == CHOOSE Q : Reading(Q, c, b, most)
<1>1. most \in Nat
  OBVIOUS
<1>2. Reading(R, c, b, most)
  BY <1>1, ReadingExists
<1>3. Parse(c, b) = [ok |-> R[most].ok, m |-> R[most].m]
  BY DEF Parse, Reading, Reached
<1> HIDE DEF R
<1>4. QED BY <1>2, <1>3

\* A field that can be read is one more step.
LEMMA NextRead ==
  ASSUME NEW c \in Schemas, NEW b \in Seq(Octet), NEW i \in Nat \ {0}, NEW f \in WireFields, NEW m,
         Lies(b, i, FieldBytes(f)),
         f.tag \div 8 \in DOMAIN c /\ f.tag % 8 = 2 /\ c[f.tag \div 8] = "string" => IsUTF8(f.v)
  PROVE  ReadNext(c, b, Reached(m, i)) = Reached(ParsedField(c, m, f.tag, f.v), i + Len(FieldBytes(f)))
<1> DEFINE p == Reached(m, i)
           j == i + Len(Varint(f.tag))
<1>1. p.m = m /\ p.at = i /\ p.ok = FALSE /\ p.ended = FALSE
  BY DEF Reached
<1>2. ReadVarint(b, i) = Read(f.tag, j) /\ ReadField(b, j, f.tag % 8) = Read(f.v, i + Len(FieldBytes(f)))
  BY FieldRead
<1>3. f.tag \in 8 .. Varints - 1 /\ f.tag % 8 \in {0, 1, 2, 5}
  BY Zenon DEF WireFields
<1>4. i <= Len(b)
  <2>1. \A k, l \in Nat \ {0} : k + l \in Nat /\ k + l >= 2
    OBVIOUS
  <2>2. Len(FieldBytes(f)) \in Nat /\ Len(FieldBytes(f)) >= 2
    BY <2>1, FieldBytesFact, Zenon
  <2>3. i + Len(FieldBytes(f)) - 1 <= Len(b)
    BY DEF Lies
  <2>4. QED BY <2>2, <2>3
<1> HIDE DEF p, j
<1>5. ReadVarint(b, p.at).ok /\ ReadVarint(b, p.at).v = f.tag /\ ReadVarint(b, p.at).at = j
  BY <1>1, <1>2 DEF Read
<1>6. ~(~ReadVarint(b, p.at).ok \/ f.tag < 8 \/ f.tag % 8 = 4)
  BY <1>3, <1>5, VarintsFact
<1>7. ReadField(b, j, f.tag % 8).ok /\ ReadField(b, j, f.tag % 8).v = f.v
        /\ ReadField(b, j, f.tag % 8).at = i + Len(FieldBytes(f))
  BY <1>2 DEF Read
<1>8. ~(p.at > Len(b))
  BY <1>1, <1>4
<1>9. ReadNext(c, b, p) = Reached(ParsedField(c, m, f.tag, f.v), i + Len(FieldBytes(f)))
  BY <1>1, <1>5, <1>6, <1>7, <1>8 DEF ReadNext
<1>10. QED BY <1>9 DEF p

\* At the end of the bytes, or at a zero, reading ends.
LEMMA NextEnds ==
  ASSUME NEW c, NEW b \in Seq(Octet), NEW i \in Nat \ {0}, NEW m
  PROVE  /\ i > Len(b) =>
              ReadNext(c, b, Reached(m, i)) = [m |-> m, at |-> i, ok |-> TRUE, ended |-> TRUE]
         /\ Lies(b, i, Zeros8) =>
              ReadNext(c, b, Reached(m, i)) = [m |-> m, at |-> i, ok |-> FALSE, ended |-> TRUE]
<1>1. ASSUME i > Len(b)
      PROVE  ReadNext(c, b, Reached(m, i)) = [m |-> m, at |-> i, ok |-> TRUE, ended |-> TRUE]
  BY <1>1 DEF ReadNext, Reached
<1>2. ASSUME Lies(b, i, Zeros8)
      PROVE  ReadNext(c, b, Reached(m, i)) = [m |-> m, at |-> i, ok |-> FALSE, ended |-> TRUE]
  <2>1. Lies(b, i, Varint(0)) /\ i <= Len(b)
    <3>1. Len(Zeros8) = 8 /\ Zeros8[1] = 0
      BY DEF Zeros8
    <3>2. i + 8 - 1 <= Len(b) /\ b[i + 1 - 1] = 0
      BY <1>2, <3>1 DEF Lies
    <3>3. Varint(0) = <<0>>
      <4>1. 0 \in 0 .. Varints - 1 /\ 0 < 128
        BY VarintsFact
      <4>2. QED BY <4>1, VarintIs, Zenon
    <3>4. Lies(b, i, <<0>>)
      <4>1. Len(<<0>>) = 1 /\ <<0>>[1] = 0 /\ \A k \in 1 .. 1 : k = 1
        OBVIOUS
      <4>2. i + Len(<<0>>) - 1 <= Len(b)
        BY <3>2
      <4>3. QED BY <3>2, <4>1, <4>2 DEF Lies
    <3>5. i <= Len(b)
      BY <3>2
    <3>6. QED BY <3>3, <3>4, <3>5
  <2>2. ReadVarint(b, i) = Read(0, i + Len(Varint(0)))
    BY <2>1, VarintsFact, VarintRead
  <2>3. ReadVarint(b, i).v = 0
    BY <2>2 DEF Read
  <2>4. ~(i > Len(b))
    BY <2>1
  <2>5. QED BY <2>1, <2>3, <2>4 DEF ReadNext, Reached
<1>3. QED BY <1>1, <1>2

\* Once it has ended, it stays as it is.
LEMMA EndedStays ==
  ASSUME NEW c, NEW b, NEW most \in Nat, NEW R, Reading(R, c, b, most),
         NEW k \in 0 .. most, R[k].ended
  PROVE  R[most] = R[k]
<1> DEFINE A == {j \in Nat : k + j <= most => R[k + j] = R[k]}
<1>1. 0 \in A
  OBVIOUS
<1>2. ASSUME NEW j \in Nat, j \in A PROVE j + 1 \in A
  <2>1. SUFFICES ASSUME k + (j + 1) <= most PROVE R[k + (j + 1)] = R[k]
    OBVIOUS
  <2>2. R[k + j] = R[k] /\ k + j \in 0 .. most - 1 /\ (k + j) + 1 = k + (j + 1)
    BY <1>2, <2>1
  <2>3. R[(k + j) + 1] = ReadNext(c, b, R[k + j])
    <3>1. \A i \in 0 .. most - 1 : R[i + 1] = ReadNext(c, b, R[i])
      BY ReadingSteps
    <3>2. QED BY <2>2, <3>1, Zenon
  <2>4. ReadNext(c, b, R[k]) = R[k]
    BY DEF ReadNext
  <2>5. QED BY <2>2, <2>3, <2>4
<1> HIDE DEF A
<1>3. most - k \in A /\ k + (most - k) = most
  BY <1>1, <1>2, SetInduction
<1>4. QED BY <1>3 DEF A

\* The first fields that are set.
Opt(c, m, n)     == IF IsSet(c, m, n) THEN <<Field(c, m, n)>> ELSE <<>>
KnownTo(c, m, n) == FlattenSeq([k \in 1 .. n |-> Opt(c, m, k)])

\* They are fields, one more at a time, and are sent before the unknown ones.
LEMMA KnownFact ==
  ASSUME NEW c \in Schemas, NEW m, IsMessage(c, m)
  PROVE  /\ \A n \in 0 .. Len(c) : KnownTo(c, m, n) \in Seq(WireFields)
         /\ KnownTo(c, m, 0) = <<>>
         /\ \A n \in 0 .. Len(c) - 1 : KnownTo(c, m, n + 1) = KnownTo(c, m, n) \o Opt(c, m, n + 1)
         /\ Sent(c, m) = KnownTo(c, m, Len(c)) \o m.unknown
<1> DEFINE s(n) == [k \in 1 .. n |-> Opt(c, m, k)]
<1>1. Len(c) \in Nat /\ DOMAIN c = 1 .. Len(c)
  BY SchemaFact
<1>2. ASSUME NEW k \in 1 .. Len(c) PROVE Opt(c, m, k) \in Seq(WireFields)
  <2>1. Field(c, m, k) \in WireFields
    BY <1>1, FieldSent
  <2>2. <<Field(c, m, k)>> \in Seq(WireFields) /\ <<>> \in Seq(WireFields)
    BY <2>1
  <2>3. QED BY <2>2 DEF Opt
<1>3. ASSUME NEW n \in 0 .. Len(c) PROVE s(n) \in Seq(Seq(WireFields)) /\ Len(s(n)) = n
  <2>1. n \in Nat /\ s(n) \in [1 .. n -> Seq(WireFields)]
    BY <1>1, <1>2
  <2> HIDE DEF s
  <2>2. QED BY <2>1, SeqFact, Zenon
<1>4. ASSUME NEW n \in 0 .. Len(c) PROVE KnownTo(c, m, n) \in Seq(WireFields)
  <2>1. KnownTo(c, m, n) = FlattenSeq(s(n))
    BY DEF KnownTo
  <2> HIDE DEF s
  <2>2. QED BY <1>3, <2>1, FlattenType
<1>5. KnownTo(c, m, 0) = <<>>
  <2>1. [k \in 1 .. 0 |-> Opt(c, m, k)] = <<>>
    OBVIOUS
  <2>2. QED BY <2>1, FlattenEmpty DEF KnownTo
<1>6. ASSUME NEW n \in 0 .. Len(c) - 1 PROVE KnownTo(c, m, n + 1) = KnownTo(c, m, n) \o Opt(c, m, n + 1)
  <2>1. n \in 0 .. Len(c) /\ n + 1 \in 0 .. Len(c) /\ n + 1 \in 1 .. Len(c) /\ n \in Nat
    BY <1>1
  <2>2. \A k \in 1 .. n : s(n + 1)[k] = s(n)[k]
    BY <2>1
  <2>3. s(n + 1)[n + 1] = Opt(c, m, n + 1)
    BY <2>1
  <2>4. KnownTo(c, m, n + 1) = FlattenSeq(s(n + 1)) /\ KnownTo(c, m, n) = FlattenSeq(s(n))
    BY DEF KnownTo
  <2> HIDE DEF s
  <2>5. /\ s(n) \in Seq(Seq(WireFields)) /\ Len(s(n)) = n
        /\ s(n + 1) \in Seq(Seq(WireFields)) /\ Len(s(n + 1)) = n + 1
        /\ Opt(c, m, n + 1) \in Seq(WireFields)
    BY <1>2, <1>3, <2>1
  <2> DEFINE u == Append(s(n), Opt(c, m, n + 1))
  <2>6. /\ u \in Seq(Seq(WireFields)) /\ Len(u) = n + 1 /\ u[n + 1] = Opt(c, m, n + 1)
        /\ \A k \in 1 .. n : u[k] = s(n)[k]
    BY <2>5, AppendProperties
  <2>7. s(n + 1) = u
    <3>1. \A k \in 1 .. n + 1 : k \in 1 .. n \/ k = n + 1
      BY <2>1
    <3> HIDE DEF u
    <3>2. \A k \in 1 .. n + 1 : s(n + 1)[k] = u[k]
      BY <2>2, <2>3, <2>6, <3>1
    <3>3. QED BY <2>5, <2>6, <3>2, SeqEqual
  <2>8. FlattenSeq(u) = FlattenSeq(s(n)) \o Opt(c, m, n + 1)
    BY <2>5, FlattenOneMore
  <2>9. QED BY <2>4, <2>7, <2>8
<1>7. Sent(c, m) = KnownTo(c, m, Len(c)) \o m.unknown
  BY <1>1 DEF Sent, KnownTo, Opt
<1>8. QED BY <1>4, <1>5, <1>6, <1>7

\* What is sent is fields.
LEMMA SentFact ==
  ASSUME NEW c \in Schemas, NEW m, IsMessage(c, m)
  PROVE  /\ Sent(c, m) \in Seq(WireFields) /\ m.unknown \in Seq(WireFields)
         /\ KnownTo(c, m, Len(c)) \in Seq(WireFields)
         /\ Serialize(c, m) = Written(KnownTo(c, m, Len(c))) \o Written(m.unknown)
         /\ Serialize(c, m) \in Seq(Octet) /\ Serialize(c, m) = Written(Sent(c, m))
<1>1. m.unknown \in Seq(UnknownFields(c)) /\ UnknownFields(c) \subseteq WireFields
  BY DEF IsMessage, UnknownFields
<1>2. m.unknown \in Seq(WireFields)
  BY <1>1, SeqMonotonic
<1>3. KnownTo(c, m, Len(c)) \in Seq(WireFields)
  <2>1. Len(c) \in 0 .. Len(c)
    BY SchemaFact
  <2>2. QED BY <2>1, KnownFact
<1>4. Sent(c, m) = KnownTo(c, m, Len(c)) \o m.unknown
  BY KnownFact
<1>5. Sent(c, m) \in Seq(WireFields)
  BY <1>2, <1>3, <1>4, ConcatProperties
<1>6. Serialize(c, m) = Written(Sent(c, m))
  BY DEF Serialize
<1>7. QED BY <1>2, <1>3, <1>4, <1>5, <1>6, WrittenConcat, WrittenFact

-----------------------------------------------------------------------------
(* Reading what was sent *)

\* A field that a class does not have is kept.
LEMMA FieldKept ==
  ASSUME NEW c, NEW f \in UnknownFields(c), NEW x, NEW y
  PROVE  ParsedField(c, [field |-> x, unknown |-> y], f.tag, f.v)
           = [field |-> x, unknown |-> Append(y, f)]
<1>1. f = [tag |-> f.tag, v |-> f.v]
  BY DEF UnknownFields, WireFields
<1>2. ~(f.tag \div 8 \in DOMAIN c /\ f.tag % 8 = Wire(c[f.tag \div 8]))
  BY DEF UnknownFields
<1>3. QED BY <1>1, <1>2 DEF ParsedField

\* Sequences of fields, one after the other.
LEMMA FieldsAssociative == \A x, y, z \in Seq(WireFields) : (x \o y) \o z = x \o (y \o z)
  BY ConcatAssociative

\* The unknown fields s after those of the message t.
With(t, s) == [field |-> t.field, unknown |-> t.unknown \o s]

\* An unknown field that is read comes after the others.
LEMMA OneMoreKept ==
  ASSUME NEW c, NEW t, t.unknown \in Seq(UnknownFields(c)), NEW s \in Seq(UnknownFields(c)),
         NEW f \in UnknownFields(c)
  PROVE  ParsedField(c, With(t, s), f.tag, f.v) = With(t, Append(s, f))
<1> PICK x : x = t.field
  OBVIOUS
<1> PICK us : us = t.unknown
  OBVIOUS
<1>1. UnknownFields(c) \subseteq WireFields
  BY DEF UnknownFields
<1>2. us \in Seq(WireFields) /\ s \in Seq(WireFields) /\ f \in WireFields
  BY <1>1, SeqMonotonic
<1>3. us \o s \in Seq(WireFields) /\ <<f>> \in Seq(WireFields)
  BY <1>2, ConcatProperties
<1>4. Append(us \o s, f) = (us \o s) \o <<f>> /\ Append(s, f) = s \o <<f>>
  BY <1>2, <1>3, AppendIsConcat
<1>5. (us \o s) \o <<f>> = us \o (s \o <<f>>)
  BY <1>2, <1>3, FieldsAssociative
<1>6. Append(us \o s, f) = us \o Append(s, f)
  BY <1>4, <1>5, Zenon
<1>7. ParsedField(c, [field |-> x, unknown |-> us \o s], f.tag, f.v)
        = [field |-> x, unknown |-> Append(us \o s, f)]
  BY FieldKept
<1>8. QED BY <1>6, <1>7 DEF With

\* After k fields the message t has been read, and what follows is at i.
Reads(R, c, b, most, k, t, i) ==
  /\ c \in Schemas /\ b \in Seq(Octet) /\ most \in Nat /\ Reading(R, c, b, most)
  /\ k \in Nat /\ IsMessage(c, t) /\ i \in Nat \ {0} /\ R[k] = Reached(t, i)

\* Unknown fields are kept in their order.
LEMMA UnknownRead ==
  ASSUME NEW R, NEW c, NEW b, NEW most, NEW k, NEW t, NEW i, Reads(R, c, b, most, k, t, i),
         NEW us \in Seq(UnknownFields(c)), Lies(b, i, Written(us)), k + Len(us) <= most
  PROVE  R[k + Len(us)] = Reached(With(t, us), i + Len(Written(us)))
<1> DEFINE A == {s \in Seq(UnknownFields(c)) :
                   Lies(b, i, Written(s)) /\ k + Len(s) <= most =>
                     R[k + Len(s)] = Reached(With(t, s), i + Len(Written(s)))}
<1> /\ c \in Schemas /\ b \in Seq(Octet) /\ most \in Nat /\ Reading(R, c, b, most)
    /\ k \in Nat /\ IsMessage(c, t) /\ i \in Nat \ {0} /\ R[k] = Reached(t, i)
  BY DEF Reads
<1>1. t.unknown \in Seq(UnknownFields(c)) /\ UnknownFields(c) \subseteq WireFields
        /\ t = [field |-> t.field, unknown |-> t.unknown]
  BY DEF IsMessage, UnknownFields
<1>2. \A s \in Seq(UnknownFields(c)) : s \in Seq(WireFields) /\ Written(s) \in Seq(Octet)
  BY <1>1, SeqMonotonic, WrittenFact
<1>3. <<>> \in A
  <2>1. <<>> \in Seq(UnknownFields(c)) /\ Len(<<>>) = 0
    OBVIOUS
  <2>2. Written(<<>>) = <<>>
    BY <1>2, <2>1, WrittenFact
  <2>3. With(t, <<>>) = t
    <3>1. t.unknown \o <<>> = t.unknown
      BY <1>1, ConcatEmptySeq
    <3>2. QED BY <1>1, <3>1 DEF With
  <2>4. k + 0 = k /\ i + 0 = i
    OBVIOUS
  <2>5. QED BY <2>1, <2>2, <2>3, <2>4
<1>4. ASSUME NEW s \in Seq(UnknownFields(c)), NEW f \in UnknownFields(c), s \in A
      PROVE  Append(s, f) \in A
  <2> DEFINE u == Append(s, f)
  <2>10. ParsedField(c, With(t, s), f.tag, f.v) = With(t, u)
    BY <1>1, OneMoreKept
  <2>1. /\ u \in Seq(UnknownFields(c)) /\ Len(u) = Len(s) + 1 /\ Len(s) \in Nat
        /\ s \in Seq(WireFields) /\ f \in WireFields
        /\ Written(s) \in Seq(Octet) /\ FieldBytes(f) \in Seq(Octet)
    BY <1>1, <1>2, AppendProperties, FieldBytesFact
  <2>2. Written(u) = Written(s) \o FieldBytes(f)
    BY <2>1, WrittenFact
  <2>3. SUFFICES ASSUME Lies(b, i, Written(u)), k + Len(u) <= most
                 PROVE  R[k + Len(u)] = Reached(With(t, u), i + Len(Written(u)))
    BY <2>1
  <2> PICK n \in Nat : n = k + Len(s)
    BY <2>1
  <2> PICK j \in Nat \ {0} : j = i + Len(Written(s))
    BY <2>1
  <2>4. n + 1 <= most /\ n \in 0 .. most - 1 /\ k + Len(u) = n + 1
    BY <2>1, <2>3
  <2>5. Lies(b, i, Written(s)) /\ Lies(b, j, FieldBytes(f))
    BY <2>1, <2>2, <2>3, LiesConcat
  <2>6. R[n] = Reached(With(t, s), j)
    BY <1>4, <2>4, <2>5
  <2>7. R[n + 1] = ReadNext(c, b, R[n])
    <3>1. \A l \in 0 .. most - 1 : R[l + 1] = ReadNext(c, b, R[l])
      BY ReadingSteps
    <3>2. QED BY <2>4, <3>1, Zenon
  <2>8. f.tag \div 8 \in DOMAIN c /\ f.tag % 8 = 2 /\ c[f.tag \div 8] = "string" => IsUTF8(f.v)
    BY DEF UnknownFields, Wire
  <2>9. R[n + 1] = Reached(ParsedField(c, With(t, s), f.tag, f.v), j + Len(FieldBytes(f)))
    BY <2>1, <2>5, <2>6, <2>7, <2>8, NextRead
  <2>11. j + Len(FieldBytes(f)) = i + Len(Written(u))
    BY <2>1, <2>2, ConcatProperties
  <2>12. QED BY <2>4, <2>9, <2>10, <2>11
<1> HIDE DEF A
<1>5. us \in A
  BY <1>3, <1>4, SeqInduction
<1>6. QED BY <1>5 DEF A

\* The first fields of one message that are set, into another.
Taking(c, t, m, n) ==
  [field   |-> [k \in DOMAIN c |-> IF k <= n /\ IsSet(c, m, k) THEN m.field[k] ELSE t.field[k]],
   unknown |-> t.unknown]

\* From none of them, which leaves the other as it is, to all of them, which is merging.
LEMMA TakingFact ==
  ASSUME NEW c \in Schemas, NEW t, IsMessage(c, t), NEW m, IsMessage(c, m)
  PROVE  /\ Taking(c, t, m, 0) = t
         /\ With(Taking(c, t, m, Len(c)), m.unknown) = MergeFrom(c, t, m)
         /\ \A n \in 0 .. Len(c) : IsMessage(c, Taking(c, t, m, n))
<1>1. DOMAIN c = 1 .. Len(c) /\ Len(c) \in Nat
  BY SchemaFact
<1>2. t = [field |-> t.field, unknown |-> t.unknown] /\ t.field = [n \in DOMAIN c |-> t.field[n]]
  BY DEF IsMessage
<1>3. Taking(c, t, m, 0) = t
  <2>1. \A k \in DOMAIN c : (IF k <= 0 /\ IsSet(c, m, k) THEN m.field[k] ELSE t.field[k]) = t.field[k]
    BY <1>1
  <2>2. [k \in DOMAIN c |-> IF k <= 0 /\ IsSet(c, m, k) THEN m.field[k] ELSE t.field[k]]
          = [k \in DOMAIN c |-> t.field[k]]
    BY <2>1
  <2>3. QED BY <1>2, <2>2, Zenon DEF Taking
<1>4. With(Taking(c, t, m, Len(c)), m.unknown) = MergeFrom(c, t, m)
  <2>1. DOMAIN t.field = DOMAIN c
    BY <1>2
  <2>2. \A k \in DOMAIN c : k <= Len(c)
    BY <1>1
  <2>3. [k \in DOMAIN c |-> IF k <= Len(c) /\ IsSet(c, m, k) THEN m.field[k] ELSE t.field[k]]
          = [n \in DOMAIN t.field |-> IF IsSet(c, m, n) THEN m.field[n] ELSE t.field[n]]
    BY <2>1, <2>2
  <2>4. QED BY <2>3 DEF With, Taking, MergeFrom
<1>5. ASSUME NEW n \in 0 .. Len(c) PROVE IsMessage(c, Taking(c, t, m, n))
  <2> DEFINE g == [k \in DOMAIN c |-> IF k <= n /\ IsSet(c, m, k) THEN m.field[k] ELSE t.field[k]]
  <2>1. Taking(c, t, m, n) = [field |-> g, unknown |-> t.unknown]
    BY DEF Taking
  <2>2. g = [k \in DOMAIN c |-> g[k]]
    OBVIOUS
  <2>3. \A k \in DOMAIN c : IF c[k] = "string" THEN IsString(g[k]) ELSE IsInt32(g[k])
    <3>1. \A k \in DOMAIN c : g[k] = m.field[k] \/ g[k] = t.field[k]
      OBVIOUS
    <3> HIDE DEF g
    <3>2. QED BY <3>1, Zenon DEF IsMessage
  <2> HIDE DEF g
  <2>4. Taking(c, t, m, n).field = g /\ Taking(c, t, m, n).unknown = t.unknown
    BY <2>1
  <2>5. t.unknown \in Seq(UnknownFields(c))
    BY DEF IsMessage
  <2>6. QED BY <2>1, <2>2, <2>3, <2>4, <2>5, Zenon DEF IsMessage
<1>6. QED BY <1>3, <1>4, <1>5

\* A field that is set replaces the other's, any other leaves it.
LEMMA TakingMore ==
  ASSUME NEW c \in Schemas, NEW t, IsMessage(c, t), NEW m, IsMessage(c, m), NEW n \in 0 .. Len(c) - 1
  PROVE  IF IsSet(c, m, n + 1)
         THEN Set(Taking(c, t, m, n), n + 1, m.field[n + 1]) = Taking(c, t, m, n + 1)
         ELSE Taking(c, t, m, n) = Taking(c, t, m, n + 1)
<1> DEFINE g(l) == [k \in DOMAIN c |-> IF k <= l /\ IsSet(c, m, k) THEN m.field[k] ELSE t.field[k]]
<1>1. DOMAIN c = 1 .. Len(c) /\ Len(c) \in Nat /\ n + 1 \in DOMAIN c /\ n \in Nat
  BY SchemaFact
<1>2. \A k \in DOMAIN c : k # n + 1 => (k <= n <=> k <= n + 1)
  BY <1>1
<1>3. ~(n + 1 <= n) /\ n + 1 <= n + 1
  BY <1>1
<1>4. CASE IsSet(c, m, n + 1)
  <2>1. [g(n) EXCEPT ![n + 1] = m.field[n + 1]] = g(n + 1)
    BY <1>1, <1>2, <1>3, <1>4
  <2> HIDE DEF g
  <2>2. Set([field |-> g(n), unknown |-> t.unknown], n + 1, m.field[n + 1])
          = [field |-> g(n + 1), unknown |-> t.unknown]
    BY <2>1 DEF Set
  <2>3. QED BY <1>4, <2>2, Zenon DEF Taking, g
<1>5. CASE ~IsSet(c, m, n + 1)
  <2>1. \A k \in DOMAIN c : (k <= n /\ IsSet(c, m, k)) <=> (k <= n + 1 /\ IsSet(c, m, k))
    BY <1>2, <1>3, <1>5, Zenon
  <2>2. g(n) = g(n + 1)
    BY <2>1
  <2> HIDE DEF g
  <2>3. QED BY <1>5, <2>2, Zenon DEF Taking, g
<1>6. QED BY <1>4, <1>5

\* The strings of the message can be read.
ReadableAs(c, m) == \A n \in DOMAIN c : c[n] = "string" => IsUTF8(m.field[n])

\* The fields that a class has are read one after the other.
LEMMA KnownRead ==
  ASSUME NEW R, NEW c, NEW b, NEW most, NEW k, NEW t, NEW i, Reads(R, c, b, most, k, t, i),
         NEW m, IsMessage(c, m), ReadableAs(c, m), NEW n \in 0 .. Len(c),
         Lies(b, i, Written(KnownTo(c, m, n))), k + Len(KnownTo(c, m, n)) <= most
  PROVE  R[k + Len(KnownTo(c, m, n))] = Reached(Taking(c, t, m, n), i + Len(Written(KnownTo(c, m, n))))
<1> DEFINE K(l) == KnownTo(c, m, l)
           A == {l \in Nat : l <= Len(c) /\ Lies(b, i, Written(K(l))) /\ k + Len(K(l)) <= most =>
                   R[k + Len(K(l))] = Reached(Taking(c, t, m, l), i + Len(Written(K(l))))}
<1> /\ c \in Schemas /\ b \in Seq(Octet) /\ most \in Nat /\ Reading(R, c, b, most)
    /\ k \in Nat /\ IsMessage(c, t) /\ i \in Nat \ {0} /\ R[k] = Reached(t, i)
  BY DEF Reads
<1>1. DOMAIN c = 1 .. Len(c) /\ Len(c) \in Nat
  BY SchemaFact
<1>2. 0 \in A
  <2>1. K(0) = <<>> /\ Written(<<>>) = <<>>
    <3>1. <<>> \in Seq(WireFields)
      OBVIOUS
    <3>2. QED BY <3>1, KnownFact, WrittenFact
  <2>2. Taking(c, t, m, 0) = t
    BY TakingFact
  <2>3. Len(<<>>) = 0 /\ k + 0 = k /\ i + 0 = i
    OBVIOUS
  <2>4. QED BY <2>1, <2>2, <2>3
<1>3. ASSUME NEW l \in Nat, l \in A PROVE l + 1 \in A
  <2>1. SUFFICES ASSUME l + 1 <= Len(c), Lies(b, i, Written(K(l + 1))), k + Len(K(l + 1)) <= most
                 PROVE  R[k + Len(K(l + 1))] = Reached(Taking(c, t, m, l + 1), i + Len(Written(K(l + 1))))
    OBVIOUS
  <2>2. l \in 0 .. Len(c) - 1 /\ l \in 0 .. Len(c) /\ l + 1 \in DOMAIN c
    BY <1>1, <2>1
  <2>3. K(l) \in Seq(WireFields) /\ K(l + 1) = K(l) \o Opt(c, m, l + 1)
    BY <2>2, KnownFact
  <2> HIDE DEF K
  <2>4. CASE IsSet(c, m, l + 1)
    <3> DEFINE f == Field(c, m, l + 1)
    <3>1. /\ f \in WireFields
          /\ f.tag \div 8 = l + 1 /\ f.tag % 8 = Wire(c[l + 1])
          /\ c[l + 1] = "string" => f.v = m.field[l + 1]
          /\ ParsedField(c, Taking(c, t, m, l), f.tag, f.v)
               = Set(Taking(c, t, m, l), l + 1, m.field[l + 1])
      BY <2>2, FieldSent
    <3>2. K(l + 1) = K(l) \o <<f>>
      BY <2>3, <2>4 DEF Opt
    <3> HIDE DEF f
    <3>3. K(l + 1) = Append(K(l), f)
      BY <2>3, <3>1, <3>2, AppendIsConcat
    <3>4. /\ Len(K(l + 1)) = Len(K(l)) + 1 /\ Len(K(l)) \in Nat
          /\ Written(K(l)) \in Seq(Octet) /\ FieldBytes(f) \in Seq(Octet)
          /\ Written(K(l + 1)) = Written(K(l)) \o FieldBytes(f)
      <4>1. Len(K(l + 1)) = Len(K(l)) + 1 /\ Len(K(l)) \in Nat
        BY <2>3, <3>1, <3>3, AppendProperties
      <4>2. Written(K(l)) \in Seq(Octet) /\ FieldBytes(f) \in Seq(Octet)
        BY <2>3, <3>1, FieldBytesFact, WrittenFact
      <4>3. Written(Append(K(l), f)) = Written(K(l)) \o FieldBytes(f)
        BY <2>3, <3>1, WrittenFact
      <4>4. QED BY <3>3, <4>1, <4>2, <4>3, Zenon
    <3> PICK w : w = Written(K(l))
      OBVIOUS
    <3> PICK p \in Nat : p = k + Len(K(l))
      BY <3>4
    <3> PICK j \in Nat \ {0} : j = i + Len(w)
      <4>1. Len(w) \in Nat
        BY <3>4
      <4>2. QED BY <4>1
    <3>5. p + 1 <= most /\ p <= most /\ p \in 0 .. most - 1 /\ k + Len(K(l + 1)) = p + 1
      <4>1. \A x \in Nat : k + (x + 1) <= most => LET q == k + x
                                                 IN  /\ q + 1 <= most /\ q <= most /\ q \in 0 .. most - 1
                                                     /\ k + (x + 1) = q + 1
        OBVIOUS
      <4>2. QED BY <2>1, <3>4, <4>1, Zenon
    <3>6. Lies(b, i, w) /\ Lies(b, j, FieldBytes(f))
      <4>1. w \in Seq(Octet) /\ FieldBytes(f) \in Seq(Octet) /\ Lies(b, i, w \o FieldBytes(f))
        BY <2>1, <3>4
      <4>2. QED BY <4>1, LiesConcat
    <3>7. R[p] = Reached(Taking(c, t, m, l), j)
      BY <1>3, <2>2, <3>5, <3>6 DEF K
    <3>8. R[p + 1] = ReadNext(c, b, R[p])
      <4>1. \A q \in 0 .. most - 1 : R[q + 1] = ReadNext(c, b, R[q])
        BY ReadingSteps
      <4>2. QED BY <3>5, <4>1, Zenon
    <3>9. f.tag \div 8 \in DOMAIN c /\ f.tag % 8 = 2 /\ c[f.tag \div 8] = "string" => IsUTF8(f.v)
      BY <2>2, <3>1, Zenon DEF ReadableAs
    <3>10. R[p + 1] = Reached(ParsedField(c, Taking(c, t, m, l), f.tag, f.v), j + Len(FieldBytes(f)))
      BY <3>1, <3>6, <3>7, <3>8, <3>9, NextRead
    <3>11. ParsedField(c, Taking(c, t, m, l), f.tag, f.v) = Taking(c, t, m, l + 1)
      BY <2>2, <2>4, <3>1, TakingMore
    <3>12. j + Len(FieldBytes(f)) = i + Len(Written(K(l + 1)))
      <4>1. w \in Seq(Octet) /\ FieldBytes(f) \in Seq(Octet) /\ Written(K(l + 1)) = w \o FieldBytes(f)
        BY <3>4
      <4>2. Len(Written(K(l + 1))) = Len(w) + Len(FieldBytes(f)) /\ Len(w) \in Nat
              /\ Len(FieldBytes(f)) \in Nat
        BY <4>1, ConcatProperties, LenProperties
      <4>3. \A x, y \in Nat : (i + x) + y = i + (x + y)
        OBVIOUS
      <4>4. (i + Len(w)) + Len(FieldBytes(f)) = i + (Len(w) + Len(FieldBytes(f)))
        BY <4>2, <4>3, Zenon
      <4>5. QED BY <4>2, <4>4, Zenon
    <3>13. QED BY <3>5, <3>10, <3>11, <3>12
  <2>5. CASE ~IsSet(c, m, l + 1)
    <3>1. K(l + 1) = K(l)
      BY <2>3, <2>5, ConcatEmptySeq DEF Opt
    <3>2. Taking(c, t, m, l) = Taking(c, t, m, l + 1)
      BY <2>2, <2>5, TakingMore
    <3>3. QED BY <1>3, <2>1, <2>2, <3>1, <3>2 DEF K
  <2>6. QED BY <2>4, <2>5
<1> HIDE DEF A
<1>4. Nat \subseteq A
  BY <1>2, <1>3, SetInduction
<1>5. n \in Nat /\ n <= Len(c)
  BY <1>1
<1>6. QED BY <1>4, <1>5 DEF A

\* A message is read into another one.
LEMMA MergeRead ==
  ASSUME NEW R, NEW c, NEW b, NEW most, NEW k, NEW t, NEW i, Reads(R, c, b, most, k, t, i),
         NEW m, IsMessage(c, m), ReadableAs(c, m),
         Lies(b, i, Serialize(c, m)), k + Len(Sent(c, m)) <= most
  PROVE  R[k + Len(Sent(c, m))] = Reached(MergeFrom(c, t, m), i + Len(Serialize(c, m)))
<1> DEFINE known == KnownTo(c, m, Len(c))
           us    == m.unknown
           w     == Written(known)
           v     == Written(us)
           s     == Taking(c, t, m, Len(c))
<1> /\ c \in Schemas /\ b \in Seq(Octet) /\ most \in Nat /\ Reading(R, c, b, most)
    /\ k \in Nat /\ IsMessage(c, t) /\ i \in Nat \ {0} /\ R[k] = Reached(t, i)
  BY DEF Reads
<1>1. known \in Seq(WireFields) /\ us \in Seq(WireFields) /\ us \in Seq(UnknownFields(c))
  BY SentFact DEF IsMessage
<1>2. Len(c) \in 0 .. Len(c)
  BY SchemaFact
<1>3. IsMessage(c, s) /\ With(s, us) = MergeFrom(c, t, m)
  BY <1>2, TakingFact
<1> HIDE DEF known, us, w, v, s
<1>4. w \in Seq(Octet) /\ v \in Seq(Octet)
  BY <1>1, WrittenFact DEF w, v
<1>5. Sent(c, m) = known \o us /\ Serialize(c, m) = w \o v
  BY KnownFact, SentFact DEF known, us, w, v
<1>6. /\ Len(known) \in Nat /\ Len(us) \in Nat /\ Len(Sent(c, m)) = Len(known) + Len(us)
      /\ Len(w) \in Nat /\ Len(v) \in Nat /\ Len(Serialize(c, m)) = Len(w) + Len(v)
  BY <1>1, <1>4, <1>5, ConcatProperties, LenProperties
<1>7. PICK q \in Nat : /\ q = k + Len(known) /\ q <= most /\ q + Len(us) <= most
                       /\ q + Len(us) = k + Len(Sent(c, m))
  <2>1. k + (Len(known) + Len(us)) <= most
    BY <1>6
  <2>2. \A p, x, y \in Nat : p + x \in Nat /\ p + (x + y) = (p + x) + y
                           /\ (p + (x + y) <= most => p + x <= most /\ (p + x) + y <= most)
    OBVIOUS
  <2>3. k + Len(known) \in Nat /\ k + Len(known) <= most /\ (k + Len(known)) + Len(us) <= most
        /\ k + (Len(known) + Len(us)) = (k + Len(known)) + Len(us)
    BY <1>6, <2>1, <2>2
  <2>4. QED BY <1>6, <2>3
<1>8. PICK j \in Nat \ {0} : j = i + Len(w) /\ j + Len(v) = i + Len(Serialize(c, m))
  <2>1. \A p, x, y \in Nat : i + p \in Nat \ {0} /\ (i + x) + y = i + (x + y)
    OBVIOUS
  <2>2. i + Len(w) \in Nat \ {0} /\ (i + Len(w)) + Len(v) = i + (Len(w) + Len(v))
    BY <1>6, <2>1
  <2>3. QED BY <1>6, <2>2
<1>9. Lies(b, i, w) /\ Lies(b, j, v)
  <2>1. Lies(b, i, w \o v)
    BY <1>5
  <2>2. QED BY <1>4, <1>8, <2>1, LiesConcat
<1>10. R[q] = Reached(s, j)
  <2>1. Lies(b, i, Written(KnownTo(c, m, Len(c)))) /\ k + Len(KnownTo(c, m, Len(c))) <= most
    BY <1>7, <1>9 DEF known, w
  <2>2. R[k + Len(KnownTo(c, m, Len(c)))]
          = Reached(Taking(c, t, m, Len(c)), i + Len(Written(KnownTo(c, m, Len(c)))))
    BY <1>2, <2>1, KnownRead
  <2>3. QED BY <1>7, <1>8, <2>2 DEF known, w, s
<1>11. R[q + Len(us)] = Reached(With(s, us), j + Len(v))
  <2>1. Reads(R, c, b, most, q, s, j)
    BY <1>3, <1>10 DEF Reads
  <2>2. us \in Seq(UnknownFields(c)) /\ Lies(b, j, Written(us)) /\ q + Len(us) <= most
    BY <1>1, <1>7, <1>9 DEF v
  <2>3. R[q + Len(us)] = Reached(With(s, us), j + Len(Written(us)))
    BY <2>1, <2>2, UnknownRead
  <2>4. QED BY <2>3 DEF v
<1>12. QED BY <1>3, <1>7, <1>8, <1>11

\* Into an empty message, it is the message.
LEMMA MergeIntoNew ==
  ASSUME NEW c \in Schemas
  PROVE  IsMessage(c, New(c)) /\ \A m : IsMessage(c, m) => MergeFrom(c, New(c), m) = m
<1> DEFINE g == [n \in DOMAIN c |-> Default(c[n])]
<1>1. New(c) = [field |-> g, unknown |-> <<>>] /\ DOMAIN g = DOMAIN c
  BY DEF New
<1>2. IsMessage(c, New(c))
  <2>1. \A n \in DOMAIN c : IF c[n] = "string" THEN IsString(g[n]) ELSE IsInt32(g[n])
    <3>1. IsString(<<>>)
      BY VarintsFact DEF IsString
    <3>2. IsInt32(0)
      <4>1. 0 >= -(Int32s \div 2) /\ 0 <= Int32s \div 2 - 1
        BY VarintAssumption
      <4>2. Int32s \div 2 \in Int
        BY VarintAssumption
      <4>3. QED BY <4>1, <4>2 DEF IsInt32
    <3>3. \A n \in DOMAIN c : g[n] = IF c[n] = "string" THEN <<>> ELSE 0
      BY DEF Default
    <3>4. QED BY <3>1, <3>2, <3>3, Zenon
  <2>2. g = [n \in DOMAIN c |-> g[n]]
    OBVIOUS
  <2>3. <<>> \in Seq(UnknownFields(c))
    OBVIOUS
  <2> HIDE DEF g
  <2>4. New(c).field = g /\ New(c).unknown = <<>>
    BY <1>1
  <2>5. QED BY <1>1, <2>1, <2>2, <2>3, <2>4, Zenon DEF IsMessage
<1>3. ASSUME NEW m, IsMessage(c, m) PROVE MergeFrom(c, New(c), m) = m
  <2>1. m = [field |-> m.field, unknown |-> m.unknown] /\ m.field = [n \in DOMAIN c |-> m.field[n]]
        /\ m.unknown \in Seq(UnknownFields(c))
    BY <1>3 DEF IsMessage
  <2>2. \A n \in DOMAIN c : g[n] = Default(c[n])
    OBVIOUS
  <2>3. [n \in DOMAIN g |-> IF IsSet(c, m, n) THEN m.field[n] ELSE g[n]]
          = [n \in DOMAIN c |-> m.field[n]]
    BY <1>1, <2>2 DEF IsSet
  <2>4. <<>> \o m.unknown = m.unknown
    BY <2>1, ConcatEmptySeq
  <2> HIDE DEF g
  <2>5. MergeFrom(c, New(c), m)
          = [field   |-> [n \in DOMAIN g |-> IF IsSet(c, m, n) THEN m.field[n] ELSE g[n]],
             unknown |-> <<>> \o m.unknown]
    BY <1>1 DEF MergeFrom
  <2>6. QED BY <2>1, <2>3, <2>4, <2>5, Zenon
<1>4. QED BY <1>2, <1>3

\* A message merged with another one of its class is one.
LEMMA MergeIsMessage ==
  ASSUME NEW c \in Schemas, NEW t, IsMessage(c, t), NEW m, IsMessage(c, m)
  PROVE  IsMessage(c, MergeFrom(c, t, m))
<1> DEFINE s == Taking(c, t, m, Len(c))
<1>1. IsMessage(c, s) /\ With(s, m.unknown) = MergeFrom(c, t, m)
  <2>1. Len(c) \in 0 .. Len(c)
    BY SchemaFact
  <2>2. QED BY <2>1, TakingFact
<1> HIDE DEF s
<1>2. s.unknown \in Seq(UnknownFields(c)) /\ m.unknown \in Seq(UnknownFields(c))
  BY <1>1 DEF IsMessage
<1>3. s.unknown \o m.unknown \in Seq(UnknownFields(c))
  BY <1>2, ConcatProperties
<1>4. With(s, m.unknown).field = s.field /\ With(s, m.unknown).unknown = s.unknown \o m.unknown
      /\ With(s, m.unknown) = [field |-> s.field, unknown |-> s.unknown \o m.unknown]
  BY DEF With
<1>5. IsMessage(c, With(s, m.unknown))
  BY <1>1, <1>3, <1>4, Zenon DEF IsMessage
<1>6. QED BY <1>1, <1>5

\* When the bytes are at an end, or zeros follow, the message is what has been read.
LEMMA ParseEnds ==
  ASSUME NEW R, NEW c, NEW b, NEW most, NEW n, NEW m, NEW i, Reads(R, c, b, most, n, m, i), n < most
  PROVE  /\ i > Len(b) => R[most].ok = TRUE /\ R[most].m = m
         /\ Lies(b, i, Zeros8) => R[most].ok = FALSE /\ R[most].m = m
<1>2. /\ b \in Seq(Octet) /\ most \in Nat /\ Reading(R, c, b, most)
      /\ n \in Nat /\ i \in Nat \ {0} /\ R[n] = Reached(m, i)
  BY DEF Reads
<1>1. n \in 0 .. most - 1 /\ n + 1 \in 0 .. most
  BY <1>2
<1>3. R[n + 1] = ReadNext(c, b, Reached(m, i))
  <2>1. \A l \in 0 .. most - 1 : R[l + 1] = ReadNext(c, b, R[l])
    BY <1>2, ReadingSteps
  <2>2. QED BY <1>1, <1>2, <2>1, Zenon
<1>4. ASSUME NEW ok, R[n + 1] = [m |-> m, at |-> i, ok |-> ok, ended |-> TRUE]
      PROVE  R[most].ok = ok /\ R[most].m = m
  <2>1. R[n + 1].ended /\ R[n + 1].ok = ok /\ R[n + 1].m = m
    BY <1>4
  <2>2. R[most] = R[n + 1]
    BY <1>1, <1>2, <2>1, EndedStays
  <2>3. QED BY <2>1, <2>2
<1>5. QED BY <1>2, <1>3, <1>4, NextEnds

-----------------------------------------------------------------------------
(* What is sent is read *)

\* A message that is sent has two bytes to a field at least, and takes so many steps to read.
LEMMA SerializeFact ==
  ASSUME NEW c \in Schemas, NEW m, IsMessage(c, m)
  PROVE  /\ Serialize(c, m) \in Seq(Octet)
         /\ Len(Sent(c, m)) \in Nat /\ Len(Serialize(c, m)) \in Nat
         /\ 2 * Len(Sent(c, m)) <= Len(Serialize(c, m))
<1>1. /\ Sent(c, m) \in Seq(WireFields)
      /\ Serialize(c, m) \in Seq(Octet) /\ Serialize(c, m) = Written(Sent(c, m))
  BY SentFact
<1>2. 2 * Len(Sent(c, m)) <= Len(Serialize(c, m))
  BY <1>1, WrittenLong
<1>3. QED BY <1>1, <1>2, LenProperties

\* Reading starts with an empty message.
LEMMA ReadsStart ==
  ASSUME NEW c \in Schemas, NEW b \in Seq(Octet)
  PROVE  LET most == Len(b) \div 2 + 1
         IN  \E R : /\ Reads(R, c, b, most, 0, New(c), 1)
                    /\ Parse(c, b) = [ok |-> R[most].ok, m |-> R[most].m]
<1> DEFINE most == Len(b) \div 2 + 1
<1>1. most \in Nat
  BY LenProperties
<1> HIDE DEF most
<1>2. PICK R : Reading(R, c, b, most) /\ Parse(c, b) = [ok |-> R[most].ok, m |-> R[most].m]
  BY ParseIs DEF most
<1>3. R[0] = Reached(New(c), 1)
  BY <1>1, <1>2, ReadingSteps
<1>4. IsMessage(c, New(c))
  BY MergeIntoNew
<1>5. Reads(R, c, b, most, 0, New(c), 1)
  BY <1>1, <1>2, <1>3, <1>4 DEF Reads
<1>6. QED BY <1>2, <1>5 DEF most

\* Of the bytes that start with a message it is read first, in steps that leave one more.
LEMMA FirstRead ==
  ASSUME NEW c \in Schemas, NEW m, IsMessage(c, m), ReadableAs(c, m), NEW w \in Seq(Octet)
  PROVE  LET b    == Serialize(c, m) \o w
             most == Len(b) \div 2 + 1
         IN  \E R : /\ Reads(R, c, b, most, Len(Sent(c, m)), m, 1 + Len(Serialize(c, m)))
                    /\ Parse(c, b) = [ok |-> R[most].ok, m |-> R[most].m]
<1> DEFINE u    == Serialize(c, m)
           b    == u \o w
           most == Len(b) \div 2 + 1
           n    == Len(Sent(c, m))
<1>1. u \in Seq(Octet) /\ n \in Nat /\ Len(u) \in Nat /\ 2 * n <= Len(u)
  BY SerializeFact
<1> HIDE DEF u, n
<1>2. b \in Seq(Octet) /\ Len(b) = Len(u) + Len(w) /\ Len(w) \in Nat /\ Lies(b, 1, u)
  <2>1. b \in Seq(Octet) /\ Len(b) = Len(u) + Len(w) /\ Len(w) \in Nat
    BY <1>1, ConcatProperties, LenProperties
  <2>2. Lies(u \o w, 1, u)
    BY <1>1, LiesConcat
  <2>3. QED BY <2>1, <2>2
<1> HIDE DEF b
<1>3. n <= most
  BY <1>1, <1>2
<1>4. PICK R : /\ Reads(R, c, b, most, 0, New(c), 1)
               /\ Parse(c, b) = [ok |-> R[most].ok, m |-> R[most].m]
  BY <1>2, ReadsStart
<1> HIDE DEF most
<1>5. 0 + Len(Sent(c, m)) <= most /\ Lies(b, 1, Serialize(c, m)) /\ 0 + n = n
  BY <1>1, <1>2, <1>3 DEF n, u
<1>6. R[0 + Len(Sent(c, m))] = Reached(MergeFrom(c, New(c), m), 1 + Len(Serialize(c, m)))
  BY <1>4, <1>5, MergeRead
<1>7. MergeFrom(c, New(c), m) = m
  BY MergeIntoNew
<1>8. R[n] = Reached(m, 1 + Len(u)) /\ 1 + Len(u) \in Nat \ {0}
  BY <1>1, <1>5, <1>6, <1>7 DEF n, u
<1>9. Reads(R, c, b, most, n, m, 1 + Len(u))
  BY <1>1, <1>4, <1>8 DEF Reads
<1>10. QED BY <1>4, <1>9 DEF u, n, b, most

\* A message alone, and with zeros after it.
LEMMA SentParsed ==
  ASSUME NEW c \in Schemas, NEW m, IsMessage(c, m), ReadableAs(c, m)
  PROVE  /\ Parse(c, Serialize(c, m)) = [ok |-> TRUE, m |-> m]
         /\ Parse(c, Serialize(c, m) \o Zeros8) = [ok |-> FALSE, m |-> m]
<1> DEFINE u == Serialize(c, m)
           n == Len(Sent(c, m))
<1>1. u \in Seq(Octet) /\ n \in Nat /\ Len(u) \in Nat /\ 2 * n <= Len(u)
  BY SerializeFact
<1>2. ASSUME NEW w \in Seq(Octet)
      PROVE  /\ w = <<>> => Parse(c, u \o w) = [ok |-> TRUE, m |-> m]
             /\ w = Zeros8 => Parse(c, u \o w) = [ok |-> FALSE, m |-> m]
  <2> DEFINE b    == u \o w
             most == Len(b) \div 2 + 1
  <2>1. PICK R : /\ Reads(R, c, b, most, n, m, 1 + Len(u))
                 /\ Parse(c, b) = [ok |-> R[most].ok, m |-> R[most].m]
    BY FirstRead
  <2> HIDE DEF u, n
  <2>2. b \in Seq(Octet) /\ Len(b) = Len(u) + Len(w) /\ Len(w) \in Nat /\ Lies(b, 1 + Len(u), w)
    BY <1>1, ConcatProperties, LenProperties, LiesConcat
  <2> HIDE DEF b
  <2>3. 2 * n <= Len(b) /\ 1 + Len(u) \in Nat \ {0}
    BY <1>1, <2>2
  <2>4. n < most
    BY <1>1, <2>3
  <2> HIDE DEF most
  <2>5. /\ 1 + Len(u) > Len(b) => R[most].ok = TRUE /\ R[most].m = m
        /\ Lies(b, 1 + Len(u), Zeros8) => R[most].ok = FALSE /\ R[most].m = m
    BY <2>1, <2>4, ParseEnds
  <2>6. ASSUME w = <<>> PROVE Parse(c, b) = [ok |-> TRUE, m |-> m]
    <3>1. 1 + Len(u) > Len(b)
      BY <1>1, <2>2, <2>6
    <3>2. QED BY <2>1, <2>5, <3>1
  <2>7. ASSUME w = Zeros8 PROVE Parse(c, b) = [ok |-> FALSE, m |-> m]
    BY <2>1, <2>2, <2>5, <2>7
  <2>8. QED BY <2>6, <2>7 DEF b
<1> HIDE DEF u
<1>3. <<>> \in Seq(Octet) /\ Zeros8 \in Seq(Octet) /\ u \o <<>> = u
  <2>1. Zeros8 \in Seq(Octet)
    BY DEF Zeros8, Octet
  <2>2. QED BY <1>1, <2>1, ConcatEmptySeq
<1>4. Parse(c, u \o <<>>) = [ok |-> TRUE, m |-> m] /\ Parse(c, u \o Zeros8) = [ok |-> FALSE, m |-> m]
  BY <1>2, <1>3
<1>5. QED BY <1>3, <1>4 DEF u

\* Two messages, one after the other.
LEMMA BothParsed ==
  ASSUME NEW c \in Schemas, NEW t, IsMessage(c, t), ReadableAs(c, t),
         NEW m, IsMessage(c, m), ReadableAs(c, m)
  PROVE  Parse(c, Serialize(c, t) \o Serialize(c, m)) = [ok |-> TRUE, m |-> MergeFrom(c, t, m)]
<1> DEFINE u    == Serialize(c, t)
           w    == Serialize(c, m)
           b    == u \o w
           most == Len(b) \div 2 + 1
           n    == Len(Sent(c, t))
           l    == Len(Sent(c, m))
<1>1. /\ u \in Seq(Octet) /\ n \in Nat /\ Len(u) \in Nat /\ 2 * n <= Len(u)
      /\ w \in Seq(Octet) /\ l \in Nat /\ Len(w) \in Nat /\ 2 * l <= Len(w)
  BY SerializeFact
<1>2. PICK R : /\ Reads(R, c, b, most, n, t, 1 + Len(u))
               /\ Parse(c, b) = [ok |-> R[most].ok, m |-> R[most].m]
  BY <1>1, FirstRead
<1> HIDE DEF u, n, l, w
<1>3. b \in Seq(Octet) /\ Len(b) = Len(u) + Len(w) /\ Lies(b, 1 + Len(u), w)
  BY <1>1, ConcatProperties, LiesConcat
<1> HIDE DEF b
<1>4. n + l \in Nat /\ 2 * (n + l) <= Len(b) /\ n + l <= most
  <2>1. \A p, x, y, z \in Nat : 2 * p <= y /\ 2 * x <= z =>
          p + x \in Nat /\ 2 * (p + x) <= y + z /\ p + x <= (y + z) \div 2 + 1
    OBVIOUS
  <2>2. QED BY <1>1, <1>3, <2>1
<1>5. R[n + l] = Reached(MergeFrom(c, t, m), (1 + Len(u)) + Len(w))
  <2>1. Lies(b, 1 + Len(u), Serialize(c, m)) /\ n + Len(Sent(c, m)) <= most
    BY <1>3, <1>4 DEF w, l
  <2>2. R[n + Len(Sent(c, m))] = Reached(MergeFrom(c, t, m), (1 + Len(u)) + Len(Serialize(c, m)))
    BY <1>2, <2>1, MergeRead
  <2>3. QED BY <2>2 DEF w, l
<1>6. (1 + Len(u)) + Len(w) \in Nat \ {0} /\ (1 + Len(u)) + Len(w) > Len(b)
  BY <1>1, <1>3
<1>7. Reads(R, c, b, most, n + l, MergeFrom(c, t, m), (1 + Len(u)) + Len(w)) /\ n + l < most
  <2>1. n + l < most
    BY <1>3, <1>4, LenProperties
  <2>2. IsMessage(c, MergeFrom(c, t, m))
    BY MergeIsMessage
  <2> HIDE DEF most
  <2>3. QED BY <1>2, <1>4, <1>5, <1>6, <2>1, <2>2 DEF Reads
<1> HIDE DEF most
<1>8. R[most].ok = TRUE /\ R[most].m = MergeFrom(c, t, m)
  BY <1>6, <1>7, ParseEnds
<1>9. QED BY <1>2, <1>8 DEF u, w, b, most

-----------------------------------------------------------------------------
(* Sizes *)

\* The function by which VarintSize is computed.
VarintSizes(h) == h = [k \in 0 .. Varints - 1 |-> IF k < 128 THEN 1 ELSE 1 + h[k \div 128]]

\* A varint has as many bytes as it is said to have.
LEMMA VarintSizeIs ==
  ASSUME NEW n \in 0 .. Varints - 1 PROVE VarintSize(n) = Len(Varint(n))
<1> DEFINE g == [k \in 0 .. Varints - 1 |-> Len(Varint(k))]
           h == CHOOSE f : VarintSizes(f)
           A == {k \in Nat : k < Varints => h[k] = Len(Varint(k))}
<1>1. \E f : VarintSizes(f)
  <2>1. \A k \in 0 .. Varints - 1 : Len(Varint(k)) = IF k < 128 THEN 1 ELSE 1 + g[k \div 128]
    <3>1. SUFFICES ASSUME NEW k \in 0 .. Varints - 1
                   PROVE  Len(Varint(k)) = IF k < 128 THEN 1 ELSE 1 + g[k \div 128]
      OBVIOUS
    <3>2. CASE k < 128
      BY <3>2, VarintBytesAre
    <3>3. CASE ~(k < 128)
      <4>1. k >= 128
        BY <3>3, VarintsFact
      <4>2. k \div 128 \in 0 .. Varints - 1 /\ Len(Varint(k)) = Len(Varint(k \div 128)) + 1
        BY <4>1, VarintBytesAre
      <4>3. Len(Varint(k \div 128)) \in Nat
        BY <4>2, VarintType
      <4>4. g[k \div 128] = Len(Varint(k \div 128))
        BY <4>2
      <4> HIDE DEF g
      <4>5. QED BY <3>3, <4>2, <4>3, <4>4
    <3>4. QED BY <3>2, <3>3
  <2>2. g = [k \in 0 .. Varints - 1 |-> IF k < 128 THEN 1 ELSE 1 + g[k \div 128]]
    BY <2>1
  <2> HIDE DEF g
  <2>3. VarintSizes(g)
    BY <2>2 DEF VarintSizes
  <2>4. QED BY <2>3
<1>2. VarintSizes(h)
  BY <1>1
<1>3. VarintSize(n) = h[n]
  BY DEF VarintSize, VarintSizes
<1> HIDE DEF h, g
<1>4. \A k \in 0 .. Varints - 1 : h[k] = IF k < 128 THEN 1 ELSE 1 + h[k \div 128]
  BY <1>2 DEF VarintSizes
<1>5. ASSUME NEW k \in Nat, \A m \in 0 .. k - 1 : m \in A PROVE k \in A
  <2>1. SUFFICES ASSUME k < Varints PROVE h[k] = Len(Varint(k))
    OBVIOUS
  <2>2. k \in 0 .. Varints - 1
    BY <2>1, VarintsFact
  <2>3. CASE k < 128
    <3>1. h[k] = 1 /\ Len(Varint(k)) = 1
      BY <1>4, <2>2, <2>3, VarintBytesAre
    <3>2. QED BY <3>1
  <2>4. CASE ~(k < 128)
    <3>1. k >= 128 /\ k \div 128 \in 0 .. k - 1
      BY <2>4, SevenBits
    <3>2. k \div 128 \in 0 .. Varints - 1 /\ Len(Varint(k)) = Len(Varint(k \div 128)) + 1
      BY <2>2, <3>1, VarintBytesAre
    <3>3. h[k \div 128] = Len(Varint(k \div 128)) /\ Len(Varint(k \div 128)) \in Nat
      <4>1. k \div 128 \in A /\ k \div 128 < Varints
        <5>1. \A x \in 0 .. Varints - 1 : x < Varints
          BY VarintsFact
        <5>2. k \div 128 \in A
          BY <1>5, <3>1
        <5>3. QED BY <3>2, <5>1, <5>2
      <4>2. QED BY <3>2, <4>1, VarintType
    <3>4. h[k] = 1 + h[k \div 128]
      BY <1>4, <2>2, <2>4
    <3>5. QED BY <3>2, <3>3, <3>4
  <2>5. QED BY <2>3, <2>4
<1> HIDE DEF A
<1>6. Nat \subseteq A
  BY <1>5, StrongInduction
<1>7. h[n] = Len(Varint(n))
  <2>1. n \in Nat /\ n < Varints
    BY VarintsFact
  <2>2. QED BY <1>6, <2>1 DEF A
<1>8. QED BY <1>3, <1>7

\* The function by which Total is computed.
Totals(h, s) == h = [k \in 0 .. Len(s) |-> IF k = 0 THEN 0 ELSE h[k - 1] + s[k]]

\* A total is what adds the sizes one by one.
LEMMA TotalIs ==
  ASSUME NEW s, Len(s) \in Nat, NEW f, f[0] = 0,
         \A k \in 1 .. Len(s) : f[k] = f[k - 1] + s[k]
  PROVE  Total(s) = f[Len(s)]
<1> DEFINE g == [k \in 0 .. Len(s) |-> f[k]]
           h == CHOOSE x : Totals(x, s)
           A == {k \in Nat : k <= Len(s) => h[k] = f[k]}
<1>1. \E x : Totals(x, s)
  <2>1. \A k \in 0 .. Len(s) : f[k] = IF k = 0 THEN 0 ELSE g[k - 1] + s[k]
    <3>1. \A k \in 0 .. Len(s) : k = 0 \/ (k \in 1 .. Len(s) /\ k - 1 \in 0 .. Len(s))
      OBVIOUS
    <3>2. \A k \in 0 .. Len(s) : g[k] = f[k]
      OBVIOUS
    <3> HIDE DEF g
    <3>3. QED BY <3>1, <3>2
  <2>2. g = [k \in 0 .. Len(s) |-> IF k = 0 THEN 0 ELSE g[k - 1] + s[k]]
    BY <2>1
  <2> HIDE DEF g
  <2>3. Totals(g, s)
    BY <2>2 DEF Totals
  <2>4. QED BY <2>3
<1>2. Totals(h, s)
  BY <1>1
<1>3. Total(s) = h[Len(s)]
  BY DEF Total, Totals
<1> HIDE DEF h, g
<1>4. \A k \in 0 .. Len(s) : h[k] = IF k = 0 THEN 0 ELSE h[k - 1] + s[k]
  BY <1>2 DEF Totals
<1>5. 0 \in A
  BY <1>4
<1>6. ASSUME NEW k \in Nat, k \in A PROVE k + 1 \in A
  <2>1. SUFFICES ASSUME k + 1 <= Len(s) PROVE h[k + 1] = f[k + 1]
    OBVIOUS
  <2>2. k + 1 \in 0 .. Len(s) /\ k + 1 \in 1 .. Len(s) /\ k + 1 # 0 /\ (k + 1) - 1 = k /\ k <= Len(s)
    BY <2>1
  <2>3. h[k + 1] = h[k] + s[k + 1] /\ f[k + 1] = f[k] + s[k + 1]
    BY <1>4, <2>2
  <2>4. QED BY <1>6, <2>2, <2>3
<1> HIDE DEF A
<1>7. Len(s) \in A
  BY <1>5, <1>6, SetInduction
<1>8. QED BY <1>3, <1>7 DEF A

\* What a field takes, when it is set.
SizeOf(c, m, n) ==
  IF c[n] = "string" THEN 1 + VarintSize(Len(m.field[n])) + Len(m.field[n])
  ELSE 1 + VarintSize(Unsigned(m.field[n], Varints))

\* Its bytes are as many.
LEMMA FieldSize ==
  ASSUME NEW c \in Schemas, NEW m, IsMessage(c, m), NEW n \in DOMAIN c
  PROVE  Len(FieldBytes(Field(c, m, n))) = SizeOf(c, m, n)
<1>1. n \in 1 .. 4 /\ c[n] \in {"string", "int32"}
  BY SchemaFact
<1> DEFINE f == Field(c, m, n)
<1>2. f \in WireFields /\ f.tag % 8 = Wire(c[n])
  BY FieldSent
<1>3. /\ f.tag = 8 * n + Wire(c[n])
      /\ f.v = IF c[n] = "string" THEN m.field[n] ELSE Unsigned(m.field[n], Varints)
  BY DEF Field, Tag, Int32
<1> HIDE DEF f
<1>4. Len(Varint(f.tag)) = 1
  <2>1. Wire(c[n]) \in {0, 2}
    BY DEF Wire
  <2>2. f.tag \in 0 .. Varints - 1 /\ f.tag < 128
    BY <1>1, <1>3, <2>1, VarintsFact
  <2>3. QED BY <2>2, VarintBytesAre
<1>5. Len(FieldBytes(f)) = 1 + Len(WriteField(f.tag % 8, f.v))
  BY <1>2, <1>4, FieldBytesFact
<1>6. CASE c[n] = "string"
  <2>1. f.v = m.field[n] /\ f.v \in Seq(Octet) /\ Len(f.v) \in 0 .. Varints - 1 /\ f.tag % 8 = 2
    <3>1. f.v = m.field[n] /\ f.v \in Seq(Octet) /\ Len(f.v) < Varints
      BY <1>3, <1>6 DEF IsMessage, IsString
    <3>2. f.tag % 8 = 2
      BY <1>2, <1>6 DEF Wire
    <3>3. Len(f.v) \in Nat
      BY <3>1, LenProperties
    <3>4. QED BY <3>1, <3>2, <3>3, VarintsFact
  <2>2. WriteField(f.tag % 8, f.v) = Varint(Len(f.v)) \o f.v
    BY <2>1, WireFact
  <2>3. Varint(Len(f.v)) \in Seq(Octet) /\ Len(Varint(Len(f.v))) \in Nat
        /\ VarintSize(Len(f.v)) = Len(Varint(Len(f.v)))
    BY <2>1, VarintType, VarintSizeIs
  <2>4. Len(WriteField(f.tag % 8, f.v)) = VarintSize(Len(f.v)) + Len(f.v)
    <3>1. Len(Varint(Len(f.v)) \o f.v) = Len(Varint(Len(f.v))) + Len(f.v)
      BY <2>1, <2>3, ConcatProperties
    <3>2. QED BY <2>2, <2>3, <3>1, Zenon
  <2>5. SizeOf(c, m, n) = 1 + VarintSize(Len(f.v)) + Len(f.v)
    BY <1>6, <2>1 DEF SizeOf
  <2>6. VarintSize(Len(f.v)) \in Nat /\ Len(f.v) \in Nat
    BY <2>1, <2>3
  <2>7. \A x, y \in Nat : 1 + (x + y) = 1 + x + y
    OBVIOUS
  <2>8. QED BY <1>5, <2>4, <2>5, <2>6, <2>7 DEF f
<1>7. CASE c[n] = "int32"
  <2>1. f.v = Unsigned(m.field[n], Varints) /\ f.v \in 0 .. Varints - 1 /\ f.tag % 8 = 0
    <3>1. f.v = Unsigned(m.field[n], Varints) /\ IsInt32(m.field[n])
      BY <1>3, <1>7 DEF IsMessage
    <3>2. f.tag % 8 = 0
      BY <1>2, <1>7 DEF Wire
    <3>3. f.v \in 0 .. Varints - 1
      BY <3>1, NumberKept
    <3>4. QED BY <3>1, <3>2, <3>3
  <2>2. WriteField(f.tag % 8, f.v) = Varint(f.v) /\ VarintSize(f.v) = Len(Varint(f.v))
    BY <2>1, WireFact, VarintSizeIs
  <2>3. SizeOf(c, m, n) = 1 + VarintSize(f.v)
    BY <1>7, <2>1 DEF SizeOf
  <2>4. QED BY <1>5, <2>2, <2>3 DEF f
<1>8. QED BY <1>1, <1>6, <1>7

\* The fields of the class that are set take what they are said to.
LEMMA KnownSize ==
  ASSUME NEW c \in Schemas, NEW m, IsMessage(c, m)
  PROVE  Total([n \in DOMAIN c |-> IF IsSet(c, m, n) THEN SizeOf(c, m, n) ELSE 0])
           = Len(Written(KnownTo(c, m, Len(c))))
<1> DEFINE s == [n \in DOMAIN c |-> IF IsSet(c, m, n) THEN SizeOf(c, m, n) ELSE 0]
           f == [k \in 0 .. Len(c) |-> Len(Written(KnownTo(c, m, k)))]
<1>1. DOMAIN c = 1 .. Len(c) /\ Len(c) \in Nat
  BY SchemaFact
<1>2. Len(s) = Len(c)
  <2>1. s \in [1 .. Len(c) -> {s[n] : n \in DOMAIN c}]
    BY <1>1
  <2> HIDE DEF s
  <2>2. QED BY <1>1, <2>1, SeqFact, Zenon
<1>3. \A k \in DOMAIN c : s[k] = IF IsSet(c, m, k) THEN SizeOf(c, m, k) ELSE 0
  OBVIOUS
<1>4. \A k \in 0 .. Len(c) : f[k] = Len(Written(KnownTo(c, m, k)))
  OBVIOUS
<1> HIDE DEF s, f
<1>5. f[0] = 0
  <2>1. <<>> \in Seq(WireFields) /\ Len(<<>>) = 0
    OBVIOUS
  <2>2. Written(<<>>) = <<>>
    BY <2>1, WrittenFact
  <2>3. KnownTo(c, m, 0) = <<>>
    BY KnownFact
  <2>4. 0 \in 0 .. Len(c)
    BY <1>1
  <2>5. QED BY <1>4, <2>1, <2>2, <2>3, <2>4
<1>6. ASSUME NEW k \in 1 .. Len(c) PROVE f[k] = f[k - 1] + s[k]
  <2>1. /\ k - 1 \in 0 .. Len(c) - 1 /\ (k - 1) + 1 = k
        /\ k \in 0 .. Len(c) /\ k - 1 \in 0 .. Len(c) /\ k \in DOMAIN c
    BY <1>1
  <2> DEFINE x == KnownTo(c, m, k - 1)
  <2>2. x \in Seq(WireFields) /\ KnownTo(c, m, k) = x \o Opt(c, m, k)
    <3>1. KnownTo(c, m, (k - 1) + 1) = KnownTo(c, m, k - 1) \o Opt(c, m, (k - 1) + 1)
      BY <2>1, KnownFact
    <3>2. KnownTo(c, m, k - 1) \in Seq(WireFields)
      BY <2>1, KnownFact
    <3>3. QED BY <2>1, <3>1, <3>2
  <2>3. f[k] = Len(Written(KnownTo(c, m, k))) /\ f[k - 1] = Len(Written(x))
    BY <1>4, <2>1
  <2> HIDE DEF x
  <2>4. Written(x) \in Seq(Octet) /\ Len(Written(x)) \in Nat
    BY <2>2, WrittenFact, LenProperties
  <2>5. CASE IsSet(c, m, k)
    <3>1. Field(c, m, k) \in WireFields
      BY <2>1, FieldSent
    <3>2. KnownTo(c, m, k) = Append(x, Field(c, m, k))
      BY <2>2, <2>5, <3>1, AppendIsConcat DEF Opt
    <3>3. Written(KnownTo(c, m, k)) = Written(x) \o FieldBytes(Field(c, m, k))
      BY <2>2, <3>1, <3>2, WrittenFact
    <3>4. FieldBytes(Field(c, m, k)) \in Seq(Octet)
      BY <3>1, FieldBytesFact
    <3>5. Len(Written(KnownTo(c, m, k))) = Len(Written(x)) + Len(FieldBytes(Field(c, m, k)))
      BY <2>4, <3>3, <3>4, ConcatProperties
    <3>6. s[k] = Len(FieldBytes(Field(c, m, k)))
      BY <1>3, <2>1, <2>5, FieldSize
    <3>7. QED BY <2>3, <3>5, <3>6
  <2>6. CASE ~IsSet(c, m, k)
    <3>1. KnownTo(c, m, k) = x /\ s[k] = 0
      BY <1>3, <2>1, <2>2, <2>6, ConcatEmptySeq DEF Opt
    <3>2. QED BY <2>3, <2>4, <3>1
  <2>7. QED BY <2>5, <2>6
<1>7. Total(s) = f[Len(s)]
  BY <1>1, <1>2, <1>5, <1>6, TotalIs
<1>8. f[Len(s)] = Len(Written(KnownTo(c, m, Len(c))))
  BY <1>1, <1>2, <1>4
<1>9. QED BY <1>7, <1>8 DEF s

\* So do the others.
LEMMA UnknownSize ==
  ASSUME NEW us \in Seq(WireFields)
  PROVE  Total([k \in DOMAIN us |-> Len(FieldBytes(us[k]))]) = Len(Written(us))
<1> DEFINE s == [k \in DOMAIN us |-> Len(FieldBytes(us[k]))]
           f == [k \in 0 .. Len(us) |-> Len(Written(SubSeq(us, 1, k)))]
<1>1. DOMAIN us = 1 .. Len(us) /\ Len(us) \in Nat /\ \A k \in 1 .. Len(us) : us[k] \in WireFields
  BY LenProperties
<1>2. Len(s) = Len(us)
  <2>1. s \in [1 .. Len(us) -> {s[n] : n \in DOMAIN us}]
    BY <1>1
  <2> HIDE DEF s
  <2>2. QED BY <1>1, <2>1, SeqFact, Zenon
<1>3. \A k \in 1 .. Len(us) : s[k] = Len(FieldBytes(us[k]))
  BY <1>1
<1>4. \A k \in 0 .. Len(us) : f[k] = Len(Written(SubSeq(us, 1, k)))
  OBVIOUS
<1> HIDE DEF s, f
<1>5. f[0] = 0
  <2>1. SubSeq(us, 1, 0) = <<>> /\ <<>> \in Seq(WireFields) /\ Len(<<>>) = 0
    BY <1>1, SubSeqProperties
  <2>2. Written(<<>>) = <<>>
    BY <2>1, WrittenFact
  <2>3. 0 \in 0 .. Len(us)
    BY <1>1
  <2>4. f[0] = Len(Written(SubSeq(us, 1, 0)))
    BY <1>4, <2>3, Zenon
  <2>5. QED BY <2>1, <2>2, <2>4, Zenon
<1>6. ASSUME NEW k \in 1 .. Len(us) PROVE f[k] = f[k - 1] + s[k]
  <2>1. k - 1 \in 0 .. Len(us) /\ k \in 0 .. Len(us) /\ k - 1 \in Nat
    BY <1>1
  <2> DEFINE x == SubSeq(us, 1, k - 1)
             y == SubSeq(us, 1, k)
  <2>2. /\ x \in Seq(WireFields) /\ Len(x) = k - 1 /\ \A i \in 1 .. k - 1 : x[i] = us[i]
        /\ y \in Seq(WireFields) /\ Len(y) = k /\ \A i \in 1 .. k : y[i] = us[i]
    BY <1>1, <2>1, SubSeqProperties
  <2>3. f[k] = Len(Written(y)) /\ f[k - 1] = Len(Written(x))
    BY <1>4, <2>1
  <2> HIDE DEF x, y
  <2>4. y = Append(x, us[k])
    <3>1. us[k] \in WireFields
      BY <1>1
    <3>2. /\ Append(x, us[k]) \in Seq(WireFields) /\ Len(Append(x, us[k])) = (k - 1) + 1
          /\ Append(x, us[k])[(k - 1) + 1] = us[k] /\ \A i \in 1 .. k - 1 : Append(x, us[k])[i] = x[i]
      BY <2>2, <3>1, AppendProperties
    <3>3. (k - 1) + 1 = k /\ \A i \in 1 .. k : i \in 1 .. k - 1 \/ i = k
      BY <2>1
    <3>4. \A i \in 1 .. k : Append(x, us[k])[i] = y[i]
      BY <2>2, <3>2, <3>3
    <3>5. QED BY <2>2, <3>2, <3>3, <3>4, SeqEqual
  <2>5. Written(y) = Written(x) \o FieldBytes(us[k]) /\ Written(x) \in Seq(Octet)
        /\ FieldBytes(us[k]) \in Seq(Octet)
    BY <1>1, <2>2, <2>4, WrittenFact, FieldBytesFact
  <2>6. Len(Written(y)) = Len(Written(x)) + Len(FieldBytes(us[k]))
    BY <2>5, ConcatProperties
  <2>7. QED BY <1>3, <2>3, <2>6
<1>7. Total(s) = f[Len(s)]
  BY <1>1, <1>2, <1>5, <1>6, TotalIs
<1>8. f[Len(s)] = Len(Written(us))
  <2>1. SubSeq(us, 1, Len(us)) = us
    BY SubSeqFull
  <2>2. Len(us) \in 0 .. Len(us)
    BY <1>1
  <2>3. f[Len(us)] = Len(Written(SubSeq(us, 1, Len(us))))
    BY <1>4, <2>2, Zenon
  <2>4. QED BY <1>2, <2>1, <2>3, Zenon
<1>9. QED BY <1>7, <1>8 DEF s

\* A message takes as many bytes as it is said to.
LEMMA SizeKept ==
  ASSUME NEW c \in Schemas, NEW m, IsMessage(c, m)
  PROVE  Len(Serialize(c, m)) = ByteSizeLong(c, m)
<1>1. Serialize(c, m) = Written(KnownTo(c, m, Len(c))) \o Written(m.unknown)
        /\ KnownTo(c, m, Len(c)) \in Seq(WireFields) /\ m.unknown \in Seq(WireFields)
  BY SentFact
<1>2. Written(KnownTo(c, m, Len(c))) \in Seq(Octet) /\ Written(m.unknown) \in Seq(Octet)
  BY <1>1, WrittenFact
<1>3. Len(Serialize(c, m)) = Len(Written(KnownTo(c, m, Len(c)))) + Len(Written(m.unknown))
  BY <1>1, <1>2, ConcatProperties
<1>4. ByteSizeLong(c, m) = Total([n \in DOMAIN c |-> IF IsSet(c, m, n) THEN SizeOf(c, m, n) ELSE 0])
                             + Total([k \in DOMAIN m.unknown |-> Len(FieldBytes(m.unknown[k]))])
  BY Zenon DEF ByteSizeLong, SizeOf
<1>5. QED BY <1>1, <1>3, <1>4, KnownSize, UnknownSize

-----------------------------------------------------------------------------
(* Types *)

\* The values by the three low bits of a tag.
HasType(w, v) ==
  /\ w \in {0, 1, 2, 5}
  /\ w = 0 => v \in 0 .. Varints - 1
  /\ w = 1 => v \in Seq(Octet) /\ Len(v) = 8
  /\ w = 2 => v \in Seq(Octet) /\ Len(v) < Varints
  /\ w = 5 => v \in Seq(Octet) /\ Len(v) = 4

\* A part of bytes.
LEMMA PartFact ==
  ASSUME NEW b \in Seq(Octet), NEW i \in Nat \ {0}, NEW n \in Nat, i + n - 1 <= Len(b)
  PROVE  SubSeq(b, i, i + n - 1) \in Seq(Octet) /\ Len(SubSeq(b, i, i + n - 1)) = n
<1>1. Len(b) \in Nat /\ \A k \in 1 .. Len(b) : b[k] \in Octet
  BY LenProperties
<1>2. i \in Int /\ i + n - 1 \in Int
  OBVIOUS
<1>3. \A k \in i .. i + n - 1 : k \in 1 .. Len(b)
  BY <1>1
<1>4. \A k \in i .. i + n - 1 : b[k] \in Octet
  BY <1>1, <1>3
<1>5. /\ SubSeq(b, i, i + n - 1) \in Seq(Octet)
      /\ Len(SubSeq(b, i, i + n - 1)) = IF i <= i + n - 1 THEN (i + n - 1) - i + 1 ELSE 0
  BY <1>2, <1>4, SubSeqProperties
<1>6. (IF i <= i + n - 1 THEN (i + n - 1) - i + 1 ELSE 0) = n
  OBVIOUS
<1>7. QED BY <1>5, <1>6

\* So many bytes are read.
LEMMA TakeType ==
  ASSUME NEW b \in Seq(Octet), NEW i \in Nat \ {0}, NEW n \in Nat, Take(b, i, n).ok
  PROVE  /\ Take(b, i, n).v \in Seq(Octet) /\ Len(Take(b, i, n).v) = n
         /\ Take(b, i, n).at \in Nat \ {0}
<1>1. i + n - 1 <= Len(b)
  BY DEF Take, NotRead
<1>2. Take(b, i, n).v = SubSeq(b, i, i + n - 1) /\ Take(b, i, n).at = i + n
  BY <1>1 DEF Take, Read
<1>3. i + n \in Nat \ {0}
  OBVIOUS
<1>4. QED BY <1>1, <1>2, <1>3, PartFact

\* A string that is read is bytes, no more than a varint can say.
LEMMA BytesType ==
  ASSUME NEW b \in Seq(Octet), NEW i \in Nat \ {0}, ReadBytes(b, i).ok
  PROVE  /\ ReadBytes(b, i).v \in Seq(Octet) /\ Len(ReadBytes(b, i).v) < Varints
         /\ ReadBytes(b, i).at \in Nat \ {0}
<1> DEFINE l == ReadVarint(b, i)
<1>1. l.ok /\ l.at + l.v - 1 <= Len(b)
  BY DEF ReadBytes, NotRead
<1>2. l.v \in 0 .. Varints - 1 /\ l.at \in i + 1 .. Len(b) + 1
  BY <1>1, VarintReads
<1>3. ReadBytes(b, i).v = SubSeq(b, l.at, l.at + l.v - 1) /\ ReadBytes(b, i).at = l.at + l.v
  BY <1>1 DEF ReadBytes, Read
<1> HIDE DEF l
<1>4. l.v \in Nat /\ l.v < Varints /\ l.at \in Nat \ {0} /\ l.at + l.v \in Nat \ {0}
  <2>1. Len(b) \in Nat /\ Varints \in Nat
    BY VarintsFact, LenProperties
  <2>2. QED BY <1>2, <2>1
<1>5. SubSeq(b, l.at, l.at + l.v - 1) \in Seq(Octet) /\ Len(SubSeq(b, l.at, l.at + l.v - 1)) = l.v
  BY <1>1, <1>4, PartFact
<1>6. QED BY <1>3, <1>4, <1>5

\* What is read has the type that its tag says.
LEMMA FieldType ==
  ASSUME NEW b \in Seq(Octet), NEW i \in Nat \ {0}, NEW w, ReadField(b, i, w).ok
  PROVE  HasType(w, ReadField(b, i, w).v) /\ ReadField(b, i, w).at \in Nat \ {0}
<1>1. w \in {0, 1, 2, 5}
  <2>1. SUFFICES ASSUME w \notin {0, 1, 2, 5} PROVE ReadField(b, i, w) = NotRead
    BY DEF NotRead
  <2>2. w # 0 /\ w # 1 /\ w # 2 /\ w # 5
    BY <2>1
  <2>3. QED BY <2>2 DEF ReadField
<1>2. CASE w = 0
  <2>1. ReadField(b, i, w) = ReadVarint(b, i)
    BY <1>2, WireFact
  <2>2. ReadVarint(b, i).v \in 0 .. Varints - 1 /\ ReadVarint(b, i).at \in i + 1 .. Len(b) + 1
    BY <2>1, VarintReads
  <2>3. ReadVarint(b, i).at \in Nat \ {0}
    BY <2>2
  <2>4. QED BY <1>2, <2>1, <2>2, <2>3 DEF HasType
<1>3. CASE w = 1
  <2>1. ReadField(b, i, w) = Take(b, i, 8)
    BY <1>3, WireFact
  <2>2. 8 \in Nat /\ Take(b, i, 8).ok
    BY <2>1
  <2>3. /\ Take(b, i, 8).v \in Seq(Octet) /\ Len(Take(b, i, 8).v) = 8
        /\ Take(b, i, 8).at \in Nat \ {0}
    BY <2>2, TakeType
  <2>4. QED BY <1>3, <2>1, <2>3 DEF HasType
<1>4. CASE w = 2
  <2>1. ReadField(b, i, w) = ReadBytes(b, i)
    BY <1>4, WireFact
  <2>2. QED BY <1>4, <2>1, BytesType DEF HasType
<1>5. CASE w = 5
  <2>1. ReadField(b, i, w) = Take(b, i, 4)
    BY <1>5, WireFact
  <2>2. 4 \in Nat /\ Take(b, i, 4).ok
    BY <2>1
  <2>3. /\ Take(b, i, 4).v \in Seq(Octet) /\ Len(Take(b, i, 4).v) = 4
        /\ Take(b, i, 4).at \in Nat \ {0}
    BY <2>2, TakeType
  <2>4. QED BY <1>5, <2>1, <2>3 DEF HasType
<1>6. QED BY <1>1, <1>2, <1>3, <1>4, <1>5

\* A message stays one when a field is given a value of its type.
LEMMA SetIsMessage ==
  ASSUME NEW c, NEW m, IsMessage(c, m), NEW n \in DOMAIN c, NEW v,
         IF c[n] = "string" THEN IsString(v) ELSE IsInt32(v)
  PROVE  IsMessage(c, Set(m, n, v))
<1> DEFINE g == [m.field EXCEPT ![n] = v]
<1>1. m = [field |-> m.field, unknown |-> m.unknown] /\ m.field = [k \in DOMAIN c |-> m.field[k]]
  BY DEF IsMessage
<1>2. Set(m, n, v) = [field |-> g, unknown |-> m.unknown]
  BY <1>1 DEF Set
<1>3. g = [k \in DOMAIN c |-> g[k]] /\ \A k \in DOMAIN c : g[k] = IF k = n THEN v ELSE m.field[k]
  <2>1. DOMAIN m.field = DOMAIN c
    BY <1>1
  <2>2. QED BY <2>1
<1> HIDE DEF g
<1>4. Set(m, n, v).field = g /\ Set(m, n, v).unknown = m.unknown
  BY <1>2
<1>5. \A k \in DOMAIN c : IF c[k] = "string" THEN IsString(g[k]) ELSE IsInt32(g[k])
  BY <1>3 DEF IsMessage
<1>6. m.unknown \in Seq(UnknownFields(c))
  BY DEF IsMessage
<1>7. QED BY <1>2, <1>3, <1>4, <1>5, <1>6, Zenon DEF IsMessage

\* A message stays one when a field is read into it.
LEMMA ParsedIsMessage ==
  ASSUME NEW c \in Schemas, NEW m, IsMessage(c, m),
         NEW tag \in 8 .. Varints - 1, NEW v, HasType(tag % 8, v)
  PROVE  IsMessage(c, ParsedField(c, m, tag, v))
<1> DEFINE n == tag \div 8
<1>1. CASE n \in DOMAIN c /\ tag % 8 = Wire(c[n])
  <2>1. c[n] \in {"string", "int32"}
    BY <1>1, SchemaFact
  <2>2. CASE c[n] = "string"
    <3>1. IsString(v)
      BY <1>1, <2>2 DEF HasType, Wire, IsString
    <3>2. ParsedField(c, m, tag, v) = Set(m, n, v)
      BY <1>1, <2>2 DEF ParsedField
    <3> HIDE DEF n
    <3>3. QED BY <1>1, <2>2, <3>1, <3>2, SetIsMessage
  <2>3. CASE c[n] = "int32"
    <3>1. v \in Nat
      <4>1. v \in 0 .. Varints - 1
        BY <1>1, <2>3 DEF HasType, Wire
      <4>2. QED BY <4>1
    <3>2. IsInt32(Signed(v, Int32s))
      BY <3>1, NumberType
    <3>3. ParsedField(c, m, tag, v) = Set(m, n, Signed(v, Int32s)) /\ c[n] # "string"
      BY <1>1, <2>3 DEF ParsedField
    <3> HIDE DEF n
    <3>4. QED BY <1>1, <3>2, <3>3, SetIsMessage
  <2>4. QED BY <2>1, <2>2, <2>3
<1>2. CASE ~(n \in DOMAIN c /\ tag % 8 = Wire(c[n]))
  <2> DEFINE f == [tag |-> tag, v |-> v]
             us == Append(m.unknown, f)
  <2>1. f \in UnknownFields(c)
    <3>1. v \in (0 .. Varints - 1) \cup Seq(Octet)
      BY DEF HasType
    <3>2. /\ f \in [tag : 8 .. Varints - 1, v : (0 .. Varints - 1) \cup Seq(Octet)]
          /\ f.tag = tag /\ f.v = v
      BY <3>1
    <3> HIDE DEF f
    <3>3. f \in WireFields
      BY <3>2, Zenon DEF HasType, WireFields
    <3>4. QED BY <1>2, <3>2, <3>3 DEF UnknownFields
  <2>2. /\ m = [field |-> m.field, unknown |-> m.unknown]
        /\ m.unknown \in Seq(UnknownFields(c))
    BY DEF IsMessage
  <2>3. us \in Seq(UnknownFields(c))
    BY <2>1, <2>2, AppendProperties
  <2>4. ParsedField(c, m, tag, v) = [field |-> m.field, unknown |-> us]
    BY <1>2, <2>2 DEF ParsedField
  <2> HIDE DEF us
  <2>5. ParsedField(c, m, tag, v).field = m.field /\ ParsedField(c, m, tag, v).unknown = us
    BY <2>4
  <2>6. QED BY <2>3, <2>4, <2>5, Zenon DEF IsMessage
<1>3. QED BY <1>1, <1>2

\* What has been read is a message, and what follows is at a position.
IsReading(c, p) == IsMessage(c, p.m) /\ p.at \in Nat \ {0}

\* One field more: a message is still a message, and reading goes on in the bytes.
LEMMA NextType ==
  ASSUME NEW c \in Schemas, NEW b \in Seq(Octet), NEW p, IsReading(c, p)
  PROVE  IsReading(c, ReadNext(c, b, p))
<1> DEFINE tag    == ReadVarint(b, p.at)
           ends   == ~tag.ok \/ tag.v < 8 \/ tag.v % 8 = 4
           value  == ReadField(b, tag.at, tag.v % 8)
           isText == tag.v \div 8 \in DOMAIN c /\ tag.v % 8 = 2 /\ c[tag.v \div 8] = "string"
           next   == ParsedField(c, p.m, tag.v, value.v)
           more   == Reached(next, value.at)
           Ended(m, ok) == [m |-> m, at |-> p.at, ok |-> ok, ended |-> TRUE]
<1>0. IsMessage(c, p.m) /\ p.at \in Nat \ {0}
  BY DEF IsReading
<1>1. ASSUME ~ends, value.ok PROVE IsMessage(c, next) /\ value.at \in Nat \ {0}
  <2>1. tag.ok /\ ~(tag.v < 8)
    BY <1>1
  <2>2. tag.v \in 0 .. Varints - 1 /\ tag.at \in p.at + 1 .. Len(b) + 1
    BY <1>0, <2>1, VarintReads
  <2>3. tag.v \in 8 .. Varints - 1 /\ tag.at \in Nat \ {0}
    BY <1>0, <2>1, <2>2, VarintsFact
  <2>4. HasType(tag.v % 8, value.v) /\ value.at \in Nat \ {0}
    <3> HIDE DEF tag
    <3>1. ReadField(b, tag.at, tag.v % 8).ok
      BY <1>1
    <3>2. QED BY <2>3, <3>1, FieldType
  <2> HIDE DEF tag, value
  <2>5. QED BY <1>0, <2>3, <2>4, ParsedIsMessage
<1>2. ReadNext(c, b, p)
        = IF p.ended THEN p
          ELSE CASE p.at > Len(b) -> Ended(p.m, TRUE)
                 [] p.at <= Len(b) /\ (ends \/ ~value.ok) -> Ended(p.m, FALSE)
                 [] p.at <= Len(b) /\ ~ends /\ value.ok /\ isText /\ ~IsUTF8(value.v) ->
                      Ended(next, FALSE)
                 [] OTHER -> more
  BY DEF ReadNext
<1>3. \A ok : IsReading(c, Ended(p.m, ok))
  BY <1>0 DEF IsReading
<1>4. ASSUME ~ends, value.ok PROVE (\A ok : IsReading(c, Ended(next, ok))) /\ IsReading(c, more)
  <2> HIDE DEF next, value, ends
  <2>1. QED BY <1>0, <1>1, <1>4 DEF IsReading, Reached
<1> DEFINE nothing == p.ended \/ p.at > Len(b) \/ ends \/ ~value.ok
           bad     == isText /\ ~IsUTF8(value.v)
<1>5. /\ nothing => \E ok : ReadNext(c, b, p) = Ended(p.m, ok) \/ ReadNext(c, b, p) = p
      /\ ~nothing /\ bad => ReadNext(c, b, p) = Ended(next, FALSE)
      /\ ~nothing /\ ~bad => ReadNext(c, b, p) = more
  <2> HIDE DEF ends, value, isText, next, more
  <2>1. p.at > Len(b) <=> ~(p.at <= Len(b))
    <3>1. p.at \in Nat /\ Len(b) \in Nat
      BY <1>0, LenProperties
    <3>2. QED BY <3>1
  <2>2. QED BY <1>2, <2>1
<1>6. CASE nothing
  <2> HIDE DEF nothing
  <2>1. QED BY <1>3, <1>5, <1>6
<1>7. CASE ~nothing
  <2>1. ~ends /\ value.ok
    BY <1>7
  <2> HIDE DEF nothing, bad, next, value, ends, more
  <2>2. QED BY <1>4, <1>5, <1>7, <2>1
<1>8. QED BY <1>6, <1>7

\* Whatever the bytes, what is read is a message.
LEMMA ParseIsMessage ==
  ASSUME NEW c \in Schemas, NEW b \in Seq(Octet) PROVE IsMessage(c, Parse(c, b).m)
<1> DEFINE most == Len(b) \div 2 + 1
<1>1. most \in Nat
  BY LenProperties
<1>2. PICK R : /\ Reads(R, c, b, most, 0, New(c), 1)
               /\ Parse(c, b) = [ok |-> R[most].ok, m |-> R[most].m]
  BY ReadsStart
<1> HIDE DEF most
<1> DEFINE A == {k \in Nat : k <= most => IsReading(c, R[k])}
<1>3. 0 \in A
  <2>1. R[0] = Reached(New(c), 1) /\ IsMessage(c, New(c))
    BY <1>2 DEF Reads
  <2>2. IsReading(c, Reached(New(c), 1))
    BY <2>1 DEF IsReading, Reached
  <2>3. QED BY <2>1, <2>2
<1>4. ASSUME NEW k \in Nat, k \in A PROVE k + 1 \in A
  <2>1. SUFFICES ASSUME k + 1 <= most PROVE IsReading(c, R[k + 1])
    OBVIOUS
  <2>2. k \in 0 .. most - 1 /\ k <= most
    BY <1>1, <2>1
  <2>3. R[k + 1] = ReadNext(c, b, R[k])
    <3>1. Reading(R, c, b, most)
      BY <1>2 DEF Reads
    <3>2. \A l \in 0 .. most - 1 : R[l + 1] = ReadNext(c, b, R[l])
      BY <1>1, <3>1, ReadingSteps
    <3>3. QED BY <2>2, <3>2, Zenon
  <2>4. IsReading(c, R[k])
    BY <1>4, <2>2
  <2>5. QED BY <2>3, <2>4, NextType
<1> HIDE DEF A
<1>5. most \in A
  BY <1>1, <1>3, <1>4, SetInduction
<1>6. IsReading(c, R[most])
  BY <1>1, <1>5 DEF A
<1>7. QED BY <1>2, <1>6 DEF IsReading

-----------------------------------------------------------------------------
(* The messages of a program *)

\* Two messages of one class.
MessageInvariant == class \in Schemas /\ IsMessage(class, mine) /\ IsMessage(class, theirs)

\* It holds at the start,
LEMMA MessageStart == ASSUME MessageInit PROVE MessageInvariant
  BY MergeIntoNew DEF MessageInit, MessageInvariant, Schemas

\* and every step keeps it.
LEMMA MessageStep == ASSUME MessageInvariant, [MessageNext]_messageVars PROVE MessageInvariant'
<1>1. class \in Schemas /\ IsMessage(class, mine) /\ IsMessage(class, theirs)
  BY DEF MessageInvariant
<1>2. ASSUME NEW m, IsMessage(class, m), Becomes(m) PROVE MessageInvariant'
  BY <1>1, <1>2 DEF Becomes, MessageInvariant
<1>3. ASSUME NEW n \in DOMAIN class, ClearField(n) PROVE MessageInvariant'
  <2>1. IF class[n] = "string" THEN IsString(Default(class[n])) ELSE IsInt32(Default(class[n]))
    <3>1. /\ New(class).field[n] = Default(class[n])
          /\ IF class[n] = "string" THEN IsString(New(class).field[n]) ELSE IsInt32(New(class).field[n])
      <4>1. IsMessage(class, New(class))
        BY <1>1, MergeIntoNew
      <4>2. New(class).field[n] = Default(class[n])
        BY DEF New
      <4>3. QED BY <4>1, <4>2 DEF IsMessage
    <3>2. QED BY <3>1
  <2>2. IsMessage(class, Set(mine, n, Default(class[n])))
    BY <1>1, <2>1, SetIsMessage
  <2>3. QED BY <1>2, <1>3, <2>2 DEF ClearField
<1>4. ASSUME NEW n \in DOMAIN class, NEW v \in IF class[n] = "string" THEN Strings ELSE Numbers,
             SetField(n, v)
      PROVE  MessageInvariant'
  <2>1. IF class[n] = "string" THEN IsString(v) ELSE IsInt32(v)
    BY MessageAssumption
  <2>2. IsMessage(class, Set(mine, n, v))
    BY <1>1, <2>1, SetIsMessage
  <2>3. QED BY <1>2, <1>4, <2>2 DEF SetField
<1>5. ASSUME Copy PROVE MessageInvariant'
  <2>1. CopyFrom(class, mine, theirs) = theirs
    BY <1>1, MergeIntoNew DEF CopyFrom, Clear
  <2>2. QED BY <1>1, <1>2, <1>5, <2>1 DEF Copy
<1>6. ASSUME Merge PROVE MessageInvariant'
  <2>1. IsMessage(class, MergeFrom(class, mine, theirs))
    BY <1>1, MergeIsMessage
  <2>2. QED BY <1>2, <1>6, <2>1 DEF Merge
<1>7. ASSUME Swap PROVE MessageInvariant'
  BY <1>1, <1>7 DEF Swap, MessageInvariant
<1>8. ASSUME NEW b \in Arrivals, Receive(b) PROVE MessageInvariant'
  <2>1. b \in Seq(Octet)
    BY MessageAssumption
  <2>2. IsMessage(class, Parse(class, b).m)
    BY <1>1, <2>1, ParseIsMessage
  <2>3. QED BY <1>2, <1>8, <2>2 DEF Receive
<1>9. CASE UNCHANGED messageVars
  BY <1>1, <1>9 DEF messageVars, MessageInvariant
<1>10. QED BY <1>3, <1>4, <1>5, <1>6, <1>7, <1>8, <1>9 DEF MessageNext

\* What is sent is received, whatever the strings and the numbers.
LEMMA MessagesAreKept == ASSUME MessageInvariant PROVE MessageKept
<1>1. class \in Schemas /\ IsMessage(class, mine) /\ IsMessage(class, theirs)
  BY DEF MessageInvariant
<1>2. \A m : Readable(m) <=> ReadableAs(class, m)
  BY DEF Readable, ReadableAs
<1>3. SUFFICES ASSUME Readable(mine)
      PROVE  /\ Parse(class, Serialize(class, mine)) = [ok |-> TRUE, m |-> mine]
             /\ Len(Serialize(class, mine)) = ByteSizeLong(class, mine)
             /\ Parse(class, Serialize(class, mine) \o Zeros8) = [ok |-> FALSE, m |-> mine]
             /\ Readable(theirs) =>
                  Parse(class, Serialize(class, mine) \o Serialize(class, theirs))
                    = [ok |-> TRUE, m |-> MergeFrom(class, mine, theirs)]
  BY DEF MessageKept
<1>4. ReadableAs(class, mine) /\ (Readable(theirs) => ReadableAs(class, theirs))
  BY <1>2, <1>3
<1>5. QED BY <1>1, <1>4, SentParsed, SizeKept, BothParsed

\* Messages on their own.
MessageSpec == MessageInit /\ [][MessageNext]_messageVars

\* A message reads back as it was, whatever it holds.
THEOREM MessagesRoundTrip == MessageSpec => []MessageKept
<1>1. MessageInit => MessageInvariant
  BY MessageStart
<1>2. MessageInvariant /\ [MessageNext]_messageVars => MessageInvariant'
  BY MessageStep
<1>3. MessageInvariant => MessageKept
  BY MessagesAreKept
<1>4. QED BY <1>1, <1>2, <1>3, PTL DEF MessageSpec
=============================================================================
