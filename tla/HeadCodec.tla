------------------------------ MODULE HeadCodec ------------------------------
(***************************************************************************)
(* The message head of the node protocol: DataHeadCodec::Encode and Decode *)
(* (common/dataProtocolHead.cpp) on a little-endian machine.               *)
(*                                                                         *)
(* An unsigned value is the sequence of its bytes, the most significant    *)
(* first: 2 for u16, 4 for u32, 8 for u64.  A buffer maps offsets to bytes.*)
(***************************************************************************)
EXTENDS Naturals, Sequences, SequencesExt

CONSTANTS
  Heads,     \* the heads that are sent
  Size       \* the size of the buffers (1024 in the code), beyond the head

\* dataProtocolHead.h: where each field begins, and how long it is.
Offset == [usTag |-> 0, ucVersion |-> 2, ucType |-> 3, usLen |-> 4, usMsgId |-> 6,
           ullMsgSn |-> 8, uiPriority |-> 16, uiReserver1 |-> 20]
Width  == [usTag |-> 2, ucVersion |-> 1, ucType |-> 1, usLen |-> 2, usMsgId |-> 2,
           ullMsgSn |-> 8, uiPriority |-> 4, uiReserver1 |-> 4]

Fields == DOMAIN Width

Byte == 0 .. 255

\* The buffer holds a head, and the fields of a head have their widths.
ASSUME CodecAssumption ==
  /\ Size \in Nat /\ Size >= 24
  /\ \A h \in Heads : DOMAIN h = Fields /\ \A f \in Fields : h[f] \in [1 .. Width[f] -> Byte]

Zeros(n) == [i \in 1 .. n |-> 0]

\* The value as the machine holds it in memory, and back.
Memory(v) == Reverse(v)
Value(m)  == Reverse(m)

\* A u32 cut to the u16 that htons and ntohs take, and a u16 made a u32.
Cut(v)    == SubSeq(v, Len(v) - 1, Len(v))
Extend(v) == Zeros(2) \o v

\* htons (and ntohs), htonl: the bytes in the opposite order.
htons(v) == Reverse(v)
htonl(v) == Reverse(v)

\* memcpy to and from a buffer.
Store(b, at, bytes) ==
  [i \in DOMAIN b |-> IF i \in at .. at + Len(bytes) - 1 THEN bytes[i - at + 1] ELSE b[i]]
Load(b, at, n) == [i \in 1 .. n |-> b[at + i - 1]]

SetByte(b, at, v)          == Store(b, at, v)
SetUnsignedShort(b, at, v) == Store(b, at, Memory(htons(v)))

\* Through htons: the upper half of the value is gone.
SetUnsignedInt(b, at, v) == Store(b, at, Memory(Extend(htons(Cut(v)))))

\* The lower half in network order, then all eight bytes of the shifted value
\* over it, in memory order.
SetUnsignedLonglong(b, at, v) ==
  Store(Store(b, at + 4, Memory(htonl(SubSeq(v, 5, 8)))), at, Memory(Zeros(4) \o SubSeq(v, 1, 4)))

GetByte(b, at)          == Load(b, at, 1)

\* Mutation of GetUnsignedShort: no ntohs.
GetShortUnswapped(b, at) == Value(Load(b, at, 2))

GetUnsignedShort(b, at) == htons(Value(Load(b, at, 2)))
GetUnsignedInt(b, at)   == Extend(htons(Cut(Value(Load(b, at, 4)))))

GetUnsignedLonglong(b, at) == GetUnsignedInt(b, at) \o GetUnsignedInt(b, at + 4)

Blank == [i \in 0 .. Size - 1 |-> 0]

\* DataHeadCodec::Encode into buffer b.
Encode(h, b) ==
  LET b1 == SetUnsignedShort(b, Offset.usTag, h.usTag)
      b2 == SetByte(b1, Offset.ucVersion, h.ucVersion)
      b3 == SetByte(b2, Offset.ucType, h.ucType)
      b4 == SetUnsignedShort(b3, Offset.usLen, h.usLen)
      b5 == SetUnsignedShort(b4, Offset.usMsgId, h.usMsgId)
      b6 == SetUnsignedLonglong(b5, Offset.ullMsgSn, h.ullMsgSn)
      b7 == SetUnsignedInt(b6, Offset.uiPriority, h.uiPriority)
  IN  SetUnsignedInt(b7, Offset.uiReserver1, h.uiReserver1)

\* DataHeadCodec::Decode.
Decode(b) ==
  [usTag       |-> GetUnsignedShort(b, Offset.usTag),
   ucVersion   |-> GetByte(b, Offset.ucVersion),
   ucType      |-> GetByte(b, Offset.ucType),
   usLen       |-> GetUnsignedShort(b, Offset.usLen),
   usMsgId     |-> GetUnsignedShort(b, Offset.usMsgId),
   ullMsgSn    |-> GetUnsignedLonglong(b, Offset.ullMsgSn),
   uiPriority  |-> GetUnsignedInt(b, Offset.uiPriority),
   uiReserver1 |-> GetUnsignedInt(b, Offset.uiReserver1)]

-----------------------------------------------------------------------------
(* One message: its head is encoded by the sender and decoded by the receiver. *)

VARIABLES head,     \* the head the sender fills in
          buffer,   \* the buffer, at the sender and then at the receiver
          got       \* the head the receiver has decoded, <<>> before that

headVars == <<head, buffer, got>>

HeadInit ==
  /\ head \in Heads
  /\ buffer = Blank
  /\ got = <<>>

SendHead ==
  /\ buffer = Blank /\ got = <<>>
  /\ buffer' = Encode(head, buffer)
  /\ UNCHANGED <<head, got>>

ReceiveHead ==
  /\ buffer # Blank /\ got = <<>>
  /\ got' = Decode(buffer)
  /\ UNCHANGED <<head, buffer>>

HeadNext == SendHead \/ ReceiveHead

-----------------------------------------------------------------------------
(* Properties *)

Received == got # <<>>

\* The receiver decodes what the sender encoded, in every field it acts on; the
\* two 32-bit fields as long as they fit 16 bits.
FieldsKept ==
  Received =>
    /\ \A f \in {"usTag", "ucVersion", "ucType", "usLen", "usMsgId"} : got[f] = head[f]
    /\ \A f \in {"uiPriority", "uiReserver1"} : SubSeq(head[f], 1, 2) = Zeros(2) => got[f] = head[f]

\* The setters stay within their fields: two heads that differ in one field are
\* encoded into buffers that differ in the bytes of that field, the body included.
SettersStayInField ==
  \A f \in Fields :
    LET other == Encode([head EXCEPT ![f] = Zeros(Width[f])], Blank)
        mine  == Encode(head, Blank)
    IN  \A i \in 0 .. Size - 1 :
          i \notin Offset[f] .. Offset[f] + Width[f] - 1 => mine[i] = other[i] /\ (i >= 24 => mine[i] = 0)

\* Once a head has been encoded: none of its fields is lost in coding, but for what
\* does not fit, and none reaches into another.
HeadKept == buffer # Blank => FieldsKept /\ SettersStayInField
=============================================================================
