------------------------------- MODULE JsonValue -------------------------------
(***************************************************************************)
(* Json::Value (3rd/json/jsoncpp.cpp), with which the HTTP handlers build  *)
(* their replies and read what is posted: its types, and its operations on *)
(* arrays and objects.                                                     *)
(*                                                                         *)
(* An array maps indices to values, and need not have all the indices      *)
(* below its size: operator[] puts in only the one it is asked for.  An    *)
(* object maps names, sequences of bytes, to values.                       *)
(*                                                                         *)
(* A real is a number of halves, infinite, or not a number.  An operation  *)
(* that throws has a precondition here.  Comments, offsets and the sharing *)
(* of memory are left out: a copy of a value is the value.                 *)
(***************************************************************************)
EXTENDS Integers, Sequences, SequencesExt

-----------------------------------------------------------------------------
(* Values *)

\* In the order of ValueType.
Types == <<"null", "int", "uint", "real", "string", "boolean", "array", "object">>

Null      == [t |-> "null"]
OfInt(n)  == [t |-> "int", n |-> n]
OfUInt(n) == [t |-> "uint", n |-> n]
OfReal(h) == [t |-> "real", kind |-> "finite", halves |-> h]
NaN       == [t |-> "real", kind |-> "NaN", halves |-> 0]
Infinite(sign) == [t |-> "real", kind |-> "infinite", halves |-> sign]
OfString(s)  == [t |-> "string", s |-> s]
OfBoolean(b) == [t |-> "boolean", b |-> b]
Array(m)     == [t |-> "array", m |-> m]
Object(m)    == [t |-> "object", m |-> m]

Empty == [k \in {} |-> Null]

\* Value(ValueType).
Fresh(type) ==
  CASE type = "null"    -> Null
    [] type = "int"     -> OfInt(0)
    [] type = "uint"    -> OfUInt(0)
    [] type = "real"    -> OfReal(0)
    [] type = "string"  -> OfString(<<>>)
    [] type = "boolean" -> OfBoolean(FALSE)
    [] type = "array"   -> Array(Empty)
    [] type = "object"  -> Object(Empty)

Has(v, key)       == key \in DOMAIN v.m
With(v, key, x)   == [v EXCEPT !.m = [k \in DOMAIN v.m \cup {key} |-> IF k = key THEN x ELSE v.m[k]]]
Without(v, keys)  == [v EXCEPT !.m = [k \in DOMAIN v.m \ keys |-> v.m[k]]]

-----------------------------------------------------------------------------
(* Names *)

\* memcmp, and then the lengths: of names and of strings.
BytesLess(a, b) ==
  \/ \E i \in 1 .. Len(a) : i <= Len(b) /\ a[i] < b[i] /\ SubSeq(a, 1, i - 1) = SubSeq(b, 1, i - 1)
  \/ Len(a) < Len(b) /\ a = SubSeq(b, 1, Len(a))

\* CZString::operator<.
KeyLess(v, a, b) == IF v.t = "array" THEN a < b ELSE BytesLess(a, b)

Keys(v) == SetToSortSeq(DOMAIN v.m, LAMBDA a, b : KeyLess(v, a, b))

-----------------------------------------------------------------------------
(* Arrays and objects *)

\* The preconditions of the operations on arrays and on objects.
ActsAs(v, type) == v.t \in {"null", type}

\* A null value becomes an array or an object when it is used as one.
Become(v, type) == IF v.t = "null" THEN Fresh(type) ELSE v

size(v) ==
  CASE v.t = "array"  -> IF DOMAIN v.m = {} THEN 0 ELSE Max(DOMAIN v.m) + 1
    [] v.t = "object" -> Cardinality(DOMAIN v.m)
    [] OTHER          -> 0

empty(v) == v.t \in {"null", "array", "object"} /\ size(v) = 0

clear(v) == IF v.t = "null" THEN v ELSE Fresh(v.t)

\* operator[](ArrayIndex): puts a null where there is nothing.
At(v, i) ==
  LET a == Become(v, "array")
  IN  IF Has(a, i) THEN a ELSE With(a, i, Null)

\* operator[](ArrayIndex) const.
Item(v, i) == IF v.t = "array" /\ Has(v, i) THEN v.m[i] ELSE Null

\* resize, before its last assertion: that the size is the one asked for.
resize(v, n) ==
  CASE n = 0                -> clear(Become(v, "array"))
    [] n > 0 /\ n > size(v)  -> At(v, n - 1)
    [] n > 0 /\ n <= size(v) -> Without(v, n .. size(v) - 1)

\* get(ArrayIndex, defaultValue).
GetItem(v, i, default) == IF v.t = "array" /\ Has(v, i) THEN v.m[i] ELSE default

append(v, x) == With(At(v, size(v)), size(v), x)

\* Mutation of removeIndex: what is not there is not moved.
RemoveIndexSparse(v, i) ==
  LET last == size(v) - 1
      from == {k \in DOMAIN v.m : k > i}
      rest == [k \in {k \in DOMAIN v.m : k < i} \cup {k - 1 : k \in from} \cup ({i} \cap (0 .. last - 1)) |->
                 IF k < i THEN v.m[k] ELSE IF k + 1 \in from THEN v.m[k + 1] ELSE v.m[k]]
  IN  [v EXCEPT !.m = rest]

\* removeIndex, where the index is there: the values above it move down by one,
\* by way of operator[], and the last one goes.
removeIndex(v, i) ==
  LET last == size(v) - 1
  IN  [v EXCEPT !.m = [k \in {k \in DOMAIN v.m : k < i} \cup i .. last - 1 |->
                         IF k < i THEN v.m[k] ELSE Item(v, k + 1)]]

\* resolveReference, operator[](key).
Member(v, name) ==
  LET o == Become(v, "object")
  IN  IF Has(o, name) THEN o ELSE With(o, name, Null)

\* find, isMember, operator[](key) const, get(key, defaultValue).
isMember(v, name) == v.t = "object" /\ Has(v, name)
Found(v, name)    == IF isMember(v, name) THEN v.m[name] ELSE Null
GetMember(v, name, default) == IF isMember(v, name) THEN v.m[name] ELSE default

\* Both kinds of removeMember: by name, and by what precedes a zero in the name.
removeMember(v, name) == IF v.t = "object" THEN Without(v, {name}) ELSE v

CString(name) == IF \E i \in 1 .. Len(name) : name[i] = 0
                 THEN SubSeq(name, 1, (CHOOSE i \in 1 .. Len(name) : name[i] = 0 /\ \A j \in 1 .. i - 1 : name[j] # 0) - 1)
                 ELSE name

getMemberNames(v) == IF v.t = "object" THEN Keys(v) ELSE <<>>
=============================================================================
