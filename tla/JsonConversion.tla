----------------------------- MODULE JsonConversion -----------------------------
(***************************************************************************)
(* The conversions of one type into another (3rd/json/jsoncpp.cpp).        *)
(* Integers have two widths, scaled down; a real has Mantissa bits.        *)
(***************************************************************************)
EXTENDS JsonValue, Powers

CONSTANTS IntBits, LargestBits,   \* of Int and LargestInt (32 and 64 in the code)
          Mantissa                \* of double (53 in the code)

ASSUME WidthAssumption ==
  /\ IntBits \in Nat /\ Mantissa \in Nat /\ LargestBits \in Nat
  /\ 1 < IntBits /\ IntBits < Mantissa /\ Mantissa < LargestBits

minInt          == -(Pow2(IntBits - 1))
maxInt          == Pow2(IntBits - 1) - 1
maxUInt         == Pow2(IntBits) - 1
minLargestInt   == -(Pow2(LargestBits - 1))
maxLargestInt   == Pow2(LargestBits - 1) - 1
maxLargestUInt  == Pow2(LargestBits) - 1

-----------------------------------------------------------------------------
(* Conversions *)

\* The extent of a real: that of an infinite one is beyond all integers.  Nothing is
\* less than or equal to a NaN.
Number(r) == r.kind # "NaN"
Extent(r) == IF r.kind = "infinite" THEN r.halves * Pow2(LargestBits + 4) ELSE r.halves

\* An integer of at most LargestBits bits as a double: a multiple of the least power
\* of two of which Mantissa bits are enough, the nearest, or of two that are as near
\* the even one.
Exponent(n) ==
  CHOOSE e \in 0 .. LargestBits :
    n < Pow2(Mantissa + e) /\ \A d \in 0 .. e - 1 : n >= Pow2(Mantissa + d)

Rounded(n) ==
  LET unit == Pow2(Exponent(n))
      q    == n \div unit
      rest == n % unit
  IN  unit * (IF 2 * rest > unit \/ (2 * rest = unit /\ q % 2 = 1) THEN q + 1 ELSE q)

Double(n) == OfReal(2 * (IF n < 0 THEN -Rounded(-n) ELSE Rounded(n)))

\* The conversion of a double to an integer drops the fraction.
Truncated(r) == IF r.halves < 0 THEN -((-r.halves) \div 2) ELSE r.halves \div 2

\* InRange: the bounds become doubles.
InRange(r, min, max) ==
  Number(r) /\ Double(min).halves <= Extent(r) /\ Extent(r) <= Double(max).halves

IsIntegral(r) == r.kind = "finite" /\ r.halves % 2 = 0

isInt(v) ==
  CASE v.t = "int"  -> minInt <= v.n /\ v.n <= maxInt
    [] v.t = "uint" -> v.n <= maxInt
    [] v.t = "real" -> InRange(v, minInt, maxInt) /\ IsIntegral(v)
    [] OTHER        -> FALSE

isUInt(v) ==
  CASE v.t = "int"  -> 0 <= v.n /\ v.n <= maxUInt
    [] v.t = "uint" -> v.n <= maxUInt
    [] v.t = "real" -> InRange(v, 0, maxUInt) /\ IsIntegral(v)
    [] OTHER        -> FALSE

\* Below the upper bounds, which as doubles are no longer of these types.
isInt64(v) ==
  CASE v.t = "int"  -> TRUE
    [] v.t = "uint" -> v.n <= maxLargestInt
    [] v.t = "real" -> /\ InRange(v, minLargestInt, maxLargestInt) /\ IsIntegral(v)
                       /\ v.halves < Double(maxLargestInt).halves
    [] OTHER        -> FALSE

isUInt64(v) ==
  CASE v.t = "int"  -> 0 <= v.n
    [] v.t = "uint" -> TRUE
    [] v.t = "real" -> /\ InRange(v, 0, maxLargestUInt) /\ IsIntegral(v)
                       /\ v.halves < Double(maxLargestUInt).halves
    [] OTHER        -> FALSE

isIntegral(v) ==
  \/ v.t \in {"int", "uint"}
  \/ /\ v.t = "real" /\ InRange(v, minLargestInt, maxLargestUInt) /\ IsIntegral(v)
     /\ v.halves < Double(maxLargestUInt).halves

isNumeric(v) == v.t \in {"int", "uint", "real"}

\* What a conversion gives: its result, or that it throws.
Throws    == [ok |-> FALSE, n |-> 0]
Gives(n)  == [ok |-> TRUE, n |-> n]
If(c, n)  == IF c THEN Gives(n) ELSE Throws
BoolInt(v) == IF v.b THEN 1 ELSE 0

\* Mutation of asUInt: reals are tested for the range of Int.
asUIntInIntRange(v) ==
  CASE v.t \in {"int", "uint"} -> If(isUInt(v), v.n)
    [] v.t = "real"            -> If(InRange(v, 0, maxInt), Truncated(v))
    [] v.t = "null"            -> Gives(0)
    [] v.t = "boolean"         -> Gives(BoolInt(v))
    [] OTHER                   -> Throws

asInt(v) ==
  CASE v.t \in {"int", "uint"} -> If(isInt(v), v.n)
    [] v.t = "real"            -> If(InRange(v, minInt, maxInt), Truncated(v))
    [] v.t = "null"            -> Gives(0)
    [] v.t = "boolean"         -> Gives(BoolInt(v))
    [] OTHER                   -> Throws

asUInt(v) ==
  CASE v.t \in {"int", "uint"} -> If(isUInt(v), v.n)
    [] v.t = "real"            -> If(InRange(v, 0, maxUInt), Truncated(v))
    [] v.t = "null"            -> Gives(0)
    [] v.t = "boolean"         -> Gives(BoolInt(v))
    [] OTHER                   -> Throws

asInt64(v) ==
  CASE v.t = "int"     -> Gives(v.n)
    [] v.t = "uint"    -> If(isInt64(v), v.n)
    [] v.t = "real"    -> If(InRange(v, minLargestInt, maxLargestInt), Truncated(v))
    [] v.t = "null"    -> Gives(0)
    [] v.t = "boolean" -> Gives(BoolInt(v))
    [] OTHER           -> Throws

asUInt64(v) ==
  CASE v.t = "int"     -> If(isUInt64(v), v.n)
    [] v.t = "uint"    -> Gives(v.n)
    [] v.t = "real"    -> If(InRange(v, 0, maxLargestUInt), Truncated(v))
    [] v.t = "null"    -> Gives(0)
    [] v.t = "boolean" -> Gives(BoolInt(v))
    [] OTHER           -> Throws

\* asDouble, where it does not throw.
CanDouble(v) == isNumeric(v) \/ v.t \in {"null", "boolean"}
asDouble(v) ==
  CASE v.t \in {"int", "uint"} -> Double(v.n)
    [] v.t = "real"            -> v
    [] v.t = "null"            -> OfReal(0)
    [] v.t = "boolean"         -> Double(BoolInt(v))

CanBool(v) == isNumeric(v) \/ v.t \in {"null", "boolean"}
asBool(v) ==
  CASE v.t = "boolean"         -> v.b
    [] v.t = "null"            -> FALSE
    [] v.t \in {"int", "uint"} -> v.n # 0
    [] v.t = "real"            -> Number(v) /\ Extent(v) # 0

\* asString of arrays and objects throws; the text itself is that of JsonText.
CanString(v) == v.t \notin {"array", "object"}

isConvertibleTo(v, type) ==
  CASE type = "null" ->
         \/ isNumeric(v) /\ asDouble(v) = OfReal(0)
         \/ v.t = "boolean" /\ ~v.b
         \/ v.t = "string" /\ v.s = <<>>
         \/ v.t \in {"array", "object"} /\ DOMAIN v.m = {}
         \/ v.t = "null"
    [] type = "int"  -> \/ isInt(v) \/ v.t \in {"boolean", "null"}
                        \/ v.t = "real" /\ InRange(v, minInt, maxInt)
    [] type = "uint" -> \/ isUInt(v) \/ v.t \in {"boolean", "null"}
                        \/ v.t = "real" /\ InRange(v, 0, maxUInt)
    [] type \in {"real", "boolean"} -> isNumeric(v) \/ v.t \in {"boolean", "null"}
    [] type = "string"              -> isNumeric(v) \/ v.t \in {"boolean", "string", "null"}
    [] type \in {"array", "object"} -> v.t \in {type, "null"}

-----------------------------------------------------------------------------
(* Properties *)

\* A value holds what its type says: an integer of the largest width, a boolean, or a
\* real of one of the three kinds.
IsValue(v) ==
  /\ v.t \in ToSet(Types)
  /\ v.t = "int"  => v.n \in minLargestInt .. maxLargestInt
  /\ v.t = "uint" => v.n \in 0 .. maxLargestUInt
  /\ v.t = "real" => v.kind \in {"finite", "infinite", "NaN"} /\ v.halves \in Int
  /\ v.t = "real" /\ v.kind = "infinite" => v.halves \in {-1, 1}
  /\ v.t = "boolean" => v.b \in BOOLEAN

\* The number that v is, in halves.
Halves(v) == IF v.t = "real" THEN v.halves ELSE 2 * v.n

\* The tests and the conversions agree: a value that is said to be of a type converts
\* to exactly what it is; one that is said to be convertible converts, and only such
\* a one, to a number of the type or, for the largest types, to one more at most, as
\* their bounds are rounded up when they become doubles.
ConversionsAgree(v) ==
  LET Exact(is, as)       == is => as.ok /\ 2 * as.n = Halves(v)
      Within(as, min, max) == as.ok => min <= as.n /\ as.n <= max
  IN  /\ Exact(isInt(v), asInt(v)) /\ Exact(isUInt(v), asUInt(v))
      /\ Exact(isInt64(v), asInt64(v)) /\ Exact(isUInt64(v), asUInt64(v))
      /\ asInt(v).ok <=> isConvertibleTo(v, "int")
      /\ asUInt(v).ok <=> isConvertibleTo(v, "uint")
      /\ CanDouble(v) <=> isConvertibleTo(v, "real")
      /\ CanBool(v) <=> isConvertibleTo(v, "boolean")
      /\ CanString(v) <=> isConvertibleTo(v, "string")
      /\ Within(asInt(v), minInt, maxInt) /\ Within(asUInt(v), 0, maxUInt)
      /\ Within(asInt64(v), minLargestInt, maxLargestInt + 1)
      /\ Within(asUInt64(v), 0, maxLargestUInt + 1)
      /\ isInt(v) => isInt64(v)
      /\ isInt64(v) \/ isUInt64(v) <=> isIntegral(v)
      /\ isConvertibleTo(v, "null") /\ CanBool(v) => ~asBool(v)
=============================================================================
