------------------------------- MODULE JsonText -------------------------------
(***************************************************************************)
(* How the JSON library writes numbers and strings and reads them back     *)
(* (3rd/json/jsoncpp.cpp): decimal digits, the text of a double, quoting   *)
(* with escapes and UTF-8, and the decoding of tokens.                     *)
(*                                                                         *)
(* Text and strings are sequences of bytes.  An exponent is limited to     *)
(* MaxExponent; a number that is not a multiple of one half is cut to one. *)
(***************************************************************************)
EXTENDS JsonConversion

CONSTANT MaxExponent   \* 308 in the code: of the largest double

ASSUME ExponentAssumption == MaxExponent \in Nat

Quote     == 34
Backslash == 92
Minus     == 45
Point     == 46
Digits    == 48 .. 57

-----------------------------------------------------------------------------
(* Numbers, written *)

\* uintToString.
RECURSIVE Decimal(_)
Decimal(n) == IF n < 10 THEN <<48 + n>> ELSE Append(Decimal(n \div 10), 48 + (n % 10))

IntText(n) == IF n < 0 THEN <<Minus>> \o Decimal(-n) ELSE Decimal(n)

\* valueToString(double): "null", "-1e+9999", "1e+9999"; a point if there is none.
OnePlus9999 == <<49, 101, 43, 57, 57, 57, 57>>
RealText(r) ==
  CASE r.kind = "NaN"      -> <<110, 117, 108, 108>>
    [] r.kind = "infinite" -> IF r.halves < 0 THEN <<Minus>> \o OnePlus9999 ELSE OnePlus9999
    [] r.kind = "finite"   ->
         LET h == IF r.halves < 0 THEN -r.halves ELSE r.halves
         IN  (IF r.halves < 0 THEN <<Minus>> ELSE <<>>)
               \o Decimal(h \div 2) \o <<Point, IF h % 2 = 1 THEN 53 ELSE 48>>

-----------------------------------------------------------------------------
(* Strings, written *)

\* The bits of n from bit at on, width of them.
Bits(n, at, width) == (n \div 2 ^ at) % 2 ^ width

codePointToUTF8(cp) ==
  CASE cp <= 127     -> <<cp>>
    [] cp \in 128 .. 2047 -> <<192 + Bits(cp, 6, 5), 128 + Bits(cp, 0, 6)>>
    [] cp \in 2048 .. 65535 -> <<224 + Bits(cp, 12, 4), 128 + Bits(cp, 6, 6), 128 + Bits(cp, 0, 6)>>
    [] cp \in 65536 .. 1114111 ->
         <<240 + Bits(cp, 18, 3), 128 + Bits(cp, 12, 6), 128 + Bits(cp, 6, 6), 128 + Bits(cp, 0, 6)>>
    [] OTHER -> <<>>

REPLACEMENT_CHARACTER == 65533

\* utf8ToCodepoint: the code point at position i of s, and how many bytes it
\* takes.  The second and later bytes are taken for what they are.
utf8ToCodepoint(s, i) ==
  LET b(k)  == s[i + k] % 64
      long(n) == i + n - 1 <= Len(s)
      Point2  == (s[i] % 32) * 64 + b(1)
      Point3  == (s[i] % 16) * 4096 + b(1) * 64 + b(2)
      Point4  == (s[i] % 8) * 262144 + b(1) * 4096 + b(2) * 64 + b(3)
      Take(cp, ok, n) == [cp |-> IF ok THEN cp ELSE REPLACEMENT_CHARACTER, n |-> n]
  IN  CASE s[i] < 128                          -> Take(s[i], TRUE, 1)
        [] s[i] \in 128 .. 223 /\ long(2)      -> Take(Point2, Point2 >= 128, 2)
        [] s[i] \in 224 .. 239 /\ long(3)      -> Take(Point3, Point3 >= 2048 /\ Point3 \notin 55296 .. 57343, 3)
        [] s[i] \in 240 .. 247 /\ long(4)      -> Take(Point4, Point4 >= 65536, 4)
        [] OTHER                               -> Take(0, FALSE, 1)

HexDigit(d) == IF d < 10 THEN 48 + d ELSE 87 + d
toHex16Bit(x) == [k \in 1 .. 4 |-> HexDigit(Bits(x, 16 - 4 * k, 4))]

\* The escapes of one letter: the byte, and the letter.
ShortEscapes == << <<34, 34>>, <<92, 92>>, <<8, 98>>, <<12, 102>>, <<10, 110>>, <<13, 114>>, <<9, 116>> >>
ShortOf(byte) == {e[2] : e \in {e \in ToSet(ShortEscapes) : e[1] = byte}}

Unicode(x) == <<Backslash, 117>> \o toHex16Bit(x)

\* Mutation of Escaped: the code point goes into the pair as it is.
EscapedWithoutOffset(cp) ==
  CASE cp \in 32 .. 127 -> <<cp>>
    [] cp \notin 32 .. 127 /\ cp < 65536 -> Unicode(cp)
    [] cp >= 65536 -> Unicode(55296 + Bits(cp, 10, 10)) \o Unicode(56320 + Bits(cp, 0, 10))

\* A code point above the basic plane becomes a surrogate pair.
Escaped(cp) ==
  CASE cp \in 32 .. 127 -> <<cp>>
    [] cp \notin 32 .. 127 /\ cp < 65536 -> Unicode(cp)
    [] cp >= 65536 ->
         Unicode(55296 + Bits(cp - 65536, 10, 10)) \o Unicode(56320 + Bits(cp - 65536, 0, 10))

\* valueToQuotedStringN, from position i on, without the quotes.
RECURSIVE EscapedFrom(_, _)
EscapedFrom(s, i) ==
  IF i > Len(s) THEN <<>>
  ELSE LET short == ShortOf(s[i])
           next  == utf8ToCodepoint(s, i)
       IN  IF short # {} THEN <<Backslash>> \o SetToSeq(short) \o EscapedFrom(s, i + 1)
           ELSE Escaped(next.cp) \o EscapedFrom(s, i + next.n)

valueToQuotedString(s) == <<Quote>> \o EscapedFrom(s, 1) \o <<Quote>>

-----------------------------------------------------------------------------
(* Numbers, read *)

\* What a token decodes to, or that it is in error.
Bad     == [ok |-> FALSE, v |-> Null]
Good(v) == [ok |-> TRUE, v |-> v]

Number10(digits) == FoldLeft(LAMBDA n, c : n * 10 + (c - 48), 0, digits)

\* The digits are a number of at most max; the code compares with max / 10
\* before it multiplies, so that nothing overflows.
RECURSIVE Fits(_, _, _, _)
Fits(digits, i, n, max) ==
  \/ i > Len(digits)
  \/ /\ n >= max \div 10 => n = max \div 10 /\ i = Len(digits) /\ digits[i] - 48 <= max % 10
     /\ Fits(digits, i + 1, n * 10 + digits[i] - 48, max)

\* The first position in u of one of the bytes, or the one behind its end.
FirstOf(u, bytes) ==
  LET at == {i \in DOMAIN u : u[i] \in bytes} IN IF at = {} THEN Len(u) + 1 ELSE Min(at)

\* decodeDouble, by way of an input stream: digits, a point, an exponent that is
\* complete.  The value is given in halves.
decodeDouble(t) ==
  LET Scaled(n, scale) == IF scale >= 0 THEN n * 10 ^ scale ELSE n \div 10 ^ (-scale)
      Value(sign, whole, fraction, power) ==
        IF whole \o fraction = <<>> \/ power > MaxExponent THEN Bad
        ELSE Good(OfReal(sign * Scaled(2 * Number10(whole \o fraction), power - Len(fraction))))
      Parts(sign, u, p, e, signs) ==
        LET exponent == SubSeq(u, e + 1 + Cardinality(signs), Len(u))
            power    == (IF signs = {Minus} THEN -1 ELSE 1) * Number10(exponent)
        IN  IF e <= Len(u) /\ exponent = <<>> THEN Bad
            ELSE Value(sign, SubSeq(u, 1, p - 1), SubSeq(u, p + 1, e - 1), power)
      Split(sign, u, e) ==
        Parts(sign, u, Min({FirstOf(u, {Point}), e}), e,
              {u[i] : i \in {e + 1} \cap DOMAIN u} \cap {43, Minus})
      Unsigned(sign, u) == Split(sign, u, FirstOf(u, {69, 101}))
  IN  IF t # <<>> /\ t[1] = Minus THEN Unsigned(-1, Tail(t)) ELSE Unsigned(1, t)

\* decodeNumber: an integer if it fits one, or else a double.  "-" is 0.
decodeNumber(t) ==
  LET negative == t[1] = Minus
      digits   == IF negative THEN Tail(t) ELSE t
      max      == IF negative THEN maxLargestInt + 1 ELSE maxLargestUInt
      n        == Number10(digits)
  IN  IF ~(ToSet(digits) \subseteq Digits) \/ ~Fits(digits, 1, 0, max) THEN decodeDouble(t)
      ELSE Good(CASE negative                 -> OfInt(-n)
                  [] ~negative /\ n <= maxInt -> OfInt(n)
                  [] ~negative /\ n > maxInt  -> OfUInt(n))

-----------------------------------------------------------------------------
(* Strings, read *)

HexValues(c) == {d \in 0 .. 15 : c \in {HexDigit(d), IF d < 10 THEN 48 + d ELSE 55 + d}}

\* decodeUnicodeEscapeSequence: the four hexadecimal digits from i on, or -1.
FourHex(t, i) ==
  IF i + 3 > Len(t) \/ \E k \in 0 .. 3 : HexValues(t[i + k]) = {} THEN -1
  ELSE LET d(k) == CHOOSE x \in HexValues(t[i + k]) : TRUE
       IN  d(0) * 4096 + d(1) * 256 + d(2) * 16 + d(3)

\* decodeUnicodeCodePoint: what "\u" at i - 2 stands for, and how many bytes after
\* it are taken.  A leading surrogate takes any second one for its trailing half.
decodeUnicodeCodePoint(t, i) ==
  LET first  == FourHex(t, i)
      pair   == i + 5 <= Len(t) /\ SubSeq(t, i + 4, i + 5) = <<Backslash, 117>>
      second == FourHex(t, i + 6)
  IN  CASE first = -1                    -> [cp |-> -1, n |-> 0]
        [] first \in 0 .. 65535 \ 55296 .. 56319 -> [cp |-> first, n |-> 4]
        [] first \in 55296 .. 56319      ->
             IF pair /\ second # -1
             THEN [cp |-> 65536 + Bits(first, 0, 10) * 1024 + Bits(second, 0, 10), n |-> 10]
             ELSE [cp |-> -1, n |-> 0]

\* decodeString: the text between the quotes from i on, after what is decoded.
RECURSIVE DecodeFrom(_, _, _)
DecodeFrom(t, i, decoded) ==
  CASE i > Len(t) -> Good(OfString(decoded))
    [] i <= Len(t) /\ t[i] # Backslash -> DecodeFrom(t, i + 1, Append(decoded, t[i]))
    [] i = Len(t) /\ t[i] = Backslash  -> Bad
    [] i < Len(t) /\ t[i] = Backslash  ->
         LET plain == {e[1] : e \in {e \in ToSet(ShortEscapes) \cup {<<47, 47>>} : e[2] = t[i + 1]}}
             point == decodeUnicodeCodePoint(t, i + 2)
         IN  CASE plain # {} -> DecodeFrom(t, i + 2, decoded \o SetToSeq(plain))
               [] plain = {} /\ t[i + 1] = 117 /\ point.cp # -1 ->
                    DecodeFrom(t, i + 2 + point.n, decoded \o codePointToUTF8(point.cp))
               [] OTHER -> Bad

decodeString(t) == DecodeFrom(SubSeq(t, 2, Len(t) - 1), 1, <<>>)
=============================================================================
