-------------------------- MODULE JsonDocumentProofs --------------------------
(***************************************************************************)
(* That a Json::Value acts as a container: the sparse map of an array as   *)
(* the sequence of its items, an object as the map of its members, for     *)
(* every bound on the size and all the values and names.  That its         *)
(* conversions do what its tests say, for all widths.  And that its names  *)
(* are ordered.                                                            *)
(***************************************************************************)
EXTENDS JsonDocument, SequenceTheorems, WellFoundedInduction, TLAPS

\* Induction over the natural numbers, for a set of them.
LEMMA SetInduction ==
  ASSUME NEW A, 0 \in A, \A n \in Nat : n \in A => n + 1 \in A PROVE Nat \subseteq A
<1> DEFINE T == Nat \ A
<1> SUFFICES ASSUME T # {} PROVE FALSE
  OBVIOUS
<1>1. PICK x \in T : \A y \in T : ~(<<y, x>> \in OpToRel(<, Nat))
  BY WFMin, NatLessThanWellFounded, Zenon
<1>2. \A y \in T : ~(y < x)
  BY <1>1 DEF OpToRel
<1>3. x \in Nat /\ x # 0 /\ x - 1 \in Nat
  OBVIOUS
<1>4. x - 1 \notin T
  BY <1>2, <1>3
<1>5. (x - 1) + 1 \in A
  BY <1>3, <1>4
<1>6. QED BY <1>3, <1>5

-----------------------------------------------------------------------------
(* Powers of two *)

\* The function by which Pow2 is computed, up to n.
Doubles(f, n) == f = [i \in 0 .. n |-> IF i = 0 THEN 1 ELSE 2 * f[i - 1]]

\* There is one for each n, and it is one of numbers.
LEMMA DoublesExists == ASSUME NEW n \in Nat PROVE \E f : Doubles(f, n)
<1> DEFINE A == {k \in Nat : \E f : Doubles(f, k)}
<1>1. 0 \in A
  <2>1. Doubles([i \in 0 .. 0 |-> 1], 0)
    BY DEF Doubles
  <2>2. QED BY <2>1
<1>2. ASSUME NEW k \in Nat, k \in A PROVE k + 1 \in A
  <2>1. PICK f : Doubles(f, k)
    BY <1>2
  <2> DEFINE last == 2 * f[k]
             g == [i \in 0 .. k + 1 |-> IF i <= k THEN f[i] ELSE last]
  <2>2. \A i \in 0 .. k : f[i] = IF i = 0 THEN 1 ELSE 2 * f[i - 1]
    BY <2>1 DEF Doubles
  <2>3. ASSUME NEW i \in 0 .. k + 1 PROVE g[i] = IF i = 0 THEN 1 ELSE 2 * g[i - 1]
    <3>1. CASE i <= k
      <4>1. g[i] = f[i] /\ (i # 0 => g[i - 1] = f[i - 1])
        BY <3>1
      <4> HIDE DEF g
      <4>2. QED BY <2>2, <3>1, <4>1
    <3>2. CASE i = k + 1
      <4>1. g[i] = last /\ g[i - 1] = f[k] /\ i # 0
        BY <3>2
      <4> HIDE DEF g
      <4>2. QED BY <3>2, <4>1
    <3>3. QED BY <3>1, <3>2
  <2>4. Doubles(g, k + 1)
    <3>1. g = [i \in 0 .. k + 1 |-> g[i]]
      OBVIOUS
    <3> HIDE DEF g
    <3>2. QED BY <2>3, <3>1 DEF Doubles
  <2> HIDE DEF g
  <2>5. QED BY <2>4
<1> HIDE DEF A
<1>3. n \in A
  BY <1>1, <1>2, SetInduction
<1>4. QED BY <1>3 DEF A

\* Two of them agree as far as they go.
LEMMA DoublesAgree ==
  ASSUME NEW n \in Nat, NEW m \in Nat, n <= m, NEW f, Doubles(f, n), NEW g, Doubles(g, m)
  PROVE  f[n] = g[n]
<1> DEFINE A == {k \in Nat : k <= n => f[k] = g[k]}
<1>1. \A i \in 0 .. n : f[i] = IF i = 0 THEN 1 ELSE 2 * f[i - 1]
  BY DEF Doubles
<1>2. \A i \in 0 .. m : g[i] = IF i = 0 THEN 1 ELSE 2 * g[i - 1]
  BY DEF Doubles
<1>3. 0 \in A
  BY <1>1, <1>2
<1>4. ASSUME NEW k \in Nat, k \in A PROVE k + 1 \in A
  <2> SUFFICES ASSUME k + 1 <= n PROVE f[k + 1] = g[k + 1]
    OBVIOUS
  <2>1. f[k] = g[k] /\ k + 1 \in 0 .. n /\ k + 1 \in 0 .. m /\ k + 1 # 0 /\ (k + 1) - 1 = k
    BY <1>4
  <2>2. f[k + 1] = 2 * f[k] /\ g[k + 1] = 2 * g[k]
    BY <1>1, <1>2, <2>1
  <2>3. QED BY <2>1, <2>2
<1> HIDE DEF A
<1>5. n \in A
  BY <1>3, <1>4, SetInduction
<1>6. QED BY <1>5 DEF A

\* The function Pow2 stands for.
LEMMA PowIs == ASSUME NEW n \in Nat PROVE \E f : Doubles(f, n) /\ Pow2(n) = f[n]
<1>1. \E f : Doubles(f, n)
  BY DoublesExists
<1>2. QED BY <1>1 DEF Pow2, Doubles

\* The powers of two, one by one.
LEMMA PowFact == Pow2(0) = 1 /\ \A n \in Nat : Pow2(n + 1) = 2 * Pow2(n)
<1>1. Pow2(0) = 1
  <2>1. PICK f : Doubles(f, 0) /\ Pow2(0) = f[0]
    BY PowIs
  <2>2. QED BY <2>1 DEF Doubles
<1>2. ASSUME NEW n \in Nat PROVE Pow2(n + 1) = 2 * Pow2(n)
  <2>1. PICK f : Doubles(f, n) /\ Pow2(n) = f[n]
    BY PowIs
  <2>2. PICK g : Doubles(g, n + 1) /\ Pow2(n + 1) = g[n + 1]
    BY PowIs
  <2>3. f[n] = g[n]
    BY <2>1, <2>2, DoublesAgree
  <2>4. g[n + 1] = 2 * g[n]
    <3>1. \A i \in 0 .. n + 1 : g[i] = IF i = 0 THEN 1 ELSE 2 * g[i - 1]
      BY <2>2 DEF Doubles
    <3>2. n + 1 \in 0 .. n + 1 /\ n + 1 # 0 /\ (n + 1) - 1 = n
      OBVIOUS
    <3>3. QED BY <3>1, <3>2
  <2>5. QED BY <2>1, <2>2, <2>3, <2>4
<1>3. QED BY <1>1, <1>2

\* They are positive.
LEMMA PowType == \A n \in Nat : Pow2(n) \in Nat /\ Pow2(n) > 0
<1> DEFINE A == {n \in Nat : Pow2(n) \in Nat /\ Pow2(n) > 0}
<1>1. 0 \in A
  BY PowFact
<1>2. ASSUME NEW n \in Nat, n \in A PROVE n + 1 \in A
  BY <1>2, PowFact
<1> HIDE DEF A
<1>3. Nat \subseteq A
  BY <1>1, <1>2, SetInduction
<1>4. QED BY <1>3 DEF A

\* The power of a sum is the product of the powers.
LEMMA PowSum == \A n \in Nat, m \in Nat : Pow2(n + m) = Pow2(n) * Pow2(m)
<1> SUFFICES ASSUME NEW n \in Nat PROVE \A m \in Nat : Pow2(n + m) = Pow2(n) * Pow2(m)
  OBVIOUS
<1> DEFINE A == {m \in Nat : Pow2(n + m) = Pow2(n) * Pow2(m)}
<1>1. 0 \in A
  BY PowFact, PowType
<1>2. ASSUME NEW m \in Nat, m \in A PROVE m + 1 \in A
  <2>1. Pow2(n + (m + 1)) = 2 * Pow2(n + m) /\ Pow2(m + 1) = 2 * Pow2(m)
    <3>1. n + (m + 1) = (n + m) + 1 /\ n + m \in Nat
      OBVIOUS
    <3>2. QED BY <3>1, PowFact
  <2>2. PICK a \in Nat, b \in Nat : a = Pow2(n) /\ b = Pow2(m)
    BY PowType
  <2>3. 2 * (a * b) = a * (2 * b)
    OBVIOUS
  <2>4. QED BY <1>2, <2>1, <2>2, <2>3
<1> HIDE DEF A
<1>3. Nat \subseteq A
  BY <1>1, <1>2, SetInduction
<1>4. QED BY <1>3 DEF A

\* They grow, by at least a factor of two.
LEMMA PowGrows == \A n \in Nat, m \in Nat : n < m => 2 * Pow2(n) <= Pow2(m)
<1> SUFFICES ASSUME NEW n \in Nat, NEW m \in Nat, n < m PROVE 2 * Pow2(n) <= Pow2(m)
  OBVIOUS
<1>1. PICK d \in Nat : m = (n + 1) + d
  <2>1. m - (n + 1) \in Nat /\ m = (n + 1) + (m - (n + 1))
    OBVIOUS
  <2>2. QED BY <2>1
<1>2. PICK a \in Nat, b \in Nat : a = Pow2(n + 1) /\ b = Pow2(d) /\ b > 0
  BY PowType
<1>3. a * b >= a
  BY <1>2
<1>4. QED BY <1>1, <1>2, <1>3, PowSum, PowFact

\* They are in order.
LEMMA PowMono == \A n \in Nat, m \in Nat : n <= m => Pow2(n) <= Pow2(m)
<1> SUFFICES ASSUME NEW n \in Nat, NEW m \in Nat, n <= m PROVE Pow2(n) <= Pow2(m)
  OBVIOUS
<1>1. CASE n = m
  BY <1>1, PowType
<1>2. CASE n < m
  BY <1>2, PowGrows, PowType
<1>3. QED BY <1>1, <1>2

-----------------------------------------------------------------------------
(* Rounding *)

\* Division, from the product.
LEMMA DivFact ==
  ASSUME NEW u \in Nat, u > 0, NEW q \in Nat, NEW r \in 0 .. u - 1, NEW n \in Nat, n = u * q + r
  PROVE  n \div u = q /\ n % u = r
<1> DEFINE d == n \div u
           m == n % u
<1>1. d \in Nat /\ m \in 0 .. u - 1 /\ u * q + r = u * d + m
  <2>1. n = u * (n \div u) + (n % u) /\ n \div u \in Nat /\ n % u \in 0 .. u - 1
    BY SMT
  <2>2. QED BY <2>1
<1> HIDE DEF d, m
<1>2. ~(d >= q + 1)
  <2> SUFFICES ASSUME d >= q + 1 PROVE FALSE
    OBVIOUS
  <2>1. u * d >= u * (q + 1) /\ u * (q + 1) = u * q + u
    BY <1>1
  <2>2. QED BY <1>1, <2>1
<1>3. ~(q >= d + 1)
  <2> SUFFICES ASSUME q >= d + 1 PROVE FALSE
    OBVIOUS
  <2>1. u * q >= u * (d + 1) /\ u * (d + 1) = u * d + u
    BY <1>1
  <2>2. QED BY <1>1, <2>1
<1>4. QED BY <1>1, <1>2, <1>3 DEF d, m

\* How many bits are dropped: no more than need be.
Drops(n, e) == n < Pow2(Mantissa + e) /\ \A d \in 0 .. e - 1 : n >= Pow2(Mantissa + d)

\* Two exponents that drop no more than need be are one.
LEMMA DropsOnce ==
  ASSUME NEW n \in Nat, NEW e \in Nat, NEW d \in Nat, Drops(n, e), Drops(n, d)
  PROVE  d = e
<1>1. Mantissa + e \in Nat /\ Mantissa + d \in Nat
  BY WidthAssumption
<1>2. ~(d < e)
  BY <1>1, PowType DEF Drops
<1>3. ~(e < d)
  BY <1>1, PowType DEF Drops
<1>4. QED BY <1>2, <1>3

\* The exponent of an integer of LargestBits bits, and of the power after them.
LEMMA ExponentFact ==
  ASSUME NEW n \in Nat, n <= Pow2(LargestBits)
  PROVE  Exponent(n) \in 0 .. LargestBits /\ Drops(n, Exponent(n))
<1>0. Mantissa \in Nat /\ LargestBits \in Nat /\ 0 < Mantissa
  BY WidthAssumption
<1> DEFINE U == {e \in Nat : n < Pow2(Mantissa + e)}
<1>1. LargestBits \in U
  <2>1. 2 * Pow2(LargestBits) <= Pow2(Mantissa + LargestBits)
    BY <1>0, PowGrows
  <2>2. Pow2(LargestBits) \in Nat /\ Pow2(LargestBits) > 0 /\ Pow2(Mantissa + LargestBits) \in Nat
    BY <1>0, PowType
  <2>3. QED BY <1>0, <2>1, <2>2
<1>2. PICK e \in U : \A y \in U : ~(<<y, e>> \in OpToRel(<, Nat))
  BY <1>1, WFMin, NatLessThanWellFounded, Zenon
<1>3. e \in Nat /\ \A y \in U : e <= y
  <2>1. \A y \in U : ~(y < e)
    BY <1>2 DEF OpToRel
  <2>2. QED BY <2>1
<1>4. e \in 0 .. LargestBits
  BY <1>0, <1>1, <1>3
<1>5. Drops(n, e)
  <2>1. ASSUME NEW d \in 0 .. e - 1 PROVE n >= Pow2(Mantissa + d)
    <3>1. d \in Nat /\ ~(e <= d) /\ Mantissa + d \in Nat
      BY <1>0, <1>3
    <3>2. ~(n < Pow2(Mantissa + d))
      BY <1>3, <3>1
    <3>3. QED BY <3>1, <3>2, PowType
  <2>2. QED BY <1>2, <2>1 DEF Drops
<1> HIDE DEF U
<1>6. \E x \in 0 .. LargestBits : Drops(n, x)
  BY <1>4, <1>5
<1>7. QED BY <1>6 DEF Exponent, Drops

\* The integer that is given back, by the quotient and the rest.
LEMMA RoundedIs ==
  ASSUME NEW n \in Nat, n <= Pow2(LargestBits), NEW e \in Nat, Drops(n, e),
         NEW q \in Nat, NEW r \in 0 .. Pow2(e) - 1, n = Pow2(e) * q + r
  PROVE  Rounded(n) = Pow2(e) * (IF 2 * r > Pow2(e) \/ (2 * r = Pow2(e) /\ q % 2 = 1) THEN q + 1 ELSE q)
<1>1. Exponent(n) = e
  BY ExponentFact, DropsOnce
<1>2. Pow2(e) \in Nat /\ Pow2(e) > 0
  BY PowType
<1>3. n \div Pow2(e) = q /\ n % Pow2(e) = r
  BY <1>2, DivFact
<1>4. QED BY <1>1, <1>3 DEF Rounded

\* What needs no more than Mantissa bits stays as it is.
LEMMA RoundedSmall == ASSUME NEW n \in Nat, n < Pow2(Mantissa) PROVE Rounded(n) = n
<1>1. Mantissa \in Nat /\ LargestBits \in Nat /\ Mantissa < LargestBits /\ Mantissa + 0 = Mantissa
  BY WidthAssumption
<1>2. n <= Pow2(LargestBits)
  BY <1>1, PowGrows, PowType
<1>3. Drops(n, 0)
  BY <1>1 DEF Drops
<1>4. Pow2(0) = 1 /\ n = Pow2(0) * n + 0 /\ 0 \in 0 .. Pow2(0) - 1
  BY PowFact
<1>5. Rounded(n) = Pow2(0) * (IF 2 * 0 > Pow2(0) \/ (2 * 0 = Pow2(0) /\ n % 2 = 1) THEN n + 1 ELSE n)
  BY <1>2, <1>3, <1>4, RoundedIs
<1>6. QED BY <1>4, <1>5

\* A double is an integer of its own, and that of a number that is not 0 is not 0.
LEMMA RoundedType ==
  ASSUME NEW n \in Nat, n <= Pow2(LargestBits)
  PROVE  Rounded(n) \in Nat /\ (n > 0 => Rounded(n) > 0)
<1>0. Mantissa \in Nat /\ 0 < Mantissa
  BY WidthAssumption
<1>1. PICK e \in Nat : Drops(n, e)
  BY ExponentFact
<1>2. PICK u \in Nat : u = Pow2(e) /\ u > 0
  BY PowType
<1>3. PICK q \in Nat, r \in 0 .. u - 1 : n = u * q + r
  <2>1. n = u * (n \div u) + (n % u) /\ n \div u \in Nat /\ n % u \in 0 .. u - 1
    BY <1>2, SMT
  <2>2. QED BY <2>1
<1>4. PICK p \in Nat : Rounded(n) = u * p /\ p >= q
  <2>1. Rounded(n) = u * (IF 2 * r > u \/ (2 * r = u /\ q % 2 = 1) THEN q + 1 ELSE q)
    BY <1>1, <1>2, <1>3, RoundedIs
  <2>2. QED BY <2>1
<1>5. ASSUME n > 0 PROVE q > 0
  <2>1. CASE e = 0
    BY <1>2, <1>3, <1>5, <2>1, PowFact
  <2>2. CASE e > 0
    <3>1. e - 1 \in 0 .. e - 1 /\ Mantissa + (e - 1) \in Nat /\ Mantissa + (e - 1) >= e
      BY <1>0, <2>2
    <3>2. n >= Pow2(Mantissa + (e - 1))
      BY <1>1, <3>1 DEF Drops
    <3>3. Pow2(Mantissa + (e - 1)) >= u
      BY <1>2, <3>1, PowMono, PowType
    <3>4. n >= u
      BY <3>1, <3>2, <3>3, PowType
    <3>5. QED BY <1>2, <1>3, <3>4
  <2>3. QED BY <2>1, <2>2
<1>6. QED BY <1>2, <1>4, <1>5

\* A power of two is a double.
LEMMA RoundedPower == ASSUME NEW k \in 0 .. LargestBits PROVE Rounded(Pow2(k)) = Pow2(k)
<1>0. Mantissa \in Nat /\ 0 < Mantissa /\ k \in Nat /\ LargestBits \in Nat
  BY WidthAssumption
<1>1. Pow2(k) \in Nat /\ Pow2(k) <= Pow2(LargestBits)
  BY <1>0, PowType, PowMono
<1>2. CASE k < Mantissa
  BY <1>0, <1>1, <1>2, RoundedSmall, PowGrows, PowType
<1>3. CASE k >= Mantissa
  <2>1. PICK e \in Nat : k = e + (Mantissa - 1)
    <3>1. k - (Mantissa - 1) \in Nat /\ k = (k - (Mantissa - 1)) + (Mantissa - 1)
      BY <1>0, <1>3
    <3>2. QED BY <3>1
  <2>2. Mantissa - 1 \in Nat /\ Mantissa + e = k + 1
    BY <1>0, <2>1
  <2>3. Drops(Pow2(k), e)
    <3>1. Pow2(k) < Pow2(Mantissa + e)
      BY <1>0, <1>1, <2>2, PowGrows, PowType
    <3>2. ASSUME NEW d \in 0 .. e - 1 PROVE Pow2(k) >= Pow2(Mantissa + d)
      <4>1. Mantissa + d \in Nat /\ Mantissa + d <= k
        BY <1>0, <2>1
      <4>2. QED BY <1>0, <1>1, <4>1, PowMono, PowType
    <3>3. QED BY <3>1, <3>2 DEF Drops
  <2>4. PICK u \in Nat, q \in Nat : u = Pow2(e) /\ u > 0 /\ q = Pow2(Mantissa - 1)
    BY <2>2, PowType
  <2>5. Pow2(k) = u * q + 0 /\ 0 \in 0 .. u - 1
    <3>1. Pow2(e + (Mantissa - 1)) = Pow2(e) * Pow2(Mantissa - 1)
      BY <2>2, PowSum
    <3>2. Pow2(k) = u * q /\ u * q \in Nat
      BY <2>1, <2>4, <3>1
    <3>3. QED BY <2>4, <3>2
  <2>6. Rounded(Pow2(k)) = u * (IF 2 * 0 > u \/ (2 * 0 = u /\ q % 2 = 1) THEN q + 1 ELSE q)
    BY <1>1, <2>3, <2>4, <2>5, RoundedIs
  <2>7. QED BY <2>4, <2>5, <2>6
<1>4. QED BY <1>0, <1>2, <1>3

\* The greatest integer of k bits becomes the power of two after it, if it has too many.
LEMMA RoundedBelow ==
  ASSUME NEW k \in 0 .. LargestBits
  PROVE  Rounded(Pow2(k) - 1) = IF k <= Mantissa THEN Pow2(k) - 1 ELSE Pow2(k)
<1>0. Mantissa \in Nat /\ 0 < Mantissa /\ k \in Nat /\ LargestBits \in Nat
  BY WidthAssumption
<1>1. Pow2(k) \in Nat /\ Pow2(k) > 0 /\ Pow2(k) - 1 \in Nat /\ Pow2(k) - 1 <= Pow2(LargestBits)
  BY <1>0, PowType, PowMono
<1>2. CASE k <= Mantissa
  <2>1. Pow2(k) <= Pow2(Mantissa)
    BY <1>0, <1>2, PowType, PowGrows
  <2>2. QED BY <1>0, <1>1, <1>2, <2>1, RoundedSmall, PowType
<1>3. CASE k > Mantissa
  <2>1. PICK e \in Nat : k = e + Mantissa /\ e > 0
    <3>1. k - Mantissa \in Nat /\ k = (k - Mantissa) + Mantissa /\ k - Mantissa > 0
      BY <1>0, <1>3
    <3>2. QED BY <3>1
  <2>2. Drops(Pow2(k) - 1, e)
    <3>1. Pow2(k) - 1 < Pow2(Mantissa + e)
      BY <1>0, <1>1, <2>1
    <3>2. ASSUME NEW d \in 0 .. e - 1 PROVE Pow2(k) - 1 >= Pow2(Mantissa + d)
      <4>1. Mantissa + d \in Nat /\ Mantissa + d < k
        BY <1>0, <2>1
      <4>2. QED BY <1>0, <1>1, <4>1, PowGrows, PowType
    <3>3. QED BY <3>1, <3>2 DEF Drops
  <2>3. PICK u \in Nat, h \in Nat : u = Pow2(e) /\ u = 2 * h /\ h > 0
    <3>1. e - 1 \in Nat /\ (e - 1) + 1 = e
      BY <2>1
    <3>2. Pow2(e) = 2 * Pow2(e - 1) /\ Pow2(e - 1) \in Nat /\ Pow2(e - 1) > 0
      BY <3>1, PowFact, PowType
    <3>3. QED BY <3>2
  <2>4. PICK p \in Nat : Pow2(Mantissa) = 2 * p /\ p > 0
    <3>1. Mantissa - 1 \in Nat /\ (Mantissa - 1) + 1 = Mantissa
      BY <1>0
    <3>2. QED BY <3>1, PowFact, PowType
  <2>5. PICK q \in Nat : q = 2 * p - 1
    BY <2>4
  <2>6. Pow2(k) - 1 = u * q + (u - 1) /\ u - 1 \in 0 .. u - 1
    <3>1. Pow2(k) = u * (2 * p)
      <4>1. Pow2(e + Mantissa) = Pow2(e) * Pow2(Mantissa)
        BY <1>0, PowSum
      <4>2. QED BY <2>1, <2>3, <2>4, <4>1
    <3>2. u * (2 * p) = u * q + u
      <4>1. 2 * p = q + 1
        BY <2>4, <2>5
      <4>2. \A x \in Nat, y \in Nat : x * (y + 1) = x * y + x
        OBVIOUS
      <4>3. u * (q + 1) = u * q + u
        BY <4>2
      <4>4. QED BY <4>1, <4>3
    <3>3. u * q \in Nat
      BY <2>3, <2>5
    <3>4. QED BY <2>3, <3>1, <3>2, <3>3
  <2>7. Rounded(Pow2(k) - 1) = u * (IF 2 * (u - 1) > u \/ (2 * (u - 1) = u /\ q % 2 = 1) THEN q + 1 ELSE q)
    <3>1. PICK n \in Nat : n = Pow2(k) - 1
      BY <1>1
    <3>2. n <= Pow2(LargestBits) /\ Drops(n, e) /\ u - 1 \in 0 .. Pow2(e) - 1 /\ n = Pow2(e) * q + (u - 1)
      BY <1>1, <2>2, <2>3, <2>6, <3>1
    <3>3. Rounded(n) = Pow2(e) * (IF 2 * (u - 1) > Pow2(e) \/ (2 * (u - 1) = Pow2(e) /\ q % 2 = 1) THEN q + 1 ELSE q)
      BY <3>2, RoundedIs
    <3>4. QED BY <2>3, <3>1, <3>3
  <2>8. 2 * (u - 1) > u \/ (2 * (u - 1) = u /\ q % 2 = 1)
    <3>1. q % 2 = 1
      BY <2>4, <2>5
    <3>2. QED BY <2>3, <3>1
  <2>9. u * (q + 1) = Pow2(k)
    <3>1. Pow2(e + Mantissa) = Pow2(e) * Pow2(Mantissa)
      BY <1>0, PowSum
    <3>2. q + 1 = Pow2(Mantissa)
      BY <2>4, <2>5
    <3>3. QED BY <2>1, <2>3, <3>1, <3>2
  <2>10. QED BY <1>0, <1>3, <2>7, <2>8, <2>9
<1>4. QED BY <1>0, <1>2, <1>3

-----------------------------------------------------------------------------
(* Conversions *)

\* The bounds of the integers as multiples of two powers of two.
LEMMA BoundsFact ==
  \E a \in Nat, c \in Nat :
    /\ a > 1 /\ c >= 2 * a
    /\ minInt = -a /\ maxInt = a - 1 /\ maxUInt = 2 * a - 1
    /\ minLargestInt = -c /\ maxLargestInt = c - 1 /\ maxLargestUInt = 2 * c - 1
    /\ Pow2(LargestBits + 4) \in Nat /\ Pow2(LargestBits + 4) > 4 * c
    /\ Double(minInt).halves = -2 * a /\ Double(maxInt).halves = 2 * (a - 1)
    /\ Double(maxUInt).halves = 2 * (2 * a - 1) /\ Double(0).halves = 0
    /\ Double(minLargestInt).halves = -2 * c
    /\ Double(maxLargestInt).halves \in {2 * (c - 1), 2 * c}
    /\ Double(maxLargestUInt).halves = 4 * c
<1>1. /\ IntBits - 1 \in Nat /\ IntBits \in Nat /\ Mantissa \in Nat /\ LargestBits \in Nat
      /\ LargestBits - 1 \in 0 .. LargestBits /\ LargestBits \in 0 .. LargestBits
      /\ IntBits < Mantissa /\ IntBits < LargestBits - 1 /\ Mantissa < LargestBits
  BY WidthAssumption
<1>2. PICK a \in Nat : a = Pow2(IntBits - 1) /\ a > 1
  <2>1. IntBits - 2 \in Nat /\ (IntBits - 2) + 1 = IntBits - 1
    BY WidthAssumption
  <2>2. QED BY <2>1, PowFact, PowType
<1>3. PICK c \in Nat : c = Pow2(LargestBits - 1) /\ c > 0
  BY <1>1, PowType
<1>4. Pow2(IntBits) = 2 * a /\ Pow2(LargestBits) = 2 * c
  <2>1. (IntBits - 1) + 1 = IntBits /\ (LargestBits - 1) + 1 = LargestBits
    BY <1>1
  <2>2. QED BY <1>1, <1>2, <1>3, <2>1, PowFact
<1>5. c >= 2 * a /\ Pow2(Mantissa) \in Nat /\ Pow2(Mantissa) > 2 * a
  <2>1. Pow2(IntBits) <= Pow2(LargestBits - 1) /\ 2 * Pow2(IntBits) <= Pow2(Mantissa)
    BY <1>1, PowMono, PowGrows
  <2>2. QED BY <1>1, <1>2, <1>3, <1>4, <2>1, PowType
<1>6. Pow2(LargestBits + 4) \in Nat /\ Pow2(LargestBits + 4) > 4 * c
  <2>1. LargestBits + 1 \in Nat /\ LargestBits + 4 \in Nat /\ Pow2(LargestBits + 1) = 2 * Pow2(LargestBits)
    BY <1>1, PowFact
  <2>2. 2 * Pow2(LargestBits + 1) <= Pow2(LargestBits + 4)
    BY <1>1, <2>1, PowGrows
  <2>3. QED BY <1>3, <1>4, <2>1, <2>2, PowType
<1>7. Rounded(a) = a /\ Rounded(a - 1) = a - 1 /\ Rounded(2 * a - 1) = 2 * a - 1 /\ Rounded(0) = 0
  BY <1>2, <1>5, RoundedSmall
<1>8. Rounded(c) = c /\ Rounded(c - 1) \in {c - 1, c} /\ Rounded(2 * c - 1) = 2 * c
  BY <1>1, <1>3, <1>4, RoundedPower, RoundedBelow
<1>9. /\ minInt = -a /\ maxInt = a - 1 /\ maxUInt = 2 * a - 1
      /\ minLargestInt = -c /\ maxLargestInt = c - 1 /\ maxLargestUInt = 2 * c - 1
  BY <1>2, <1>3, <1>4 DEF minInt, maxInt, maxUInt, minLargestInt, maxLargestInt, maxLargestUInt
<1>10. \A n : Double(n).halves = 2 * (IF n < 0 THEN -Rounded(-n) ELSE Rounded(n))
  BY DEF Double, OfReal
<1>11. Double(-a).halves = -2 * a /\ Double(-c).halves = -2 * c
  <2>1. -(-a) = a /\ -(-c) = c /\ -a < 0 /\ -c < 0
    BY <1>2, <1>3
  <2>2. QED BY <1>2, <1>3, <1>7, <1>8, <1>10, <2>1
<1>12. /\ Double(a - 1).halves = 2 * (a - 1) /\ Double(2 * a - 1).halves = 2 * (2 * a - 1)
       /\ Double(0).halves = 0 /\ Double(2 * c - 1).halves = 4 * c
       /\ Double(c - 1).halves \in {2 * (c - 1), 2 * c}
  BY <1>2, <1>3, <1>7, <1>8, <1>10
<1>13. QED BY <1>2, <1>3, <1>5, <1>6, <1>9, <1>11, <1>12

\* The tests of an integer and its conversions.
LEMMA IntAgrees ==
  ASSUME NEW v, v.t \in {"int", "uint"},
         v.t = "int"  => v.n \in minLargestInt .. maxLargestInt,
         v.t = "uint" => v.n \in 0 .. maxLargestUInt
  PROVE  ConversionsAgree(v)
<1>1. PICK a \in Nat, c \in Nat :
        /\ a > 1 /\ c >= 2 * a
        /\ minInt = -a /\ maxInt = a - 1 /\ maxUInt = 2 * a - 1
        /\ minLargestInt = -c /\ maxLargestInt = c - 1 /\ maxLargestUInt = 2 * c - 1
  BY BoundsFact
<1>2. PICK n \in Int : n = v.n
  BY <1>1
<1>3. /\ v.t = "int" => -c <= n /\ n < c
      /\ v.t = "uint" => 0 <= n /\ n < 2 * c
  BY <1>1, <1>2
<1>4. /\ isInt(v) <=> -a <= n /\ n < a
      /\ isUInt(v) <=> 0 <= n /\ n < 2 * a
      /\ isInt64(v) <=> n < c
      /\ isUInt64(v) <=> 0 <= n
      /\ isIntegral(v) /\ isNumeric(v) /\ CanDouble(v) /\ CanBool(v) /\ CanString(v)
  BY <1>1, <1>2, <1>3 DEF isInt, isUInt, isInt64, isUInt64, isIntegral, isNumeric, CanDouble, CanBool, CanString
<1>5. /\ asInt(v) = If(isInt(v), n) /\ asUInt(v) = If(isUInt(v), n)
      /\ asInt64(v) = If(isInt64(v), n) /\ asUInt64(v) = If(isUInt64(v), n)
  BY <1>2, <1>3, <1>4 DEF asInt, asUInt, asInt64, asUInt64, If
<1>7. Halves(v) = 2 * n
  BY <1>2 DEF Halves
<1>8. /\ isConvertibleTo(v, "int") <=> isInt(v)
      /\ isConvertibleTo(v, "uint") <=> isUInt(v)
      /\ isConvertibleTo(v, "real") /\ isConvertibleTo(v, "boolean") /\ isConvertibleTo(v, "string")
  BY <1>4 DEF isConvertibleTo
<1>9. isConvertibleTo(v, "null") => ~asBool(v)
  <2> SUFFICES ASSUME isConvertibleTo(v, "null") PROVE n = 0
    BY <1>2 DEF asBool
  <2>1. Double(n).halves = 0
    BY <1>2 DEF isConvertibleTo, asDouble, OfReal
  <2>2. Pow2(LargestBits) = 2 * c
    BY <1>1, WidthAssumption, PowType DEF maxLargestUInt
  <2>3. /\ n > 0 => Rounded(n) > 0 /\ Rounded(n) \in Nat
        /\ n < 0 => Rounded(-n) > 0 /\ Rounded(-n) \in Nat
    BY <1>3, <2>2, RoundedType
  <2>4. QED BY <2>1, <2>3 DEF Double, OfReal
<1>6. /\ isInt(v) => asInt(v).ok /\ asInt(v).n = n
      /\ asInt(v).ok => isInt(v) /\ asInt(v).n = n
  BY <1>5 DEF If, Gives, Throws
<1>10. /\ isUInt(v) => asUInt(v).ok /\ asUInt(v).n = n
       /\ asUInt(v).ok => isUInt(v) /\ asUInt(v).n = n
  BY <1>5 DEF If, Gives, Throws
<1>11. /\ isInt64(v) => asInt64(v).ok /\ asInt64(v).n = n
       /\ asInt64(v).ok => isInt64(v) /\ asInt64(v).n = n
  BY <1>5 DEF If, Gives, Throws
<1>16. /\ isUInt64(v) => asUInt64(v).ok /\ asUInt64(v).n = n
       /\ asUInt64(v).ok => isUInt64(v) /\ asUInt64(v).n = n
  BY <1>5 DEF If, Gives, Throws
<1>12. /\ asInt(v).ok <=> isConvertibleTo(v, "int")
       /\ asUInt(v).ok <=> isConvertibleTo(v, "uint")
  BY <1>6, <1>8, <1>10
<1>13. /\ asInt(v).ok => minInt <= asInt(v).n /\ asInt(v).n <= maxInt
       /\ asUInt(v).ok => 0 <= asUInt(v).n /\ asUInt(v).n <= maxUInt
       /\ asInt64(v).ok => minLargestInt <= asInt64(v).n /\ asInt64(v).n <= maxLargestInt + 1
       /\ asUInt64(v).ok => 0 <= asUInt64(v).n /\ asUInt64(v).n <= maxLargestUInt + 1
  BY <1>1, <1>3, <1>4, <1>6, <1>10, <1>11, <1>16
<1>14. (isInt(v) => isInt64(v)) /\ (isInt64(v) \/ isUInt64(v))
  BY <1>1, <1>3, <1>4
<1>15. QED BY <1>4, <1>6, <1>7, <1>8, <1>9, <1>10, <1>11, <1>12, <1>13, <1>14, <1>16 DEF ConversionsAgree

\* The same for reals.
LEMMA RealAgrees ==
  ASSUME NEW v, v.t = "real", v.kind \in {"finite", "infinite", "NaN"}, v.halves \in Int,
         v.kind = "infinite" => v.halves \in {-1, 1}
  PROVE  ConversionsAgree(v)
<1>1. PICK a \in Nat, c \in Nat :
        /\ a > 1 /\ c >= 2 * a
        /\ minInt = -a /\ maxInt = a - 1 /\ maxUInt = 2 * a - 1
        /\ minLargestInt = -c /\ maxLargestInt = c - 1 /\ maxLargestUInt = 2 * c - 1
        /\ Pow2(LargestBits + 4) \in Nat /\ Pow2(LargestBits + 4) > 4 * c
        /\ Double(minInt).halves = -2 * a /\ Double(maxInt).halves = 2 * (a - 1)
        /\ Double(maxUInt).halves = 2 * (2 * a - 1) /\ Double(0).halves = 0
        /\ Double(minLargestInt).halves = -2 * c
        /\ Double(maxLargestInt).halves \in {2 * (c - 1), 2 * c}
        /\ Double(maxLargestUInt).halves = 4 * c
  BY BoundsFact
<1>2. PICK h \in Int : h = v.halves
  OBVIOUS
<1>3. Extent(v) \in Int /\ (v.kind # "infinite" => Extent(v) = h) /\ (v.kind = "infinite" => Extent(v) > 4 * c \/ Extent(v) < -4 * c)
  BY <1>1, <1>2 DEF Extent
<1>4. PICK d \in Int : d = Double(maxLargestInt).halves /\ (d = 2 * (c - 1) \/ d = 2 * c)
  BY <1>1
<1>5. PICK k \in Int : k = Truncated(v) /\ (h % 2 = 0 => h = 2 * k) /\ \A m \in Nat : (-2 * m <= h => -m <= k) /\ (h <= 2 * m => k <= m) /\ (0 <= h => 0 <= k)
  BY <1>2 DEF Truncated
<1> DEFINE within(x, y) == v.kind = "finite" /\ x <= h /\ h <= y
<1>6. /\ InRange(v, minInt, maxInt) <=> within(-2 * a, 2 * (a - 1))
      /\ InRange(v, 0, maxUInt) <=> within(0, 2 * (2 * a - 1))
      /\ InRange(v, minLargestInt, maxLargestInt) <=> within(-2 * c, d)
      /\ InRange(v, 0, maxLargestUInt) <=> within(0, 4 * c)
      /\ InRange(v, minLargestInt, maxLargestUInt) <=> within(-2 * c, 4 * c)
  BY <1>1, <1>2, <1>3, <1>4 DEF InRange, Number
<1> HIDE DEF within
<1>7. IsIntegral(v) <=> v.kind = "finite" /\ h % 2 = 0
  BY <1>2 DEF IsIntegral
<1> DEFINE whole == h % 2 = 0
<1>8. /\ isInt(v) <=> within(-2 * a, 2 * (a - 1)) /\ whole
      /\ isUInt(v) <=> within(0, 2 * (2 * a - 1)) /\ whole
      /\ isInt64(v) <=> within(-2 * c, d) /\ whole /\ h < d
      /\ isUInt64(v) <=> within(0, 4 * c) /\ whole /\ h < 4 * c
      /\ isIntegral(v) <=> within(-2 * c, 4 * c) /\ whole /\ h < 4 * c
      /\ isNumeric(v) /\ CanDouble(v) /\ CanBool(v) /\ CanString(v)
  BY <1>1, <1>2, <1>4, <1>6, <1>7 DEF isInt, isUInt, isInt64, isUInt64, isIntegral, isNumeric, CanDouble, CanBool, CanString, within
<1>9. /\ asInt(v) = If(InRange(v, minInt, maxInt), k)
      /\ asUInt(v) = If(InRange(v, 0, maxUInt), k)
      /\ asInt64(v) = If(InRange(v, minLargestInt, maxLargestInt), k)
      /\ asUInt64(v) = If(InRange(v, 0, maxLargestUInt), k)
  BY <1>5 DEF asInt, asUInt, asInt64, asUInt64
<1>10. /\ within(-2 * a, 2 * (a - 1)) => asInt(v).ok /\ asInt(v).n = k
       /\ asInt(v).ok => within(-2 * a, 2 * (a - 1)) /\ asInt(v).n = k
  BY <1>6, <1>9 DEF If, Gives, Throws
<1>11. /\ within(0, 2 * (2 * a - 1)) => asUInt(v).ok /\ asUInt(v).n = k
       /\ asUInt(v).ok => within(0, 2 * (2 * a - 1)) /\ asUInt(v).n = k
  BY <1>6, <1>9 DEF If, Gives, Throws
<1>12. /\ within(-2 * c, d) => asInt64(v).ok /\ asInt64(v).n = k
       /\ asInt64(v).ok => within(-2 * c, d) /\ asInt64(v).n = k
  BY <1>6, <1>9 DEF If, Gives, Throws
<1>13. /\ within(0, 4 * c) => asUInt64(v).ok /\ asUInt64(v).n = k
       /\ asUInt64(v).ok => within(0, 4 * c) /\ asUInt64(v).n = k
  BY <1>6, <1>9 DEF If, Gives, Throws
<1>14. Halves(v) = h /\ (whole => h = 2 * k)
  BY <1>2, <1>5 DEF Halves
<1>15. /\ isConvertibleTo(v, "int") <=> within(-2 * a, 2 * (a - 1))
       /\ isConvertibleTo(v, "uint") <=> within(0, 2 * (2 * a - 1))
       /\ isConvertibleTo(v, "real") /\ isConvertibleTo(v, "boolean") /\ isConvertibleTo(v, "string")
  BY <1>6, <1>8 DEF isConvertibleTo
<1>16. isConvertibleTo(v, "null") => ~asBool(v)
  <2> SUFFICES ASSUME isConvertibleTo(v, "null") PROVE ~asBool(v)
    OBVIOUS
  <2>1. v = OfReal(0)
    BY DEF isConvertibleTo, asDouble
  <2>2. Extent(v) = 0
    BY <2>1 DEF Extent, OfReal
  <2>3. QED BY <2>2 DEF asBool
<1>17. /\ within(-2 * a, 2 * (a - 1)) => -a <= k /\ k <= a - 1
       /\ within(0, 2 * (2 * a - 1)) => 0 <= k /\ k <= 2 * a - 1
       /\ within(-2 * c, d) => -c <= k /\ k <= c
       /\ within(0, 4 * c) => 0 <= k /\ k <= 2 * c
  BY <1>1, <1>2, <1>4, <1>5 DEF within
<1>18. /\ within(-2 * a, 2 * (a - 1)) => within(-2 * c, d) /\ h < d
       /\ (within(-2 * c, d) /\ h < d) \/ (within(0, 4 * c) /\ h < 4 * c)
            <=> within(-2 * c, 4 * c) /\ h < 4 * c
  BY <1>1, <1>2, <1>4 DEF within
<1> HIDE DEF whole
<1>19. /\ asInt(v).ok <=> isConvertibleTo(v, "int")
       /\ asUInt(v).ok <=> isConvertibleTo(v, "uint")
  BY <1>10, <1>11, <1>15
<1>20. /\ isInt(v) => asInt(v).ok /\ 2 * asInt(v).n = Halves(v)
       /\ isUInt(v) => asUInt(v).ok /\ 2 * asUInt(v).n = Halves(v)
       /\ isInt64(v) => asInt64(v).ok /\ 2 * asInt64(v).n = Halves(v)
       /\ isUInt64(v) => asUInt64(v).ok /\ 2 * asUInt64(v).n = Halves(v)
  BY <1>8, <1>10, <1>11, <1>12, <1>13, <1>14
<1>21. /\ asInt(v).ok => minInt <= asInt(v).n /\ asInt(v).n <= maxInt
       /\ asUInt(v).ok => 0 <= asUInt(v).n /\ asUInt(v).n <= maxUInt
       /\ asInt64(v).ok => minLargestInt <= asInt64(v).n /\ asInt64(v).n <= maxLargestInt + 1
       /\ asUInt64(v).ok => 0 <= asUInt64(v).n /\ asUInt64(v).n <= maxLargestUInt + 1
  BY <1>1, <1>10, <1>11, <1>12, <1>13, <1>17
<1>22. (isInt(v) => isInt64(v)) /\ (isInt64(v) \/ isUInt64(v) <=> isIntegral(v))
  BY <1>8, <1>18
<1>23. QED BY <1>8, <1>15, <1>16, <1>19, <1>20, <1>21, <1>22 DEF ConversionsAgree

\* The same for the others.
LEMMA OtherAgrees ==
  ASSUME NEW v, v.t \in {"null", "string", "boolean", "array", "object"},
         v.t = "boolean" => v.b \in BOOLEAN
  PROVE  ConversionsAgree(v)
<1>1. PICK a \in Nat, c \in Nat :
        /\ a > 1 /\ c >= 2 * a
        /\ minInt = -a /\ maxInt = a - 1 /\ maxUInt = 2 * a - 1
        /\ minLargestInt = -c /\ maxLargestInt = c - 1 /\ maxLargestUInt = 2 * c - 1
  BY BoundsFact
<1>2. ~isInt(v) /\ ~isUInt(v) /\ ~isInt64(v) /\ ~isUInt64(v) /\ ~isIntegral(v) /\ ~isNumeric(v)
  BY DEF isInt, isUInt, isInt64, isUInt64, isIntegral, isNumeric
<1>3. CASE v.t \in {"null", "boolean"}
  <2>1. PICK n \in {0, 1} : n = IF v.t = "null" THEN 0 ELSE BoolInt(v)
    BY <1>3 DEF BoolInt
  <2>2. asInt(v) = Gives(n) /\ asUInt(v) = Gives(n) /\ asInt64(v) = Gives(n) /\ asUInt64(v) = Gives(n)
    BY <1>3, <2>1 DEF asInt, asUInt, asInt64, asUInt64
  <2>3. Gives(n).ok /\ Gives(n).n = n
    BY DEF Gives
  <2>4. /\ CanDouble(v) /\ CanBool(v) /\ CanString(v)
        /\ isConvertibleTo(v, "int") /\ isConvertibleTo(v, "uint") /\ isConvertibleTo(v, "real")
        /\ isConvertibleTo(v, "boolean")
        /\ isConvertibleTo(v, "string")
        /\ isConvertibleTo(v, "null") => ~asBool(v)
    BY <1>2, <1>3 DEF CanDouble, CanBool, CanString, isConvertibleTo, asBool
  <2>5. /\ minInt <= n /\ n <= maxInt /\ 0 <= n
        /\ minLargestInt <= n /\ n <= maxLargestInt /\ n <= maxUInt /\ n <= maxLargestUInt
    BY <1>1, <2>1
  <2>6. QED BY <1>1, <1>2, <2>2, <2>3, <2>4, <2>5 DEF ConversionsAgree
<1>4. CASE v.t \in {"string", "array", "object"}
  <2>1. asInt(v) = Throws /\ asUInt(v) = Throws /\ asInt64(v) = Throws /\ asUInt64(v) = Throws
    BY <1>4 DEF asInt, asUInt, asInt64, asUInt64
  <2>2. ~Throws.ok
    BY DEF Throws
  <2>3. /\ ~CanDouble(v) /\ ~CanBool(v) /\ (CanString(v) <=> v.t = "string")
        /\ ~isConvertibleTo(v, "int") /\ ~isConvertibleTo(v, "uint") /\ ~isConvertibleTo(v, "real")
        /\ ~isConvertibleTo(v, "boolean")
        /\ isConvertibleTo(v, "string") <=> v.t = "string"
    BY <1>2, <1>4 DEF CanDouble, CanBool, CanString, isConvertibleTo
  <2>4. QED BY <1>2, <2>1, <2>2, <2>3 DEF ConversionsAgree
<1>5. QED BY <1>3, <1>4

\* Of every value, of any type and at the limits of any two widths of integers and of
\* any mantissa between them: what the tests say of it is what the conversions do, and
\* what a conversion gives lies within its type.
THEOREM ValuesConvert ==
  ASSUME NEW v, IsValue(v)
  PROVE  ConversionsAgree(v)
<1>1. ToSet(Types) = {"null", "int", "uint", "real", "string", "boolean", "array", "object"}
  BY DEF ToSet, Types
<1>2. QED BY <1>1, IntAgrees, RealAgrees, OtherAgrees DEF IsValue

-----------------------------------------------------------------------------
(* Names *)

\* What BytesLess compares: b goes on, up to i, as a does, and at i a has ended or has
\* the smaller byte.
LessAt(a, b, i) ==
  /\ i \in 1 .. Len(b) /\ i <= Len(a) + 1
  /\ \A j \in 1 .. i - 1 : a[j] = b[j]
  /\ i <= Len(a) => a[i] < b[i]

\* Two texts begin with the same n bytes (memcmp, in CZString::operator<).
LEMMA SamePrefix ==
  ASSUME NEW a \in Seq(Nat), NEW b \in Seq(Nat), NEW n \in Nat, n <= Len(a), n <= Len(b)
  PROVE  SubSeq(a, 1, n) = SubSeq(b, 1, n) <=> \A j \in 1 .. n : a[j] = b[j]
<1>1. /\ SubSeq(a, 1, n) \in Seq(Nat) /\ Len(SubSeq(a, 1, n)) = n
      /\ \A j \in 1 .. n : SubSeq(a, 1, n)[j] = a[j]
  BY SubSeqProperties
<1>2. /\ SubSeq(b, 1, n) \in Seq(Nat) /\ Len(SubSeq(b, 1, n)) = n
      /\ \A j \in 1 .. n : SubSeq(b, 1, n)[j] = b[j]
  BY SubSeqProperties
<1>3. ASSUME \A j \in 1 .. n : a[j] = b[j] PROVE SubSeq(a, 1, n) = SubSeq(b, 1, n)
  <2>1. \A j \in 1 .. n : SubSeq(a, 1, n)[j] = SubSeq(b, 1, n)[j]
    BY <1>1, <1>2, <1>3
  <2>2. QED BY <1>1, <1>2, <2>1, SeqEqual
<1>4. ASSUME SubSeq(a, 1, n) = SubSeq(b, 1, n) PROVE \A j \in 1 .. n : a[j] = b[j]
  BY <1>1, <1>2, <1>4
<1>5. QED BY <1>3, <1>4

\* A text is the prefix of itself.
LEMMA WholePrefix == ASSUME NEW a \in Seq(Nat) PROVE SubSeq(a, 1, Len(a)) = a
<1>1. /\ SubSeq(a, 1, Len(a)) \in Seq(Nat) /\ Len(SubSeq(a, 1, Len(a))) = Len(a)
      /\ \A j \in 1 .. Len(a) : SubSeq(a, 1, Len(a))[j] = a[j]
  BY SubSeqProperties
<1>2. QED BY <1>1, SeqEqual

\* BytesLess (CZString::operator<) is decided at one position.
LEMMA BytesLessIs ==
  ASSUME NEW a \in Seq(Nat), NEW b \in Seq(Nat)
  PROVE  BytesLess(a, b) <=> \E i \in Nat : LessAt(a, b, i)
<1>1. ASSUME NEW i \in 1 .. Len(a), i <= Len(b), a[i] < b[i], SubSeq(a, 1, i - 1) = SubSeq(b, 1, i - 1)
      PROVE  LessAt(a, b, i)
  <2>1. i - 1 \in Nat /\ i - 1 <= Len(a) /\ i - 1 <= Len(b) /\ i \in 1 .. Len(b) /\ i <= Len(a) + 1
    BY <1>1
  <2>2. \A j \in 1 .. i - 1 : a[j] = b[j]
    BY <1>1, <2>1, SamePrefix
  <2>3. QED BY <1>1, <2>1, <2>2 DEF LessAt
<1>2. ASSUME Len(a) < Len(b), a = SubSeq(b, 1, Len(a))
      PROVE  LessAt(a, b, Len(a) + 1)
  <2>1. SubSeq(a, 1, Len(a)) = SubSeq(b, 1, Len(a))
    BY <1>2, WholePrefix
  <2>2. \A j \in 1 .. Len(a) : a[j] = b[j]
    BY <1>2, <2>1, SamePrefix
  <2>3. QED BY <1>2, <2>2 DEF LessAt
<1>3. ASSUME NEW i \in Nat, LessAt(a, b, i), i <= Len(a) PROVE BytesLess(a, b)
  <2>1. i \in 1 .. Len(a) /\ i <= Len(b) /\ a[i] < b[i] /\ \A j \in 1 .. i - 1 : a[j] = b[j]
    BY <1>3 DEF LessAt
  <2>2. SubSeq(a, 1, i - 1) = SubSeq(b, 1, i - 1)
    BY <2>1, SamePrefix
  <2>3. QED BY <2>1, <2>2 DEF BytesLess
<1>4. ASSUME NEW i \in Nat, LessAt(a, b, i), ~(i <= Len(a)) PROVE BytesLess(a, b)
  <2>1. Len(a) < Len(b) /\ \A j \in 1 .. Len(a) : a[j] = b[j]
    BY <1>4 DEF LessAt
  <2>2. SubSeq(a, 1, Len(a)) = SubSeq(b, 1, Len(a))
    BY <2>1, SamePrefix
  <2>3. QED BY <2>1, <2>2, WholePrefix DEF BytesLess
<1>5. ASSUME BytesLess(a, b) PROVE \E i \in Nat : LessAt(a, b, i)
  <2>1. Len(a) + 1 \in Nat /\ 1 .. Len(a) \subseteq Nat
    OBVIOUS
  <2>2. CASE \E i \in 1 .. Len(a) : /\ i <= Len(b) /\ a[i] < b[i]
                                    /\ SubSeq(a, 1, i - 1) = SubSeq(b, 1, i - 1)
    BY <1>1, <2>1, <2>2
  <2>3. CASE Len(a) < Len(b) /\ a = SubSeq(b, 1, Len(a))
    BY <1>2, <2>1, <2>3
  <2>4. QED BY <1>5, <2>2, <2>3 DEF BytesLess
<1>6. QED BY <1>3, <1>4, <1>5

\* A set of naturals has a least one.
LEMMA LeastOf ==
  ASSUME NEW T \in SUBSET Nat, T # {} PROVE \E x \in T : \A y \in T : x <= y
<1>1. PICK x \in T : \A y \in T : ~(<<y, x>> \in OpToRel(<, Nat))
  BY WFMin, NatLessThanWellFounded, Zenon
<1>2. \A y \in T : ~(y < x)
  BY <1>1 DEF OpToRel
<1>3. QED BY <1>2

\* CZString::operator< is a strict total order of names, whatever their bytes and
\* lengths: what std::map, in which an object keeps its members, asks of it.
THEOREM NamesOrdered ==
  \A a, b, c \in Seq(Nat) :
    /\ ~BytesLess(a, a)
    /\ ~(BytesLess(a, b) /\ BytesLess(b, a))
    /\ BytesLess(a, b) /\ BytesLess(b, c) => BytesLess(a, c)
    /\ a = b \/ BytesLess(a, b) \/ BytesLess(b, a)
<1> SUFFICES ASSUME NEW a \in Seq(Nat), NEW b \in Seq(Nat), NEW c \in Seq(Nat)
    PROVE  /\ ~BytesLess(a, a)
           /\ ~(BytesLess(a, b) /\ BytesLess(b, a))
           /\ BytesLess(a, b) /\ BytesLess(b, c) => BytesLess(a, c)
           /\ a = b \/ BytesLess(a, b) \/ BytesLess(b, a)
  OBVIOUS
<1>1. /\ Len(a) \in Nat /\ \A i \in 1 .. Len(a) : a[i] \in Nat
      /\ Len(b) \in Nat /\ \A i \in 1 .. Len(b) : b[i] \in Nat
      /\ Len(c) \in Nat /\ \A i \in 1 .. Len(c) : c[i] \in Nat
  OBVIOUS
<1>2. ~BytesLess(a, a)
  <2>1. \A i \in Nat : ~LessAt(a, a, i)
    BY <1>1 DEF LessAt
  <2>2. QED BY <2>1, BytesLessIs
<1>3. ~(BytesLess(a, b) /\ BytesLess(b, a))
  <2>1. ASSUME NEW i \in Nat, NEW k \in Nat, LessAt(a, b, i), LessAt(b, a, k) PROVE FALSE
    <3>1. /\ i \in 1 .. Len(b) /\ i <= Len(a) + 1 /\ (i <= Len(a) => a[i] < b[i])
          /\ k \in 1 .. Len(a) /\ k <= Len(b) + 1 /\ (k <= Len(b) => b[k] < a[k])
      BY <2>1 DEF LessAt
    <3>2. /\ \A j \in 1 .. i - 1 : a[j] = b[j]
          /\ \A j \in 1 .. k - 1 : b[j] = a[j]
      BY <2>1 DEF LessAt
    <3>3. CASE i < k
      <4>1. i \in 1 .. k - 1 /\ i \in 1 .. Len(a)
        BY <1>1, <3>1, <3>3
      <4>2. QED BY <1>1, <3>1, <3>2, <4>1
    <3>4. CASE k < i
      <4>1. k \in 1 .. i - 1 /\ k \in 1 .. Len(b)
        BY <1>1, <3>1, <3>4
      <4>2. QED BY <1>1, <3>1, <3>2, <4>1
    <3>5. CASE i = k
      BY <1>1, <3>1, <3>5
    <3>6. QED BY <3>3, <3>4, <3>5
  <2>2. QED BY <2>1, BytesLessIs
<1>4. ASSUME BytesLess(a, b), BytesLess(b, c) PROVE BytesLess(a, c)
  <2>1. PICK i \in Nat : LessAt(a, b, i)
    BY <1>4, BytesLessIs
  <2>2. PICK k \in Nat : LessAt(b, c, k)
    BY <1>4, BytesLessIs
  <2>3. /\ i \in 1 .. Len(b) /\ i <= Len(a) + 1 /\ (i <= Len(a) => a[i] < b[i])
        /\ k \in 1 .. Len(c) /\ k <= Len(b) + 1 /\ (k <= Len(b) => b[k] < c[k])
    BY <2>1, <2>2 DEF LessAt
  <2>4. /\ \A j \in 1 .. i - 1 : a[j] = b[j]
        /\ \A j \in 1 .. k - 1 : b[j] = c[j]
    BY <2>1, <2>2 DEF LessAt
  <2>5. CASE i <= k
    <3>1. i \in 1 .. Len(c) /\ i <= Len(a) + 1
      BY <1>1, <2>3, <2>5
    <3>2. \A j \in 1 .. i - 1 : a[j] = c[j]
      BY <1>1, <2>4, <2>5
    <3>3. ASSUME i <= Len(a) PROVE a[i] < c[i]
      <4>1. a[i] < b[i] /\ i \in 1 .. Len(a) /\ i \in 1 .. Len(b)
        BY <1>1, <2>3, <3>3
      <4>2. CASE i = k
        <5>1. b[i] < c[i]
          BY <2>3, <4>1, <4>2
        <5>2. a[i] \in Nat /\ b[i] \in Nat /\ c[i] \in Nat
          BY <1>1, <3>1, <4>1
        <5>3. QED BY <4>1, <5>1, <5>2
      <4>3. CASE i < k
        <5>1. i \in 1 .. k - 1
          BY <1>1, <2>3, <4>3
        <5>2. QED BY <2>4, <4>1, <5>1
      <4>4. QED BY <2>5, <4>2, <4>3
    <3>4. LessAt(a, c, i)
      BY <3>1, <3>2, <3>3 DEF LessAt
    <3>5. QED BY <3>4, BytesLessIs
  <2>6. CASE k < i
    <3>1. k \in 1 .. Len(c) /\ k \in 1 .. i - 1 /\ k <= Len(a) /\ k <= Len(b)
      BY <1>1, <2>3, <2>6
    <3>2. \A j \in 1 .. k - 1 : a[j] = c[j]
      BY <1>1, <2>4, <2>6
    <3>3. a[k] < c[k]
      BY <2>3, <2>4, <3>1
    <3>4. LessAt(a, c, k)
      BY <3>1, <3>2, <3>3 DEF LessAt
    <3>5. QED BY <3>4, BytesLessIs
  <2>7. QED BY <2>5, <2>6
<1>5. a = b \/ BytesLess(a, b) \/ BytesLess(b, a)
  <2> DEFINE T == {i \in 1 .. Len(a) : i <= Len(b) /\ a[i] # b[i]}
  <2>1. CASE T # {}
    <3>1. T \in SUBSET Nat
      OBVIOUS
    <3>2. PICK i \in T : \A j \in T : i <= j
      BY <2>1, <3>1, LeastOf
    <3>3. \A j \in 1 .. i - 1 : a[j] = b[j]
      <4>1. SUFFICES ASSUME NEW j \in 1 .. i - 1 PROVE a[j] = b[j]
        OBVIOUS
      <4>2. i \in 1 .. Len(a) /\ i <= Len(b)
        BY <3>2
      <4>3. j \in 1 .. Len(a) /\ j <= Len(b) /\ ~(i <= j)
        BY <1>1, <4>1, <4>2
      <4>4. j \notin T
        BY <3>2, <4>3
      <4>5. QED BY <4>3, <4>4
    <3>4. LessAt(a, b, i) \/ LessAt(b, a, i)
      BY <1>1, <3>2, <3>3 DEF LessAt
    <3>5. QED BY <3>2, <3>4, BytesLessIs
  <2>2. CASE T = {}
    <3>1. \A j \in 1 .. Len(a) : j <= Len(b) => a[j] = b[j]
      BY <2>2
    <3>2. CASE Len(a) = Len(b)
      BY <3>1, <3>2, SeqEqual
    <3>3. CASE Len(a) < Len(b)
      <4>1. LessAt(a, b, Len(a) + 1)
        BY <3>1, <3>3 DEF LessAt
      <4>2. QED BY <4>1, BytesLessIs
    <3>4. CASE Len(b) < Len(a)
      <4>1. LessAt(b, a, Len(b) + 1)
        BY <3>1, <3>4 DEF LessAt
      <4>2. QED BY <4>1, BytesLessIs
    <3>5. QED BY <3>2, <3>3, <3>4
  <2>3. QED BY <2>1, <2>2
<1>6. QED BY <1>2, <1>3, <1>4, <1>5
-----------------------------------------------------------------------------
(* The items of an array *)

\* The greatest of some numbers below n.
LEMMA MaxFact ==
  ASSUME NEW n \in Nat, NEW D, D \subseteq 0 .. n - 1, D # {}
  PROVE  Max(D) \in D /\ \A d \in D : d <= Max(D)
<1> DEFINE U == {u \in Nat : \A d \in D : d <= u}
<1>1. PICK x \in U : \A y \in U : ~(<<y, x>> \in OpToRel(<, Nat))
  <2>1. n \in U
    OBVIOUS
  <2>2. QED BY <2>1, WFMin, NatLessThanWellFounded, Zenon
<1>2. \A y \in U : ~(y < x)
  BY <1>1 DEF OpToRel
<1>3. x \in D
  <2>1. PICK d \in D : TRUE
    OBVIOUS
  <2>2. SUFFICES ASSUME x \notin D PROVE FALSE
    OBVIOUS
  <2>3. x # 0
    BY <2>1, <2>2
  <2>4. x - 1 \in U
    BY <2>2, <2>3
  <2>5. QED BY <1>2, <2>3, <2>4
<1>4. \E e \in D : \A d \in D : e >= d
  BY <1>3
<1>5. Max(D) \in D /\ \A d \in D : Max(D) >= d
  BY <1>4 DEF Max
<1>6. QED BY <1>5

\* What RemoveAt leaves of a sequence.
LEMMA RemoveAtFact ==
  ASSUME NEW S, NEW old \in Seq(S), NEW i \in 1 .. Len(old)
  PROVE  /\ RemoveAt(old, i) \in Seq(S)
         /\ Len(RemoveAt(old, i)) = Len(old) - 1
         /\ \A k \in 1 .. Len(old) - 1 : RemoveAt(old, i)[k] = IF k < i THEN old[k] ELSE old[k + 1]
<1> PICK s \in Nat : s = Len(old)
  BY LenProperties
<1>1. i \in 1 .. s /\ i \in Nat /\ \A k \in 1 .. s : old[k] \in S
  BY ElementOfSeq
<1> DEFINE p == SubSeq(old, 1, i - 1)
           q == SubSeq(old, i + 1, s)
<1>2. p \in Seq(S) /\ Len(p) = i - 1 /\ \A k \in 1 .. i - 1 : p[k] = old[k]
  <2>1. \A k \in 1 .. (i - 1) : old[k] \in S
    BY <1>1
  <2>2. /\ p \in Seq(S) /\ Len(p) = IF 1 <= i - 1 THEN ((i - 1) - 1) + 1 ELSE 0
        /\ \A k \in 1 .. ((i - 1) - 1) + 1 : p[k] = old[1 + (k - 1)]
    BY <1>1, <2>1, SubSeqProperties
  <2> HIDE DEF p
  <2>3. QED BY <1>1, <2>2
<1>3. q \in Seq(S) /\ Len(q) = s - i /\ \A k \in 1 .. s - i : q[k] = old[k + i]
  <2>1. \A k \in (i + 1) .. s : old[k] \in S
    BY <1>1
  <2>2. /\ q \in Seq(S) /\ Len(q) = IF i + 1 <= s THEN (s - (i + 1)) + 1 ELSE 0
        /\ \A k \in 1 .. (s - (i + 1)) + 1 : q[k] = old[(i + 1) + (k - 1)]
    BY <1>1, <2>1, SubSeqProperties
  <2> HIDE DEF q
  <2>3. QED BY <1>1, <2>2
<1>4. RemoveAt(old, i) = p \o q
  BY DEF RemoveAt
<1> HIDE DEF p, q
<1>5. p \o q \in Seq(S)
  BY <1>2, <1>3, ConcatProperties
<1>6. Len(p \o q) = s - 1
  <2>1. Len(p \o q) = Len(p) + Len(q)
    BY <1>2, <1>3, ConcatProperties
  <2>2. QED BY <1>1, <1>2, <1>3, <2>1
<1>7. ASSUME NEW k \in 1 .. s - 1 PROVE (p \o q)[k] = IF k < i THEN old[k] ELSE old[k + 1]
  <2>1. (p \o q)[k] = IF k <= Len(p) THEN p[k] ELSE q[k - Len(p)]
    BY <1>1, <1>2, <1>3, ConcatProperties
  <2>2. CASE k < i
    BY <1>1, <1>2, <2>1, <2>2
  <2>3. CASE ~(k < i)
    <3>1. (p \o q)[k] = q[k - (i - 1)]
      BY <1>1, <1>2, <2>1, <2>3
    <3>2. k - (i - 1) \in 1 .. s - i
      BY <1>1, <2>3
    <3>3. (k - (i - 1)) + i = k + 1
      BY <1>1
    <3>4. QED BY <1>3, <2>3, <3>1, <3>2, <3>3
  <2>4. QED BY <2>2, <2>3
<1>8. QED BY <1>4, <1>5, <1>6, <1>7
\* The size of an array: one more than its last index.
LEMMA SizeFact ==
  ASSUME NEW m, DOMAIN m \subseteq Indices
  PROVE  /\ size(Array(m)) \in 0 .. MaxSize
         /\ \A i \in DOMAIN m : i \in 0 .. size(Array(m)) - 1
         /\ size(Array(m)) > 0 => size(Array(m)) - 1 \in DOMAIN m
<1>1. Array(m).t = "array" /\ Array(m).m = m
  BY DEF Array
<1>2. size(Array(m)) = IF DOMAIN m = {} THEN 0 ELSE Max(DOMAIN m) + 1
  BY <1>1 DEF size
<1>3. CASE DOMAIN m = {}
  BY <1>2, <1>3, DocumentAssumption
<1>4. CASE DOMAIN m # {}
  <2>1. Max(DOMAIN m) \in DOMAIN m /\ \A d \in DOMAIN m : d <= Max(DOMAIN m)
    BY <1>4, MaxFact, DocumentAssumption DEF Indices
  <2>2. QED BY <1>2, <1>4, <2>1, DocumentAssumption DEF Indices
<1>5. QED BY <1>3, <1>4

\* It is the only such number.
LEMMA SizeIs ==
  ASSUME NEW m, DOMAIN m \subseteq Indices, NEW n \in Nat,
         \A i \in DOMAIN m : i < n, n > 0 => n - 1 \in DOMAIN m
  PROVE  size(Array(m)) = n
<1>1. PICK s \in 0 .. MaxSize : s = size(Array(m))
  BY SizeFact
<1>2. (\A i \in DOMAIN m : i \in 0 .. s - 1) /\ (s > 0 => s - 1 \in DOMAIN m)
  BY <1>1, SizeFact
<1>3. s = n
  BY <1>2, DocumentAssumption DEF Indices
<1>4. QED BY <1>1, <1>3

-----------------------------------------------------------------------------
(***************************************************************************)
(* The items of an array, whose map is m, and what the operations on the   *)
(* map make of them.                                                       *)
(***************************************************************************)

Listed(m) == [k \in 1 .. size(Array(m)) |-> IF k - 1 \in DOMAIN m THEN m[k - 1] ELSE Null]

\* They are the sequence to which the array is mapped.
LEMMA ItemsFact ==
  ASSUME NEW m, DOMAIN m \subseteq Indices
  PROVE  /\ ItemsOf(Array(m)) = Listed(m)
         /\ DOMAIN Listed(m) = 1 .. size(Array(m)) /\ Len(Listed(m)) = size(Array(m))
         /\ Listed(m) \in Seq({m[i] : i \in DOMAIN m} \cup {Null})
<1>1. \A i : Item(Array(m), i) = IF i \in DOMAIN m THEN m[i] ELSE Null
  BY DEF Item, Array, Has
<1>2. size(Array(m)) \in Nat
  BY SizeFact, DocumentAssumption
<1>3. Listed(m) \in Seq({m[i] : i \in DOMAIN m} \cup {Null})
  BY <1>2 DEF Listed
<1>4. DOMAIN Listed(m) = 1 .. size(Array(m)) /\ Len(Listed(m)) = size(Array(m))
  BY <1>2, <1>3, LenProperties DEF Listed
<1>5. ItemsOf(Array(m)) = [k \in 1 .. size(Array(m)) |-> Item(Array(m), k - 1)]
  BY DEF ItemsOf, Array
<1>6. QED BY <1>1, <1>3, <1>4, <1>5 DEF Listed

\* operator[] and an assignment to it.
SetAt(m, key, x) == [k \in DOMAIN m \cup {key} |-> IF k = key THEN x ELSE m[k]]

\* The array grows to hold the index, with nulls between.
LEMMA PutItems ==
  ASSUME NEW m, DOMAIN m \subseteq Indices, NEW i \in Indices, NEW x
  PROVE  LET old == Listed(m)
             n   == IF i + 1 > Len(old) THEN i + 1 ELSE Len(old)
         IN  /\ DOMAIN SetAt(m, i, x) \subseteq Indices
             /\ size(Array(SetAt(m, i, x))) = n
             /\ Listed(SetAt(m, i, x)) = [C!Padded(old, n) EXCEPT ![i + 1] = x]
<1> PICK s \in 0 .. MaxSize : s = size(Array(m))
  BY SizeFact
<1> DEFINE old == Listed(m)
           n   == IF i + 1 > s THEN i + 1 ELSE s
           new == SetAt(m, i, x)
<1>1. Len(old) = s /\ s \in Nat /\ i \in Nat
  <2>1. Len(old) = s
    BY ItemsFact, Zenon
  <2>2. QED BY <2>1, DocumentAssumption DEF Indices
<1>2. DOMAIN new = DOMAIN m \cup {i} /\ DOMAIN new \subseteq Indices
  BY DEF SetAt
<1>3. (\A k \in DOMAIN m : k \in 0 .. s - 1) /\ (s > 0 => s - 1 \in DOMAIN m)
  BY SizeFact
<1>4. size(Array(new)) = n
  <2>1. n \in Nat /\ (\A k \in DOMAIN new : k < n) /\ (n > 0 => n - 1 \in DOMAIN new)
    BY <1>1, <1>2, <1>3
  <2> HIDE DEF n, new
  <2>2. QED BY <1>2, <2>1, SizeIs
<1>5. Listed(new) = [k \in 1 .. n |-> IF k - 1 \in DOMAIN new THEN new[k - 1] ELSE Null]
  BY <1>4 DEF Listed
<1>6. C!Padded(old, n) = [k \in 1 .. n |-> IF k <= s THEN old[k] ELSE Null]
  BY <1>1 DEF C!Padded
<1>7. ASSUME NEW k \in 1 .. n
      PROVE  (IF k - 1 \in DOMAIN new THEN new[k - 1] ELSE Null)
               = IF k = i + 1 THEN x ELSE IF k <= s THEN old[k] ELSE Null
  <2>1. CASE k = i + 1
    BY <1>1, <2>1 DEF SetAt
  <2>2. CASE k # i + 1
    <3>1. k - 1 # i /\ k - 1 \in 0 .. n - 1
      BY <1>1, <2>2
    <3>2. (k - 1 \in DOMAIN new <=> k - 1 \in DOMAIN m) /\ (k - 1 \in DOMAIN m => new[k - 1] = m[k - 1])
      BY <3>1 DEF SetAt
    <3>3. k <= s => old[k] = IF k - 1 \in DOMAIN m THEN m[k - 1] ELSE Null
      BY <1>1 DEF Listed
    <3>4. k > s => k - 1 \notin DOMAIN m
      BY <1>1, <1>3
    <3>5. QED BY <1>1, <2>2, <3>2, <3>3, <3>4
  <2>3. QED BY <2>1, <2>2
<1>8. i + 1 \in 1 .. n
  BY <1>1
<1> HIDE DEF n, new, old
<1>9. Listed(new) = [C!Padded(old, n) EXCEPT ![i + 1] = x]
  BY <1>5, <1>6, <1>7, <1>8
<1>10. QED BY <1>1, <1>2, <1>4, <1>9 DEF n, new, old

\* resize to something smaller: the items behind go, and those in front that were
\* never put in.
LEMMA CutItems ==
  ASSUME NEW m, DOMAIN m \subseteq Indices, NEW n \in 0 .. size(Array(m))
  PROVE  LET new == [k \in DOMAIN m \ (n .. size(Array(m)) - 1) |-> m[k]]
             old == Listed(m)
         IN  /\ DOMAIN new \subseteq Indices
             /\ size(Array(new)) = n => Listed(new) = C!Padded(old, n)
             /\ Listed(new) \in C!Shorter(C!Padded(old, n))
<1> PICK s \in 0 .. MaxSize : s = size(Array(m))
  BY SizeFact
<1> DEFINE old == Listed(m)
           new == [k \in DOMAIN m \ (n .. s - 1) |-> m[k]]
           pad == C!Padded(old, n)
<1>1. Len(old) = s /\ s \in Nat /\ n \in Nat /\ n <= s
  <2>1. Len(old) = s
    BY ItemsFact, Zenon
  <2>2. QED BY <2>1, DocumentAssumption
<1>2. DOMAIN new \subseteq DOMAIN m /\ DOMAIN new \subseteq Indices
  OBVIOUS
<1>3. (\A k \in DOMAIN m : k \in 0 .. s - 1) /\ (s > 0 => s - 1 \in DOMAIN m)
  BY SizeFact
<1> PICK z \in 0 .. MaxSize : /\ z = size(Array(new))
                              /\ \A k \in DOMAIN new : k \in 0 .. z - 1
                              /\ z > 0 => z - 1 \in DOMAIN new
  BY <1>2, SizeFact
<1>4. \A k : k \in DOMAIN new <=> k \in DOMAIN m /\ k < n
  BY <1>1, <1>3
<1>5. z \in 0 .. n
  BY <1>1, <1>3, <1>4
<1>6. pad = [k \in 1 .. n |-> IF k - 1 \in DOMAIN m THEN m[k - 1] ELSE Null]
  BY <1>1 DEF C!Padded, Listed
<1>7. Len(pad) = n
  <2>1. pad \in Seq({m[i] : i \in DOMAIN m} \cup {Null}) /\ DOMAIN pad = 1 .. n
    BY <1>1, <1>6
  <2>2. QED BY <1>1, <2>1, LenProperties
<1>8. Listed(new) = [k \in 1 .. z |-> IF k <= Len(pad) THEN pad[k] ELSE Null]
  <2>1. Listed(new) = [k \in 1 .. z |-> IF k - 1 \in DOMAIN new THEN new[k - 1] ELSE Null]
    BY DEF Listed
  <2>2. \A k \in 1 .. z : k - 1 \in DOMAIN new <=> k - 1 \in DOMAIN m
    BY <1>4, <1>5
  <2>3. \A k \in 1 .. z : k - 1 \in DOMAIN new => new[k - 1] = m[k - 1]
    OBVIOUS
  <2> HIDE DEF new, pad
  <2>4. QED BY <1>1, <1>5, <1>6, <1>7, <2>1, <2>2, <2>3
<1>9. \A k \in z + 1 .. Len(pad) : pad[k] = Null
  <2>1. ASSUME NEW k \in z + 1 .. n, k - 1 \in DOMAIN m PROVE FALSE
    <3>1. k - 1 < n /\ ~(k - 1 \in 0 .. z - 1)
      BY <1>1, <1>5
    <3>2. k - 1 \in DOMAIN new
      BY <1>4, <2>1, <3>1
    <3> HIDE DEF new
    <3>3. QED BY <3>1, <3>2
  <2> HIDE DEF new, pad
  <2>2. QED BY <1>5, <1>6, <1>7, <2>1
<1> HIDE DEF new, pad
<1>10. Listed(new) \in C!Shorter(pad)
  BY <1>5, <1>7, <1>8, <1>9 DEF C!Shorter, C!Padded
<1>11. z = n => Listed(new) = pad
  BY <1>1, <1>6, <1>7, <1>8
<1>12. QED BY <1>2, <1>10, <1>11 DEF new, pad

\* removeIndex: the items above move down by one, and what is left at the end without
\* having been put in goes.
Shifted(m, i) ==
  [k \in {k \in DOMAIN m : k < i} \cup (i .. size(Array(m)) - 2) |->
     IF k < i THEN m[k] ELSE IF k + 1 \in DOMAIN m THEN m[k + 1] ELSE Null]

LEMMA RemoveItems ==
  ASSUME NEW m, DOMAIN m \subseteq Indices, NEW i \in DOMAIN m
  PROVE  LET old == Listed(m)
         IN  /\ DOMAIN Shifted(m, i) \subseteq Indices
             /\ i + 1 \in DOMAIN old /\ old[i + 1] = m[i]
             /\ Listed(Shifted(m, i)) \in C!Shorter(C!RemoveAt(old, i + 1))
<1> PICK s \in 0 .. MaxSize : s = size(Array(m))
  BY SizeFact
<1> DEFINE old == Listed(m)
           new == Shifted(m, i)
           rest == C!RemoveAt(old, i + 1)
<1>1. Len(old) = s /\ old \in Seq({m[k] : k \in DOMAIN m} \cup {Null}) /\ s \in Nat /\ i \in Nat
  <2>1. Len(old) = s /\ old \in Seq({m[k] : k \in DOMAIN m} \cup {Null})
    BY ItemsFact, Zenon
  <2>2. QED BY <2>1, DocumentAssumption DEF Indices
<1>2. (\A k \in DOMAIN m : k \in 0 .. s - 1) /\ (s > 0 => s - 1 \in DOMAIN m)
  BY SizeFact
<1>3. i \in 0 .. s - 1 /\ s - 1 \in Nat
  BY <1>1, <1>2
<1>4. \A k \in 1 .. s : old[k] = IF k - 1 \in DOMAIN m THEN m[k - 1] ELSE Null
  BY DEF Listed
<1>5. i + 1 \in DOMAIN old /\ old[i + 1] = m[i]
  BY <1>3, <1>4 DEF Listed
<1>6. DOMAIN new = {k \in DOMAIN m : k < i} \cup (i .. s - 2) /\ DOMAIN new \subseteq Indices
  BY <1>3, DocumentAssumption DEF Shifted, Indices
<1> HIDE DEF old, new
<1>7. /\ Len(rest) = s - 1
      /\ \A k \in 1 .. s - 1 : rest[k] = IF k <= i THEN old[k] ELSE old[k + 1]
  <2>1. i + 1 \in 1 .. Len(old)
    BY <1>1, <1>3
  <2>2. rest = RemoveAt(old, i + 1)
    BY DEF C!RemoveAt, RemoveAt
  <2> HIDE DEF rest
  <2>3. /\ Len(rest) = s - 1
        /\ \A k \in 1 .. s - 1 : rest[k] = IF k < i + 1 THEN old[k] ELSE old[k + 1]
    BY <1>1, <2>1, <2>2, RemoveAtFact
  <2>4. QED BY <1>1, <2>3
<1> HIDE DEF rest
<1> PICK z \in 0 .. MaxSize : /\ z = size(Array(new))
                              /\ \A k \in DOMAIN new : k \in 0 .. z - 1
                              /\ z > 0 => z - 1 \in DOMAIN new
  BY <1>6, SizeFact
<1>8. \A k \in DOMAIN new :
        new[k] = IF k < i THEN m[k] ELSE IF k + 1 \in DOMAIN m THEN m[k + 1] ELSE Null
  BY DEF new, Shifted
<1>9. Listed(new) = [k \in 1 .. z |-> IF k - 1 \in DOMAIN new THEN new[k - 1] ELSE Null]
  BY DEF Listed
<1> HIDE DEF new
<1>10. z \in 0 .. s - 1
  <2>1. z > 0 => z - 1 <= s - 2
    BY <1>1, <1>3, <1>6
  <2>2. QED BY <1>3, <2>1
<1>11. ASSUME NEW k \in 1 .. s - 1
       PROVE  rest[k] = IF k - 1 \in DOMAIN new THEN new[k - 1] ELSE Null
  <2>1. CASE k <= i
    <3>1. rest[k] = old[k] /\ k \in 1 .. s
      BY <1>3, <1>7, <2>1
    <3>2. k - 1 \in DOMAIN new <=> k - 1 \in DOMAIN m
      BY <1>1, <1>6, <2>1
    <3>3. k - 1 \in DOMAIN new => new[k - 1] = m[k - 1]
      BY <1>1, <1>8, <2>1
    <3>4. QED BY <1>4, <3>1, <3>2, <3>3
  <2>2. CASE k > i
    <3>1. rest[k] = old[k + 1] /\ k + 1 \in 1 .. s
      BY <1>1, <1>3, <1>7, <2>2
    <3>2. k - 1 \in DOMAIN new
      BY <1>1, <1>3, <1>6, <2>2
    <3>3. new[k - 1] = IF k \in DOMAIN m THEN m[k] ELSE Null
      BY <1>1, <1>8, <2>2, <3>2
    <3>4. QED BY <1>4, <3>1, <3>2, <3>3
  <2>3. QED BY <1>1, <2>1, <2>2
<1>12. Listed(new) = C!Padded(rest, z)
  BY <1>3, <1>7, <1>9, <1>10, <1>11 DEF C!Padded
<1>13. \A k \in z + 1 .. Len(rest) : rest[k] = Null
  <2>1. ASSUME NEW k \in z + 1 .. s - 1 PROVE rest[k] = Null
    <3>1. k - 1 \notin DOMAIN new
      BY <1>10
    <3>2. k \in 1 .. s - 1
      BY <1>10
    <3>3. QED BY <1>11, <3>1, <3>2
  <2>2. QED BY <1>7, <2>1
<1>14. Listed(new) \in C!Shorter(rest)
  BY <1>7, <1>10, <1>12, <1>13 DEF C!Shorter
<1>15. QED BY <1>5, <1>6, <1>14 DEF new, old, rest

-----------------------------------------------------------------------------
(* A value as a map. *)

Body(v) == IF v.t = "array" THEN v.m ELSE Empty

\* An array, an object and null, as containers.
LEMMA KindFact ==
  ASSUME NEW m
  PROVE  /\ Array(m).t = "array" /\ Array(m).m = m
         /\ KindOf(Array(m)) = "array" /\ MembersOf(Array(m)) = Empty
         /\ Object(m).t = "object" /\ Object(m).m = m /\ KindOf(Object(m)) = "object"
         /\ ItemsOf(Object(m)) = <<>> /\ MembersOf(Object(m)) = m
         /\ Null.t = "null" /\ KindOf(Null) = "null" /\ ItemsOf(Null) = <<>> /\ MembersOf(Null) = Empty
BY DEF Array, Object, Null, KindOf, MembersOf, ItemsOf

\* What clear and a first use make.
LEMMA FreshFact == Fresh("array") = Array(Empty) /\ Fresh("object") = Object(Empty)
BY DEF Fresh

\* The map of nothing.
LEMMA EmptyFact ==
  /\ DOMAIN Empty = {} /\ size(Array(Empty)) = 0 /\ Listed(Empty) = <<>>
  /\ Empty = [n \in {} |-> Null]
<1>1. DOMAIN Empty = {} /\ Empty = [n \in {} |-> Null]
  BY DEF Empty
<1>2. size(Array(Empty)) = 0
  BY <1>1, KindFact DEF size
<1>3. QED BY <1>1, <1>2 DEF Listed

\* A value that acts as an array.
LEMMA ActsAsArray ==
  ASSUME NEW v, IsDocument(v), ActsAs(v, "array")
  PROVE  /\ KindOf(v) \in {"null", "array"} /\ MembersOf(v) = Empty
         /\ Become(v, "array") = Array(Body(v)) /\ DOMAIN Body(v) \subseteq Indices
         /\ ItemsOf(v) = Listed(Body(v)) /\ size(v) = size(Array(Body(v)))
<1>1. CASE v.t = "array"
  <2>1. v = Array(v.m) /\ DOMAIN v.m \subseteq Indices /\ Body(v) = v.m
    BY <1>1 DEF IsDocument, Body
  <2>2. Become(v, "array") = v
    BY <1>1 DEF Become
  <2>3. ItemsOf(Array(v.m)) = Listed(v.m)
    BY <2>1, ItemsFact
  <2>4. QED BY <1>1, <2>1, <2>2, <2>3 DEF KindOf, MembersOf
<1>2. CASE v.t = "null"
  <2>1. v = Null /\ Body(v) = Empty
    BY <1>2 DEF IsDocument, Body
  <2>2. Become(v, "array") = Array(Empty)
    BY <1>2, FreshFact DEF Become
  <2>3. size(v) = 0
    BY <1>2 DEF size
  <2>4. QED BY <2>1, <2>2, <2>3, KindFact, EmptyFact
<1>3. QED BY <1>1, <1>2 DEF ActsAs

\* What is put in with operator[].
LEMMA WithFact ==
  ASSUME NEW m, NEW key, NEW x
  PROVE  /\ With(Array(m), key, x) = Array(SetAt(m, key, x))
         /\ With(Object(m), key, x) = Object(SetAt(m, key, x))
         /\ SetAt(SetAt(m, key, Null), key, x) = SetAt(m, key, x)
<1>1. With(Array(m), key, x) = Array(SetAt(m, key, x))
  BY DEF With, Array, SetAt
<1>2. With(Object(m), key, x) = Object(SetAt(m, key, x))
  BY DEF With, Object, SetAt
<1>3. SetAt(SetAt(m, key, Null), key, x) = SetAt(m, key, x)
  BY DEF SetAt
<1>4. QED BY <1>1, <1>2, <1>3

\* operator[], and an assignment to it, whether the index was there or not.
LEMMA AtFact ==
  ASSUME NEW v, IsDocument(v), ActsAs(v, "array"), NEW i, NEW x
  PROVE  /\ i \notin DOMAIN Body(v) => At(v, i) = Array(SetAt(Body(v), i, Null))
         /\ With(At(v, i), i, x) = Array(SetAt(Body(v), i, x))
<1>1. Become(v, "array") = Array(Body(v))
  BY ActsAsArray
<1>2. Has(Array(Body(v)), i) <=> i \in DOMAIN Body(v)
  BY KindFact DEF Has
<1>3. i \notin DOMAIN Body(v) => At(v, i) = Array(SetAt(Body(v), i, Null))
  BY <1>1, <1>2, WithFact DEF At
<1>4. i \in DOMAIN Body(v) => At(v, i) = Array(Body(v))
  BY <1>1, <1>2 DEF At
<1>5. CASE i \in DOMAIN Body(v)
  BY <1>4, <1>5, WithFact
<1>6. CASE i \notin DOMAIN Body(v)
  BY <1>3, <1>6, WithFact
<1>7. QED BY <1>3, <1>5, <1>6

\* An array of items is a document.
LEMMA ArrayIs ==
  ASSUME NEW m, DOMAIN m \subseteq Indices
  PROVE  IsDocument(Array(m))
BY KindFact DEF IsDocument

\* An item that is there, and one that is not.
LEMMA SomethingThere ==
  ASSUME NEW v, IsDocument(v), NEW i \in Indices, v.t = "array", Has(v, i)
  PROVE  i + 1 \in DOMAIN ItemsOf(v) /\ ItemsOf(v)[i + 1] = v.m[i]
<1>1. v = Array(v.m) /\ DOMAIN v.m \subseteq Indices /\ i \in DOMAIN v.m
  BY DEF IsDocument, Has
<1>2. i + 1 \in DOMAIN Listed(v.m) /\ Listed(v.m)[i + 1] = v.m[i]
  BY <1>1, RemoveItems
<1>3. ItemsOf(v) = Listed(v.m)
  BY <1>1, ItemsFact
<1>4. QED BY <1>2, <1>3

\* No item, or one that was never put in.
LEMMA NothingThere ==
  ASSUME NEW v, IsDocument(v), NEW i \in Indices, ~(v.t = "array" /\ Has(v, i))
  PROVE  i + 1 \in DOMAIN ItemsOf(v) => ItemsOf(v)[i + 1] = Null
<1>1. CASE v.t = "array"
  <2>1. v = Array(v.m) /\ DOMAIN v.m \subseteq Indices /\ i \notin DOMAIN v.m
    BY <1>1 DEF IsDocument, Has
  <2>2. ItemsOf(v) = Listed(v.m)
    BY <2>1, ItemsFact
  <2>3. (i + 1) - 1 = i
    BY DocumentAssumption DEF Indices
  <2>4. i + 1 \in DOMAIN Listed(v.m) => Listed(v.m)[i + 1] = Null
    BY <2>1, <2>3 DEF Listed
  <2>5. QED BY <2>2, <2>4
<1>2. CASE v.t # "array"
  BY <1>2 DEF ItemsOf
<1>3. QED BY <1>1, <1>2

-----------------------------------------------------------------------------
(* The operations on arrays. *)

\* PutItem, and AppendItem by way of it.
LEMMA PutStep ==
  ASSUME IsDocument(doc), ActsAs(doc, "array"), NEW i \in Indices, NEW x \in Puts,
         Done(With(At(doc, i), i, x))
  PROVE  IsDocument(doc') /\ C!Next
<1> DEFINE old == Listed(Body(doc))
           n   == IF i + 1 > Len(old) THEN i + 1 ELSE Len(old)
<1>1. doc' = Array(SetAt(Body(doc), i, x)) /\ result' = <<"done">>
  BY AtFact DEF Done
<1>2. /\ KindOf(doc) \in {"null", "array"} /\ MembersOf(doc) = Empty
      /\ ItemsOf(doc) = old /\ DOMAIN Body(doc) \subseteq Indices
  BY ActsAsArray
<1>3. /\ DOMAIN SetAt(Body(doc), i, x) \subseteq Indices
      /\ Listed(SetAt(Body(doc), i, x)) = [C!Padded(old, n) EXCEPT ![i + 1] = x]
  BY <1>2, PutItems
<1>4. KindOf(doc') = "array" /\ MembersOf(doc') = Empty
  BY <1>1, KindFact
<1>5. ItemsOf(doc') = [C!Padded(old, n) EXCEPT ![i + 1] = x]
  BY <1>1, <1>3, ItemsFact
<1>6. C!Put(i + 1, x)
  BY <1>1, <1>2, <1>4, <1>5 DEF C!Put, C!AsArray
<1>7. i + 1 \in 1 .. MaxSize
  BY DocumentAssumption DEF Indices
<1>8. IsDocument(doc')
  BY <1>1, <1>3, ArrayIs
<1>9. QED BY <1>6, <1>7, <1>8 DEF C!Next

\* append puts in behind the last item.
LEMMA AppendStep ==
  ASSUME IsDocument(doc), NEW x \in Puts, AppendItem(x)
  PROVE  IsDocument(doc') /\ C!Next
<1>1. ActsAs(doc, "array") /\ size(doc) < MaxSize /\ Done(With(At(doc, size(doc)), size(doc), x))
  BY DEF AppendItem, append
<1>2. size(doc) = size(Array(Body(doc))) /\ DOMAIN Body(doc) \subseteq Indices
  BY <1>1, ActsAsArray
<1>3. size(doc) \in Indices
  BY <1>1, <1>2, SizeFact, DocumentAssumption DEF Indices
<1>4. QED BY <1>1, <1>3, PutStep

\* resize clears, puts in a last item, or cuts.
LEMMA ResizeStep ==
  ASSUME IsDocument(doc), NEW n \in 0 .. MaxSize, Resize(n)
  PROVE  IsDocument(doc') /\ C!Next
<1> DEFINE b   == Body(doc)
           old == Listed(b)
<1>1. /\ ActsAs(doc, "array")
      /\ doc' = resize(doc, n)
      /\ result' = IF size(doc') = n THEN <<"done">> ELSE <<"thrown">>
  BY DEF Resize
<1>2. /\ KindOf(doc) \in {"null", "array"} /\ MembersOf(doc) = Empty
      /\ ItemsOf(doc) = old /\ DOMAIN b \subseteq Indices
      /\ size(doc) = size(Array(b)) /\ Become(doc, "array") = Array(b)
  BY <1>1, ActsAsArray
<1> PICK s \in 0 .. MaxSize : /\ s = size(Array(b)) /\ \A k \in DOMAIN b : k \in 0 .. s - 1
  BY <1>2, SizeFact
<1>3. Len(old) = s
  BY <1>2, ItemsFact
<1>4. SUFFICES \E m : /\ doc' = Array(m) /\ DOMAIN m \subseteq Indices
                      /\ \/ size(Array(m)) = n /\ Listed(m) = C!Padded(old, n)
                         \/ size(Array(m)) # n /\ Listed(m) \in C!Shorter(C!Padded(old, n))
  <2> PICK m : /\ doc' = Array(m) /\ DOMAIN m \subseteq Indices
               /\ \/ size(Array(m)) = n /\ Listed(m) = C!Padded(old, n)
                  \/ size(Array(m)) # n /\ Listed(m) \in C!Shorter(C!Padded(old, n))
    BY <1>4
  <2>1. KindOf(doc') = "array" /\ MembersOf(doc') = Empty /\ ItemsOf(doc') = Listed(m)
    BY KindFact, ItemsFact
  <2>2. C!Resize(n)
    BY <1>1, <1>2, <2>1 DEF C!Resize, C!AsArray
  <2>3. QED BY <2>2, ArrayIs DEF C!Next
<1>5. CASE n = 0
  <2>1. doc' = Array(Empty)
    <3>1. doc' = clear(Array(b))
      BY <1>1, <1>2, <1>5 DEF resize
    <3>2. QED BY <3>1, KindFact, FreshFact DEF clear
  <2>2. C!Padded(old, n) = <<>>
    BY <1>5 DEF C!Padded
  <2>3. QED BY <1>5, <2>1, <2>2, EmptyFact
<1>6. CASE n > s
  <2>1. n - 1 \in Indices /\ n - 1 \notin DOMAIN b /\ n > 0
    BY <1>6, DocumentAssumption DEF Indices
  <2>2. doc' = At(doc, n - 1)
    BY <1>1, <1>2, <1>6, <2>1 DEF resize
  <2>3. doc' = Array(SetAt(b, n - 1, Null))
    BY <1>1, <2>1, <2>2, AtFact
  <2>4. (n - 1) + 1 = n /\ (n - 1) + 1 > Len(old)
    BY <1>3, <1>6, DocumentAssumption
  <2>5. /\ DOMAIN SetAt(b, n - 1, Null) \subseteq Indices
        /\ size(Array(SetAt(b, n - 1, Null))) = n
        /\ Listed(SetAt(b, n - 1, Null)) = [C!Padded(old, n) EXCEPT ![n] = Null]
    BY <1>2, <2>1, <2>4, PutItems
  <2>6. [C!Padded(old, n) EXCEPT ![n] = Null] = C!Padded(old, n)
    BY <1>3, <1>6, DocumentAssumption DEF C!Padded
  <2>7. QED BY <2>3, <2>5, <2>6
<1>7. CASE n # 0 /\ n <= s
  <2> DEFINE m == [k \in DOMAIN b \ (n .. s - 1) |-> b[k]]
  <2>1. doc' = Without(doc, n .. s - 1)
    BY <1>1, <1>2, <1>7, DocumentAssumption DEF resize
  <2>2. doc.t = "array" /\ doc = Array(b)
    <3>1. doc.t # "null"
      <4>1. SUFFICES ASSUME doc.t = "null" PROVE FALSE
        OBVIOUS
      <4>2. size(doc) = 0
        BY <4>1 DEF size
      <4>3. QED BY <1>2, <1>7, <4>2, DocumentAssumption
    <3>2. QED BY <1>1, <3>1 DEF ActsAs, IsDocument, Body
  <2>3. doc' = Array(m)
    BY <2>1, <2>2 DEF Without, Array
  <2>4. n \in 0 .. size(Array(b))
    BY <1>7, DocumentAssumption
  <2>5. /\ DOMAIN m \subseteq Indices
        /\ size(Array(m)) = n => Listed(m) = C!Padded(old, n)
        /\ Listed(m) \in C!Shorter(C!Padded(old, n))
    BY <1>2, <2>4, CutItems
  <2> HIDE DEF m
  <2>6. QED BY <2>3, <2>5
<1>8. QED BY <1>5, <1>6, <1>7, DocumentAssumption

\* removeIndex, or its refusal.
LEMMA RemoveStep ==
  ASSUME IsDocument(doc), NEW i \in Indices, RemoveIndex(i)
  PROVE  IsDocument(doc') /\ C!Next
<1>1. i + 1 \in 1 .. MaxSize
  BY DocumentAssumption DEF Indices
<1>2. CASE doc.t = "array" /\ Has(doc, i)
  <2> DEFINE m == doc.m
             old == Listed(m)
  <2>1. doc = Array(m) /\ DOMAIN m \subseteq Indices /\ i \in DOMAIN m
    BY <1>2 DEF IsDocument, Has
  <2>2. doc' = removeIndex(doc, i) /\ result' = <<"removed", m[i]>>
    BY <1>2 DEF RemoveIndex
  <2>3. \A k : Item(doc, k) = IF k \in DOMAIN m THEN m[k] ELSE Null
    BY <1>2 DEF Item, Has
  <2>4. removeIndex(doc, i) = Array(Shifted(m, i))
    <3> PICK s \in 0 .. MaxSize : s = size(doc) /\ s = size(Array(m))
      BY <2>1, SizeFact
    <3>1. (s - 1) - 1 = s - 2
      BY DocumentAssumption
    <3>2. [k \in {k \in DOMAIN m : k < i} \cup (i .. (s - 1) - 1) |->
             IF k < i THEN m[k] ELSE Item(doc, k + 1)]
            = Shifted(m, i)
      BY <2>3, <3>1 DEF Shifted
    <3>3. removeIndex(doc, i) = [doc EXCEPT !.m = Shifted(m, i)]
      BY <3>2 DEF removeIndex
    <3>4. QED BY <2>1, <3>3 DEF Array
  <2>5. /\ DOMAIN Shifted(m, i) \subseteq Indices
        /\ i + 1 \in DOMAIN old /\ old[i + 1] = m[i]
        /\ Listed(Shifted(m, i)) \in C!Shorter(C!RemoveAt(old, i + 1))
    BY <2>1, RemoveItems
  <2>6. /\ KindOf(doc) = "array" /\ MembersOf(doc) = Empty /\ ItemsOf(doc) = old
        /\ KindOf(doc') = "array" /\ MembersOf(doc') = Empty /\ ItemsOf(doc') = Listed(Shifted(m, i))
    <3>1. doc' = Array(Shifted(m, i))
      BY <2>2, <2>4
    <3> HIDE DEF m
    <3>2. KindOf(doc) = "array" /\ MembersOf(doc) = Empty /\ ItemsOf(doc) = old
      BY <2>1, KindFact, ItemsFact
    <3>3. KindOf(doc') = "array" /\ MembersOf(doc') = Empty
      BY <3>1, KindFact
    <3>4. ItemsOf(doc') = Listed(Shifted(m, i))
      BY <2>5, <3>1, ItemsFact
    <3>5. QED BY <3>2, <3>3, <3>4
  <2> HIDE DEF old
  <2>7. C!RemoveItem(i + 1)
    BY <2>2, <2>5, <2>6 DEF C!RemoveItem
  <2>8. QED BY <1>1, <2>2, <2>4, <2>5, <2>7, ArrayIs DEF C!Next
<1>3. CASE ~(doc.t = "array" /\ Has(doc, i))
  <2>1. doc' = doc /\ result' = <<"none">>
    BY <1>3 DEF RemoveIndex, Answer
  <2>2. ASSUME i + 1 \in DOMAIN ItemsOf(doc) PROVE ItemsOf(doc)[i + 1] = Null
    BY <1>3, <2>2, NothingThere
  <2>3. C!RemoveNothing(i + 1)
    BY <2>1, <2>2 DEF C!RemoveNothing
  <2>4. QED BY <1>1, <2>1, <2>3 DEF C!Next
<1>4. QED BY <1>2, <1>3

\* get finds what is there, and the default elsewhere.
LEMMA GetStep ==
  ASSUME IsDocument(doc), NEW i \in Indices, NEW x \in Puts, GetAt(i, x)
  PROVE  IsDocument(doc') /\ C!Next
<1>1. i + 1 \in 1 .. MaxSize
  BY DocumentAssumption DEF Indices
<1>2. doc' = doc /\ result' = <<"found", GetItem(doc, i, x)>>
  BY DEF GetAt, Answer
<1>3. C!Get(i + 1, x)
  <2>1. CASE doc.t = "array" /\ Has(doc, i)
    <3>1. i + 1 \in DOMAIN ItemsOf(doc) /\ ItemsOf(doc)[i + 1] = GetItem(doc, i, x)
      BY <2>1, SomethingThere DEF GetItem
    <3>2. QED BY <1>2, <3>1 DEF C!Get
  <2>2. CASE ~(doc.t = "array" /\ Has(doc, i))
    <3>1. i + 1 \in DOMAIN ItemsOf(doc) => ItemsOf(doc)[i + 1] = Null
      BY <2>2, NothingThere
    <3>2. GetItem(doc, i, x) = x
      BY <2>2 DEF GetItem
    <3>3. QED BY <1>2, <3>1, <3>2 DEF C!Get
  <2>3. QED BY <2>1, <2>2
<1>4. QED BY <1>1, <1>2, <1>3 DEF C!Next

-----------------------------------------------------------------------------
(* The operations on objects. *)

\* A value that acts as an object.
LEMMA ActsAsObject ==
  ASSUME NEW v, IsDocument(v), ActsAs(v, "object")
  PROVE  /\ KindOf(v) \in {"null", "object"} /\ ItemsOf(v) = <<>>
         /\ Become(v, "object") = Object(MembersOf(v))
<1>1. CASE v.t = "object"
  <2>1. v = Object(MembersOf(v)) /\ Become(v, "object") = v
    BY <1>1, KindFact DEF IsDocument, MembersOf, Become
  <2>2. KindOf(v) = "object" /\ ItemsOf(v) = <<>>
    BY <1>1 DEF KindOf, ItemsOf
  <2>3. QED BY <2>1, <2>2
<1>2. CASE v.t = "null"
  BY <1>2, FreshFact DEF IsDocument, KindOf, ItemsOf, MembersOf, Become
<1>3. QED BY <1>1, <1>2 DEF ActsAs

\* An object of members is a document.
LEMMA ObjectIs ==
  ASSUME NEW m, m = [name \in DOMAIN m |-> m[name]]
  PROVE  IsDocument(Object(m))
BY KindFact DEF IsDocument

\* To remove what is not there changes nothing.
LEMMA NotThere ==
  ASSUME NEW v, IsDocument(v), NEW name, ~isMember(v, name)
  PROVE  removeMember(v, name) = v
<1>1. CASE v.t = "object"
  <2>1. v = Object([n \in DOMAIN v.m |-> v.m[n]]) /\ name \notin DOMAIN v.m
    BY <1>1 DEF IsDocument, isMember, Has
  <2>2. v.m = [n \in DOMAIN v.m \ {name} |-> v.m[n]]
    <3>1. Object([n \in DOMAIN v.m |-> v.m[n]]).m = [n \in DOMAIN v.m |-> v.m[n]]
      BY KindFact
    <3>2. DOMAIN v.m \ {name} = DOMAIN v.m
      BY <2>1
    <3>3. QED BY <2>1, <3>1, <3>2
  <2>3. removeMember(v, name) = [v EXCEPT !.m = v.m]
    BY <1>1, <2>2 DEF removeMember, Without
  <2>4. [v EXCEPT !.m = v.m] = v
    BY <2>1 DEF Object
  <2>5. QED BY <2>3, <2>4
<1>2. CASE v.t # "object"
  BY <1>2 DEF removeMember
<1>3. QED BY <1>1, <1>2

\* operator[] of a name, and an assignment to it.
LEMMA SetStep ==
  ASSUME IsDocument(doc), NEW name \in Names, NEW x \in Puts, PutMember(name, x)
  PROVE  IsDocument(doc') /\ C!Next
<1> DEFINE m == MembersOf(doc)
           o == Object(m)
<1>1. ActsAs(doc, "object") /\ doc' = With(Member(doc, name), name, x) /\ result' = <<"done">>
  BY DEF PutMember, Done
<1>2. KindOf(doc) \in {"null", "object"} /\ ItemsOf(doc) = <<>> /\ Become(doc, "object") = o
  BY <1>1, ActsAsObject
<1>3. Member(doc, name) = o \/ Member(doc, name) = Object(SetAt(m, name, Null))
  BY <1>2, WithFact DEF Member
<1>4. doc' = Object(SetAt(m, name, x))
  BY <1>1, <1>3, WithFact
<1>5. KindOf(doc') = "object" /\ ItemsOf(doc') = <<>> /\ MembersOf(doc') = SetAt(m, name, x)
  BY <1>4, KindFact
<1>6. C!Set(name, x)
  BY <1>1, <1>2, <1>5 DEF C!Set, C!AsObject, SetAt
<1>7. IsDocument(doc')
  BY <1>4, ObjectIs DEF SetAt
<1>8. QED BY <1>6, <1>7 DEF C!Next

\* Both kinds of removeMember, with the name that each looks for.
LEMMA EraseStep ==
  ASSUME IsDocument(doc), NEW name \in Names,
         doc' = removeMember(doc, name),
         result' = IF isMember(doc, name) THEN <<"removed", doc.m[name]>> ELSE <<"none">>
  PROVE  IsDocument(doc') /\ C!Next
<1> DEFINE m == MembersOf(doc)
           left == [n \in DOMAIN m \ {name} |-> m[n]]
<1>1. CASE doc.t = "object"
  <2>1. doc = Object(m) /\ m = doc.m
    BY <1>1 DEF IsDocument, MembersOf, Object
  <2>2. doc' = Object(left)
    <3>1. doc' = [doc EXCEPT !.m = left]
      BY <1>1, <2>1 DEF removeMember, Without
    <3> HIDE DEF left, m
    <3>2. QED BY <2>1, <3>1 DEF Object
  <2>3. IsDocument(doc')
    BY <2>2, ObjectIs
  <2>4. /\ KindOf(doc') = KindOf(doc) /\ ItemsOf(doc') = ItemsOf(doc)
        /\ MembersOf(doc') = left
    BY <2>1, <2>2, KindFact
  <2>5. result' = IF name \in DOMAIN m THEN <<"removed", m[name]>> ELSE <<"none">>
    BY <1>1, <2>1 DEF isMember, Has
  <2>6. C!Erase(name)
    BY <2>4, <2>5 DEF C!Erase
  <2>7. QED BY <2>3, <2>6 DEF C!Next
<1>2. CASE doc.t # "object"
  <2>1. doc' = doc /\ result' = <<"none">> /\ m = Empty
    BY <1>2 DEF removeMember, isMember, MembersOf
  <2>2. left = Empty
    BY <2>1, EmptyFact DEF Empty
  <2>3. C!Erase(name)
    BY <2>1, <2>2, EmptyFact DEF C!Erase
  <2>4. QED BY <2>1, <2>3 DEF C!Next
<1>3. QED BY <1>1, <1>2

\* get of a name.
LEMMA FindStep ==
  ASSUME IsDocument(doc), NEW name \in Names, NEW x \in Puts, GetNamed(name, x)
  PROVE  IsDocument(doc') /\ C!Next
<1>1. doc' = doc /\ result' = <<"found", GetMember(doc, name, x)>>
  BY DEF GetNamed, Answer
<1>2. GetMember(doc, name, x) = IF name \in DOMAIN MembersOf(doc) THEN MembersOf(doc)[name] ELSE x
  BY EmptyFact DEF GetMember, isMember, Has, MembersOf
<1>3. C!Find(name, x)
  BY <1>1, <1>2 DEF C!Find
<1>4. QED BY <1>1, <1>3 DEF C!Next

\* clear keeps the kind.
LEMMA ClearStep ==
  ASSUME IsDocument(doc), ClearAll
  PROVE  IsDocument(doc') /\ C!Next
<1>1. doc.t \in {"null", "array", "object"} /\ doc' = clear(doc) /\ result' = <<"done">>
  BY DEF ClearAll, Done
<1>2. doc' = CASE doc.t = "null"   -> Null
               [] doc.t = "array"  -> Array(Empty)
               [] doc.t = "object" -> Object(Empty)
  <2>1. CASE doc.t = "null"
    BY <1>1, <2>1 DEF clear, IsDocument
  <2>2. CASE doc.t = "array"
    BY <1>1, <2>2, FreshFact DEF clear
  <2>3. CASE doc.t = "object"
    BY <1>1, <2>3, FreshFact DEF clear
  <2>4. QED BY <1>1, <2>1, <2>2, <2>3
<1>3. ItemsOf(Array(Empty)) = <<>>
  BY EmptyFact, ItemsFact
<1>4. /\ KindOf(doc') = KindOf(doc) /\ ItemsOf(doc') = <<>> /\ MembersOf(doc') = [n \in {} |-> Null]
      /\ IsDocument(doc')
  <2>1. CASE doc.t = "null"
    <3>1. doc' = Null /\ doc = Null
      BY <1>2, <2>1 DEF IsDocument
    <3>2. QED BY <3>1, KindFact, EmptyFact
  <2>2. CASE doc.t = "array"
    <3>1. doc' = Array(Empty)
      BY <1>2, <2>2
    <3>2. KindOf(doc) = "array"
      BY <2>2 DEF KindOf
    <3>3. QED BY <1>3, <3>1, <3>2, KindFact, EmptyFact, ArrayIs
  <2>3. CASE doc.t = "object"
    <3>1. doc' = Object(Empty)
      BY <1>2, <2>3
    <3>2. KindOf(doc) = "object"
      BY <2>3 DEF KindOf
    <3>3. Empty = [name \in DOMAIN Empty |-> Empty[name]]
      BY DEF Empty
    <3>4. QED BY <3>1, <3>2, <3>3, KindFact, EmptyFact, ObjectIs
  <2>4. QED BY <1>1, <2>1, <2>2, <2>3
<1>5. C!Clear
  BY <1>1, <1>4 DEF C!Clear
<1>6. QED BY <1>4, <1>5 DEF C!Next

-----------------------------------------------------------------------------
(* The refinement. *)

DocSpec == DocInit /\ [][DocNext]_docVars

\* A step of a document, put in, taken out, cut or looked at, is one of the container.
LEMMA DocumentStep ==
  ASSUME IsDocument(doc), [DocNext]_docVars
  PROVE  IsDocument(doc') /\ [C!Next]_docVars
<1>1. CASE \E i \in Indices : RemoveIndex(i) \/ \E x \in Puts : PutItem(i, x) \/ GetAt(i, x)
  BY <1>1, RemoveStep, PutStep, GetStep DEF PutItem
<1>2. CASE \E x \in Puts : AppendItem(x)
  BY <1>2, AppendStep
<1>3. CASE \E n \in 0 .. MaxSize : Resize(n)
  BY <1>3, ResizeStep
<1>4. ASSUME NEW name \in Names, RemoveMember(name) PROVE IsDocument(doc') /\ C!Next
  <2>1. CASE isMember(doc, name)
    BY <1>4, <2>1, EraseStep DEF RemoveMember
  <2>2. CASE ~isMember(doc, name)
    <3>1. doc' = doc /\ result' = <<"none">>
      BY <1>4, <2>2 DEF RemoveMember, Answer
    <3>2. removeMember(doc, name) = doc
      BY <2>2, NotThere
    <3>3. QED BY <2>2, <3>1, <3>2, EraseStep
  <2>3. QED BY <2>1, <2>2
<1>5. ASSUME NEW name \in Names, DropMember(name) PROVE IsDocument(doc') /\ C!Next
  <2>1. CString(name) \in Names
    BY DocumentAssumption
  <2>2. QED BY <1>5, <2>1, EraseStep DEF DropMember
<1>6. CASE \E name \in Names : \E x \in Puts : PutMember(name, x) \/ GetNamed(name, x)
  BY <1>6, SetStep, FindStep
<1>7. CASE ClearAll
  BY <1>7, ClearStep
<1>8. CASE Refuse
  BY <1>8 DEF Refuse, Answer, C!Refuse, C!Next
<1>9. CASE UNCHANGED docVars
  BY <1>9 DEF docVars
<1>10. QED BY <1>1, <1>2, <1>3, <1>4, <1>5, <1>6, <1>7, <1>8, <1>9 DEF DocNext

\* Every operation of a document is one of the container: an item or a member is
\* where it was put until it is taken out, whatever the order of sparse puts,
\* removals, cuts and appends.
THEOREM DocumentIsContainer == DocSpec => ActsAsContainer
<1>1. DocInit => IsDocument(doc)
  BY DocumentAssumption DEF DocInit
<1>2. IsDocument(doc) /\ [DocNext]_docVars => IsDocument(doc)' /\ [C!Next]_docVars
  <2>1. IsDocument(doc)' <=> IsDocument(doc')
    BY DEF IsDocument
  <2>2. QED BY <2>1, DocumentStep
<1>3. QED BY <1>1, <1>2, PTL DEF DocSpec, ActsAsContainer

-----------------------------------------------------------------------------
(* The conversions of a document *)

\* Arrays, objects and null hold what their types say.
LEMMA ContainerIsValue == ASSUME NEW v, v.t \in {"null", "array", "object"} PROVE IsValue(v)
<1>1. ToSet(Types) = {"null", "int", "uint", "real", "string", "boolean", "array", "object"}
  BY DEF ToSet, Types
<1>2. QED BY <1>1 DEF IsValue

\* A change of what they hold leaves them what they are.
LEMMA ChangedContainer ==
  ASSUME NEW v, IsDocument(v), v.t \in {"array", "object"}, NEW m
  PROVE  [v EXCEPT !.m = m].t = v.t
<1>1. v = Array(v.m) \/ \E o : v = Object(o)
  BY DEF IsDocument
<1>2. \A n : [Array(n) EXCEPT !.m = m].t = "array" /\ [Object(n) EXCEPT !.m = m].t = "object"
  BY DEF Array, Object
<1>3. \A n : Array(n).t = "array" /\ Object(n).t = "object"
  BY KindFact
<1>4. QED BY <1>1, <1>2, <1>3

\* No operation makes a document that does not hold what its type says.
LEMMA ValueStep ==
  ASSUME IsDocument(doc), IsValue(doc), [DocNext]_docVars
  PROVE  IsValue(doc')
<1> SUFFICES ASSUME doc' # doc PROVE doc'.t \in {"null", "array", "object"}
  BY ContainerIsValue
<1>1. \A m : Array(m).t = "array" /\ Object(m).t = "object"
  BY KindFact
<1>2. ASSUME NEW i, NEW x, ActsAs(doc, "array"), Done(With(At(doc, i), i, x)) PROVE doc'.t = "array"
  BY <1>1, <1>2, AtFact DEF Done
<1>3. ASSUME NEW i \in Indices, RemoveIndex(i) PROVE doc'.t = "array"
  <2>1. doc.t = "array" /\ Has(doc, i) /\ doc' = removeIndex(doc, i)
    BY <1>3 DEF RemoveIndex, Answer
  <2>2. QED BY <2>1, ChangedContainer DEF removeIndex
<1>4. ASSUME NEW n \in 0 .. MaxSize, Resize(n) PROVE doc'.t = "array"
  <2>1. ActsAs(doc, "array") /\ doc' = resize(doc, n)
    BY <1>4 DEF Resize
  <2>2. Become(doc, "array").t = "array"
    BY <1>1, <2>1, ActsAsArray
  <2>3. n \in Nat /\ size(doc) \in Nat
    <3>1. size(doc) = size(Array(Body(doc))) /\ DOMAIN Body(doc) \subseteq Indices
      BY <2>1, ActsAsArray
    <3>2. size(Array(Body(doc))) \in 0 .. MaxSize
      BY <3>1, SizeFact
    <3>3. QED BY <3>1, <3>2, DocumentAssumption
  <2>4. CASE n = 0
    BY <1>1, <2>1, <2>2, <2>4, FreshFact DEF resize, clear
  <2>5. CASE n > 0 /\ n > size(doc)
    <3>1. doc' = At(doc, n - 1)
      BY <2>1, <2>3, <2>5 DEF resize
    <3>2. Become(doc, "array") = Array(Body(doc))
      BY <2>1, ActsAsArray
    <3>3. CASE Has(Array(Body(doc)), n - 1)
      BY <1>1, <3>1, <3>2, <3>3 DEF At
    <3>4. CASE ~Has(Array(Body(doc)), n - 1)
      BY <1>1, <3>1, <3>2, <3>4, WithFact DEF At
    <3>5. QED BY <3>3, <3>4
  <2>6. CASE n > 0 /\ n <= size(doc)
    <3>1. doc' = Without(doc, n .. size(doc) - 1)
      BY <2>1, <2>3, <2>6 DEF resize
    <3>2. doc.t = "array"
      BY <2>1, <2>6 DEF ActsAs, size
    <3>3. QED BY <3>1, <3>2, ChangedContainer DEF Without
  <2>7. QED BY <2>3, <2>4, <2>5, <2>6
<1>5. ASSUME NEW name, doc' = removeMember(doc, name) PROVE doc'.t = "object"
  <2>1. doc.t = "object" /\ doc' = Without(doc, {name})
    BY <1>5 DEF removeMember
  <2>2. QED BY <2>1, ChangedContainer DEF Without
<1>6. ASSUME NEW name, NEW x, PutMember(name, x) PROVE doc'.t = "object"
  <2>1. ActsAs(doc, "object") /\ doc' = With(Member(doc, name), name, x)
    BY <1>6 DEF PutMember, Done
  <2>2. Become(doc, "object") = Object(MembersOf(doc))
    BY <2>1, ActsAsObject
  <2>3. \E o : Member(doc, name) = Object(o)
    BY <2>2, WithFact DEF Member
  <2>4. QED BY <1>1, <2>1, <2>3, WithFact
<1>7. ASSUME ClearAll PROVE doc'.t \in {"null", "array", "object"}
  BY <1>1, <1>7, FreshFact DEF ClearAll, Done, clear
<1>8. CASE \E i \in Indices : RemoveIndex(i) \/ \E x \in Puts : PutItem(i, x) \/ GetAt(i, x)
  BY <1>2, <1>3, <1>8 DEF PutItem, GetAt, Answer
<1>9. CASE \E x \in Puts : AppendItem(x)
  BY <1>2, <1>9 DEF AppendItem, append, Done
<1>10. CASE \E name \in Names : \/ RemoveMember(name) \/ DropMember(name)
                                \/ \E x \in Puts : PutMember(name, x) \/ GetNamed(name, x)
  BY <1>5, <1>6, <1>10 DEF RemoveMember, DropMember, GetNamed, Answer
<1>11. ~Refuse /\ ~UNCHANGED docVars
  BY DEF Refuse, Answer, docVars
<1>12. QED BY <1>4, <1>7, <1>8, <1>9, <1>10, <1>11 DEF DocNext

\* So it is with a document at any time, whatever has been done to it.
THEOREM DocumentAlwaysConverts == DocSpec => []DocumentConverts
<1>1. DocInit => IsDocument(doc) /\ IsValue(doc)
  BY DocumentAssumption DEF DocInit
<1>2. IsDocument(doc) /\ IsValue(doc) /\ [DocNext]_docVars => (IsDocument(doc) /\ IsValue(doc))'
  <2>1. IsDocument(doc)' <=> IsDocument(doc')
    BY DEF IsDocument
  <2>2. IsValue(doc)' <=> IsValue(doc')
    BY DEF IsValue
  <2>3. QED BY <2>1, <2>2, DocumentStep, ValueStep
<1>3. IsDocument(doc) /\ IsValue(doc) => DocumentConverts
  BY ValuesConvert DEF DocumentConverts
<1>4. QED BY <1>1, <1>2, <1>3, PTL DEF DocSpec
=============================================================================
