------------------------------- MODULE JsonOrder -------------------------------
(***************************************************************************)
(* The order of values (3rd/json/jsoncpp.cpp).                             *)
(***************************************************************************)
EXTENDS JsonConversion

TypeIndex(v) == CHOOSE i \in 1 .. 8 : Types[i] = v.t

RECURSIVE Less(_, _), Equal(_, _)

\* Mutation of MapLess: the keys only.
MapLessKeysOnly(v, w) ==
  LET k == Keys(v)
      l == Keys(w)
  IN  \E i \in 1 .. Len(k) :
        /\ \A j \in 1 .. i - 1 : ~KeyLess(v, k[j], l[j]) /\ ~KeyLess(v, l[j], k[j])
        /\ KeyLess(v, k[i], l[i])

\* The maps in the order of their keys, key and value by key and value.
MapLess(v, w) ==
  LET k == Keys(v)
      l == Keys(w)
  IN  \E i \in 1 .. Len(k) :
        /\ \A j \in 1 .. i - 1 :
             /\ ~KeyLess(v, k[j], l[j]) /\ ~KeyLess(v, l[j], k[j])
             /\ ~Less(v.m[k[j]], w.m[l[j]]) /\ ~Less(w.m[l[j]], v.m[k[j]])
        /\ \/ KeyLess(v, k[i], l[i])
           \/ ~KeyLess(v, l[i], k[i]) /\ Less(v.m[k[i]], w.m[l[i]])

\* operator<: the types decide, then what they hold; of maps their sizes first.
Less(v, w) ==
  CASE v.t # w.t                   -> TypeIndex(v) < TypeIndex(w)
    [] v.t = "null" /\ w.t = v.t   -> FALSE
    [] v.t \in {"int", "uint"} /\ w.t = v.t -> v.n < w.n
    [] v.t = "real" /\ w.t = v.t   -> Number(v) /\ Number(w) /\ Extent(v) < Extent(w)
    [] v.t = "boolean" /\ w.t = v.t -> ~v.b /\ w.b
    [] v.t = "string" /\ w.t = v.t -> BytesLess(v.s, w.s)
    [] v.t \in {"array", "object"} /\ w.t = v.t ->
         IF Cardinality(DOMAIN v.m) = Cardinality(DOMAIN w.m) THEN MapLess(v, w)
         ELSE Cardinality(DOMAIN v.m) < Cardinality(DOMAIN w.m)

\* operator==.
Equal(v, w) ==
  /\ v.t = w.t
  /\ CASE v.t = "real" -> Number(v) /\ v = w
       [] v.t \in {"array", "object"} ->
            /\ DOMAIN v.m = DOMAIN w.m
            /\ \A k \in DOMAIN v.m : Equal(v.m[k], w.m[k])
       [] OTHER -> v = w

compare(v, w) == IF Less(v, w) THEN -1 ELSE IF Less(w, v) THEN 1 ELSE 0

-----------------------------------------------------------------------------
(* Properties *)

\* Values without a NaN are ordered: one is less, or they are equal, and the order is
\* transitive.
Ordered(v, w, x) ==
  /\ compare(v, w) = 0 <=> Equal(v, w)
  /\ ~(Less(v, w) /\ Less(w, v))
  /\ Less(v, w) /\ Less(w, x) => Less(v, x)
=============================================================================
