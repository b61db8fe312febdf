------------------------------ MODULE JsonWriter ------------------------------
(***************************************************************************)
(* Json::FastWriter (3rd/json/jsoncpp.cpp) as the HTTP handlers use it: a  *)
(* value on one line.  An array is written up to its size, a null for each *)
(* index it has not; the members of an object in the order of their names. *)
(***************************************************************************)
EXTENDS JsonText

\* value[index] for each index below the size.
Items(v) == [k \in 1 .. size(v) |-> Item(v, k - 1)]

Joined(texts) == FoldLeft(LAMBDA s, t : IF s = <<>> THEN t ELSE s \o <<44>> \o t, <<>>, texts)

\* FastWriter::writeValue.
RECURSIVE writeValue(_)
writeValue(v) ==
  CASE v.t = "null"    -> <<110, 117, 108, 108>>
    [] v.t \in {"int", "uint"} -> IntText(v.n)
    [] v.t = "real"    -> RealText(v)
    [] v.t = "string"  -> valueToQuotedString(v.s)
    [] v.t = "boolean" -> IF v.b THEN <<116, 114, 117, 101>> ELSE <<102, 97, 108, 115, 101>>
    [] v.t = "array"   ->
         LET items == Items(v)
         IN  <<91>> \o Joined([k \in DOMAIN items |-> writeValue(items[k])]) \o <<93>>
    [] v.t = "object"  ->
         LET names == getMemberNames(v)
             Member1(name) == valueToQuotedString(name) \o <<58>> \o writeValue(v.m[name])
         IN  <<123>> \o Joined([k \in DOMAIN names |-> Member1(names[k])]) \o <<125>>

write(root) == writeValue(root) \o <<10>>
=============================================================================
