----------------------------- MODULE JsonContainer -----------------------------
(***************************************************************************)
(* What a Json::Value promises as a container: a sequence of items or a    *)
(* map of members, whichever it is used as first.  An array may lose nulls *)
(* at its end when it shrinks, may refuse to remove a null, and may not    *)
(* tell a null from no item; nothing else is lost or moved.                *)
(***************************************************************************)
EXTENDS Naturals, Sequences, SequencesExt

CONSTANTS Values,      \* what is put in
          Names,       \* names of members
          MaxSize,     \* bound on the items
          Null         \* the null value

VARIABLES kind,     \* "null", "array", "object" or "scalar"
          items,    \* the items of an array
          members,  \* the members of an object
          result    \* what the last operation gave

vars == <<kind, items, members, result>>

Padded(s, n) == [k \in 1 .. n |-> IF k <= Len(s) THEN s[k] ELSE Null]

\* Used as an array, or as an object, from now on.
AsArray  == kind \in {"null", "array"} /\ kind' = "array" /\ members' = members
AsObject == kind \in {"null", "object"} /\ kind' = "object" /\ items' = items

Put(i, x) ==
  /\ AsArray
  /\ items' = [Padded(items, IF i > Len(items) THEN i ELSE Len(items)) EXCEPT ![i] = x]
  /\ result' = <<"done">>

\* The first items of s, where the others are null.
Shorter(s) == {Padded(s, k) : k \in {k \in 0 .. Len(s) : \A i \in k + 1 .. Len(s) : s[i] = Null}}

\* A resize that throws has cut the array all the same.
Resize(n) ==
  /\ AsArray
  /\ \/ items' = Padded(items, n) /\ result' = <<"done">>
     \/ items' \in Shorter(Padded(items, n)) /\ result' = <<"thrown">>

RemoveItem(i) ==
  /\ kind = "array" /\ i \in DOMAIN items
  /\ items' \in Shorter(RemoveAt(items, i))
  /\ result' = <<"removed", items[i]>>
  /\ UNCHANGED <<kind, members>>

\* There is nothing there, or a null.
RemoveNothing(i) ==
  /\ i \in DOMAIN items => items[i] = Null
  /\ result' = <<"none">>
  /\ UNCHANGED <<kind, items, members>>

Get(i, default) ==
  /\ \/ i \in DOMAIN items /\ result' = <<"found", items[i]>>
     \/ i \in DOMAIN items => items[i] = Null
        /\ result' = <<"found", default>>
  /\ UNCHANGED <<kind, items, members>>

Set(name, x) ==
  /\ AsObject
  /\ members' = [n \in DOMAIN members \cup {name} |-> IF n = name THEN x ELSE members[n]]
  /\ result' = <<"done">>

Erase(name) ==
  /\ members' = [n \in DOMAIN members \ {name} |-> members[n]]
  /\ result' = IF name \in DOMAIN members THEN <<"removed", members[name]>> ELSE <<"none">>
  /\ UNCHANGED <<kind, items>>

Find(name, default) ==
  /\ result' = <<"found", IF name \in DOMAIN members THEN members[name] ELSE default>>
  /\ UNCHANGED <<kind, items, members>>

Clear ==
  /\ items' = <<>> /\ members' = [n \in {} |-> Null]
  /\ result' = <<"done">>
  /\ UNCHANGED kind

\* Used as what it is not.
Refuse ==
  /\ result' = <<"thrown">>
  /\ UNCHANGED <<kind, items, members>>

Next ==
  \/ \E i \in 1 .. MaxSize : RemoveItem(i) \/ RemoveNothing(i) \/ \E x \in Values : Put(i, x) \/ Get(i, x)
  \/ \E n \in 0 .. MaxSize : Resize(n)
  \/ \E name \in Names : Erase(name) \/ \E x \in Values : Set(name, x) \/ Find(name, x)
  \/ Clear \/ Refuse
=============================================================================
