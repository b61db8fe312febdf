----------------------------- MODULE JsonDocument -----------------------------
(***************************************************************************)
(* A Json::Value in use (3rd/json/jsoncpp.cpp): the operations by which a  *)
(* document is built up, changed and looked at.  Indices count from 0.     *)
(***************************************************************************)
EXTENDS JsonConversion

CONSTANTS Starts,    \* the documents at the start
          Puts,      \* the values that are put in
          Names,     \* the names of members
          MaxSize    \* bound: the size of an array

VARIABLES doc,       \* the document
          result     \* what the last operation gave

docVars == <<doc, result>>

Indices == 0 .. MaxSize - 1

\* Null is null, an array has its items within the bound, and an object is made of members.
IsDocument(v) ==
  /\ v.t = "null" => v = Null
  /\ v.t = "array" => v = Array(v.m) /\ DOMAIN v.m \subseteq Indices
  /\ v.t = "object" => v = Object([name \in DOMAIN v.m |-> v.m[name]])

\* Documents are such values, they hold what their types say, and a name cut short is
\* a name.
ASSUME DocumentAssumption ==
  /\ MaxSize \in Nat
  /\ \A v \in Starts : IsDocument(v) /\ IsValue(v)
  /\ \A name \in Names : CString(name) \in Names

DocInit == doc \in Starts /\ result = <<"done">>

Done(v) == doc' = v /\ result' = <<"done">>
Answer(r) == UNCHANGED doc /\ result' = r

-----------------------------------------------------------------------------
(* Arrays *)

\* root[i] = x.
PutItem(i, x) ==
  /\ ActsAs(doc, "array")
  /\ Done(With(At(doc, i), i, x))

AppendItem(x) ==
  /\ ActsAs(doc, "array") /\ size(doc) < MaxSize
  /\ Done(append(doc, x))

\* The last assertion of resize fails if there was nothing just below the new size.
Resize(n) ==
  /\ ActsAs(doc, "array")
  /\ doc' = resize(doc, n)
  /\ result' = IF size(resize(doc, n)) = n THEN <<"done">> ELSE <<"thrown">>

RemoveIndex(i) ==
  IF doc.t = "array" /\ Has(doc, i)
  THEN doc' = removeIndex(doc, i) /\ result' = <<"removed", doc.m[i]>>
  ELSE Answer(<<"none">>)

GetAt(i, default) ==
  /\ ActsAs(doc, "array")
  /\ Answer(<<"found", GetItem(doc, i, default)>>)

-----------------------------------------------------------------------------
(* Objects *)

\* root[name] = x.
PutMember(name, x) ==
  /\ ActsAs(doc, "object")
  /\ Done(With(Member(doc, name), name, x))

\* The removeMember that gives back what it removes.
RemoveMember(name) ==
  IF isMember(doc, name)
  THEN doc' = removeMember(doc, name) /\ result' = <<"removed", doc.m[name]>>
  ELSE Answer(<<"none">>)

\* The removeMember that does not takes a name up to its first zero byte.
DropMember(name) ==
  /\ ActsAs(doc, "object")
  /\ doc' = removeMember(doc, CString(name))
  /\ result' = IF isMember(doc, CString(name)) THEN <<"removed", doc.m[CString(name)]>> ELSE <<"none">>

GetNamed(name, default) ==
  /\ ActsAs(doc, "object")
  /\ Answer(<<"found", GetMember(doc, name, default)>>)

-----------------------------------------------------------------------------

ClearAll ==
  /\ doc.t \in {"null", "array", "object"}
  /\ Done(clear(doc))

\* An operation on arrays or on objects throws where the value is neither that nor null.
Refuse ==
  /\ \E type \in {"array", "object"} : ~ActsAs(doc, type)
  /\ Answer(<<"thrown">>)

DocNext ==
  \/ \E i \in Indices : RemoveIndex(i) \/ \E x \in Puts : PutItem(i, x) \/ GetAt(i, x)
  \/ \E x \in Puts : AppendItem(x)
  \/ \E n \in 0 .. MaxSize : Resize(n)
  \/ \E name \in Names : \/ RemoveMember(name) \/ DropMember(name)
                         \/ \E x \in Puts : PutMember(name, x) \/ GetNamed(name, x)
  \/ ClearAll \/ Refuse

-----------------------------------------------------------------------------
(* Properties *)

\* What a value is as a container.
KindOf(v)    == IF v.t \in {"null", "array", "object"} THEN v.t ELSE "scalar"
ItemsOf(v)   == IF v.t = "array" THEN [k \in 1 .. size(v) |-> Item(v, k - 1)] ELSE <<>>
MembersOf(v) == IF v.t = "object" THEN v.m ELSE Empty

\* The sparse map behind an array, with its operator[] that puts in and its
\* resize and removeIndex that take out, behaves as the sequence of its items; an
\* object as the map of its members.
C ==
  INSTANCE JsonContainer WITH
    Values <- Puts, kind <- KindOf(doc), items <- ItemsOf(doc), members <- MembersOf(doc)

ActsAsContainer == [][C!Next]_docVars

\* Whatever has been done to a document, what its isInt, isUInt, isInt64, isUInt64,
\* isIntegral and isConvertibleTo say of it is what its conversions do.
DocumentConverts == ConversionsAgree(doc)
=============================================================================
