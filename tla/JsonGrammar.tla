----------------------------- MODULE JsonGrammar -----------------------------
(***************************************************************************)
(* What Json::Reader accepts, as a grammar: the values that a sequence of  *)
(* tokens stands for.  It is the grammar of JSON, with what the library    *)
(* documents as its extension, comments, and with the departures it has:   *)
(*   - comments are taken in some places even by a strict reader;          *)
(*   - comments and any one token may separate the members of an object;   *)
(*   - an object may close after a separator if its last name is empty;    *)
(*   - what follows the value is not looked at.                            *)
(***************************************************************************)
EXTENDS JsonReader

AreComments(s) == \A i \in DOMAIN s : s[i].type = "comment"

\* The ways to cut a sequence in two.
Cuts(s) == {<<SubSeq(s, 1, k), SubSeq(s, k + 1, Len(s))>> : k \in 0 .. Len(s)}

Inner(s) == SubSeq(s, 2, Len(s) - 1)
Closed(s, open, close) == Len(s) >= 2 /\ s[1].type = open /\ s[Len(s)].type = close

Scalars(s) ==
  CASE s[1].type \in {"number", "string"} /\ s[1].is.ok -> {s[1].is.v}
    [] s[1].type \in {"true", "false"} -> {OfBoolean(s[1].type = "true")}
    [] s[1].type = "null" -> {Null}
    [] OTHER -> {}

RECURSIVE Values(_, _), Elements(_, _), Members(_, _)

IsSeparator(s) ==
  \/ Len(s) = 1 /\ s[1].type = ","
  \/ Len(s) > 1 /\ AreComments(Front(s)) /\ Last(s).type \notin {"comment", "}"}

\* Member ::= Comment* String ":" Value.  The object v with it, and its name.
Member1(s, v, f) ==
  LET at == {k \in 1 .. Len(s) - 1 : /\ AreComments(SubSeq(s, 1, k - 1))
                                     /\ s[k].type = "string" /\ s[k].is.ok /\ s[k + 1].type = ":"}
  IN  UNION {{[v |-> With(v, s[k].is.v.s, x), name |-> s[k].is.v.s] :
                x \in Values(SubSeq(s, k + 2, Len(s)), f)} : k \in at}

\* Members ::= Member | Members Separator Member
Members(s, f) ==
  Member1(s, Fresh("object"), f) \cup
  UNION {UNION {UNION {Member1(d[2], m.v, f) : m \in Members(c[1], f)} :
                  d \in {d \in Cuts(c[2]) : IsSeparator(d[1])}} : c \in Cuts(s)}

\* Within braces: Comment* | Members Comment* | Members Separator Comment*, the last
\* one after an empty name.
Objects(s, f) ==
  (IF AreComments(s) THEN {Fresh("object")} ELSE {}) \cup
  UNION {{m.v : m \in {m \in Members(c[1], f) :
                         \/ AreComments(c[2])
                         \/ m.name = <<>> /\ \E d \in Cuts(c[2]) : IsSeparator(d[1]) /\ AreComments(d[2])}} :
           c \in Cuts(s)}

\* Elements ::= Value Comment* | Elements "," Value Comment*
Elements(s, f) ==
  LET Item1(t) == UNION {Values(c[1], f) : c \in {c \in Cuts(t) : AreComments(c[2])}}
  IN  {<<v>> : v \in Item1(s)} \cup
      UNION {{Append(e, v) : e \in Elements(SubSeq(s, 1, k - 1), f), v \in Item1(SubSeq(s, k + 1, Len(s)))} :
               k \in {k \in DOMAIN s : s[k].type = ","}}

Arrays(s, f) ==
  IF s = <<>> THEN {Fresh("array")}
  ELSE {Array([k \in 0 .. Len(e) - 1 |-> e[k + 1]]) : e \in Elements(s, f)}

\* Value, after comments where the reader allows them.
Values(s, f) ==
  CASE s = <<>>       -> {}
    [] Len(s) = 1     -> Scalars(s)
    [] Closed(s, "[", "]") -> Arrays(Inner(s), f)
    [] Closed(s, "{", "}") -> Objects(Inner(s), f)
    [] Len(s) > 1 /\ s[1].type = "comment" -> IF f.allowComments THEN Values(Tail(s), f) ELSE {}
    [] OTHER          -> {}

\* The roots a document may have: the values at its beginning.
Roots(toks, f) ==
  {v \in UNION {Values(SubSeq(toks, 1, k), f) : k \in 0 .. Len(toks)} :
     f.strictRoot => v.t \in {"array", "object"}}
=============================================================================
