---------------------------- MODULE JsonCharReader ----------------------------
(***************************************************************************)
(* Json::OurReader (3rd/json/jsoncpp.cpp), the reader of CharReaderBuilder *)
(* and of ">>": a copy of Json::Reader with more features.  Where the two  *)
(* are the same, this module takes the definitions of JsonReader.          *)
(***************************************************************************)
EXTENDS JsonReader

\* The features that extend the language.
Extensions ==
  {"allowDroppedNullPlaceholders", "allowNumericKeys", "allowSingleQuotes", "allowSpecialFloats"}

NoExtension == [e \in Extensions |-> FALSE]

\* CharReaderBuilder's settings: what is there by default, and in strict mode.
setDefaults ==
  [allowComments |-> TRUE, strictRoot |-> FALSE, failIfExtra |-> FALSE, rejectDupKeys |-> FALSE] @@ NoExtension
strictMode ==
  [allowComments |-> FALSE, strictRoot |-> TRUE, failIfExtra |-> TRUE, rejectDupKeys |-> TRUE] @@ NoExtension

-----------------------------------------------------------------------------
(* Tokens *)

Apostrophe == 39

\* readStringSingleQuote.
RECURSIVE readStringSingleQuote(_, _)
readStringSingleQuote(doc, i) ==
  CASE i > Len(doc)             -> 0
    [] Is(doc, i, {Apostrophe}) -> i + 1
    [] Is(doc, i, {Backslash})  -> readStringSingleQuote(doc, i + 2)
    [] OTHER                    -> readStringSingleQuote(doc, i + 1)

\* OurReader::decodeString: a quote ends the string, also within apostrophes.
ourDecodeString(t) ==
  LET inner == SubSeq(t, 2, Len(t) - 1)
      to    == readString(inner, 1)
  IN  DecodeFrom(IF to = 0 THEN inner ELSE SubSeq(inner, 1, to - 2), 1, <<>>)

\* OurReader::decodeDouble, by way of sscanf: a number that is too large is infinite.
ourDecodeDouble(t) ==
  LET negative == t[1] = Minus
      e        == {i \in DOMAIN t : t[i] \in {69, 101}}
      Of(r, mantissa) ==
        CASE r.ok                     -> r
          [] ~r.ok /\ mantissa.ok /\ Min(e) < Len(t) /\ t[Len(t)] \in Digits ->
               Good(IF mantissa.v.halves = 0 THEN OfReal(0) ELSE Infinite(IF negative THEN -1 ELSE 1))
          [] OTHER                    -> mantissa
  IN  Of(decodeDouble(t), decodeDouble(IF e = {} THEN t ELSE SubSeq(t, 1, Min(e) - 1)))

\* OurReader::decodeNumber: what fits the largest signed integer is one.
ourDecodeNumber(t) ==
  LET Of(r) ==
        CASE r.ok /\ r.v.t = "uint" /\ r.v.n <= maxLargestInt -> Good(OfInt(r.v.n))
          [] r.ok /\ r.v.t = "int"                            -> r
          [] r.ok /\ r.v.t = "uint" /\ r.v.n > maxLargestInt  -> r
          [] OTHER                                            -> ourDecodeDouble(t)
  IN  Of(decodeNumber(t))

\* The words of special numbers, after which byte they may stand, and how they are read.
Infinity == <<73, 110, 102, 105, 110, 105, 116, 121>>
Special  == << <<(<<78, 97, 78>>), NaN>>, <<Infinity, Infinite(1)>>, <<<<Minus>> \o Infinity, Infinite(-1)>> >>
SpecialAt(doc, i) == {s \in ToSet(Special) : match(doc, i, s[1])}

\* OurReader::readToken.  An apostrophe that does not begin a string falls through to
\* the case of the slash.
ourReadToken(doc, i, f) ==
  LET Ends(t, to) == [token |-> t, to |-> to]
      special     == SpecialAt(doc, i)
      quoted      == readStringSingleQuote(doc, i + 1)
      comment     == readComment(doc, i + 1)
      Plain(r)    ==
        IF r.token.type = "number"
        THEN Ends(Holding("number", ourDecodeNumber(SubSeq(doc, i, r.to - 1))), r.to)
        ELSE r
  IN  CASE doc[i] = Apostrophe /\ f.allowSingleQuotes ->
             IF quoted = 0 THEN Ends(Token("error"), Len(doc) + 1)
             ELSE Ends(Holding("string", ourDecodeString(SubSeq(doc, i, quoted - 1))), quoted)
        [] doc[i] = Apostrophe /\ ~f.allowSingleQuotes ->
             IF comment # 0 THEN Ends(Token("comment"), comment)
             ELSE Ends(Token("error"), IF Is(doc, i + 1, {Star}) THEN Len(doc) + 1 ELSE i + 2)
        [] doc[i] = Minus /\ Is(doc, i + 1, {73}) ->
             IF f.allowSpecialFloats /\ special # {}
             THEN Ends(Holding("special", Good(Infinite(-1))), i + 9)
             ELSE Ends(Token("error"), i + 2)
        [] doc[i] \in {73, 78} /\ f.allowSpecialFloats /\ special # {} ->
             LET s == CHOOSE s \in special : TRUE
             IN  Ends(Holding("special", Good(s[2])), i + Len(s[1]))
        [] OTHER -> Plain(readToken(doc, i))

RECURSIVE ourTokensFrom(_, _, _)
ourTokensFrom(doc, i, f) ==
  LET at == Past(doc, i, Spaces)
  IN  IF at > Len(doc) THEN <<>>
      ELSE LET Then(r) == <<r.token>> \o ourTokensFrom(doc, r.to, f) IN Then(ourReadToken(doc, at, f))

ourTokens(doc, f) == ourTokensFrom(doc, 1, f)

-----------------------------------------------------------------------------
(* Values *)

\* What OurReader takes for the name of a member: a string, or the text of a number.
NameOf(token, f) ==
  CASE token.type = "string" -> token.is
    [] token.type = "number" /\ f.allowNumericKeys ->
         LET n == token.is.v
         IN  CASE ~token.is.ok -> Bad
               [] token.is.ok /\ n.t = "real" -> Good(OfString(RealText(n)))
               [] token.is.ok /\ n.t # "real" -> Good(OfString(IntText(n.n)))
    [] OTHER -> Bad

IsName(token, f) == token.type = "string" \/ (token.type = "number" /\ f.allowNumericKeys)

RECURSIVE ourReadValue(_, _, _, _), ourReadItems(_, _, _, _), ourReadMembers(_, _, _, _, _)

\* OurReader::readArray, after "[" or ",".
ourReadItems(toks, i, f, a) ==
  LET child == ourReadValue(toks, i, f, a.depth + 1)
      v     == With(a.v, size(a.v), child.val)
      at    == SkipComments(toks, child.at)
  IN  CASE ~child.ok                          -> ChildFails(toks, child, v, "]")
        [] child.ok /\ TypeAt(toks, at) = "]" -> Parsed(TRUE, at + 1, 0, v)
        [] child.ok /\ TypeAt(toks, at) = "," -> ourReadItems(toks, at + 1, f, [a EXCEPT !.v = v])
        [] OTHER                              -> addErrorAndRecover(toks, at, v, "]")

\* Mutation of Duplicate: a name that has been used is taken again.
NoDuplicate(v, key, f) == FALSE

Duplicate(v, key, f) == f.rejectDupKeys /\ isMember(v, key)

\* OurReader::readObject, after "{" or what separates members.
ourReadMembers(toks, i, f, o, name) ==
  LET at    == SkipComments(toks, i)
      token == TokenAt(toks, at)
      named == NameOf(token, f)
      key   == named.v.s
      child == ourReadValue(toks, at + 2, f, o.depth + 1)
      v     == With(o.v, key, IF child.val = Null /\ ~child.ok THEN Found(o.v, key) ELSE child.val)
      next  == SkipComments(toks, child.at)
  IN  CASE token.type = "}" /\ CanClose(name) -> Parsed(TRUE, at + 1, 0, o.v)
        [] ~IsName(token, f) /\ ~(token.type = "}" /\ CanClose(name)) -> addErrorAndRecover(toks, at, o.v, "}")
        [] IsName(token, f) /\ ~named.ok -> Parsed(FALSE, recoverFromError(toks, at + 1, "}"), 1, o.v)
        [] IsName(token, f) /\ named.ok ->
             CASE Duplicate(o.v, key, f) -> addErrorAndRecover(toks, at, o.v, "}")
               [] ~Duplicate(o.v, key, f) /\ TypeAt(toks, at + 1) # ":" -> addErrorAndRecover(toks, at + 1, o.v, "}")
               [] ~Duplicate(o.v, key, f) /\ TypeAt(toks, at + 1) = ":" ->
                    CASE ~child.ok -> ChildFails(toks, child, v, "}")
                      [] child.ok /\ TypeAt(toks, child.at) \notin {"}", ",", "comment"} ->
                           addErrorAndRecover(toks, child.at, v, "}")
                      [] child.ok /\ TypeAt(toks, child.at) \in {"}", ",", "comment"} ->
                           IF TypeAt(toks, next) = "}" THEN Parsed(TRUE, next + 1, 0, v)
                           ELSE ourReadMembers(toks, next + 1, f, [o EXCEPT !.v = v], key)

\* OurReader::readValue: a null that has been dropped is put before what follows it.
ourReadValue(toks, i, f, depth) ==
  LET at    == IF f.allowComments THEN SkipComments(toks, i) ELSE i
      token == TokenAt(toks, at)
  IN  IF depth > stackLimit THEN TooDeep
      ELSE CASE token.type = "{" ->
                  ourReadMembers(toks, at + 1, f, [v |-> Fresh("object"), depth |-> depth], <<>>)
             [] token.type = "[" ->
                  IF TypeAt(toks, at + 1) = "]" THEN Parsed(TRUE, at + 2, 0, Fresh("array"))
                  ELSE ourReadItems(toks, at + 1, f, [v |-> Fresh("array"), depth |-> depth])
             [] token.type = "special" -> Parsed(TRUE, at + 1, 0, token.is.v)
             [] token.type \in {",", "}", "]"} /\ f.allowDroppedNullPlaceholders -> Parsed(TRUE, at, 0, Null)
             [] token.type \in {"number", "string", "true", "false", "null"} -> readValue(toks, at, f, depth)
             [] OTHER -> Parsed(FALSE, at + 1, 1, Null)

\* What follows the root is in error, unless it is unreadable and the root need not be strict.
ExtraErrors(toks, i, f) ==
  LET at == IF f.allowComments THEN SkipComments(toks, i) ELSE i
  IN  IF f.failIfExtra /\ TypeAt(toks, at) # "end" /\ (f.strictRoot \/ TypeAt(toks, at) # "error") THEN 1 ELSE 0

\* OurReader::parse into a null root.
ourParse(toks, f) ==
  LET Root(r, extra) ==
        Result(r, CASE r.deep               -> 0
                    [] ~r.deep /\ extra = 1 -> 1
                    [] ~r.deep /\ extra = 0 -> RootErrors(f, r.val))
      Read(r) == Root(r, ExtraErrors(toks, r.at, f))
  IN  Read(ourReadValue(toks, 1, f, 1))
=============================================================================
