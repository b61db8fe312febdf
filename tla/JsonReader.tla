------------------------------ MODULE JsonReader ------------------------------
(***************************************************************************)
(* Json::Reader (3rd/json/jsoncpp.cpp), with which StopNode reads what is  *)
(* posted: the text becomes tokens, and the tokens a value.                *)
(*                                                                         *)
(* A token has a type and what it decodes to; a document is the sequence   *)
(* of its tokens, after which there are only "end" tokens.  A parse is     *)
(* where it stops, whether it succeeds, how many errors it notes, and the  *)
(* value, which it has also when it fails.  The messages, the positions of *)
(* the errors and the collection of comments are left out.                 *)
(***************************************************************************)
EXTENDS JsonText

CONSTANT stackLimit   \* how deep arrays and objects may be nested (1000 in the code)

ASSUME LimitAssumption == stackLimit \in Nat \ {0}

\* Features::all and Features::strictMode.
All        == [allowComments |-> TRUE, strictRoot |-> FALSE]
StrictMode == [allowComments |-> FALSE, strictRoot |-> TRUE]

-----------------------------------------------------------------------------
(* From text to tokens *)

Spaces == {32, 9, 13, 10}

\* The first position from i on that is not in the set: skipSpaces, and the runs
\* of digits of readNumber.
Past(doc, i, set) ==
  LET after == {k \in i .. Len(doc) : doc[k] \notin set}
  IN  IF after = {} THEN Len(doc) + 1 ELSE Min(after)

Is(doc, i, set) == i <= Len(doc) /\ doc[i] \in set

\* match: the bytes at i are those of the word.
match(doc, i, word) == i + Len(word) - 1 <= Len(doc) /\ SubSeq(doc, i, i + Len(word) - 1) = word

\* readNumber: where the number that begins before i ends.
readNumber(doc, i) ==
  LET whole    == Past(doc, i, Digits)
      fraction == IF Is(doc, whole, {Point}) THEN Past(doc, whole + 1, Digits) ELSE whole
      sign     == IF Is(doc, fraction + 1, {43, Minus}) THEN fraction + 2 ELSE fraction + 1
  IN  IF Is(doc, fraction, {69, 101}) THEN Past(doc, sign, Digits) ELSE fraction

\* readString: a backslash takes the next byte with it.  0 if there is no end.
RECURSIVE readString(_, _)
readString(doc, i) ==
  CASE i > Len(doc)            -> 0
    [] Is(doc, i, {Quote})     -> i + 1
    [] Is(doc, i, {Backslash}) -> readString(doc, i + 2)
    [] OTHER                   -> readString(doc, i + 1)

Star  == 42
Slash == 47

\* readCStyleComment: to the first "*/", but a text that ends before that is
\* a comment as well if it ends with a slash.
readCStyleComment(doc, i) ==
  LET ends == {k \in i .. Len(doc) - 1 : doc[k] = Star /\ doc[k + 1] = Slash}
  IN  CASE ends # {} -> Min(ends) + 2
        [] ends = {} /\ i <= Len(doc) /\ doc[Len(doc)] = Slash -> Len(doc) + 1
        [] OTHER -> 0

\* readCppStyleComment: to the end of the line, whichever it is.
readCppStyleComment(doc, i) ==
  LET ends == {k \in i .. Len(doc) : doc[k] \in {10, 13}}
  IN  CASE ends = {} -> Len(doc) + 1
        [] ends # {} /\ match(doc, Min(ends), <<13, 10>>) -> Min(ends) + 2
        [] OTHER -> Min(ends) + 1

\* readComment.
readComment(doc, i) ==
  CASE Is(doc, i, {Star})  -> readCStyleComment(doc, i + 1)
    [] Is(doc, i, {Slash}) -> readCppStyleComment(doc, i + 1)
    [] OTHER               -> 0

\* The words, by their bytes.
Words == [true |-> <<116, 114, 117, 101>>, false |-> <<102, 97, 108, 115, 101>>,
          null |-> <<110, 117, 108, 108>>]
WordAt(doc, i) == {w \in DOMAIN Words : match(doc, i, Words[w])}

Signs == << <<123, "{">>, <<125, "}">>, <<91, "[">>, <<93, "]">>, <<44, ",">>, <<58, ":">>, <<0, "end">> >>
SignAt(byte) == {s[2] : s \in {s \in ToSet(Signs) : s[1] = byte}}

Token(type)    == [type |-> type, is |-> Bad]
Holding(t, d)  == [type |-> t, is |-> d]

\* readToken at i, where there is no space: the token, and where the next begins.
\* What cannot be read is an error token of one byte, or to the end of the text.
readToken(doc, i) ==
  LET Ends(t, to) == [token |-> t, to |-> to]
      OrError(t, to, rest) == IF to = 0 THEN Ends(Token("error"), rest) ELSE Ends(t, to)
      text(to)        == SubSeq(doc, i, to - 1)
  IN  CASE SignAt(doc[i]) # {}  -> Ends(Token(CHOOSE s \in SignAt(doc[i]) : TRUE), i + 1)
        [] doc[i] = Quote       -> LET to == readString(doc, i + 1)
                                   IN  OrError(Holding("string", decodeString(text(to))), to, Len(doc) + 1)
        [] doc[i] = Slash       -> LET to == readComment(doc, i + 1)
                                       rest == IF Is(doc, i + 1, {Star}) THEN Len(doc) + 1 ELSE i + 2
                                   IN  OrError(Token("comment"), to, rest)
        [] doc[i] \in Digits \cup {Minus} ->
                                   LET to == readNumber(doc, i + 1)
                                   IN  Ends(Holding("number", decodeNumber(text(to))), to)
        [] WordAt(doc, i) # {}  -> LET w == CHOOSE w \in WordAt(doc, i) : TRUE
                                   IN  Ends(Token(w), i + Len(Words[w]))
        [] OTHER                -> Ends(Token("error"), i + 1)

RECURSIVE TokensFrom(_, _)
TokensFrom(doc, i) ==
  LET at == Past(doc, i, Spaces)
  IN  IF at > Len(doc) THEN <<>>
      ELSE LET Then(r) == <<r.token>> \o TokensFrom(doc, r.to) IN Then(readToken(doc, at))

Tokens(doc) == TokensFrom(doc, 1)

-----------------------------------------------------------------------------
(* From tokens to a value *)

TokenAt(toks, i) == IF i <= Len(toks) THEN toks[i] ELSE Token("end")
TypeAt(toks, i)  == TokenAt(toks, i).type

RECURSIVE SkipComments(_, _)
SkipComments(toks, i) == IF TypeAt(toks, i) = "comment" THEN SkipComments(toks, i + 1) ELSE i

\* recoverFromError: to behind the next token of the type, or an end.
recoverFromError(toks, i, type) ==
  LET stops == {k \in i .. Len(toks) : TypeAt(toks, k) \in {type, "end"}}
  IN  IF stops = {} THEN Len(toks) + 2 ELSE Min(stops) + 1

Parsed(ok, at, errors, val) == [ok |-> ok, at |-> at, errors |-> errors, val |-> val, deep |-> FALSE]

\* readValue throws.
TooDeep == [ok |-> FALSE, at |-> 0, errors |-> 0, val |-> Null, deep |-> TRUE]

\* What readArray and readObject return for value v when reading a child has failed,
\* and when the token at i is not what they expect.
ChildFails(toks, child, v, type) ==
  IF child.deep THEN TooDeep ELSE Parsed(FALSE, recoverFromError(toks, child.at, type), child.errors, v)
addErrorAndRecover(toks, i, v, type) == Parsed(FALSE, recoverFromError(toks, i + 1, type), 1, v)

RECURSIVE readValue(_, _, _, _), readItems(_, _, _, _), readMembers(_, _, _, _, _)

\* readArray, after "[" or ",".
readItems(toks, i, f, a) ==
  LET index == size(a.v)
      child == readValue(toks, i, f, a.depth + 1)
      v     == With(a.v, index, child.val)
      at    == SkipComments(toks, child.at)
  IN  CASE ~child.ok                   -> ChildFails(toks, child, v, "]")
        [] child.ok /\ TypeAt(toks, at) = "]" -> Parsed(TRUE, at + 1, 0, v)
        [] child.ok /\ TypeAt(toks, at) = "," -> readItems(toks, at + 1, f, [a EXCEPT !.v = v])
        [] OTHER                       -> addErrorAndRecover(toks, at, v, "]")

readArray(toks, i, f, depth) ==
  IF TypeAt(toks, i) = "]" THEN Parsed(TRUE, i + 1, 0, Fresh("array"))
  ELSE readItems(toks, i, f, [v |-> Fresh("array"), depth |-> depth])

\* Mutation of CanClose: an object may end after a comma.
CanAlwaysClose(name) == TRUE

\* "}" in the place of a name, when the last name is empty: at the beginning, but
\* also after a member that has the empty name.
CanClose(name) == name = <<>>

\* readObject, after "{" or what separates members: "," or comments with one token
\* of whatever type.
readMembers(toks, i, f, o, name) ==
  LET at    == SkipComments(toks, i)
      token == TokenAt(toks, at)
      key   == token.is.v.s
      child == readValue(toks, at + 2, f, o.depth + 1)
      old   == Found(o.v, key)
      v     == With(o.v, key, IF child.val = Null /\ ~child.ok THEN old ELSE child.val)
      next  == SkipComments(toks, child.at)
  IN  CASE token.type = "}" /\ CanClose(name) -> Parsed(TRUE, at + 1, 0, o.v)
        [] token.type # "string" /\ ~(token.type = "}" /\ CanClose(name)) ->
             addErrorAndRecover(toks, at, o.v, "}")
        [] token.type = "string" /\ ~token.is.ok ->
             Parsed(FALSE, recoverFromError(toks, at + 1, "}"), 1, o.v)
        [] token.type = "string" /\ token.is.ok /\ TypeAt(toks, at + 1) # ":" ->
             addErrorAndRecover(toks, at + 1, o.v, "}")
        [] token.type = "string" /\ token.is.ok /\ TypeAt(toks, at + 1) = ":" ->
             CASE ~child.ok -> ChildFails(toks, child, v, "}")
               [] child.ok /\ TypeAt(toks, child.at) \notin {"}", ",", "comment"} ->
                    addErrorAndRecover(toks, child.at, v, "}")
               [] child.ok /\ TypeAt(toks, child.at) \in {"}", ",", "comment"} ->
                    IF TypeAt(toks, next) = "}" THEN Parsed(TRUE, next + 1, 0, v)
                    ELSE readMembers(toks, next + 1, f, [o EXCEPT !.v = v], key)

readObject(toks, i, f, depth) ==
  readMembers(toks, i, f, [v |-> Fresh("object"), depth |-> depth], <<>>)

\* readValue; a value that is not there leaves null.
readValue(toks, i, f, depth) ==
  LET at    == IF f.allowComments THEN SkipComments(toks, i) ELSE i
      token == TokenAt(toks, at)
  IN  IF depth > stackLimit THEN TooDeep
      ELSE CASE token.type = "{"      -> readObject(toks, at + 1, f, depth)
             [] token.type = "["      -> readArray(toks, at + 1, f, depth)
             [] token.type \in {"number", "string"} ->
                  Parsed(token.is.ok, at + 1, IF token.is.ok THEN 0 ELSE 1, token.is.v)
             [] token.type \in {"true", "false"} -> Parsed(TRUE, at + 1, 0, OfBoolean(token.type = "true"))
             [] token.type = "null"   -> Parsed(TRUE, at + 1, 0, Null)
             [] OTHER                 -> Parsed(FALSE, at + 1, 1, Null)

\* The root of a strict document is an array or an object.
RootErrors(f, v) == IF f.strictRoot /\ v.t \notin {"array", "object"} THEN 1 ELSE 0

\* What a parse gives for what it has read and the errors at the root.
Result(r, e) == [ok |-> r.ok /\ e = 0, errors |-> r.errors + e, val |-> r.val, deep |-> r.deep]

\* Reader::parse into a null root.
parse(toks, f) ==
  LET Root(r) == Result(r, IF r.deep THEN 0 ELSE RootErrors(f, r.val))
  IN  Root(readValue(toks, 1, f, 1))
=============================================================================
