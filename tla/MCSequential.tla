---------------------------- MODULE MCSequential ----------------------------
(***************************************************************************)
(* For TLC: the components that one thread at a time uses and that do not  *)
(* act on each other, side by side.  A behaviour is one of the component   *)
(* in "part"; the variables of the others keep a value they start with.    *)
(***************************************************************************)
EXTENDS HeadCodec, NodeMessages, JsonDocument, JsonGrammar, JsonCharReader,
        JsonWriter, JsonOrder, LogFile

VARIABLES part,     \* the component
          posted    \* what is given to the JSON reader, piece by piece

sequentialVars == <<part, posted, headVars, messageVars, docVars, fileVars>>

Parts == {"head", "messages", "document", "text", "files"}

-----------------------------------------------------------------------------
(* Heads: two of them, and those that differ from one of them in one field, whose *)
(* bytes are any of 0, 1, 128 and 255 (0 and 255 in the 8-byte one).             *)

\* The head of ReadCallBack's answers (nodeConnect.cpp:48), and one without zeros.
AnswerHead ==
  [usTag |-> <<0, 100>>, ucVersion |-> <<2>>, ucType |-> <<1>>, usLen |-> <<0, 0>>,
   usMsgId |-> <<3, 232>>, ullMsgSn |-> <<0, 0, 0, 0, 0, 0, 0, 101>>,
   uiPriority |-> <<0, 0, 3, 21>>, uiReserver1 |-> <<0, 0, 1, 200>>]
FullHead ==
  [usTag |-> <<171, 205>>, ucVersion |-> <<11>>, ucType |-> <<12>>, usLen |-> <<13, 14>>,
   usMsgId |-> <<15, 16>>, ullMsgSn |-> <<17, 18, 19, 20, 21, 22, 23, 24>>,
   uiPriority |-> <<25, 26, 27, 28>>, uiReserver1 |-> <<29, 30, 31, 32>>]

ByteSamples(f) == [1 .. Width[f] -> IF Width[f] = 8 THEN {0, 255} ELSE {0, 1, 128, 255}]

SampleHeads ==
  UNION {{[h EXCEPT ![f] = v] : v \in ByteSamples(f)} : f \in Fields, h \in {AnswerHead, FullHead}}

-----------------------------------------------------------------------------
(* Messages *)

SampleStrings == {<<49>>}
SampleNumbers == {-1}

\* A login with a name that begins with a two-byte character and takes two bytes for its
\* length; one with an unknown field between two known ones; a string that is cut off,
\* and one that is no UTF-8; the end of a group; a number with too many bits, and one in
\* the place of a string, twice.
LongName == <<195, 169>> \o [k \in 1 .. 128 |-> 97]
SampleArrivals == {
  <<34, 130, 1>> \o LongName, <<10, 1, 49, 45, 1, 2, 3, 4, 16, 80>>, <<16, 80, 10, 5, 49>>, <<10, 1, 200, 16, 80>>,
  <<16, 80, 12, 16, 81>>, <<16, 255, 255, 3>>, <<8, 80, 18, 1, 97>>}

-----------------------------------------------------------------------------
(* Documents *)

Sparse == Array([k \in {1} |-> OfInt(2)])
Labelled  == With(With(Fresh("object"), <<97>>, Null), <<>>, OfInt(1))

Leaves ==
  {OfInt(n) : n \in {minLargestInt, minInt - 1, minInt, -1, 0, 1, maxInt, maxInt + 1, maxLargestInt}}
    \cup {OfUInt(n) : n \in {0, maxInt, maxInt + 1, maxUInt, maxUInt + 1, maxLargestInt + 1, maxLargestUInt}}
    \cup {OfReal(h) : h \in {-257, -130, -129, -128, -33, -18, -17, -16, -1, 0, 1, 2, 3, 14, 15, 16, 29, 30, 31,
                             32, 125, 126, 127, 128, 253, 254, 255, 256, 257, 258}}
    \cup {NaN, Infinite(1), Infinite(-1)}
    \cup {OfBoolean(b) : b \in BOOLEAN}
    \cup {OfString(s) : s \in {<<>>, <<97>>, <<97, 98>>, <<0>>, <<34, 92>>, codePointToUTF8(128512),
                              codePointToUTF8(65535), codePointToUTF8(2048)}}

SampleDocuments == {Null, Sparse, Labelled} \cup Leaves
SamplePuts      == {Null, OfInt(1), OfString(<<97>>)}
SampleNames     == {<<>>, <<97>>, <<97, 0>>, <<98>>}

\* Ordered of module JsonOrder, for a document and some samples.
ValuesOrdered ==
  part = "document" /\ doc # NaN =>
    \A v, w \in {Sparse, Labelled, OfUInt(1), OfString(<<97>>)} :
      Ordered(doc, v, w) /\ Ordered(v, doc, w)

\* The same content: an item that is not there is a null, and an integer has no type.
RECURSIVE SameContent(_, _)
SameContent(v, w) ==
  CASE v.t = "array" /\ w.t = "array" ->
         size(v) = size(w) /\ \A i \in 0 .. size(v) - 1 : SameContent(Item(v, i), Item(w, i))
    [] v.t = "object" /\ w.t = "object" ->
         DOMAIN v.m = DOMAIN w.m /\ \A name \in DOMAIN v.m : SameContent(v.m[name], w.m[name])
    [] v.t \in {"int", "uint"} /\ w.t \in {"int", "uint"} -> v.n = w.n
    [] OTHER -> v = w

\* Written with FastWriter and read by a strict Reader, as the program does with what
\* it sends and what is posted, a document comes back with the same content, and so
\* does a scalar in an array.  Reader has no value for the text of an infinite number;
\* the reader of CharReaderBuilder reads it back, too.  A NaN is written as a null.
JsonKept ==
  part = "document" /\ doc # NaN =>
    \A sent \in {IF doc.t \in {"array", "object"} THEN doc ELSE append(Null, doc)} :
    \A text \in {write(sent)} :
      LET Kept(read) == read.ok /\ SameContent(read.val, sent)
      IN  /\ (doc.t = "real" => doc.kind = "finite") => Kept(parse(Tokens(text), StrictMode))
          /\ Kept(ourParse(ourTokens(text, setDefaults), setDefaults))

-----------------------------------------------------------------------------
(* Texts *)

Text(type) == CHOOSE s \in ToSet(Signs) : s[2] = type
Piece(type) == <<Text(type)[1]>>

Comment == <<47, 42, 42, 47>>
String(s) == valueToQuotedString(s)

Pieces == {Piece("{"), Piece("}"), Piece("["), Piece("]"), Piece(","), Piece(":"), Comment,
           String(<<>>), String(<<97>>), <<32, 49>>, <<34, 92, 120, 34>>}

\* What a text begins with, and how many pieces follow at most: nothing, the inside of
\* an object or an array, or what only a CharReader with extensions reads.
Begins(texts, n) == [text |-> FlattenSeq(texts), more |-> n]

Beginnings == {
  Begins(<<>>, 4),
  Begins(<<Piece("{"), String(<<>>), Piece(":"), <<49>>>>, 3),
  Begins(<<Piece("{"), String(<<97>>), Piece(":"), <<49>>, Comment>>, 3),
  Begins(<<Piece("{"), String(<<97>>), Piece(":"), Piece("[")>>, 3),
  Begins(<<Piece("["), Words.true, Piece(",")>>, 3),
  Begins(<<Piece("{"), String(<<97>>), Piece(":"), <<49>>, Piece(","), String(<<97>>)>>, 3),
  Begins(<<Piece("{"), <<49>>, Piece(":"), <<Minus>> \o Infinity>>, 3),
  Begins(<<Piece("["), <<Apostrophe, 97, Quote, 97, Apostrophe>>>>, 3)}

Post(piece) ==
  /\ \E b \in Beginnings : b.text = Head(posted) /\ Len(posted) <= b.more
  /\ posted' = Append(posted, piece)

\* The reader accepts what the grammar derives and gives the value it derives; it
\* notes errors exactly when it fails; and it neither accepts nor hangs on a document
\* that is nested too deep, which it leaves by an exception.
JsonRead ==
  part = "text" =>
    \A toks \in {Tokens(FlattenSeq(posted))}, f \in {All, StrictMode} :
      \A r \in {parse(toks, f)} :
        IF r.deep THEN ~r.ok
        ELSE /\ Roots(toks, f) = IF r.ok THEN {r.val} ELSE {}
             /\ r.ok <=> r.errors = 0

RECURSIVE MemberCount(_)
MemberCount(v) ==
  CASE v.t \in {"array", "object"} ->
         FoldFunction(+, IF v.t = "object" THEN Cardinality(DOMAIN v.m) ELSE 0,
                      [k \in DOMAIN v.m |-> MemberCount(v.m[k])])
    [] OTHER -> 0

SameResult(r, s) ==
  r.ok = s.ok /\ r.errors = s.errors /\ r.deep = s.deep /\ SameContent(r.val, s.val)

\* The reader of CharReaderBuilder is the older one as long as its features are those;
\* an extension keeps what is accepted without it, with its value; and what is accepted
\* in strict mode has every member that is posted, none replaced by another.  Left out
\* are texts with an apostrophe, which may begin a comment, and, for the members,
\* texts with comments, after which any token may separate two members.
ReadersAgree ==
  part = "text" /\ Apostrophe \notin ToSet(FlattenSeq(posted)) =>
    LET noComments == [setDefaults EXCEPT !.allowComments = FALSE]
        extended   == {[setDefaults EXCEPT ![e] = TRUE] : e \in Extensions}
        Ours(text) == [f \in {setDefaults, strictMode, noComments} \cup extended |-> ourParse(ourTokens(text, f), f)]
        HowMany(toks, t) == Cardinality({i \in DOMAIN toks : toks[i].type = t})
        Agree(toks, ours, plain, strict) ==
          /\ SameResult(parse(toks, All), plain)
          /\ SameResult(parse(toks, [All EXCEPT !.allowComments = FALSE]), ours[noComments])
          /\ plain.ok => \A f \in extended : SameResult(plain, ours[f])
          /\ strict.ok => plain.ok /\ SameContent(strict.val, plain.val)
          /\ strict.ok /\ HowMany(toks, "comment") = 0 => MemberCount(strict.val) = HowMany(toks, ":")
    IN  \A text \in {FlattenSeq(posted)} : \A ours \in {Ours(text)} :
          Agree(Tokens(text), ours, ours[setDefaults], ours[strictMode])

-----------------------------------------------------------------------------

Init ==
  /\ part \in Parts
  /\ HeadInit /\ (part # "head" => head = AnswerHead)
  /\ MessageInit /\ (part # "messages" => class = ReqHeartBeat)
  /\ DocInit /\ (part # "document" => doc = Null)
  /\ FileInit /\ (part # "files" => limitsize = 1 /\ reserve = 0)
  /\ posted \in {<<b.text>> : b \in Beginnings} /\ (part # "text" => posted = << <<>> >>)

Next ==
  \/ part = "head" /\ HeadNext /\ UNCHANGED <<part, posted, messageVars, docVars, fileVars>>
  \/ part = "messages" /\ MessageNext /\ UNCHANGED <<part, posted, headVars, docVars, fileVars>>
  \/ part = "document" /\ DocNext /\ UNCHANGED <<part, posted, headVars, messageVars, fileVars>>
  \/ part = "text" /\ (\E p \in Pieces : Post(p))
       /\ UNCHANGED <<part, headVars, messageVars, docVars, fileVars>>
  \/ part = "files" /\ FileNext /\ UNCHANGED <<part, posted, headVars, messageVars, docVars>>

Spec == Init /\ [][Next]_sequentialVars
=============================================================================
