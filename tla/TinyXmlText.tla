----------------------------- MODULE TinyXmlText -----------------------------
(***************************************************************************)
(* TinyXML's two printers and its parser (src/tinyxml): main.cpp sends a   *)
(* document as text with operator<< and parses what it receives.           *)
(*                                                                         *)
(* The text is a sequence of tokens: markup, names, white space, and       *)
(* characters of values, written as an entity where EncodeString does so.  *)
(* A pointer into the text is the rest of it; Null is the null pointer.    *)
(* Encodings, locations and values that spell "&#x" or an end mark are     *)
(* left out.  No token is cut in two.                                      *)
(***************************************************************************)
EXTENDS Naturals, Sequences, SequencesExt

\* Nodes.
Text(cdata, value) == [kind |-> "text", cdata |-> cdata, value |-> value]
Comment(value) == [kind |-> "comment", value |-> value]
Unknown(value) == [kind |-> "unknown", value |-> value]
Declaration(fields) == [kind |-> "declaration", fields |-> fields]
Element(name, attributes, children) ==
    [kind |-> "element", name |-> name, attributes |-> attributes, children |-> children]

IsText(node) == node.kind = "text"
White == {" ", "\n"}          \* "\n" is a line break of the text, "nl" one of a value
OpenMarks == {"<", "</", "<!--", "<![CDATA[", "<!", "<?xml"}
CloseMarks == {">", "/>", "-->", "]]>", "?>"}
Names == {"e", "f", "n", "m", "version", "encoding", "standalone"}
-----------------------------------------------------------------------------
Entity ==
    [c \in {"&", "<", ">", "\"", "'", "nl"} |->
        CASE c = "&" -> "&amp;" [] c = "<" -> "&lt;" [] c = ">" -> "&gt;"
          [] c = "\"" -> "&quot;" [] c = "'" -> "&apos;" [] c = "nl" -> "&#x0A;"]

\* Faulty: line breaks are written as they are.
EncodeMarkup(value) ==
    [i \in DOMAIN value |-> IF value[i] = "nl" THEN "\n" ELSE
        IF value[i] \in DOMAIN Entity THEN Entity[value[i]] ELSE value[i]]

EncodeString(value) ==
    [i \in DOMAIN value |-> IF value[i] \in DOMAIN Entity THEN Entity[value[i]] ELSE value[i]]

GetEntity(token) ==
    IF \E c \in DOMAIN Entity : Entity[c] = token
    THEN CHOOSE c \in DOMAIN Entity : Entity[c] = token
    ELSE token

PrintAttribute(attribute) ==
    LET quote == IF "\"" \in ToSet(attribute.value) THEN "'" ELSE "\""
    IN  <<attribute.name, "=", quote>> \o EncodeString(attribute.value) \o <<quote>>

PrintAttributes(attributes) ==
    FlattenSeq([i \in DOMAIN attributes |-> <<" ">> \o PrintAttribute(attributes[i])])

\* The values of a declaration are not encoded.
PrintDeclaration(node) ==
    <<"<?xml", " ">> \o FlattenSeq([i \in DOMAIN node.fields |->
        <<node.fields[i].name, "=", "\"">> \o node.fields[i].value \o <<"\"", " ">>]) \o <<"?>">>

Marked(node) ==
    CASE node.kind = "comment" -> <<"<!--">> \o node.value \o <<"-->">>
      [] node.kind = "unknown" -> <<"<!">> \o node.value \o <<">">>
      [] node.kind = "declaration" -> PrintDeclaration(node)
      [] IsText(node) -> IF node.cdata THEN <<"<![CDATA[">> \o node.value \o <<"]]>">>
                         ELSE EncodeString(node.value)

Indent(depth) == [i \in 1..depth |-> " "]

\* Print(FILE*, depth) of the nodes.
RECURSIVE PrintFile(_, _)
PrintFile(node, depth) ==
    CASE IsText(node) /\ ~node.cdata -> Marked(node)
      [] IsText(node) /\ node.cdata -> <<"\n">> \o Indent(depth) \o Marked(node) \o <<"\n">>
      [] node.kind = "declaration" -> Marked(node)
      [] node.kind \in {"comment", "unknown"} -> Indent(depth) \o Marked(node)
      [] node.kind = "element" ->
           LET kids == node.children
               begin == Indent(depth) \o <<"<", node.name>> \o PrintAttributes(node.attributes)
               end == <<"</", node.name, ">">>
           IN  IF kids = <<>> THEN begin \o <<" ", "/>">>
               ELSE IF Len(kids) = 1 /\ IsText(kids[1])
               THEN begin \o <<">">> \o PrintFile(kids[1], depth + 1) \o end
               ELSE begin \o <<">">>
                    \o FlattenSeq([i \in DOMAIN kids |->
                           (IF IsText(kids[i]) THEN <<>> ELSE <<"\n">>)
                           \o PrintFile(kids[i], depth + 1)])
                    \o <<"\n">> \o Indent(depth) \o end

PrintDocument(document) ==
    FlattenSeq([i \in DOMAIN document |-> PrintFile(document[i], 0) \o <<"\n">>])

\* TiXmlPrinter with SetStreamPrinting: no indentation and no line breaks.
RECURSIVE PrintStream(_)
PrintStream(node) ==
    IF node.kind # "element" THEN Marked(node)
    ELSE LET begin == <<"<", node.name>> \o PrintAttributes(node.attributes)
         IN  IF node.children = <<>> THEN begin \o <<" ", "/>">>
             ELSE begin \o <<">">>
                  \o FlattenSeq([i \in DOMAIN node.children |-> PrintStream(node.children[i])])
                  \o <<"</", node.name, ">">>

Stream(document) == FlattenSeq([i \in DOMAIN document |-> PrintStream(document[i])])
-----------------------------------------------------------------------------
Null == <<"null">>
Live(p) == p # Null /\ p # <<>>
After(p, n) == SubSeq(p, n + 1, Len(p))

SkipWhiteSpace(p) ==
    IF ~Live(p) THEN Null
    ELSE LET first == SelectInSeq(p, LAMBDA t : t \notin White)
         IN  IF first = 0 THEN <<>> ELSE After(p, first - 1)

\* The tokens up to an end mark, and what follows the mark or the end of the text.
UpTo(p, marks) ==
    LET at == SelectInSeq(p, LAMBDA t : t \in marks)
    IN  IF at = 0 THEN [tokens |-> p, rest |-> <<>>]
        ELSE [tokens |-> SubSeq(p, 1, at - 1), rest |-> After(p, at)]

Decoded(tokens) == [i \in DOMAIN tokens |-> GetEntity(tokens[i])]

\* ReadText that trims: white space is one space between two characters.
Condensed(tokens) ==
    LET add(acc, t) ==
            IF t \in White THEN [acc EXCEPT !.white = TRUE]
            ELSE [text |-> acc.text \o (IF acc.white THEN <<" ">> ELSE <<>>) \o <<GetEntity(t)>>,
                  white |-> FALSE]
    IN  FoldLeft(add, [text |-> <<>>, white |-> FALSE], tokens).text

Blank(value) == ToSet(value) \subseteq {" ", "nl"}

\* What a parse returns: the node, the pointer, the first error that was set, and
\* whether the loop of ReadValue is never left.
Parsed(node, p, error) == [node |-> node, p |-> p, error |-> error, endless |-> FALSE]
Failed(node, error) == Parsed(node, Null, error)

ReadName(p) == IF Live(p) /\ Head(p) \in Names THEN Tail(p) ELSE Null

\* The value of an attribute is read up to its quote, white space and all.
ParseAttribute(p0) ==
    LET p == SkipWhiteSpace(p0)
        none == [name |-> "none", value |-> <<>>]
        afterName == IF Live(p) THEN ReadName(p) ELSE Null
        equals == SkipWhiteSpace(afterName)
        quote == SkipWhiteSpace(Tail(equals))
        read == UpTo(Tail(quote), {Head(quote)})
    IN  IF ~Live(p) THEN Parsed(none, Null, "none")
        ELSE IF ~Live(afterName) \/ ~Live(equals) \/ Head(equals) # "=" \/ ~Live(quote)
                \/ Head(quote) \notin {"\"", "'"}
        THEN Failed(none, "READING_ATTRIBUTES")
        ELSE Parsed([name |-> Head(p), value |-> Decoded(read.tokens)], read.rest, "none")

\* Text up to the next '<', which is put back: p - 1, also where the text has ended.
ParseText(p) ==
    LET at == SelectInSeq(p, LAMBDA t : t \in OpenMarks)
        tokens == IF at = 0 THEN p ELSE SubSeq(p, 1, at - 1)
    IN  Parsed(Text(FALSE, Condensed(tokens)), IF at = 0 THEN <<Last(p)>> ELSE After(p, at - 1), "none")

\* No error is set for a declaration without an end: its attributes have no document.
RECURSIVE ParseDeclaration(_, _)
ParseDeclaration(p0, fields) ==
    LET p == SkipWhiteSpace(p0)
        attribute == ParseAttribute(p)
    IN  IF ~Live(p) THEN Parsed(Declaration(fields), Null, "none")
        ELSE IF Head(p) = "?>" THEN Parsed(Declaration(fields), Tail(p), "none")
        ELSE IF attribute.p = Null THEN Parsed(Declaration(fields), Null, "none")
        ELSE ParseDeclaration(attribute.p, Append(fields, attribute.node))

\* A comment, a CDATA section and an unknown also end where the text does.
ParseMarked(p) ==
    LET end == CASE Head(p) = "<!--" -> "-->" [] Head(p) = "<![CDATA[" -> "]]>" [] OTHER -> ">"
        read == UpTo(Tail(p), {end})
    IN  Parsed(CASE Head(p) = "<!--" -> Comment(read.tokens)
                 [] Head(p) = "<![CDATA[" -> Text(TRUE, read.tokens)
                 [] OTHER -> Unknown(read.tokens), read.rest, "none")

RECURSIVE ParseElement(_), ReadAttributes(_, _), ReadValue(_, _), ParseNode(_)

\* Identify and the Parse of what it found.
ParseNode(p) ==
    CASE Head(p) = "<?xml" -> ParseDeclaration(Tail(p), <<>>)
      [] Head(p) \in {"<!--", "<![CDATA[", "<!", "</"} -> ParseMarked(p)
      [] Head(p) = "<" -> IF Len(p) > 1 THEN ParseElement(p) ELSE ParseMarked(p)

First(error, later) == IF error = "none" THEN later ELSE error

\* What is parsed next goes on after an error.
WithError(error, next) == [next EXCEPT !.error = First(error, @)]

\* TiXmlElement::ReadValue: the children, and the pointer to the end tag.
ReadValueAfterText(text, kids) ==
    LET more == IF Blank(text.node.value) THEN kids ELSE Append(kids, text.node)
    IN  IF Len(text.p) = 1 /\ Head(text.p) \notin White \cup OpenMarks
        THEN [Parsed(more, text.p, "none") EXCEPT !.endless = TRUE]
        ELSE ReadValue(text.p, more)

ReadValueAfterNode(node, kids) ==
    IF node.endless THEN [node EXCEPT !.node = kids]
    ELSE WithError(node.error, ReadValue(node.p, kids))

ReadValueAt(p, kids) ==
    IF p = Null THEN Failed(kids, "READING_ELEMENT_VALUE")
    ELSE IF p = <<>> \/ Head(p) = "</" THEN Parsed(kids, p, "none")
    ELSE IF Head(p) \notin OpenMarks THEN ReadValueAfterText(ParseText(p), kids)
    ELSE LET node == ParseNode(p) IN ReadValueAfterNode(node, Append(kids, node.node))

ReadValue(p, kids) == ReadValueAt(SkipWhiteSpace(p), kids)

\* Faulty: the end of the text ends an element.
CloseLenient(name, attributes, value) ==
    LET node == Element(name, attributes, value.node)
        end == IF Len(value.p) > 1 THEN SkipWhiteSpace(After(value.p, 2)) ELSE Null
    IN  IF value.endless THEN [value EXCEPT !.node = node]
        ELSE IF ~Live(value.p) THEN Parsed(node, <<>>, "none")
        ELSE IF Len(value.p) < 2 \/ value.p[2] # name \/ ~Live(end) \/ Head(end) # ">"
        THEN Failed(node, First(value.error, "READING_END_TAG"))
        ELSE Parsed(node, Tail(end), value.error)

\* The rest of TiXmlElement::Parse: the end tag after the value.
Close(name, attributes, value) ==
    LET node == Element(name, attributes, value.node)
        end == IF Len(value.p) > 1 THEN SkipWhiteSpace(After(value.p, 2)) ELSE Null
    IN  IF value.endless THEN [value EXCEPT !.node = node]
        ELSE IF ~Live(value.p) \/ Len(value.p) < 2 \/ value.p[2] # name
                \/ ~Live(end) \/ Head(end) # ">"
        THEN Failed(node, First(value.error, "READING_END_TAG"))
        ELSE Parsed(node, Tail(end), value.error)

\* The loop of TiXmlElement::Parse over the attributes.
ReadAttributes(element, p0) ==
    LET p == SkipWhiteSpace(p0)
        attribute == ParseAttribute(p)
        known == {element.attributes[i].name : i \in DOMAIN element.attributes}
    IN  IF ~Live(p) THEN Failed(element, "READING_ATTRIBUTES")
        ELSE IF Head(p) = "/>" THEN Parsed(element, Tail(p), "none")
        ELSE IF Head(p) = ">"
        THEN Close(element.name, element.attributes, ReadValue(Tail(p), <<>>))
        ELSE IF ~Live(attribute.p) \/ attribute.node.name \in known
        THEN Failed(element, First(attribute.error, "PARSING_ELEMENT"))
        ELSE ReadAttributes([element EXCEPT !.attributes = Append(@, attribute.node)], attribute.p)

ParseElement(p0) ==
    LET p == SkipWhiteSpace(Tail(p0))
        afterName == ReadName(p)
    IN  IF ~Live(afterName) THEN Failed(Element("none", <<>>, <<>>), "FAILED_TO_READ_ELEMENT_NAME")
        ELSE ReadAttributes(Element(Head(p), <<>>, <<>>), afterName)

\* TiXmlDocument::Parse: a node is linked whatever became of its parse.
RECURSIVE ParseNodes(_, _)
ParseNodesAfter(node, nodes) ==
    IF node.endless THEN [node EXCEPT !.node = nodes]
    ELSE WithError(node.error, ParseNodes(node.p, nodes))

ParseNodes(p0, nodes) ==
    LET p == SkipWhiteSpace(p0)
        node == ParseNode(p)
    IN  IF ~Live(p) \/ Head(p) \notin OpenMarks
        THEN Parsed(nodes, p, IF nodes = <<>> THEN "DOCUMENT_EMPTY" ELSE "none")
        ELSE ParseNodesAfter(node, Append(nodes, node.node))

ParseDocument(p) ==
    IF ~Live(p) THEN Failed(<<>>, "DOCUMENT_EMPTY") ELSE ParseNodes(p, <<>>)
-----------------------------------------------------------------------------
(* A document is printed in one of the two ways, its text arrives whole or *)
(* cut off (the Server job of src/src/main.cpp parses what one receive     *)
(* gave it), and is parsed.                                                *)

CONSTANT MaxKids      \* bound: the children of the root element

VARIABLES document, wire, cut, parsed

vars == <<document, wire, cut, parsed>>

Texts == {<<>>, <<" ">>, <<"a">>, <<" ", "a">>, <<"a", " ", " ", "b">>, <<"nl">>, <<"a", "nl">>,
          <<"<", "&">>, <<"\"", "'">>}
Attribute(name, value) == [name |-> name, value |-> value]
Kids == {Text(FALSE, t) : t \in Texts}
    \cup {Text(TRUE, <<>>), Text(TRUE, <<" ", "&">>), Comment(<<"a">>), Unknown(<<"a">>),
          Element("f", <<>>, <<>>),
          Element("f", <<Attribute("n", <<" ", "\"", "nl">>), Attribute("m", <<"'", "<">>)>>,
                  <<Text(FALSE, <<"a">>)>>),
          Element("f", <<>>, <<Element("e", <<>>, <<Text(TRUE, <<"a">>), Comment(<<>>)>>)>>)}
Header == Declaration(<<Attribute("version", <<"1">>), Attribute("standalone", <<"a">>)>>)
Documents ==
    LET roots == {Element("e", <<>>, kids) : kids \in UNION {[1..n -> Kids] : n \in 0..MaxKids}}
    IN  {<<root>> : root \in roots} \cup {<<Header, root>> : root \in {r \in roots : Len(r.children) < 2}}

NotYet == Parsed(<<>>, Null, "not parsed")

Init == document = <<>> /\ wire = <<>> /\ cut = FALSE /\ parsed = NotYet

PrintOut ==
    /\ wire = <<>>
    /\ document' \in Documents
    /\ wire' \in {PrintDocument(document'), Stream(document')}
    /\ UNCHANGED <<cut, parsed>>

\* The name of the root element has come and its end has not.
Cut ==
    /\ wire # <<>> /\ ~cut /\ parsed = NotYet
    /\ \E n \in 1..Len(wire) :
           /\ "e" \in ToSet(SubSeq(wire, 1, n)) /\ \E k \in n + 1..Len(wire) : wire[k] \notin White
           /\ wire' = SubSeq(wire, 1, n)
    /\ cut' = TRUE
    /\ UNCHANGED <<document, parsed>>

Parse ==
    /\ wire # <<>> /\ parsed = NotYet
    /\ parsed' = ParseDocument(wire)
    /\ UNCHANGED <<document, wire, cut>>

Next == PrintOut \/ Cut \/ Parse

Spec == Init /\ [][Next]_vars
-----------------------------------------------------------------------------
(* What a document is once white space is condensed: neighbouring texts are one text,   *)
(* its runs of spaces are one space, none at its ends, and a blank one is no node.      *)
Plain(node) == IsText(node) /\ ~node.cdata
Tidy(t) ==
    LET letters == {i \in DOMAIN t : t[i] # " "}
        keep == letters \cup {i \in DOMAIN t : i + 1 \in letters /\ \E j \in letters : j < i}
        kept == SelectSeq([i \in DOMAIN t |-> i], LAMBDA i : i \in keep)
    IN  [k \in DOMAIN kept |-> t[kept[k]]]

Merged(kids) ==
    LET add(acc, kid) ==
            IF acc # <<>> /\ Plain(kid) /\ Plain(Last(acc))
            THEN Append(Front(acc), Text(FALSE, Last(acc).value \o kid.value))
            ELSE Append(acc, kid)
    IN  FoldLeft(add, <<>>, kids)

RECURSIVE Canon(_)
Canon(node) ==
    CASE Plain(node) -> Text(FALSE, Tidy(node.value))
      [] node.kind = "element" ->
           [node EXCEPT !.children =
               SelectSeq([i \in DOMAIN Merged(@) |-> Canon(Merged(@)[i])],
                         LAMBDA kid : ~(Plain(kid) /\ Blank(kid.value)))]
      [] OTHER -> node

\* Both printers write what the parser reads back (tinyxml.cpp, Print and TiXmlPrinter;
\* tinyxmlparser.cpp, Parse): all but the white space of text, which is condensed, and
\* no error is set.
RoundTrip ==
    (parsed # NotYet /\ ~cut) =>
        /\ parsed.error = "none" /\ ~parsed.endless
        /\ parsed.node = [i \in DOMAIN document |-> Canon(document[i])]

\* The text ends inside a text: a character follows the last mark, and no tag, comment
\* or declaration is open.
CutInText ==
    LET at == SelectLastInSeq(wire, LAMBDA t : t \in OpenMarks \cup CloseMarks)
    IN  at \in 1..Len(wire) - 1 /\ wire[at] \in CloseMarks /\ Last(wire) \notin White

\* What becomes of a document that is cut off inside its root element: an error is
\* set, except inside a text, where ReadText stops at the end, TiXmlText::Parse steps
\* back one character all the same, and ReadValue is never left
\* (tinyxmlparser.cpp:1110-1141, 1176-1215, 1536).
CutIsNoticed ==
    (parsed # NotYet /\ cut) =>
        /\ parsed.endless <=> CutInText
        /\ ~parsed.endless => parsed.error # "none"

\* "Note this is an Element method, and will set the error if one happens", of ReadValue
\* (tinyxmlparser.cpp:1109): a document without the end of its root element is
\* reported as an error.
CutSetsError == (parsed # NotYet /\ cut) => ~parsed.endless /\ parsed.error # "none"
=============================================================================
