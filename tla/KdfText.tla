------------------------------- MODULE KdfText -------------------------------
(***************************************************************************)
(* The text format (src/src/kdf_text_writer.c, kdf_text_parser.c): what    *)
(* kdf_text_write makes of a document, through a write function that may   *)
(* fail at any call or take a part of what it is given, and what           *)
(* kdf_text_read makes of what was accepted, through a read function that  *)
(* may return less than it is asked for and may fail.                      *)
(*                                                                         *)
(* A stream is a sequence of characters.  An identifier counts as one, and *)
(* a keyword as two, so that a keyword can be cut in two by the end of the *)
(* stream or of the parser's buffer.  A key or type name counts as one if  *)
(* it is an identifier, or is refused as a whole wherever it stands;       *)
(* Spelling has the others.  Spaces, which the parser skips wherever the   *)
(* writer puts them, and lines are left out.  Storing a value that was     *)
(* read succeeds here, and so do the allocations of containers.            *)
(***************************************************************************)
EXTENDS KdfTree, KdfNumber

CONSTANTS
  Documents,       \* the root objects that are written
  Characters,      \* what strings are made of
  Identifiers,     \* the keys and type names parser_read_ident takes
  Spelling,        \* the characters of those names that are more than one
  Chunks           \* how many characters each call of the read function gives

NewLine == "\n"

\* The payload of a plain value is flag, n, x, xs or str.
NullValue   == [type |-> "null"]
Bool(b)     == [type |-> "bool", flag |-> b]
VectorSize  == [vec2 |-> 2, vec3 |-> 3, vec4 |-> 4, quat |-> 4, color |-> 4]
Vectors     == DOMAIN VectorSize
Numbers     == {"int", "uint", "float"}
StringTypes == {"string", "asset_ref", "resource_ref"}
PlainTypes  == {"null", "bool"} \cup Numbers \cup StringTypes \cup Vectors
Keywords == {"kdf", "null", "true", "false", "asset", "external", "subresource"} \cup Vectors

PlainOK(v) ==
  /\ v.type = "null" => v = NullValue
  /\ v.type = "bool" => v = Bool(v.flag) /\ v.flag \in BOOLEAN
  /\ v.type = "int" => v = IntVal(v.n) /\ v.n \in Ints
  /\ v.type = "uint" => v = UintVal(v.n) /\ v.n \in Uints
  /\ v.type = "float" => v = FloatVal(v.x) /\ v.x \in Decimals
  /\ v.type \in StringTypes => /\ v = [type |-> v.type, str |-> v.str]
                               /\ v.str \in Seq(Characters) \cup {NULL}
  /\ v.type \in Vectors => /\ v = [type |-> v.type, xs |-> v.xs]
                           /\ v.xs \in Seq(Decimals) /\ Len(v.xs) = VectorSize[v.type]

\* A key that is NULL cannot be written (KdfObject), and no two are equal.
KeysOK(v) ==
  v.type \in ObjectTypes =>
    \A i \in DOMAIN Members(v) : KeyOf(v, i) # NULL /\ \A j \in 1 .. i - 1 : KeyOf(v, j) # KeyOf(v, i)

ASSUME TextAssumption ==
  /\ Depth \in [Values -> Nat]
  /\ \A v \in Values : \/ v.type \in PlainTypes /\ PlainOK(v)
                       \/ v.type \in Containers /\ ContainerOK(v) /\ KeysOK(v)
  /\ Documents \subseteq {v \in Values : v.type = "object" /\ v.members # NULL}
  /\ Chunks \subseteq Nat \ {0}
  /\ Identifiers \subseteq Contents /\ EOF \notin Contents \cup Characters
  /\ Characters \cap Keywords = {}

VARIABLES
  doc,             \* the root object that is written
  todo,            \* what remains to be written
  werror,          \* w.error
  out,             \* what the write function accepted
  status,          \* "idle", "writing", "header", "body",
                   \*   "doc" (a document was returned) or "null"
  input,           \* what the read function will deliver before it returns 0
  rerror,          \* does it return 0 for an error rather than for the end?
  chunk,           \* how much it delivers at once, at most
  pos,             \* where in input p->cur is
  stack,           \* the containers that are being read, innermost first
  result           \* the root object that was returned

vars == <<doc, todo, werror, out, status, input, rerror, chunk, pos, stack, result>>
writerVars == <<doc, todo, werror, out>>
readerVars == <<input, rerror, chunk, pos, stack, result>>

-----------------------------------------------------------------------------
\* kdf_text_write.
Keyword(word) == <<word, "~">>

\* tw_quoted.  Mutated form: a backslash is not escaped.
Letters == [n |-> "\n", r |-> "\r", t |-> "\t"]
EscapedButBackslash(c) ==
  IF c \in Range(Letters) THEN <<"\\", CHOOSE l \in DOMAIN Letters : Letters[l] = c>>
  ELSE IF c = "\"" THEN <<"\\", c>> ELSE <<c>>
Escaped(c) ==
  IF c \in Range(Letters) THEN <<"\\", CHOOSE l \in DOMAIN Letters : Letters[l] = c>>
  ELSE IF c \in {"\"", "\\"} THEN <<"\\", c>> ELSE <<c>>
Quoted(str) ==
  <<"\"">> \o (IF str = NULL THEN <<>> ELSE FlattenSeq([i \in DOMAIN str |-> Escaped(str[i])]))
  \o <<"\"">>

\* tw_write_float_list4.
FloatListText(xs) ==
  <<"(">> \o FlattenSeq([i \in DOMAIN xs |->
               (IF i > 1 THEN <<",">> ELSE <<>>) \o FloatText(xs[i])]) \o <<")">>

\* tw_str: keys and type names are written as they are.
Spelled(name) == IF name \in DOMAIN Spelling THEN Spelling[name] ELSE <<name>>

\* tw_write_value and tw_write_object_body, given what they write of the members.
Shorthand(v) == v.type = "object" /\ v.members # NULL /\ v.name = NULL
BodyText(v, below) ==
  FlattenSeq([i \in DOMAIN below |->
    Spelled(KeyOf(v, i)) \o (IF Shorthand(Child(v, i)) THEN <<>> ELSE <<"=">>) \o below[i] \o <<NewLine>>])
ItemsText(below) ==
  FlattenSeq([i \in DOMAIN below |->
    below[i] \o (IF i < Len(below) THEN <<",">> ELSE <<>>) \o <<NewLine>>])
Rendered(v, below) ==
  CASE v.type = "null" -> Keyword("null")
    [] v.type = "bool" -> Keyword(IF v.flag THEN "true" ELSE "false")
    [] v.type \in Numbers -> NumberText(v)
    [] v.type = "string" -> Quoted(v.str)
    [] v.type \in Vectors -> Keyword(v.type) \o FloatListText(v.xs)
    [] v.type = "asset_ref" -> Keyword("asset") \o <<"(">> \o Quoted(v.str) \o <<")">>
    [] v.type = "resource_ref" -> Keyword("external") \o <<"(">> \o Quoted(v.str) \o <<")">>
    [] v.type = "array" -> IF below = <<>> THEN <<"[", "]">>
                           ELSE <<"[", NewLine>> \o ItemsText(below) \o <<"]">>
    [] v.type \in ObjectTypes ->
         IF v.members = NULL THEN <<"{", "}">>
         ELSE (IF v.name = NULL THEN <<>> ELSE Keyword("subresource") \o Spelled(v.name))
              \o <<"{", NewLine>> \o BodyText(v, below) \o <<"}">>
ValueText[v \in Values] ==
  Rendered(v, [i \in DOMAIN Members(v) |-> ValueText[Child(v, i)]])

Text(root) ==
  Keyword("kdf") \o <<"1", NewLine>>
  \o (IF Members(root) = <<>> THEN <<>>
      ELSE <<NewLine>> \o BodyText(root, [i \in DOMAIN Members(root) |-> ValueText[Child(root, i)]]))

\* tw_write.  Mutated form: the write function is called after it failed.
TwWriteOn(data, error, c) == {<<Append(data, c), error>>, <<data, "io">>}
TwWrite(data, error, c) ==
  IF error = "io" THEN {<<data, error>>}
  ELSE {<<Append(data, c), error>>, <<data, "io">>}

-----------------------------------------------------------------------------
\* What parser operations see at a position of input.
At(p) == CharAt(input, p)
SameBuffer(p, q) == (p - 1) \div chunk = (q - 1) \div chunk

\* parser_try_keyword: all of the word has to be in the buffer.
KeywordAt(p, word) == At(p) = word /\ At(p + 1) = "~" /\ SameBuffer(p, p + 1)

\* parser_skip_blank_lines: line ends, and comments up to theirs.
Skipped(p, k) ==
  \/ At(k) = NewLine
  \/ \E h \in p .. k : At(h) = "#" /\ \A j \in h .. k : At(j) \notin {NewLine, EOF}
BlanksEnd(p) == CHOOSE q \in p .. Len(input) + 1 :
  ~Skipped(p, q) /\ \A k \in p .. q - 1 : Skipped(p, k)

\* parser_read_quoted_string behind the opening quote.  Mutated form: the end
\* of the stream closes the string.
Unescaped(c) == IF c \in DOMAIN Letters THEN Letters[c] ELSE c
Prefixed(c, read) == IF read = Bad THEN Bad ELSE Read(read.end, <<c>> \o read.val)
UnclosedString(p) == Read(Len(input) + 1, <<>>)
Unclosed(p) == Bad
RestOfString[p \in 1 .. Len(input) + 2] ==
  CASE At(p) = EOF  -> Unclosed(p)
    [] At(p) = "\"" -> Read(p + 1, <<>>)
    [] At(p) = "\\" -> Prefixed(Unescaped(At(p + 1)), RestOfString[p + 2])
    [] OTHER        -> Prefixed(At(p), RestOfString[p + 1])
QuotedAt(p) == IF At(p) = "\"" THEN RestOfString[p + 1] ELSE Bad

\* asset("..."), external("...").
ReferenceAt(p) ==
  LET quoted == IF At(p) = "(" THEN QuotedAt(p + 1) ELSE Bad IN
  IF quoted # Bad /\ At(quoted.end) = ")" THEN Read(quoted.end + 1, quoted.val) ELSE Bad

\* parser_read_float_list: the components one after the other; an empty set if
\* the code reports an error.
OneMore(read) ==
  {Read(number.end, Append(read.val, AsFloat(number.val))) :
     number \in IF At(read.end) = (IF read.val = <<>> THEN "(" ELSE ",")
                THEN {ReadNumber(input, read.end + 1)} \ {Bad} ELSE {}}
ComponentsAt(p, n) ==
  LET first[k \in 0 .. n] ==
        IF k = 0 THEN {Read(p, <<>>)} ELSE UNION {OneMore(read) : read \in first[k - 1]}
  IN  first[n]
FloatListAt(p, n) ==
  LET lists == {list \in ComponentsAt(p, n) : At(list.end) = ")"} IN
  IF lists = {} THEN Bad ELSE LET list == CHOOSE l \in lists : TRUE IN Read(list.end + 1, list.val)

\* parser_parse_value, the values that are no containers.
As(read, type, field) ==
  IF read = Bad THEN Bad
  ELSE Read(read.end, [f \in {"type", field} |-> IF f = "type" THEN type ELSE read.val])
PlainAt(p) ==
  CASE KeywordAt(p, "null")  -> Read(p + 2, NullValue)
    [] KeywordAt(p, "true")  -> Read(p + 2, Bool(TRUE))
    [] KeywordAt(p, "false") -> Read(p + 2, Bool(FALSE))
    [] \E t \in Vectors : KeywordAt(p, t) ->
         As(FloatListAt(p + 2, VectorSize[At(p)]), At(p), "xs")
    [] KeywordAt(p, "asset") -> As(ReferenceAt(p + 2), "asset_ref", "str")
    [] KeywordAt(p, "external") -> As(ReferenceAt(p + 2), "resource_ref", "str")
    [] At(p) = "\"" -> As(QuotedAt(p), "string", "str")
    [] IsDigit(At(p)) \/ At(p) = "-" -> ReadNumber(input, p)
    [] OTHER -> Bad

\* parser_parse_value, the beginning of a container: the new, empty value.
ContainerAt(p) ==
  CASE At(p) = "[" -> Read(p + 1, Blank("array"))
    [] At(p) = "{" -> Read(p + 1, Blank("object"))
    [] KeywordAt(p, "subresource") /\ At(p + 2) \in Identifiers /\ At(p + 3) = "{" ->
         Read(p + 4, [Blank("subresource") EXCEPT !.name = At(p + 2)])
    [] OTHER -> Bad

\* A container being read: its value so far, and the key it will have in the
\* container around it (KdfDocument has who refers to it until then).
Frame(node, key) == [node |-> node, key |-> key]
Top == Head(stack)
InArray == Top.node.type = "array"

\* The loops over properties and elements skip blank lines first.
Here == BlanksEnd(pos)
Key  == IF InArray THEN NULL ELSE At(Here)

\* Where a value has to begin: behind key and "=", or here in an array that
\* does not end here.
ValueStart ==
  IF InArray THEN IF At(Here) = "]" THEN {} ELSE {Here}
  ELSE IF At(Here) \in Identifiers /\ At(Here + 1) = "=" THEN {Here + 2} ELSE {}

\* The frame in which a member was stored.
Filled(frame, key, v) == [frame EXCEPT !.node = With(@, key, v)]

\* Behind an element of an array, a comma may follow.
After(frame, p) == IF frame.node.type = "array" /\ At(p) = "," THEN p + 1 ELSE p

-----------------------------------------------------------------------------
Init ==
  /\ doc \in Documents
  /\ todo = Text(doc) /\ werror = "ok" /\ out = <<>>
  /\ status = "writing"
  /\ input = <<>> /\ rerror = FALSE /\ chunk = 1 /\ pos = 1
  /\ stack = <<>> /\ result = NULL

WriteChar ==
  /\ status = "writing" /\ todo # <<>>
  /\ \E written \in TwWrite(out, werror, Head(todo)) :
       out' = written[1] /\ werror' = written[2]
  /\ todo' = Tail(todo)
  /\ UNCHANGED <<doc, status, readerVars>>

\* kdf_text_write returned werror; kdf_text_read is called on what came, with
\* a read function that gives chunk' characters a call, and may fail at one.
Open ==
  /\ status = "writing" /\ todo = <<>> /\ status' = "header"
  /\ chunk' \in Chunks
  /\ \/ input' = out /\ rerror' = FALSE
     \/ \E calls \in 0 .. Len(out) \div chunk' :
          input' = SubSeq(out, 1, calls * chunk') /\ rerror' = TRUE
  /\ UNCHANGED <<writerVars, pos, stack, result>>

\* parser_parse_file: the rest of the line behind the version is skipped.
HeaderFound == KeywordAt(1, "kdf") /\ IsDigit(At(3))
LineEnd(p) == CHOOSE q \in p .. Len(input) + 1 :
  At(q) \in {NewLine, EOF} /\ \A k \in p .. q - 1 : At(k) # NewLine
ReadHeader ==
  /\ status = "header" /\ HeaderFound
  /\ pos' = BlanksEnd(LineEnd(DigitsEnd(input, 3)))
  /\ stack' = <<Frame(Blank("object"), NULL)>>
  /\ status' = "body"
  /\ UNCHANGED <<writerVars, input, rerror, chunk, result>>

\* A property or an element whose value is no container.
ReadPlain ==
  /\ status = "body"
  /\ \E p \in ValueStart : \E read \in {PlainAt(p)} \ {Bad} :
       /\ stack' = <<Filled(Top, Key, read.val)>> \o Tail(stack)
       /\ pos' = After(Top, read.end)
  /\ UNCHANGED <<writerVars, status, input, rerror, chunk, result>>

\* key = [ ... ], { ... } or subresource Name { ... }, or one as an element.
OpenContainer ==
  /\ status = "body"
  /\ \E p \in ValueStart : \E read \in {ContainerAt(p)} \ {Bad} :
       /\ stack' = <<Frame(read.val, Key)>> \o stack
       /\ pos' = read.end
  /\ UNCHANGED <<writerVars, status, input, rerror, chunk, result>>

\* key { ... }: the object is added to the one around it before it is read.
IsShorthand == ~InArray /\ At(Here) \in Identifiers /\ At(Here + 1) = "{"
OpenShorthand ==
  /\ status = "body" /\ IsShorthand
  /\ stack' = <<Frame(Blank("object"), Key)>> \o stack
  /\ pos' = Here + 2
  /\ UNCHANGED <<writerVars, status, input, rerror, chunk, result>>

\* The end of parser_parse_array and of parser_parse_block.  Mutated form: a
\* block may end with the stream, as the root object may.
ClosesAtEof(frame) ==
  IF frame.node.type = "array" THEN At(Here) = "]" ELSE At(Here) \in {"}", EOF}
Closes(frame) == At(Here) = (IF frame.node.type = "array" THEN "]" ELSE "}")
CloseContainer ==
  /\ status = "body" /\ Len(stack) > 1 /\ Closes(Top)
  /\ stack' = <<Filled(stack[2], Top.key, Top.node)>> \o SubSeq(stack, 3, Len(stack))
  /\ pos' = After(stack[2], Here + 1)
  /\ UNCHANGED <<writerVars, status, input, rerror, chunk, result>>

\* parser_parse_object_body on the root object: a bracket ends it as well.
RootEnds == Len(stack) = 1 /\ At(Here) \in {EOF, "}", "]"}
ReturnDocument ==
  /\ status = "body" /\ RootEnds
  /\ status' = "doc" /\ result' = Top.node /\ stack' = <<>>
  /\ UNCHANGED <<writerVars, input, rerror, chunk, pos>>

\* KDF_ERROR_PARSE goes up to kdf_text_read, which destroys the document.
\* Mutated form: at the end of the stream, parsing waits for more.
ValueFails == \A p \in ValueStart : PlainAt(p) = Bad /\ ContainerAt(p) = Bad
ParseFailsNotAtEof ==
  \/ status = "header" /\ ~HeaderFound
  \/ /\ status = "body" /\ ~RootEnds /\ ~IsShorthand
     /\ ~(Len(stack) > 1 /\ Closes(Top)) /\ ValueFails /\ At(Here) # EOF
ParseFails ==
  \/ status = "header" /\ ~HeaderFound
  \/ /\ status = "body" /\ ~RootEnds /\ ~IsShorthand
     /\ ~(Len(stack) > 1 /\ Closes(Top)) /\ ValueFails
ReturnNull ==
  /\ ParseFails
  /\ status' = "null" /\ stack' = <<>>
  /\ UNCHANGED <<writerVars, input, rerror, chunk, pos, result>>

Write == WriteChar \/ Open
Parse == \/ ReadHeader \/ ReadPlain \/ OpenContainer \/ OpenShorthand \/ CloseContainer
         \/ ReturnDocument \/ ReturnNull
Next  == Write \/ Parse

\* The library runs in its caller's thread and never waits: a call that was
\* made goes on until it returns, as do the caller's read and write functions.
Spec  == Init /\ [][Next]_vars /\ WF_vars(Next)

-----------------------------------------------------------------------------
\* Types; containers are open exactly while a document is read; the parser is
\* never more than one character past the end of the stream.
TypeOK ==
  /\ status \in {"writing", "header", "body", "doc", "null"}
  /\ werror \in {"ok", "io"} /\ rerror \in BOOLEAN
  /\ pos \in 1 .. Len(input) + 1
  /\ stack # <<>> <=> status = "body"
  /\ stack # <<>> => Last(stack).node.type = "object"
  /\ IF status = "doc" THEN result.type = "object" ELSE result = NULL

\* tw_write's error is sticky: what the write function was given is always an
\* unbroken beginning of the text of the document, so that a failed write
\* leaves no hole behind which more was written; and kdf_text_write returns
\* KDF_OK only when all of it was accepted.
WriterHonest ==
  /\ IsPrefix(out, Text(doc))
  /\ todo = <<>> /\ werror = "ok" => out = Text(doc)

-----------------------------------------------------------------------------
\* What the text form keeps of a value: a string that is NULL is empty, a child
\* that is NULL an empty container; an object with a type name comes back as a
\* subresource and one without as an object; versions and the name of the root
\* are not written; a float without a fraction comes back as an integer, and in
\* a vector as what that integer is, so that -0 loses its sign.
KeptOf(v, below) ==
  CASE v.type \in Numbers -> Reread(v)
    [] v.type \in StringTypes -> IF v.str = NULL THEN [v EXCEPT !.str = <<>>] ELSE v
    [] v.type \in Vectors ->
         [v EXCEPT !.xs = [i \in DOMAIN v.xs |-> AsFloat(Reread(FloatVal(v.xs[i])))]]
    [] v.type \in Containers ->
         [type |-> IF v.type = "array" THEN "array" ELSE IF v.name = NULL THEN "object" ELSE "subresource",
          name |-> v.name, version |-> 0,
          members |-> [i \in DOMAIN below |-> [key |-> KeyOf(v, i), value |-> below[i]]]]
    [] OTHER -> v
Kept[v \in Values] == KeptOf(v, [i \in DOMAIN Members(v) |-> Kept[Child(v, i)]])
KeptDocument(root) == [Kept[root] EXCEPT !.type = "object", !.name = NULL]

\* Documents whose text is in the grammar of the parser: keys and type names
\* are identifiers, and all of each number's text is a number.
ReadableOf(v, below) ==
  CASE v.type \in Numbers -> WholeTextIsNumber(v)
    [] v.type \in Vectors -> \A i \in DOMAIN v.xs : WholeTextIsNumber(FloatVal(v.xs[i]))
    [] v.type = "array" -> \A i \in DOMAIN below : below[i]
    [] v.type \in ObjectTypes -> /\ v.name \in Identifiers \cup {NULL}
                                 /\ \A i \in DOMAIN below : KeyOf(v, i) \in Identifiers /\ below[i]
    [] OTHER -> TRUE
Readable[v \in Values] == ReadableOf(v, [i \in DOMAIN Members(v) |-> Readable[Child(v, i)]])
ReadableDocument ==
  \A i \in DOMAIN Members(doc) : KeyOf(doc, i) \in Identifiers /\ Readable[Child(doc, i)]

\* No keyword lies across the end of a buffer.
KeywordsWhole ==
  \A p \in DOMAIN input : At(p) \in Keywords /\ At(p + 1) = "~" => SameBuffer(p, p + 1)

Arrived == input = Text(doc)

\* kdf_text_read gives back what the text form keeps of the document that
\* kdf_text_write was given, through all levels, for any string and integer,
\* exactly when the document is readable and no keyword was cut; it never
\* gives back anything else from the whole text, as long as each key and type
\* name is one word to the parser (KdfTextWords; see OnlyWhatWasWritten).
RoundTrip ==
  /\ status = "doc" /\ Arrived => /\ result = KeptDocument(doc)
                                  /\ ReadableDocument /\ KeywordsWhole
  /\ status = "null" /\ Arrived => ~(ReadableDocument /\ KeywordsWhole)

\* A document that was returned from a text that was cut, by a failed write or
\* a failed read, in whatever buffers the rest came, is the beginning of the
\* one that was written: complete properties of the root object in their
\* order, of which only the last, if it is a number, may be cut short itself.
\* Again each key and type name is one word to the parser.
TornShortens ==
  status = "doc" =>
    LET got  == result.members
        kept == KeptDocument(doc).members IN
    /\ Len(got) <= Len(kept)
    /\ \A i \in DOMAIN got :
         \/ got[i] = kept[i]
         \/ /\ ~Arrived /\ i = Len(got)
            /\ got[i].key = kept[i].key
            /\ {got[i].value.type, Child(doc, i).type} \subseteq Numbers

\* Writing and then reading comes to an end, whatever fails.
ParseEnds == <>(status \in {"doc", "null"})

\* A read function may give less than it is asked for (include/kdf/kdf_io.h:21);
\* the text of a readable document is read whatever its buffers are.
AnyBufferWillDo == status = "null" => rerror \/ ~Arrived \/ ~ReadableDocument

\* A document that was written with KDF_OK (include/kdf/kdf_text.h:12) and all
\* of whose text is read comes back, or NULL "on error" (16), whatever its keys
\* are, but for what the text form does not keep.
OnlyWhatWasWritten == status = "doc" /\ Arrived => result = KeptDocument(doc)
=============================================================================
