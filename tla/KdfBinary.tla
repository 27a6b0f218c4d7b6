------------------------------ MODULE KdfBinary ------------------------------
(***************************************************************************)
(* The binary format (src/src/kdf_binary_writer.c, kdf_binary_reader.c): a *)
(* document is written through a caller's write function that may fail at  *)
(* any call, and what it accepted is read back through a caller's read     *)
(* function that may fail at any call too.                                 *)
(*                                                                         *)
(* A stream is a sequence of numbers and string contents, one for each     *)
(* bw_write of the code (the four bytes of the magic and the components of *)
(* a literal count as one; a half accepted write is as good as none to the *)
(* reader).  A document is a tree of records; an interned string is its    *)
(* content (KdfStringPool).  Storing a value that was read into an object  *)
(* or an array succeeds here: KdfObject and KdfArray model how it may not. *)
(***************************************************************************)
EXTENDS KdfTree

CONSTANTS
  Documents,       \* the root objects that are written
  EMPTY,           \* the content of the empty string
  Junk,            \* what an uninitialised slot holds
  TableCap,        \* how many strings the first table of the writer holds
  AllocFails       \* may the allocations of the writer and the reader fail?

NoIndex  == -1          \* UINT32_MAX, and the type index of an unnamed object
Magic    == 1111901259  \* "KDFB"

Types == <<"null", "bool", "int", "uint", "float", "string", "vec2", "vec3",
           "vec4", "quat", "color", "array", "object", "asset_ref",
           "resource_ref", "subresource">>
Tag(type) == (CHOOSE i \in DOMAIN Types : Types[i] = type) - 1
StringTypes  == {"string", "asset_ref", "resource_ref"}
PlainTypes   == Range(Types) \ Containers

\* A plain value is [type, lit], with the content of a string or NULL.
PlainOK(v) ==
  /\ v = [type |-> v.type, lit |-> v.lit]
  /\ v.type = "null" => v.lit = NULL
  /\ v.type \in StringTypes => v.lit \in Contents \cup {NULL}

ASSUME BinaryAssumption ==
  /\ EMPTY \in Contents /\ NULL \notin Contents \cup Int /\ Junk \notin Contents
  /\ TableCap \in Nat \ {0} /\ AllocFails \in BOOLEAN

ASSUME ValuesAssumption ==
  /\ Depth \in [Values -> Nat]
  /\ \A v \in Values : \/ v.type \in PlainTypes /\ PlainOK(v)
                       \/ v.type \in Containers /\ ContainerOK(v)
  /\ Documents \subseteq {v \in Values : v.type = "object"}

VARIABLES
  doc,             \* the root object that is written
  lean,            \* may the allocations of this writer fail?
  strings,         \* st, the writer's string table
  todo,            \* what remains to be collected, then what remains to be written
  werror,          \* w.error
  out,             \* what the write function accepted
  status,          \* "collecting", "writing", "magic", "count", "strings",
                   \*   "tree", "doc" (a document was returned) or "null"
  pos,             \* how much of out was read
  table,           \* r.str_table, <<>> when it is not allocated
  stack,           \* the containers that are being read, innermost first
  result,          \* the root object that was returned
  wild             \* was memory freed that nobody allocated?

vars == <<doc, lean, strings, todo, werror, out, status, pos, table, stack, result, wild>>
writerVars == <<doc, lean, strings, todo, werror, out>>

-----------------------------------------------------------------------------
\* The writer's first pass: the strings of a value in the order it visits them,
\* given those of its members.  Mutated form: the strings in arrays are forgotten.
CollectedNotInArrays(v, below) ==
  IF v.type \in StringTypes THEN <<v.lit>>
  ELSE IF v.type \in ObjectTypes /\ v.members # NULL
  THEN <<v.name>> \o FlattenSeq([i \in DOMAIN below |-> <<KeyOf(v, i)>> \o below[i]])
  ELSE <<>>
Collected(v, below) ==
  IF v.type \in StringTypes THEN <<v.lit>>
  ELSE IF v.type \in ObjectTypes /\ v.members # NULL
  THEN <<v.name>> \o FlattenSeq([i \in DOMAIN below |-> <<KeyOf(v, i)>> \o below[i]])
  ELSE FlattenSeq(below)
StringsOf(v) ==
  LET collected[u \in Values] ==
        Collected(u, [i \in DOMAIN Members(u) |-> collected[Members(u)[i].value]])
  IN  collected[v]

\* str_table_add.  The table is full when its count is 0 or the first size
\* doubled some times; a string that finds no room is left out.
TableFull(n) == n = 0 \/ \E k \in 0 .. n : n = TableCap * 2^k
TablesAfter(st, s, fails) ==
  IF s = NULL \/ s \in Range(st) THEN {st}
  ELSE {IF grown THEN Append(st, s) ELSE st :
          grown \in IF fails /\ TableFull(Len(st)) THEN BOOLEAN ELSE {TRUE}}

\* str_index.
IndexIn(st, s) ==
  IF s \in Range(st) THEN (CHOOSE i \in DOMAIN st : st[i] = s) - 1 ELSE NoIndex

\* The writer's second pass: what it writes of a value behind its tag, before
\* each member, and in all.
HeaderOf(v, st) ==
  CASE v.type = "null" -> <<>>
    [] v.type \in StringTypes -> <<IndexIn(st, v.lit)>>
    [] v.type = "array" -> <<Len(Members(v))>>
    [] v.type \in ObjectTypes -> <<IndexIn(st, v.name), v.version, Len(Members(v))>>
    [] OTHER -> <<v.lit>>
LeadOf(v, i, st) ==
  (IF v.type = "array" THEN <<>> ELSE <<IndexIn(st, KeyOf(v, i))>>)
    \o <<Tag(Members(v)[i].value.type)>>
Laid(v, st, below) ==
  HeaderOf(v, st) \o FlattenSeq([i \in DOMAIN below |-> LeadOf(v, i, st) \o below[i]])
Written(v, st) ==
  LET laid[u \in Values] ==
        Laid(u, st, [i \in DOMAIN Members(u) |-> laid[Members(u)[i].value]])
  IN  laid[v]

\* A string is its length, here 0 or 1, and its bytes if it has any.
WrittenTable(st) ==
  <<Len(st)>> \o FlattenSeq([i \in DOMAIN st |->
     IF st[i] = EMPTY THEN <<0>> ELSE <<1, st[i]>>])

\* Everything kdf_binary_write writes: magic, version and flags first.
Stream(root, st) == <<Magic, 1, 0>> \o WrittenTable(st) \o Written(root, st)

\* bw_write.  Mutated form: the write function is called after it failed.
BwWriteOn(data, error, item) == {<<Append(data, item), error>>, <<data, "io">>}
BwWrite(data, error, item) ==
  IF error = "io" THEN {<<data, error>>}
  ELSE {<<Append(data, item), error>>, <<data, "io">>}

-----------------------------------------------------------------------------
\* What the reader has of a container it is reading: the value so far, how
\* many members are still to come (Unread before the header of an object was
\* read), and the key it will have in the container around it.
Unread == NULL
Frame(type, left, key) == [left |-> left, key |-> key, node |-> Blank(type)]

\* br_get_string.
GetString(i) == IF i = NoIndex \/ i >= Len(table) THEN EMPTY ELSE table[i + 1]

\* The loops over members.  Mutated forms: one more round than members; a
\* stream that is used up ends the loop as if it were done.
AllReadLate(frame) == frame.left = -1
AllReadAtEof(frame) == frame.left = 0 \/ (frame.left # Unread /\ pos = Len(out))
AllRead(frame) == frame.left = 0

Top == Head(stack)
Has(n) == pos + n <= Len(out)
Next1(n) == out[pos + n]
\* An object's member has its key before its tag.
Lead == IF Top.node.type = "array" THEN 0 ELSE 1
Key  == IF Lead = 0 THEN NULL ELSE GetString(Next1(1))
TypeAt(n) == IF Next1(n) + 1 \in DOMAIN Types THEN Types[Next1(n) + 1] ELSE "unknown"

\* The stack after the member v of the innermost container was read.
Stored(v) ==
  <<[Top EXCEPT !.node = With(@, Key, v), !.left = @ - 1]>> \o Tail(stack)

\* br_free_string_table: a slot that was never filled may hold anything.
FreedTable == <<>>
WildFrees == IF Junk \in Range(table) THEN BOOLEAN ELSE {FALSE}

-----------------------------------------------------------------------------
Init ==
  /\ doc \in Documents /\ lean \in {FALSE, AllocFails}
  /\ strings = <<>> /\ todo = StringsOf(doc) /\ werror = "ok" /\ out = <<>>
  /\ status = "collecting" /\ pos = 0 /\ table = <<>> /\ stack = <<>>
  /\ result = NULL /\ wild = FALSE

\* kdf_binary_write collects the strings, then writes.
Collect ==
  /\ status = "collecting" /\ todo # <<>>
  /\ strings' \in TablesAfter(strings, Head(todo), lean) /\ todo' = Tail(todo)
  /\ UNCHANGED <<doc, lean, werror, out, status, pos, table, stack, result, wild>>

StartWriting ==
  /\ status = "collecting" /\ todo = <<>> /\ status' = "writing"
  /\ todo' = Stream(doc, strings)
  /\ UNCHANGED <<doc, lean, strings, werror, out, pos, table, stack, result, wild>>

WriteItem ==
  /\ status = "writing" /\ todo # <<>>
  /\ \E written \in BwWrite(out, werror, Head(todo)) :
       out' = written[1] /\ werror' = written[2]
  /\ todo' = Tail(todo)
  /\ UNCHANGED <<doc, lean, strings, status, pos, table, stack, result, wild>>

\* kdf_binary_write returned werror; kdf_binary_read is called on what came.
Reopen ==
  /\ status = "writing" /\ todo = <<>> /\ status' = "magic"
  /\ UNCHANGED <<writerVars, pos, table, stack, result, wild>>

\* Magic, version and flags; the last two are not looked at.
ReadMagic ==
  /\ status = "magic" /\ Has(3) /\ Next1(1) = Magic
  /\ pos' = pos + 3 /\ status' = "count"
  /\ UNCHANGED <<writerVars, table, stack, result, wild>>

\* br_read_string_table: the count and the block for the pointers.
ReadCount ==
  /\ status = "count" /\ Has(1)
  /\ table' = [i \in 1 .. Next1(1) |-> Junk]
  /\ pos' = pos + 1 /\ status' = "strings"
  /\ UNCHANGED <<writerVars, stack, result, wild>>

\* br_read_string_table: one string, into the first slot that is not filled.
ReadString ==
  /\ status = "strings" /\ Junk \in Range(table) /\ Has(1)
  /\ LET i == CHOOSE j \in DOMAIN table :
                table[j] = Junk /\ \A k \in 1 .. j - 1 : table[k] # Junk IN
     \/ /\ Next1(1) = 0
        /\ table' = [table EXCEPT ![i] = EMPTY] /\ pos' = pos + 1
     \/ /\ Next1(1) # 0 /\ Has(2)
        /\ table' = [table EXCEPT ![i] = Next1(2)] /\ pos' = pos + 2
  /\ UNCHANGED <<writerVars, status, stack, result, wild>>

\* kdf_binary_read turns to the root object of the new document.
ReadRoot ==
  /\ status = "strings" /\ Junk \notin Range(table)
  /\ status' = "tree" /\ stack' = <<Frame("object", Unread, NULL)>>
  /\ UNCHANGED <<writerVars, pos, table, result, wild>>

\* br_read_object: type name, version and number of properties.
ReadHeader ==
  /\ status = "tree" /\ Top.left = Unread /\ Has(3)
  /\ stack' = <<[Top EXCEPT
       !.left = Next1(3),
       !.node.name = IF Next1(1) >= 0 THEN GetString(Next1(1)) ELSE @,
       !.node.version = Next1(2)]>> \o Tail(stack)
  /\ pos' = pos + 3
  /\ UNCHANGED <<writerVars, status, table, result, wild>>

InMember == status = "tree" /\ Top.left # Unread /\ ~AllRead(Top) /\ Has(Lead + 1)

\* br_read_value: a value without a container of its own.
ReadPlain ==
  /\ InMember
  /\ LET type == TypeAt(Lead + 1)
         size == IF type = "null" THEN 0 ELSE 1 IN
     /\ type \in PlainTypes /\ Has(Lead + 1 + size)
     /\ stack' = Stored([type |-> type,
                         lit |-> IF type = "null" THEN NULL
                                 ELSE IF type \in StringTypes THEN GetString(Next1(Lead + 2))
                                 ELSE Next1(Lead + 2)])
     /\ pos' = pos + Lead + 1 + size
  /\ UNCHANGED <<writerVars, status, table, result, wild>>

\* br_read_value: a container is allocated and its members are read.
OpenArray ==
  /\ InMember /\ TypeAt(Lead + 1) = "array" /\ Has(Lead + 2)
  /\ stack' = <<Frame("array", Next1(Lead + 2), Key)>> \o stack
  /\ pos' = pos + Lead + 2
  /\ UNCHANGED <<writerVars, status, table, result, wild>>

OpenObject ==
  /\ InMember /\ TypeAt(Lead + 1) \in ObjectTypes
  /\ stack' = <<Frame(TypeAt(Lead + 1), Unread, Key)>> \o stack
  /\ pos' = pos + Lead + 1
  /\ UNCHANGED <<writerVars, status, table, result, wild>>

\* A container is complete; the one around it takes it over.
CloseContainer ==
  /\ status = "tree" /\ AllRead(Top) /\ Len(stack) > 1
  /\ LET outer == stack[2] IN
     stack' = <<[outer EXCEPT !.node = With(@, Top.key, Top.node), !.left = @ - 1]>>
                \o SubSeq(stack, 3, Len(stack))
  /\ UNCHANGED <<writerVars, status, pos, table, result, wild>>

ReturnDocument ==
  /\ status = "tree" /\ AllRead(Top) /\ Len(stack) = 1
  /\ status' = "doc" /\ result' = Top.node
  /\ wild' \in WildFrees /\ table' = FreedTable /\ stack' = <<>>
  /\ UNCHANGED <<writerVars, pos>>

\* A read or an allocation is next, and fails (or the type is unknown):
\* kdf_binary_read frees the document and returns NULL (what becomes of the
\* containers that were being read is in KdfDocument).  Mutated form: the
\* string loop does not look at the error.
ReadsNextButStrings ==
  status \in {"magic", "count"} \/ (status = "tree" /\ ~AllRead(Top))
ReadsNext ==
  \/ status \in {"magic", "count"}
  \/ status = "strings" /\ Junk \in Range(table)
  \/ status = "tree" /\ ~AllRead(Top)
ReturnNull ==
  /\ ReadsNext
  /\ status' = "null" /\ wild' \in WildFrees /\ table' = FreedTable
  /\ stack' = <<>>
  /\ UNCHANGED <<writerVars, pos, result>>

Write == Collect \/ StartWriting \/ WriteItem \/ Reopen
Read  == \/ ReadMagic \/ ReadCount \/ ReadString \/ ReadRoot \/ ReadHeader \/ ReadPlain
         \/ OpenArray \/ OpenObject \/ CloseContainer \/ ReturnDocument \/ ReturnNull
Next  == Write \/ Read

\* The library runs in its caller's thread and never waits: a call that was
\* made goes on until it returns, as do the caller's read and write functions.
Spec  == Init /\ [][Next]_vars /\ WF_vars(Next)

-----------------------------------------------------------------------------
\* Types; a read never gets past the end of the stream nor a loop past its
\* count, containers are open exactly while the tree is read, and the string
\* table lives until the document or NULL is returned.
TypeOK ==
  /\ status \in {"collecting", "writing", "magic", "count", "strings", "tree", "doc", "null"}
  /\ werror \in {"ok", "io"} /\ wild \in BOOLEAN
  /\ pos \in 0 .. Len(out)
  /\ Range(table) \subseteq Contents \cup {Junk}
  /\ stack # <<>> <=> status = "tree"
  /\ \A i \in DOMAIN stack : stack[i].left \in Nat \cup {Unread}
  /\ status \in {"doc", "null"} => table = <<>>

\* bw_write's error is sticky: what the write function was given is always an
\* unbroken beginning of the stream of the document, so that a failed write
\* leaves no hole behind which more was written; and kdf_binary_write returns
\* KDF_OK only when all of it was accepted.
WriterHonest ==
  status # "collecting" =>
    /\ IsPrefix(out, Stream(doc, strings))
    /\ todo = <<>> /\ werror = "ok" => out = Stream(doc, strings)

\* A stream whose writing failed, wherever it broke off, is never read as a
\* document: every loop of the reader notices the missing rest.
TornStreamRefused == status = "doc" => werror = "ok"

\* What reading is to give back: the document, with an empty container for a
\* child that is NULL (the counts of 0 that are written for it).  A string that
\* is NULL, or found no room in the table, is read as "", as a type name as NULL;
\* properties whose keys were lost become one, which is the last of them.
Kept(s, st, low) == IF s = NULL \/ (low /\ s \notin Range(st)) THEN EMPTY ELSE s
KeptName(s, st, low) == IF low /\ s \notin Range(st) THEN NULL ELSE s
Filled(v, st, low, below, n) ==
  IF v.type = "array" THEN [i \in 1 .. n |-> [key |-> NULL, value |-> below[i]]]
  ELSE LET put[i \in 0 .. Len(below)] ==
             IF i = 0 THEN <<>> ELSE Put(put[i - 1], Kept(KeyOf(v, i), st, low), below[i])
       IN  put[n]
Rebuilt(v, st, low, below) ==
  IF v.type \in Containers
  THEN [type |-> v.type, name |-> KeptName(v.name, st, low), version |-> v.version,
        members |-> Filled(v, st, low, below, Len(below))]
  ELSE [v EXCEPT !.lit = IF v.type \in StringTypes THEN Kept(@, st, low) ELSE @]
Restored(v, st, low) ==
  LET rebuilt[u \in Values] ==
        Rebuilt(u, st, low, [i \in DOMAIN Members(u) |-> rebuilt[Members(u)[i].value]])
  IN  rebuilt[v]

\* kdf_binary_read gives back what kdf_binary_write was given: counts and members
\* line up through all levels, the order of properties is kept, and the string
\* table of the first pass has every index the second pass asks for.  When that
\* table could not grow, exactly the strings that were left out are missing, and
\* all others are still in their places.
RoundTrip ==
  status = "doc" /\ werror = "ok" =>
    out = Stream(doc, strings) /\ result = Restored(doc, strings, lean)

\* Writing and then reading comes to an end, whatever fails.
ReadEnds == <>(status \in {"doc", "null"})

\* kdf_binary_read returns NULL on an I/O error (docs/USAGE.md:292); it does
\* not free addresses it found in memory it never wrote.
NoWildFree == ~wild
=============================================================================
