# A TLA+ development of the KDF data format library

This directory specifies, model-checks and proves parts of `kine-data-format`
(`src/`), a sequential C11 library for documents of nested objects and arrays
with a text and a binary form. The modules are translated from the C source;
each definition's lines are in `PROJECT.json` under `map`. Paths below are
relative to `src/src/` unless they start with `include/`, `docs/` or `tests/`.

- [The system](#the-system)
- [Modules and how they correspond to the code](#modules-and-how-they-correspond-to-the-code)
- [What the runs check](#what-the-runs-check)
- [What is proved](#what-is-proved)
- [Disagreements between code and documentation](#disagreements-between-code-and-documentation)
- [What is only model-checked, and what is not modelled](#what-is-only-model-checked-and-what-is-not-modelled)
- [Plan](#plan)

## The system

| component | state | operations | correct when |
|---|---|---|---|
| allocator (`kdf_internal.h:11-60`, `include/kdf/kdf_allocator.h`) | the caller's callbacks | alloc, realloc and free with sizes | told the sizes it gave; every block freed once |
| string pool (`kdf_document.c:22-84`) | 64 chains of interned strings | intern, destroy | one stable pointer per content, no block lost |
| object (`kdf_object.c`) | hash chains and a doubly linked order list over the same entries, bucket array, count, type name, version | set and add (14 forms), find, remove, clear, iterate, destroy | an insertion-ordered map; children owned once; handles stable |
| array (`kdf_array.c`) | growable buffer, count, capacity | push (14 forms), adopt a value, get, remove, clear, destroy | a sequence; children owned once; no uninitialised or freed slot used |
| value (`kdf_value.c`) | a tagged union | coercions, destroy | coercions agree with each other at the limits of the types |
| document (`kdf_document.c:86-120`) | allocator, pool, root object | create, destroy | everything below it freed once, pool last |
| binary writer (`kdf_binary_writer.c`) | string table, sticky error | two passes over the tree, save | KDF_OK only for a complete stream without holes |
| binary reader (`kdf_binary_reader.c`) | string table, sticky error, recursion | read, load | what was written, or NULL and nothing kept |
| text writer (`kdf_text_writer.c`) | indentation, sticky error | write, save | KDF_OK only for a complete text that the parser reads back |
| text parser (`kdf_text_parser.c`) | 64 KB window on the stream, current character, string buffer | recursive descent, load | what the text form keeps of what was written, or NULL; of a torn text a beginning |
| memory streams (`kdf_io.c`) | growing buffer; position | write, read, seek, tell | a file in memory |

**How they interact.** A document embeds the pool and the root object and
hands both, and its copy of the allocator, down to every child it creates.
Objects and arrays own child containers through values and destroy them when a
value is overwritten, removed, or its container goes. Keys, type names and
string values are pool pointers that nobody counts: they live as long as the
document. The writers walk the tree through the iteration API; the binary
writer compares pool pointers instead of texts. The readers build containers
in local variables and hand them over with `kdf__object_insert` and
`kdf__arr_push_value`. The caller enters from below in two places: the
allocator and the read, write, seek and tell functions of a stream; each may
fail at any call.

**What is hard here.** There are no threads and no clock. What goes wrong is

- *partial failure*: an allocation or a stream call in the middle of an
  operation fails, and half of its effects are there (most of the hazards in
  `PROJECT.json`);
- *long sequences of legal calls*: two linked structures over the same entries
  that must stay in step through growth, overwriting, removal and clearing;
- *stale handles*: what a caller may keep over which calls;
- *ordering between two passes*: the writer's string table is collected by one
  walk and used by another;
- *torn streams*: reading what a failed write, a failed read or a crash left
  behind; a read function that returns less than it was asked for;
- *ownership on the way*: containers that belong to a local variable of a
  reader before they belong to the tree, and what becomes of them if it fails;
- *numeric edges*: capacities and loads at a limit, integer widths, conversions.

## Modules and how they correspond to the code

**`KdfObject`** is `kdf_object.c` at pointer level. Blocks are numbered in
allocation order and never reused, and the fields `hash_next`, `order_next`,
`order_prev`, `key` and `value` are functions on the set `live` of allocated
entries, so a dangling pointer is a type error. `live`, `children` and `pool`
are what the allocator and the pool hold. Walking a chain or the order list is
`Visited` of `LinkedList`. Each setter family is `Replace` (the key is there,
`kdf_object.c:84-92`), `InsertNew` or `InsertNoMemory` (it is not, 94-129);
growth is inside the insertion that triggers it, as in the code, with
`GrownHeads` and `GrownNext` giving the table that pushing every entry of the
order list at the head of its new chain produces. With `AllocFails` every
allocation of the call may fail on its own: the bucket array, the entry, the
key, the payload. `keyless` are the entries whose key was lost; a lookup that
meets one traps (`LookupTraps`), so does a first insertion without buckets
(`InsertTraps`). Getters and iteration change nothing; iteration is `Order`.

**`OrderedMap`** is what `include/kdf/kdf_object.h` promises, in terms of a
sequence of properties. `KdfObject` implements it with `items` mapped to the
named entries in list order (`ImplementsMap`).

**`KdfStringPool`** is `kdf_document.c:22-84`, again with numbered blocks: a
node and its text are two allocations (`InternNew`), either can fail
(`InternNoMemory`, which gives the node back). **`InternTable`** is its
promise (`kdf_internal.h:80`): one pointer per content, repeated for ever.

**`KdfArray`** is `kdf_array.c`: `Areas` are the buffers that growing can leave
(moved, extended in place, or unchanged after a failure), `size` is what the
allocator really gave and `capacity` what the array believes. Slots nobody
wrote hold `Junk`. `Push` stores a payload it allocates after growing,
`PushValue` adopts one allocated before, and `PushTraps` is the push that
writes behind a buffer that could not grow. **`ValueSequence`** is its promise.

**`KdfGetters`** are the coercions of `kdf_value.c`, which the typed getters of
`kdf_object.c:376-407` answer with, of one property (`prop`) that setters and
removal change. Integers have `Width` bits in two's complement; floats
are a finite set with gaps above a limit, counted in halves to have fractions.
A conversion that C leaves open (a float out of an integer's range, a tie) is
a choice.

**`KdfStrings`** puts the two together: a string property is a pointer into the
pool (`node`), which `SetString` gets by interning, as `kdf_object.c:196-203`
does, while other strings are interned beside it (`InternOther`) and the caller
keeps the text that `GetString` gave it (`kept`) over any of these calls.

**`KdfBinary`** is `kdf_binary_write` followed by `kdf_binary_read` on what the
write function accepted. The first pass (`Collect`) takes the strings in the
order of `StringsOf` into the table `strings`, one step for each, since any of
them may find no room in a table that cannot grow (`lean`). The second pass
gives the items of `Stream`, and its calls of `bw_write` are steps that may fail
(`WriteItem`). The reader is its recursion made explicit: `stack` holds the
containers being read, innermost first, with the number of members still to
come. Every action consumes what the code reads before its next visible
effect, and `ReturnNull` is the failure of any read or allocation in between.
A stream is a sequence of numbers and contents, with type bytes as in the
enumeration, so that one loop that runs too far reads the next item as
something else, as the code would.

**`KdfTree`** has what both formats are about: documents are trees of records.
`Values` has all the records of them and `Depth` a number for each that is
greater than those of its members, so that what the code does by recursion on a
tree is a function on `Values`, given for a value by what it is for its members:
`Collected` for `collect_strings_value`, `Laid` for `bw_write_value`, `Rebuilt`
for what a reader is to return; `ValueText` for `tw_write_value`, `Kept` and
`Readable` for what the text form keeps of a value and what of it can be read.

**`KdfText`** is `kdf_text_write` followed by `kdf_text_read` on what the write
function accepted. The text is a sequence of characters; identifiers are one
and keywords two, so that a keyword can be cut. Keys and type names are written
as they are (`Spelled`): `Spelling` gives the characters of those that are more
than one word to the parser, such as `a = 1 b`, of which the writer makes two
properties, and a `#` begins a comment (`Skipped`). **`KdfTextWords`** is
`KdfText` for documents in which each is one word (`KeyAssumption`): an
identifier, or a name that is refused wherever it stands. `Open` decides how many
characters each call of the read function gives (`chunk`) and where it fails;
since the parser's window only matters to the look-ahead of
`parser_try_keyword`, the window is `SameBuffer` and the position one number.
The recursive descent is explicit as in `KdfBinary`: one action for each value,
each beginning and each end of a container, and `ParseFails` is where none of
them applies. **`KdfNumber`** has the numbers: `NumberText` prints them as
`%lld`, `%llu` and `%.17g` do, `ReadNumber` is `parser_read_number`, with int64
accumulation in `Width` bits that wraps around. A float is its notation, since
what goes wrong is in the notation.

**`KdfDocument`** is who owns what: a container is a block with a sequence of
members, each with its child or NULL. `Holds` is the change every call makes to
one container: what it no longer holds is destroyed with all that is below
(`Below`, the mutual recursion of `kdf__value_destroy`, `kdf__object_destroy`
and `kdf__array_destroy`), then the new child is allocated. The caller's calls
are `Set`, `RemoveMember`, `Clear`, `Destroy`; both readers are the actions
from `ReadPlain` to `ReturnNull`, with `path` for the containers their
recursion is in. A container is `held` by a local variable until it is
complete, but for the shorthand `key { ... }` of the text form, which is in the
tree from its beginning. `lost` are those that no one refers to any more.

**`KdfMemIO`** is `kdf_io.c`: the writer's buffer with its capacities, and the
reader, whose sums and differences are machine integers (`Word`, `Signed`). It
implements **`ByteStream`**, the promise of `include/kdf/kdf_io.h`.
**`KdfFile`** extends it by `kdf_binary_save`, `kdf_text_save` and the two
loads, which use the same actions on the same streams (`Serialise` is
`MwWrite`, `LoadRead` is `MrRead`), with stdio between them and the file:
`pending` is what `fwrite` took and the file does not have yet, `ignored` are
the functions of stdio that failed and that the code does not ask. `Crash`
may come between any two steps. `UseStreams` are a caller's own streams. What
the formats do is given by two constants, `BytesOf` for the writers and `Reads`
for the readers; that a document of the binary format is never the beginning of
another is an assumption here, and `TornStreamRefused` of `KdfBinary` is the
reason for it. Documents may have the same text (a float 2.0 and an integer 2, a
missing and an empty container, versions): then they have one answer.

**`LinkedList`** has the walk along a pointer field and the two facts that
describe a sound list, `Ascending` (oldest to newest, as the order list) and
`Descending` (newest to oldest, as a chain); since blocks are numbered in
allocation order, both kinds of list are sorted.

`MC*` modules give constants values. `*Proofs` modules hold theorems.

## What the runs check

| run | instance | properties | states |
|---|---|---|---|
| `object` | 3 keys, tables of 3 and 6 buckets, 5 blocks, allocation succeeds | `ChainsSound` `DestroyFreesAll` `NoFault` `LoadBounded` `CallsImplementTheirNames` | 5 417 |
| `object_oom` | 3 keys, 3 blocks, any allocation fails | `IndInv` `HandlesStable` `ImplementsMap` | 17 226 |
| `object_trap` | as `object_oom` | `NoFault`, violated | |
| `strings` | 4 contents in 2 slots, 6 blocks, 2-bit integers, 9 floats, any allocation fails | `IndInv` `IntegersAgree` `TruthIsNonZero` `StringsStand` `PointersStable` `ImplementsTable` | 56 407 |
| `array` | 3 elements, capacities 1, 2, 4, any allocation fails | `IndInv` `HandlesStable` `ImplementsSequence` | 6 030 |
| `binary` | 63 documents, any read, write or growth of the table fails | `TypeOK` `WriterHonest` `TornStreamRefused` `RoundTrip` `ReadEnds` | 294 785 |
| `binary_wild` | as `binary` | `NoWildFree`, violated | |
| `text` | 87 documents, buffers of 2, 5 and 64 characters, 5-bit integers, any read or write fails | `TypeOK` `WriterHonest` `RoundTrip` `TornShortens` `ParseEnds` | 85 529 |
| `text_buffers` | as `text` | `AnyBufferWillDo`, violated | |
| `text_keys` | 4 documents of one property, keys `a`, `b`, `a = 1 b`, `a{}b` | `OnlyWhatWasWritten`, violated | |
| `document` | 2 keys, 3 containers with 2 members each, any allocation or read fails | `IndInv` `OwnedOnce` `AllReached` `HandlesStable` `OnlyReadersLeak` | 193 179 |
| `files` | 3 documents in 2 formats, capacities 2, 4, 8, 4-bit sizes, everything fails, crashes | `IndInv` `ImplementsStream` | 59 956 |

**Why the bounds are enough.** *Object*: `MCHash` makes two keys collide in
every table and a third share their chain until the first growth. With
`InitBuckets` 3 the load limit is 2, so the third entry grows the table to 6:
a chain of three is rehashed and split, and removal meets the head, middle and
tail of chain and list. Five blocks allow a key to be removed and inserted
again, and entries with and without children. In `object_oom` three blocks are
three entries, or entries and children, with each allocation failing. The
bound `MaxBlocks` only limits how many blocks a behaviour allocates. *Strings*: two
texts with the same hash value, one more in their slot, one alone; 6 blocks let
three of the four be interned in any order, among them the chain of three, and the
rest find no room. Of the coercions, 2 bits are enough for
wrap-around in both directions, a tie between floats, fractions, and floats out
of range of both integer types. *Array*:
`InitCap` 1 gives two growths within three elements; `MaxBlocks` 5 counts
buffers and children. *Binary*: documents of up to three levels with shared strings as key, name,
value and reference, the empty string, NULL strings and NULL children (what a
failed allocation leaves in a tree, see `KdfObject`), empty containers, and
containers followed by more members. `TableCap` 1 makes the writer's table
grow several times, and any of these may fail. *Text*: one property with each
type of value, strings with every escape before every character it could be
confused with, integers at and beyond the limits of 5 bits, floats in each
notation `%.17g` has, containers within containers followed by more members,
a key that is no identifier, and one that is a keyword. Buffers of 2 and 5 characters put their
boundary at every place of a keyword; 64 is longer than any of the texts.
*Document*: `MaxBlocks` 3 and `MaxMembers` 2 give chains of three, siblings of
both kinds, a subtree of two that is replaced, and a container that is lost
within another; the keys are interchangeable (symmetry; no liveness is checked).
*Files*: two documents have the same text, which is the beginning of the third's,
so a torn file can be taken for a whole one; the bytes are written singly or four at a
time, and a write of 4 makes the buffer of 2 double twice at once; with 4 bits the largest offset overflows from every
position but 0. `MaxSize` bounds what the caller puts into a writer of its own
(the constraint `Bounded`; saves are not bounded by it). All other runs finish
without a state constraint.

**Deadlock** is not checked for runs whose system ends: after a destruction or
a trap nothing is called, after kdf_binary_read or kdf_text_read nothing is
read. `files` has no end and checks it.

**Fairness.** The containers have safety properties only: nothing in the
library runs by itself, so nothing has to happen. `KdfBinary` and `KdfText`
assume weak fairness of `Next`: the library runs in its caller's thread, never
waits, and the caller's read and write functions return; `ReadEnds` and
`ParseEnds` then say that no stream, whole or torn, keeps a reader busy for ever.

What the properties mean is stated where they are defined. An `IndInv` has the
type invariant and the other invariants of its module as conjuncts, which are not
checked a second time by name: `KeysUnique` and `ChildrenOwnedOnce` of objects,
`OneNodePerContent` and `NoBlockLost` of the pool, `ChildrenOwnedOnce`,
`NoStaleOwner`, `SizeKnown` and `NoJunkInUse` of arrays, `DestroyFreesAll` of
documents, `OkMeansSaved`, `FileIsPrefix`, `LoadsWhatWasSaved` and `NothingKept` of
files. The two refinements
`ImplementsMap` and `ImplementsSequence` hold whatever fails; `ImplementsMap`
allows a failed setter to have changed its own key only. `CallsImplementTheirNames`
is sharper and holds while allocations succeed: which call has which effect.

`RoundTrip` of `KdfText` is an equivalence: of the documents whose keys and type
names are one word to the parser it says which come back
(those whose words are identifiers and whose numbers are wholly
read, in buffers that cut no keyword) and as what (`KeptDocument`: the text form
has no versions, no name of the root object, no difference between a missing and
an empty container or string, and no floats without a fraction), and that the
others are refused rather than changed. Of other keys this is not true:
`OnlyWhatWasWritten` is what is left of `RoundTrip` without the words, and `text_keys`
finds it violated. `TornShortens` is what is left
of that when a write or a read failed: complete properties of the root object,
and possibly a last number that is cut. `RoundTrip` of `KdfBinary` says the
same of the binary form, where nothing is lost but the strings that found no
room. `AllReached` and `OwnedOnce` of `KdfDocument` are the two halves of the
ownership discipline, leaks and double frees; a container is counted as lost
only where a reader gives up on it. `OnlyReadersLeak` does not use that count: what
becomes unreachable in a step without being freed is exactly what the locals
held that a reader gave up, with all below, so that the leaks of the code are
stated, and any other would be found.

## What is proved

TLAPS checks the theorems of the `*Proofs` modules for every value of the
constants: `KdfObjectProofs`, `KdfValueProofs` (the pool, the getters, and both together),
`KdfArrayProofs`, `KdfDocumentProofs`, `KdfBinaryProofs`, `KdfTextProofs` and
`KdfFileProofs`; what several of them rest on, induction and the parts of
sequences, stacks and threaded lists, is in `CommonProofs`. The assumptions are those
named in the modules: sizes are naturals (the first bucket array has at least 2
slots, or the load limit would be 0 for ever), a hash is a natural number for
each key, and NULL is none of the data. Theorems about traps (`NothingTraps`,
`LoadStaysBounded`) and about what each call does to the map
(`CallsDoWhatTheySay`) assume `~AllocFails`; all others hold however
allocations fail.

**Object.** `StructureSound` proves `IndInv`. What one would like to know
(`OrderListSound`, `ChainsSound`) speaks about what a walk visits and is not
inductive: it does not say in which order a chain is threaded, so nothing
follows for a rehash, which reads the list forwards and pushes at the heads.
`IndInv` says instead that the order list threads all entries ascending by
block number, and each chain the entries of its slot descending. Insertion
appends the newest block to the one and puts it in front of the others
(`CommonProofs` has the lemma for each), removal skips a node, and a rehash
builds descending chains by definition, from `Latest`. From the same lemmas,
a walk from the first node of a threaded set visits exactly that set, which
gives `OrderListCorrect` and `ChainsCorrect`. `ChildrenStayOwned` and
`NothingLeaks` are conjuncts; `HandlesStayStable` is proved from each action.
`NothingTraps` needs one invariant more: while allocations succeed no entry is
keyless and the load is bounded (`SuppliedHolds`).

**Object as a map.** `ObjectImplementsMap` is the refinement of `OrderedMap`,
`CallsDoWhatTheySay` the sharper statement of which call has which effect. Items
are what a walk of the order list gives, entries without keys left out. Since
the list is ascending by block number, item `i` is the entry of rank `i` among
those with keys (`Rank` counts the entries up to one, `Nth` is its inverse), and
a walk need not be mentioned any more: a new entry has the greatest number, so
its rank is the new length; removing an entry lowers the ranks behind it by one,
which is `RemoveAt`; a replaced value changes the item of its rank. That the
entry a lookup finds is the one the map has for the key needs `KeysUnique`.

**Pool.** `PoolIsSound` has the same shape with one kind of list;
`PoolImplementsTable` proves the refinement step by step: an interning of a
content that is there repeats, a new one gives a block no content has.

**Array.** `ArrayIsSound` is inductive from the checked invariants together
with the bound on block numbers; `ArrayImplementsSequence` proves the
refinement, each action with its image under `i |-> items[i - 1]`.

**Document.** `DocumentIsSound` proves `IndInv` of `KdfDocument`, through every
call and both readers. `Below` is what a destruction reaches, the least set
that has a container and is closed under children; blocks are numbered in
allocation order and a child is always younger than its container, so that
nothing is below itself and a destruction never frees the container it is made
on. Each of the fifteen or so actions is an instance of `Calls`: one container
gets other members, what it dropped is freed with all below, and a new child may
be allocated. Two lemmas describe what `Calls` does to owners and to members
(every container that stays is held where it was), and the rest is by action:
which local variables hold a container (`path`, `Held`), and which containers
an early return loses. `EachOwnedOnce` counts the places that refer to a container;
`NothingLeftBehind` takes, of a set of containers that nobody outside refers to,
the oldest, whose owner is older still. `OthersStay` is the action property:
frees are exactly what was dropped, with everything below. `ReadersLeak` follows
from the accounting of `lost`: what can be reached from the root object and the
readers' locals is exactly what lives and is not lost (`ReachedIsKept`), and each
action adds to `lost` what is below the locals it gives up (`DroppedIsLost`).

**Binary format.** `RoundTrips` and its companions hold for documents of any
shape, depth and size, any tables and contents, and any failures. The only
assumption on documents is that their values are trees of finite depth
(`ValuesAssumption`). The steps:

- *Recursion and induction.* Induction rules with a predicate as parameter cannot
  be instantiated, so induction is a lemma about a set that has 0 and is
  closed under successor (`Induction`); each use defines the set of depths below
  which the claim holds. The first use shows that there is one function on
  trees with the values of all three recursive definitions (`Recursion`), and so
  that these satisfy the equations they are written as (`Unfolded`).
- *Layout.* `Flattened` gives each part of a flattened sequence its place. From it
  follow `Spot`, where in the text of a container each member's text is, and
  `StreamLaid`, the same for the string table and the root object.
- *Writer.* `WriterInv`: while nothing failed, what was accepted and what is to be
  written make up the stream; afterwards the former is a beginning that lacks
  something. While the strings are collected, those in the table and those to
  come are all that the second pass will ask for, unless the table could not
  grow. `WriterIsHonest` follows.
- *Reader.* `ReaderInv`: the strings read so far are the writer's, and there is for
  each open container (`Nest`) a value of the document and a place in the stream
  where it was written, of which the container holds the first so many members,
  restored; the place of the innermost one and what was read of it give the
  reader's position, and each container is the next member of the one around
  it. `RoundTrip` alone says nothing before the end and is not inductive. Each
  action keeps it: a header or a plain value moves the position by its
  length, opening a container makes it the next member (`NestOpened`), closing it
  stores a complete one (`NestClosed`).
- *Results.* When the root object is complete, the position is the end of the
  stream. So the accepted part was all of it (`TornRefused`), and `RoundTrips` is
  what `ReaderInv` says of the result. `DocumentGivenBack` spells out what that
  means for a document without NULL strings or children and without equal keys:
  if no table of the writer failed to grow, the result is the document.

**Text format.** `WriterIsHonest` is the writer's half, with the invariant of
`KdfBinary` (`WriterInv`) and the equations of `ValueText` (`Unfolded`) and of the
decimal notation (`PrintedTyped`). `TypeCorrect` is about the parser: whatever
came, in whatever buffers, it never goes more than one character past the end,
and what it has open are containers, the root object outermost (`ReaderInv`).
Each reading operator has a lemma that says where it ends. They rest on one fact
(`Inside`): what stands at the end, `EOF`, is none of the characters behind which
the parser moves on, which is what lets it look ahead without asking how much
is left, also behind a backslash and behind `e` in a number. `StringsReadBack` is
the first half of the round trip, for strings of any length and any characters:
`Sees` says what the parser finds where a given text stands, or stands as far as
it arrived, and the theorem goes backwards through the characters, each of them
one or two in the text (`EscapesUndone`). `PrintedReadBack` is its counterpart for
decimal digits: accumulating them gives the number, modulo the width. From the two
follows `PlainValuesReadBack`, for every value that is no container: numbers
(`NumbersRead`; a number has no end mark, so the lemma has to say what may follow it),
lists of floats (`ListsRead`), references and keywords are read as what `Kept`
says, exactly if all of their text arrived, is in the grammar, and has no keyword
that is cut in two by the end of a buffer (`Arrives`). Otherwise they are refused,
but for a number of which a part is left that is a number as well.

`DocumentReadsBack` and `TornTextShortens` are the two halves of the result for
whole documents, of any shape, depth and contents, cut anywhere or nowhere, in
buffers of any size, whose keys and type names are one word to the parser
(`KeyAssumption` of `KdfTextWords`; what the code makes of others is in no such
relation to the document, see `text_keys`). Neither property says anything before the end; the invariant
is `Tracking`. Its parts:

- *Places.* The text has no counts or lengths, so where a member stands is
  computed from the texts before it (`Place`); `LineStands` says what signs are
  found around it, `Ahead` what stands where the next member is to be read. These
  are what tells one production of the grammar from another: behind a key only `=` or
  `{`, at the start of an element never a closing bracket.
- *`Nest`*, as in the binary format: for each open container (`Level`) there is
  a value of the document and a place in the text of which the container holds
  the first so many members, as `Kept` has them, and each is the next member of
  the one around it (`Link`).
- *Three states of reading* (`Ready`, `Cut`, `Stuck`). Either the parser is,
  but for line ends, where `Nest` says, and no keyword before that was cut
  in two; or the stream ended within a number, and what was made of it is
  the last thing stored (`Clipped`); or it stands before an exponent that it does
  not know, behind a number of the document that is not wholly read. From the last two every further step returns (`Halted`), and in the
  first each action (`ReadPlainTracks`, `OpenContainerTracks`,
  `OpenShorthandTracks`, `CloseContainerTracks`) leads to one of the three.
- *Answers.* A returned document has everything if all of the text arrived, and is a
  beginning otherwise (`ReadyReturns`, `CutReturns`); the parser returns NULL only if something was missing, unfit
  or cut in two (`ReadyFails`, `HeaderFails`).

**Getters and strings.** `TruthStaysNonZero` and `IntegersStayEqual` hold for integers
of any even modulus from 4 and any set of floats that has 0, 1 and -1
(`GettersAssumption`): rounding to the nearest cannot take an integer other than 0
to 0, since 1 or -1 is nearer, and what `as_int` and `as_uint` do to each other's
range adds or takes away the modulus, which wrapping around undoes. Every step of
`KdfStrings` is a step of the pool and one of the property, or leaves them
(`StringsUseThePool`, `StringsAreProperties`), so that all theorems about these
two hold of it; `StringsStayValid` then needs of the pool only that a node stays
where it is with its text (`PointersStable`).

**Files and memory streams.** `SavesAreSound` proves `IndInv` of `KdfFile`, from
which everything the run `files` checks follows, for any documents, any bytes
for them, any way to give these to the stream in pieces, any word size and any
failures and crashes. None of the properties is inductive alone: that the file
is a beginning of the document needs to know what the writer still has to write
(`Saving`: written and to be written, in the file and pending, make up the
document while nothing failed), and that a load answers with the document needs
to know what the reader was given (`Loading`: a beginning of its memory, which
is a beginning of the file). `StreamsImplemented` is the refinement of
`ByteStream`, in a caller's hands as in those of save and load; a write
(`WriteAppends`) is followed byte by byte through a growth, and a seek
(`SeekJumps`) through the overflow of its sum, which comes out negative.
Assumed are that no buffer or file exceeds half of the address space, and, as
`FileAssumption`, that the binary form of a document is the beginning of no other
file (for the format itself, that is what `KdfBinary` is about) and that a reader
has nothing but the bytes to go by: documents with the same bytes come back as the
same one. Nothing is assumed to be lossless: what a load answers is what the reader
makes of the document saved last (`Reads`), which for text is what `KdfText` says.

## Disagreements between code and documentation

Four have a run of their own that shows them (`findings` in `PROJECT.json`).

1. `kdf_object.c:95-110` (run `object_trap`): a setter whose bucket array or key
   cannot be allocated returns nothing and leaves a structure the next call
   traps on; `docs/USAGE.md:289` says every function that can fail reports it.
   What survives is precise: `IndInv` and `ImplementsMap` hold up to the trap.
2. `kdf_binary_reader.c:144-152` (run `binary_wild`): after a read fails within
   the string table, the slots behind are freed uninitialised.
3. `kdf_text_parser.c:106` (run `text_buffers`): a text whose read function
   gives it in parts, as `include/kdf/kdf_io.h:21` allows, is refused when a
   keyword lies across two of them. A file longer than the 64 KB window has such
   boundaries too, wherever its bytes come from.

4. `kdf_text_writer.c:233` (run `text_keys`): a key is written as it is. With `a = 1 b`
   and a null value the line is `a = 1 b = null`, which is two properties to the parser,
   and `a{}b` is an empty object and a property; both are read back without an
   error. `kdf_text_write` "returns kdf_ok on success" (`include/kdf/kdf_text.h:12`)
   for a text of another document. A key that begins with `#` makes its line a comment,
   and one that begins with `}` or `]` ends the object that it is in
   (`kdf_text_parser.c:673`), the root object without an error.

The others have no run of their own. Most are part of what the passing properties
state, in which case the definition is named:

5. `kdf_array.c:48-54`: a push that cannot grow writes behind the buffer
   (`PushTraps`).
6. `kdf_object.c:376-398`: typed getters coerce a property of another type;
   `docs/USAGE.md:116` says the fallback is returned. The getters answer with the
   coercions of `KdfGetters`, whose properties are about these answers.
7. `kdf_binary_writer.c:111-117`: a string that finds no room in the table is
   written without an index, and `kdf_binary_write` returns `KDF_OK`
   (`RoundTrip` with `lean`).
8. `kdf_binary_reader.c:240, 299` and `kdf_text_parser.c:426, 706`: after a
   failure within a nested container, or when the entry for it cannot be
   allocated, the container is kept by nobody, while `include/kdf/kdf_document.h:18`
   speaks of all associated memory. `OnlyReadersLeak` says of each step exactly
   what leaks in it.
9. `kdf_text_parser.c:28`: an I/O error between two properties is the end of the
   document; `docs/USAGE.md:292` says NULL is returned (`TornShortens` says what is
   returned instead).
10. Text is not lossless: floats without a fraction become integers; `1e+20`
    (`kdf_text_writer.c:62`), infinities and component values such as `1e+06` are
    written but cannot be read, nor can keys that are no identifiers or have more
    than 255 characters (`RoundTrip`, `KeptDocument`); versions and the name of the
    root object are not written. A component of a vector that is -0 comes back as 0,
    its sign lost with its type (`KeptOf`).
11. Saving empties the file first and does not ask `fclose`; loading does not ask
    `fseek` (`OkMeansSaved`, `FileIsPrefix` and `LoadsWhatWasSaved`, conjuncts of
    `IndInv`, state what holds all the same).

## What is only model-checked, and what is not modelled

Only model-checked: `ReadEnds` and `ParseEnds`, since liveness under fairness is
out of the prover's reach. Every other property of a passing run is stated by a
theorem. The theorems
of `KdfFile` assume that no document of the binary format is the beginning of
another; `TornRefused` proves what a torn stream is to a reader, but the two
modules do not meet, since one has bytes and the other items. `OnlyWhatWasWritten`,
`NoFault` with failing allocations, `NoWildFree` and `AnyBufferWillDo` are violated.

Abstracted: hash values are given, not computed; strings are contents;
children are opaque blocks in `KdfObject` and `KdfArray`; `KdfDocument` has the
tree of them, but not how members are stored; the components of vectors are one
payload but in `KdfText`. In `KdfBinary` and `KdfText` the containers' own
allocations succeed (the other modules are about their failing); in `KdfBinary`
lengths of strings are 0 or 1, and items are not split into bytes. Streams are
what a writer left behind, whole or cut: streams that were altered or written by
hand are not considered, and so spaces in unusual places and huge exponents do not
occur, and comments and brackets too many only where a key has them. What is proved
of the text form is about keys that are one word (`KeyAssumption`). A read function that failed once keeps
failing. In `KdfFile` a document is its bytes, and one process at a
time uses the file.

Not modelled: the buffer of `parser_read_quoted_string` (a string is read in one
step); line and column numbers, which only messages would use; indentation;
`kdf_val_as_vec*`; the pushes of arrays without a pool, which no code path
creates; build files. Iteration of an object while it is changed is `Order`
together with `HandlesStable` of `KdfObject`: a cursor is an entry pointer, and
has no state of its own.

## Plan

Done: `LinkedList`, `KdfObject` with `OrderedMap`, `KdfStringPool` with
`InternTable`, `KdfArray` with `ValueSequence`, `KdfGetters`, `KdfStrings`, `KdfTree`,
`KdfBinary`, `KdfNumber`, `KdfText` and `KdfTextWords`, `KdfDocument`, `KdfMemIO` with `ByteStream`, `KdfFile`.

Proved is every safety and action property of them, and every refinement of an
abstract specification. What could be added: that a reader
which starts on the bytes of `KdfFile` sees the items of `KdfBinary`, so that
`FileAssumption` is a theorem too; and texts that no writer made, which need a
grammar of their own to be compared with.
