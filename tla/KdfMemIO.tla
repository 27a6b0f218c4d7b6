------------------------------ MODULE KdfMemIO ------------------------------
(***************************************************************************)
(* The memory streams of src/src/kdf_io.c, as the C code keeps them: a     *)
(* writer with a buffer that doubles through realloc, and a reader with a  *)
(* position in a buffer it does not own.  A reader is made over a file     *)
(* (KdfFile) or over what the writer holds; a caller that goes on writing  *)
(* has to give it up, for the buffer may move.  An empty write changes     *)
(* nothing and is left out.                                                *)
(***************************************************************************)
EXTENDS Integers, Sequences

CONSTANTS
  Bytes, Junk,     \* what a byte is; what a byte nobody wrote holds
  Pieces,          \* what one call of write is given
  Capacities,      \* the first capacity (256), doubled again and again
  ReadSizes,       \* how much one call of read asks for
  Offsets,         \* where seeks go
  Width,           \* the bits of size_t and int64_t
  NULL

Half == 2 ^ (Width - 1)

\* No object is larger than half of the address space: malloc refuses that.
ASSUME MemIOAssumption ==
  /\ Pieces \subseteq Seq(Bytes) \ {<<>>} /\ Junk \notin Bytes
  /\ Capacities \subseteq Nat \ {0} /\ ReadSizes \subseteq Nat
  /\ \A c \in Capacities : c <= Half
  /\ Half \in Nat \ {0} /\ Offsets \subseteq -Half .. Half - 1
  /\ NULL \notin Seq(Bytes \cup {Junk})

VARIABLES
  data,            \* mw->data, NULL or a function on 1 .. capacity
  size,            \* mw->size
  capacity,        \* mw->capacity
  input,           \* mr->data, whose length is mr->size
  pos,             \* mr->pos
  got              \* what the last read put into its destination

writer  == <<data, size, capacity>>
reader  == <<input, pos, got>>
memVars == <<writer, reader>>

-----------------------------------------------------------------------------
\* size_t wraps around, int64_t too where the code overflows it; both tests
\* that follow the sum refuse the result, however it is compiled.
Word(x)   == x % (2 * Half)
Signed(x) == ((x + Half) % (2 * Half)) - Half

\* The capacity that doubling arrives at.  Mutated form: it doubles once.
DoubledOnce(cap, need) ==
  IF cap = 0 THEN {c \in Capacities : \A e \in Capacities : c <= e} ELSE {2 * cap}
Doubled(cap, need) ==
  LET enough == {c \in Capacities : c >= need /\ c >= cap} IN
  {c \in enough : \A e \in enough : c <= e}

\* realloc keeps what was there, and memcpy writes behind what was written.
ByteAt(i) == IF data # NULL /\ i \in DOMAIN data THEN data[i] ELSE Junk
Filled(cap, piece) ==
  [i \in 1 .. cap |-> IF i \in size + 1 .. size + Len(piece) THEN piece[i - size] ELSE ByteAt(i)]

MemInit ==
  /\ data = NULL /\ size = 0 /\ capacity = 0
  /\ input = <<>> /\ pos = 0 /\ got = <<>>

\* mem_writer_cb.
MwFits(piece) == size + Len(piece) <= capacity
MwWrite(piece) ==
  /\ \E cap \in IF MwFits(piece) THEN {capacity} ELSE Doubled(capacity, size + Len(piece)) :
       capacity' = cap /\ data' = Filled(cap, piece)
  /\ size' = size + Len(piece)
  /\ UNCHANGED reader
\* realloc returned NULL: so does the writer, and keeps what it has.
MwRefuses(piece) == ~MwFits(piece)

\* kdf_mem_writer_finish.  Mutated form: size is not reset.
MwFinishKeepsSize == data' = NULL /\ capacity' = 0 /\ UNCHANGED <<size, reader>>
MwFinish == data' = NULL /\ size' = 0 /\ capacity' = 0 /\ UNCHANGED reader

\* kdf_mem_reader_create and the assignments before it.
MrCreate(bytes) == input' = bytes /\ pos' = 0 /\ got' = <<>> /\ UNCHANGED writer

\* mem_reader_cb.
Remaining == Word(Len(input) - pos)
MrRead(n) ==
  LET k == IF n > Remaining THEN Remaining ELSE n IN
  /\ got' = [i \in 1 .. k |-> IF pos + i <= Len(input) THEN input[pos + i] ELSE Junk]
  /\ pos' = pos + k
  /\ UNCHANGED <<writer, input>>

\* mem_reader_seek; it is refused for another origin.  Mutated form: the
\* position is not compared with the size.
Origins == {0, 1, 2}
NewPos(offset, origin) ==
  Signed((IF origin = 0 THEN 0 ELSE IF origin = 1 THEN pos ELSE Len(input)) + offset)
AllowedBehind(p) == p >= 0
Allowed(p) == p >= 0 /\ p <= Len(input)
MrSeek(offset, origin) ==
  /\ Allowed(NewPos(offset, origin))
  /\ pos' = NewPos(offset, origin)
  /\ UNCHANGED <<writer, input, got>>

\* The process dies.
MemCrash ==
  /\ data' = NULL /\ size' = 0 /\ capacity' = 0
  /\ input' = <<>> /\ pos' = 0 /\ got' = <<>>

Written == [i \in 1 .. size |-> ByteAt(i)]

MemNext ==
  \/ input = <<>> /\ ((\E piece \in Pieces : MwWrite(piece)) \/ MwFinish)
  \/ MrCreate(Written) \/ MrCreate(<<>>) \/ MemCrash
  \/ \E n \in ReadSizes : MrRead(n)
  \/ \E offset \in Offsets, origin \in Origins : MrSeek(offset, origin)

MemSpec == MemInit /\ [][MemNext]_memVars

-----------------------------------------------------------------------------
\* Types: the writer never counts more bytes than its buffer has, all of those
\* it counts were written, and the reader's position is within its bytes.
TypeOK ==
  /\ capacity \in Capacities \cup {0} /\ size \in 0 .. capacity
  /\ IF capacity = 0 THEN data = NULL ELSE data \in [1 .. capacity -> Bytes \cup {Junk}]
  /\ \A i \in 1 .. size : data[i] \in Bytes
  /\ input \in Seq(Bytes) /\ pos \in 0 .. Len(input)

\* The streams do what kdf_io.h promises: over any growths of the buffer the
\* writer loses no byte and mixes up none, a write that is refused changes
\* nothing, a reader hands out every byte once and in order and none from
\* beyond the end, and a seek gets where it was told to or nowhere.
Stream == INSTANCE ByteStream WITH
  content <- Written, Asks <- ReadSizes, Moves <- Offsets
ImplementsStream == Stream!Spec
=============================================================================
