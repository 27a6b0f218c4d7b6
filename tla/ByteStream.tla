----------------------------- MODULE ByteStream -----------------------------
(***************************************************************************)
(* What include/kdf/kdf_io.h promises of the memory streams: a writer that *)
(* appends, and a reader that hands out a file's bytes in order, each of   *)
(* them once, as far as they go, and from wherever it was moved to.        *)
(***************************************************************************)
EXTENDS Integers, Sequences

CONSTANTS
  Pieces,            \* what is written by one call
  Asks,              \* how much one read asks for
  Moves              \* how far one seek goes, from the beginning, from the
                     \*   position or from the end

VARIABLES
  content,           \* everything the writer accepted
  input,             \* the bytes behind the reader
  pos,               \* how many of them are before its position
  got                \* what the last read handed out

vars == <<content, input, pos, got>>

Init == content = <<>> /\ input = <<>> /\ pos = 0 /\ got = <<>>

\* A write is accepted whole; one that is refused changes nothing.
Write(piece) == content' = content \o piece /\ UNCHANGED <<input, pos, got>>

Discard == content' = <<>> /\ UNCHANGED <<input, pos, got>>

\* A reader of other bytes is made; it begins with the first one.
Attach == pos' = 0 /\ got' = <<>> /\ UNCHANGED content

\* A read goes on where the last one stopped, and gives less than it was asked
\* for only at the end.
Take(n) ==
  /\ pos' = IF pos + n <= Len(input) THEN pos + n ELSE Len(input)
  /\ got' = SubSeq(input, pos + 1, pos')
  /\ UNCHANGED <<content, input>>

\* A seek goes where it was told to, and never out of the bytes.
Jump(move) ==
  /\ pos' \in {move, pos + move, Len(input) + move} \cap (0 .. Len(input))
  /\ UNCHANGED <<content, input, got>>

\* The process that had the streams is gone.
Lost == Init'

Next ==
  \/ \E piece \in Pieces : Write(piece)
  \/ Discard \/ Attach \/ Lost
  \/ \E n \in Asks : Take(n)
  \/ \E move \in Moves : Jump(move)

Spec == Init /\ [][Next]_vars
=============================================================================
