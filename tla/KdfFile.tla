------------------------------- MODULE KdfFile -------------------------------
(***************************************************************************)
(* Saving a document to a file and loading it again (kdf_binary_save and   *)
(* kdf_text_save, which differ in the writer they call, kdf_binary_load    *)
(* and kdf_text_load): the memory streams of KdfMemIO, stdio between them  *)
(* and the file, and a process that may die at any time.                   *)
(*                                                                         *)
(* Which bytes a writer makes of a document, and which document a reader   *)
(* makes of those, is left to KdfBinary and KdfText, and so is what lack   *)
(* of memory leaves out of a document.  Documents that a format does not   *)
(* tell apart have the same bytes, and come back as the same document or   *)
(* not at all.  The bytes are given to the stream in pieces of any size; a *)
(* reader that lacks memory answers NULL.  Between the calls the caller    *)
(* may use memory streams of its own, one writer and one reader at a time. *)
(***************************************************************************)
EXTENDS KdfMemIO, SequencesExt

CONSTANTS
  Documents,
  BytesOf,         \* what the writer of each format writes for a document
  Reads,           \* what its reader makes of that, NULL for an error
  Other,           \* a document nobody saved
  AllocFails,      \* may realloc, and the allocations of a load, fail?
  FilesFail        \* may the functions of stdio fail?

Formats == {"binary", "text"}
Whole(f, d) == BytesOf[f][d]

\* The binary form of a document is never the beginning of another one, for all
\* counts come first (TornStreamRefused of KdfBinary), nor of a text, which
\* begins otherwise (kdf_binary.h:14, kdf_text_writer.c:268).  A reader has
\* nothing but the bytes to go by.
ASSUME FileAssumption ==
  /\ AllocFails \in BOOLEAN /\ FilesFail \in BOOLEAN
  /\ BytesOf \in [Formats -> [Documents -> Seq(Bytes)]]
  /\ Reads \in [Formats -> [Documents -> Documents \cup {NULL}]]
  /\ {NULL, Other, "none", "ok", "io"} \cap Documents = {}
  /\ {NULL, Other} \cap {"none", "ok", "io"} = {} /\ NULL # Other
  /\ \A d, e \in Documents :
       IsPrefix(Whole("binary", d), Whole("binary", e)) => Whole("binary", d) = Whole("binary", e)
  /\ \A d, e \in Documents : ~IsPrefix(Whole("binary", d), Whole("text", e))
  /\ \A f \in Formats : \A d, e \in Documents :
       Whole(f, d) = Whole(f, e) => Reads[f][d] = Reads[f][e]
Prefixed(bytes) == {SubSeq(bytes, 1, k) : k \in 0 .. Len(bytes)}

VARIABLES
  disk,            \* the bytes of the file, NULL before it exists
  call,            \* "none", or how far a call has come: "serialise", "close",
                   \*   "fill", "parse"
  format,          \* the format of the call
  last,            \* the format and document whose save last opened the file
  todo,            \* the bytes the writer has still to write
  error,           \* result
  pending,         \* what stdio has not yet given to the file
  block,           \* is the block for the file's bytes allocated?
  length,          \* file_size
  taken,           \* what the reader was given so far
  ignored,         \* the functions of stdio that failed and were not asked
  answer           \* what the last call returned, "none" after other calls

fileVars == <<disk, call, format, last, todo, error, pending, block, length, taken,
              ignored, answer>>
vars == <<memVars, fileVars>>

-----------------------------------------------------------------------------
Init ==
  /\ MemInit
  /\ disk = NULL /\ call = "none" /\ format = "binary" /\ last = NULL
  /\ todo = <<>> /\ error = "ok" /\ pending = <<>> /\ block = FALSE
  /\ length = 0 /\ taken = <<>> /\ ignored = {} /\ answer = "none"

\* The caller's own memory streams.
UseStreams ==
  /\ call = "none" /\ MemNext /\ answer' = "none"
  /\ UNCHANGED <<disk, call, format, last, todo, error, pending, block, length, taken, ignored>>

\* kdf_binary_save, kdf_text_save: fopen(path, "wb") empties the file before
\* anything was written.  Mutated form: "ab".
OpenedToAppend == IF disk = NULL THEN <<>> ELSE disk
OpenedEmpty == <<>>
SaveOpen ==
  /\ call = "none" /\ data = NULL
  /\ \E f \in Formats, d \in Documents :
       /\ format' = f /\ last' = <<f, d>> /\ todo' = Whole(f, d)
  /\ disk' = OpenedEmpty /\ call' = "serialise"
  /\ error' = "ok" /\ ignored' = {} /\ answer' = "none"
  /\ UNCHANGED <<memVars, pending, block, length, taken>>
SaveCannotOpen ==
  /\ call = "none" /\ data = NULL /\ FilesFail
  /\ ignored' = {} /\ answer' = "io"
  /\ UNCHANGED <<memVars, disk, call, format, last, todo, error, pending, block, length, taken>>

\* kdf_binary_write, kdf_text_write: after a write was refused the others are
\* not made.
Serialise ==
  /\ call = "serialise" /\ todo # <<>>
  /\ \E piece \in Pieces :
       /\ IsPrefix(piece, todo)
       /\ \/ /\ MwWrite(piece)
             /\ todo' = SubSeq(todo, Len(piece) + 1, Len(todo)) /\ UNCHANGED error
          \/ /\ AllocFails /\ MwRefuses(piece)
             /\ todo' = <<>> /\ error' = "io" /\ UNCHANGED memVars
  /\ UNCHANGED <<disk, call, format, last, pending, block, length, taken, ignored, answer>>

\* fwrite takes all or, when it fails, less; some of that is in the file now.
\* Mutated form: what it returns is not looked at.
WrittenAll(n) == "ok"
WriteResult(n) == IF n = size THEN "ok" ELSE "io"
FWrite ==
  /\ call = "serialise" /\ todo = <<>> /\ call' = "close"
  /\ \/ error = "io" /\ UNCHANGED <<disk, pending, error>>
     \/ /\ error = "ok"
        /\ \E n \in IF FilesFail THEN 0 .. size ELSE {size} : \E k \in 0 .. n :
             /\ disk' = disk \o SubSeq(Written, 1, k) /\ pending' = SubSeq(Written, k + 1, n)
             /\ error' = WriteResult(n)
  /\ UNCHANGED <<memVars, format, last, todo, block, length, taken, ignored, answer>>

\* kdf_mem_writer_finish, and fclose, which writes the rest or fails.
FClose ==
  /\ call = "close" /\ MwFinish
  /\ \E rest \in IF FilesFail THEN Prefixed(pending) ELSE {pending} :
       /\ disk' = disk \o rest
       /\ ignored' = IF rest = pending THEN {} ELSE {"fclose"}
  /\ pending' = <<>> /\ call' = "none" /\ answer' = error /\ error' = "ok"
  /\ UNCHANGED <<format, last, todo, block, length, taken>>

-----------------------------------------------------------------------------
\* kdf_binary_load, kdf_text_load: fopen, fseek and ftell, and a block.  When
\* fseek fails, ftell says how far it got.
LoadOpen ==
  /\ call = "none" /\ disk # NULL
  /\ \E f \in Formats : format' = f
  /\ \E seeks \in IF FilesFail THEN BOOLEAN ELSE {TRUE} :
       /\ length' = IF seeks THEN Len(disk) ELSE 0
       /\ ignored' = IF seeks THEN {} ELSE {"fseek"}
  /\ block' = TRUE /\ call' = "fill" /\ answer' = "none"
  /\ UNCHANGED <<memVars, disk, last, todo, error, pending, taken>>
LoadCannotOpen ==
  /\ call = "none" /\ (disk = NULL \/ AllocFails \/ FilesFail)
  /\ ignored' = {} /\ answer' = NULL
  /\ UNCHANGED <<memVars, disk, call, format, last, todo, error, pending, block, length, taken>>

\* fread of all, into a memory reader; or of less, which ends the call.  Mutated
\* forms: less is good enough; the block is not freed then.
EnoughIsLess(n) == TRUE
Enough(n) == n = length
AfterFreeForgotten == block
AfterFree == FALSE
LoadFill ==
  /\ call = "fill"
  /\ \E n \in IF FilesFail THEN 0 .. length ELSE {length} :
       \/ Enough(n) /\ MrCreate(SubSeq(disk, 1, n)) /\ call' = "parse"
          /\ UNCHANGED <<block, answer>>
       \/ ~Enough(n) /\ call' = "none" /\ answer' = NULL /\ block' = AfterFree
          /\ UNCHANGED memVars
  /\ length' = IF call' = "none" THEN 0 ELSE length
  /\ UNCHANGED <<disk, format, last, todo, error, pending, taken, ignored>>

\* The reader of the format asks for some more.
LoadRead ==
  /\ call = "parse"
  /\ \E n \in ReadSizes : MrRead(n) /\ taken' = taken \o got'
  /\ UNCHANGED <<disk, call, format, last, todo, error, pending, block, length, ignored, answer>>

\* What bytes are read as.  Text that was cut off may be a shorter document.
Parsed(f, bytes) ==
  LET ds == {d \in Documents : Whole(f, d) = bytes} IN
  IF ds # {} THEN {Reads[f][d] : d \in ds}
  ELSE IF f = "text" THEN {NULL, Other} ELSE {NULL}

\* kdf_binary_read stops behind the last property it was promised, kdf_text_read
\* at the end of its input; NULL may be returned before.  The block is freed,
\* and the memory reader over it is gone.
LoadReturn ==
  /\ call = "parse" /\ call' = "none" /\ block' = FALSE
  /\ \/ AllocFails /\ answer' = NULL
     \/ (\A d \in Documents : Whole(format, d) # input) /\ answer' = NULL
     \/ /\ format = "binary" \/ pos = Len(input)
        /\ answer' \in Parsed(format, taken)
  /\ MrCreate(<<>>) /\ length' = 0 /\ taken' = <<>>
  /\ UNCHANGED <<disk, format, last, todo, error, pending, ignored>>

-----------------------------------------------------------------------------
\* The process dies: what is in the file stays, what stdio had not given to it
\* is lost with the rest.
Crash ==
  /\ MemCrash
  /\ call' = "none" /\ todo' = <<>> /\ error' = "ok" /\ pending' = <<>> /\ block' = FALSE
  /\ length' = 0 /\ taken' = <<>> /\ ignored' = {} /\ answer' = "none"
  /\ UNCHANGED <<disk, format, last>>

Next ==
  \/ UseStreams
  \/ SaveOpen \/ SaveCannotOpen \/ Serialise \/ FWrite \/ FClose
  \/ LoadOpen \/ LoadCannotOpen \/ LoadFill \/ LoadRead \/ LoadReturn
  \/ Crash

Spec == Init /\ [][Next]_vars

-----------------------------------------------------------------------------
\* When save returns KDF_OK, the file holds the whole document, byte by byte,
\* unless fclose failed, which save does not ask.
OkMeansSaved ==
  answer = "ok" /\ ignored = {} => disk = Whole(last[1], last[2])

\* The file is at any time the beginning of what was saved last: a crash or a
\* failure loses the end of it, and what the file held before, but never mixes
\* the two or leaves a hole.
FileIsPrefix == disk # NULL => IsPrefix(disk, Whole(last[1], last[2]))

\* A load answers with what its reader makes of the document that was saved
\* last.  The binary format does so even when the file is torn, or answers NULL;
\* text only when the file is whole.  fseek is not asked whether it failed.
LoadsWhatWasSaved ==
  /\ answer \in Documents \cup {Other} /\ ignored = {}
  /\ format = "binary" \/ (format = last[1] /\ disk = Whole(last[1], last[2]))
  => /\ last \in Formats \X Documents /\ last[1] = format
     /\ answer = Reads[format][last[2]]

\* Every call returns what it allocated, whichever of its steps failed.
NothingKept ==
  /\ call = "none" => ~block /\ pending = <<>>
  /\ answer \in {"ok", "io"} => data = NULL

-----------------------------------------------------------------------------
\* What was given to the writer or to stdio and what is still to be given make
\* up the document, as long as nothing failed, and its beginning if something
\* did.  A file fits into the address space because its bytes once did.
Saved == Whole(last[1], last[2])
Saving ==
  /\ disk # NULL => /\ last \in Formats \X Documents
                    /\ IsPrefix(disk \o pending, Saved) /\ Len(disk \o pending) <= Half
  /\ call = "serialise" => /\ disk = <<>> /\ pending = <<>>
                           /\ IF error = "ok" THEN Written \o todo = Saved ELSE todo = <<>>
  /\ call = "close" => disk # NULL /\ (error = "ok" => disk \o pending = Saved)
  /\ call \notin {"serialise", "close"} => pending = <<>> /\ error = "ok"

\* What a reader was given is the beginning of what is in its memory, and that
\* is the beginning of the file, all of it unless fseek failed.
Loading ==
  /\ call \in {"fill", "parse"} => /\ disk # NULL /\ length <= Len(disk)
                                   /\ ignored = {} => length = Len(disk)
  /\ call = "parse" => /\ input = SubSeq(disk, 1, length)
                       /\ pos = Len(taken) /\ taken = SubSeq(input, 1, pos)
  /\ call # "parse" => taken = <<>>
  /\ block <=> call \in {"fill", "parse"}
  /\ call # "none" => answer = "none"

FileTypeOK ==
  /\ disk = NULL \/ disk \in Seq(Bytes)
  /\ call \in {"none", "serialise", "close", "fill", "parse"}
  /\ format \in Formats /\ (last = NULL \/ last \in Formats \X Documents)
  /\ todo \in Seq(Bytes) /\ pending \in Seq(Bytes) /\ taken \in Seq(Bytes)
  /\ error \in {"ok", "io"} /\ block \in BOOLEAN /\ length \in Nat

\* The inductive invariant: with it every step keeps what the properties say.
IndInv ==
  /\ TypeOK /\ FileTypeOK /\ Len(input) <= Half
  /\ Saving /\ Loading
  /\ OkMeansSaved /\ FileIsPrefix /\ LoadsWhatWasSaved /\ NothingKept
=============================================================================
