---------------------------- MODULE KdfTextWords ----------------------------
(***************************************************************************)
(* KdfText for documents whose keys and type names are one word to the     *)
(* parser: identifiers, or names that parser_read_ident refuses, or of     *)
(* which it reads a part behind which neither "=" nor "{" stands.  What    *)
(* becomes of other names is up to what is in them: "a = 1 b" is written   *)
(* as two properties, "#a" as a comment, and "}" ends the object it is in. *)
(***************************************************************************)
EXTENDS KdfText

ASSUME KeyAssumption ==
  /\ DOMAIN Spelling \cap Contents = {}
  /\ Contents \cap {"}", "]", "#", NewLine} = {}
=============================================================================
