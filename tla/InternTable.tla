----------------------------- MODULE InternTable -----------------------------
(***************************************************************************)
(* What the string pool promises (src/src/kdf_internal.h:80-82): a content *)
(* is given one pointer, the first time it is asked for, and the same      *)
(* pointer every time after that for as long as the pool lives.            *)
(***************************************************************************)
CONSTANTS Contents, Pointers, NULL

VARIABLES table,   \* the pointer each content was given, NULL before that
          answer,  \* what the last call asked for and was answered
          open     \* FALSE once the pool was destroyed
tableVars == <<table, answer, open>>

Nothing == [s \in Contents |-> NULL]

Initial == /\ table = Nothing
           /\ answer = [asked |-> NULL, node |-> NULL]
           /\ open = TRUE

\* A pointer that is given out for the first time belongs to no other content.
Give(s) ==
  /\ open = TRUE /\ table[s] = NULL
  /\ \E p \in Pointers :
       /\ \A r \in Contents : table[r] # p
       /\ table' = [table EXCEPT ![s] = p]
       /\ answer' = [asked |-> s, node |-> p]
  /\ UNCHANGED open

Repeat(s) ==
  /\ open = TRUE /\ table[s] # NULL
  /\ answer' = [asked |-> s, node |-> table[s]]
  /\ UNCHANGED <<table, open>>

\* Memory ran out; nothing was given.
Refuse(s) ==
  /\ open = TRUE /\ table[s] = NULL
  /\ answer' = [asked |-> s, node |-> NULL]
  /\ UNCHANGED <<table, open>>

Close == open = TRUE /\ open' = FALSE /\ table' = Nothing /\ UNCHANGED answer

TableNext == (\E s \in Contents : Give(s) \/ Repeat(s) \/ Refuse(s)) \/ Close

TableSpec == Initial /\ [][TableNext]_tableVars
=============================================================================
