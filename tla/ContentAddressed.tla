-------------------------- MODULE ContentAddressed ---------------------------
(***************************************************************************)
(* What a content-addressed store promises: a set of stored contents that  *)
(* only grows, in which a directory manifest appears only after every file *)
(* it names.  CasStore is shown to implement it, through crashes, when its *)
(* writers do not overlap.                                                 *)
(***************************************************************************)
CONSTANTS Contents,  \* content ids
          Kids       \* [Contents -> SUBSET Contents], what a manifest names

VARIABLE stored      \* the contents that can be read back

Init == stored = {}

Store(c) ==
    /\ Kids[c] \subseteq stored
    /\ stored' = stored \cup {c}

Next == \E c \in Contents : Store(c)

Spec == Init /\ [][Next]_stored
==============================================================================
