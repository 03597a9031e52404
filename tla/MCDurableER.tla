------------------------------ MODULE MCDurableER ------------------------------
(***************************************************************************)
(* DurableER for TLC: clients, ids, names and files are interchangeable.   *)
(***************************************************************************)
EXTENDS DurableER, TLC

MCSymmetry == Permutations(Clients) \cup Permutations(Ids)
                \cup Permutations(Names) \cup Permutations(Files)
==============================================================================
