--------------------------- MODULE MCOrderExecution ---------------------------
(***************************************************************************)
(* OrderExecution for TLC: two Orders.  Requests are interchangeable; the  *)
(* Orders too.                                                             *)
(***************************************************************************)
EXTENDS OrderExecution, TLC

Symmetry == Permutations(Requests) \cup Permutations(Orders)
==============================================================================
