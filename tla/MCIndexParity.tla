---------------------------- MODULE MCIndexParity ----------------------------
(***************************************************************************)
(* IndexParity for TLC: b1 and b2 have the same data, b1 and b3 the same   *)
(* Order.                                                                  *)
(***************************************************************************)
EXTENDS IndexParity, TLC

CONSTANTS b1, b2, b3, d1, d2, o1, o2, h1, h2

MCBoms    == {b1, b2, b3}
MCDatas   == {d1, d2}
MCOrders  == {o1, o2}
MCHosts   == {h1, h2}
MCAsked   == {b1}
MCDataOf  == [b \in Boms |-> IF b = b3 THEN d2 ELSE d1]
MCOrderOf == [b \in Boms |-> IF b = b2 THEN o2 ELSE o1]

\* Nothing tells the base URLs apart.
MCSymmetry == Permutations(MCHosts)
==============================================================================
