---------------------------- MODULE MCBomRegistry ----------------------------
(***************************************************************************)
(* BomRegistry for TLC.  b1 and b2 have the same data id, the ambiguous    *)
(* case; two lists of different length for one key need no third BOM.      *)
(***************************************************************************)
EXTENDS BomRegistry

CONSTANTS b1, b2, d1, d2, o1, o2

MCBoms    == {b1, b2}
MCDatas   == {d1, d2}
MCOrders  == {o1, o2}
MCDataOf  == [b \in Boms |-> d1]
MCOrderOf == [b \in Boms |-> IF b = b1 THEN o1 ELSE o2]
==============================================================================
