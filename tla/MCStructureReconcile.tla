------------------------- MODULE MCStructureReconcile -------------------------
(***************************************************************************)
(* StructureReconcile for TLC: three Structures.  sA has a Terraform file  *)
(* that sB does not have; sC calls another module and needs another        *)
(* provider.                                                               *)
(***************************************************************************)
EXTENDS StructureReconcile

CONSTANTS sA, sB, sC, main, extra, m1, m2, p1, p2

MCFewerFiles == [s \in Structures |-> IF s = sA THEN {main, extra} ELSE {main}]

MCUses == [s \in Structures |-> [x \in Slots |->
              CASE s = sC /\ x = main -> {m2, p2}
                [] s # sC /\ x = main -> {m1, p1}
                [] s = sA /\ x = extra -> {m1}
                [] OTHER -> {}]]
MCLockOf == [s \in Structures |-> IF s = sC THEN {p2} ELSE {p1}]
==============================================================================
