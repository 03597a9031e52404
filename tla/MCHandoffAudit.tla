---------------------------- MODULE MCHandoffAudit ----------------------------
(***************************************************************************)
(* HandoffAudit for TLC: r1 and r3 run the same Order and produce the same *)
(* data; r2 runs the Order that linkProcess made from r1: the Structure is *)
(* carried, the Function new.                                              *)
(***************************************************************************)
EXTENDS HandoffAudit

MCRuns        == {"r1", "r2", "r3"}
MCOrderOf     == [r1 |-> "o1", r2 |-> "o2", r3 |-> "o1"]
MCDataOf      == [r1 |-> "d1", r2 |-> "d2", r3 |-> "d1"]
MCInputOf     == [o1 |-> "d0", o2 |-> "d1"]
MCFunctionOf  == [o1 |-> "f1", o2 |-> "f2"]
MCStructureOf == [o1 |-> "s1", o2 |-> "s1"]
==============================================================================
