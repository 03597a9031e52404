------------------------------ MODULE MCNodeHost ------------------------------
(***************************************************************************)
(* NodeHost for TLC.  Daemons are interchangeable, and so are commands,    *)
(* but the liveness property forbids symmetry.                             *)
(***************************************************************************)
EXTENDS NodeHost

CONSTANTS c1, c2, k1, k2, k3, k4

MCCommands == {c1, c2}
MCDaemons  == {k1, k2, k3, k4}
==============================================================================
