------------------------------- MODULE MCRayHeal ------------------------------
(***************************************************************************)
(* RayHeal for TLC.  Two requests show a heal that rolls the head of       *)
(* another one.                                                            *)
(***************************************************************************)
EXTENDS RayHeal

CONSTANTS h1, h2

MCHealers == {h1, h2}
==============================================================================
