----------------------------- MODULE MCCasStore ------------------------------
(***************************************************************************)
(* CasStore for TLC: a directory of two files, and one of its files alone  *)
(* in a second directory, so that two puts share a blob.  The concurrent   *)
(* run takes the first directory only: two puts of it share every blob.    *)
(***************************************************************************)
EXTENDS CasStore

CONSTANTS f1, f2, t1, t2

MCFiles   == {f1, f2}
MCOneTree == {t1}
MCTrees   == {t1, t2}
MCEntries == [t \in Trees |-> IF t = t1 THEN {f1, f2} ELSE {f2}]
==============================================================================
