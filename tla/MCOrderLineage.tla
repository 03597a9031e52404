---------------------------- MODULE MCOrderLineage ----------------------------
(***************************************************************************)
(* Two versions of every file, edits in plant/ and in the Process package, *)
(* five Orders, executions, Jobs and edits together.                       *)
(***************************************************************************)
EXTENDS OrderLineage

CONSTANTS v1, v2, d0

MCVersions == {v1, v2}
MCOffered  == {"process_0", "my_process"}
MCEditDirs == {"plant", "process"}
==============================================================================
