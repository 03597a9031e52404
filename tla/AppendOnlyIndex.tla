--------------------------- MODULE AppendOnlyIndex ---------------------------
(***************************************************************************)
(* What the Node-local BOM registry promises its readers                   *)
(* (docs/provenance/BomRegistry.md): each key, a data id or an Order id,   *)
(* has a list of BOM ids that only ever grows, at the front, by a BOM that *)
(* is not in it yet.  BomRegistry is shown to implement this module when   *)
(* its writers do not overlap and the Node does not crash.                 *)
(***************************************************************************)
EXTENDS Sequences, Integers

CONSTANTS Keys,  \* data ids and Order ids
          Boms   \* BOM content ids

VARIABLE lists   \* [Keys -> Seq(Boms)], newest first

Listed(k) == {lists[k][i] : i \in 1 .. Len(lists[k])}

Init == lists = [k \in Keys |-> <<>>]

Prepend(k, b) ==
    /\ b \notin Listed(k)
    /\ lists' = [lists EXCEPT ![k] = <<b>> \o @]

Next == \E k \in Keys, b \in Boms : Prepend(k, b)

Spec == Init /\ [][Next]_lists
==============================================================================
