-------------------------------- MODULE MCPolicy --------------------------------
(***************************************************************************)
(* An instance of PolicyRelationships: one account, as no relationship     *)
(* names two of them, two artists, two labels, and one resource of every   *)
(* other form of permissions.                                              *)
(***************************************************************************)
EXTENDS PolicyRelationships, TLC

CONSTANTS a1, a2, l1, l2

AllIds == [artist |-> {a1, a2}, label |-> {l1, l2}, post |-> {1}, series |-> {1},
           work |-> {1}, map_place |-> {1}, page |-> {1}]

Interchangeable == Permutations({a1, a2}) \cup Permutations({l1, l2})
================================================================================
