--------------------------- MODULE MCVpiCallbacks ---------------------------
(* Instances of VpiCallbacks for TLC. *)
EXTENDS VpiCallbacks, TLC

Symmetric == Permutations(Ids)

=============================================================================
