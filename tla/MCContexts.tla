----------------------------- MODULE MCContexts -----------------------------
(* Instances of Contexts for TLC. *)
EXTENDS Contexts, TLC

Symmetric == Permutations(Threads \ Roots) \cup Permutations(Contexts) \cup Permutations(Scopes)

=============================================================================
