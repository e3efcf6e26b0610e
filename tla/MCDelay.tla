------------------------------ MODULE MCDelay ------------------------------
(* Instances of Delay for TLC. *)
EXTENDS Delay

CONSTANT LastTime

MCTimes == 0..LastTime

=============================================================================
