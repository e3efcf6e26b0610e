----------------------------- MODULE MCVThread -----------------------------
(* Instances of VThread for TLC. *)
EXTENDS VThread, TLC

CONSTANTS r, q, a, b, c

(* One process that forks, or two. *)
One == [roots |-> {r}, pool |-> {r, a, b, c}]
Two == [roots |-> {r, q}, pool |-> {r, q, a, b, c}]

Kind(shape, ops) == [roots |-> shape.roots, pool |-> shape.pool, opcodes |-> ops]

(* %disable of any scope and %disable/flow; join_any and join_none with    *)
(* %wait/fork and %disable/fork; threads suspended in a mailbox.           *)
SoundKinds ==
  {Kind(Two, {"join", "delay", "wait", "disable", "flow"}),
   Kind(One, {"join", "join_any", "join_none", "wait", "disfork", "waitfork"}),
   Kind(One, {"join", "join_any", "wait", "mbx", "waitfork"})}

ASSUME KindsAreSound == \A k \in SoundKinds : Sound(k)

(* %disable in a program that detaches threads. *)
DisableDetached == {Kind(One, {"join_none", "join", "disable"})}

(* Threads that are forked are alike. *)
ForkedAlike == Permutations({a, b, c})

=============================================================================
