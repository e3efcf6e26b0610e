---------------------------- MODULE MCEventWait ----------------------------
(* Instances of EventWait for TLC: a clock with a static posedge functor   *)
(* and an automatic negedge one, a signal with an anyedge functor, a named *)
(* event, and "or" functors in both scopes.                                *)
EXTENDS EventWait, TLC

MCKind == [pos |-> "posedge", any |-> "anyedge", ev |-> "named", both |-> "or",
           autoneg |-> "negedge", autoor |-> "or"]
MCSig == [pos |-> "clk", any |-> "q", autoneg |-> "clk"]
MCOrs == [pos |-> {"both"}, any |-> {"both"}, ev |-> {}, both |-> {},
          autoneg |-> {"autoor"}, autoor |-> {}]

(* q <= @(posedge clk) 1; q <= repeat (2) @(posedge clk or q) 0;           *)
(* clk <= @(ev) 1; clk <= @(q) 0.                                          *)
MCCtls == {[on |-> "pos", n |-> 1, to |-> "q", val |-> "1"],
           [on |-> "both", n |-> 2, to |-> "q", val |-> "0"],
           [on |-> "ev", n |-> 1, to |-> "clk", val |-> "1"],
           [on |-> "any", n |-> 1, to |-> "clk", val |-> "0"]}

Symmetric == Permutations(Threads) \cup Permutations(Contexts)

=============================================================================
