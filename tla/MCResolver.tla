----------------------------- MODULE MCResolver -----------------------------
(* Instances of Resolver for TLC: every type of net, with one port, a      *)
(* single group, and two levels of groups.                                 *)
EXTENDS Resolver

MCNets == [type: Types, nports: {1, 3}] \cup [type: {"tri1", "triand"}, nports: {5}]

(* No value, strong 0, 1 and X, pull 1, and a driver that is on or   *)
(* off, to 0 and to 1.                                                     *)
MCDrivers == {<<0, 0>>, <<6, 6>>, <<14, 14>>, <<14, 6>>, <<13, 13>>,
              <<8, 6>>, <<14, 0>>}

=============================================================================
