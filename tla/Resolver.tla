------------------------------ MODULE Resolver ------------------------------
(***************************************************************************)
(* Nets with several drivers, vvp/resolv.cc: a resolver keeps the values   *)
(* of its ports and of the branches of a quaternary tree over them in one  *)
(* array, and works out again only the branches that a new value changes.  *)
(* A tri0 or tri1 net blends its pull value into the result.               *)
(*                                                                         *)
(* A bit with strengths (vvp_scalar_t) is a byte of two nibbles, here      *)
(* <<n1, n0>>: strengths for 1 and for 0, each with a bit, worth 8, that   *)
(* says on which side it lies.  The bits of a vector do not interact and   *)
(* are one bit here.                                                       *)
(***************************************************************************)
EXTENDS Integers, Sequences, FiniteSets, FiniteSetsExt

CONSTANTS
  Nets,     (* the resolvers: records with type and nports *)
  Drivers,  (* the values that drivers of tri nets have *)
  None      (* of a port that has not had a value yet: a vector of size 0 *)

Types == {"tri", "tri0", "tri1", "triand", "trior"}
vvp_scalar_t == (0..15) \X (0..15)
Bit4 == {"0", "1", "X", "Z"}

ASSUME ResolverAssumption ==
  /\ Nets \subseteq [type: Types, nports: Nat \ {0}]
  /\ Drivers \subseteq vvp_scalar_t /\ None \notin vvp_scalar_t \cup Bit4

VARIABLES
  net,     \* the resolver, never changed
  val_,    \* ports, branches and output, from 0 on
  out,     \* the value that was sent last
  driven   \* history: the value each port has received last

vars == <<net, val_, out, driven>>

Tri == net.type \in {"tri", "tri0", "tri1"}

-----------------------------------------------------------------------------
(* vvp_scalar_t *)
HiZ == <<0, 0>>
Strength(nib) == nib % 8
Ones(nib) == nib >= 8
is_hiz(v) == Strength(v[1]) = 0 /\ Strength(v[2]) = 0
UNAMBIG(v) == v[1] = v[2]

(* value() *)
value(v) ==
  CASE is_hiz(v) -> "Z"
    [] ~ is_hiz(v) /\ ~ Ones(v[1]) /\ ~ Ones(v[2]) -> "0"
    [] ~ is_hiz(v) /\ Ones(v[1]) /\ Ones(v[2]) -> "1"
    [] OTHER -> "X"

(* A level from -7 (supply 0) to 7 (supply 1). *)
Level(nib) == IF Ones(nib) THEN Strength(nib) ELSE - Strength(nib)

Wider(a, b) ==
  LET all == {Level(a[1]), Level(a[2]), Level(b[1]), Level(b[2])}
      sv1 == Max(all)
      sv0 == Min(all)
      n1 == IF sv1 > 0 THEN 8 + sv1
            ELSE (IF Ones(a[1]) /\ Ones(b[1]) THEN 8 ELSE 0) - sv1
      n0 == IF sv0 > 0 THEN 8 + sv0 ELSE - sv0
  IN  IF is_hiz(<<n1, n0>>) THEN HiZ ELSE <<n1, n0>>

(* Mutant: of two values of the same strength the first one wins. *)
fully_featured_resolv_First(a, b) ==
  IF Strength(b[2]) > Strength(a[2]) THEN b ELSE a

fully_featured_resolv_(a, b) ==
  LET stronger(x, y) ==   \* x is unambiguous
        [k \in 1..2 |-> IF Strength(x[k]) > Strength(y[k]) THEN x[k] ELSE y[k]]
  IN  CASE UNAMBIG(a) /\ UNAMBIG(b) ->
             IF Strength(b[2]) > Strength(a[2]) THEN b
             ELSE IF Strength(b[2]) = Strength(a[2])
                  THEN <<8 + Strength(a[1]), Strength(a[2])>>
                  ELSE a
        [] UNAMBIG(a) /\ ~ UNAMBIG(b) -> stronger(a, b)
        [] ~ UNAMBIG(a) /\ UNAMBIG(b) -> stronger(b, a)
        [] OTHER -> Wider(a, b)

resolve(a, b) ==
  IF is_hiz(a) THEN b
  ELSE IF is_hiz(b) \/ a = b THEN a
  ELSE fully_featured_resolv_(a, b)

-----------------------------------------------------------------------------
(* resolv_triand and resolv_trior: the value that wins is 0, or 1. *)
wired_logic_math_(a, b) ==
  LET wins == IF net.type = "triand" THEN "0" ELSE "1"
      loses == IF net.type = "triand" THEN "1" ELSE "0"
  IN  CASE a = "Z" -> b
        [] a # "Z" /\ b = "Z" -> a
        [] "Z" \notin {a, b} /\ wins \in {a, b} -> wins
        [] "Z" \notin {a, b} /\ wins \notin {a, b} /\ "X" \in {a, b} -> "X"
        [] OTHER -> loses

Blend(a, b) == IF Tri THEN resolve(a, b) ELSE wired_logic_math_(a, b)

(* The values at places i..j resolved from the left, without those of      *)
(* size 0.                                                                 *)
Group(v, i, j) ==
  LET f[k \in i..j] ==
        IF k = i THEN v[i]
        ELSE CASE v[k] = None -> f[k - 1]
               [] v[k] # None /\ f[k - 1] = None -> v[k]
               [] OTHER -> Blend(f[k - 1], v[k])
  IN  f[j]

hiz_value_ ==
  CASE net.type = "tri0" -> <<5, 5>> [] net.type = "tri1" -> <<13, 13>> [] OTHER -> HiZ

(* The number of places in val_, from the constructors. *)
Nodes(nports) ==
  LET up(s) == (s + 3) \div 4
      f[s \in 1..nports] == IF s <= 4 THEN s ELSE s + f[up(s)]
  IN  IF nports = 1 THEN 1 ELSE f[nports] + 1

(* Mutant: the last group is one place too short. *)
Turn_Short(s) ==
  LET next_base == s.base + s.span
      ip == s.base + 4 * (s.port \div 4)
      op == next_base + s.port \div 4
      res == Group(s.val, ip, Min({ip + 3, next_base}) - 1)
  IN  IF s.stop \/ s.span = 1 THEN s
      ELSE IF s.val[op] = res THEN [s EXCEPT !.stop = TRUE]
      ELSE [val |-> [s.val EXCEPT ![op] = res], base |-> next_base,
            span |-> (s.span + 3) \div 4, port |-> s.port \div 4, stop |-> FALSE]

(* One turn of the loop down the tree; stop is set by the early return. *)
Turn(s) ==
  LET next_base == s.base + s.span
      ip == s.base + 4 * (s.port \div 4)
      op == next_base + s.port \div 4
      res == Group(s.val, ip, Min({ip + 4, next_base}) - 1)
  IN  IF s.stop \/ s.span = 1 THEN s
      ELSE IF s.val[op] = res THEN [s EXCEPT !.stop = TRUE]
      ELSE [val |-> [s.val EXCEPT ![op] = res], base |-> next_base,
            span |-> (s.span + 3) \div 4, port |-> s.port \div 4, stop |-> FALSE]

Loop(s) ==
  LET f[k \in 0..net.nports] == IF k = 0 THEN s ELSE Turn(f[k - 1])
  IN  f[net.nports]

(* Mutant: the pull value takes the place of no value only. *)
Pulled_HiZ(v) == IF is_hiz(v) THEN hiz_value_ ELSE v

Pulled(v) == IF is_hiz(hiz_value_) THEN v ELSE resolve(v, hiz_value_)

(* recv_vec8_ of resolv_tri and recv_vec4_ of resolv_wired_logic. *)
recv(port, v) ==
  LET start == [val |-> [val_ EXCEPT ![port] = v], base |-> 0, span |-> net.nports,
                port |-> port, stop |-> FALSE]
      s == Loop(start)
      o == IF Tri THEN Pulled(s.val[s.base]) ELSE s.val[s.base]
  IN  /\ val_[port] # v
      /\ driven' = [driven EXCEPT ![port] = v]
      /\ IF s.stop
         THEN val_' = s.val /\ UNCHANGED out
         ELSE val_' = [s.val EXCEPT ![s.base] = o] /\ out' = o
      /\ UNCHANGED net

(* A value that is there already changes nothing, but history. *)
recv_same(port, v) ==
  /\ val_[port] = v
  /\ driven' = [driven EXCEPT ![port] = v]
  /\ UNCHANGED <<net, val_, out>>

(* Mutant: the branches are counted too. *)
count_drivers_All(b) ==
  Cardinality({p \in DOMAIN val_ :
    val_[p] # None /\ b = IF Tri THEN value(val_[p]) ELSE val_[p]})

(* count_drivers: how many drivers have the value b. *)
count_drivers(b) ==
  Cardinality({p \in 0..net.nports - 1 :
    val_[p] # None /\ b = IF Tri THEN value(val_[p]) ELSE val_[p]})

Init ==
  /\ net \in Nets
  /\ val_ = [k \in 0..Nodes(net.nports) - 1 |-> None]
  /\ out = None
  /\ driven = [p \in 0..net.nports - 1 |-> None]

Next ==
  \E port \in 0..net.nports - 1, v \in IF Tri THEN Drivers ELSE Bit4 :
    recv(port, v) \/ recv_same(port, v)

Spec == Init /\ [][Next]_vars

-----------------------------------------------------------------------------
TypeOK ==
  /\ net \in Nets
  /\ \A k \in DOMAIN val_ : val_[k] = None \/ val_[k] \in IF Tri THEN vvp_scalar_t ELSE Bit4
  /\ out = None \/ out \in IF Tri THEN vvp_scalar_t ELSE Bit4

(* What drivers may do, by level: a result is possible if some driver may  *)
(* have it while no other one need be stronger.                            *)
Levels(v) == LET l == {Level(v[1]), Level(v[2])} IN Min(l)..Max(l)
Abs(x) == IF x < 0 THEN - x ELSE x
Active == {p \in DOMAIN driven : driven[p] # None}
Possible ==
  LET L == {Levels(driven[p]) : p \in Active} \cup {Levels(hiz_value_)}
  IN  {x \in -7..7 : /\ \E A \in L : x \in A
                     /\ \A B \in L : \E y \in B : Abs(y) <= Abs(x)}

Resolved ==
  CASE Possible = {0} -> "Z"
    [] Min(Possible) > 0 -> "1"
    [] Max(Possible) < 0 -> "0"
    [] OTHER -> "X"

WiredAs ==
  LET has(b) == \E p \in Active : driven[p] = b
      wins == IF net.type = "triand" THEN "0" ELSE "1"
      loses == IF net.type = "triand" THEN "1" ELSE "0"
  IN  IF has(wins) THEN wins ELSE IF has("X") THEN "X" ELSE IF has(loses) THEN loses ELSE "Z"

(* A driver that is off or on: its strength is that of no value on one     *)
(* side.                                                                   *)
HalfOn(v) == ~ UNAMBIG(v) /\ (Strength(v[1]) = 0) # (Strength(v[2]) = 0)
Weaker == {driven[p] : p \in Active} \cup {hiz_value_}

(* The net has the value its drivers have together, whatever the order in  *)
(* which they changed and however they sit in the tree, though branches    *)
(* that seem unchanged are skipped and the pull value is stored with the   *)
(* output.  The exception are nets where a driver that may be off or on    *)
(* meets weaker drivers: there pairs of ambiguous values are not combined  *)
(* exactly, and the order of the ports matters.                            *)
ResolvedRight ==
  Active # {} =>
    IF Tri
    THEN \/ value(out) = Resolved
         \/ \E v, w \in Weaker : /\ HalfOn(v) /\ w # HiZ /\ UNAMBIG(w)
                                 /\ Strength(w[1]) < Max({Strength(v[1]), Strength(v[2])})
    ELSE out = WiredAs

(* $countdrivers tells the truth: of each value the resolver counts the    *)
(* drivers that sent it last, though one array holds the ports and the     *)
(* branches that each change writes over.  The exception is a net with a   *)
(* single driver and a pull, which is then counted in place of the driver. *)
(* Every variable has its type.                                            *)
DriversCounted ==
  /\ TypeOK
  /\ \/ \A b \in {"0", "1", "X"} :
          count_drivers(b) =
            Cardinality({p \in Active : b = IF Tri THEN value(driven[p]) ELSE driven[p]})
     \/ net.nports = 1 /\ ~ is_hiz(hiz_value_)

=============================================================================
