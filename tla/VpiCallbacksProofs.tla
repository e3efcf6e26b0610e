------------------------- MODULE VpiCallbacksProofs -------------------------
(***************************************************************************)
(* Proofs about VpiCallbacks, for any number of callbacks, signals and     *)
(* calls: walks over the callbacks of a signal that routines change and    *)
(* walk again, and the one-shot callbacks.                                 *)
(***************************************************************************)
EXTENDS VpiCallbacks, SequenceTheorems, FiniteSetTheorems, TLAPS

-----------------------------------------------------------------------------
(* Facts about sequences. *)

LEMMA HeadTail ==
  ASSUME NEW S, NEW s \in Seq(S), s # << >>
  PROVE  /\ Head(s) \in S /\ Tail(s) \in Seq(S) /\ Head(s) = s[1]
         /\ Len(s) \in Nat \ {0} /\ Len(Tail(s)) = Len(s) - 1
         /\ \A k \in 1..(Len(s) - 1) : Tail(s)[k] = s[k + 1]
  OBVIOUS

LEMMA PutInFront ==
  ASSUME NEW S, NEW s \in Seq(S), NEW x \in S
  PROVE  /\ <<x>> \o s \in Seq(S) /\ <<x>> \o s # << >>
         /\ Len(<<x>> \o s) = Len(s) + 1 /\ Len(s) \in Nat
         /\ (<<x>> \o s)[1] = x
         /\ \A k \in 2..(Len(s) + 1) : (<<x>> \o s)[k] = s[k - 1]
         /\ Head(<<x>> \o s) = x /\ Tail(<<x>> \o s) = s
  OBVIOUS

LEMMA ReplaceTop ==
  ASSUME NEW S, NEW s \in Seq(S), s # << >>, NEW x \in S
  PROVE  /\ <<x>> \o Tail(s) \in Seq(S) /\ <<x>> \o Tail(s) # << >>
         /\ Len(<<x>> \o Tail(s)) = Len(s) /\ Len(s) \in Nat \ {0}
         /\ (<<x>> \o Tail(s))[1] = x
         /\ \A k \in 2..Len(s) : (<<x>> \o Tail(s))[k] = s[k]
<1>1. /\ Tail(s) \in Seq(S) /\ Len(s) \in Nat \ {0} /\ Len(Tail(s)) = Len(s) - 1
      /\ \A k \in 1..(Len(s) - 1) : Tail(s)[k] = s[k + 1]
  BY HeadTail
<1> DEFINE r == Tail(s)
<1> HIDE DEF r
<1>2. /\ r \in Seq(S) /\ Len(r) = Len(s) - 1 /\ Len(s) \in Nat \ {0}
      /\ \A k \in 1..(Len(s) - 1) : r[k] = s[k + 1]
  BY <1>1 DEF r
<1>3. /\ <<x>> \o r \in Seq(S) /\ <<x>> \o r # << >>
      /\ Len(<<x>> \o r) = Len(s) /\ (<<x>> \o r)[1] = x
      /\ \A k \in 2..Len(s) : (<<x>> \o r)[k] = r[k - 1]
  BY <1>2, PutInFront
<1>4. \A k \in 2..Len(s) : r[k - 1] = s[k]
  BY <1>2
<1>5. QED
  BY <1>2, <1>3, <1>4 DEF r

(* Lists without repetition. *)
LEMMA RangeFront ==
  ASSUME NEW S, NEW s \in Seq(S), NEW x \in S
  PROVE  /\ Range(<<x>> \o s) = {x} \cup Range(s)
         /\ IsInjective(s) /\ x \notin Range(s) => IsInjective(<<x>> \o s)
<1> DEFINE r == <<x>> \o s
<1>1. /\ r \in Seq(S) /\ Len(r) = Len(s) + 1 /\ Len(s) \in Nat /\ r[1] = x
      /\ \A k \in 2..(Len(s) + 1) : r[k] = s[k - 1]
  BY PutInFront
<1>2. DOMAIN r = 1..(Len(s) + 1) /\ DOMAIN s = 1..Len(s)
  BY <1>1
<1> HIDE DEF r
<1>3. ASSUME NEW k \in DOMAIN r PROVE r[k] \in {x} \cup Range(s)
  <2>1. CASE k = 1
    BY <1>1, <2>1
  <2>2. CASE k # 1
    <3>1. k \in 2..(Len(s) + 1) /\ k - 1 \in DOMAIN s
      BY <1>1, <1>2, <2>2
    <3>2. QED
      BY <1>1, <3>1 DEF Range
  <2>3. QED
    BY <2>1, <2>2
<1>4. ASSUME NEW k \in DOMAIN s PROVE s[k] \in Range(r)
  <2>1. k + 1 \in DOMAIN r /\ r[k + 1] = s[k]
    BY <1>1, <1>2
  <2>2. QED
    BY <2>1 DEF Range
<1>5. x \in Range(r)
  BY <1>1, <1>2 DEF Range
<1>6. Range(r) = {x} \cup Range(s)
  BY <1>3, <1>4, <1>5 DEF Range
<1>7. ASSUME IsInjective(s), x \notin Range(s), NEW j \in DOMAIN r, NEW k \in DOMAIN r, r[j] = r[k]
      PROVE  j = k
  <2>1. \A m \in DOMAIN r : m # 1 => m - 1 \in DOMAIN s /\ r[m] = s[m - 1] /\ m \in Int
    BY <1>1, <1>2
  <2>2. \A m \in DOMAIN s : s[m] # x
    BY <1>7 DEF Range
  <2>3. CASE j = 1 \/ k = 1
    BY <1>1, <1>7, <2>1, <2>2, <2>3
  <2>4. CASE j # 1 /\ k # 1
    <3>1. j - 1 = k - 1
      BY <1>7, <2>1, <2>4 DEF IsInjective
    <3>2. QED
      BY <2>1, <2>4, <3>1
  <2>5. QED
    BY <2>3, <2>4
<1>8. QED
  BY <1>6, <1>7 DEF IsInjective, r

LEMMA RangeTail ==
  ASSUME NEW S, NEW s \in Seq(S), s # << >>
  PROVE  /\ Head(s) \in Range(s) /\ Range(Tail(s)) \subseteq Range(s)
         /\ IsInjective(s) => IsInjective(Tail(s)) /\ Head(s) \notin Range(Tail(s))
<1> DEFINE r == Tail(s)
<1>1. /\ r \in Seq(S) /\ Head(s) = s[1] /\ Len(s) \in Nat \ {0} /\ Len(r) = Len(s) - 1
      /\ \A k \in 1..(Len(s) - 1) : r[k] = s[k + 1]
  BY HeadTail
<1>2. DOMAIN r = 1..(Len(s) - 1) /\ DOMAIN s = 1..Len(s)
  BY <1>1
<1> HIDE DEF r
<1>3. \A k \in DOMAIN r : k + 1 \in DOMAIN s /\ r[k] = s[k + 1] /\ k \in Int /\ k + 1 # 1
  BY <1>1, <1>2
<1>4. 1 \in DOMAIN s
  BY <1>1, <1>2
<1>5. Head(s) \in Range(s) /\ Range(r) \subseteq Range(s)
  BY <1>1, <1>3, <1>4 DEF Range
<1>6. ASSUME IsInjective(s) PROVE IsInjective(r) /\ Head(s) \notin Range(r)
  <2>1. ASSUME NEW j \in DOMAIN r, NEW k \in DOMAIN r, r[j] = r[k] PROVE j = k
    <3>1. j + 1 = k + 1
      BY <1>3, <1>6, <2>1 DEF IsInjective
    <3>2. QED
      BY <1>3, <3>1
  <2>2. ASSUME NEW k \in DOMAIN r PROVE r[k] # Head(s)
    BY <1>1, <1>3, <1>4, <1>6 DEF IsInjective
  <2>3. QED
    BY <2>1, <2>2 DEF IsInjective, Range
<1>7. QED
  BY <1>5, <1>6 DEF r

LEMMA RangeNone == Range(<< >>) = {} /\ IsInjective(<< >>)
  BY DEF Range, IsInjective

-----------------------------------------------------------------------------
(* The callback objects. *)

LEMMA Strings ==
  /\ "ValueChange" \notin Simulator \cup Sync /\ Simulator \cap Sync = {}
  /\ "" \notin Simulator \cup Sync \cup {"ValueChange"}
  /\ Simulator \subseteq Kinds /\ Sync \subseteq Kinds /\ "ValueChange" \in Kinds
  BY DEF Simulator, Sync, Kinds

LEMMA CallbackFields ==
  ASSUME NEW r \in CallbackType
  PROVE  /\ r.st \in {"unused", "live", "dead"} /\ r.rtn \in BOOLEAN
         /\ r.why \in Kinds \cup {""} /\ r.sig \in Signals \cup {Null}
         /\ r.part \in 0..1 /\ r.due \in 0..MaxTime /\ r.calls \in Nat
  BY DEF CallbackType

LEMMA BitsOf ==
  ASSUME NEW v \in [1..2 -> {0, 1}], NEW p \in 0..1
  PROVE  Part(v, p) \in Seq({0, 1})
<1>1. v \in Seq({0, 1})
  BY SeqDef
<1>2. CASE p = 0
  BY <1>1, <1>2 DEF Part
<1>3. CASE p = 1
  BY <1>3 DEF Part
<1>4. QED
  BY <1>2, <1>3

LEMMA NewCallback ==
  ASSUME Types, NEW why \in Kinds, NEW s, NEW p \in 0..1, NEW due \in 0..MaxTime,
         IF why = "ValueChange" THEN s \in Signals ELSE s = Null
  PROVE  /\ Callback(why, s, p, due) \in CallbackType
         /\ Callback(why, s, p, due).st = "live" /\ Callback(why, s, p, due).why = why
         /\ Callback(why, s, p, due).sig = s /\ Callback(why, s, p, due).due = due
         /\ Callback(why, s, p, due).calls = 0
<1> DEFINE v == IF why = "ValueChange" THEN Part(value[s], p) ELSE << >>
<1>1. v \in Seq({0, 1})
  <2>1. CASE why = "ValueChange"
    <3>1. value[s] \in [1..2 -> {0, 1}]
      BY <2>1 DEF Types
    <3>2. QED
      BY <2>1, <3>1, BitsOf
  <2>2. CASE why # "ValueChange"
    BY <2>2
  <2>3. QED
    BY <2>1, <2>2
<1>2. s \in Signals \cup {Null}
  OBVIOUS
<1>3. Callback(why, s, p, due)
        = [st |-> "live", rtn |-> TRUE, why |-> why, sig |-> s, part |-> p, due |-> due,
           value_bits_ |-> v, told |-> v, calls |-> 0, changes |-> 0]
  BY DEF Callback
<1> HIDE DEF v
<1> DEFINE r == [st |-> "live", rtn |-> TRUE, why |-> why, sig |-> s, part |-> p, due |-> due,
                 value_bits_ |-> v, told |-> v, calls |-> 0, changes |-> 0]
<1>4. r \in CallbackType
  BY <1>1, <1>2 DEF CallbackType
<1>5. /\ r.st = "live" /\ r.why = why /\ r.sig = s /\ r.due = due /\ r.calls = 0
  OBVIOUS
<1>6. QED
  BY <1>3, <1>4, <1>5, Zenon

LEMMA UnusedType ==
  ASSUME MaxTime \in Nat
  PROVE  Unused \in CallbackType /\ Unused.st = "unused" /\ Unused.why = ""
<1>1. << >> \in Seq({0, 1})
  OBVIOUS
<1>2. 0 \in 0..MaxTime
  OBVIOUS
<1>3. QED
  BY <1>1, <1>2 DEF Unused, CallbackType

(* The updates of one object. *)
LEMMA DeleteFacts ==
  ASSUME NEW c \in [Ids -> CallbackType], NEW i \in Ids
  PROVE  LET d == [c EXCEPT ![i].st = "dead"]
         IN  /\ d \in [Ids -> CallbackType]
             /\ \A x \in Ids : x # i => d[x] = c[x]
             /\ d[i].st = "dead" /\ d[i].why = c[i].why /\ d[i].sig = c[i].sig
             /\ d[i].due = c[i].due /\ d[i].calls = c[i].calls /\ d[i].rtn = c[i].rtn
<1>1. c[i] \in CallbackType
  OBVIOUS
<1>2. [c[i] EXCEPT !.st = "dead"] \in CallbackType
  BY <1>1 DEF CallbackType
<1>3. /\ [c[i] EXCEPT !.st = "dead"].st = "dead"
      /\ [c[i] EXCEPT !.st = "dead"].why = c[i].why
      /\ [c[i] EXCEPT !.st = "dead"].sig = c[i].sig
      /\ [c[i] EXCEPT !.st = "dead"].due = c[i].due
      /\ [c[i] EXCEPT !.st = "dead"].calls = c[i].calls
      /\ [c[i] EXCEPT !.st = "dead"].rtn = c[i].rtn
  BY <1>1 DEF CallbackType
<1>4. QED
  BY <1>2, <1>3

LEMMA CallsFacts ==
  ASSUME NEW c \in [Ids -> CallbackType], NEW i \in Ids
  PROVE  LET d == [c EXCEPT ![i].calls = @ + 1]
         IN  /\ d \in [Ids -> CallbackType]
             /\ \A x \in Ids : x # i => d[x] = c[x]
             /\ d[i].st = c[i].st /\ d[i].why = c[i].why /\ d[i].sig = c[i].sig
             /\ d[i].due = c[i].due /\ d[i].calls = c[i].calls + 1 /\ d[i].rtn = c[i].rtn
<1>1. c[i] \in CallbackType
  OBVIOUS
<1> DEFINE n == c[i].calls + 1
           r == [c[i] EXCEPT !.calls = n]
<1>2. n \in Nat
  <2>1. c[i].calls \in Nat
    BY <1>1, CallbackFields
  <2>2. QED
    BY <2>1
<1> HIDE DEF n
<1>3. r \in CallbackType
  BY <1>1, <1>2 DEF CallbackType
<1>4. /\ r.st = c[i].st /\ r.why = c[i].why /\ r.sig = c[i].sig
      /\ r.due = c[i].due /\ r.calls = n /\ r.rtn = c[i].rtn
  BY <1>1 DEF CallbackType
<1>5. [c EXCEPT ![i].calls = @ + 1] = [c EXCEPT ![i] = r]
  BY DEF n
<1> HIDE DEF r
<1>6. QED
  BY <1>3, <1>4, <1>5 DEF n

LEMMA RemoveFacts ==
  ASSUME NEW c \in [Ids -> CallbackType], NEW i \in Ids
  PROVE  LET d == [c EXCEPT ![i].rtn = FALSE]
         IN  /\ d \in [Ids -> CallbackType]
             /\ \A x \in Ids : x # i => d[x] = c[x]
             /\ d[i].st = c[i].st /\ d[i].why = c[i].why /\ d[i].sig = c[i].sig
             /\ d[i].due = c[i].due /\ d[i].calls = c[i].calls
<1>1. c[i] \in CallbackType
  OBVIOUS
<1> DEFINE r == [c[i] EXCEPT !.rtn = FALSE]
<1>2. r \in CallbackType
  BY <1>1 DEF CallbackType
<1>3. /\ r.st = c[i].st /\ r.why = c[i].why /\ r.sig = c[i].sig
      /\ r.due = c[i].due /\ r.calls = c[i].calls
  BY <1>1 DEF CallbackType
<1>4. [c EXCEPT ![i].rtn = FALSE] = [c EXCEPT ![i] = r]
  OBVIOUS
<1> HIDE DEF r
<1>5. QED
  BY <1>2, <1>3, <1>4

-----------------------------------------------------------------------------
(* What steps preserve.  No step changes the kind of an object or frees a  *)
(* value change callback, but the walk that takes it out of its list.      *)

VcKept(c, d) ==
  \A x \in Ids : c[x].st # "unused" =>
    /\ d[x].st # "unused" /\ d[x].why = c[x].why /\ d[x].sig = c[x].sig
    /\ c[x].why = "ValueChange" => d[x].st = c[x].st

(* Most steps leave the one-shot callbacks alone, too. *)
Kept(c, d) ==
  \A x \in Ids : c[x].st # "unused" =>
    /\ d[x].st = c[x].st /\ d[x].why = c[x].why /\ d[x].sig = c[x].sig
    /\ d[x].due = c[x].due
    /\ c[x].why \in Simulator \cup Sync => d[x].calls = c[x].calls

(* What holds of the one-shot callbacks alone. *)
ShotsKept(c, d) ==
  \A x \in Ids : c[x].st # "unused" /\ c[x].why \in Simulator \cup Sync =>
    /\ d[x].st = c[x].st /\ d[x].why = c[x].why /\ d[x].due = c[x].due
    /\ d[x].calls = c[x].calls

LEMMA KeptVc ==
  ASSUME NEW c, NEW d, Kept(c, d)
  PROVE  VcKept(c, d) /\ ShotsKept(c, d)
  BY DEF Kept, VcKept, ShotsKept

LEMMA FrameFields ==
  ASSUME NEW f \in FrameType
  PROVE  /\ f.fn \in {"run_vpi_callbacks", "calltf", "sync_cb", "list"}
         /\ f.nxt \in Ids \cup {Null} /\ f.prev \in Ids \cup {Null} /\ f.cur \in Ids \cup {Null}
         /\ f.run \in BOOLEAN /\ f.rest \in Seq(Ids) /\ f.save \in Modes
         /\ f.why \in Kinds \cup {""} /\ f.sig \in Signals \cup {Null}
  BY DEF FrameType, OrNull

LEMMA WalkKept ==
  ASSUME NEW c, NEW d, VcKept(c, d), NEW h, NEW n, NEW f \in FrameType, WalkOk(c, h, n, f)
  PROVE  /\ WalkOk(d, h, n, f)
         /\ WalkLive(c, f) => WalkLive(d, f)
<1>1. \A x \in {f.nxt, f.prev, f.cur} : x \in Ids \cup {Null}
  BY FrameFields
<1>2. \A x \in {f.nxt, f.prev, f.cur} : x # Null =>
        x \in Ids /\ c[x].st # "unused" /\ c[x].why = "ValueChange" /\ c[x].sig = f.sig
  BY <1>1 DEF WalkOk, Of
<1>3. \A x \in {f.nxt, f.prev, f.cur} : x # Null =>
        /\ d[x].st = c[x].st /\ d[x].st # "unused"
        /\ d[x].why = "ValueChange" /\ d[x].sig = f.sig
  BY <1>2 DEF VcKept
<1>4. Behind(f) \in {f.nxt, f.prev, f.cur}
  BY DEF Behind
<1>5. Joined(d, h, n, f)
  BY <1>3, <1>4 DEF Joined, WalkOk
<1>6. QED
  BY <1>3, <1>5 DEF WalkOk, Of, WalkLive

LEMMA WaitsKept ==
  ASSUME NEW c, NEW d, ShotsKept(c, d), NEW x \in Ids, NEW r \in Simulator, Waits(c, x, r)
  PROVE  Waits(d, x, r) /\ d[x].due = c[x].due
<1>1. c[x].st = "live" /\ c[x].why = r /\ c[x].calls = 0 /\ r \in Simulator \cup Sync
  BY DEF Waits
<1>2. c[x].st # "unused"
  BY <1>1
<1>3. QED
  BY <1>1, <1>2 DEF ShotsKept, Waits

LEMMA RangeIds ==
  ASSUME NEW s \in Seq(Ids), NEW x \in Range(s)
  PROVE  x \in Ids
  BY DEF Range

LEMMA OuterKept ==
  ASSUME NEW c \in [Ids -> CallbackType], NEW d, ShotsKept(c, d), NEW q, NEW r, NEW t, NEW p,
         NEW f \in FrameType, OuterOk(c, q, t, p, f),
         \A x \in Range(r) : x \in Range(q) \/ c[x].st # "live",
         \A x \in Ids : c[x].st = "unused" => c[x].calls = 0
  PROVE  OuterOk(d, r, t, p, f)
<1>1. \A x \in Ids : c[x].calls = 1 => c[x].st # "unused"
  OBVIOUS
<1>2. CASE f.fn = "list"
  <2>1. ListOk(c, q, t, f)
    BY <1>2 DEF OuterOk
  <2>2. ASSUME NEW x \in Range(f.rest)
        PROVE  Waits(d, x, "NextSimTime") /\ d[x].due = t - 1 /\ x \notin Range(r)
    <3>1. x \in Ids /\ "NextSimTime" \in Simulator
      BY FrameFields, RangeIds DEF Simulator
    <3>2. Waits(c, x, "NextSimTime") /\ c[x].due = t - 1 /\ x \notin Range(q)
      BY <2>1 DEF ListOk
    <3>3. x \notin Range(r)
      BY <3>2 DEF Waits
    <3>4. QED
      BY <3>1, <3>2, <3>3, WaitsKept
  <2>3. f.run => f.cur \in Ids /\ d[f.cur].why \in Simulator /\ d[f.cur].calls = 1
    BY <1>1, <2>1 DEF ListOk, ShotsKept
  <2>4. ListOk(d, r, t, f)
    BY <2>1, <2>2, <2>3 DEF ListOk
  <2>5. QED
    BY <1>2, <2>4 DEF OuterOk
<1>3. CASE f.fn = "sync_cb"
  <2>1. f.cur \in Ids /\ c[f.cur].why \in Sync /\ c[f.cur].calls = 1
    BY <1>3 DEF OuterOk, SyncOk
  <2>2. SyncOk(d, f)
    BY <1>1, <2>1 DEF SyncOk, ShotsKept
  <2>3. QED
    BY <1>3, <2>2 DEF OuterOk
<1>4. CASE f.fn # "list" /\ f.fn # "sync_cb"
  BY <1>4 DEF OuterOk
<1>5. QED
  BY <1>2, <1>3, <1>4

(* The lists of the signals and of the phases. *)
LEMMA ListsKept ==
  ASSUME IInv, VcKept(cb, cb'), UNCHANGED <<head, next>>
  PROVE  ListsOk' /\ (InLinks => InLinks')
<1>1. head \in [Signals -> Ids \cup {Null}] /\ next \in [Ids -> Ids \cup {Null}] /\ ListsOk
  BY DEF IInv, Types, OrNull
<1>2. \A x \in Ids : \A s : Of(cb, x, s) => Of(cb', x, s) /\ cb'[x].st = cb[x].st
  BY DEF VcKept, Of
<1>3. \A i \in Ids : next[i] # Null => /\ cb'[i].st = cb[i].st /\ cb'[i].why = cb[i].why
                                       /\ cb'[i].sig = cb[i].sig
  BY <1>1 DEF ListsOk, VcKept
<1>4. \A s \in Signals : head[s] # Null => /\ head[s] \in Ids /\ Of(cb, head[s], s)
                                           /\ Of(cb', head[s], s)
                                           /\ cb'[head[s]].st = cb[head[s]].st
  BY <1>1, <1>2 DEF ListsOk
<1>5. \A i \in Ids : next[i] # Null => /\ next[i] \in Ids
                                       /\ Of(cb', next[i], cb'[i].sig)
                                       /\ cb'[next[i]].st = cb[next[i]].st
  BY <1>1, <1>2, <1>3 DEF ListsOk
<1>6. ListsOk'
  BY <1>1, <1>3, <1>4, <1>5 DEF ListsOk
<1>7. InLinks => InLinks'
  BY <1>4, <1>5 DEF InLinks
<1>8. QED
  BY <1>6, <1>7

LEMMA SimKept ==
  ASSUME IInv, ShotsKept(cb, cb'), UNCHANGED <<sim, phase, now>>,
         phase = "nextsim" => (stack = << >> <=> stack' = << >>)
  PROVE  SimOk'
<1>1. sim \in [Simulator -> Seq(Ids)] /\ SimOk
  BY DEF IInv, Types
<1>2. ASSUME NEW r \in Simulator, NEW x \in Range(sim[r])
      PROVE  Waits(cb', x, r) /\ cb'[x].due = cb[x].due
  <2>1. x \in Ids
    BY <1>1, RangeIds
  <2>2. QED
    BY <1>1, <2>1, WaitsKept DEF SimOk
<1>3. QED
  BY <1>1, <1>2 DEF SimOk

(* The conjuncts that depend on the stack only. *)
LEMMA StackTypes ==
  ASSUME IInv
  PROVE  /\ stack \in Seq(FrameType) /\ Len(stack) \in Nat /\ DOMAIN stack = 1..Len(stack)
         /\ \A k \in DOMAIN stack : stack[k] \in FrameType
         /\ stack # << >> => /\ 1 \in DOMAIN stack /\ Len(stack) \in DOMAIN stack
                             /\ Top = stack[1] /\ Top \in FrameType
  BY DEF IInv, Types, Top

LEMMA OutermostKept ==
  ASSUME IInv, ShotsKept(cb, cb'), UNCHANGED <<stack, phase, now>>,
         \A x \in Range(sim'["NextSimTime"]) :
           x \in Range(sim["NextSimTime"]) \/ cb[x].st # "live"
  PROVE  Outermost'
<1>1. \A x \in Ids : cb[x].st = "unused" => cb[x].calls = 0
  BY DEF IInv, ShotsOk
<1>2. cb \in [Ids -> CallbackType] /\ Outermost
  BY DEF IInv, Types
<1>3. stack # << >> =>
        OuterOk(cb', sim'["NextSimTime"], now, phase, stack[Len(stack)])
  BY <1>1, <1>2, StackTypes, OuterKept DEF Outermost
<1>4. QED
  BY <1>3 DEF Outermost

(* A step that leaves the stack and the links alone. *)
LEMMA FrameStep ==
  ASSUME IInv, Types', Kept(cb, cb'), ops <= ops', ShotsOk',
         UNCHANGED <<head, next, stack, mode, phase, now, aborted, uaf, reaped>>,
         SimOk', Outermost'
  PROVE  IInv'
<1>1. VcKept(cb, cb')
  BY KeptVc
<1>2. ListsOk' /\ (InLinks => InLinks')
  BY <1>1, ListsKept
<1>3. Walks' /\ (WalksLive => WalksLive')
  <2>1. \A k \in DOMAIN stack : stack[k] \in FrameType
    BY StackTypes
  <2>2. \A k \in DOMAIN stack : IsWalk(stack[k]) => WalkOk(cb, head, next, stack[k])
    BY DEF IInv, Walks
  <2>3. \A k \in DOMAIN stack : IsWalk(stack[k]) =>
          /\ WalkOk(cb', head, next, stack[k])
          /\ WalkLive(cb, stack[k]) => WalkLive(cb', stack[k])
    BY <1>1, <2>1, <2>2, WalkKept
  <2>4. QED
    BY <2>3 DEF Walks, WalksLive
<1>4. Nested' /\ ModeOk' /\ ~ aborted'
  BY DEF IInv, Nested, ModeOk
<1>5. ASSUME NEW rank \in [Ids -> Nat], Ranked(rank, next, ops)
      PROVE  Ranked(rank, next', ops')
  <2>1. ops \in Nat /\ ops' \in Nat /\ \A i \in Ids : rank[i] \in Nat
    BY CallbackAssumption DEF IInv, Types
  <2>2. QED
    BY <1>5, <2>1 DEF Ranked
<1>6. ~ reaped' => Undisturbed'
  BY <1>2, <1>3, <1>5 DEF IInv, Undisturbed
<1>7. QED
  BY <1>2, <1>3, <1>4, <1>6 DEF IInv

-----------------------------------------------------------------------------
(* Registration and removal. *)

(* The object i is new. *)
LEMMA Registered ==
  ASSUME IInv, NEW i \in Ids, cb[i] = Unused, NEW r \in CallbackType, r.st = "live", r.calls = 0,
         cb' = [cb EXCEPT ![i] = r], UNCHANGED stack
  PROVE  /\ cb' \in [Ids -> CallbackType] /\ cb'[i] = r /\ Kept(cb, cb') /\ ShotsOk'
         /\ \A x \in Ids : x # i => cb'[x] = cb[x]
         /\ cb[i].st = "unused"
<1>1. cb \in [Ids -> CallbackType]
  BY DEF IInv, Types
<1>2. cb' \in [Ids -> CallbackType] /\ cb'[i] = r /\ \A x \in Ids : x # i => cb'[x] = cb[x]
  BY <1>1
<1>3. cb[i].st = "unused"
  BY UnusedType, CallbackAssumption
<1>4. Kept(cb, cb')
  BY <1>2, <1>3 DEF Kept
<1>5. ShotsOk'
  BY <1>2 DEF IInv, ShotsOk
<1>6. QED
  BY <1>2, <1>3, <1>4, <1>5

LEMMA MakeSyncStep ==
  ASSUME IInv, NEW i \in Ids, NEW why \in Reasons, NEW due \in 0..MaxTime, make_sync(i, why, due)
  PROVE  IInv'
<1>1. /\ cb[i] = Unused /\ cb' = [cb EXCEPT ![i] = Callback(why, Null, 0, due)]
      /\ ops < MaxOps /\ ops' = ops + 1 /\ why \in Sync
      /\ UNCHANGED <<head, next, sim, value, stack, mode, phase, now, aborted, uaf, reaped>>
  BY DEF make_sync, Call
<1>2. why \in Kinds /\ why # "ValueChange"
  BY <1>1, Strings, Zenon
<1> DEFINE r == Callback(why, Null, 0, due)
<1>3. r \in CallbackType /\ r.st = "live" /\ r.calls = 0
  BY <1>2, NewCallback DEF IInv
<1> HIDE DEF r
<1>4. cb' = [cb EXCEPT ![i] = r]
  BY <1>1 DEF r
<1>5. cb' \in [Ids -> CallbackType] /\ Kept(cb, cb') /\ ShotsOk'
  BY <1>1, <1>3, <1>4, Registered
<1>6. Types' /\ ops <= ops'
  BY <1>1, <1>5, CallbackAssumption DEF IInv, Types
<1>7. SimOk'
  BY <1>1, <1>5, SimKept, KeptVc
<1>8. Outermost'
  BY <1>1, <1>5, OutermostKept, KeptVc
<1>9. QED
  BY <1>1, <1>5, <1>6, <1>7, <1>8, FrameStep

LEMMA MakePrepostStep ==
  ASSUME IInv, NEW i \in Ids, NEW why \in Reasons, make_prepost(i, why)
  PROVE  IInv'
<1>1. /\ cb[i] = Unused /\ cb' = [cb EXCEPT ![i] = Callback(why, Null, 0, now)]
      /\ ops < MaxOps /\ ops' = ops + 1 /\ why \in Simulator
      /\ sim' = [sim EXCEPT ![why] = <<i>> \o sim[why]]
      /\ UNCHANGED <<head, next, value, stack, mode, phase, now, aborted, uaf, reaped>>
  BY DEF make_prepost, Call
<1>2. why \in Kinds /\ why # "ValueChange"
  BY <1>1, Strings, Zenon
<1> DEFINE r == Callback(why, Null, 0, now)
<1>3. /\ r \in CallbackType /\ r.st = "live" /\ r.calls = 0
      /\ r.why = why /\ r.due = now
  <2>1. Types /\ now \in 0..MaxTime
    BY DEF IInv, Types
  <2>2. QED
    BY <1>2, <2>1, NewCallback
<1> HIDE DEF r
<1>4. cb' = [cb EXCEPT ![i] = r]
  BY <1>1 DEF r
<1>5. /\ cb' \in [Ids -> CallbackType] /\ Kept(cb, cb') /\ ShotsOk' /\ cb'[i] = r
      /\ cb[i].st = "unused"
  BY <1>1, <1>3, <1>4, Registered
<1>6. /\ sim \in [Simulator -> Seq(Ids)] /\ sim[why] \in Seq(Ids) /\ SimOk
      /\ "NextSimTime" \in Simulator
  BY <1>1 DEF IInv, Types, Simulator
<1>7. <<i>> \o sim[why] \in Seq(Ids) /\ Range(<<i>> \o sim[why]) = {i} \cup Range(sim[why])
  BY <1>6, PutInFront, RangeFront
<1>8. Types' /\ ops <= ops'
  BY <1>1, <1>5, <1>6, <1>7, CallbackAssumption DEF IInv, Types
<1>9. SimOk'
  <2>1. ASSUME NEW q \in Simulator, NEW x \in Range(sim[q])
        PROVE  Waits(cb', x, q) /\ cb'[x].due = cb[x].due /\ x # i
    <3>1. x \in Ids /\ Waits(cb, x, q)
      BY <1>6, RangeIds DEF SimOk
    <3>2. QED
      BY <1>5, <3>1, KeptVc, WaitsKept DEF Waits
  <2>2. stack # << >> /\ stack' # << >>
    BY <1>1 DEF make_prepost, Routine
  <2>3. ASSUME NEW q \in Simulator, q # why
        PROVE  /\ IsInjective(sim'[q])
               /\ \A x \in Range(sim'[q]) :
                    /\ Waits(cb', x, q)
                    /\ q = "NextSimTime" => cb'[x].due = now
    <3>1. sim'[q] = sim[q]
      BY <1>1, <1>6, <2>3
    <3>2. QED
      BY <1>6, <2>1, <2>2, <3>1 DEF SimOk
  <2>4. /\ IsInjective(sim'[why])
        /\ \A x \in Range(sim'[why]) :
             /\ Waits(cb', x, why)
             /\ why = "NextSimTime" => cb'[x].due = now
    <3>1. sim'[why] = <<i>> \o sim[why]
      BY <1>1, <1>6
    <3>2. i \notin Range(sim[why])
      BY <1>1, <2>1
    <3>3. IsInjective(sim'[why])
      BY <1>1, <1>6, <3>1, <3>2, RangeFront DEF SimOk
    <3>4. Waits(cb', i, why) /\ cb'[i].due = now
      BY <1>3, <1>5 DEF Waits
    <3>5. \A x \in Range(sim[why]) : why = "NextSimTime" => cb[x].due = now
      BY <1>1, <1>6, <2>2 DEF SimOk
    <3>6. QED
      BY <1>1, <1>7, <2>1, <3>1, <3>3, <3>4, <3>5
  <2>5. QED
    BY <1>1, <2>2, <2>3, <2>4 DEF SimOk
<1>10. Outermost'
  <2>1. ASSUME NEW x \in Range(sim'["NextSimTime"])
        PROVE  x \in Range(sim["NextSimTime"]) \/ cb[x].st # "live"
    <3>1. CASE why = "NextSimTime"
      BY <1>1, <1>5, <1>6, <1>7, <2>1, <3>1
    <3>2. CASE why # "NextSimTime"
      BY <1>1, <1>6, <2>1, <3>2
    <3>3. QED
      BY <3>1, <3>2
  <2>2. QED
    BY <1>1, <1>5, <2>1, OutermostKept, KeptVc
<1>11. QED
  BY <1>1, <1>5, <1>8, <1>9, <1>10, FrameStep

LEMMA RemoveStep ==
  ASSUME IInv, NEW i \in Ids, vpi_remove_cb(i)
  PROVE  IInv'
<1>1. /\ cb[i].st = "live" /\ cb' = [cb EXCEPT ![i].rtn = FALSE]
      /\ ops < MaxOps /\ ops' = ops + 1
      /\ UNCHANGED <<head, next, sim, value, stack, mode, phase, now, aborted, uaf, reaped>>
  BY DEF vpi_remove_cb, Call
<1>2. /\ cb' \in [Ids -> CallbackType] /\ \A x \in Ids : x # i => cb'[x] = cb[x]
      /\ cb'[i].st = cb[i].st /\ cb'[i].why = cb[i].why /\ cb'[i].sig = cb[i].sig
      /\ cb'[i].due = cb[i].due /\ cb'[i].calls = cb[i].calls
  BY <1>1, RemoveFacts DEF IInv, Types
<1>3. Kept(cb, cb')
  BY <1>2 DEF Kept
<1>4. ShotsOk'
  BY <1>1, <1>2 DEF IInv, ShotsOk
<1>5. Types' /\ ops <= ops'
  BY <1>1, <1>2, CallbackAssumption DEF IInv, Types
<1>6. SimOk' /\ Outermost'
  BY <1>1, <1>3, SimKept, OutermostKept, KeptVc
<1>7. QED
  BY <1>1, <1>3, <1>4, <1>5, <1>6, FrameStep

(* Nothing leads to a new object, which is put in front of its list. *)
LEMMA NewFacts ==
  ASSUME IInv, NEW i \in Ids, NEW s \in Signals, NEW p \in 0..1, make_value_change(i, s, p)
  PROVE  /\ cb[i].st = "unused" /\ cb'[i] = Callback("ValueChange", s, p, 0)
         /\ cb'[i].st = "live" /\ cb'[i].why = "ValueChange" /\ cb'[i].sig = s
         /\ \A x \in Ids : x # i => cb'[x] = cb[x]
         /\ next'[i] = head[s] /\ \A x \in Ids : x # i => next'[x] = next[x]
         /\ head'[s] = i /\ \A q \in Signals : q # s => head'[q] = head[q]
         /\ \A q \in Signals : head[q] # i
         /\ \A x \in Ids : next[x] # i
         /\ next[i] = Null
<1>1. /\ cb[i] = Unused /\ cb' = [cb EXCEPT ![i] = Callback("ValueChange", s, p, 0)]
      /\ next' = [next EXCEPT ![i] = head[s]] /\ head' = [head EXCEPT ![s] = i]
      /\ UNCHANGED stack
  BY DEF make_value_change
<1>2. PICK r : r = Callback("ValueChange", s, p, 0)
  OBVIOUS
<1>3. /\ r \in CallbackType /\ r.st = "live" /\ r.calls = 0
      /\ r.why = "ValueChange" /\ r.sig = s
  <2>1. "ValueChange" \in Kinds /\ 0 \in 0..MaxTime
    BY CallbackAssumption DEF Kinds
  <2>2. QED
    BY <1>2, <2>1, NewCallback DEF IInv
<1>4. cb' = [cb EXCEPT ![i] = r]
  BY <1>1, <1>2
<1>5. /\ cb'[i] = r /\ cb[i].st = "unused" /\ \A x \in Ids : x # i => cb'[x] = cb[x]
  BY <1>1, <1>3, <1>4, Registered
<1>6. /\ head \in [Signals -> Ids \cup {Null}] /\ next \in [Ids -> Ids \cup {Null}]
      /\ ListsOk /\ Null \notin Ids
  BY CallbackAssumption DEF IInv, Types, OrNull
<1>7. /\ next'[i] = head[s] /\ \A x \in Ids : x # i => next'[x] = next[x]
      /\ head'[s] = i /\ \A q \in Signals : q # s => head'[q] = head[q]
  BY <1>1, <1>6
<1>8. /\ \A q \in Signals : head[q] # i
      /\ \A x \in Ids : next[x] # i
      /\ next[i] = Null
  BY <1>5, <1>6 DEF ListsOk, Of
<1>9. QED
  BY <1>2, <1>3, <1>5, <1>7, <1>8

LEMMA NewLinks ==
  ASSUME IInv, InLinks, NEW i \in Ids, NEW s \in Signals, NEW p \in 0..1,
         make_value_change(i, s, p), NEW rank \in [Ids -> Nat], Ranked(rank, next, ops)
  PROVE  InLinks' /\ \E higher \in [Ids -> Nat] : Ranked(higher, next', ops')
<1>1. /\ cb'[i].st = "live" /\ \A x \in Ids : x # i => cb'[x] = cb[x]
      /\ next'[i] = head[s] /\ \A x \in Ids : x # i => next'[x] = next[x]
      /\ head'[s] = i /\ \A q \in Signals : q # s => head'[q] = head[q]
      /\ \A q \in Signals : head[q] # i
      /\ \A x \in Ids : next[x] # i
  BY NewFacts
<1>2. /\ head \in [Signals -> Ids \cup {Null}] /\ next \in [Ids -> Ids \cup {Null}]
      /\ ListsOk /\ Null \notin Ids /\ ops \in Nat
  BY CallbackAssumption DEF IInv, Types, OrNull
<1>3. ASSUME NEW q \in Signals, head'[q] # Null PROVE cb'[head'[q]].st = "live"
  BY <1>1, <1>2, <1>3 DEF InLinks
<1>4. ASSUME NEW x \in Ids, next'[x] # Null PROVE cb'[next'[x]].st = "live"
  BY <1>1, <1>2, <1>4 DEF InLinks
<1>5. ASSUME NEW x \in Ids, next'[x] # Null, NEW y \in Ids, next'[y] = next'[x]
      PROVE  y = x
  BY <1>1, <1>2, <1>5 DEF InLinks
<1>6. ASSUME NEW x \in Ids, next'[x] # Null, NEW q \in Signals
      PROVE  head'[q] # next'[x]
  <2>1. CASE q = s
    BY <1>1, <1>2, <2>1
  <2>2. CASE q # s /\ x # i
    BY <1>1, <1>6, <2>2 DEF InLinks
  <2>3. CASE q # s /\ x = i
    <3>1. head[s] # Null /\ Of(cb, head[s], s)
      BY <1>1, <1>2, <1>6, <2>3 DEF ListsOk
    <3>2. head[q] # Null => Of(cb, head[q], q)
      BY <1>2 DEF ListsOk
    <3>3. QED
      BY <1>1, <2>3, <3>1, <3>2 DEF Of
  <2>4. QED
    BY <2>1, <2>2, <2>3
<1>7. InLinks'
  BY <1>3, <1>4, <1>5, <1>6 DEF InLinks
<1>8. PICK higher : higher = [rank EXCEPT ![i] = ops + 1]
  OBVIOUS
<1>9. /\ higher \in [Ids -> Nat] /\ higher[i] = ops + 1
      /\ \A x \in Ids : x # i => higher[x] = rank[x]
  BY <1>2, <1>8
<1>10. ops' = ops + 1
  BY DEF make_value_change, Call
<1>11. Ranked(higher, next', ops')
  BY <1>1, <1>2, <1>9, <1>10 DEF Ranked
<1>12. QED
  BY <1>7, <1>9, <1>11

(* A new callback is first in the list of its signal.  The walks are in    *)
(* routines, so that none of them looks at the head of a list.             *)
LEMMA MakeValueChangeStep ==
  ASSUME IInv, NEW i \in Ids, NEW s \in Signals, NEW p \in 0..1, make_value_change(i, s, p)
  PROVE  IInv'
<1>1. /\ cb[i] = Unused /\ cb' = [cb EXCEPT ![i] = Callback("ValueChange", s, p, 0)]
      /\ ops < MaxOps /\ ops' = ops + 1 /\ stack # << >> /\ Top.run
      /\ next' = [next EXCEPT ![i] = head[s]] /\ head' = [head EXCEPT ![s] = i]
      /\ UNCHANGED <<sim, value, stack, mode, phase, now, aborted, uaf, reaped>>
  BY DEF make_value_change, Call, Routine
<1> DEFINE r == Callback("ValueChange", s, p, 0)
<1>2. /\ r \in CallbackType /\ r.st = "live" /\ r.calls = 0
      /\ r.why = "ValueChange" /\ r.sig = s
  <2>1. "ValueChange" \in Kinds /\ 0 \in 0..MaxTime
    BY CallbackAssumption DEF Kinds
  <2>2. QED
    BY <2>1, NewCallback DEF IInv
<1> HIDE DEF r
<1>3. cb' = [cb EXCEPT ![i] = r]
  BY <1>1 DEF r
<1>4. /\ cb' \in [Ids -> CallbackType] /\ Kept(cb, cb') /\ ShotsOk' /\ cb'[i] = r
      /\ \A x \in Ids : x # i => cb'[x] = cb[x]
      /\ cb[i].st = "unused"
  BY <1>1, <1>2, <1>3, Registered
<1>5. /\ head \in [Signals -> Ids \cup {Null}] /\ next \in [Ids -> Ids \cup {Null}]
      /\ ListsOk /\ Null \notin Ids
  BY CallbackAssumption DEF IInv, Types, OrNull
<1>6. Types' /\ ops <= ops'
  BY <1>1, <1>4, <1>5, CallbackAssumption DEF IInv, Types, OrNull
<1>7. /\ next'[i] = head[s] /\ \A x \in Ids : x # i => next'[x] = next[x]
      /\ head'[s] = i /\ \A q \in Signals : q # s => head'[q] = head[q]
  BY <1>1, <1>5
(* Nothing leads to the new object. *)
<1>8. /\ \A q \in Signals : head[q] # i
      /\ \A x \in Ids : next[x] # i
      /\ next[i] = Null
  BY <1>4, <1>5 DEF ListsOk, Of
<1>9. \A x \in Ids : \A q : Of(cb, x, q) => x # i /\ Of(cb', x, q)
  BY <1>4 DEF Of
<1>10. ListsOk'
  <2>1. Of(cb', i, s) /\ cb'[i].st = "live" /\ cb'[i].why = "ValueChange" /\ cb'[i].sig = s
    BY <1>2, <1>4 DEF Of
  <2>2. ASSUME NEW q \in Signals, head'[q] # Null PROVE Of(cb', head'[q], q)
    BY <1>5, <1>7, <1>9, <2>1, <2>2 DEF ListsOk
  <2>3. ASSUME NEW x \in Ids, next'[x] # Null
        PROVE  /\ cb'[x].st = "live" /\ cb'[x].why = "ValueChange"
               /\ Of(cb', next'[x], cb'[x].sig)
    <3>1. CASE x = i
      BY <1>5, <1>7, <1>9, <2>1, <2>3, <3>1 DEF ListsOk
    <3>2. CASE x # i
      BY <1>4, <1>5, <1>7, <1>9, <2>3, <3>2 DEF ListsOk
    <3>3. QED
      BY <3>1, <3>2
  <2>4. QED
    BY <2>2, <2>3 DEF ListsOk
<1>11. ASSUME NEW k \in DOMAIN stack, IsWalk(stack[k])
       PROVE  /\ WalkOk(cb', head', next', stack[k])
              /\ WalkLive(cb, stack[k]) => WalkLive(cb', stack[k])
  <2> DEFINE f == stack[k]
  <2>1. f \in FrameType /\ f.run
    <3>1. stack[k].run
      BY <1>1, StackTypes DEF IInv, Nested
    <3>2. QED
      BY <3>1, StackTypes
  <2>2. WalkOk(cb, head, next, f)
    BY <1>11 DEF IInv, Walks
  <2>3. VcKept(cb, cb')
    BY <1>4, KeptVc
  <2> HIDE DEF f
  <2>4. WalkOk(cb', head, next, f) /\ (WalkLive(cb, f) => WalkLive(cb', f))
    BY <2>1, <2>2, <2>3, WalkKept
  <2>5. Behind(f) = f.cur /\ f.cur # Null /\ f.cur \in Ids /\ f.cur # i
    BY <1>9, <2>1, <2>2, FrameFields DEF Behind, WalkOk
  <2>6. next'[f.cur] = next[f.cur]
    BY <1>7, <2>5
  <2>7. Joined(cb', head', next', f)
    BY <2>4, <2>5, <2>6 DEF WalkOk, Joined
  <2>8. WalkOk(cb', head', next', f)
    BY <2>4, <2>7 DEF WalkOk
  <2>9. QED
    BY <2>4, <2>8 DEF f
<1>12. Walks' /\ (WalksLive => WalksLive')
  BY <1>1, <1>11 DEF Walks, WalksLive
<1>13. Nested' /\ ModeOk' /\ ~ aborted'
  BY <1>1 DEF IInv, Nested, ModeOk
<1>14. SimOk' /\ Outermost'
  BY <1>1, <1>4, SimKept, OutermostKept, KeptVc
<1>15. ASSUME ~ reaped PROVE Undisturbed'
  <2>1. InLinks /\ WalksLive /\ ~ uaf
    BY <1>15 DEF IInv, Undisturbed
  <2>2. InLinks' /\ \E rank \in [Ids -> Nat] : Ranked(rank, next', ops')
    BY <1>15, <2>1, NewLinks DEF IInv, Undisturbed
  <2>3. QED
    BY <1>1, <1>12, <2>1, <2>2 DEF Undisturbed
<1>16. QED
  BY <1>1, <1>4, <1>6, <1>10, <1>12, <1>13, <1>14, <1>15 DEF IInv

-----------------------------------------------------------------------------
(* Walks. *)

(* The signal changes: the history of its callbacks, and a walk begins. *)
LEMMA ChangedCallbacks ==
  ASSUME IInv, NEW S,
         cb' = [i \in Ids |-> IF i \in S THEN [cb[i] EXCEPT !.changes = @ + 1] ELSE cb[i]]
  PROVE  /\ cb' \in [Ids -> CallbackType] /\ Kept(cb, cb')
         /\ \A i \in Ids : /\ cb'[i].st = cb[i].st /\ cb'[i].calls = cb[i].calls
                           /\ cb'[i].rtn = cb[i].rtn /\ cb'[i].why = cb[i].why
<1>1. ASSUME NEW i \in Ids
      PROVE  /\ cb'[i] \in CallbackType /\ cb'[i].st = cb[i].st /\ cb'[i].calls = cb[i].calls
             /\ cb'[i].rtn = cb[i].rtn /\ cb'[i].why = cb[i].why
             /\ cb'[i].sig = cb[i].sig /\ cb'[i].due = cb[i].due
  <2>1. cb[i] \in CallbackType
    BY DEF IInv, Types
  <2>2. cb[i].changes + 1 \in Nat
    <3>1. cb[i].changes \in Nat
      BY <2>1 DEF CallbackType
    <3>2. QED
      BY <3>1
  <2> DEFINE n == cb[i].changes + 1
             r == [cb[i] EXCEPT !.changes = n]
  <2>3. cb'[i] = cb[i] \/ cb'[i] = r
    OBVIOUS
  <2> HIDE DEF n
  <2>4. n \in Nat
    BY <2>2 DEF n
  <2>5. r \in CallbackType
    BY <2>1, <2>4 DEF CallbackType
  <2>6. /\ r.st = cb[i].st /\ r.calls = cb[i].calls /\ r.rtn = cb[i].rtn
        /\ r.why = cb[i].why /\ r.sig = cb[i].sig /\ r.due = cb[i].due
    BY <2>1 DEF CallbackType
  <2> HIDE DEF r
  <2>7. QED
    BY <2>1, <2>3, <2>5, <2>6
<1>2. cb' \in [Ids -> CallbackType]
  BY <1>1
<1>3. QED
  BY <1>1, <1>2 DEF Kept

LEMMA ChangeStep ==
  ASSUME IInv, NEW s \in Signals, NEW b \in 1..2, Change(s, b), ops <= ops', ops' \in 0..MaxOps,
         Routine \/ (Idle /\ phase = "run")
  PROVE  IInv'
<1> DEFINE f == Frame("run_vpi_callbacks", "", << >>, s, head[s])
<1>1. /\ value' = [value EXCEPT ![s][b] = 1 - @]
      /\ stack' = <<f>> \o stack
      /\ cb' = [i \in Ids |-> IF i \in List(s) THEN [cb[i] EXCEPT !.changes = @ + 1] ELSE cb[i]]
      /\ UNCHANGED <<head, next, sim, mode, phase, now, aborted, uaf, reaped>>
  BY DEF Change
<1>2. /\ cb' \in [Ids -> CallbackType] /\ Kept(cb, cb')
      /\ \A i \in Ids : /\ cb'[i].st = cb[i].st /\ cb'[i].calls = cb[i].calls
                        /\ cb'[i].rtn = cb[i].rtn /\ cb'[i].why = cb[i].why
  <2> DEFINE S == List(s)
  <2> HIDE DEF S
  <2>1. cb' = [i \in Ids |-> IF i \in S THEN [cb[i] EXCEPT !.changes = @ + 1] ELSE cb[i]]
    BY <1>1 DEF S
  <2>2. QED
    BY <2>1, ChangedCallbacks
<1>3. /\ f \in FrameType /\ f.fn = "run_vpi_callbacks" /\ f.sig = s /\ f.nxt = head[s]
      /\ f.prev = Null /\ f.cur = Null /\ f.run = FALSE
  <2>1. << >> \in Seq(Ids) /\ head[s] \in Ids \cup {Null}
    BY DEF IInv, Types, OrNull
  <2>2. mode \in Modes
    BY DEF IInv, Types
  <2>3. QED
    BY <2>1, <2>2 DEF Frame, FrameType, OrNull
<1> HIDE DEF f
<1>4. /\ stack \in Seq(FrameType) /\ Len(stack) \in Nat
      /\ stack' \in Seq(FrameType) /\ stack' # << >> /\ Len(stack') = Len(stack) + 1
      /\ stack'[1] = f /\ \A k \in 2..Len(stack') : stack'[k] = stack[k - 1]
  <2>1. stack \in Seq(FrameType)
    BY StackTypes
  <2>2. QED
    BY <1>1, <1>3, <2>1, PutInFront
<1>5. Types'
  <2>1. value' \in [Signals -> [1..2 -> {0, 1}]]
    <3>1. value \in [Signals -> [1..2 -> {0, 1}]] /\ value[s] \in [1..2 -> {0, 1}]
      BY DEF IInv, Types
    <3>2. 1 - value[s][b] \in {0, 1}
      BY <3>1
    <3>3. [value[s] EXCEPT ![b] = 1 - value[s][b]] \in [1..2 -> {0, 1}]
      BY <3>1, <3>2
    <3>4. QED
      BY <1>1, <3>1, <3>3
  <2>2. QED
    BY <1>1, <1>2, <1>4, <2>1 DEF IInv, Types
<1>6. VcKept(cb, cb')
  BY <1>2, KeptVc
<1>7. ListsOk' /\ (InLinks => InLinks')
  BY <1>1, <1>6, ListsKept
<1>8. \A k \in DOMAIN stack' : k = 1 \/ (k \in 2..Len(stack') /\ k - 1 \in DOMAIN stack)
  BY <1>4
<1>9. WalkOk(cb', head', next', f) /\ (InLinks => WalkLive(cb', f))
  <2>1. head[s] # Null => Of(cb', head[s], s)
    BY <1>1, <1>7 DEF ListsOk
  <2>2. InLinks => (head[s] # Null => cb'[head[s]].st = "live")
    BY <1>1, <1>7 DEF InLinks
  <2>3. QED
    BY <1>1, <1>3, <2>1, <2>2 DEF WalkOk, WalkLive, Joined, Behind
<1>10. ASSUME NEW k \in DOMAIN stack, IsWalk(stack[k])
       PROVE  /\ WalkOk(cb', head', next', stack[k])
              /\ WalkLive(cb, stack[k]) => WalkLive(cb', stack[k])
  <2>1. stack[k] \in FrameType /\ WalkOk(cb, head, next, stack[k])
    BY <1>10, StackTypes DEF IInv, Walks
  <2>2. WalkOk(cb', head, next, stack[k]) /\ (WalkLive(cb, stack[k]) => WalkLive(cb', stack[k]))
    BY <1>6, <2>1, WalkKept
  <2>3. QED
    BY <1>1, <2>2
<1>11. Walks' /\ (InLinks /\ WalksLive => WalksLive')
  BY <1>4, <1>8, <1>9, <1>10 DEF Walks, WalksLive
<1>12. Nested'
  <2>1. stack # << >> => stack[1].run
    BY StackTypes DEF Routine, Idle
  <2>2. \A k \in DOMAIN stack : stack[k].run
    <3>1. \A k \in DOMAIN stack : k > 1 => stack[k].run
      BY DEF IInv, Nested
    <3>2. \A k \in DOMAIN stack : k = 1 \/ k > 1
      BY StackTypes
    <3>3. (\E k \in DOMAIN stack : TRUE) => stack # << >>
      OBVIOUS
    <3>4. QED
      BY <2>1, <3>1, <3>2, <3>3
  <2>3. \A k \in DOMAIN stack : k < Len(stack) => IsWalk(stack[k])
    BY DEF IInv, Nested
  <2>4. ASSUME NEW k \in DOMAIN stack'
        PROVE  (k > 1 => stack'[k].run) /\ (k < Len(stack') => IsWalk(stack'[k]))
    <3>1. CASE k = 1
      BY <1>3, <1>4, <3>1 DEF IsWalk
    <3>2. CASE k \in 2..Len(stack') /\ k - 1 \in DOMAIN stack
      BY <1>4, <2>2, <2>3, <3>2
    <3>3. QED
      BY <1>8, <3>1, <3>2
  <2>5. QED
    BY <2>4 DEF Nested
<1>13. stack # << >> => stack'[Len(stack')] = stack[Len(stack)]
  BY <1>4, StackTypes
<1>14. stack = << >> => stack'[Len(stack')] = f /\ phase = "run"
  BY <1>4 DEF Routine
<1>15. Outermost'
  <2>1. CASE stack = << >>
    <3>1. OuterOk(cb', sim'["NextSimTime"], now', phase', f)
      BY <1>1, <1>3, <1>14, <2>1 DEF OuterOk
    <3>2. QED
      BY <1>14, <2>1, <3>1 DEF Outermost
  <2>2. CASE stack # << >>
    <3>1. \A x \in Ids : cb[x].st = "unused" => cb[x].calls = 0
      BY DEF IInv, ShotsOk
    <3>2. cb \in [Ids -> CallbackType] /\ Outermost
      BY DEF IInv, Types
    <3>3. OuterOk(cb', sim["NextSimTime"], now, phase, stack[Len(stack)])
      BY <1>2, <2>2, <3>1, <3>2, StackTypes, OuterKept, KeptVc DEF Outermost
    <3>4. QED
      BY <1>1, <1>13, <2>2, <3>3 DEF Outermost
  <2>3. QED
    BY <2>1, <2>2
<1>16. ModeOk' /\ ~ aborted'
  BY <1>1, <1>3, <1>4, <1>13, <1>14 DEF IInv, ModeOk
<1>17. SimOk'
  BY <1>1, <1>2, <1>4, SimKept, KeptVc DEF Routine
<1>18. ShotsOk'
  <2>1. \A i \in Ids : Serves(stack, i) => Serves(stack', i)
    BY <1>4, <1>13 DEF Serves
  <2>2. QED
    BY <1>2, <2>1 DEF IInv, ShotsOk
<1>19. ~ reaped' => Undisturbed'
  <2>1. ASSUME NEW rank \in [Ids -> Nat], Ranked(rank, next, ops)
        PROVE  Ranked(rank, next', ops')
    <3>1. ops \in Nat /\ ops' \in Nat /\ \A i \in Ids : rank[i] \in Nat
      BY CallbackAssumption DEF IInv, Types
    <3>2. QED
      BY <1>1, <2>1, <3>1 DEF Ranked
  <2>2. QED
    BY <1>1, <1>7, <1>11, <2>1 DEF IInv, Undisturbed
<1>20. QED
  BY <1>5, <1>7, <1>11, <1>12, <1>15, <1>16, <1>17, <1>18, <1>19 DEF IInv

(* The innermost call goes on. *)
LEMMA TopReplaced ==
  ASSUME IInv, stack # << >>, NEW g \in FrameType, stack' = WithTop(g)
  PROVE  /\ stack' \in Seq(FrameType) /\ stack' # << >> /\ Len(stack') = Len(stack)
         /\ DOMAIN stack' = DOMAIN stack /\ stack'[1] = g
         /\ \A k \in DOMAIN stack : k # 1 => stack'[k] = stack[k]
<1>1. stack \in Seq(FrameType) /\ Len(stack) \in Nat /\ DOMAIN stack = 1..Len(stack)
  BY StackTypes
<1> DEFINE s == <<g>> \o Tail(stack)
<1>2. /\ s \in Seq(FrameType) /\ s # << >> /\ Len(s) = Len(stack) /\ s[1] = g
      /\ \A k \in 2..Len(stack) : s[k] = stack[k]
  BY <1>1, ReplaceTop
<1>3. stack' = s
  BY DEF WithTop
<1> HIDE DEF s
<1>4. \A k \in DOMAIN stack : k # 1 => k \in 2..Len(stack)
  BY <1>1
<1>5. DOMAIN s = DOMAIN stack
  BY <1>1, <1>2
<1>6. QED
  BY <1>2, <1>3, <1>4, <1>5

LEMMA WalkTopStep ==
  ASSUME IInv, Types', stack # << >>, IsWalk(Top), NEW g \in FrameType, IsWalk(g),
         stack' = WithTop(g), VcKept(cb, cb'), Kept(cb, cb'),
         \A x \in Ids : cb'[x] = cb[x] \/ /\ cb[x].why = "ValueChange" /\ cb[x].st = "live"
                                          /\ cb'[x].why = "ValueChange" /\ cb'[x].st = "live",
         UNCHANGED <<head, next, sim, phase, now, ops, aborted, uaf, reaped>>,
         WalkOk(cb', head, next, g), ~ reaped => WalkLive(cb', g), ModeOk'
  PROVE  IInv'
<1>1. /\ stack' # << >> /\ Len(stack') = Len(stack) /\ DOMAIN stack' = DOMAIN stack
      /\ stack'[1] = g /\ \A k \in DOMAIN stack : k # 1 => stack'[k] = stack[k]
  BY TopReplaced
<1>2. /\ Top = stack[1] /\ 1 \in DOMAIN stack /\ Len(stack) \in DOMAIN stack
      /\ DOMAIN stack = 1..Len(stack) /\ \A k \in DOMAIN stack : stack[k] \in FrameType
  BY StackTypes
<1>3. ListsOk' /\ (InLinks => InLinks')
  BY ListsKept
<1>4. Walks' /\ (~ reaped => WalksLive')
  <2>1. \A k \in DOMAIN stack : IsWalk(stack[k]) =>
          /\ WalkOk(cb', head, next, stack[k])
          /\ WalkLive(cb, stack[k]) => WalkLive(cb', stack[k])
    BY <1>2, WalkKept DEF IInv, Walks
  <2>2. \A k \in DOMAIN stack' : IsWalk(stack'[k]) => WalkOk(cb', head', next', stack'[k])
    BY <1>1, <2>1
  <2>3. ~ reaped => \A k \in DOMAIN stack' : IsWalk(stack'[k]) => WalkLive(cb', stack'[k])
    BY <1>1, <2>1 DEF IInv, Undisturbed, WalksLive
  <2>4. QED
    BY <2>2, <2>3 DEF Walks, WalksLive
<1>5. Nested'
  <2>1. \A k \in DOMAIN stack : /\ k > 1 => stack[k].run
                                /\ k < Len(stack) => IsWalk(stack[k])
    BY DEF IInv, Nested
  <2>2. ASSUME NEW k \in DOMAIN stack'
        PROVE  (k > 1 => stack'[k].run) /\ (k < Len(stack') => IsWalk(stack'[k]))
    BY <1>1, <1>2, <2>1
  <2>3. QED
    BY <2>2 DEF Nested
<1>6. Len(stack) # 1 => stack'[Len(stack')] = stack[Len(stack)]
  BY <1>1, <1>2
<1>7. Len(stack) = 1 => stack'[Len(stack')] = g /\ stack[Len(stack)] = Top
  BY <1>1, <1>2
<1>8. Outermost'
  <2>0. OuterOk(cb, sim["NextSimTime"], now, phase, stack[Len(stack)])
    BY DEF IInv, Outermost
  <2>1. CASE Len(stack) = 1
    <3>1. phase # "nextsim"
      BY <1>7, <2>0, <2>1 DEF OuterOk, IsWalk
    <3>2. OuterOk(cb', sim["NextSimTime"], now, phase, g)
      BY <3>1 DEF OuterOk, IsWalk
    <3>3. QED
      BY <1>7, <2>1, <3>2 DEF Outermost
  <2>2. CASE Len(stack) # 1
    <3>1. \A x \in Ids : cb[x].st = "unused" => cb[x].calls = 0
      BY DEF IInv, ShotsOk
    <3>2. cb \in [Ids -> CallbackType]
      BY DEF IInv, Types
    <3>3. OuterOk(cb', sim["NextSimTime"], now, phase, stack[Len(stack)])
      BY <1>2, <2>0, <3>1, <3>2, OuterKept, KeptVc
    <3>4. QED
      BY <1>6, <2>2, <3>3 DEF Outermost
  <2>3. QED
    BY <2>1, <2>2
<1>9. SimOk'
  BY <1>1, SimKept, KeptVc
<1>10. ShotsOk'
  <2>1. \A i \in Ids : Serves(stack, i) => Serves(stack', i)
    BY <1>1, <1>6, <1>7 DEF Serves, IsWalk
  <2>2. \A i \in Ids : cb[i].why # "ValueChange" \/ cb[i].st # "live" => cb'[i] = cb[i]
    OBVIOUS
  <2>3. \A i \in Ids : cb'[i].why # "ValueChange" \/ cb'[i].st # "live" => cb'[i] = cb[i]
    OBVIOUS
  <2>4. "ValueChange" \notin Sync \cup Simulator
    BY Strings
  <2>5. QED
    BY <2>1, <2>3, <2>4 DEF IInv, ShotsOk
<1>11. ~ reaped' => Undisturbed'
  BY <1>3, <1>4 DEF IInv, Undisturbed
<1>12. QED
  BY <1>3, <1>4, <1>5, <1>8, <1>9, <1>10, <1>11 DEF IInv

LEMMA SameKept ==
  ASSUME NEW c
  PROVE  Kept(c, c) /\ VcKept(c, c)
  BY DEF Kept, VcKept

LEMMA CallbackReturnsStep ==
  ASSUME IInv, CallbackReturns
  PROVE  IInv'
<1>0. PICK g : g = [Top EXCEPT !.run = FALSE, !.prev = Top.cur, !.cur = Null]
  OBVIOUS
<1>1. /\ stack # << >> /\ Top.fn = "run_vpi_callbacks" /\ Top.run
      /\ mode' = Top.save /\ stack' = WithTop(g)
      /\ UNCHANGED <<cb, head, next, sim, value, phase, now, ops, aborted, uaf, reaped>>
  BY <1>0 DEF CallbackReturns, In
<1>2. Top \in FrameType /\ Top = stack[1] /\ 1 \in DOMAIN stack
  BY <1>1, StackTypes
<1>3. Top.cur \in OrNull /\ Top.save \in Modes
  BY <1>2 DEF FrameType
<1>4. /\ g \in FrameType /\ g.fn = Top.fn /\ g.run = FALSE /\ g.prev = Top.cur
      /\ g.cur = Null /\ g.nxt = Top.nxt /\ g.sig = Top.sig
  BY <1>0, <1>2, <1>3 DEF FrameType, OrNull
<1>5. IsWalk(Top) /\ IsWalk(g)
  BY <1>1, <1>4 DEF IsWalk
<1>6. WalkOk(cb, head, next, Top) /\ (~ reaped => WalkLive(cb, Top))
  BY <1>2, <1>5 DEF IInv, Walks, Undisturbed, WalksLive
<1>7. WalkOk(cb, head, next, g) /\ (~ reaped => WalkLive(cb, g))
  <2>1. Behind(Top) = Top.cur /\ Behind(g) = Top.cur /\ Top.cur # Null
    BY <1>1, <1>4, <1>6 DEF Behind, WalkOk
  <2>2. Joined(cb, head, next, g)
    BY <1>4, <1>6, <2>1 DEF WalkOk, Joined
  <2>3. QED
    BY <1>4, <1>6, <2>2 DEF WalkOk, WalkLive
<1>8. stack' \in Seq(FrameType)
  BY <1>1, <1>4, TopReplaced
<1>9. Types'
  BY <1>1, <1>3, <1>8 DEF IInv, Types
<1>10. ModeOk'
  <2>1. /\ stack' # << >> /\ Len(stack') = Len(stack) /\ stack'[1] = g
        /\ \A k \in DOMAIN stack : k # 1 => stack'[k] = stack[k]
    BY <1>1, <1>4, TopReplaced
  <2>2. Len(stack) \in DOMAIN stack
    BY <1>1, StackTypes
  <2>3. CASE Len(stack) = 1
    BY <1>1, <1>2, <1>4, <1>5, <2>1, <2>3 DEF IInv, ModeOk
  <2>4. CASE Len(stack) # 1
    <3>1. stack'[Len(stack')] = stack[Len(stack)]
      BY <2>1, <2>2, <2>4
    <3>2. stack[Len(stack)].run
      <4>1. Len(stack) > 1
        BY <2>4, <1>1, StackTypes
      <4>2. QED
        BY <2>2, <4>1 DEF IInv, Nested
    <3>3. QED
      BY <1>1, <2>1, <3>1, <3>2 DEF IInv, ModeOk
  <2>5. QED
    BY <2>3, <2>4
<1>11. QED
  BY <1>1, <1>4, <1>5, <1>7, <1>9, <1>10, SameKept, WalkTopStep

(* The turn of a walk that has the object i next. *)
LEMMA TurnFacts ==
  ASSUME IInv, In("run_vpi_callbacks"), ~ Top.run, Top.nxt # Null
  PROVE  /\ stack # << >> /\ Top \in FrameType /\ Top = stack[1] /\ 1 \in DOMAIN stack
         /\ IsWalk(Top) /\ Top.nxt \in Ids /\ Top.sig \in Signals
         /\ Top.cur = Null /\ Top.prev \in Ids \cup {Null} /\ Top.run = FALSE
         /\ next[Top.nxt] \in Ids \cup {Null}
         /\ WalkOk(cb, head, next, Top) /\ (~ reaped => WalkLive(cb, Top))
         /\ Of(cb, Top.nxt, Top.sig)
         /\ next[Top.nxt] # Null => Of(cb, next[Top.nxt], Top.sig)
         /\ Len(stack) = 1 => mode = "NONE"
<1>1. stack # << >> /\ Top.fn = "run_vpi_callbacks"
  BY DEF In
<1>2. /\ Top \in FrameType /\ Top = stack[1] /\ 1 \in DOMAIN stack /\ IsWalk(Top)
  BY <1>1, StackTypes DEF IsWalk
<1>3. WalkOk(cb, head, next, Top) /\ (~ reaped => WalkLive(cb, Top))
  BY <1>2 DEF IInv, Walks, Undisturbed, WalksLive
<1>4. Top.nxt \in Ids /\ Top.prev \in Ids \cup {Null} /\ Top.run = FALSE
  BY <1>2, FrameFields
<1>5. Top.cur = Null /\ Of(cb, Top.nxt, Top.sig) /\ Top.sig \in Signals
  BY <1>3 DEF WalkOk
<1>6. next[Top.nxt] \in Ids \cup {Null} /\ ListsOk
  BY <1>4 DEF IInv, Types, OrNull
<1>7. next[Top.nxt] # Null => Of(cb, next[Top.nxt], Top.sig)
  BY <1>4, <1>5, <1>6 DEF ListsOk, Of
<1>8. Len(stack) = 1 => mode = "NONE"
  BY <1>1, <1>2 DEF IInv, ModeOk
<1>9. QED
  BY <1>1, <1>2, <1>3, <1>4, <1>5, <1>6, <1>7, <1>8

(* The callback is passed over. *)
LEMMA SkipStep ==
  ASSUME IInv, In("run_vpi_callbacks"), ~ Top.run, Top.nxt # Null, NEW g,
         g = [Top EXCEPT !.cur = Null, !.nxt = next[Top.nxt], !.prev = Top.nxt],
         cb[Top.nxt].st = "live", stack' = WithTop(g),
         UNCHANGED <<cb, head, next, sim, value, mode, phase, now, ops, aborted, uaf, reaped>>
  PROVE  IInv'
<1> DEFINE i == Top.nxt
<1>1. /\ stack # << >> /\ Top \in FrameType /\ Top = stack[1]
      /\ IsWalk(Top) /\ i \in Ids /\ Top.sig \in Signals /\ Top.run = FALSE
      /\ next[i] \in Ids \cup {Null} /\ Of(cb, i, Top.sig)
      /\ next[i] # Null => Of(cb, next[i], Top.sig)
      /\ Len(stack) = 1 => mode = "NONE"
      /\ Null \notin Ids
  BY TurnFacts, CallbackAssumption
<1>2. /\ g \in FrameType /\ g.fn = Top.fn /\ g.run = FALSE /\ g.prev = i
      /\ g.cur = Null /\ g.nxt = next[i] /\ g.sig = Top.sig
  BY <1>1 DEF FrameType, OrNull
<1>3. IsWalk(g)
  BY <1>1, <1>2 DEF IsWalk
<1>4. WalkOk(cb, head, next, g)
  BY <1>1, <1>2 DEF WalkOk, Joined, Behind
<1>5. ~ reaped => WalkLive(cb, g)
  BY <1>1, <1>2 DEF WalkLive, IInv, Undisturbed, InLinks
<1>6. /\ stack' \in Seq(FrameType) /\ stack' # << >> /\ Len(stack') = Len(stack)
      /\ stack'[1] = g /\ \A k \in DOMAIN stack : k # 1 => stack'[k] = stack[k]
  BY <1>1, <1>2, TopReplaced
<1>7. Types'
  BY <1>6 DEF IInv, Types
<1>8. ModeOk'
  <2>1. Len(stack) \in DOMAIN stack
    BY <1>1, StackTypes
  <2>2. CASE Len(stack) = 1
    <3>1. stack'[Len(stack')] = g
      BY <1>6, <2>2
    <3>2. QED
      BY <1>1, <1>2, <1>6, <2>2, <3>1 DEF ModeOk
  <2>3. CASE Len(stack) # 1
    BY <1>1, <1>6, <2>1, <2>3 DEF IInv, ModeOk
  <2>4. QED
    BY <2>2, <2>3
<1>9. QED
  BY <1>1, <1>2, <1>3, <1>4, <1>5, <1>7, <1>8, SameKept, WalkTopStep

(* callback_execute calls the routine. *)
Executed(c, i, v) == [c EXCEPT ![i].value_bits_ = v, ![i].told = v, ![i].calls = @ + 1]

LEMMA ExecFacts ==
  ASSUME NEW c \in [Ids -> CallbackType], NEW i \in Ids, NEW v \in Seq({0, 1}), NEW d,
         d = Executed(c, i, v)
  PROVE  /\ d \in [Ids -> CallbackType]
         /\ \A x \in Ids : x # i => d[x] = c[x]
         /\ d[i].st = c[i].st /\ d[i].why = c[i].why /\ d[i].sig = c[i].sig
         /\ d[i].due = c[i].due
<1>1. c[i] \in CallbackType
  OBVIOUS
<1> DEFINE n == c[i].calls + 1
           r == [c[i] EXCEPT !.value_bits_ = v, !.told = v, !.calls = n]
<1>2. n \in Nat
  <2>1. c[i].calls \in Nat
    BY <1>1, CallbackFields
  <2>2. QED
    BY <2>1
<1>3. r \in CallbackType
  <2> HIDE DEF n
  <2>1. QED
    BY <1>1, <1>2 DEF CallbackType
<1>4. r.st = c[i].st /\ r.why = c[i].why /\ r.sig = c[i].sig /\ r.due = c[i].due
  <2> HIDE DEF n
  <2>1. QED
    BY <1>1 DEF CallbackType
<1>5. d = [c EXCEPT ![i] = r]
  <2>1. [c[i] EXCEPT !.value_bits_ = v, !.told = v].calls = c[i].calls
    BY <1>1 DEF CallbackType
  <2>2. QED
    BY <2>1 DEF Executed
<1> HIDE DEF r
<1>6. /\ d \in [Ids -> CallbackType] /\ \A x \in Ids : x # i => d[x] = c[x]
      /\ d[i] = r
  BY <1>3, <1>5
<1>7. QED
  BY <1>4, <1>6

LEMMA ExecuteStep ==
  ASSUME IInv, In("run_vpi_callbacks"), ~ Top.run, Top.nxt # Null, NEW g,
         g = [Top EXCEPT !.cur = Top.nxt, !.nxt = next[Top.nxt], !.run = TRUE, !.save = mode],
         cb[Top.nxt].st = "live", stack' = WithTop(g), mode' = "RWSYNC", NEW v \in Seq({0, 1}),
         cb' = Executed(cb, Top.nxt, v),
         UNCHANGED <<head, next, sim, value, phase, now, ops, aborted, uaf, reaped>>
  PROVE  IInv'
<1> DEFINE i == Top.nxt
<1>1. /\ stack # << >> /\ Top \in FrameType /\ Top = stack[1] /\ Top.prev \in Ids \cup {Null}
      /\ IsWalk(Top) /\ i \in Ids /\ Top.sig \in Signals
      /\ next[i] \in Ids \cup {Null} /\ Of(cb, i, Top.sig)
      /\ next[i] # Null => Of(cb, next[i], Top.sig)
      /\ Len(stack) = 1 => mode = "NONE"
      /\ Null \notin Ids /\ WalkOk(cb, head, next, Top) /\ (~ reaped => WalkLive(cb, Top))
  BY TurnFacts, CallbackAssumption
<1>2. mode \in Modes
  BY DEF IInv, Types
<1>3. /\ g \in FrameType /\ g.fn = Top.fn /\ g.run = TRUE /\ g.prev = Top.prev
      /\ g.cur = i /\ g.nxt = next[i] /\ g.sig = Top.sig /\ g.save = mode
  BY <1>1, <1>2 DEF FrameType, OrNull
<1>4. IsWalk(g)
  BY <1>1, <1>3 DEF IsWalk
<1>5. /\ cb' \in [Ids -> CallbackType] /\ \A x \in Ids : x # i => cb'[x] = cb[x]
      /\ cb'[i].st = cb[i].st /\ cb'[i].why = cb[i].why /\ cb'[i].sig = cb[i].sig
      /\ cb'[i].due = cb[i].due
  <2>1. cb \in [Ids -> CallbackType]
    BY DEF IInv, Types
  <2>2. QED
    BY <1>1, <2>1, ExecFacts
<1>6. cb[i].why = "ValueChange" /\ "ValueChange" \notin Simulator \cup Sync
  BY <1>1, Strings DEF Of
<1>7. Kept(cb, cb') /\ VcKept(cb, cb')
  BY <1>5, <1>6 DEF Kept, VcKept
<1>8. WalkOk(cb, head, next, g) /\ (~ reaped => WalkLive(cb, g))
  <2>1. WalkOk(cb, head, next, g)
    BY <1>1, <1>3 DEF WalkOk, Joined, Behind
  <2>2. ~ reaped => WalkLive(cb, g)
    BY <1>1, <1>3 DEF WalkLive, IInv, Undisturbed, InLinks
  <2>3. QED
    BY <2>1, <2>2
<1>9. WalkOk(cb', head, next, g) /\ (~ reaped => WalkLive(cb', g))
  BY <1>3, <1>7, <1>8, WalkKept
<1>10. /\ stack' \in Seq(FrameType) /\ stack' # << >> /\ Len(stack') = Len(stack)
       /\ stack'[1] = g /\ \A k \in DOMAIN stack : k # 1 => stack'[k] = stack[k]
  BY <1>1, <1>3, TopReplaced
<1>11. Types'
  BY <1>5, <1>10 DEF IInv, Types, Modes
<1>12. ModeOk'
  <2>1. Len(stack) \in DOMAIN stack
    BY <1>1, StackTypes
  <2>2. CASE Len(stack) = 1
    <3>1. stack'[Len(stack')] = g
      BY <1>10, <2>2
    <3>2. QED
      BY <1>1, <1>3, <1>10, <2>2, <3>1 DEF ModeOk
  <2>3. CASE Len(stack) # 1
    <3>1. stack'[Len(stack')] = stack[Len(stack)]
      BY <1>10, <2>1, <2>3
    <3>2. stack[Len(stack)].run
      <4>1. Len(stack) > 1
        BY <1>1, <2>3, StackTypes
      <4>2. QED
        BY <2>1, <4>1 DEF IInv, Nested
    <3>3. QED
      BY <1>1, <1>10, <3>1, <3>2 DEF IInv, ModeOk
  <2>4. QED
    BY <2>2, <2>3
<1>13. \A x \in Ids : cb'[x] = cb[x] \/ /\ cb[x].why = "ValueChange" /\ cb[x].st = "live"
                                        /\ cb'[x].why = "ValueChange" /\ cb'[x].st = "live"
  BY <1>5, <1>6
<1>14. QED
  BY <1>1, <1>3, <1>4, <1>7, <1>9, <1>11, <1>12, <1>13, WalkTopStep

(* A removed callback is taken out of the list.  The links that change are *)
(* those of prev and of the object itself; an outer walk that has either   *)
(* of them at hand then finds itself next to a deleted object.             *)
Unlinked(h, n, hh, nn, i, p, s) ==
  /\ nn[i] = Null
  /\ \A x \in Ids : x # i /\ x # p => nn[x] = n[x]
  /\ p \in Ids /\ p # i => nn[p] = n[i]
  /\ \A q \in Signals : hh[q] = IF p = Null /\ q = s THEN n[i] ELSE h[q]

LEMMA ReapLinks ==
  ASSUME Types, NEW f \in FrameType, f.cur \in Ids, f.sig \in Signals, f.nxt = next[f.cur],
         Reap(f)
  PROVE  /\ Unlinked(head, next, head', next', f.cur, f.prev, f.sig)
         /\ head' \in [Signals -> OrNull] /\ next' \in [Ids -> OrNull]
<1>1. /\ head \in [Signals -> OrNull] /\ next \in [Ids -> OrNull] /\ f.nxt \in OrNull
      /\ f.prev \in OrNull /\ Null \in OrNull /\ Null \notin Ids
  BY CallbackAssumption DEF Types, OrNull, FrameType
<1>2. CASE f.prev = Null
  BY <1>1, <1>2 DEF Reap, Unlinked
<1>3. CASE f.prev # Null
  <2>1. f.prev \in Ids
    BY <1>1, <1>3 DEF OrNull
  <2>2. QED
    BY <1>1, <1>3, <2>1 DEF Reap, Unlinked
<1>4. QED
  BY <1>2, <1>3

LEMMA ReapLists ==
  ASSUME IInv, NEW i \in Ids, NEW p \in OrNull, NEW s \in Signals, Of(cb, i, s),
         p # Null => next[p] = i,
         Unlinked(head, next, head', next', i, p, s),
         cb' = [cb EXCEPT ![i].st = "dead"]
  PROVE  ListsOk'
<1>1. /\ head \in [Signals -> Ids \cup {Null}] /\ next \in [Ids -> Ids \cup {Null}]
      /\ ListsOk /\ Null \notin Ids /\ cb \in [Ids -> CallbackType]
  BY CallbackAssumption DEF IInv, Types, OrNull
<1>2. /\ \A x \in Ids : x # i => cb'[x] = cb[x]
      /\ cb'[i].st = "dead" /\ cb'[i].why = cb[i].why /\ cb'[i].sig = cb[i].sig
  BY <1>1, DeleteFacts
<1>3. \A x \in Ids : \A q : Of(cb, x, q) => Of(cb', x, q)
  BY <1>2 DEF Of
<1>4. next[i] # Null => Of(cb, next[i], s)
  BY <1>1 DEF ListsOk, Of
<1>5. ASSUME NEW q \in Signals, head'[q] # Null PROVE Of(cb', head'[q], q)
  BY <1>1, <1>3, <1>4, <1>5 DEF Unlinked, ListsOk
<1>6. ASSUME NEW x \in Ids, next'[x] # Null
      PROVE  /\ cb'[x].st = "live" /\ cb'[x].why = "ValueChange"
             /\ Of(cb', next'[x], cb'[x].sig)
  <2>1. x # i
    BY <1>6 DEF Unlinked
  <2>2. CASE x = p
    <3>1. next[p] = i /\ next'[x] = next[i] /\ next[p] # Null
      BY <1>1, <2>1, <2>2 DEF Unlinked
    <3>2. /\ cb[p].st = "live" /\ cb[p].why = "ValueChange" /\ Of(cb, i, cb[p].sig)
      BY <1>1, <2>2, <3>1 DEF ListsOk
    <3>3. cb[p].sig = s
      BY <3>2 DEF Of
    <3>4. Of(cb', next[i], s)
      BY <1>1, <1>3, <1>4, <1>6, <3>1
    <3>5. QED
      BY <1>2, <2>1, <2>2, <3>1, <3>2, <3>3, <3>4
  <2>3. CASE x # p
    <3>1. next'[x] = next[x]
      BY <2>1, <2>3 DEF Unlinked
    <3>2. QED
      BY <1>1, <1>2, <1>3, <1>6, <2>1, <3>1 DEF ListsOk
  <2>4. QED
    BY <2>2, <2>3
<1>7. QED
  BY <1>5, <1>6 DEF ListsOk

LEMMA ReapUndisturbed ==
  ASSUME IInv, InLinks, NEW i \in Ids, NEW p \in OrNull, NEW s \in Signals, Of(cb, i, s),
         IF p = Null THEN head[s] = i ELSE next[p] = i,
         Unlinked(head, next, head', next', i, p, s),
         cb' = [cb EXCEPT ![i].st = "dead"],
         NEW rank \in [Ids -> Nat], Ranked(rank, next, ops), UNCHANGED ops
  PROVE  /\ InLinks' /\ Ranked(rank, next', ops')
         /\ next[i] # i /\ p # i
         /\ \A x \in Ids : x # p => next[x] # i
         /\ \A q \in Signals : head'[q] # i
<1>1. /\ head \in [Signals -> Ids \cup {Null}] /\ next \in [Ids -> Ids \cup {Null}]
      /\ ListsOk /\ Null \notin Ids /\ cb \in [Ids -> CallbackType]
      /\ p \in Ids \cup {Null}
  BY CallbackAssumption DEF IInv, Types, OrNull
<1>2. \A x \in Ids : x # i => cb'[x] = cb[x]
  BY <1>1, DeleteFacts
<1>3. \A x \in Ids : rank[x] \in Nat
  OBVIOUS
<1>4. next[i] # i
  BY <1>1, <1>3 DEF Ranked
<1>5. p # i
  BY <1>1, <1>4
<1>6. /\ next'[i] = Null /\ (p # Null => next'[p] = next[i])
      /\ \A x \in Ids : x # i /\ x # p => next'[x] = next[x]
      /\ \A q \in Signals : head'[q] = IF p = Null /\ q = s THEN next[i] ELSE head[q]
  BY <1>1, <1>5 DEF Unlinked
<1>7. Ranked(rank, next', ops')
  <2>1. ASSUME NEW x \in Ids, next'[x] # Null PROVE rank[next'[x]] < rank[x]
    <3>1. CASE x = p
      <4>1. /\ next[p] = i /\ next'[x] = next[i] /\ next[i] \in Ids
        BY <1>1, <1>6, <2>1, <3>1
      <4>2. rank[next[i]] < rank[i] /\ rank[i] < rank[p]
        BY <1>1, <3>1, <4>1 DEF Ranked
      <4>3. QED
        BY <1>3, <3>1, <4>1, <4>2
    <3>2. CASE x # p
      BY <1>6, <2>1, <3>2 DEF Ranked
    <3>3. QED
      BY <3>1, <3>2
  <2>2. QED
    BY <2>1 DEF Ranked
(* Nothing leads to i any more. *)
<1>8. /\ \A x \in Ids : x # p => next[x] # i
      /\ \A q \in Signals : head'[q] # i
  <2>1. CASE p = Null
    <3>1. \A x \in Ids : next[x] # i
      BY <1>1, <2>1 DEF InLinks
    <3>2. \A q \in Signals : q # s => head[q] # i
      BY <1>1 DEF ListsOk, Of
    <3>3. QED
      BY <1>4, <1>6, <3>1, <3>2, <2>1
  <2>2. CASE p # Null
    <3>1. p \in Ids /\ next[p] = i /\ next[p] # Null
      BY <1>1, <2>2
    <3>2. QED
      BY <1>6, <2>2, <3>1 DEF InLinks
  <2>3. QED
    BY <2>1, <2>2
<1>9. ASSUME NEW q \in Signals, head'[q] # Null PROVE cb'[head'[q]].st = "live"
  <2>1. head'[q] \in Ids /\ cb[head'[q]].st = "live"
    BY <1>1, <1>6, <1>9 DEF InLinks
  <2>2. QED
    BY <1>2, <1>8, <2>1
<1>10. ASSUME NEW x \in Ids, next'[x] # Null PROVE cb'[next'[x]].st = "live"
  <2>1. next'[x] \in Ids /\ cb[next'[x]].st = "live" /\ next'[x] # i
    BY <1>1, <1>4, <1>6, <1>8, <1>10 DEF InLinks
  <2>2. QED
    BY <1>2, <2>1
<1>11. ASSUME NEW x \in Ids, next'[x] # Null, NEW y \in Ids, next'[y] = next'[x]
       PROVE  y = x
  <2>1. x # i /\ y # i
    BY <1>6, <1>11
  <2>2. CASE x = p \/ y = p
    BY <1>1, <1>6, <1>11, <2>1, <2>2 DEF InLinks
  <2>3. CASE x # p /\ y # p
    BY <1>6, <1>11, <2>1, <2>3 DEF InLinks
  <2>4. QED
    BY <2>2, <2>3
<1>12. ASSUME NEW x \in Ids, next'[x] # Null, NEW q \in Signals
       PROVE  head'[q] # next'[x]
  <2>1. x # i
    BY <1>6, <1>12
  <2>2. CASE p = Null
    BY <1>1, <1>6, <1>12, <2>1, <2>2 DEF InLinks
  <2>3. CASE p # Null
    BY <1>1, <1>6, <1>12, <2>1, <2>3 DEF InLinks
  <2>4. QED
    BY <2>2, <2>3
<1>13. QED
  BY <1>4, <1>5, <1>7, <1>8, <1>9, <1>10, <1>11, <1>12 DEF InLinks

LEMMA ReapStep ==
  ASSUME IInv, In("run_vpi_callbacks"), ~ Top.run, Top.nxt # Null, NEW f,
         f = [Top EXCEPT !.cur = Top.nxt, !.nxt = next[Top.nxt]],
         cb[Top.nxt].st = "live", Link(f) = "linked", Reap(f),
         UNCHANGED <<sim, value, phase, now, ops, uaf>>
  PROVE  IInv'
<1>0. PICK i, p, s : i = Top.nxt /\ p = Top.prev /\ s = Top.sig
  OBVIOUS
<1>1. /\ stack # << >> /\ Top \in FrameType /\ Top = stack[1] /\ p \in Ids \cup {Null}
      /\ IsWalk(Top) /\ i \in Ids /\ s \in Signals /\ Top.run = FALSE
      /\ next[i] \in Ids \cup {Null} /\ Of(cb, i, s)
      /\ next[i] # Null => Of(cb, next[i], s)
      /\ Len(stack) = 1 => mode = "NONE"
      /\ Null \notin Ids /\ WalkOk(cb, head, next, Top) /\ (~ reaped => WalkLive(cb, Top))
  BY <1>0, TurnFacts, CallbackAssumption
<1>2. /\ f \in FrameType /\ f.fn = Top.fn /\ f.run = FALSE /\ f.prev = p /\ f.cur = i
      /\ f.nxt = next[i] /\ f.sig = s
  BY <1>0, <1>1 DEF FrameType, OrNull
<1>3. PICK g : g = [f EXCEPT !.cur = Null]
  OBVIOUS
<1>4. /\ g \in FrameType /\ g.fn = Top.fn /\ g.run = FALSE /\ g.prev = p /\ g.cur = Null
      /\ g.nxt = next[i] /\ g.sig = s
  BY <1>2, <1>3 DEF FrameType, OrNull
<1>5. /\ cb' = [cb EXCEPT ![i].st = "dead"] /\ stack' = WithTop(g)
      /\ reaped' = (reaped \/ \E k \in 2..Len(stack) : stack[k].sig = s)
      /\ UNCHANGED <<mode, aborted>>
  BY <1>2, <1>3 DEF Reap, Delete
<1>6. /\ Unlinked(head, next, head', next', i, p, s)
      /\ head' \in [Signals -> OrNull] /\ next' \in [Ids -> OrNull]
  BY <1>1, <1>2, ReapLinks DEF IInv
<1>7. IF p = Null THEN head[s] = i ELSE next[p] = i
  <2>1. p = Null => head[s] = i
    BY <1>0, <1>1 DEF WalkOk, Joined, Behind
  <2>2. p # Null => next[p] = i
    BY <1>2 DEF Link
  <2>3. QED
    BY <2>1, <2>2
<1>8. /\ cb' \in [Ids -> CallbackType] /\ \A x \in Ids : x # i => cb'[x] = cb[x]
      /\ cb'[i].st = "dead" /\ cb'[i].why = cb[i].why /\ cb'[i].sig = cb[i].sig
  BY <1>1, <1>5, DeleteFacts DEF IInv, Types
<1>9. \A x \in Ids : \A q : Of(cb, x, q) => Of(cb', x, q)
  BY <1>8 DEF Of
<1>10. ListsOk'
  BY <1>1, <1>5, <1>6, <1>7, ReapLists DEF OrNull
<1>11. /\ stack' \in Seq(FrameType) /\ stack' # << >> /\ Len(stack') = Len(stack)
       /\ DOMAIN stack' = DOMAIN stack /\ stack'[1] = g
       /\ \A k \in DOMAIN stack : k # 1 => stack'[k] = stack[k]
  BY <1>1, <1>4, <1>5, TopReplaced
<1>12. /\ 1 \in DOMAIN stack /\ Len(stack) \in DOMAIN stack /\ Len(stack) \in Nat
       /\ DOMAIN stack = 1..Len(stack) /\ \A k \in DOMAIN stack : stack[k] \in FrameType
  BY <1>1, StackTypes
<1>13. Types'
  BY <1>5, <1>6, <1>8, <1>11 DEF IInv, Types
<1>14. IsWalk(g) /\ WalkOk(cb', head', next', g)
  <2>1. IsWalk(g)
    BY <1>1, <1>4 DEF IsWalk
  <2>2. Joined(cb', head', next', g)
    BY <1>1, <1>4, <1>6, <1>8 DEF Joined, Behind, Unlinked
  <2>3. p # Null => Of(cb', p, s)
    BY <1>0, <1>1, <1>9 DEF WalkOk
  <2>4. next[i] # Null => Of(cb', next[i], s)
    BY <1>1, <1>9
  <2>5. QED
    BY <1>1, <1>4, <2>1, <2>2, <2>3, <2>4 DEF WalkOk
<1>15. ASSUME NEW k \in DOMAIN stack, k # 1, NEW w, w = stack[k], IsWalk(w)
       PROVE  WalkOk(cb', head', next', w)
  <2>1. w \in FrameType /\ w.run /\ WalkOk(cb, head, next, w)
    <3>1. stack[k].run
      BY <1>12, <1>15 DEF IInv, Nested
    <3>2. QED
      BY <1>12, <1>15, <3>1 DEF IInv, Walks
  <2>2. /\ w.cur \in Ids /\ w.nxt \in Ids \cup {Null} /\ w.prev \in Ids \cup {Null}
        /\ Behind(w) = w.cur
    BY <2>1, FrameFields DEF WalkOk, Behind
  <2>3. \A x \in {w.nxt, w.prev, w.cur} : x # Null => Of(cb', x, w.sig)
    BY <1>9, <2>1, <2>2 DEF WalkOk
  <2>4. \A x \in Ids : cb[x].st = "dead" => cb'[x].st = "dead"
    BY <1>8
  <2>5. \/ cb[w.cur].st = "dead"
        \/ w.nxt # Null /\ cb[w.nxt].st = "dead"
        \/ next[w.cur] = w.nxt
    BY <1>1, <2>1, <2>2 DEF WalkOk, Joined
  <2>6. CASE next[w.cur] = w.nxt
    <3>1. Joined(cb', head', next', w)
      BY <1>1, <1>6, <1>7, <1>8, <2>2, <2>6 DEF Joined, Unlinked
    <3>2. QED
      BY <2>1, <2>3, <3>1 DEF WalkOk
  <2>7. CASE next[w.cur] # w.nxt
    <3>1. Joined(cb', head', next', w)
      BY <1>1, <2>2, <2>4, <2>5, <2>7 DEF Joined
    <3>2. QED
      BY <2>1, <2>3, <3>1 DEF WalkOk
  <2>8. QED
    BY <2>6, <2>7
<1>16. Walks'
  BY <1>11, <1>14, <1>15 DEF Walks
<1>17. Nested'
  <2>1. \A k \in DOMAIN stack : /\ k > 1 => stack[k].run
                                /\ k < Len(stack) => IsWalk(stack[k])
    BY DEF IInv, Nested
  <2>2. ASSUME NEW k \in DOMAIN stack'
        PROVE  (k > 1 => stack'[k].run) /\ (k < Len(stack') => IsWalk(stack'[k]))
    BY <1>11, <1>12, <1>14, <2>1
  <2>3. QED
    BY <2>2 DEF Nested
<1>18. Len(stack) # 1 => stack'[Len(stack')] = stack[Len(stack)]
  BY <1>11, <1>12
<1>19. Len(stack) = 1 => stack'[Len(stack')] = g /\ stack[Len(stack)] = Top
  BY <1>1, <1>11
<1>20. cb[i].why = "ValueChange" /\ "ValueChange" \notin Simulator \cup Sync
  BY <1>1, Strings DEF Of
<1>21. ShotsKept(cb, cb')
  BY <1>8, <1>20 DEF ShotsKept
<1>22. Outermost'
  <2>0. OuterOk(cb, sim["NextSimTime"], now, phase, stack[Len(stack)])
    BY <1>1 DEF IInv, Outermost
  <2>1. CASE Len(stack) = 1
    <3>1. phase # "nextsim"
      BY <1>1, <1>19, <2>0, <2>1 DEF OuterOk, IsWalk
    <3>2. OuterOk(cb', sim["NextSimTime"], now, phase, g)
      BY <1>14, <3>1 DEF OuterOk, IsWalk
    <3>3. QED
      BY <1>19, <2>1, <3>2 DEF Outermost
  <2>2. CASE Len(stack) # 1
    <3>1. \A x \in Ids : cb[x].st = "unused" => cb[x].calls = 0
      BY DEF IInv, ShotsOk
    <3>2. cb \in [Ids -> CallbackType]
      BY DEF IInv, Types
    <3>3. OuterOk(cb', sim["NextSimTime"], now, phase, stack[Len(stack)])
      BY <1>12, <1>21, <2>0, <3>1, <3>2, OuterKept
    <3>4. QED
      BY <1>18, <2>2, <3>3 DEF Outermost
  <2>3. QED
    BY <2>1, <2>2
<1>23. ModeOk'
  <2>1. CASE Len(stack) = 1
    BY <1>1, <1>4, <1>5, <1>11, <1>19, <2>1 DEF ModeOk
  <2>2. CASE Len(stack) # 1
    BY <1>1, <1>5, <1>11, <1>18, <2>2 DEF IInv, ModeOk
  <2>3. QED
    BY <2>1, <2>2
<1>24. SimOk'
  BY <1>1, <1>11, <1>21, SimKept
<1>25. ShotsOk'
  <2>1. \A j \in Ids : Serves(stack, j) => Serves(stack', j)
    BY <1>1, <1>11, <1>18, <1>19 DEF Serves, IsWalk
  <2>2. QED
    BY <1>8, <1>20, <2>1 DEF IInv, ShotsOk
<1>26. ASSUME ~ reaped' PROVE Undisturbed'
  <2>1. /\ ~ reaped /\ InLinks /\ WalksLive /\ ~ uaf
        /\ \A k \in 2..Len(stack) : stack[k].sig # s
    BY <1>5, <1>26 DEF IInv, Undisturbed
  <2>2. PICK rank \in [Ids -> Nat] : Ranked(rank, next, ops)
    BY <2>1 DEF IInv, Undisturbed
  <2>3. /\ InLinks' /\ Ranked(rank, next', ops') /\ next[i] # i /\ p # i
    BY <1>1, <1>5, <1>6, <1>7, <2>1, <2>2, ReapUndisturbed DEF OrNull
  <2>4. WalkLive(cb', g)
    <3>1. p # Null => cb[p].st = "live"
      BY <1>0, <1>1, <2>1 DEF WalkLive
    <3>2. next[i] # Null => cb[next[i]].st = "live"
      BY <1>1, <2>1 DEF InLinks
    <3>3. QED
      BY <1>1, <1>4, <1>8, <2>3, <3>1, <3>2 DEF WalkLive
  <2>5. ASSUME NEW k \in DOMAIN stack, k # 1, NEW w, w = stack[k], IsWalk(w)
        PROVE  WalkLive(cb', w)
    <3>1. w \in FrameType /\ WalkOk(cb, head, next, w) /\ WalkLive(cb, w) /\ w.sig # s
      BY <1>12, <2>1, <2>5 DEF IInv, Walks, WalksLive
    <3>2. \A x \in {w.nxt, w.prev, w.cur} : x # Null =>
            x \in Ids /\ Of(cb, x, w.sig) /\ cb[x].st = "live"
      BY <3>1, FrameFields DEF WalkOk, WalkLive
    <3>3. QED
      BY <1>1, <1>8, <3>1, <3>2 DEF WalkLive, Of
  <2>6. WalksLive'
    BY <1>11, <2>4, <2>5 DEF WalksLive
  <2>7. QED
    BY <2>1, <2>2, <2>3, <2>6 DEF Undisturbed
<1>27. QED
  BY <1>5, <1>10, <1>13, <1>16, <1>17, <1>22, <1>23, <1>24, <1>25, <1>26 DEF IInv

(* One turn of the loop.  The assert on the link cannot fail: prev is      *)
(* followed by the object, or one of the two is deleted.                   *)
LEMMA NextCallbackStep ==
  ASSUME IInv, NextCallback
  PROVE  IInv'
<1>0. PICK f : f = [Top EXCEPT !.cur = Top.nxt, !.nxt = next[Top.nxt]]
  OBVIOUS
<1>1. /\ In("run_vpi_callbacks") /\ ~ Top.run /\ Top.nxt # Null
      /\ UNCHANGED <<sim, value, phase, now, ops>>
  BY DEF NextCallback
<1>2. /\ stack # << >> /\ Top \in FrameType /\ Top.nxt \in Ids /\ Top.sig \in Signals
      /\ Top.prev \in Ids \cup {Null} /\ Top.run = FALSE
      /\ next[Top.nxt] \in Ids \cup {Null}
      /\ WalkOk(cb, head, next, Top) /\ (~ reaped => WalkLive(cb, Top))
  BY <1>1, TurnFacts
<1>3. /\ f.cur = Top.nxt /\ f.nxt = next[Top.nxt] /\ f.prev = Top.prev /\ f.sig = Top.sig
  BY <1>0, <1>2 DEF FrameType, OrNull
<1>4. CASE /\ cb[Top.nxt].st = "dead" \/ (~ cb[Top.nxt].rtn /\ Link(f) = "dead")
           /\ uaf' = TRUE
           /\ UNCHANGED <<cb, head, next, stack, mode, aborted, reaped>>
  <2>1. Link(f) = "dead" => Top.prev # Null /\ cb[Top.prev].st = "dead"
    BY <1>3 DEF Link
  <2>2. reaped
    BY <1>1, <1>2, <1>4, <2>1 DEF WalkLive
  <2>3. Types' /\ ListsOk' /\ Walks' /\ Nested' /\ Outermost'
    BY <1>1, <1>4 DEF IInv, Types, ListsOk, Walks, Nested, Outermost
  <2>4. ModeOk' /\ SimOk' /\ ShotsOk' /\ ~ aborted' /\ reaped'
    BY <1>1, <1>4, <2>2 DEF IInv, ModeOk, SimOk, ShotsOk
  <2>5. QED
    BY <2>3, <2>4 DEF IInv
<1>5. CASE /\ cb[Top.nxt].st = "live" /\ cb[Top.nxt].rtn
           /\ IF test_value_callback_ready(Top.nxt, f.sig)
              THEN Execute(f)
              ELSE /\ stack' = WithTop([f EXCEPT !.prev = Top.nxt, !.cur = Null])
                   /\ UNCHANGED <<cb, head, next, mode, aborted, reaped>>
           /\ UNCHANGED uaf
  <2>1. CASE Execute(f)
    <3>0. PICK v, g : /\ v = Part(value[f.sig], cb[f.cur].part)
                      /\ g = [f EXCEPT !.run = TRUE, !.save = mode]
      OBVIOUS
    <3>1. v \in Seq({0, 1})
      <4>1. value[f.sig] \in [1..2 -> {0, 1}] /\ cb[f.cur] \in CallbackType
        BY <1>2, <1>3 DEF IInv, Types
      <4>2. cb[f.cur].part \in 0..1
        BY <4>1, CallbackFields
      <4>3. QED
        BY <3>0, <4>1, <4>2, BitsOf
    <3>2. g = [Top EXCEPT !.cur = Top.nxt, !.nxt = next[Top.nxt], !.run = TRUE, !.save = mode]
      BY <1>0, <3>0
    <3>3. cb' = Executed(cb, Top.nxt, v)
      BY <1>3, <2>1, <3>0 DEF Execute, Executed
    <3>4. stack' = WithTop(g) /\ mode' = "RWSYNC" /\ UNCHANGED <<head, next, aborted, reaped>>
      BY <2>1, <3>0 DEF Execute
    <3>5. QED
      BY <1>1, <1>5, <3>1, <3>2, <3>3, <3>4, ExecuteStep
  <2>2. CASE /\ stack' = WithTop([f EXCEPT !.prev = Top.nxt, !.cur = Null])
             /\ UNCHANGED <<cb, head, next, mode, aborted, reaped>>
    <3>0. PICK g : g = [f EXCEPT !.prev = Top.nxt, !.cur = Null]
      OBVIOUS
    <3>1. g = [Top EXCEPT !.cur = Null, !.nxt = next[Top.nxt], !.prev = Top.nxt]
      BY <1>0, <1>2, <3>0 DEF FrameType
    <3>2. stack' = WithTop(g)
      BY <2>2, <3>0
    <3>3. QED
      BY <1>1, <1>5, <2>2, <3>1, <3>2, SkipStep
  <2>3. QED
    BY <1>5, <2>1, <2>2
<1>6. CASE /\ cb[Top.nxt].st = "live" /\ ~ cb[Top.nxt].rtn /\ Link(f) # "dead"
           /\ IF Link(f) = "linked"
              THEN Reap(f)
              ELSE aborted' = TRUE /\ UNCHANGED <<cb, head, next, stack, mode, reaped>>
           /\ UNCHANGED uaf
  <2>1. Link(f) = "linked"
    <3>1. CASE Top.prev = Null
      BY <1>3, <3>1 DEF Link
    <3>2. CASE Top.prev # Null
      <4>1. cb[Top.prev].st # "dead"
        BY <1>3, <1>6, <3>2 DEF Link
      <4>2. next[Top.prev] = Top.nxt
        BY <1>1, <1>2, <1>6, <3>2, <4>1 DEF WalkOk, Joined, Behind
      <4>3. QED
        BY <1>3, <4>1, <4>2 DEF Link
    <3>3. QED
      BY <3>1, <3>2
  <2>2. QED
    BY <1>0, <1>1, <1>6, <2>1, ReapStep
<1>7. QED
  BY <1>0, <1>4, <1>5, <1>6 DEF NextCallback

LEMMA Popped ==
  ASSUME IInv, stack # << >>, stack' = Tail(stack)
  PROVE  /\ stack' \in Seq(FrameType) /\ DOMAIN stack' = 1..(Len(stack) - 1)
         /\ Len(stack') = Len(stack) - 1
         /\ \A k \in DOMAIN stack' : k + 1 \in DOMAIN stack /\ stack'[k] = stack[k + 1]
         /\ stack' = << >> <=> Len(stack) = 1
         /\ Len(stack) # 1 => stack'[Len(stack')] = stack[Len(stack)]
<1>1. stack \in Seq(FrameType)
  BY StackTypes
<1>2. /\ Tail(stack) \in Seq(FrameType) /\ Len(stack) \in Nat \ {0}
      /\ Len(Tail(stack)) = Len(stack) - 1
      /\ \A k \in 1..(Len(stack) - 1) : Tail(stack)[k] = stack[k + 1]
  BY <1>1, HeadTail
<1>3. PICK t : t = Tail(stack)
  OBVIOUS
<1>4. /\ t \in Seq(FrameType) /\ Len(t) = Len(stack) - 1
      /\ \A k \in 1..(Len(stack) - 1) : t[k] = stack[k + 1]
  BY <1>2, <1>3
<1>5. DOMAIN t = 1..(Len(stack) - 1) /\ DOMAIN stack = 1..Len(stack)
  BY <1>1, <1>4
<1>6. t = << >> <=> Len(stack) = 1
  BY <1>2, <1>4
<1>7. \A k \in DOMAIN t : k + 1 \in DOMAIN stack /\ t[k] = stack[k + 1]
  BY <1>2, <1>4, <1>5
<1>8. Len(stack) # 1 => t[Len(t)] = stack[Len(stack)]
  BY <1>2, <1>4, <1>5
<1>9. stack' = t
  BY <1>3
<1>10. QED
  BY <1>4, <1>5, <1>6, <1>7, <1>8, <1>9

LEMMA WalkEndsStep ==
  ASSUME IInv, WalkEnds
  PROVE  IInv'
<1>1. /\ stack # << >> /\ Top.fn = "run_vpi_callbacks" /\ ~ Top.run /\ stack' = Tail(stack)
      /\ UNCHANGED <<cb, head, next, sim, value, mode, phase, now, ops, aborted, uaf, reaped>>
  BY DEF WalkEnds, In
<1>2. /\ stack' \in Seq(FrameType) /\ DOMAIN stack' = 1..(Len(stack) - 1)
      /\ Len(stack') = Len(stack) - 1
      /\ \A k \in DOMAIN stack' : k + 1 \in DOMAIN stack /\ stack'[k] = stack[k + 1]
      /\ stack' = << >> <=> Len(stack) = 1
      /\ Len(stack) # 1 => stack'[Len(stack')] = stack[Len(stack)]
  BY <1>1, Popped
<1>3. /\ Top = stack[1] /\ Len(stack) \in Nat /\ IsWalk(Top)
      /\ Outermost /\ ModeOk /\ Nested /\ Walks
  BY <1>1, StackTypes DEF IInv, IsWalk
<1>4. Types' /\ ListsOk'
  BY <1>1, <1>2 DEF IInv, Types, ListsOk
<1>5. Walks' /\ (WalksLive => WalksLive')
  BY <1>1, <1>2, <1>3 DEF Walks, WalksLive
<1>6. Nested'
  <2>1. ASSUME NEW k \in DOMAIN stack'
        PROVE  (k > 1 => stack'[k].run) /\ (k < Len(stack') => IsWalk(stack'[k]))
    <3>1. k + 1 > 1 /\ (k < Len(stack') => k + 1 < Len(stack))
      BY <1>2, <1>3
    <3>2. QED
      BY <1>2, <1>3, <3>1 DEF Nested
  <2>2. QED
    BY <2>1 DEF Nested
<1>7. Outermost'
  BY <1>1, <1>2, <1>3 DEF Outermost
<1>8. ModeOk'
  <2>1. CASE Len(stack) = 1
    BY <1>1, <1>2, <1>3, <2>1 DEF ModeOk
  <2>2. CASE Len(stack) # 1
    BY <1>1, <1>2, <1>3, <2>2 DEF ModeOk
  <2>3. QED
    BY <2>1, <2>2
<1>9. Len(stack) = 1 => phase # "nextsim"
  BY <1>1, <1>3 DEF Outermost, OuterOk
<1>10. SimOk'
  <2>1. ShotsKept(cb, cb')
    BY <1>1, SameKept, KeptVc
  <2>2. QED
    BY <1>1, <1>2, <1>9, <2>1, SimKept
<1>11. ShotsOk'
  <2>1. \A i \in Ids : Serves(stack, i) => Serves(stack', i)
    BY <1>1, <1>2, <1>3 DEF Serves
  <2>2. QED
    BY <1>1, <2>1 DEF IInv, ShotsOk
<1>12. ~ reaped' => Undisturbed'
  <2>1. InLinks => InLinks'
    BY <1>1 DEF InLinks
  <2>2. QED
    BY <1>1, <1>5, <2>1 DEF IInv, Undisturbed
<1>13. QED
  BY <1>1, <1>4, <1>5, <1>6, <1>7, <1>8, <1>10, <1>11, <1>12 DEF IInv

-----------------------------------------------------------------------------
(* The calls of the scheduler: none is in progress when one begins, and no *)
(* walk when one ends.                                                     *)

LEMMA Alone ==
  ASSUME IInv, stack # << >>, ~ IsWalk(Top)
  PROVE  /\ Len(stack) = 1 /\ stack[Len(stack)] = Top /\ Top \in FrameType
         /\ stack = <<Top>> /\ Tail(stack) = << >> /\ \A g : WithTop(g) = <<g>>
         /\ OuterOk(cb, sim["NextSimTime"], now, phase, Top)
<1>1. /\ stack \in Seq(FrameType) /\ Len(stack) \in Nat /\ DOMAIN stack = 1..Len(stack)
      /\ 1 \in DOMAIN stack /\ Top = stack[1] /\ Top \in FrameType
  BY StackTypes
<1>2. Len(stack) = 1
  <2>1. ~ 1 < Len(stack)
    BY <1>1 DEF IInv, Nested
  <2>2. QED
    BY <1>1, <2>1
<1>3. stack = <<Top>>
  BY <1>1, <1>2
<1>4. Tail(stack) = << >>
  BY <1>3
<1>5. ASSUME NEW g PROVE WithTop(g) = <<g>>
  <2>1. <<g>> \in Seq({g})
    OBVIOUS
  <2>2. <<g>> \o << >> = <<g>>
    BY <2>1, ConcatEmptySeq
  <2>3. QED
    BY <1>4, <2>2 DEF WithTop
<1>6. OuterOk(cb, sim["NextSimTime"], now, phase, Top)
  BY <1>1, <1>2 DEF IInv, Outermost
<1>7. QED
  BY <1>1, <1>2, <1>3, <1>4, <1>5, <1>6

LEMMA SoloStep ==
  ASSUME IInv, Types', VcKept(cb, cb'),
         \/ stack' = << >> /\ mode' = "NONE"
         \/ \E g : /\ stack' = <<g>> /\ ~ IsWalk(g)
                   /\ OuterOk(cb', sim'["NextSimTime"], now', phase', g),
         UNCHANGED <<head, next, ops, aborted, uaf, reaped>>, SimOk', ShotsOk'
  PROVE  IInv'
<1>1. ListsOk' /\ (InLinks => InLinks')
  BY ListsKept
<1>2. CASE stack' = << >> /\ mode' = "NONE"
  <2>1. Walks' /\ Nested' /\ Outermost' /\ ModeOk' /\ WalksLive'
    BY <1>2 DEF Walks, Nested, Outermost, ModeOk, WalksLive
  <2>2. QED
    BY <1>1, <2>1 DEF IInv, Undisturbed
<1>3. CASE \E g : /\ stack' = <<g>> /\ ~ IsWalk(g)
                  /\ OuterOk(cb', sim'["NextSimTime"], now', phase', g)
  <2>1. PICK g : /\ stack' = <<g>> /\ ~ IsWalk(g)
                 /\ OuterOk(cb', sim'["NextSimTime"], now', phase', g)
    BY <1>3
  <2>2. /\ DOMAIN stack' = {1} /\ stack'[1] = g /\ Len(stack') = 1 /\ stack' # << >>
    BY <2>1
  <2>3. Walks' /\ WalksLive' /\ Nested'
    BY <2>1, <2>2 DEF Walks, WalksLive, Nested
  <2>4. Outermost' /\ ModeOk'
    BY <2>1, <2>2 DEF Outermost, ModeOk
  <2>5. QED
    BY <1>1, <2>3, <2>4 DEF IInv, Undisturbed
<1>4. QED
  BY <1>2, <1>3

LEMMA TaskReturnsStep ==
  ASSUME IInv, TaskReturns
  PROVE  IInv'
<1>1. /\ stack # << >> /\ Top.fn = "calltf" /\ stack' = Tail(stack) /\ mode' = "NONE"
      /\ UNCHANGED <<cb, head, next, sim, value, phase, now, ops, aborted, uaf, reaped>>
  BY DEF TaskReturns, In
<1>2. ~ IsWalk(Top)
  BY <1>1 DEF IsWalk
<1>3. /\ stack' = << >> /\ stack[Len(stack)] = Top
      /\ OuterOk(cb, sim["NextSimTime"], now, phase, Top)
  BY <1>1, <1>2, Alone
<1>4. phase # "nextsim"
  BY <1>1, <1>3 DEF OuterOk
<1>5. Types'
  BY <1>1, <1>3 DEF IInv, Types, Modes
<1>6. SimOk'
  <2>1. ShotsKept(cb, cb')
    BY <1>1, SameKept, KeptVc
  <2>2. QED
    BY <1>1, <1>4, <2>1, SimKept
<1>7. ShotsOk'
  <2>1. \A i \in Ids : ~ Serves(stack, i)
    BY <1>1, <1>3 DEF Serves
  <2>2. QED
    BY <1>1, <2>1 DEF IInv, ShotsOk
<1>8. QED
  BY <1>1, <1>3, <1>5, <1>6, <1>7, SameKept, SoloStep

LEMMA CallTaskStep ==
  ASSUME IInv, CallTask
  PROVE  IInv'
<1>0. PICK f, m : /\ f = [Frame("calltf", "", << >>, Null, Null) EXCEPT !.run = TRUE]
                  /\ m = IF phase = "load" THEN "COMPILETF" ELSE "CALLTF"
  OBVIOUS
<1>1. /\ stack = << >> /\ phase \in {"load", "run"} /\ Enter(f, m)
      /\ UNCHANGED <<cb, head, next, sim, value, phase, now, ops, uaf, reaped>>
  BY <1>0 DEF CallTask, Idle
<1>2. mode = "NONE" /\ mode \in Modes
  BY <1>1 DEF IInv, ModeOk, Types
<1>3. f \in FrameType /\ f.fn = "calltf" /\ m \in Modes
  <2>1. << >> \in Seq(Ids) /\ "calltf" \in {"run_vpi_callbacks", "calltf", "sync_cb", "list"}
    OBVIOUS
  <2>2. QED
    BY <1>0, <1>2, <2>1 DEF Frame, FrameType, OrNull, Modes
<1>4. stack' = <<f>> \o << >> /\ mode' = m /\ UNCHANGED aborted
  BY <1>1, <1>2 DEF Enter
<1>5. stack' = <<f>> /\ stack' \in Seq(FrameType)
  BY <1>3, <1>4
<1>6. Types'
  BY <1>1, <1>3, <1>4, <1>5 DEF IInv, Types
<1>7. ~ IsWalk(f) /\ OuterOk(cb', sim'["NextSimTime"], now', phase', f)
  BY <1>1, <1>3 DEF IsWalk, OuterOk
<1>8. ShotsKept(cb, cb') /\ VcKept(cb, cb')
  BY <1>1, SameKept, KeptVc
<1>9. SimOk'
  BY <1>1, <1>8, SimKept
<1>10. ShotsOk'
  BY <1>1 DEF IInv, ShotsOk, Serves
<1>11. QED
  BY <1>1, <1>4, <1>5, <1>6, <1>7, <1>8, <1>9, <1>10, SoloStep

(* A one-shot callback that has run is not waited for in any list. *)
LEMMA NotWaiting ==
  ASSUME IInv, NEW i \in Ids, \A x \in Ids : x # i => cb'[x] = cb[x],
         UNCHANGED <<sim, phase, now>>,
         phase = "nextsim" => (stack = << >> <=> stack' = << >>),
         \A r \in Simulator : i \notin Range(sim[r])
  PROVE  SimOk'
<1>1. sim \in [Simulator -> Seq(Ids)] /\ SimOk
  BY DEF IInv, Types
<1>2. ASSUME NEW r \in Simulator, NEW x \in Range(sim[r])
      PROVE  Waits(cb', x, r) /\ cb'[x].due = cb[x].due
  <2>1. x \in Ids /\ x # i
    BY <1>1, RangeIds
  <2>2. QED
    BY <1>1, <2>1 DEF SimOk, Waits
<1>3. QED
  BY <1>1, <1>2 DEF SimOk

LEMMA SyncReturnsStep ==
  ASSUME IInv, SyncReturns
  PROVE  IInv'
<1>0. PICK i : i = Top.cur
  OBVIOUS
<1>1. /\ stack # << >> /\ Top.fn = "sync_cb" /\ stack' = Tail(stack) /\ mode' = "NONE"
      /\ cb' = [cb EXCEPT ![i].st = "dead"]
      /\ UNCHANGED <<head, next, sim, value, phase, now, ops, aborted, uaf, reaped>>
  BY <1>0 DEF SyncReturns, In, Delete
<1>2. ~ IsWalk(Top)
  BY <1>1 DEF IsWalk
<1>3. /\ stack' = << >> /\ stack[Len(stack)] = Top
      /\ OuterOk(cb, sim["NextSimTime"], now, phase, Top)
  BY <1>1, <1>2, Alone
<1>4. phase # "nextsim" /\ i \in Ids /\ cb[i].why \in Sync /\ cb[i].calls = 1
  BY <1>0, <1>1, <1>3 DEF OuterOk, SyncOk
<1>5. /\ cb' \in [Ids -> CallbackType] /\ \A x \in Ids : x # i => cb'[x] = cb[x]
      /\ cb'[i].st = "dead" /\ cb'[i].why = cb[i].why /\ cb'[i].sig = cb[i].sig
      /\ cb'[i].calls = cb[i].calls
  BY <1>1, <1>4, DeleteFacts DEF IInv, Types
<1>6. VcKept(cb, cb')
  BY <1>4, <1>5, Strings DEF VcKept
<1>7. Types'
  BY <1>1, <1>3, <1>5 DEF IInv, Types, Modes
<1>8. \A r \in Simulator : i \notin Range(sim[r])
  BY <1>4 DEF IInv, SimOk, Waits
<1>9. SimOk'
  BY <1>1, <1>4, <1>5, <1>6, <1>8, NotWaiting
<1>10. ShotsOk'
  <2>1. \A x \in Ids : x # i => ~ Serves(stack, x)
    BY <1>0, <1>3 DEF Serves
  <2>2. QED
    BY <1>4, <1>5, <2>1 DEF IInv, ShotsOk
<1>11. QED
  BY <1>1, <1>3, <1>6, <1>7, <1>9, <1>10, SoloStep

LEMMA RunSyncStep ==
  ASSUME IInv, NEW i \in Ids, RunSync(i)
  PROVE  IInv'
<1>0. PICK f, m : /\ f = [Frame("sync_cb", "", << >>, Null, Null) EXCEPT !.cur = i, !.run = TRUE]
                  /\ m = IF Region(cb[i].why) = "ro" THEN "ROSYNC" ELSE "RWSYNC"
  OBVIOUS
<1>1. /\ stack = << >> /\ phase \in {"start", "run", "ro"}
      /\ Region(cb[i].why) \in {"start", "active", "rw", "ro"} /\ cb[i].st = "live"
      /\ IF cb[i].rtn
         THEN Enter(f, m) /\ cb' = [cb EXCEPT ![i].calls = @ + 1]
         ELSE cb' = [cb EXCEPT ![i].st = "dead"] /\ UNCHANGED <<stack, mode, aborted>>
      /\ UNCHANGED <<head, next, sim, value, phase, now, ops, uaf, reaped>>
  BY <1>0 DEF RunSync, Idle, Due, Delete
<1>2. cb[i].why \in Sync
  BY <1>1 DEF Region, Sync
<1>3. mode = "NONE" /\ mode \in Modes /\ cb \in [Ids -> CallbackType]
  BY <1>1 DEF IInv, ModeOk, Types
<1>4. \A x \in Ids : cb[x].why \in Sync /\ cb[x].st = "live" => cb[x].calls = 0
  BY <1>1 DEF IInv, ShotsOk, Serves
<1>5. \A r \in Simulator : i \notin Range(sim[r])
  BY <1>2, Strings DEF IInv, SimOk, Waits
<1>6. CASE cb[i].rtn
  <2>1. f \in FrameType /\ f.fn = "sync_cb" /\ f.cur = i /\ m \in Modes
    <3>1. << >> \in Seq(Ids) /\ "sync_cb" \in {"run_vpi_callbacks", "calltf", "sync_cb", "list"}
      OBVIOUS
    <3>2. QED
      BY <1>0, <1>3, <3>1 DEF Frame, FrameType, OrNull, Modes
  <2>2. /\ stack' = <<f>> \o << >> /\ mode' = m /\ UNCHANGED aborted
        /\ cb' = [cb EXCEPT ![i].calls = @ + 1]
    BY <1>1, <1>3, <1>6 DEF Enter
  <2>3. stack' = <<f>> /\ stack' \in Seq(FrameType)
    BY <2>1, <2>2
  <2>4. /\ cb' \in [Ids -> CallbackType] /\ \A x \in Ids : x # i => cb'[x] = cb[x]
        /\ cb'[i].st = cb[i].st /\ cb'[i].why = cb[i].why /\ cb'[i].sig = cb[i].sig
        /\ cb'[i].calls = cb[i].calls + 1
    BY <1>3, <2>2, CallsFacts
  <2>5. Types'
    BY <1>1, <2>1, <2>2, <2>3, <2>4 DEF IInv, Types
  <2>6. VcKept(cb, cb')
    BY <2>4 DEF VcKept
  <2>7. ~ IsWalk(f) /\ OuterOk(cb', sim'["NextSimTime"], now', phase', f)
    BY <1>1, <1>2, <1>4, <2>1, <2>4 DEF IsWalk, OuterOk, SyncOk
  <2>8. SimOk'
    BY <1>1, <1>5, <2>4, NotWaiting
  <2>9. ShotsOk'
    <3>1. Serves(stack', i)
      BY <2>1, <2>3 DEF Serves
    <3>2. QED
      BY <1>1, <1>4, <2>4, <3>1 DEF IInv, ShotsOk
  <2>10. QED
    BY <1>1, <2>2, <2>3, <2>5, <2>6, <2>7, <2>8, <2>9, SoloStep
<1>7. CASE ~ cb[i].rtn
  <2>1. stack' = << >> /\ mode' = "NONE" /\ UNCHANGED aborted /\ cb' = [cb EXCEPT ![i].st = "dead"]
    BY <1>1, <1>3, <1>7
  <2>2. /\ cb' \in [Ids -> CallbackType] /\ \A x \in Ids : x # i => cb'[x] = cb[x]
        /\ cb'[i].st = "dead" /\ cb'[i].why = cb[i].why /\ cb'[i].sig = cb[i].sig
        /\ cb'[i].rtn = cb[i].rtn
    BY <1>3, <2>1, DeleteFacts
  <2>3. Types'
    BY <1>1, <2>1, <2>2 DEF IInv, Types, Modes
  <2>4. VcKept(cb, cb')
    BY <1>2, <2>2, Strings DEF VcKept
  <2>5. SimOk'
    BY <1>1, <1>5, <2>2, NotWaiting
  <2>6. ShotsOk'
    BY <1>4, <1>7, <2>2 DEF IInv, ShotsOk
  <2>7. QED
    BY <1>1, <2>1, <2>3, <2>4, <2>5, <2>6, SoloStep
<1>8. QED
  BY <1>6, <1>7

(* The callbacks of a phase. *)
LEMMA RunListStep ==
  ASSUME IInv, NEW why \in Simulator, RunList(why)
  PROVE  IInv'
<1>0. PICK l, m : /\ l = IF why = "NextSimTime" THEN sim[why] ELSE << >>
                  /\ m = IF why = "EndOfSimulation" THEN "ROSYNC" ELSE "RWSYNC"
  OBVIOUS
<1>1. PICK f : f = Frame("list", why, l, Null, Null)
  OBVIOUS
<1>2. /\ stack = << >> /\ Begins(why) /\ Enter(f, m)
      /\ sim' = IF why = "NextSimTime" THEN [sim EXCEPT ![why] = << >>] ELSE sim
      /\ UNCHANGED <<cb, head, next, value, phase, now, ops, uaf, reaped>>
  BY <1>0, <1>1 DEF RunList, Idle
<1>3. /\ phase \in {"endofcompile", "startofsim", "nextsim", "postsim"}
      /\ why = "NextSimTime" <=> phase = "nextsim"
  BY <1>2 DEF Begins
<1>4. /\ mode = "NONE" /\ mode \in Modes /\ sim \in [Simulator -> Seq(Ids)] /\ SimOk
      /\ "NextSimTime" \in Simulator
  BY <1>2 DEF IInv, ModeOk, Types, Simulator
<1>5. l \in Seq(Ids)
  BY <1>0, <1>4
<1>6. /\ f \in FrameType /\ f.fn = "list" /\ f.why = why /\ f.rest = l /\ f.run = FALSE
      /\ m \in Modes
  <2>1. "list" \in {"run_vpi_callbacks", "calltf", "sync_cb", "list"} /\ why \in Kinds
    BY Strings
  <2>2. QED
    BY <1>0, <1>1, <1>4, <1>5, <2>1 DEF Frame, FrameType, OrNull, Modes
<1>7. stack' = <<f>> \o << >> /\ mode' = m /\ UNCHANGED aborted
  BY <1>2, <1>4 DEF Enter
<1>8. stack' = <<f>> /\ stack' \in Seq(FrameType) /\ stack' # << >>
  BY <1>6, <1>7
<1>9. sim' \in [Simulator -> Seq(Ids)]
  BY <1>2, <1>4
<1>10. Types'
  BY <1>2, <1>6, <1>7, <1>8, <1>9 DEF IInv, Types
<1>11. ListOk(cb', sim'["NextSimTime"], now', f)
  <2>1. CASE why = "NextSimTime"
    <3>1. sim'["NextSimTime"] = << >> /\ l = sim["NextSimTime"]
      BY <1>0, <1>2, <1>4, <2>1
    <3>2. /\ IsInjective(l)
          /\ \A x \in Range(l) : Waits(cb, x, "NextSimTime") /\ cb[x].due = now - 1
      BY <1>2, <1>3, <1>4, <2>1, <3>1 DEF SimOk
    <3>3. QED
      BY <1>2, <1>6, <2>1, <3>1, <3>2, RangeNone DEF ListOk
  <2>2. CASE why # "NextSimTime"
    BY <1>0, <1>6, <2>2, RangeNone DEF ListOk
  <2>3. QED
    BY <2>1, <2>2
<1>12. ~ IsWalk(f) /\ OuterOk(cb', sim'["NextSimTime"], now', phase', f)
  BY <1>2, <1>3, <1>6, <1>11 DEF IsWalk, OuterOk
<1>13. SimOk'
  <2>1. ASSUME NEW r \in Simulator
        PROVE  /\ IsInjective(sim'[r])
               /\ \A x \in Range(sim'[r]) :
                    /\ Waits(cb, x, r)
                    /\ r = "NextSimTime" => cb[x].due = now
    <3>1. CASE r = why /\ why = "NextSimTime"
      BY <1>2, <1>4, <3>1, RangeNone
    <3>2. CASE ~ (r = why /\ why = "NextSimTime")
      BY <1>2, <1>3, <1>4, <3>2 DEF SimOk
    <3>3. QED
      BY <3>1, <3>2
  <2>2. QED
    BY <1>2, <1>8, <2>1 DEF SimOk
<1>14. ShotsOk'
  BY <1>2 DEF IInv, ShotsOk, Serves
<1>15. VcKept(cb, cb')
  BY <1>2, SameKept
<1>16. QED
  BY <1>2, <1>7, <1>8, <1>10, <1>12, <1>13, <1>14, <1>15, SoloStep

LEMMA OneFrame ==
  ASSUME NEW g \in FrameType
  PROVE  <<g>> \in Seq(FrameType) /\ <<g>> # << >>
  OBVIOUS

(* The callback i leaves the list it is first in, and is called or freed. *)
LEMMA ListTurn ==
  ASSUME IInv, In("list"), ~ Top.run, NEW i \in Ids, Waits(cb, i, Top.why),
         NEW f \in FrameType, f.fn = "list", f.why = Top.why, f.run = FALSE,
         f.why # "NextSimTime" => f.rest = << >>,
         IsInjective(f.rest), \A x \in Range(f.rest) : x \in Range(Top.rest) /\ x # i,
         sim' \in [Simulator -> Seq(Ids)],
         \A r \in Simulator : /\ IsInjective(sim'[r])
                              /\ \A x \in Range(sim'[r]) : x \in Range(sim[r]) /\ x # i,
         NEW g, g = IF cb[i].rtn THEN [f EXCEPT !.cur = i, !.run = TRUE] ELSE f,
         stack' = WithTop(g),
         cb' = IF cb[i].rtn THEN [cb EXCEPT ![i].calls = @ + 1] ELSE [cb EXCEPT ![i].st = "dead"],
         UNCHANGED <<head, next, value, mode, phase, now, ops, aborted, uaf, reaped>>
  PROVE  IInv'
<1>1. stack # << >> /\ ~ IsWalk(Top) /\ Top.fn = "list"
  BY DEF In, IsWalk
<1>2. /\ stack[Len(stack)] = Top /\ stack' = <<g>>
      /\ OuterOk(cb, sim["NextSimTime"], now, phase, Top)
  BY <1>1, Alone
<1>3. ListOk(cb, sim["NextSimTime"], now, Top) /\ Top.why \in Simulator
  BY <1>1, <1>2 DEF OuterOk, ListOk
<1>4. cb[i].why \in Simulator /\ cb[i].st = "live" /\ cb[i].calls = 0
  BY <1>3 DEF Waits
<1>5. /\ g \in FrameType /\ g.fn = "list" /\ g.why = Top.why /\ g.rest = f.rest
      /\ g.run = cb[i].rtn /\ (g.run => g.cur = i)
  <2>1. cb[i].rtn \in BOOLEAN
    BY CallbackFields DEF IInv, Types
  <2>2. CASE cb[i].rtn
    <3>1. g = [f EXCEPT !.cur = i, !.run = TRUE]
      BY <2>2
    <3>2. QED
      BY <2>1, <2>2, <3>1 DEF FrameType, OrNull
  <2>3. CASE ~ cb[i].rtn
    BY <2>1, <2>3
  <2>4. QED
    BY <2>2, <2>3
<1>6. /\ cb' \in [Ids -> CallbackType] /\ \A x \in Ids : x # i => cb'[x] = cb[x]
      /\ cb'[i].why = cb[i].why /\ cb'[i].sig = cb[i].sig
      /\ cb[i].rtn => cb'[i].st = cb[i].st /\ cb'[i].calls = 1
      /\ ~ cb[i].rtn => cb'[i].st = "dead" /\ ~ cb'[i].rtn
  <2>1. cb \in [Ids -> CallbackType]
    BY DEF IInv, Types
  <2>2. CASE cb[i].rtn
    <3>1. cb' = [cb EXCEPT ![i].calls = @ + 1]
      BY <2>2
    <3>2. QED
      BY <1>4, <2>1, <2>2, <3>1, CallsFacts
  <2>3. CASE ~ cb[i].rtn
    <3>1. cb' = [cb EXCEPT ![i].st = "dead"]
      BY <2>3
    <3>2. QED
      BY <2>1, <2>3, <3>1, DeleteFacts
  <2>4. QED
    BY <2>2, <2>3
<1>7. stack' \in Seq(FrameType) /\ stack' # << >>
  BY <1>2, <1>5, OneFrame, Zenon
<1>8. Types'
  BY <1>6, <1>7 DEF IInv, Types
<1>9. VcKept(cb, cb')
  BY <1>4, <1>6, Strings DEF VcKept
<1>10. ListOk(cb', sim'["NextSimTime"], now', g)
  <2>1. ASSUME NEW x \in Range(g.rest)
        PROVE  /\ Waits(cb', x, "NextSimTime") /\ cb'[x].due = now' - 1
               /\ x \notin Range(sim'["NextSimTime"])
    <3>1. x \in Ids /\ x \in Range(Top.rest) /\ x # i /\ "NextSimTime" \in Simulator
      BY <1>5, FrameFields, RangeIds DEF Simulator
    <3>2. /\ Waits(cb, x, "NextSimTime") /\ cb[x].due = now - 1
          /\ x \notin Range(sim["NextSimTime"])
      BY <1>3, <3>1 DEF ListOk
    <3>3. QED
      BY <1>6, <3>1, <3>2 DEF Waits
  <2>2. g.run => g.cur \in Ids /\ cb'[g.cur].why \in Simulator /\ cb'[g.cur].calls = 1
    BY <1>4, <1>5, <1>6
  <2>3. QED
    BY <1>3, <1>5, <2>1, <2>2 DEF ListOk
<1>11. ~ IsWalk(g) /\ OuterOk(cb', sim'["NextSimTime"], now', phase', g)
  BY <1>1, <1>2, <1>5, <1>10 DEF IsWalk, OuterOk
<1>12. SimOk'
  <2>1. ASSUME NEW r \in Simulator, NEW x \in Range(sim'[r])
        PROVE  Waits(cb', x, r) /\ (r = "NextSimTime" => cb'[x].due = now)
    <3>1. x \in Ids /\ x \in Range(sim[r]) /\ x # i
      BY RangeIds
    <3>2. Waits(cb, x, r) /\ (r = "NextSimTime" => cb[x].due = now)
      BY <1>1, <3>1 DEF IInv, SimOk
    <3>3. QED
      BY <1>6, <3>1, <3>2 DEF Waits
  <2>2. QED
    BY <1>7, <2>1 DEF SimOk
<1>13. ShotsOk'
  <2>1. \A x \in Ids : ~ Serves(stack, x)
    BY <1>1, <1>2 DEF Serves
  <2>2. QED
    BY <1>4, <1>6, <2>1, Strings DEF IInv, ShotsOk
<1>14. QED
  BY <1>2, <1>8, <1>9, <1>11, <1>12, <1>13, SoloStep

LEMMA NextOfListStep ==
  ASSUME IInv, NextOfList
  PROVE  IInv'
<1>0. PICK i, f : /\ i = Head(Left)
                  /\ f = IF Top.why = "NextSimTime" THEN [Top EXCEPT !.rest = Tail(@)] ELSE Top
  OBVIOUS
<1>1. PICK g : g = IF cb[i].rtn THEN [f EXCEPT !.cur = i, !.run = TRUE] ELSE f
  OBVIOUS
<1>2. /\ In("list") /\ ~ Top.run /\ Left # << >>
      /\ sim' = IF Top.why = "NextSimTime" THEN sim ELSE [sim EXCEPT ![Top.why] = Tail(@)]
      /\ stack' = WithTop(g)
      /\ cb' = IF cb[i].rtn THEN [cb EXCEPT ![i].calls = @ + 1] ELSE [cb EXCEPT ![i].st = "dead"]
      /\ UNCHANGED <<head, next, value, mode, phase, now, ops, aborted, uaf, reaped>>
  <2>1. CASE cb[i].rtn
    BY <1>0, <1>1, <2>1 DEF NextOfList, Delete
  <2>2. CASE ~ cb[i].rtn
    BY <1>0, <1>1, <2>2 DEF NextOfList, Delete
  <2>3. QED
    BY <2>1, <2>2
<1>3. stack # << >> /\ ~ IsWalk(Top) /\ Top.fn = "list"
  BY <1>2 DEF In, IsWalk
<1>4. Top \in FrameType /\ OuterOk(cb, sim["NextSimTime"], now, phase, Top)
  BY <1>3, Alone
<1>5. ListOk(cb, sim["NextSimTime"], now, Top) /\ Top.why \in Simulator
  BY <1>3, <1>4 DEF OuterOk, ListOk
<1>6. /\ sim \in [Simulator -> Seq(Ids)] /\ SimOk /\ "NextSimTime" \in Simulator
      /\ Top.rest \in Seq(Ids) /\ Top.run = FALSE
  BY <1>2, <1>4, FrameFields DEF IInv, Types, Simulator
<1>7. CASE Top.why = "NextSimTime"
  <2>1. /\ i = Head(Top.rest) /\ Top.rest # << >> /\ sim' = sim
        /\ f = [Top EXCEPT !.rest = Tail(Top.rest)]
    BY <1>0, <1>2, <1>7 DEF Left
  <2>2. /\ i \in Ids /\ i \in Range(Top.rest) /\ Tail(Top.rest) \in Seq(Ids)
        /\ IsInjective(Tail(Top.rest))
        /\ \A x \in Range(Tail(Top.rest)) : x \in Range(Top.rest) /\ x # i
    BY <1>5, <1>6, <2>1, HeadTail, RangeTail DEF ListOk
  <2>3. /\ f \in FrameType /\ f.fn = "list" /\ f.why = Top.why /\ f.run = FALSE
        /\ f.rest = Tail(Top.rest)
    BY <1>3, <1>4, <1>6, <2>1, <2>2 DEF FrameType
  <2>4. Waits(cb, i, "NextSimTime") /\ i \notin Range(sim["NextSimTime"])
    BY <1>5, <2>2 DEF ListOk
  <2>5. ASSUME NEW r \in Simulator
        PROVE  /\ IsInjective(sim'[r])
               /\ \A x \in Range(sim'[r]) : x \in Range(sim[r]) /\ x # i
    <3>1. \A x \in Range(sim[r]) : Waits(cb, x, r)
      BY <1>6 DEF SimOk
    <3>2. \A x \in Range(sim[r]) : x # i
      BY <2>4, <3>1 DEF Waits
    <3>3. QED
      BY <1>6, <2>1, <3>2 DEF SimOk
  <2>6. QED
    BY <1>1, <1>2, <1>6, <1>7, <2>1, <2>2, <2>3, <2>4, <2>5, ListTurn
<1>8. CASE Top.why # "NextSimTime"
  <2>0. PICK w : w = Top.why
    OBVIOUS
  <2>1. /\ i = Head(sim[w]) /\ sim[w] # << >> /\ f = Top /\ w \in Simulator
        /\ sim' = [sim EXCEPT ![w] = Tail(sim[w])] /\ sim[w] \in Seq(Ids)
    BY <1>0, <1>2, <1>5, <1>6, <1>8, <2>0 DEF Left
  <2>2. /\ i \in Ids /\ i \in Range(sim[w]) /\ Tail(sim[w]) \in Seq(Ids)
        /\ IsInjective(Tail(sim[w]))
        /\ \A x \in Range(Tail(sim[w])) : x \in Range(sim[w]) /\ x # i
    BY <1>6, <2>1, HeadTail, RangeTail DEF SimOk
  <2>3. Waits(cb, i, w)
    BY <1>6, <2>1, <2>2 DEF SimOk
  <2>4. f.rest = << >> /\ Range(f.rest) = {} /\ IsInjective(f.rest)
    BY <1>5, <1>8, <2>1, RangeNone DEF ListOk
  <2>5. ASSUME NEW r \in Simulator
        PROVE  /\ IsInjective(sim'[r])
               /\ \A x \in Range(sim'[r]) : x \in Range(sim[r]) /\ x # i
    <3>1. CASE r = w
      BY <1>6, <2>1, <2>2, <3>1
    <3>2. CASE r # w
      <4>1. sim'[r] = sim[r]
        BY <1>6, <2>1, <3>2
      <4>2. \A x \in Range(sim[r]) : Waits(cb, x, r)
        BY <1>6 DEF SimOk
      <4>3. \A x \in Range(sim[r]) : x # i
        BY <2>3, <3>2, <4>2 DEF Waits
      <4>4. QED
        BY <1>6, <4>1, <4>3 DEF SimOk
    <3>3. QED
      BY <3>1, <3>2
  <2>6. sim' \in [Simulator -> Seq(Ids)]
    BY <1>6, <2>1, <2>2
  <2>7. QED
    BY <1>1, <1>2, <1>3, <1>4, <1>6, <2>0, <2>1, <2>2, <2>3, <2>4, <2>5, <2>6, ListTurn
<1>9. QED
  BY <1>7, <1>8

LEMMA ListRoutineReturnsStep ==
  ASSUME IInv, ListRoutineReturns
  PROVE  IInv'
<1>0. PICK i, g : i = Top.cur /\ g = [Top EXCEPT !.run = FALSE, !.cur = Null]
  OBVIOUS
<1>1. /\ stack # << >> /\ Top.fn = "list" /\ Top.run /\ stack' = WithTop(g)
      /\ cb' = [cb EXCEPT ![i].st = "dead"]
      /\ UNCHANGED <<head, next, sim, value, mode, phase, now, ops, aborted, uaf, reaped>>
  BY <1>0 DEF ListRoutineReturns, In, Delete
<1>2. ~ IsWalk(Top)
  BY <1>1 DEF IsWalk
<1>3. /\ stack[Len(stack)] = Top /\ stack' = <<g>> /\ Top \in FrameType
      /\ OuterOk(cb, sim["NextSimTime"], now, phase, Top)
  BY <1>1, <1>2, Alone
<1>4. /\ ListOk(cb, sim["NextSimTime"], now, Top)
      /\ i \in Ids /\ cb[i].why \in Simulator /\ cb[i].calls = 1
  BY <1>0, <1>1, <1>3 DEF OuterOk, ListOk
<1>5. /\ g \in FrameType /\ g.fn = "list" /\ g.why = Top.why /\ g.rest = Top.rest
      /\ g.run = FALSE
  BY <1>0, <1>1, <1>3 DEF FrameType, OrNull
<1>6. /\ cb' \in [Ids -> CallbackType] /\ \A x \in Ids : x # i => cb'[x] = cb[x]
      /\ cb'[i].st = "dead" /\ cb'[i].why = cb[i].why /\ cb'[i].sig = cb[i].sig
      /\ cb'[i].calls = cb[i].calls
  BY <1>1, <1>4, DeleteFacts DEF IInv, Types
<1>7. stack' \in Seq(FrameType) /\ stack' # << >>
  BY <1>3, <1>5
<1>8. Types'
  BY <1>1, <1>6, <1>7 DEF IInv, Types
<1>9. VcKept(cb, cb')
  BY <1>4, <1>6, Strings DEF VcKept
<1>10. ListOk(cb', sim'["NextSimTime"], now', g)
  <2>1. ASSUME NEW x \in Range(g.rest)
        PROVE  /\ Waits(cb', x, "NextSimTime") /\ cb'[x].due = now' - 1
               /\ x \notin Range(sim'["NextSimTime"])
    <3>1. x \in Ids /\ x \in Range(Top.rest)
      BY <1>5, FrameFields, RangeIds
    <3>2. /\ Waits(cb, x, "NextSimTime") /\ cb[x].due = now - 1
          /\ x \notin Range(sim["NextSimTime"])
      BY <1>4, <3>1 DEF ListOk
    <3>3. QED
      BY <1>1, <1>4, <1>6, <3>1, <3>2 DEF Waits
  <2>2. QED
    BY <1>4, <1>5, <2>1 DEF ListOk
<1>11. ~ IsWalk(g) /\ OuterOk(cb', sim'["NextSimTime"], now', phase', g)
  BY <1>1, <1>3, <1>5, <1>10 DEF IsWalk, OuterOk
<1>12. \A r \in Simulator : i \notin Range(sim[r])
  BY <1>4 DEF IInv, SimOk, Waits
<1>13. SimOk'
  BY <1>1, <1>4, <1>6, <1>7, <1>12, NotWaiting
<1>14. ShotsOk'
  <2>1. \A x \in Ids : ~ Serves(stack, x)
    BY <1>1, <1>3 DEF Serves
  <2>2. QED
    BY <1>4, <1>6, <2>1 DEF IInv, ShotsOk
<1>15. QED
  BY <1>1, <1>3, <1>8, <1>9, <1>11, <1>13, <1>14, SoloStep

LEMMA ListEndsStep ==
  ASSUME IInv, ListEnds
  PROVE  IInv'
<1>1. /\ stack # << >> /\ Top.fn = "list" /\ stack' = Tail(stack) /\ mode' = "NONE"
      /\ phase' = After(phase)
      /\ UNCHANGED <<cb, head, next, sim, value, now, ops, aborted, uaf, reaped>>
  BY DEF ListEnds, In
<1>2. ~ IsWalk(Top)
  BY <1>1 DEF IsWalk
<1>3. /\ stack' = << >> /\ stack[Len(stack)] = Top
      /\ OuterOk(cb, sim["NextSimTime"], now, phase, Top)
  BY <1>1, <1>2, Alone
<1>4. phase \in {"endofcompile", "startofsim", "nextsim", "postsim"}
  BY <1>1, <1>3 DEF OuterOk
<1>5. phase' \in Phases /\ phase' # "nextsim"
  BY <1>1, <1>4 DEF After, Phases
<1>6. Types'
  BY <1>1, <1>3, <1>5 DEF IInv, Types, Modes
<1>7. SimOk'
  BY <1>1, <1>5 DEF IInv, SimOk
<1>8. ShotsOk'
  <2>1. \A i \in Ids : ~ Serves(stack, i)
    BY <1>1, <1>3 DEF Serves
  <2>2. QED
    BY <1>1, <2>1 DEF IInv, ShotsOk
<1>9. QED
  BY <1>1, <1>3, <1>6, <1>7, <1>8, SameKept, SoloStep

(* What was registered for the next time step is of the step before when   *)
(* the time has advanced.                                                  *)
LEMMA AdvanceStep ==
  ASSUME IInv, Advance
  PROVE  IInv'
<1>1. /\ stack = << >>
      /\ UNCHANGED <<cb, head, next, sim, value, stack, mode, ops, aborted, uaf, reaped>>
  BY DEF Advance, Idle
<1>2. now \in Nat /\ MaxTime \in Nat /\ now \in 0..MaxTime /\ mode = "NONE" /\ SimOk
  BY <1>1, CallbackAssumption DEF IInv, Types, ModeOk
<1>3. /\ phase # "nextsim" /\ phase' \in Phases /\ now' \in 0..MaxTime
      /\ \/ phase' # "nextsim" /\ now' = now
         \/ phase' = "nextsim" /\ now' = now + 1
  <2>1. CASE phase = "load" /\ phase' = "endofcompile" /\ UNCHANGED now
    BY <1>2, <2>1 DEF Phases
  <2>2. CASE phase = "start" /\ phase' = "run" /\ UNCHANGED now
    BY <1>2, <2>2 DEF Phases
  <2>3. CASE phase = "run" /\ phase' = "ro" /\ UNCHANGED now
    BY <1>2, <2>3 DEF Phases
  <2>4. CASE phase = "ro" /\ now < MaxTime /\ phase' = "nextsim" /\ now' = now + 1
    BY <1>2, <2>4 DEF Phases
  <2>5. CASE phase = "ro" /\ phase' = "postsim" /\ UNCHANGED now
    BY <1>2, <2>5 DEF Phases
  <2>6. QED
    BY <2>1, <2>2, <2>3, <2>4, <2>5 DEF Advance
<1>4. Types'
  BY <1>1, <1>3 DEF IInv, Types
<1>5. SimOk'
  <2>1. now = (now + 1) - 1
    BY <1>2
  <2>2. ASSUME NEW r \in Simulator, NEW x \in Range(sim[r])
        PROVE  Waits(cb, x, r) /\ (r = "NextSimTime" => cb[x].due = now)
    BY <1>2, <1>3 DEF SimOk
  <2>3. QED
    BY <1>1, <1>2, <1>3, <2>1, <2>2 DEF SimOk
<1>6. ShotsOk'
  BY <1>1 DEF IInv, ShotsOk
<1>7. QED
  BY <1>1, <1>2, <1>4, <1>5, <1>6, SameKept, SoloStep

-----------------------------------------------------------------------------
LEMMA InitIInv == Init => IInv
<1> SUFFICES ASSUME Init PROVE IInv
  OBVIOUS
<1>1. /\ cb = [i \in Ids |-> Unused] /\ Unused \in CallbackType /\ Unused.st = "unused"
      /\ Unused.why = "" /\ Unused.calls = 0
  BY UnusedType, CallbackAssumption DEF Init, Unused
<1>2. \A i \in Ids : cb[i] = Unused
  BY <1>1
<1>3. Types
  <2>0. cb \in [Ids -> CallbackType]
    BY <1>1
  <2>1. stack \in Seq(FrameType)
    BY DEF Init
  <2>2. /\ head \in [Signals -> OrNull] /\ next \in [Ids -> OrNull]
        /\ value \in [Signals -> [1..2 -> {0, 1}]]
    <3>1. <<0, 0>> \in [1..2 -> {0, 1}]
      OBVIOUS
    <3>2. QED
      BY <3>1 DEF Init, OrNull
  <2>3. sim \in [Simulator -> Seq(Ids)]
    BY DEF Init
  <2>4. mode \in Modes /\ phase \in Phases /\ now \in 0..MaxTime /\ ops \in 0..MaxOps
    BY CallbackAssumption DEF Init, Modes, Phases
  <2>5. QED
    BY <2>0, <2>1, <2>2, <2>3, <2>4 DEF Init, Types
<1>4. ListsOk /\ InLinks
  BY DEF Init, ListsOk, InLinks
<1>5. Walks /\ WalksLive /\ Nested /\ Outermost /\ ModeOk
  BY DEF Init, Walks, WalksLive, Nested, Outermost, ModeOk
<1>6. SimOk
  <2>1. \A r \in Simulator : sim[r] = << >>
    BY DEF Init
  <2>2. QED
    BY <2>1, RangeNone DEF SimOk
<1>7. ShotsOk
  BY <1>1, <1>2, Strings DEF ShotsOk
<1>8. \E rank \in [Ids -> Nat] : Ranked(rank, next, ops)
  <2>1. [i \in Ids |-> 0] \in [Ids -> Nat]
    OBVIOUS
  <2>2. Ranked([i \in Ids |-> 0], next, ops)
    BY DEF Init, Ranked
  <2>3. QED
    BY <2>1, <2>2
<1>9. ~ aborted /\ ~ uaf
  BY DEF Init
<1>10. QED
  BY <1>3, <1>4, <1>5, <1>6, <1>7, <1>8, <1>9 DEF IInv, Undisturbed

LEMMA PutStep ==
  ASSUME IInv, NEW s \in Signals, NEW b \in 1..2, vpi_put_value(s, b) \/ Assign(s, b)
  PROVE  IInv'
<1>1. /\ Change(s, b) /\ ops < MaxOps /\ ops' = ops + 1
      /\ Routine \/ (Idle /\ phase = "run")
  BY DEF vpi_put_value, Assign, Call
<1>2. ops <= ops' /\ ops' \in 0..MaxOps
  BY <1>1, CallbackAssumption DEF IInv, Types
<1>3. QED
  BY <1>1, <1>2, ChangeStep

LEMMA StutterStep ==
  ASSUME IInv, UNCHANGED vars
  PROVE  IInv'
<1>1. Types' /\ ListsOk' /\ Walks' /\ Nested' /\ Outermost' /\ ModeOk'
  BY DEF IInv, vars, Types, ListsOk, Walks, Nested, Outermost, ModeOk
<1>2. SimOk' /\ ShotsOk' /\ ~ aborted' /\ (~ reaped' => Undisturbed')
  BY DEF IInv, vars, SimOk, ShotsOk, Undisturbed, InLinks, WalksLive
<1>3. QED
  BY <1>1, <1>2 DEF IInv

LEMMA NextIInv == IInv /\ [Next]_vars => IInv'
<1> SUFFICES ASSUME IInv, [Next]_vars PROVE IInv'
  OBVIOUS
<1>1. CASE Client
  BY <1>1, MakeSyncStep, MakePrepostStep, MakeValueChangeStep, RemoveStep, PutStep DEF Client
<1>2. CASE NextCallback \/ CallbackReturns \/ WalkEnds
  BY <1>2, NextCallbackStep, CallbackReturnsStep, WalkEndsStep
<1>3. CASE \E s \in Signals, b \in 1..2 : Assign(s, b)
  BY <1>3, PutStep
<1>4. CASE CallTask \/ TaskReturns \/ SyncReturns
  BY <1>4, CallTaskStep, TaskReturnsStep, SyncReturnsStep
<1>5. CASE \E i \in Ids : RunSync(i)
  BY <1>5, RunSyncStep
<1>6. CASE \E r \in Simulator : RunList(r)
  BY <1>6, RunListStep
<1>7. CASE NextOfList \/ ListRoutineReturns \/ ListEnds
  BY <1>7, NextOfListStep, ListRoutineReturnsStep, ListEndsStep
<1>8. CASE Advance
  BY <1>8, AdvanceStep
<1>9. CASE UNCHANGED vars
  BY <1>9, StutterStep
<1>10. QED
  BY <1>1, <1>2, <1>3, <1>4, <1>5, <1>6, <1>7, <1>8, <1>9 DEF Next

(* The calls in progress are nested walks inside at most one call of the   *)
(* scheduler or of a task, the lists hold callbacks of their own signal or *)
(* phase, and every walk is where the links say or beside a deleted object *)
(* (run_vpi_callbacks, vvp/vpi_callback.cc).                               *)
THEOREM CallbackInvariant == Spec => []IInv
<1>1. QED
  BY InitIInv, NextIInv, PTL DEF Spec

(* A walk reads no deleted object unless an inner walk over the same list  *)
(* has deleted one, and no assert of vpi_callback.cc fails, however        *)
(* routines register and remove callbacks and change signals.              *)
THEOREM WalksAreSafe == Spec => []WalksSafe
<1>1. IInv => WalksSafe
  BY DEF IInv, Types, Undisturbed, WalksSafe
<1>2. QED
  BY <1>1, CallbackInvariant, PTL

-----------------------------------------------------------------------------
(* One-shot callbacks, step by step. *)

Quiet(i) == cb'[i].calls = cb[i].calls /\ cb'[i].st = cb[i].st

LEMMA QuietShot ==
  ASSUME IInv, NEW i \in Ids, cb[i].why \in Simulator \cup Sync, Quiet(i)
  PROVE  ShotOnce(i)
  BY DEF IInv, ShotsOk, Quiet, ShotOnce

LEMMA QuietSteps ==
  ASSUME IInv, NEW i \in Ids, cb[i].why \in Simulator \cup Sync,
         \/ Client
         \/ NextCallback
         \/ \E s \in Signals, b \in 1..2 : Assign(s, b)
         \/ UNCHANGED cb
  PROVE  Quiet(i)
<1>0. /\ cb \in [Ids -> CallbackType] /\ Unused.why = ""
      /\ "" \notin Simulator \cup Sync /\ "ValueChange" \notin Simulator \cup Sync
  BY Strings DEF IInv, Types, Unused
<1>1. CASE \E j \in Ids : cb[j] = Unused /\ \E r : cb' = [cb EXCEPT ![j] = r]
  BY <1>0, <1>1 DEF Quiet
<1>2. CASE \E j \in Ids : vpi_remove_cb(j)
  <2>1. PICK j \in Ids : cb' = [cb EXCEPT ![j].rtn = FALSE]
    BY <1>2 DEF vpi_remove_cb
  <2>2. /\ \A x \in Ids : x # j => cb'[x] = cb[x]
        /\ cb'[j].st = cb[j].st /\ cb'[j].calls = cb[j].calls
    BY <1>0, <2>1, RemoveFacts
  <2>3. QED
    BY <2>2 DEF Quiet
<1>3. CASE \E s \in Signals, b \in 1..2 : Change(s, b)
  <2>1. PICK s \in Signals :
          cb' = [x \in Ids |-> IF x \in List(s) THEN [cb[x] EXCEPT !.changes = @ + 1] ELSE cb[x]]
    BY <1>3 DEF Change
  <2>2. PICK S : S = List(s)
    OBVIOUS
  <2>3. cb' = [x \in Ids |-> IF x \in S THEN [cb[x] EXCEPT !.changes = @ + 1] ELSE cb[x]]
    BY <2>1, <2>2
  <2>4. QED
    BY <2>3, ChangedCallbacks DEF Quiet
<1>4. CASE NextCallback
  <2>0. PICK f : f = [Top EXCEPT !.cur = Top.nxt, !.nxt = next[Top.nxt]]
    OBVIOUS
  <2>1. /\ Top \in FrameType /\ Top.nxt \in Ids /\ Top.sig \in Signals
        /\ Of(cb, Top.nxt, Top.sig)
    BY <1>4, TurnFacts DEF NextCallback
  <2>2. f.cur = Top.nxt /\ f.sig = Top.sig
    BY <2>0, <2>1 DEF FrameType
  <2>3. i # Top.nxt
    BY <1>0, <2>1 DEF Of
  <2>4. UNCHANGED cb \/ Execute(f) \/ Reap(f)
    BY <1>4, <2>0 DEF NextCallback
  <2>5. cb'[i] = cb[i]
    <3>1. CASE Execute(f)
      BY <1>0, <2>1, <2>2, <2>3, <3>1 DEF Execute
    <3>2. CASE Reap(f)
      BY <1>0, <2>1, <2>2, <2>3, <3>2 DEF Reap, Delete
    <3>3. QED
      BY <2>4, <3>1, <3>2
  <2>6. QED
    BY <2>5 DEF Quiet
<1>5. CASE UNCHANGED cb
  BY <1>5 DEF Quiet
<1>6. CASE Client
  <2>1. CASE \E j \in Ids, r \in Reasons, d \in 0..MaxTime : make_sync(j, r, d)
    BY <1>1, <2>1 DEF make_sync
  <2>2. CASE \E j \in Ids, r \in Reasons : make_prepost(j, r)
    BY <1>1, <2>2 DEF make_prepost
  <2>3. CASE \E j \in Ids, s \in Signals, p \in 0..1 : make_value_change(j, s, p)
    BY <1>1, <2>3 DEF make_value_change
  <2>4. CASE \E s \in Signals, b \in 1..2 : vpi_put_value(s, b)
    BY <1>3, <2>4 DEF vpi_put_value
  <2>5. QED
    BY <1>2, <1>6, <2>1, <2>2, <2>3, <2>4 DEF Client
<1>7. CASE \E s \in Signals, b \in 1..2 : Assign(s, b)
  BY <1>3, <1>7 DEF Assign
<1>8. QED
  BY <1>4, <1>5, <1>6, <1>7

LEMMA CalledOrFreed ==
  ASSUME NEW c \in [Ids -> CallbackType], NEW j \in Ids, NEW d,
         d = IF c[j].rtn THEN [c EXCEPT ![j].calls = @ + 1] ELSE [c EXCEPT ![j].st = "dead"]
  PROVE  /\ \A x \in Ids : x # j => d[x] = c[x]
         /\ c[j].rtn => d[j].st = c[j].st
         /\ ~ c[j].rtn => d[j].calls = c[j].calls
<1>1. CASE c[j].rtn
  BY <1>1, CallsFacts
<1>2. CASE ~ c[j].rtn
  BY <1>2, DeleteFacts
<1>3. QED
  BY <1>1, <1>2

LEMMA RunSyncShot ==
  ASSUME IInv, NEW i \in Ids, cb[i].why \in Simulator \cup Sync, NEW j \in Ids, RunSync(j)
  PROVE  ShotOnce(i)
<1>1. /\ stack = << >> /\ Region(cb[j].why) \in {"start", "active", "rw", "ro"}
      /\ cb[j].st = "live" /\ cb[j].due = now
      /\ cb' = IF cb[j].rtn THEN [cb EXCEPT ![j].calls = @ + 1] ELSE [cb EXCEPT ![j].st = "dead"]
  BY DEF RunSync, Idle, Due, Delete
<1>2. cb[j].why \in Sync /\ "NextSimTime" \notin Sync
  BY <1>1 DEF Region, Sync
<1>3. cb \in [Ids -> CallbackType] /\ cb[j].calls = 0
  BY <1>1, <1>2 DEF IInv, Types, ShotsOk, Serves
<1>4. /\ \A x \in Ids : x # j => cb'[x] = cb[x]
      /\ cb[j].rtn => cb'[j].st = cb[j].st
      /\ ~ cb[j].rtn => cb'[j].calls = cb[j].calls
  BY <1>1, <1>3, CalledOrFreed
<1>5. CASE i # j
  BY <1>4, <1>5, QuietShot DEF Quiet
<1>6. CASE i = j
  BY <1>1, <1>2, <1>3, <1>4, <1>6 DEF ShotOnce
<1>7. QED
  BY <1>5, <1>6

LEMMA ReturnsShot ==
  ASSUME IInv, NEW i \in Ids, cb[i].why \in Simulator \cup Sync, SyncReturns \/ ListRoutineReturns
  PROVE  ShotOnce(i)
<1>0. PICK j : j = Top.cur
  OBVIOUS
<1>1. /\ stack # << >> /\ (Top.fn = "sync_cb" \/ (Top.fn = "list" /\ Top.run))
      /\ cb' = [cb EXCEPT ![j].st = "dead"]
  BY <1>0 DEF SyncReturns, ListRoutineReturns, In, Delete
<1>2. OuterOk(cb, sim["NextSimTime"], now, phase, Top)
  BY <1>1, Alone DEF IsWalk
<1>3. j \in Ids /\ cb[j].calls = 1
  BY <1>0, <1>1, <1>2 DEF OuterOk, SyncOk, ListOk
<1>4. /\ \A x \in Ids : x # j => cb'[x] = cb[x]
      /\ cb'[j].calls = cb[j].calls
  BY <1>1, <1>3, DeleteFacts DEF IInv, Types
<1>5. CASE i # j
  BY <1>4, <1>5, QuietShot DEF Quiet
<1>6. CASE i = j
  BY <1>3, <1>4, <1>6 DEF ShotOnce
<1>7. QED
  BY <1>5, <1>6

LEMMA NextOfListShot ==
  ASSUME IInv, NEW i \in Ids, cb[i].why \in Simulator \cup Sync, NextOfList
  PROVE  ShotOnce(i)
<1>0. PICK j : j = Head(Left)
  OBVIOUS
<1>1. /\ stack # << >> /\ Top.fn = "list" /\ Left # << >>
      /\ cb' = IF cb[j].rtn THEN [cb EXCEPT ![j].calls = @ + 1] ELSE [cb EXCEPT ![j].st = "dead"]
  BY <1>0 DEF NextOfList, In, Delete
<1>2. Top \in FrameType /\ OuterOk(cb, sim["NextSimTime"], now, phase, Top)
  BY <1>1, Alone DEF IsWalk
<1>3. /\ ListOk(cb, sim["NextSimTime"], now, Top) /\ Top.why \in Simulator
      /\ SimOk /\ sim \in [Simulator -> Seq(Ids)] /\ Top.rest \in Seq(Ids)
      /\ cb \in [Ids -> CallbackType] /\ now \in Int
  <2>1. ListOk(cb, sim["NextSimTime"], now, Top) /\ Top.why \in Simulator
    BY <1>1, <1>2 DEF OuterOk, ListOk
  <2>2. Top.rest \in Seq(Ids)
    BY <1>2, FrameFields
  <2>3. QED
    BY <2>1, <2>2 DEF IInv, Types
<1>4. j \in Ids /\ Waits(cb, j, Top.why) /\ (Top.why = "NextSimTime" => cb[j].due = now - 1)
  <2>1. CASE Top.why = "NextSimTime"
    <3>1. j = Head(Top.rest) /\ Top.rest # << >>
      BY <1>0, <1>1, <2>1 DEF Left
    <3>2. j \in Ids /\ j \in Range(Top.rest)
      BY <1>3, <3>1, HeadTail, RangeTail
    <3>3. QED
      BY <1>3, <2>1, <3>2 DEF ListOk
  <2>2. CASE Top.why # "NextSimTime"
    <3>0. PICK w : w = Top.why
      OBVIOUS
    <3>1. j = Head(sim[w]) /\ sim[w] # << >> /\ sim[w] \in Seq(Ids)
      BY <1>0, <1>1, <1>3, <2>2, <3>0 DEF Left
    <3>2. j \in Ids /\ j \in Range(sim[w])
      BY <3>1, HeadTail, RangeTail
    <3>3. QED
      BY <1>3, <2>2, <3>0, <3>2 DEF SimOk
  <2>3. QED
    BY <2>1, <2>2
<1>5. /\ cb[j].why \in Simulator /\ cb[j].why \notin Sync /\ cb[j].calls = 0 /\ cb[j].st = "live"
      /\ cb[j].why = "NextSimTime" => now = cb[j].due + 1
  <2>1. cb[j].why = Top.why /\ cb[j].calls = 0 /\ cb[j].st = "live"
    BY <1>4 DEF Waits
  <2>2. now = (now - 1) + 1
    BY <1>3
  <2>3. QED
    BY <1>3, <1>4, <2>1, <2>2, Strings
<1>6. /\ \A x \in Ids : x # j => cb'[x] = cb[x]
      /\ cb[j].rtn => cb'[j].st = cb[j].st
      /\ ~ cb[j].rtn => cb'[j].calls = cb[j].calls
  BY <1>1, <1>3, <1>4, CalledOrFreed
<1>7. CASE i # j
  BY <1>6, <1>7, QuietShot DEF Quiet
<1>8. CASE i = j
  BY <1>5, <1>6, <1>8 DEF ShotOnce
<1>9. QED
  BY <1>7, <1>8

(* The routine of a one-shot callback is called once, at its time, and the *)
(* object is freed after the call, or unused when the callback was removed *)
(* (sync_cb::run_run, vpiNextSimTime and the lists of vpi_callback.cc).    *)
THEOREM ShotsRunOnce == Spec => OneShot
<1>1. ASSUME IInv, Next, NEW i \in Ids, cb[i].why \in Simulator \cup Sync
      PROVE  ShotOnce(i)
  <2>1. CASE Client \/ NextCallback \/ \E s \in Signals, b \in 1..2 : Assign(s, b)
    BY <1>1, <2>1, QuietSteps, QuietShot
  <2>2. CASE UNCHANGED cb
    BY <1>1, <2>2, QuietSteps, QuietShot
  <2>3. CASE \E j \in Ids : RunSync(j)
    BY <1>1, <2>3, RunSyncShot
  <2>4. CASE SyncReturns \/ ListRoutineReturns
    BY <1>1, <2>4, ReturnsShot
  <2>5. CASE NextOfList
    BY <1>1, <2>5, NextOfListShot
  <2>6. CASE CallbackReturns \/ WalkEnds \/ CallTask \/ TaskReturns
    BY <2>2, <2>6 DEF CallbackReturns, WalkEnds, CallTask, TaskReturns
  <2>7. CASE (\E r \in Simulator : RunList(r)) \/ ListEnds \/ Advance
    BY <2>2, <2>7 DEF RunList, ListEnds, Advance
  <2>8. QED
    BY <1>1, <2>1, <2>3, <2>4, <2>5, <2>6, <2>7 DEF Next
<1>2. IInv /\ [Next]_vars => [ShotStep]_vars
  BY <1>1 DEF ShotStep
<1>3. QED
  BY <1>2, CallbackInvariant, PTL DEF Spec, OneShot

-----------------------------------------------------------------------------
(* Whom the walks tell.  A callback is ahead of a walk if the walk comes   *)
(* to it along the links from where it is; a walk is doomed if what it     *)
(* holds in next is deleted, since its next turn reads it.                 *)

Ahead(n, f, i) == IsWalk(f) /\ i \in From(n, f.nxt)

(* The walks that have i ahead, counted from the outermost one. *)
Owed(s, n, i) == {d \in 1..Len(s) : Ahead(n, s[Len(s) + 1 - d], i)}

Doomed(c, s) ==
  \E k \in DOMAIN s : IsWalk(s[k]) /\ s[k].nxt # Null /\ c[s[k].nxt].st = "dead"

Listens(c, i) == c[i].st = "live" /\ c[i].why = "ValueChange"

(* What the routine of i has been told is the value of its signal, or a    *)
(* walk will call it; and it was called for every change but those whose   *)
(* walk has it ahead.                                                      *)
ToldOk(c, s, n, v, i) ==
  LET owed == Owed(s, n, i)
  IN  /\ c[i].value_bits_ = c[i].told
      /\ c[i].told = Part(v[c[i].sig], c[i].part) \/ owed # {}
      /\ IF c[i].part = 0 THEN c[i].calls + Cardinality(owed) = c[i].changes
                          ELSE c[i].calls + Cardinality(owed) <= c[i].changes

(* The links of the lists, which hold every callback that listens. *)
Chains ==
  /\ InLinks /\ \E rank \in [Ids -> Nat] : Ranked(rank, next, ops)
  /\ \A i \in Ids : Listens(cb, i) => cb[i].sig \in Signals /\ i \in List(cb[i].sig)

Tellings ==
  uaf \/ Doomed(cb, stack) \/
    \A i \in Ids : Listens(cb, i) /\ cb[i].rtn => ToldOk(cb, stack, next, value, i)

LInv == IInv /\ Chains /\ Tellings

-----------------------------------------------------------------------------
(* Facts about the links. *)

Closed(n, S) == \A z \in S : n[z] # Null => n[z] \in S

LEMMA FromWithin ==
  ASSUME NEW n, NEW x, NEW S \in SUBSET Ids, x # Null => x \in S, Closed(n, S)
  PROVE  From(n, x) \subseteq S
  BY DEF From, Closed

LEMMA FromSelf ==
  ASSUME NEW n, NEW x
  PROVE  /\ From(n, x) \subseteq Ids
         /\ x \in Ids /\ x # Null => x \in From(n, x)
  BY DEF From

LEMMA FromNull ==
  ASSUME NEW n
  PROVE  From(n, Null) = {}
<1>1. {} \in SUBSET Ids /\ Closed(n, {})
  BY DEF Closed
<1>2. From(n, Null) \subseteq {}
  BY <1>1, FromWithin
<1>3. QED
  BY <1>2

LEMMA FromClosed ==
  ASSUME NEW n \in [Ids -> OrNull], NEW x
  PROVE  Closed(n, From(n, x))
<1> SUFFICES ASSUME NEW z \in From(n, x), n[z] # Null PROVE n[z] \in From(n, x)
  BY DEF Closed
<1>1. z \in Ids /\ n[z] \in Ids
  BY DEF From, OrNull
<1>2. ASSUME NEW S \in SUBSET Ids, x # Null => x \in S,
             \A y \in S : n[y] # Null => n[y] \in S
      PROVE  n[z] \in S
  <2>1. z \in S
    BY <1>2 DEF From
  <2>2. QED
    BY <1>2, <2>1
<1>3. QED
  BY <1>1, <1>2 DEF From

LEMMA FromStep ==
  ASSUME NEW n \in [Ids -> OrNull], NEW x \in Ids
  PROVE  From(n, x) = {x} \cup From(n, n[x])
<1> DEFINE S == {x} \cup From(n, n[x])
<1>1. x # Null /\ n[x] \in OrNull /\ (n[x] # Null => n[x] \in Ids)
  BY CallbackAssumption DEF OrNull
<1>2. S \in SUBSET Ids /\ Closed(n, S)
  <2>1. From(n, n[x]) \subseteq Ids /\ Closed(n, From(n, n[x]))
    BY FromSelf, FromClosed
  <2>2. n[x] # Null => n[x] \in From(n, n[x])
    BY <1>1, FromSelf
  <2>3. QED
    BY <2>1, <2>2 DEF Closed
<1>3. From(n, x) \subseteq S
  BY <1>2, FromWithin
<1>4. x \in From(n, x) /\ From(n, x) \in SUBSET Ids /\ Closed(n, From(n, x))
  BY <1>1, FromSelf, FromClosed
<1>5. n[x] # Null => n[x] \in From(n, x)
  BY <1>4 DEF Closed
<1>6. From(n, n[x]) \subseteq From(n, x)
  BY <1>4, <1>5, FromWithin
<1>7. QED
  BY <1>3, <1>4, <1>6

(* Links lead down in rank, so nothing is behind itself. *)
LEMMA NotBehind ==
  ASSUME NEW n \in [Ids -> OrNull], NEW rank \in [Ids -> Nat], NEW m, Ranked(rank, n, m),
         NEW x \in Ids
  PROVE  x \notin From(n, n[x])
<1> DEFINE S == {y \in Ids : rank[y] < rank[x]}
<1>1. \A y \in Ids : n[y] # Null => n[y] \in Ids /\ rank[n[y]] < rank[y]
  BY DEF Ranked, OrNull
<1>2. \A y \in Ids : rank[y] \in Nat
  OBVIOUS
<1>3. ASSUME NEW z \in S, n[z] # Null PROVE n[z] \in S
  <2>1. n[z] \in Ids /\ rank[n[z]] < rank[z] /\ rank[z] < rank[x]
    BY <1>1, <1>3
  <2>2. QED
    BY <1>2, <2>1
<1>4. S \in SUBSET Ids /\ Closed(n, S) /\ (n[x] # Null => n[x] \in S)
  BY <1>1, <1>3 DEF Closed
<1>5. From(n, n[x]) \subseteq S
  BY <1>4, FromWithin
<1>6. x \notin S
  BY <1>2
<1>7. QED
  BY <1>5, <1>6

LEMMA FromAgree ==
  ASSUME NEW n \in [Ids -> OrNull], NEW m, NEW x \in OrNull,
         \A z \in From(n, x) : m[z] = n[z]
  PROVE  From(m, x) \subseteq From(n, x)
<1>1. From(n, x) \in SUBSET Ids /\ Closed(n, From(n, x)) /\ (x # Null => x \in From(n, x))
  BY FromSelf, FromClosed DEF OrNull
<1>2. Closed(m, From(n, x))
  BY <1>1 DEF Closed
<1>3. QED
  BY <1>1, <1>2, FromWithin

(* Nothing that leads to nobody is reached from elsewhere. *)
LEMMA NotReached ==
  ASSUME NEW n \in [Ids -> OrNull], NEW x \in OrNull, NEW i \in Ids, x # i,
         \A z \in From(n, x) : z # i => n[z] # i
  PROVE  i \notin From(n, x)
<1> DEFINE S == From(n, x) \ {i}
<1>1. From(n, x) \in SUBSET Ids /\ Closed(n, From(n, x)) /\ (x # Null => x \in From(n, x))
  BY FromSelf, FromClosed DEF OrNull
<1>2. S \in SUBSET Ids /\ Closed(n, S) /\ (x # Null => x \in S)
  BY <1>1 DEF Closed
<1>3. From(n, x) \subseteq S
  BY <1>2, FromWithin
<1>4. QED
  BY <1>3

(* A new callback is put in front. *)
LEMMA FromNew ==
  ASSUME NEW n \in [Ids -> OrNull], NEW m \in [Ids -> OrNull], NEW i \in Ids,
         \A z \in Ids : n[z] # i, \A z \in Ids : z # i => m[z] = n[z],
         NEW x \in OrNull, x # i
  PROVE  From(m, x) = From(n, x) /\ i \notin From(n, x)
<1>1. From(n, x) \subseteq Ids /\ From(m, x) \subseteq Ids
  BY FromSelf
<1>2. i \notin From(n, x)
  BY <1>1, NotReached
<1>3. i \notin From(m, x)
  BY <1>1, NotReached
<1>4. \A z \in From(n, x) \cup From(m, x) : m[z] = n[z]
  BY <1>1, <1>2, <1>3
<1>5. From(m, x) \subseteq From(n, x)
  BY <1>4, FromAgree
<1>6. From(n, x) \subseteq From(m, x)
  BY <1>4, FromAgree
<1>7. QED
  BY <1>2, <1>5, <1>6

(* A callback i is taken out behind p. *)
TakenOut(n, m, i, p) ==
  /\ n \in [Ids -> OrNull] /\ m \in [Ids -> OrNull] /\ i \in Ids /\ p \in OrNull
  /\ n[i] # i /\ p # i /\ (\A z \in Ids : z # p => n[z] # i) /\ (p # Null => n[p] = i)
  /\ m[i] = Null /\ (p # Null => m[p] = n[i])
  /\ \A z \in Ids : z # i /\ z # p => m[z] = n[z]

LEMMA FromReaped ==
  ASSUME NEW n, NEW m, NEW i, NEW p, TakenOut(n, m, i, p), NEW x \in OrNull, x # i
  PROVE  From(m, x) = From(n, x) \ {i}
<1> DEFINE N == From(n, x)
           M == From(m, x)
<1>0. /\ n \in [Ids -> OrNull] /\ m \in [Ids -> OrNull] /\ i \in Ids /\ p \in OrNull
      /\ n[i] # i /\ p # i /\ (\A z \in Ids : z # p => n[z] # i) /\ (p # Null => n[p] = i)
      /\ m[i] = Null /\ (p # Null => m[p] = n[i])
      /\ \A z \in Ids : z # i /\ z # p => m[z] = n[z]
  BY DEF TakenOut
<1>1. /\ N \in SUBSET Ids /\ Closed(n, N) /\ (x # Null => x \in N)
      /\ M \in SUBSET Ids /\ Closed(m, M) /\ (x # Null => x \in M)
  BY <1>0, FromSelf, FromClosed DEF OrNull
<1>2. i # Null /\ (p # Null => p \in Ids)
  BY <1>0, CallbackAssumption DEF OrNull
<1> HIDE DEF N, M
<1>3. M \subseteq N \ {i}
  <2>1. ASSUME NEW z \in N \ {i}, m[z] # Null PROVE m[z] \in N \ {i}
    <3>1. CASE z = p
      <4>1. z \in Ids /\ p # Null
        BY <1>0, <1>1, <1>2, <3>1, CallbackAssumption
      <4>2. n[z] = i /\ m[z] = n[i]
        BY <1>0, <3>1, <4>1
      <4>3. i \in N
        BY <1>0, <1>1, <1>2, <4>2 DEF Closed
      <4>4. QED
        BY <1>0, <1>1, <2>1, <4>2, <4>3 DEF Closed
    <3>2. CASE z # p
      BY <1>0, <1>1, <2>1, <3>2 DEF Closed
    <3>3. QED
      BY <1>0, <3>1, <3>2
  <2>2. N \ {i} \in SUBSET Ids /\ Closed(m, N \ {i}) /\ (x # Null => x \in N \ {i})
    BY <1>0, <1>1, <2>1 DEF Closed
  <2>3. QED
    BY <1>0, <2>2, FromWithin DEF M
<1>4. N \subseteq M \cup {i}
  <2>1. CASE p \in M
    <3>1. p # Null /\ (n[i] # Null => n[i] \in M)
      BY <1>0, <1>1, <2>1, CallbackAssumption DEF Closed
    <3>2. ASSUME NEW z \in M \cup {i}, n[z] # Null PROVE n[z] \in M \cup {i}
      <4>1. CASE z = i
        BY <1>0, <3>1, <3>2, <4>1
      <4>2. CASE z = p
        BY <1>0, <3>1, <4>2
      <4>3. CASE z # i /\ z # p
        <5>1. z \in M /\ z \in Ids /\ m[z] = n[z]
          BY <1>0, <1>1, <3>2, <4>3
        <5>2. QED
          BY <1>0, <1>1, <3>2, <5>1 DEF Closed
      <4>4. QED
        BY <1>0, <4>1, <4>2, <4>3
    <3>3. M \cup {i} \in SUBSET Ids /\ Closed(n, M \cup {i}) /\ (x # Null => x \in M \cup {i})
      BY <1>0, <1>1, <3>2 DEF Closed
    <3>4. QED
      BY <1>0, <3>3, FromWithin DEF N
  <2>2. CASE p \notin M
    <3>1. \A z \in M : z # i => m[z] = n[z] /\ m[z] # i
      BY <1>0, <1>1, <2>2
    <3>2. i \notin M
      BY <1>0, <3>1, NotReached DEF M
    <3>3. \A z \in M : n[z] = m[z]
      BY <1>0, <3>1, <3>2
    <3>4. N \subseteq M
      BY <1>0, <3>3, FromAgree DEF M, N
    <3>5. QED
      BY <1>0, <3>4
  <2>3. QED
    BY <1>0, <2>1, <2>2
<1>5. i \notin M
  BY <1>0, <1>3
<1>6. QED
  BY <1>0, <1>3, <1>4, <1>5 DEF M, N

-----------------------------------------------------------------------------
(* The walks that have a callback ahead. *)

LEMMA OwedFinite ==
  ASSUME NEW s \in Seq(FrameType), NEW n, NEW i
  PROVE  IsFiniteSet(Owed(s, n, i)) /\ Cardinality(Owed(s, n, i)) \in Nat
<1>1. Len(s) \in Nat
  OBVIOUS
<1>2. IsFiniteSet(1..Len(s))
  BY <1>1, FS_Interval
<1>3. Owed(s, n, i) \subseteq 1..Len(s)
  BY DEF Owed
<1>4. IsFiniteSet(Owed(s, n, i))
  BY <1>2, <1>3, FS_Subset
<1>5. QED
  BY <1>4, FS_CardinalityType

(* The innermost frame goes on and the others stay. *)
LEMMA OwedTop ==
  ASSUME NEW s \in Seq(FrameType), NEW t \in Seq(FrameType), s # << >>, Len(t) = Len(s),
         NEW n, NEW m, NEW i,
         \A k \in 2..Len(s) : Ahead(m, t[k], i) <=> Ahead(n, s[k], i)
  PROVE  /\ (Ahead(m, t[1], i) <=> Ahead(n, s[1], i)) => Owed(t, m, i) = Owed(s, n, i)
         /\ Ahead(n, s[1], i) /\ ~ Ahead(m, t[1], i) =>
              Cardinality(Owed(t, m, i)) = Cardinality(Owed(s, n, i)) - 1
<1> DEFINE L == Len(s)
           A == Owed(s, n, i)
           B == Owed(t, m, i)
<1>1. L \in Nat \ {0}
  OBVIOUS
<1>2. \A d \in 1..L : d # L => L + 1 - d \in 2..L
  BY <1>1
<1>3. L + 1 - L = 1 /\ L \in 1..L
  BY <1>1
<1>4. /\ \A d \in 1..L : d \in A <=> Ahead(n, s[L + 1 - d], i)
      /\ \A d \in 1..L : d \in B <=> Ahead(m, t[L + 1 - d], i)
      /\ A \subseteq 1..L /\ B \subseteq 1..L
  BY DEF Owed
<1>5. \A d \in 1..L : d # L => (d \in B <=> d \in A)
  BY <1>2, <1>4
<1>6. (L \in A <=> Ahead(n, s[1], i)) /\ (L \in B <=> Ahead(m, t[1], i))
  BY <1>3, <1>4
<1>7. IsFiniteSet(A)
  BY OwedFinite
<1> HIDE DEF A, B, L
<1>8. ASSUME Ahead(m, t[1], i) <=> Ahead(n, s[1], i) PROVE B = A
  BY <1>4, <1>5, <1>6, <1>8
<1>9. ASSUME Ahead(n, s[1], i), ~ Ahead(m, t[1], i)
      PROVE  Cardinality(B) = Cardinality(A) - 1
  <2>1. B = A \ {L} /\ L \in A
    BY <1>4, <1>5, <1>6, <1>9
  <2>2. QED
    BY <1>7, <2>1, FS_RemoveElement
<1>10. QED
  BY <1>8, <1>9 DEF A, B

(* A walk begins. *)
LEMMA OwedPush ==
  ASSUME NEW s \in Seq(FrameType), NEW t \in Seq(FrameType), Len(t) = Len(s) + 1,
         \A k \in 2..Len(t) : t[k] = s[k - 1], NEW n, NEW i
  PROVE  /\ ~ Ahead(n, t[1], i) => Owed(t, n, i) = Owed(s, n, i)
         /\ Ahead(n, t[1], i) =>
              /\ Cardinality(Owed(t, n, i)) = Cardinality(Owed(s, n, i)) + 1
              /\ Owed(t, n, i) # {}
<1> DEFINE L == Len(s)
           A == Owed(s, n, i)
           B == Owed(t, n, i)
<1>1. L \in Nat /\ Len(t) = L + 1
  OBVIOUS
<1>2. \A d \in 1..L : L + 2 - d \in 2..(L + 1) /\ (L + 2 - d) - 1 = L + 1 - d
  BY <1>1
<1>3. (L + 2) - (L + 1) = 1 /\ L + 1 \in 1..(L + 1) /\ L + 1 \notin 1..L
      /\ 1..(L + 1) = 1..L \cup {L + 1} /\ (L + 1) + 1 = L + 2
  BY <1>1
<1>4. /\ \A d \in 1..L : d \in A <=> Ahead(n, s[L + 1 - d], i)
      /\ \A d \in 1..(L + 1) : d \in B <=> Ahead(n, t[L + 2 - d], i)
      /\ A \subseteq 1..L /\ B \subseteq 1..(L + 1)
  BY <1>1, <1>3 DEF Owed
<1>5. ASSUME NEW d \in 1..L PROVE d \in B <=> d \in A
  <2>1. t[L + 2 - d] = s[L + 1 - d]
    BY <1>1, <1>2
  <2>2. QED
    BY <1>3, <1>4, <2>1
<1>6. L + 1 \in B <=> Ahead(n, t[1], i)
  BY <1>3, <1>4
<1>7. IsFiniteSet(A)
  BY OwedFinite
<1> HIDE DEF A, B, L
<1>8. ASSUME ~ Ahead(n, t[1], i) PROVE B = A
  BY <1>3, <1>4, <1>5, <1>6, <1>8
<1>9. ASSUME Ahead(n, t[1], i)
      PROVE  Cardinality(B) = Cardinality(A) + 1 /\ B # {}
  <2>1. B = A \cup {L + 1} /\ L + 1 \notin A
    BY <1>3, <1>4, <1>5, <1>6, <1>9
  <2>2. QED
    BY <1>7, <2>1, FS_AddElement
<1>10. QED
  BY <1>8, <1>9 DEF A, B

LEMMA OwedNone ==
  ASSUME NEW s \in Seq(FrameType), \A k \in DOMAIN s : ~ IsWalk(s[k]), NEW n, NEW i
  PROVE  Owed(s, n, i) = {}
<1>1. \A d \in 1..Len(s) : Len(s) + 1 - d \in DOMAIN s
  OBVIOUS
<1>2. QED
  BY <1>1 DEF Owed, Ahead


-----------------------------------------------------------------------------
(* Steps that leave the links alone. *)

LEMMA Linked ==
  ASSUME IInv
  PROVE  /\ \A s \in Signals : head[s] \in OrNull /\ (head[s] # Null => Of(cb, head[s], s))
         /\ \A i \in Ids : next[i] # Null => /\ cb[i].st = "live" /\ cb[i].why = "ValueChange"
                                             /\ Of(cb, next[i], cb[i].sig)
         /\ next \in [Ids -> OrNull] /\ cb \in [Ids -> CallbackType] /\ Null \notin Ids
  BY CallbackAssumption DEF IInv, Types, ListsOk

LEMMA RankKept ==
  ASSUME IInv, IInv', ops <= ops', NEW rank \in [Ids -> Nat], Ranked(rank, next, ops)
  PROVE  Ranked(rank, next, ops')
<1>1. ops \in Nat /\ ops' \in Nat /\ \A i \in Ids : rank[i] \in Nat
  BY CallbackAssumption DEF IInv, Types
<1>2. QED
  BY <1>1 DEF Ranked

LEMMA ChainsKept ==
  ASSUME IInv, IInv', Chains, VcKept(cb, cb'), ops <= ops', UNCHANGED <<head, next>>,
         \A x \in Ids : Listens(cb', x) => Listens(cb, x) /\ cb'[x].sig = cb[x].sig
  PROVE  Chains'
<1>1. InLinks'
  BY ListsKept DEF Chains
<1>2. \E rank \in [Ids -> Nat] : Ranked(rank, next', ops')
  BY RankKept DEF Chains
<1>3. \A i \in Ids : Listens(cb', i) =>
        cb'[i].sig \in Signals /\ i \in From(next', head'[cb'[i].sig])
  BY DEF Chains, List
<1>4. QED
  BY <1>1, <1>2, <1>3 DEF Chains, List

LEMMA WalkFrames ==
  ASSUME IInv, NEW k \in DOMAIN stack, IsWalk(stack[k])
  PROVE  /\ stack[k] \in FrameType /\ stack[k].nxt \in OrNull /\ stack[k].sig \in Signals
         /\ stack[k].nxt # Null => stack[k].nxt \in Ids /\ Of(cb, stack[k].nxt, stack[k].sig)
<1>1. stack[k] \in FrameType /\ WalkOk(cb, head, next, stack[k])
  BY StackTypes DEF IInv, Walks
<1>2. QED
  BY <1>1, FrameFields DEF WalkOk, OrNull

(* Only callbacks that do not listen to a signal change. *)
Apart(c, d) ==
  \A x \in Ids : d[x] = c[x] \/ (c[x].why # "ValueChange" /\ d[x].why # "ValueChange")

NoWalk(s) == \A k \in DOMAIN s : ~ IsWalk(s[k])

LEMMA ApartStep ==
  ASSUME LInv, IInv', Apart(cb, cb'), UNCHANGED <<head, next, value, uaf>>, ops <= ops',
         stack' = stack \/ (NoWalk(stack) /\ NoWalk(stack'))
  PROVE  LInv'
<1>1. IInv /\ Chains /\ Tellings
  BY DEF LInv
<1>2. \A x \in Ids : Listens(cb', x) => cb'[x] = cb[x] /\ Listens(cb, x)
  BY DEF Apart, Listens
<1>3. InLinks'
  <2>1. \A x \in Ids : \A s : Of(cb, x, s) => cb'[x] = cb[x]
    BY DEF Apart, Of
  <2>2. \A s \in Signals : head[s] # Null => head[s] \in Ids /\ cb'[head[s]] = cb[head[s]]
    BY <1>1, <2>1, Linked DEF OrNull
  <2>3. \A i \in Ids : next[i] # Null => next[i] \in Ids /\ cb'[next[i]] = cb[next[i]]
    BY <1>1, <2>1, Linked DEF OrNull
  <2>4. QED
    BY <1>1, <2>2, <2>3 DEF Chains, InLinks
<1>4. Chains'
  <2>1. \E rank \in [Ids -> Nat] : Ranked(rank, next', ops')
    BY <1>1, RankKept DEF Chains
  <2>2. \A i \in Ids : Listens(cb', i) =>
          cb'[i].sig \in Signals /\ i \in From(next', head'[cb'[i].sig])
    BY <1>1, <1>2 DEF Chains, List
  <2>3. QED
    BY <1>3, <2>1, <2>2 DEF Chains, List
<1>5. Doomed(cb, stack) => Doomed(cb', stack')
  <2>1. CASE stack' = stack
    <3>1. \A k \in DOMAIN stack : IsWalk(stack[k]) /\ stack[k].nxt # Null =>
            cb'[stack[k].nxt] = cb[stack[k].nxt]
      BY <1>1, WalkFrames DEF Apart, Of
    <3>2. QED
      BY <2>1, <3>1 DEF Doomed
  <2>2. CASE NoWalk(stack)
    BY <2>2 DEF Doomed, NoWalk
  <2>3. QED
    BY <2>1, <2>2
<1>6. \A i : Owed(stack', next, i) = Owed(stack, next, i)
  <2>1. CASE NoWalk(stack) /\ NoWalk(stack')
    <3>1. stack \in Seq(FrameType) /\ stack' \in Seq(FrameType)
      BY <1>1 DEF IInv, Types
    <3>2. QED
      BY <2>1, <3>1, OwedNone DEF NoWalk
  <2>2. QED
    BY <2>1
<1>7. \A i \in Ids : Listens(cb', i) /\ ToldOk(cb, stack, next, value, i) =>
        ToldOk(cb', stack', next, value, i)
  BY <1>2, <1>6 DEF ToldOk
<1>8. Tellings'
  BY <1>1, <1>2, <1>5, <1>7 DEF Tellings
<1>9. QED
  BY <1>4, <1>8 DEF LInv

LEMMA SoloStacks ==
  ASSUME NEW g, ~ IsWalk(g)
  PROVE  NoWalk(<< >>) /\ NoWalk(<<g>>)
<1>1. DOMAIN <<g>> = {1} /\ <<g>>[1] = g
  OBVIOUS
<1>2. QED
  BY <1>1 DEF NoWalk

LEMMA ApartOne ==
  ASSUME NEW j \in Ids, cb[j].why # "ValueChange", cb'[j].why # "ValueChange",
         \A x \in Ids : x # j => cb'[x] = cb[x]
  PROVE  Apart(cb, cb')
  BY DEF Apart

(* The one-shot callbacks and the calls of the scheduler. *)
LEMMA NewKind ==
  ASSUME LInv, IInv', NEW i \in Ids, NEW r, cb[i] = Unused, r.why # "ValueChange",
         cb' = [cb EXCEPT ![i] = r], ops' = ops + 1, UNCHANGED <<head, next, value, stack, uaf>>
  PROVE  LInv'
<1>1. cb \in [Ids -> CallbackType] /\ ops \in Int
  BY DEF LInv, IInv, Types
<1>2. cb[i].why # "ValueChange" /\ cb'[i] = r /\ \A x \in Ids : x # i => cb'[x] = cb[x]
  <2>1. Unused.why # "ValueChange"
    BY DEF Unused
  <2>2. QED
    BY <1>1, <2>1
<1>3. Apart(cb, cb')
  BY <1>2, ApartOne
<1>4. ops <= ops'
  BY <1>1
<1>5. QED
  BY <1>3, <1>4, ApartStep

LEMMA OneShotTold ==
  ASSUME LInv, IInv',
         \/ \E i \in Ids, r \in Reasons, d \in 0..MaxTime : make_sync(i, r, d)
         \/ \E i \in Ids, r \in Reasons : make_prepost(i, r)
  PROVE  LInv'
<1>1. \A why \in Simulator \cup Sync : \A d : Callback(why, Null, 0, d).why # "ValueChange"
  BY Strings DEF Callback
<1>2. CASE \E i \in Ids, r \in Reasons, d \in 0..MaxTime : make_sync(i, r, d)
  <2>1. PICK i \in Ids, r \in Reasons, d \in 0..MaxTime : make_sync(i, r, d)
    BY <1>2
  <2>2. PICK c : c = Callback(r, Null, 0, d)
    OBVIOUS
  <2>3. /\ cb[i] = Unused /\ c.why # "ValueChange" /\ cb' = [cb EXCEPT ![i] = c]
        /\ ops' = ops + 1 /\ UNCHANGED <<head, next, value, stack, uaf>>
    BY <1>1, <2>1, <2>2 DEF make_sync, Call
  <2>4. QED
    BY <2>3, NewKind
<1>3. CASE \E i \in Ids, r \in Reasons : make_prepost(i, r)
  <2>1. PICK i \in Ids, r \in Reasons : make_prepost(i, r)
    BY <1>3
  <2>2. PICK c : c = Callback(r, Null, 0, now)
    OBVIOUS
  <2>3. /\ cb[i] = Unused /\ c.why # "ValueChange" /\ cb' = [cb EXCEPT ![i] = c]
        /\ ops' = ops + 1 /\ UNCHANGED <<head, next, value, stack, uaf>>
    BY <1>1, <2>1, <2>2 DEF make_prepost, Call
  <2>4. QED
    BY <2>3, NewKind
<1>4. QED
  BY <1>2, <1>3

LEMMA SoloTold ==
  ASSUME LInv, IInv', Apart(cb, cb'), UNCHANGED <<head, next, value, ops, uaf>>,
         stack = << >> \/ ~ IsWalk(Top), stack' = << >> \/ ~ IsWalk(Top')
  PROVE  LInv'
<1>1. IInv /\ IInv'
  BY DEF LInv
<1>2. NoWalk(stack)
  <2>1. CASE stack # << >>
    <3>1. stack = <<Top>> /\ ~ IsWalk(Top)
      BY <1>1, <2>1, Alone
    <3>2. QED
      BY <3>1, SoloStacks
  <2>2. QED
    BY <2>1 DEF NoWalk
<1>3. NoWalk(stack')
  <2>1. CASE stack' # << >>
    <3>1. /\ stack' \in Seq(FrameType) /\ Nested' /\ Top' = Head(stack')
      BY DEF IInv, Types, Top
    <3>2. /\ Len(stack') \in Nat /\ DOMAIN stack' = 1..Len(stack') /\ 1 \in DOMAIN stack'
          /\ Top' = stack'[1]
      BY <2>1, <3>1
    <3>3. Len(stack') = 1
      <4>1. ~ 1 < Len(stack')
        BY <2>1, <3>2 DEF IInv, Nested
      <4>2. QED
        BY <3>2, <4>1
    <3>4. QED
      BY <2>1, <3>2, <3>3 DEF NoWalk
  <2>2. QED
    BY <2>1 DEF NoWalk
<1>4. ops <= ops'
  BY <1>1 DEF IInv, Types
<1>5. QED
  BY <1>2, <1>3, <1>4, ApartStep

LEMMA SchedulerTold ==
  ASSUME LInv, IInv',
         \/ CallTask \/ TaskReturns \/ SyncReturns \/ NextOfList \/ ListRoutineReturns \/ ListEnds
         \/ Advance
         \/ \E i \in Ids : RunSync(i)
         \/ \E r \in Simulator : RunList(r)
  PROVE  LInv'
<1>0. /\ IInv /\ mode \in Modes /\ cb \in [Ids -> CallbackType] /\ stack \in Seq(FrameType)
      /\ stack = << >> => mode = "NONE"
  BY DEF LInv, IInv, Types, ModeOk
<1>1. ASSUME NEW f PROVE Head(<<f>> \o << >>) = f
  OBVIOUS
<1>2. Apart(cb, cb)
  BY DEF Apart
<1>3. CASE CallTask
  <2>1. PICK f, m : /\ f = [Frame("calltf", "", << >>, Null, Null) EXCEPT !.run = TRUE]
                    /\ m = IF phase = "load" THEN "COMPILETF" ELSE "CALLTF"
    OBVIOUS
  <2>2. f.fn = "calltf"
    BY <2>1 DEF Frame
  <2>3. stack = << >> /\ stack' = <<f>> \o << >> /\ UNCHANGED <<cb, head, next, value, ops, uaf>>
    BY <1>0, <1>3, <2>1 DEF CallTask, Idle, Enter
  <2>4. QED
    BY <1>1, <1>2, <2>2, <2>3, SoloTold DEF IsWalk, Top
<1>4. CASE TaskReturns \/ ListEnds
  <2>1. /\ stack # << >> /\ ~ IsWalk(Top) /\ stack' = Tail(stack)
        /\ UNCHANGED <<cb, head, next, value, ops, uaf>>
    BY <1>4 DEF TaskReturns, ListEnds, In, IsWalk
  <2>2. stack' = << >>
    BY <1>0, <2>1, Alone
  <2>3. QED
    BY <1>2, <2>1, <2>2, SoloTold
<1>5. CASE Advance
  <2>1. stack = << >> /\ UNCHANGED <<stack, cb, head, next, value, ops, uaf>>
    BY <1>5 DEF Advance, Idle
  <2>2. QED
    BY <1>2, <2>1, SoloTold
<1>6. CASE \E r \in Simulator : RunList(r)
  <2>1. PICK r \in Simulator : RunList(r)
    BY <1>6
  <2>2. PICK l : l = IF r = "NextSimTime" THEN sim[r] ELSE << >>
    OBVIOUS
  <2>3. PICK f, m : /\ f = Frame("list", r, l, Null, Null)
                    /\ m = IF r = "EndOfSimulation" THEN "ROSYNC" ELSE "RWSYNC"
    OBVIOUS
  <2>4. f.fn = "list"
    BY <2>3 DEF Frame
  <2>5. stack = << >> /\ stack' = <<f>> \o << >> /\ UNCHANGED <<cb, head, next, value, ops, uaf>>
    BY <1>0, <2>1, <2>2, <2>3 DEF RunList, Idle, Enter
  <2>6. QED
    BY <1>1, <1>2, <2>4, <2>5, SoloTold DEF IsWalk, Top
<1>7. CASE \E i \in Ids : RunSync(i)
  <2>1. PICK i \in Ids : RunSync(i)
    BY <1>7
  <2>2. PICK f, m : /\ f = [Frame("sync_cb", "", << >>, Null, Null) EXCEPT !.cur = i, !.run = TRUE]
                    /\ m = IF Region(cb[i].why) = "ro" THEN "ROSYNC" ELSE "RWSYNC"
    OBVIOUS
  <2>3. f.fn = "sync_cb"
    BY <2>2 DEF Frame
  <2>4. /\ stack = << >> /\ (stack' = stack \/ stack' = <<f>> \o << >>)
        /\ cb' = IF cb[i].rtn THEN [cb EXCEPT ![i].calls = @ + 1] ELSE [cb EXCEPT ![i].st = "dead"]
        /\ Region(cb[i].why) \in {"start", "active", "rw", "ro"}
        /\ UNCHANGED <<head, next, value, ops, uaf>>
    BY <1>0, <2>1, <2>2 DEF RunSync, Idle, Enter, Delete
  <2>5. cb[i].why # "ValueChange"
    BY <2>4 DEF Region
  <2>6. cb'[i].why = cb[i].why /\ \A x \in Ids : x # i => cb'[x] = cb[x]
    BY <1>0, <2>4, CallsFacts, DeleteFacts
  <2>7. Apart(cb, cb')
    BY <2>5, <2>6, ApartOne
  <2>8. stack' = << >> \/ ~ IsWalk(Top')
    BY <1>1, <2>3, <2>4 DEF IsWalk, Top
  <2>9. QED
    BY <2>4, <2>7, <2>8, SoloTold
<1>8. CASE SyncReturns \/ ListRoutineReturns
  <2>1. PICK i : i = Top.cur
    OBVIOUS
  <2>2. /\ stack # << >> /\ ~ IsWalk(Top) /\ cb' = [cb EXCEPT ![i].st = "dead"]
        /\ (Top.fn = "sync_cb" /\ stack' = Tail(stack)) \/
           (Top.fn = "list" /\ Top.run
              /\ stack' = WithTop([Top EXCEPT !.run = FALSE, !.cur = Null]))
        /\ UNCHANGED <<head, next, value, ops, uaf>>
    BY <1>8, <2>1 DEF SyncReturns, ListRoutineReturns, In, IsWalk, Delete
  <2>3. /\ Tail(stack) = << >> /\ Top \in FrameType /\ \A g : WithTop(g) = <<g>>
        /\ OuterOk(cb, sim["NextSimTime"], now, phase, Top)
    BY <1>0, <2>2, Alone
  <2>4. i \in Ids /\ cb[i].why \in Simulator \cup Sync
    BY <2>1, <2>2, <2>3 DEF OuterOk, SyncOk, ListOk
  <2>5. cb'[i].why = cb[i].why /\ \A x \in Ids : x # i => cb'[x] = cb[x]
    BY <1>0, <2>2, <2>4, DeleteFacts
  <2>6. Apart(cb, cb')
    BY <2>4, <2>5, ApartOne, Strings
  <2>7. stack' = << >> \/ ~ IsWalk(Top')
    <3>1. CASE stack' = Tail(stack)
      BY <2>3, <3>1
    <3>2. CASE Top.fn = "list" /\ stack' = WithTop([Top EXCEPT !.run = FALSE, !.cur = Null])
      <4>1. PICK g : g = [Top EXCEPT !.run = FALSE, !.cur = Null]
        OBVIOUS
      <4>2. g.fn = "list"
        BY <2>3, <3>2, <4>1 DEF FrameType
      <4>3. stack' = <<g>>
        BY <2>3, <3>2, <4>1
      <4>4. QED
        BY <4>2, <4>3 DEF IsWalk, Top
    <3>3. QED
      BY <2>2, <3>1, <3>2
  <2>8. QED
    BY <2>2, <2>6, <2>7, SoloTold
<1>9. CASE NextOfList
  <2>1. PICK i, f : /\ i = Head(Left)
                    /\ f = IF Top.why = "NextSimTime" THEN [Top EXCEPT !.rest = Tail(@)] ELSE Top
    OBVIOUS
  <2>2. /\ stack # << >> /\ ~ IsWalk(Top) /\ Top.fn = "list" /\ Left # << >>
        /\ stack' = WithTop(IF cb[i].rtn THEN [f EXCEPT !.cur = i, !.run = TRUE] ELSE f)
        /\ cb' = IF cb[i].rtn THEN [cb EXCEPT ![i].calls = @ + 1] ELSE [cb EXCEPT ![i].st = "dead"]
        /\ UNCHANGED <<head, next, value, ops, uaf>>
    BY <1>9, <2>1 DEF NextOfList, In, IsWalk, Delete
  <2>3. /\ Top \in FrameType /\ \A g : WithTop(g) = <<g>>
        /\ OuterOk(cb, sim["NextSimTime"], now, phase, Top)
    BY <1>0, <2>2, Alone
  <2>4. ListOk(cb, sim["NextSimTime"], now, Top) /\ Top.why \in Simulator
    BY <2>2, <2>3 DEF OuterOk, ListOk
  <2>5. i \in Ids /\ cb[i].why \in Simulator
    <3>1. Top.rest \in Seq(Ids) /\ sim \in [Simulator -> Seq(Ids)] /\ SimOk
      BY <1>0, <2>3, FrameFields DEF IInv, Types
    <3>2. Left \in Seq(Ids)
      BY <2>4, <3>1 DEF Left
    <3>3. i \in Ids /\ i \in Range(Left)
      BY <2>1, <2>2, <3>2, HeadTail, RangeTail
    <3>4. CASE Top.why = "NextSimTime"
      <4>1. Waits(cb, i, "NextSimTime")
        BY <2>4, <3>3, <3>4 DEF Left, ListOk
      <4>2. QED
        BY <2>4, <3>3, <3>4, <4>1 DEF Waits
    <3>5. CASE Top.why # "NextSimTime"
      <4>1. Waits(cb, i, Top.why)
        BY <2>4, <3>1, <3>3, <3>5 DEF Left, SimOk
      <4>2. QED
        BY <2>4, <3>3, <4>1 DEF Waits
    <3>6. QED
      BY <3>4, <3>5
  <2>6. cb'[i].why = cb[i].why /\ \A x \in Ids : x # i => cb'[x] = cb[x]
    BY <1>0, <2>2, <2>5, CallsFacts, DeleteFacts
  <2>7. Apart(cb, cb')
    BY <2>5, <2>6, ApartOne, Strings
  <2>8. PICK g : g = IF cb[i].rtn THEN [f EXCEPT !.cur = i, !.run = TRUE] ELSE f
    OBVIOUS
  <2>9. g.fn = "list" /\ stack' = <<g>>
    <3>1. f.fn = "list" /\ [f EXCEPT !.cur = i, !.run = TRUE].fn = f.fn
      BY <2>1, <2>2, <2>3 DEF FrameType
    <3>2. QED
      BY <2>2, <2>3, <2>8, <3>1
  <2>10. ~ IsWalk(Top')
    BY <2>9 DEF IsWalk, Top
  <2>11. QED
    BY <2>2, <2>7, <2>10, SoloTold
<1>10. QED
  BY <1>3, <1>4, <1>5, <1>6, <1>7, <1>8, <1>9

-----------------------------------------------------------------------------
(* Walks go on. *)

LEMMA DoomedKept ==
  ASSUME IInv, VcKept(cb, cb'), Doomed(cb, stack),
         \A k \in DOMAIN stack :
           IsWalk(stack[k]) /\ stack[k].nxt # Null /\ cb[stack[k].nxt].st = "dead" =>
             \E m \in DOMAIN stack' : IsWalk(stack'[m]) /\ stack'[m].nxt = stack[k].nxt
  PROVE  Doomed(cb', stack')
<1>1. PICK k \in DOMAIN stack :
        IsWalk(stack[k]) /\ stack[k].nxt # Null /\ cb[stack[k].nxt].st = "dead"
  BY DEF Doomed
<1>2. PICK m \in DOMAIN stack' : IsWalk(stack'[m]) /\ stack'[m].nxt = stack[k].nxt
  BY <1>1
<1>3. stack[k].nxt \in Ids /\ Of(cb, stack[k].nxt, stack[k].sig)
  BY <1>1, WalkFrames
<1>4. cb'[stack[k].nxt].st = "dead"
  BY <1>1, <1>3 DEF VcKept, Of
<1>5. QED
  BY <1>1, <1>2, <1>4 DEF Doomed

LEMMA RemoveTold ==
  ASSUME LInv, IInv', NEW i \in Ids, vpi_remove_cb(i)
  PROVE  LInv'
<1>1. IInv /\ Chains /\ Tellings /\ cb \in [Ids -> CallbackType] /\ ops \in Int
  BY DEF LInv, IInv, Types
<1>2. /\ cb' = [cb EXCEPT ![i].rtn = FALSE] /\ ops' = ops + 1
      /\ UNCHANGED <<head, next, value, stack, uaf>>
  BY DEF vpi_remove_cb, Call
<1>3. /\ \A x \in Ids : x # i => cb'[x] = cb[x]
      /\ cb'[i].st = cb[i].st /\ cb'[i].why = cb[i].why /\ cb'[i].sig = cb[i].sig
  BY <1>1, <1>2, RemoveFacts
<1>4. ~ cb'[i].rtn
  <2>1. cb[i] \in CallbackType
    BY <1>1
  <2>2. cb'[i] = [cb[i] EXCEPT !.rtn = FALSE]
    BY <1>1, <1>2
  <2>3. QED
    BY <2>1, <2>2 DEF CallbackType
<1>5. VcKept(cb, cb') /\ ops <= ops'
  BY <1>1, <1>2, <1>3 DEF VcKept
<1>6. \A x \in Ids : Listens(cb', x) => Listens(cb, x) /\ cb'[x].sig = cb[x].sig
  BY <1>3 DEF Listens
<1>7. Chains'
  BY <1>1, <1>2, <1>5, <1>6, ChainsKept
<1>8. Doomed(cb, stack) => Doomed(cb', stack')
  BY <1>1, <1>2, <1>5, DoomedKept
<1>9. \A x \in Ids : cb'[x].rtn => cb'[x] = cb[x]
  BY <1>3, <1>4
<1>10. \A x \in Ids : cb'[x] = cb[x] /\ ToldOk(cb, stack, next, value, x) =>
         ToldOk(cb', stack, next, value, x)
  BY DEF ToldOk
<1>11. Tellings'
  BY <1>1, <1>2, <1>6, <1>8, <1>9, <1>10 DEF Tellings
<1>12. QED
  BY <1>7, <1>11 DEF LInv

LEMMA ReturnsTold ==
  ASSUME LInv, IInv', CallbackReturns
  PROVE  LInv'
<1>0. PICK g : g = [Top EXCEPT !.run = FALSE, !.prev = Top.cur, !.cur = Null]
  OBVIOUS
<1>1. /\ stack # << >> /\ Top.fn = "run_vpi_callbacks" /\ stack' = WithTop(g)
      /\ UNCHANGED <<cb, head, next, value, ops, uaf>>
  BY <1>0 DEF CallbackReturns, In
<1>2. IInv /\ Chains /\ Tellings /\ ops \in Int
  BY DEF LInv, IInv, Types
<1>3. Top \in FrameType /\ Top = stack[1] /\ stack \in Seq(FrameType)
  BY <1>1, <1>2, StackTypes
<1>4. g \in FrameType /\ g.fn = Top.fn /\ g.nxt = Top.nxt
  <2>1. Top.cur \in OrNull
    BY <1>3 DEF FrameType
  <2>2. QED
    BY <1>0, <1>3, <2>1 DEF FrameType, OrNull
<1>5. /\ stack' \in Seq(FrameType) /\ Len(stack') = Len(stack) /\ DOMAIN stack' = DOMAIN stack
      /\ stack'[1] = g /\ \A k \in DOMAIN stack : k # 1 => stack'[k] = stack[k]
  BY <1>1, <1>2, <1>4, TopReplaced
<1>6. \A k \in DOMAIN stack : /\ IsWalk(stack'[k]) <=> IsWalk(stack[k])
                              /\ stack'[k].nxt = stack[k].nxt
  BY <1>3, <1>4, <1>5 DEF IsWalk
<1>7. ASSUME NEW x PROVE Owed(stack', next, x) = Owed(stack, next, x)
  <2>1. \A k \in 1..Len(stack) : k \in DOMAIN stack
    BY <1>3
  <2>2. \A k \in DOMAIN stack : Ahead(next, stack'[k], x) <=> Ahead(next, stack[k], x)
    BY <1>6 DEF Ahead
  <2>3. \A d \in 1..Len(stack) : Len(stack) + 1 - d \in DOMAIN stack
    BY <1>3
  <2>4. QED
    BY <1>5, <2>2, <2>3 DEF Owed
<1>8. \A x \in Ids : ToldOk(cb, stack, next, value, x) => ToldOk(cb', stack', next', value', x)
  BY <1>1, <1>7 DEF ToldOk
<1>9. VcKept(cb, cb') /\ ops <= ops'
  BY <1>1, <1>2, SameKept
<1>10. Doomed(cb, stack) => Doomed(cb', stack')
  BY <1>2, <1>5, <1>6, <1>9, DoomedKept
<1>11. Tellings'
  BY <1>1, <1>2, <1>8, <1>10 DEF Tellings
<1>12. Chains'
  BY <1>1, <1>2, <1>9, ChainsKept
<1>13. QED
  BY <1>11, <1>12 DEF LInv

LEMMA WalkEndsTold ==
  ASSUME LInv, IInv', WalkEnds
  PROVE  LInv'
<1>1. /\ stack # << >> /\ Top.nxt = Null /\ stack' = Tail(stack)
      /\ UNCHANGED <<cb, head, next, value, ops, uaf>>
  BY DEF WalkEnds, In
<1>2. IInv /\ Chains /\ Tellings /\ ops \in Int
  BY DEF LInv, IInv, Types
<1>3. /\ Top \in FrameType /\ Top = stack[1] /\ stack \in Seq(FrameType)
      /\ Len(stack) \in Nat /\ DOMAIN stack = 1..Len(stack)
  BY <1>1, <1>2, StackTypes
<1>4. /\ stack' \in Seq(FrameType) /\ DOMAIN stack' = 1..(Len(stack) - 1)
      /\ Len(stack') = Len(stack) - 1
      /\ \A k \in DOMAIN stack' : k + 1 \in DOMAIN stack /\ stack'[k] = stack[k + 1]
  BY <1>1, <1>2, Popped
<1>5. \A k \in DOMAIN stack : k # 1 => k - 1 \in DOMAIN stack' /\ stack'[k - 1] = stack[k]
  BY <1>3, <1>4
<1>6. ASSUME NEW x PROVE Owed(stack', next, x) = Owed(stack, next, x)
  <2>1. ~ Ahead(next, stack[1], x)
    BY <1>1, <1>3, FromNull DEF Ahead
  <2>2. \A k \in 2..Len(stack) : stack[k] = stack'[k - 1]
    BY <1>3, <1>5
  <2>3. Len(stack) = Len(stack') + 1
    BY <1>3, <1>4
  <2>4. QED
    BY <1>3, <1>4, <2>1, <2>2, <2>3, OwedPush
<1>7. \A x \in Ids : ToldOk(cb, stack, next, value, x) => ToldOk(cb', stack', next', value', x)
  BY <1>1, <1>6 DEF ToldOk
<1>8. VcKept(cb, cb') /\ ops <= ops'
  BY <1>1, <1>2, SameKept
<1>9. Doomed(cb, stack) => Doomed(cb', stack')
  <2>1. \A k \in DOMAIN stack : stack[k].nxt # Null => k # 1
    BY <1>1, <1>3
  <2>2. QED
    BY <1>2, <1>5, <1>8, <2>1, DoomedKept
<1>10. Tellings'
  BY <1>1, <1>2, <1>7, <1>9 DEF Tellings
<1>11. Chains'
  BY <1>1, <1>2, <1>8, ChainsKept
<1>12. QED
  BY <1>10, <1>11 DEF LInv

(* A turn of the innermost walk: it has one callback less ahead. *)
LEMMA TurnOwed ==
  ASSUME LInv, In("run_vpi_callbacks"), ~ Top.run, Top.nxt # Null, NEW g \in FrameType,
         IsWalk(g), g.nxt = next[Top.nxt], stack' = WithTop(g)
  PROVE  /\ \A x \in Ids : x # Top.nxt => Owed(stack', next, x) = Owed(stack, next, x)
         /\ Cardinality(Owed(stack', next, Top.nxt)) = Cardinality(Owed(stack, next, Top.nxt)) - 1
         /\ cb[Top.nxt].st = "live" /\ VcKept(cb, cb') /\ Doomed(cb, stack) => Doomed(cb', stack')
<1>1. IInv /\ Chains
  BY DEF LInv
<1>2. PICK i : i = Top.nxt
  OBVIOUS
<1>3. /\ stack # << >> /\ Top = stack[1] /\ IsWalk(Top) /\ i \in Ids /\ 1 \in DOMAIN stack
  BY <1>1, <1>2, TurnFacts
<1>4. stack \in Seq(FrameType) /\ DOMAIN stack = 1..Len(stack) /\ next \in [Ids -> OrNull]
  BY <1>1, StackTypes DEF IInv, Types
<1>5. /\ stack' \in Seq(FrameType) /\ Len(stack') = Len(stack) /\ DOMAIN stack' = DOMAIN stack
      /\ stack'[1] = g /\ \A k \in DOMAIN stack : k # 1 => stack'[k] = stack[k]
  BY <1>1, <1>3, TopReplaced
<1>6. \A k \in 2..Len(stack) : stack'[k] = stack[k]
  BY <1>4, <1>5
<1>7. From(next, i) = {i} \cup From(next, next[i])
  BY <1>3, <1>4, FromStep
<1>8. i \notin From(next, next[i])
  BY <1>1, <1>3, <1>4, NotBehind DEF Chains
<1>9. ASSUME NEW x \in Ids, x # i PROVE Owed(stack', next, x) = Owed(stack, next, x)
  <2>1. Ahead(next, stack'[1], x) <=> Ahead(next, stack[1], x)
    BY <1>2, <1>3, <1>5, <1>7, <1>9 DEF Ahead
  <2>2. QED
    BY <1>3, <1>4, <1>5, <1>6, <2>1, OwedTop
<1>10. Cardinality(Owed(stack', next, i)) = Cardinality(Owed(stack, next, i)) - 1
  <2>1. Ahead(next, stack[1], i) /\ ~ Ahead(next, stack'[1], i)
    BY <1>2, <1>3, <1>5, <1>7, <1>8 DEF Ahead
  <2>2. QED
    BY <1>3, <1>4, <1>5, <1>6, <2>1, OwedTop
<1>11. ASSUME cb[i].st = "live", VcKept(cb, cb'), Doomed(cb, stack) PROVE Doomed(cb', stack')
  <2>1. \A k \in DOMAIN stack : cb[stack[k].nxt].st = "dead" => k # 1
    BY <1>2, <1>3, <1>11
  <2>2. QED
    BY <1>1, <1>5, <1>11, <2>1, DoomedKept
<1>12. QED
  BY <1>2, <1>9, <1>10, <1>11

(* The callback is on a part of the signal that has not changed since its  *)
(* routine was called.                                                     *)
LEMMA SkipTold ==
  ASSUME LInv, IInv', In("run_vpi_callbacks"), ~ Top.run, Top.nxt # Null, NEW g,
         g = [Top EXCEPT !.cur = Null, !.nxt = next[Top.nxt], !.prev = Top.nxt],
         cb[Top.nxt].st = "live", cb[Top.nxt].part # 0,
         cb[Top.nxt].value_bits_ = Part(value[Top.sig], cb[Top.nxt].part), stack' = WithTop(g),
         UNCHANGED <<cb, head, next, value, ops, uaf>>
  PROVE  LInv'
<1>1. IInv /\ Chains /\ Tellings /\ ops \in Int /\ cb \in [Ids -> CallbackType]
  BY DEF LInv, IInv, Types
<1>2. PICK i : i = Top.nxt
  OBVIOUS
<1>3. /\ Top \in FrameType /\ IsWalk(Top) /\ i \in Ids /\ next[i] \in Ids \cup {Null}
      /\ Of(cb, i, Top.sig) /\ stack \in Seq(FrameType)
  BY <1>1, <1>2, TurnFacts, StackTypes
<1>4. g \in FrameType /\ g.fn = Top.fn /\ g.nxt = next[i]
  BY <1>2, <1>3 DEF FrameType, OrNull
<1>5. VcKept(cb, cb') /\ ops <= ops'
  BY <1>1, SameKept
<1>6. /\ \A x \in Ids : x # i => Owed(stack', next, x) = Owed(stack, next, x)
      /\ Cardinality(Owed(stack', next, i)) = Cardinality(Owed(stack, next, i)) - 1
      /\ Doomed(cb, stack) => Doomed(cb', stack')
  BY <1>2, <1>3, <1>4, <1>5, TurnOwed DEF IsWalk
<1>7. ASSUME NEW x \in Ids, ToldOk(cb, stack, next, value, x)
      PROVE  ToldOk(cb', stack', next', value', x)
  <2>1. CASE x # i
    BY <1>6, <1>7, <2>1 DEF ToldOk
  <2>2. CASE x = i
    <3>1. cb[i].part # 0 /\ cb[i].value_bits_ = Part(value[cb[i].sig], cb[i].part)
      BY <1>2, <1>3 DEF Of
    <3>2. cb[i].told = Part(value[cb[i].sig], cb[i].part)
      BY <1>7, <2>2, <3>1 DEF ToldOk
    <3>3. cb[i].calls \in Nat /\ cb[i].changes \in Nat
      BY <1>1, <1>3 DEF CallbackType
    <3>4. Cardinality(Owed(stack, next, i)) \in Nat
      BY <1>3, OwedFinite
    <3>5. cb[i].calls + Cardinality(Owed(stack', next, i)) <= cb[i].changes
      <4>1. cb[i].calls + Cardinality(Owed(stack, next, i)) <= cb[i].changes
        BY <1>7, <2>2, <3>1 DEF ToldOk
      <4>2. QED
        BY <1>6, <3>3, <3>4, <4>1
    <3>6. QED
      BY <1>7, <2>2, <3>1, <3>2, <3>5 DEF ToldOk
  <2>3. QED
    BY <2>1, <2>2
<1>8. Tellings'
  BY <1>1, <1>6, <1>7 DEF Tellings
<1>9. Chains'
  BY <1>1, <1>5, ChainsKept
<1>10. QED
  BY <1>8, <1>9 DEF LInv

LEMMA ExecutedCallback ==
  ASSUME NEW c \in [Ids -> CallbackType], NEW i \in Ids, NEW v \in Seq({0, 1}), NEW d,
         d = Executed(c, i, v)
  PROVE  /\ d[i].value_bits_ = v /\ d[i].told = v /\ d[i].calls = c[i].calls + 1
         /\ d[i].part = c[i].part /\ d[i].changes = c[i].changes /\ d[i].rtn = c[i].rtn
<1>1. c[i] \in CallbackType
  OBVIOUS
<1>2. PICK n : n = c[i].calls + 1
  OBVIOUS
<1>3. PICK r : r = [c[i] EXCEPT !.value_bits_ = v, !.told = v, !.calls = n]
  OBVIOUS
<1>4. /\ r.value_bits_ = v /\ r.told = v /\ r.calls = n
      /\ r.part = c[i].part /\ r.changes = c[i].changes /\ r.rtn = c[i].rtn
  BY <1>1, <1>3 DEF CallbackType
<1>5. d = [c EXCEPT ![i] = r]
  <2>1. [c[i] EXCEPT !.value_bits_ = v, !.told = v].calls = c[i].calls
    BY <1>1 DEF CallbackType
  <2>2. QED
    BY <1>2, <1>3, <2>1 DEF Executed
<1>6. d[i] = r
  BY <1>5
<1>7. QED
  BY <1>2, <1>4, <1>6

(* The routine is told the value that the signal has now, which may be     *)
(* that of a later change than the walk's.                                 *)
LEMMA ExecuteTold ==
  ASSUME LInv, IInv', In("run_vpi_callbacks"), ~ Top.run, Top.nxt # Null, NEW g,
         g = [Top EXCEPT !.cur = Top.nxt, !.nxt = next[Top.nxt], !.run = TRUE, !.save = mode],
         cb[Top.nxt].st = "live", stack' = WithTop(g), NEW v \in Seq({0, 1}),
         v = Part(value[Top.sig], cb[Top.nxt].part), cb' = Executed(cb, Top.nxt, v),
         UNCHANGED <<head, next, value, ops, uaf>>
  PROVE  LInv'
<1>1. /\ IInv /\ Chains /\ Tellings /\ ops \in Int /\ cb \in [Ids -> CallbackType]
      /\ mode \in Modes
  BY DEF LInv, IInv, Types
<1>2. PICK i : i = Top.nxt
  OBVIOUS
<1>3. /\ Top \in FrameType /\ IsWalk(Top) /\ i \in Ids /\ next[i] \in Ids \cup {Null}
      /\ Of(cb, i, Top.sig) /\ stack \in Seq(FrameType) /\ cb[i].st = "live"
  BY <1>1, <1>2, TurnFacts, StackTypes
<1>4. g \in FrameType /\ g.fn = Top.fn /\ g.nxt = next[i]
  BY <1>1, <1>2, <1>3 DEF FrameType, OrNull
<1>5. /\ \A x \in Ids : x # i => cb'[x] = cb[x]
      /\ cb'[i].st = cb[i].st /\ cb'[i].why = cb[i].why /\ cb'[i].sig = cb[i].sig
  BY <1>1, <1>2, <1>3, ExecFacts
<1>6. /\ cb'[i].value_bits_ = v /\ cb'[i].told = v /\ cb'[i].calls = cb[i].calls + 1
      /\ cb'[i].part = cb[i].part /\ cb'[i].changes = cb[i].changes /\ cb'[i].rtn = cb[i].rtn
  BY <1>1, <1>2, <1>3, ExecutedCallback
<1>7. VcKept(cb, cb') /\ ops <= ops'
  <2>1. ops <= ops'
    BY <1>1
  <2>2. VcKept(cb, cb')
    BY <1>5 DEF VcKept
  <2>3. QED
    BY <2>1, <2>2
<1>8. /\ \A x \in Ids : x # i => Owed(stack', next, x) = Owed(stack, next, x)
      /\ Cardinality(Owed(stack', next, i)) = Cardinality(Owed(stack, next, i)) - 1
      /\ Doomed(cb, stack) => Doomed(cb', stack')
  BY <1>2, <1>3, <1>4, <1>7, TurnOwed DEF IsWalk
<1>9. ASSUME NEW x \in Ids, ToldOk(cb, stack, next, value, x)
      PROVE  ToldOk(cb', stack', next', value', x)
  <2>1. CASE x # i
    BY <1>5, <1>8, <1>9, <2>1 DEF ToldOk
  <2>2. CASE x = i
    <3>1. cb'[i].told = Part(value[cb'[i].sig], cb'[i].part)
      BY <1>2, <1>3, <1>5, <1>6 DEF Of
    <3>2. cb[i].calls \in Nat /\ cb[i].changes \in Nat
      BY <1>1, <1>3 DEF CallbackType
    <3>3. Cardinality(Owed(stack, next, i)) \in Nat
      BY <1>3, OwedFinite
    <3>4. PICK n, m : /\ n = Cardinality(Owed(stack, next, i))
                      /\ m = Cardinality(Owed(stack', next, i))
      OBVIOUS
    <3>5. (cb[i].calls + 1) + m = cb[i].calls + n
      BY <1>8, <3>2, <3>3, <3>4
    <3>6. IF cb[i].part = 0 THEN cb[i].calls + n = cb[i].changes
                            ELSE cb[i].calls + n <= cb[i].changes
      BY <1>9, <2>2, <3>4 DEF ToldOk
    <3>7. IF cb'[i].part = 0 THEN cb'[i].calls + m = cb'[i].changes
                             ELSE cb'[i].calls + m <= cb'[i].changes
      BY <1>6, <3>5, <3>6
    <3>8. QED
      BY <1>6, <2>2, <3>1, <3>4, <3>7 DEF ToldOk
  <2>3. QED
    BY <2>1, <2>2
<1>10. \A x \in Ids : Listens(cb', x) => /\ Listens(cb, x) /\ cb'[x].sig = cb[x].sig
                                         /\ cb'[x].rtn = cb[x].rtn
  BY <1>5, <1>6 DEF Listens
<1>11. Tellings'
  BY <1>1, <1>8, <1>9, <1>10 DEF Tellings
<1>12. Chains'
  BY <1>1, <1>7, <1>10, ChainsKept
<1>13. QED
  BY <1>11, <1>12 DEF LInv

(* The callbacks of a signal are those in its list. *)
LEMMA ListMembers ==
  ASSUME IInv, Chains, NEW s \in Signals, NEW i \in Ids
  PROVE  /\ i \in List(s) => Listens(cb, i) /\ cb[i].sig = s
         /\ Listens(cb, i) /\ cb[i].sig = s => i \in List(s)
<1>1. PICK S : S = {x \in Ids : Listens(cb, x) /\ cb[x].sig = s}
  OBVIOUS
<1>2. head[s] # Null => head[s] \in S
  BY <1>1, Linked DEF Chains, InLinks, Listens, Of, OrNull
<1>3. ASSUME NEW z \in S, next[z] # Null PROVE next[z] \in S
  <2>1. z \in Ids /\ cb[z].sig = s
    BY <1>1
  <2>2. next[z] \in Ids /\ Of(cb, next[z], s) /\ cb[next[z]].st = "live"
    BY <1>3, <2>1, Linked DEF Chains, InLinks, OrNull
  <2>3. QED
    BY <1>1, <2>2 DEF Listens, Of
<1>4. S \in SUBSET Ids /\ Closed(next, S)
  BY <1>1, <1>3 DEF Closed
<1>5. From(next, head[s]) \subseteq S
  BY <1>2, <1>4, FromWithin
<1>6. QED
  BY <1>1, <1>5 DEF List, Chains

LEMMA ChangedFields ==
  ASSUME NEW c \in [Ids -> CallbackType], NEW S, NEW d, NEW i \in Ids,
         d = [x \in Ids |-> IF x \in S THEN [c[x] EXCEPT !.changes = @ + 1] ELSE c[x]]
  PROVE  /\ d[i].st = c[i].st /\ d[i].why = c[i].why /\ d[i].sig = c[i].sig
         /\ d[i].part = c[i].part /\ d[i].rtn = c[i].rtn /\ d[i].calls = c[i].calls
         /\ d[i].told = c[i].told /\ d[i].value_bits_ = c[i].value_bits_
         /\ d[i].changes = IF i \in S THEN c[i].changes + 1 ELSE c[i].changes
<1>1. c[i] \in CallbackType
  OBVIOUS
<1>2. PICK n, r : n = c[i].changes + 1 /\ r = [c[i] EXCEPT !.changes = n]
  OBVIOUS
<1>3. d[i] = IF i \in S THEN r ELSE c[i]
  BY <1>2
<1>4. /\ r.st = c[i].st /\ r.why = c[i].why /\ r.sig = c[i].sig /\ r.part = c[i].part
      /\ r.rtn = c[i].rtn /\ r.calls = c[i].calls /\ r.told = c[i].told
      /\ r.value_bits_ = c[i].value_bits_ /\ r.changes = n
  BY <1>1, <1>2 DEF CallbackType
<1>5. QED
  BY <1>2, <1>3, <1>4

(* Every callback of the signal is ahead of the walk that its change       *)
(* starts, though it may be ahead of outer walks over the same list, too.  *)
LEMMA ChangeTold ==
  ASSUME LInv, IInv', NEW s \in Signals, NEW b \in 1..2, Change(s, b), ops' = ops + 1
  PROVE  LInv'
<1>0. PICK f, S : f = Frame("run_vpi_callbacks", "", << >>, s, head[s]) /\ S = List(s)
  OBVIOUS
<1>1. /\ value' = [value EXCEPT ![s][b] = 1 - @] /\ stack' = <<f>> \o stack
      /\ cb' = [x \in Ids |-> IF x \in S THEN [cb[x] EXCEPT !.changes = @ + 1] ELSE cb[x]]
      /\ UNCHANGED <<head, next, uaf>>
  BY <1>0 DEF Change
<1>2. /\ IInv /\ Chains /\ Tellings /\ ops \in Int /\ cb \in [Ids -> CallbackType]
      /\ value \in [Signals -> [1..2 -> {0, 1}]] /\ mode \in Modes /\ stack \in Seq(FrameType)
      /\ head[s] \in OrNull
  BY DEF LInv, IInv, Types
<1>3. f \in FrameType /\ f.fn = "run_vpi_callbacks" /\ f.nxt = head[s]
  <2>1. << >> \in Seq(Ids)
    OBVIOUS
  <2>2. QED
    BY <1>0, <1>2, <2>1 DEF Frame, FrameType, OrNull
<1>4. /\ stack' \in Seq(FrameType) /\ Len(stack') = Len(stack) + 1 /\ Len(stack) \in Nat
      /\ stack'[1] = f /\ \A k \in 2..Len(stack') : stack'[k] = stack[k - 1]
  BY <1>1, <1>2, <1>3, PutInFront
<1>5. \A x \in Ids :
        /\ cb'[x].st = cb[x].st /\ cb'[x].why = cb[x].why /\ cb'[x].sig = cb[x].sig
        /\ cb'[x].part = cb[x].part /\ cb'[x].rtn = cb[x].rtn /\ cb'[x].calls = cb[x].calls
        /\ cb'[x].told = cb[x].told /\ cb'[x].value_bits_ = cb[x].value_bits_
        /\ cb'[x].changes = IF x \in S THEN cb[x].changes + 1 ELSE cb[x].changes
  BY <1>1, <1>2, ChangedFields
<1>6. VcKept(cb, cb') /\ ops <= ops'
  BY <1>2, <1>5 DEF VcKept
<1>7. \A x \in Ids : Listens(cb', x) => Listens(cb, x)
  BY <1>5 DEF Listens
<1>8. Chains'
  BY <1>1, <1>2, <1>5, <1>6, <1>7, ChainsKept
<1>9. Doomed(cb, stack) => Doomed(cb', stack')
  <2>1. \A k \in DOMAIN stack : k + 1 \in DOMAIN stack' /\ stack'[k + 1] = stack[k]
    BY <1>2, <1>4
  <2>2. QED
    BY <1>2, <1>6, <2>1, DoomedKept
<1>10. ASSUME NEW x \in Ids, Listens(cb, x), ToldOk(cb, stack, next, value, x)
       PROVE  ToldOk(cb', stack', next', value', x)
  <2>1. x \in S <=> cb[x].sig = s
    BY <1>0, <1>2, <1>10, ListMembers
  <2>2. Ahead(next, stack'[1], x) <=> x \in S
    BY <1>0, <1>3, <1>4 DEF Ahead, IsWalk, List
  <2>3. PICK n, m : n = Cardinality(Owed(stack, next, x)) /\ m = Cardinality(Owed(stack', next, x))
    OBVIOUS
  <2>4. /\ x \notin S => Owed(stack', next, x) = Owed(stack, next, x)
        /\ x \in S => m = n + 1 /\ Owed(stack', next, x) # {}
    BY <1>2, <1>4, <2>2, <2>3, OwedPush
  <2>5. cb[x].calls \in Nat /\ cb[x].changes \in Nat /\ n \in Nat
    <3>1. cb[x] \in CallbackType
      BY <1>2
    <3>2. QED
      BY <1>2, <2>3, <3>1, OwedFinite DEF CallbackType
  <2>6. CASE x \in S
    <3>1. IF cb[x].part = 0 THEN cb[x].calls + n = cb[x].changes
                            ELSE cb[x].calls + n <= cb[x].changes
      BY <1>10, <2>3 DEF ToldOk
    <3>2. IF cb[x].part = 0 THEN cb[x].calls + m = cb[x].changes + 1
                            ELSE cb[x].calls + m <= cb[x].changes + 1
      BY <2>4, <2>5, <2>6, <3>1
    <3>3. cb'[x].value_bits_ = cb'[x].told
      BY <1>5, <1>10 DEF ToldOk
    <3>4. Owed(stack', next', x) # {} /\ Cardinality(Owed(stack', next', x)) = m
      BY <1>1, <2>3, <2>4, <2>6
    <3>5. IF cb'[x].part = 0 THEN cb'[x].calls + m = cb'[x].changes
                             ELSE cb'[x].calls + m <= cb'[x].changes
      BY <1>5, <2>6, <3>2
    <3>6. QED
      BY <3>3, <3>4, <3>5 DEF ToldOk
  <2>7. CASE x \notin S
    <3>1. value'[cb[x].sig] = value[cb[x].sig]
      BY <1>1, <1>2, <2>1, <2>7
    <3>2. QED
      BY <1>1, <1>5, <1>10, <2>4, <2>7, <3>1 DEF ToldOk
  <2>8. QED
    BY <2>6, <2>7
<1>11. Tellings'
  BY <1>1, <1>2, <1>5, <1>7, <1>9, <1>10 DEF Tellings
<1>12. QED
  BY <1>8, <1>11 DEF LInv

(* A new callback is ahead of no walk, and has been told the value that    *)
(* the signal has.                                                         *)
LEMMA NewTold ==
  ASSUME LInv, IInv', NEW i \in Ids, NEW s \in Signals, NEW p \in 0..1, make_value_change(i, s, p)
  PROVE  LInv'
<1>1. /\ IInv /\ Chains /\ Tellings /\ cb \in [Ids -> CallbackType] /\ stack \in Seq(FrameType)
      /\ next \in [Ids -> OrNull] /\ next' \in [Ids -> OrNull]
      /\ head \in [Signals -> OrNull] /\ i # Null
  BY CallbackAssumption DEF LInv, IInv, Types
<1>2. /\ cb[i].st = "unused" /\ cb'[i] = Callback("ValueChange", s, p, 0)
      /\ cb'[i].st = "live" /\ cb'[i].why = "ValueChange" /\ cb'[i].sig = s
      /\ \A x \in Ids : x # i => cb'[x] = cb[x]
      /\ next'[i] = head[s] /\ \A x \in Ids : x # i => next'[x] = next[x]
      /\ head'[s] = i /\ \A q \in Signals : q # s => head'[q] = head[q]
      /\ \A q \in Signals : head[q] # i
      /\ \A x \in Ids : next[x] # i
  BY <1>1, NewFacts
<1>3. UNCHANGED <<value, stack, uaf>>
  BY DEF make_value_change
<1>4. \A x \in OrNull : x # i => From(next', x) = From(next, x) /\ i \notin From(next, x)
  BY <1>1, <1>2, FromNew
<1>5. InLinks' /\ \E rank \in [Ids -> Nat] : Ranked(rank, next', ops')
  BY <1>1, NewLinks DEF Chains
<1>6. ASSUME NEW x \in Ids, Listens(cb', x)
      PROVE  cb'[x].sig \in Signals /\ x \in From(next', head'[cb'[x].sig])
  <2>1. From(next', i) = {i} \cup From(next', head[s])
    BY <1>1, <1>2, FromStep
  <2>2. CASE x = i
    BY <1>2, <2>1, <2>2
  <2>3. CASE x # i
    <3>1. Listens(cb, x) /\ cb'[x] = cb[x]
      BY <1>2, <1>6, <2>3 DEF Listens
    <3>2. x \in From(next, head[cb[x].sig])
      BY <1>1, <3>1 DEF Chains, List
    <3>3. cb[x].sig \in Signals
      BY <1>1, <3>1 DEF Chains
    <3>4. head[cb[x].sig] \in OrNull /\ head[cb[x].sig] # i
      BY <1>1, <1>2, <3>3
    <3>5. x \in From(next', head[cb[x].sig])
      BY <1>4, <3>2, <3>4
    <3>6. QED
      BY <1>2, <2>1, <3>1, <3>3, <3>5
  <2>4. QED
    BY <2>2, <2>3
<1>7. Chains'
  BY <1>5, <1>6 DEF Chains, List
<1>8. ASSUME NEW k \in DOMAIN stack, NEW x
      PROVE  /\ Ahead(next', stack[k], x) <=> Ahead(next, stack[k], x)
             /\ ~ Ahead(next, stack[k], i)
  <2>1. CASE IsWalk(stack[k])
    <3>1. stack[k].nxt \in OrNull /\ stack[k].nxt # i
      BY <1>1, <1>2, <2>1, WalkFrames DEF Of
    <3>2. QED
      BY <1>4, <3>1 DEF Ahead
  <2>2. CASE ~ IsWalk(stack[k])
    BY <2>2 DEF Ahead
  <2>3. QED
    BY <2>1, <2>2
<1>9. \A d \in 1..Len(stack) : Len(stack) + 1 - d \in DOMAIN stack
  BY <1>1
<1>10. \A x : Owed(stack, next', x) = Owed(stack, next, x) /\ Owed(stack, next, i) = {}
  BY <1>8, <1>9 DEF Owed
<1>11. ToldOk(cb', stack', next', value', i)
  <2>1. PICK r, v : r = cb'[i] /\ v = Part(value[s], p)
    OBVIOUS
  <2>2. /\ r.value_bits_ = v /\ r.told = v /\ r.part = p /\ r.calls = 0 /\ r.changes = 0
        /\ r.sig = s
    BY <1>2, <2>1 DEF Callback
  <2>3. Owed(stack', next', i) = {} /\ Cardinality({}) = 0
    BY <1>3, <1>10, FS_EmptySet
  <2>4. QED
    BY <1>3, <2>1, <2>2, <2>3 DEF ToldOk
<1>12. \A x \in Ids : x # i /\ ToldOk(cb, stack, next, value, x) =>
         ToldOk(cb', stack', next', value', x)
  BY <1>2, <1>3, <1>10 DEF ToldOk
<1>13. Doomed(cb, stack) => Doomed(cb', stack')
  <2>1. VcKept(cb, cb')
    BY <1>2 DEF VcKept
  <2>2. QED
    BY <1>1, <1>3, <2>1, DoomedKept
<1>14. \A x \in Ids : x # i /\ Listens(cb', x) /\ cb'[x].rtn => Listens(cb, x) /\ cb[x].rtn
  BY <1>2 DEF Listens
<1>15. Tellings'
  BY <1>1, <1>3, <1>11, <1>12, <1>13, <1>14 DEF Tellings
<1>16. QED
  BY <1>7, <1>15 DEF LInv

(* A removed callback is deleted.  Outer walks that have it next are       *)
(* doomed; those that have it further ahead lose it and nothing else.      *)
LEMMA ReapTold ==
  ASSUME LInv, IInv', In("run_vpi_callbacks"), ~ Top.run, Top.nxt # Null, NEW f,
         f = [Top EXCEPT !.cur = Top.nxt, !.nxt = next[Top.nxt]],
         cb[Top.nxt].st = "live", Link(f) = "linked", Reap(f), UNCHANGED <<value, ops, uaf>>
  PROVE  LInv'
<1>0. PICK i, p, s : i = Top.nxt /\ p = Top.prev /\ s = Top.sig
  OBVIOUS
<1>1. /\ IInv /\ Chains /\ Tellings /\ cb \in [Ids -> CallbackType]
      /\ stack \in Seq(FrameType) /\ DOMAIN stack = 1..Len(stack)
      /\ next \in [Ids -> OrNull] /\ next' \in [Ids -> OrNull]
      /\ head \in [Signals -> OrNull] /\ head' \in [Signals -> OrNull]
  BY DEF LInv, IInv, Types
<1>2. /\ stack # << >> /\ Top \in FrameType /\ Top = stack[1] /\ p \in Ids \cup {Null}
      /\ IsWalk(Top) /\ i \in Ids /\ s \in Signals /\ Top.run = FALSE
      /\ next[i] \in Ids \cup {Null} /\ Of(cb, i, s) /\ Null \notin Ids
      /\ WalkOk(cb, head, next, Top) /\ cb[i].st = "live"
  BY <1>0, <1>1, TurnFacts, CallbackAssumption
<1>3. /\ f \in FrameType /\ f.fn = Top.fn /\ f.prev = p /\ f.cur = i
      /\ f.nxt = next[i] /\ f.sig = s
  BY <1>0, <1>2 DEF FrameType, OrNull
<1>4. PICK g : g = [f EXCEPT !.cur = Null]
  OBVIOUS
<1>5. g \in FrameType /\ g.fn = Top.fn /\ g.nxt = next[i] /\ IsWalk(g)
  <2>1. g \in FrameType /\ g.fn = f.fn /\ g.nxt = f.nxt
    BY <1>3, <1>4 DEF FrameType, OrNull
  <2>2. QED
    BY <1>2, <1>3, <2>1 DEF IsWalk
<1>6. cb' = [cb EXCEPT ![i].st = "dead"] /\ stack' = WithTop(g)
  BY <1>3, <1>4 DEF Reap, Delete
<1>7. Unlinked(head, next, head', next', i, p, s)
  BY <1>1, <1>2, <1>3, ReapLinks DEF IInv
<1>8. IF p = Null THEN head[s] = i ELSE next[p] = i
  <2>1. p = Null => head[s] = i
    BY <1>0, <1>2 DEF WalkOk, Joined, Behind
  <2>2. p # Null => next[p] = i
    BY <1>3 DEF Link
  <2>3. QED
    BY <2>1, <2>2
<1>9. /\ \A x \in Ids : x # i => cb'[x] = cb[x]
      /\ cb'[i].st = "dead"
  BY <1>1, <1>2, <1>6, DeleteFacts
<1>10. PICK rank \in [Ids -> Nat] : Ranked(rank, next, ops)
  BY <1>1 DEF Chains
<1>11. /\ InLinks' /\ Ranked(rank, next', ops') /\ next[i] # i /\ p # i
       /\ \A x \in Ids : x # p => next[x] # i
       /\ \A q \in Signals : head'[q] # i
  BY <1>1, <1>2, <1>6, <1>7, <1>8, <1>10, ReapUndisturbed DEF Chains, OrNull
<1>12. /\ next'[i] = Null /\ (p # Null => next'[p] = next[i])
       /\ \A x \in Ids : x # i /\ x # p => next'[x] = next[x]
       /\ \A q \in Signals : head'[q] = IF p = Null /\ q = s THEN next[i] ELSE head[q]
  BY <1>2, <1>7, <1>11 DEF Unlinked
<1>13. ASSUME NEW x \in OrNull, x # i PROVE From(next', x) = From(next, x) \ {i}
  <2>1. TakenOut(next, next', i, p)
    BY <1>1, <1>2, <1>8, <1>11, <1>12 DEF TakenOut, OrNull
  <2>2. QED
    BY <1>13, <2>1, FromReaped
<1>14. From(next, i) = {i} \cup From(next, next[i])
  BY <1>1, <1>2, FromStep
<1>15. ASSUME NEW x \in Ids, Listens(cb', x)
       PROVE  /\ x # i /\ Listens(cb, x) /\ cb'[x] = cb[x]
              /\ cb'[x].sig \in Signals /\ x \in From(next', head'[cb'[x].sig])
  <2>1. x # i /\ Listens(cb, x) /\ cb'[x] = cb[x]
    BY <1>9, <1>15 DEF Listens
  <2>2. x \in From(next, head[cb[x].sig])
    BY <1>1, <2>1 DEF Chains, List
  <2>3. cb[x].sig \in Signals
    BY <1>1, <2>1 DEF Chains
  <2>4. head'[cb[x].sig] \in OrNull /\ head'[cb[x].sig] # i
    BY <1>1, <1>11, <2>3
  <2>5. CASE p = Null /\ cb[x].sig = s
    <3>1. head[cb[x].sig] = i /\ head'[cb[x].sig] = next[i]
      BY <1>2, <1>8, <1>12, <2>5
    <3>2. x \in From(next, next[i])
      BY <1>14, <2>1, <2>2, <3>1
    <3>3. next[i] \in OrNull /\ next[i] # i
      BY <2>4, <3>1
    <3>4. From(next', next[i]) = From(next, next[i]) \ {i}
      BY <1>13, <3>3
    <3>5. QED
      BY <2>1, <2>3, <3>1, <3>2, <3>4
  <2>6. CASE ~ (p = Null /\ cb[x].sig = s)
    BY <1>12, <1>13, <2>1, <2>2, <2>3, <2>4, <2>6
  <2>7. QED
    BY <2>1, <2>3, <2>5, <2>6
<1>16. Chains'
  BY <1>11, <1>15 DEF Chains, List
<1>17. /\ stack' \in Seq(FrameType) /\ Len(stack') = Len(stack) /\ DOMAIN stack' = DOMAIN stack
       /\ stack'[1] = g /\ \A k \in DOMAIN stack : k # 1 => stack'[k] = stack[k]
  BY <1>1, <1>2, <1>5, <1>6, TopReplaced
<1>18. Doomed(cb, stack) => Doomed(cb', stack')
  <2>1. ASSUME NEW k \in DOMAIN stack, IsWalk(stack[k]), stack[k].nxt # Null,
               cb[stack[k].nxt].st = "dead"
        PROVE  Doomed(cb', stack')
    <3>1. k # 1 /\ stack[k].nxt # i /\ stack[k].nxt \in Ids
      BY <1>0, <1>1, <1>2, <2>1, WalkFrames
    <3>2. QED
      BY <1>9, <1>17, <2>1, <3>1 DEF Doomed
  <2>2. QED
    BY <2>1 DEF Doomed
<1>19. ASSUME ~ Doomed(cb', stack'), NEW x \in Ids, x # i
       PROVE  Owed(stack', next', x) = Owed(stack, next, x)
  <2>1. ASSUME NEW k \in 2..Len(stack)
        PROVE  Ahead(next', stack'[k], x) <=> Ahead(next, stack[k], x)
    <3>1. k \in DOMAIN stack /\ k # 1 /\ stack'[k] = stack[k]
      BY <1>1, <1>17
    <3>2. CASE IsWalk(stack[k])
      <4>1. stack[k].nxt # i
        BY <1>2, <1>9, <1>17, <1>19, <3>1, <3>2 DEF Doomed
      <4>2. stack[k].nxt \in OrNull
        BY <1>1, <3>1, <3>2, WalkFrames
      <4>3. QED
        BY <1>13, <1>19, <3>1, <4>1, <4>2 DEF Ahead
    <3>3. QED
      BY <3>1, <3>2 DEF Ahead
  <2>2. Ahead(next', stack'[1], x) <=> Ahead(next, stack[1], x)
    <3>1. From(next', next[i]) = From(next, next[i]) \ {i}
      BY <1>2, <1>11, <1>13 DEF OrNull
    <3>2. QED
      BY <1>0, <1>2, <1>5, <1>14, <1>17, <1>19, <3>1 DEF Ahead
  <2>3. /\ stack' \in Seq(FrameType) /\ Len(stack') = Len(stack)
        /\ \A k \in 2..Len(stack) : Ahead(next', stack'[k], x) <=> Ahead(next, stack[k], x)
    BY <1>17, <2>1
  <2>4. stack \in Seq(FrameType) /\ stack # << >>
    BY <1>1, <1>2
  <2>5. QED
    BY <2>2, <2>3, <2>4, OwedTop
<1>20. ASSUME ~ Doomed(cb', stack'), NEW x \in Ids, x # i, ToldOk(cb, stack, next, value, x)
       PROVE  ToldOk(cb', stack', next', value', x)
  BY <1>9, <1>19, <1>20 DEF ToldOk
<1>21. Tellings'
  BY <1>1, <1>15, <1>18, <1>20 DEF Tellings
<1>22. QED
  BY <1>16, <1>21 DEF LInv

LEMMA NextCallbackTold ==
  ASSUME LInv, IInv', NextCallback
  PROVE  LInv'
<1>0. PICK f : f = [Top EXCEPT !.cur = Top.nxt, !.nxt = next[Top.nxt]]
  OBVIOUS
<1>1. /\ In("run_vpi_callbacks") /\ ~ Top.run /\ Top.nxt # Null
      /\ UNCHANGED <<sim, value, phase, now, ops>>
  BY DEF NextCallback
<1>2. /\ IInv /\ Chains /\ Top \in FrameType /\ Top.nxt \in Ids /\ Top.sig \in Signals
      /\ ~ aborted'
  BY <1>1, TurnFacts DEF LInv, IInv
<1>3. f.cur = Top.nxt /\ f.sig = Top.sig
  BY <1>0, <1>2 DEF FrameType, OrNull
<1>4. CASE uaf' = TRUE /\ UNCHANGED <<cb, head, next, stack, mode, aborted, reaped>>
  BY <1>1, <1>4 DEF LInv, Chains, InLinks, List, Tellings
<1>5. CASE /\ cb[Top.nxt].st = "live" /\ cb[Top.nxt].rtn
           /\ IF test_value_callback_ready(Top.nxt, f.sig)
              THEN Execute(f)
              ELSE /\ stack' = WithTop([f EXCEPT !.prev = Top.nxt, !.cur = Null])
                   /\ UNCHANGED <<cb, head, next, mode, aborted, reaped>>
           /\ UNCHANGED uaf
  <2>1. CASE Execute(f)
    <3>0. PICK v, g : /\ v = Part(value[f.sig], cb[f.cur].part)
                      /\ g = [f EXCEPT !.run = TRUE, !.save = mode]
      OBVIOUS
    <3>1. v \in Seq({0, 1})
      <4>1. value[f.sig] \in [1..2 -> {0, 1}] /\ cb[f.cur] \in CallbackType
        BY <1>2, <1>3 DEF IInv, Types
      <4>2. cb[f.cur].part \in 0..1
        BY <4>1, CallbackFields
      <4>3. QED
        BY <3>0, <4>1, <4>2, BitsOf
    <3>2. g = [Top EXCEPT !.cur = Top.nxt, !.nxt = next[Top.nxt], !.run = TRUE, !.save = mode]
      BY <1>0, <3>0
    <3>3. cb' = Executed(cb, Top.nxt, v)
      BY <1>3, <2>1, <3>0 DEF Execute, Executed
    <3>4. stack' = WithTop(g) /\ UNCHANGED <<head, next>>
      BY <2>1, <3>0 DEF Execute
    <3>5. v = Part(value[Top.sig], cb[Top.nxt].part)
      BY <1>3, <3>0
    <3>6. QED
      BY <1>1, <1>5, <3>1, <3>2, <3>3, <3>4, <3>5, ExecuteTold
  <2>2. CASE /\ ~ test_value_callback_ready(Top.nxt, f.sig)
             /\ stack' = WithTop([f EXCEPT !.prev = Top.nxt, !.cur = Null])
             /\ UNCHANGED <<cb, head, next, mode, aborted, reaped>>
    <3>0. PICK g : g = [f EXCEPT !.prev = Top.nxt, !.cur = Null]
      OBVIOUS
    <3>1. g = [Top EXCEPT !.cur = Null, !.nxt = next[Top.nxt], !.prev = Top.nxt]
      BY <1>0, <1>2, <3>0 DEF FrameType
    <3>2. stack' = WithTop(g)
      BY <2>2, <3>0
    <3>3. /\ cb[Top.nxt].part # 0
          /\ cb[Top.nxt].value_bits_ = Part(value[Top.sig], cb[Top.nxt].part)
      BY <1>3, <2>2 DEF test_value_callback_ready
    <3>4. QED
      BY <1>1, <1>5, <2>2, <3>1, <3>2, <3>3, SkipTold
  <2>3. QED
    BY <1>5, <2>1, <2>2
<1>6. CASE /\ cb[Top.nxt].st = "live" /\ ~ cb[Top.nxt].rtn /\ Link(f) # "dead"
           /\ IF Link(f) = "linked"
              THEN Reap(f)
              ELSE aborted' = TRUE /\ UNCHANGED <<cb, head, next, stack, mode, reaped>>
           /\ UNCHANGED uaf
  <2>1. Link(f) = "linked" /\ Reap(f)
    BY <1>2, <1>6
  <2>2. QED
    BY <1>0, <1>1, <1>6, <2>1, ReapTold
<1>7. QED
  BY <1>0, <1>4, <1>5, <1>6 DEF NextCallback

LEMMA InitLInv == Init => LInv
<1> SUFFICES ASSUME Init PROVE LInv
  OBVIOUS
<1>1. IInv /\ ~ reaped
  BY InitIInv DEF Init
<1>2. \A i \in Ids : ~ Listens(cb, i)
  BY UnusedType, CallbackAssumption DEF Init, Listens
<1>3. Chains
  BY <1>1, <1>2 DEF IInv, Undisturbed, Chains
<1>4. Tellings
  BY <1>2 DEF Tellings
<1>5. QED
  BY <1>1, <1>3, <1>4 DEF LInv

LEMMA PutTold ==
  ASSUME LInv, IInv', NEW s \in Signals, NEW b \in 1..2, vpi_put_value(s, b) \/ Assign(s, b)
  PROVE  LInv'
<1>1. Change(s, b) /\ ops' = ops + 1
  BY DEF vpi_put_value, Assign, Call
<1>2. QED
  BY <1>1, ChangeTold

LEMMA NextLInv == LInv /\ [Next]_vars => LInv'
<1> SUFFICES ASSUME LInv, [Next]_vars PROVE LInv'
  OBVIOUS
<1>0. IInv'
  BY NextIInv DEF LInv
<1>1. CASE Client
  BY <1>0, <1>1, OneShotTold, NewTold, RemoveTold, PutTold DEF Client
<1>2. CASE NextCallback \/ CallbackReturns \/ WalkEnds
  BY <1>0, <1>2, NextCallbackTold, ReturnsTold, WalkEndsTold
<1>3. CASE \E s \in Signals, b \in 1..2 : Assign(s, b)
  BY <1>0, <1>3, PutTold
<1>4. CASE \/ CallTask \/ TaskReturns \/ SyncReturns \/ NextOfList \/ ListRoutineReturns
           \/ ListEnds \/ Advance
           \/ \E i \in Ids : RunSync(i)
           \/ \E r \in Simulator : RunList(r)
  BY <1>0, <1>4, SchedulerTold
<1>5. CASE UNCHANGED vars
  BY <1>0, <1>5 DEF LInv, Chains, InLinks, List, Tellings, vars
<1>6. QED
  BY <1>1, <1>2, <1>3, <1>4, <1>5 DEF Next

(* The list of each signal holds exactly the callbacks that listen to it,  *)
(* and a callback whose routine has not been told the latest value, or was *)
(* called less often than its signal changed, is ahead of a walk that is   *)
(* in progress (add_vpi_callback and run_vpi_callbacks,                    *)
(* vvp/vpi_callback.cc), unless a walk holds a deleted callback.           *)
THEOREM TellingInvariant == Spec => []LInv
<1>1. QED
  BY InitLInv, NextLInv, PTL DEF Spec

LEMMA IdleTold ==
  ASSUME LInv, Idle, NEW s \in Signals, NEW i \in List(s), cb[i].rtn
  PROVE  /\ i \in Ids /\ cb[i].sig = s /\ ToldOk(cb, stack, next, value, i)
         /\ Owed(stack, next, i) = {} /\ Cardinality({}) = 0
<1>1. IInv /\ Chains /\ Tellings
  BY DEF LInv
<1>2. i \in Ids
  BY FromSelf DEF List
<1>3. Listens(cb, i) /\ cb[i].sig = s
  BY <1>1, <1>2, ListMembers
<1>4. ~ uaf /\ stack = << >>
  BY DEF Idle, OK
<1>5. ~ Doomed(cb, stack)
  BY <1>4 DEF Doomed
<1>6. Owed(stack, next, i) = {} /\ Cardinality({}) = 0
  <2>1. stack \in Seq(FrameType)
    BY <1>1, StackTypes
  <2>2. \A k \in DOMAIN stack : ~ IsWalk(stack[k])
    BY <1>4
  <2>3. QED
    BY <2>1, <2>2, OwedNone, FS_EmptySet
<1>7. QED
  BY <1>1, <1>2, <1>3, <1>4, <1>5, <1>6 DEF Tellings

(* Once all walks are over, the routine of every callback in the list of a *)
(* signal has been given the value the signal has, or its part of it,      *)
(* however walks nested and callbacks came and went                        *)
(* (run_vpi_callbacks and callback_execute, vvp/vpi_callback.cc).          *)
THEOREM LatestIsTold == Spec => []ToldLatest
<1>1. LInv => ToldLatest
  <2> SUFFICES ASSUME LInv, Idle, NEW s \in Signals, NEW i \in List(s), cb[i].rtn
               PROVE  cb[i].told = Part(value[s], cb[i].part)
    BY DEF ToldLatest
  <2>1. QED
    BY IdleTold DEF ToldOk
<1>2. QED
  BY <1>1, TellingInvariant, PTL

(* Each change of a signal calls a callback on the whole of it exactly     *)
(* once, and one on a part at most once (run_vpi_callbacks and             *)
(* test_value_callback_ready, vvp/vpi_callback.cc).                        *)
THEOREM ChangesAreCalled == Spec => []CalledPerChange
<1>1. LInv => CalledPerChange
  <2> SUFFICES ASSUME LInv, Idle, NEW s \in Signals, NEW i \in List(s), cb[i].rtn
               PROVE  IF cb[i].part = 0 THEN cb[i].calls = cb[i].changes
                      ELSE cb[i].calls <= cb[i].changes
    BY DEF CalledPerChange
  <2>1. i \in Ids /\ ToldOk(cb, stack, next, value, i) /\ Cardinality(Owed(stack, next, i)) = 0
    BY IdleTold
  <2>2. cb[i].calls \in Nat
    BY <2>1 DEF LInv, IInv, Types, CallbackType
  <2>3. QED
    BY <2>1, <2>2 DEF ToldOk
<1>2. QED
  BY <1>1, TellingInvariant, PTL

-----------------------------------------------------------------------------
(* Where the one-shot callbacks are: in the list of their phase or in the  *)
(* list that the phase works off, at work, or scheduled for a time that is *)
(* not over.                                                               *)

(* The region of the time step that the callback runs in is still to come. *)
InTime(r, p, t) ==
  /\ r.due >= t
  /\ Region(r.why) = "start" /\ p \notin {"nextsim", "start"} => r.due > t
  /\ Region(r.why) \in {"active", "rw"} /\ p = "ro" => r.due > t

Queued(q, s, i, why) ==
  \/ i \in Range(q[why])
  \/ /\ s # << >> /\ s[Len(s)].fn = "list"
     /\ i \in Range(s[Len(s)].rest) \/ (s[Len(s)].run /\ s[Len(s)].cur = i)

Home(c, q, s, p, t, i) ==
  /\ c[i].why \in Kinds
  /\ c[i].why \in Simulator => Queued(q, s, i, c[i].why)
  /\ c[i].why \in Sync => Serves(s, i) \/ InTime(c[i], p, t)

(* The call of the scheduler has a live callback at hand while it runs. *)
OuterHeld(c, f) ==
  /\ f.fn # "list" => f.rest = << >>
  /\ f.fn = "calltf" => f.cur = Null
  /\ f.fn = "sync_cb" => c[f.cur].st = "live"
  /\ f.fn = "list" => IF f.run THEN c[f.cur].st = "live" ELSE f.cur = Null

Homes == \A i \in Ids : cb[i].st = "live" => Home(cb, sim, stack, phase, now, i)

NoRests == \A k \in DOMAIN stack : IsWalk(stack[k]) => stack[k].rest = << >>

OuterAtWork == stack # << >> => OuterHeld(cb, stack[Len(stack)])

HInv == LInv /\ Homes /\ NoRests /\ OuterAtWork

(* A step of a routine or of a walk: the call of the scheduler, if it is   *)
(* in one, stays, and a live one-shot callback was live before, or is new. *)
LEMMA RoutineHeld ==
  ASSUME HInv, LInv', ShotsKept(cb, cb'), UNCHANGED <<phase, now>>,
         \A r \in Simulator : Range(sim[r]) \subseteq Range(sim'[r]),
         stack # << >> /\ ~ IsWalk(stack[Len(stack)]) =>
           stack' # << >> /\ stack'[Len(stack')] = stack[Len(stack)],
         stack' # << >> => \/ IsWalk(stack'[Len(stack')])
                           \/ stack # << >> /\ stack'[Len(stack')] = stack[Len(stack)],
         NoRests',
         \A x \in Ids : cb'[x].st = "live" =>
           \/ cb[x].st = "live" /\ cb'[x].why = cb[x].why /\ cb'[x].due = cb[x].due
           \/ Home(cb', sim', stack', phase, now, x)
  PROVE  HInv'
<1>1. /\ IInv /\ IInv' /\ Homes /\ OuterAtWork /\ stack \in Seq(FrameType)
      /\ stack' \in Seq(FrameType)
  BY DEF HInv, LInv, IInv, Types
<1>2. ASSUME NEW x \in Ids, cb'[x].st = "live" PROVE Home(cb', sim', stack', phase, now, x)
  <2>1. CASE cb[x].st = "live" /\ cb'[x].why = cb[x].why /\ cb'[x].due = cb[x].due
    <3>1. Home(cb, sim, stack, phase, now, x)
      BY <1>1, <2>1 DEF Homes
    <3>2. Serves(stack, x) => Serves(stack', x)
      BY DEF Serves, IsWalk
    <3>3. \A r \in Simulator : Queued(sim, stack, x, r) => Queued(sim', stack', x, r)
      BY DEF Queued, IsWalk
    <3>4. InTime(cb[x], phase, now) => InTime(cb'[x], phase, now)
      BY <2>1 DEF InTime
    <3>5. QED
      BY <2>1, <3>1, <3>2, <3>3, <3>4 DEF Home
  <2>2. QED
    BY <1>2, <2>1
<1>3. Homes'
  BY <1>2 DEF Homes
<1>4. ASSUME stack' # << >> PROVE OuterHeld(cb', stack'[Len(stack')])
  <2>1. CASE IsWalk(stack'[Len(stack')])
    <3>1. Len(stack') \in DOMAIN stack'
      BY <1>1, <1>4
    <3>2. QED
      BY <2>1, <3>1 DEF NoRests, OuterHeld, IsWalk
  <2>2. CASE /\ stack # << >> /\ stack'[Len(stack')] = stack[Len(stack)]
             /\ ~ IsWalk(stack'[Len(stack')])
    <3>1. PICK f : f = stack[Len(stack)]
      OBVIOUS
    <3>2. OuterHeld(cb, f) /\ OuterOk(cb, sim["NextSimTime"], now, phase, f) /\ ~ IsWalk(f)
      BY <1>1, <2>2, <3>1 DEF OuterAtWork, IInv, Outermost
    <3>3. CASE f.fn = "sync_cb"
      <4>1. f.cur \in Ids /\ cb[f.cur].why \in Sync /\ cb[f.cur].st = "live"
        BY <3>2, <3>3 DEF OuterHeld, OuterOk, SyncOk
      <4>2. cb'[f.cur].st = "live"
        BY <4>1 DEF ShotsKept
      <4>3. QED
        BY <2>2, <3>1, <3>2, <3>3, <4>2 DEF OuterHeld
    <3>4. CASE f.fn = "list" /\ f.run
      <4>1. f.cur \in Ids /\ cb[f.cur].why \in Simulator /\ cb[f.cur].st = "live"
        BY <3>2, <3>4 DEF OuterHeld, OuterOk, ListOk
      <4>2. cb'[f.cur].st = "live"
        BY <4>1 DEF ShotsKept
      <4>3. QED
        BY <2>2, <3>1, <3>2, <3>4, <4>2 DEF OuterHeld
    <3>5. CASE ~ (f.fn = "sync_cb" \/ (f.fn = "list" /\ f.run))
      BY <2>2, <3>1, <3>2, <3>5 DEF OuterHeld
    <3>6. QED
      BY <3>3, <3>4, <3>5
  <2>3. QED
    BY <1>4, <2>1, <2>2
<1>5. QED
  BY <1>3, <1>4 DEF HInv, OuterAtWork

(* Routines register and remove callbacks. *)
LEMMA NewHeld ==
  ASSUME HInv, LInv', NEW i \in Ids, NEW r, cb[i] = Unused,
         cb' = [cb EXCEPT ![i] = r], UNCHANGED <<stack, phase, now>>,
         \A q \in Simulator : Range(sim[q]) \subseteq Range(sim'[q]),
         Home(cb', sim', stack, phase, now, i)
  PROVE  HInv'
<1>1. cb \in [Ids -> CallbackType] /\ Unused.st = "unused"
  BY UnusedType, CallbackAssumption DEF HInv, LInv, IInv, Types
<1>2. cb[i].st = "unused" /\ \A x \in Ids : x # i => cb'[x] = cb[x]
  BY <1>1
<1>3. ShotsKept(cb, cb')
  BY <1>2 DEF ShotsKept
<1>4. NoRests'
  BY DEF HInv, NoRests
<1>5. \A x \in Ids : cb'[x].st = "live" =>
        \/ cb[x].st = "live" /\ cb'[x].why = cb[x].why /\ cb'[x].due = cb[x].due
        \/ Home(cb', sim', stack', phase, now, x)
  BY <1>2
<1>6. QED
  BY <1>3, <1>4, <1>5, RoutineHeld

LEMMA RegionOfSync ==
  /\ \A why \in Sync : Region(why) \in {"start", "active", "rw", "ro"}
  /\ \A why \in Sync : Region(why) = "start" => why = "AtStartOfSimTime"
  BY DEF Sync, Region

LEMMA RegisteredHeld ==
  ASSUME HInv, LInv',
         \/ \E i \in Ids, r \in Reasons, d \in 0..MaxTime : make_sync(i, r, d)
         \/ \E i \in Ids, r \in Reasons : make_prepost(i, r)
         \/ \E i \in Ids, s \in Signals, p \in 0..1 : make_value_change(i, s, p)
  PROVE  HInv'
<1>0. /\ Types /\ cb \in [Ids -> CallbackType] /\ sim \in [Simulator -> Seq(Ids)]
      /\ now \in Nat
  BY CallbackAssumption DEF HInv, LInv, IInv, Types
<1>1. CASE \E i \in Ids, r \in Reasons, d \in 0..MaxTime : make_sync(i, r, d)
  <2>1. PICK i \in Ids, r \in Reasons, d \in 0..MaxTime : make_sync(i, r, d)
    BY <1>1
  <2>2. PICK c : c = Callback(r, Null, 0, d)
    OBVIOUS
  <2>3. /\ cb[i] = Unused /\ r \in Sync /\ Legal(r, d) /\ cb' = [cb EXCEPT ![i] = c]
        /\ UNCHANGED <<stack, phase, now, sim>>
    BY <2>1, <2>2 DEF make_sync
  <2>4. c.why = r /\ c.due = d /\ cb'[i] = c
    BY <1>0, <2>2, <2>3 DEF Callback
  <2>5. InTime(c, phase, now)
    <3>1. /\ d >= now /\ (r = "AtStartOfSimTime" => d > now)
          /\ phase = "ro" => r = "ReadOnlySynch" \/ Region(r) = "none" \/ d > now
      BY <2>3 DEF Legal
    <3>2. Region("ReadOnlySynch") = "ro"
      BY DEF Region
    <3>3. QED
      BY <2>3, <2>4, <3>1, <3>2, RegionOfSync DEF InTime
  <2>6. Home(cb', sim', stack, phase, now, i)
    BY <2>3, <2>4, <2>5, Strings DEF Home
  <2>7. QED
    BY <2>3, <2>6, NewHeld
<1>2. CASE \E i \in Ids, r \in Reasons : make_prepost(i, r)
  <2>1. PICK i \in Ids, r \in Reasons : make_prepost(i, r)
    BY <1>2
  <2>2. PICK c : c = Callback(r, Null, 0, now)
    OBVIOUS
  <2>3. /\ cb[i] = Unused /\ r \in Simulator /\ cb' = [cb EXCEPT ![i] = c]
        /\ sim' = [sim EXCEPT ![r] = <<i>> \o @] /\ UNCHANGED <<stack, phase, now>>
    BY <2>1, <2>2 DEF make_prepost
  <2>4. c.why = r /\ cb'[i] = c
    BY <1>0, <2>2, <2>3 DEF Callback
  <2>5. PICK l : l = <<i>> \o sim[r]
    OBVIOUS
  <2>6. Range(l) = {i} \cup Range(sim[r])
    BY <1>0, <2>3, <2>5, RangeFront
  <2>7. sim'[r] = l /\ \A q \in Simulator : q # r => sim'[q] = sim[q]
    BY <1>0, <2>3, <2>5
  <2>8. Home(cb', sim', stack, phase, now, i)
    BY <2>3, <2>4, <2>6, <2>7, Strings DEF Home, Queued
  <2>9. QED
    BY <2>3, <2>6, <2>7, <2>8, NewHeld
<1>3. CASE \E i \in Ids, s \in Signals, p \in 0..1 : make_value_change(i, s, p)
  <2>1. PICK i \in Ids, s \in Signals, p \in 0..1 : make_value_change(i, s, p)
    BY <1>3
  <2>2. PICK c : c = Callback("ValueChange", s, p, 0)
    OBVIOUS
  <2>3. /\ cb[i] = Unused /\ cb' = [cb EXCEPT ![i] = c]
        /\ UNCHANGED <<stack, phase, now, sim>>
    BY <2>1, <2>2 DEF make_value_change
  <2>4. c.why = "ValueChange" /\ cb'[i] = c
    BY <1>0, <2>2, <2>3 DEF Callback
  <2>5. Home(cb', sim', stack, phase, now, i)
    BY <2>4, Strings DEF Home
  <2>6. QED
    BY <2>3, <2>5, NewHeld
<1>4. QED
  BY <1>1, <1>2, <1>3

LEMMA RemovedHeld ==
  ASSUME HInv, LInv', NEW i \in Ids, vpi_remove_cb(i)
  PROVE  HInv'
<1>1. cb \in [Ids -> CallbackType]
  BY DEF HInv, LInv, IInv, Types
<1>2. cb' = [cb EXCEPT ![i].rtn = FALSE] /\ UNCHANGED <<stack, phase, now, sim>>
  BY DEF vpi_remove_cb
<1>3. /\ \A x \in Ids : x # i => cb'[x] = cb[x]
      /\ cb'[i].st = cb[i].st /\ cb'[i].why = cb[i].why
      /\ cb'[i].due = cb[i].due /\ cb'[i].calls = cb[i].calls
  BY <1>1, <1>2, RemoveFacts
<1>4. ShotsKept(cb, cb')
  BY <1>3 DEF ShotsKept
<1>5. NoRests'
  BY <1>2 DEF HInv, NoRests
<1>6. \A x \in Ids : cb'[x].st = "live" =>
        cb[x].st = "live" /\ cb'[x].why = cb[x].why /\ cb'[x].due = cb[x].due
  BY <1>3
<1>7. QED
  BY <1>2, <1>4, <1>5, <1>6, RoutineHeld

(* Walks start, go on and end. *)
LEMMA TopHeld ==
  ASSUME HInv, LInv', stack # << >>, IsWalk(Top), NEW g \in FrameType, IsWalk(g),
         g.rest = Top.rest, stack' = WithTop(g), ShotsKept(cb, cb'), UNCHANGED <<sim, phase, now>>,
         \A x \in Ids : cb'[x].st = "live" =>
           cb[x].st = "live" /\ cb'[x].why = cb[x].why /\ cb'[x].due = cb[x].due
  PROVE  HInv'
<1>1. IInv /\ NoRests
  BY DEF HInv, LInv
<1>2. /\ stack' # << >> /\ Len(stack') = Len(stack) /\ DOMAIN stack' = DOMAIN stack
      /\ stack'[1] = g /\ \A k \in DOMAIN stack : k # 1 => stack'[k] = stack[k]
  BY <1>1, TopReplaced
<1>3. 1 \in DOMAIN stack /\ Len(stack) \in DOMAIN stack /\ Top = stack[1]
  BY <1>1, StackTypes
<1>4. NoRests'
  BY <1>1, <1>2, <1>3 DEF NoRests
<1>5. IF Len(stack) = 1 THEN IsWalk(stack[Len(stack)]) /\ IsWalk(stack'[Len(stack')])
      ELSE stack'[Len(stack')] = stack[Len(stack)]
  BY <1>2, <1>3
<1>6. QED
  BY <1>2, <1>4, <1>5, RoutineHeld

LEMMA ReturnsHeld ==
  ASSUME HInv, LInv', CallbackReturns
  PROVE  HInv'
<1>0. PICK g : g = [Top EXCEPT !.run = FALSE, !.prev = Top.cur, !.cur = Null]
  OBVIOUS
<1>1. /\ stack # << >> /\ IsWalk(Top) /\ stack' = WithTop(g)
      /\ UNCHANGED <<cb, sim, phase, now>>
  BY <1>0 DEF CallbackReturns, In, IsWalk
<1>2. Top \in FrameType
  BY <1>1, StackTypes DEF HInv, LInv
<1>3. g \in FrameType /\ g.fn = Top.fn /\ g.rest = Top.rest
  <2>1. Top.cur \in OrNull
    BY <1>2 DEF FrameType
  <2>2. QED
    BY <1>0, <1>2, <2>1 DEF FrameType, OrNull
<1>4. ShotsKept(cb, cb')
  BY <1>1, SameKept, KeptVc
<1>5. QED
  BY <1>1, <1>3, <1>4, TopHeld DEF IsWalk

LEMMA WalkEndsHeld ==
  ASSUME HInv, LInv', WalkEnds
  PROVE  HInv'
<1>1. /\ stack # << >> /\ IsWalk(Top) /\ stack' = Tail(stack)
      /\ UNCHANGED <<cb, sim, phase, now>>
  BY DEF WalkEnds, In, IsWalk
<1>2. IInv /\ NoRests
  BY DEF HInv, LInv
<1>3. Top = stack[1]
  BY <1>1, <1>2, StackTypes
<1>4. /\ \A k \in DOMAIN stack' : k + 1 \in DOMAIN stack /\ stack'[k] = stack[k + 1]
      /\ stack' = << >> <=> Len(stack) = 1
      /\ Len(stack) # 1 => stack'[Len(stack')] = stack[Len(stack)]
  BY <1>1, <1>2, Popped
<1>5. NoRests'
  BY <1>2, <1>4 DEF NoRests
<1>6. Len(stack) = 1 => IsWalk(stack[Len(stack)])
  BY <1>1, <1>3
<1>7. ShotsKept(cb, cb')
  BY <1>1, SameKept, KeptVc
<1>8. QED
  BY <1>1, <1>4, <1>5, <1>6, <1>7, RoutineHeld

LEMMA PutHeld ==
  ASSUME HInv, LInv', NEW s \in Signals, NEW b \in 1..2, vpi_put_value(s, b) \/ Assign(s, b)
  PROVE  HInv'
<1>0. PICK f : f = Frame("run_vpi_callbacks", "", << >>, s, head[s])
  OBVIOUS
<1>1. /\ stack' = <<f>> \o stack /\ UNCHANGED <<sim, phase, now>>
      /\ cb' = [i \in Ids |-> IF i \in List(s) THEN [cb[i] EXCEPT !.changes = @ + 1] ELSE cb[i]]
  BY <1>0 DEF vpi_put_value, Assign, Change
<1>2. /\ IInv /\ NoRests /\ stack \in Seq(FrameType) /\ stack' \in Seq(FrameType)
      /\ cb \in [Ids -> CallbackType] /\ head[s] \in OrNull /\ mode \in Modes
  BY DEF HInv, LInv, IInv, Types
<1>3. f \in FrameType /\ IsWalk(f) /\ f.rest = << >>
  <2>1. << >> \in Seq(Ids)
    OBVIOUS
  <2>2. QED
    BY <1>0, <1>2, <2>1 DEF Frame, FrameType, OrNull, IsWalk
<1>4. /\ Len(stack') = Len(stack) + 1 /\ Len(stack) \in Nat /\ stack' # << >> /\ stack'[1] = f
      /\ \A k \in 2..(Len(stack) + 1) : stack'[k] = stack[k - 1]
  BY <1>1, <1>2, <1>3, PutInFront
<1>5. NoRests'
  <2>1. ASSUME NEW k \in DOMAIN stack', IsWalk(stack'[k]) PROVE stack'[k].rest = << >>
    <3>1. CASE k = 1
      BY <1>3, <1>4, <3>1
    <3>2. CASE k # 1
      <4>1. k \in 2..(Len(stack) + 1) /\ k - 1 \in DOMAIN stack
        BY <1>2, <1>4, <3>2
      <4>2. QED
        BY <1>2, <1>4, <2>1, <4>1 DEF NoRests
    <3>3. QED
      BY <3>1, <3>2
  <2>2. QED
    BY <2>1 DEF NoRests
<1>6. IF stack = << >> THEN IsWalk(stack'[Len(stack')])
      ELSE stack'[Len(stack')] = stack[Len(stack)]
  <2>1. stack # << >> => Len(stack) # 0
    BY <1>2
  <2>2. QED
    BY <1>3, <1>4, <2>1
<1>7. Kept(cb, cb') /\ \A i \in Ids : cb'[i].st = cb[i].st
  BY <1>1, <1>2, ChangedCallbacks
<1>8. ShotsKept(cb, cb')
  BY <1>7, KeptVc
<1>9. \A x \in Ids : cb'[x].st = "live" =>
        cb[x].st = "live" /\ cb'[x].why = cb[x].why /\ cb'[x].due = cb[x].due
  BY <1>7 DEF Kept
<1>10. QED
  BY <1>1, <1>4, <1>5, <1>6, <1>8, <1>9, RoutineHeld

LEMMA NextCallbackHeld ==
  ASSUME HInv, LInv', NextCallback
  PROVE  HInv'
<1>0. PICK f : f = [Top EXCEPT !.cur = Top.nxt, !.nxt = next[Top.nxt]]
  OBVIOUS
<1>1. /\ In("run_vpi_callbacks") /\ ~ Top.run /\ Top.nxt # Null
      /\ UNCHANGED <<sim, value, phase, now, ops>>
  BY DEF NextCallback
<1>2. /\ IInv /\ stack # << >> /\ IsWalk(Top) /\ Top \in FrameType /\ Top.nxt \in Ids
      /\ Top.sig \in Signals /\ next[Top.nxt] \in OrNull
      /\ cb[Top.nxt].why = "ValueChange" /\ cb \in [Ids -> CallbackType] /\ mode \in Modes
  BY <1>1, TurnFacts DEF HInv, LInv, IInv, Types, Of, OrNull
<1>3. f \in FrameType /\ f.cur = Top.nxt /\ f.sig = Top.sig /\ f.fn = Top.fn /\ f.rest = Top.rest
  BY <1>0, <1>2 DEF FrameType, OrNull
<1>4. CASE UNCHANGED <<cb, stack>>
  <2>1. ShotsKept(cb, cb') /\ NoRests'
    BY <1>4, SameKept, KeptVc DEF HInv, NoRests
  <2>2. QED
    BY <1>1, <1>4, <2>1, RoutineHeld
<1>5. CASE Execute(f)
  <2>1. PICK v, g : /\ v = Part(value[f.sig], cb[f.cur].part)
                    /\ g = [f EXCEPT !.run = TRUE, !.save = mode]
    OBVIOUS
  <2>2. v \in Seq({0, 1})
    <3>1. value[f.sig] \in [1..2 -> {0, 1}] /\ cb[f.cur] \in CallbackType
      BY <1>2, <1>3 DEF IInv, Types
    <3>2. cb[f.cur].part \in 0..1
      BY <3>1, CallbackFields
    <3>3. QED
      BY <2>1, <3>1, <3>2, BitsOf
  <2>3. cb' = Executed(cb, Top.nxt, v) /\ stack' = WithTop(g)
    BY <1>3, <1>5, <2>1 DEF Execute, Executed
  <2>4. /\ \A x \in Ids : x # Top.nxt => cb'[x] = cb[x]
        /\ cb'[Top.nxt].st = cb[Top.nxt].st /\ cb'[Top.nxt].why = cb[Top.nxt].why
        /\ cb'[Top.nxt].due = cb[Top.nxt].due
    BY <1>2, <2>2, <2>3, ExecFacts
  <2>5. g \in FrameType /\ IsWalk(g) /\ g.rest = Top.rest
    BY <1>2, <1>3, <2>1 DEF FrameType, IsWalk
  <2>6. ShotsKept(cb, cb')
    BY <1>2, <2>4, Strings DEF ShotsKept
  <2>7. QED
    BY <1>1, <1>2, <2>3, <2>4, <2>5, <2>6, TopHeld
<1>6. CASE stack' = WithTop([f EXCEPT !.prev = Top.nxt, !.cur = Null]) /\ UNCHANGED cb
  <2>1. PICK g : g = [f EXCEPT !.prev = Top.nxt, !.cur = Null]
    OBVIOUS
  <2>2. g \in FrameType /\ IsWalk(g) /\ g.rest = Top.rest
    BY <1>2, <1>3, <2>1 DEF FrameType, IsWalk, OrNull
  <2>3. ShotsKept(cb, cb')
    BY <1>6, SameKept, KeptVc
  <2>4. QED
    BY <1>1, <1>2, <1>6, <2>1, <2>2, <2>3, TopHeld
<1>7. CASE Reap(f)
  <2>1. PICK g : g = [f EXCEPT !.cur = Null]
    OBVIOUS
  <2>2. stack' = WithTop(g) /\ cb' = [cb EXCEPT ![Top.nxt].st = "dead"]
    BY <1>3, <1>7, <2>1 DEF Reap, Delete
  <2>3. g \in FrameType /\ IsWalk(g) /\ g.rest = Top.rest
    BY <1>2, <1>3, <2>1 DEF FrameType, IsWalk, OrNull
  <2>4. /\ \A x \in Ids : x # Top.nxt => cb'[x] = cb[x]
        /\ cb'[Top.nxt].st = "dead"
    BY <1>2, <2>2, DeleteFacts
  <2>5. ShotsKept(cb, cb')
    BY <1>2, <2>4, Strings DEF ShotsKept
  <2>6. QED
    BY <1>1, <1>2, <2>2, <2>3, <2>4, <2>5, TopHeld
<1>8. QED
  <2>1. \/ UNCHANGED <<cb, stack>> \/ Execute(f) \/ Reap(f)
        \/ stack' = WithTop([f EXCEPT !.prev = Top.nxt, !.cur = Null]) /\ UNCHANGED cb
    BY <1>0 DEF NextCallback
  <2>2. QED
    BY <1>4, <1>5, <1>6, <1>7, <2>1

(* The scheduler calls a task or a callback, or goes on. *)
LEMMA SoloHeld ==
  ASSUME HInv, LInv',
         stack' = << >> \/ \E g : stack' = <<g>> /\ ~ IsWalk(g) /\ OuterHeld(cb', g),
         \A x \in Ids : cb'[x].st = "live" => Home(cb', sim', stack', phase', now', x)
  PROVE  HInv'
<1>1. Homes'
  BY DEF Homes
<1>2. CASE stack' = << >>
  BY <1>1, <1>2 DEF HInv, NoRests, OuterAtWork
<1>3. CASE \E g : stack' = <<g>> /\ ~ IsWalk(g) /\ OuterHeld(cb', g)
  <2>1. PICK g : stack' = <<g>> /\ ~ IsWalk(g) /\ OuterHeld(cb', g)
    BY <1>3
  <2>2. DOMAIN stack' = {1} /\ stack'[1] = g /\ Len(stack') = 1
    BY <2>1
  <2>3. NoRests' /\ OuterAtWork'
    BY <2>1, <2>2 DEF NoRests, OuterAtWork
  <2>4. QED
    BY <1>1, <2>3 DEF HInv
<1>4. QED
  BY <1>2, <1>3

(* Where callbacks are while the scheduler is in no sync_cb and no list. *)
LEMMA AtHome ==
  ASSUME HInv, NEW x \in Ids, cb[x].st = "live",
         stack # << >> => /\ stack[Len(stack)].fn # "sync_cb" \/ stack[Len(stack)].cur # x
                          /\ stack[Len(stack)].fn = "list" => /\ stack[Len(stack)].rest = << >>
                                                              /\ ~ stack[Len(stack)].run
  PROVE  /\ cb[x].why \in Kinds
         /\ cb[x].why \in Simulator => x \in Range(sim[cb[x].why])
         /\ cb[x].why \in Sync => InTime(cb[x], phase, now)
<1>1. Home(cb, sim, stack, phase, now, x)
  BY DEF HInv, Homes
<1>2. QED
  BY <1>1, RangeNone DEF Home, Queued, Serves

LEMMA TasksHeld ==
  ASSUME HInv, LInv', CallTask \/ TaskReturns
  PROVE  HInv'
<1>0. IInv /\ mode \in Modes /\ (stack = << >> => mode = "NONE")
  BY DEF HInv, LInv, IInv, Types, ModeOk
<1>1. CASE CallTask
  <2>1. PICK f, m : /\ f = [Frame("calltf", "", << >>, Null, Null) EXCEPT !.run = TRUE]
                    /\ m = IF phase = "load" THEN "COMPILETF" ELSE "CALLTF"
    OBVIOUS
  <2>2. f.fn = "calltf" /\ f.cur = Null /\ f.rest = << >>
    BY <2>1 DEF Frame
  <2>3. stack = << >> /\ stack' = <<f>> \o << >> /\ UNCHANGED <<cb, sim, phase, now>>
    BY <1>0, <1>1, <2>1 DEF CallTask, Idle, Enter
  <2>4. stack' = <<f>>
    BY <2>3
  <2>5. ~ IsWalk(f) /\ OuterHeld(cb', f)
    BY <2>2 DEF IsWalk, OuterHeld
  <2>6. ASSUME NEW x \in Ids, cb[x].st = "live" PROVE Home(cb, sim, stack', phase, now, x)
    BY <2>3, <2>6, AtHome DEF Home, Queued
  <2>7. QED
    BY <2>3, <2>4, <2>5, <2>6, SoloHeld
<1>2. CASE TaskReturns
  <2>1. /\ stack # << >> /\ Top.fn = "calltf" /\ stack' = Tail(stack)
        /\ UNCHANGED <<cb, sim, phase, now>>
    BY <1>2 DEF TaskReturns, In
  <2>2. stack' = << >> /\ stack[Len(stack)] = Top
    BY <1>0, <2>1, Alone DEF IsWalk
  <2>3. ASSUME NEW x \in Ids, cb[x].st = "live" PROVE Home(cb, sim, stack', phase, now, x)
    BY <2>1, <2>2, <2>3, AtHome DEF Home, Queued
  <2>4. QED
    BY <2>1, <2>2, <2>3, SoloHeld
<1>3. QED
  BY <1>1, <1>2

LEMMA RunSyncHeld ==
  ASSUME HInv, LInv', NEW i \in Ids, RunSync(i)
  PROVE  HInv'
<1>0. PICK f, m : /\ f = [Frame("sync_cb", "", << >>, Null, Null) EXCEPT !.cur = i, !.run = TRUE]
                  /\ m = IF Region(cb[i].why) = "ro" THEN "ROSYNC" ELSE "RWSYNC"
  OBVIOUS
<1>1. IInv /\ cb \in [Ids -> CallbackType] /\ mode \in Modes /\ (stack = << >> => mode = "NONE")
  BY DEF HInv, LInv, IInv, Types, ModeOk
<1>2. f.fn = "sync_cb" /\ f.cur = i /\ f.rest = << >>
  BY <1>0 DEF Frame
<1>3. /\ stack = << >> /\ cb[i].st = "live" /\ UNCHANGED <<sim, phase, now>>
      /\ IF cb[i].rtn
         THEN stack' = <<f>> \o << >> /\ cb' = [cb EXCEPT ![i].calls = @ + 1]
         ELSE stack' = stack /\ cb' = [cb EXCEPT ![i].st = "dead"]
      /\ Region(cb[i].why) \in {"start", "active", "rw", "ro"}
  BY <1>0, <1>1 DEF RunSync, Idle, Enter, Delete, Due
<1>4. cb[i].why \in Sync
  BY <1>3 DEF Region, Sync
<1>5. /\ \A x \in Ids : x # i => cb'[x] = cb[x]
      /\ cb'[i].why = cb[i].why /\ cb'[i].st = IF cb[i].rtn THEN "live" ELSE "dead"
  <2>1. CASE cb[i].rtn
    <3>1. cb' = [cb EXCEPT ![i].calls = @ + 1]
      BY <1>3, <2>1
    <3>2. /\ \A x \in Ids : x # i => cb'[x] = cb[x]
          /\ cb'[i].why = cb[i].why /\ cb'[i].st = cb[i].st
      BY <1>1, <3>1, CallsFacts
    <3>3. QED
      BY <1>3, <2>1, <3>2
  <2>2. CASE ~ cb[i].rtn
    <3>1. cb' = [cb EXCEPT ![i].st = "dead"]
      BY <1>3, <2>2
    <3>2. /\ \A x \in Ids : x # i => cb'[x] = cb[x]
          /\ cb'[i].why = cb[i].why /\ cb'[i].st = "dead"
      BY <1>1, <3>1, DeleteFacts
    <3>3. QED
      BY <2>2, <3>2
  <2>3. QED
    BY <2>1, <2>2
<1>6. ASSUME NEW x \in Ids, x # i, cb[x].st = "live" PROVE Home(cb', sim', stack', phase', now', x)
  BY <1>3, <1>5, <1>6, AtHome DEF Home, Queued
<1>7. CASE cb[i].rtn
  <2>1. stack' = <<f>>
    BY <1>3, <1>7
  <2>2. stack' # << >> /\ stack'[Len(stack')] = f
    BY <2>1
  <2>3. ~ IsWalk(f) /\ OuterHeld(cb', f)
    BY <1>2, <1>5, <1>7 DEF IsWalk, OuterHeld
  <2>4. Home(cb', sim', stack', phase', now', i)
    BY <1>2, <1>4, <1>5, <2>2, Strings DEF Home, Serves
  <2>5. QED
    BY <1>5, <1>6, <2>1, <2>3, <2>4, SoloHeld
<1>8. CASE ~ cb[i].rtn
  BY <1>3, <1>5, <1>6, <1>8, SoloHeld
<1>9. QED
  BY <1>7, <1>8

LEMMA SyncReturnsHeld ==
  ASSUME HInv, LInv', SyncReturns
  PROVE  HInv'
<1>0. PICK i : i = Top.cur
  OBVIOUS
<1>1. /\ stack # << >> /\ Top.fn = "sync_cb" /\ stack' = Tail(stack)
      /\ cb' = [cb EXCEPT ![i].st = "dead"] /\ UNCHANGED <<sim, phase, now>>
  BY <1>0 DEF SyncReturns, In, Delete
<1>2. /\ stack' = << >> /\ stack[Len(stack)] = Top
      /\ OuterOk(cb, sim["NextSimTime"], now, phase, Top)
  BY <1>1, Alone DEF IsWalk, HInv, LInv
<1>3. i \in Ids /\ cb \in [Ids -> CallbackType]
  BY <1>0, <1>1, <1>2 DEF OuterOk, SyncOk, HInv, LInv, IInv, Types
<1>4. cb'[i].st = "dead" /\ \A x \in Ids : x # i => cb'[x] = cb[x]
  BY <1>1, <1>3, DeleteFacts
<1>5. ASSUME NEW x \in Ids, x # i, cb[x].st = "live" PROVE Home(cb', sim', stack', phase', now', x)
  BY <1>0, <1>1, <1>2, <1>4, <1>5, AtHome DEF Home, Queued
<1>6. QED
  BY <1>2, <1>4, <1>5, SoloHeld

LEMMA RunListHeld ==
  ASSUME HInv, LInv', NEW r \in Simulator, RunList(r)
  PROVE  HInv'
<1>0. PICK l : l = IF r = "NextSimTime" THEN sim[r] ELSE << >>
  OBVIOUS
<1>1. PICK f, m : /\ f = Frame("list", r, l, Null, Null)
                  /\ m = IF r = "EndOfSimulation" THEN "ROSYNC" ELSE "RWSYNC"
  OBVIOUS
<1>2. /\ mode \in Modes /\ (stack = << >> => mode = "NONE") /\ sim \in [Simulator -> Seq(Ids)]
  BY DEF HInv, LInv, IInv, Types, ModeOk
<1>3. f.fn = "list" /\ f.rest = l /\ f.run = FALSE /\ f.cur = Null
  BY <1>1 DEF Frame
<1>4. /\ stack = << >> /\ stack' = <<f>> \o << >> /\ UNCHANGED <<cb, phase, now>>
      /\ sim' = IF r = "NextSimTime" THEN [sim EXCEPT ![r] = << >>] ELSE sim
  BY <1>0, <1>1, <1>2 DEF RunList, Idle, Enter
<1>5. stack' = <<f>>
  BY <1>4
<1>6. stack' # << >> /\ stack'[Len(stack')] = f
  BY <1>5
<1>7. ~ IsWalk(f) /\ OuterHeld(cb', f)
  BY <1>3 DEF IsWalk, OuterHeld
<1>8. ASSUME NEW x \in Ids, cb[x].st = "live" PROVE Home(cb', sim', stack', phase', now', x)
  <2>1. /\ cb[x].why \in Kinds
        /\ cb[x].why \in Simulator => x \in Range(sim[cb[x].why])
        /\ cb[x].why \in Sync => InTime(cb[x], phase, now)
    BY <1>4, <1>8, AtHome
  <2>2. ASSUME cb[x].why \in Simulator PROVE Queued(sim', stack', x, cb[x].why)
    <3>1. CASE cb[x].why = r /\ r = "NextSimTime"
      BY <1>0, <1>3, <1>6, <2>1, <2>2, <3>1 DEF Queued
    <3>2. CASE ~ (cb[x].why = r /\ r = "NextSimTime")
      <4>1. sim'[cb[x].why] = sim[cb[x].why]
        BY <1>2, <1>4, <2>2, <3>2
      <4>2. QED
        BY <2>1, <2>2, <4>1 DEF Queued
    <3>3. QED
      BY <3>1, <3>2
  <2>3. QED
    BY <1>4, <2>1, <2>2 DEF Home
<1>9. QED
  BY <1>4, <1>5, <1>7, <1>8, SoloHeld

LEMMA RangeRest ==
  ASSUME NEW S, NEW s \in Seq(S), s # << >>
  PROVE  Range(s) \subseteq {Head(s)} \cup Range(Tail(s))
<1>1. /\ Tail(s) \in Seq(S) /\ Head(s) = s[1] /\ Len(s) \in Nat \ {0}
      /\ Len(Tail(s)) = Len(s) - 1 /\ \A k \in 1..(Len(s) - 1) : Tail(s)[k] = s[k + 1]
  BY HeadTail
<1>2. PICK t : t = Tail(s)
  OBVIOUS
<1>3. t \in Seq(S) /\ Len(t) = Len(s) - 1 /\ \A k \in 1..(Len(s) - 1) : t[k] = s[k + 1]
  BY <1>1, <1>2
<1>4. DOMAIN t = 1..(Len(s) - 1) /\ DOMAIN s = 1..Len(s)
  BY <1>3
<1>5. ASSUME NEW k \in DOMAIN s, k # 1 PROVE k - 1 \in DOMAIN t /\ s[k] = t[k - 1]
  <2>1. k \in Nat /\ k - 1 \in 1..(Len(s) - 1) /\ (k - 1) + 1 = k
    BY <1>1, <1>4, <1>5
  <2>2. t[k - 1] = s[(k - 1) + 1]
    BY <1>3, <2>1
  <2>3. QED
    BY <1>4, <2>1, <2>2
<1>6. Range(s) \subseteq {s[1]} \cup Range(t)
  BY <1>5 DEF Range
<1>7. QED
  BY <1>1, <1>2, <1>6

LEMMA NextOfListHeld ==
  ASSUME HInv, LInv', NextOfList
  PROVE  HInv'
<1>0. PICK i, f : /\ i = Head(Left)
                  /\ f = IF Top.why = "NextSimTime" THEN [Top EXCEPT !.rest = Tail(@)] ELSE Top
  OBVIOUS
<1>1. PICK g : g = IF cb[i].rtn THEN [f EXCEPT !.cur = i, !.run = TRUE] ELSE f
  OBVIOUS
<1>2. /\ stack # << >> /\ Top.fn = "list" /\ ~ Top.run /\ Left # << >>
      /\ sim' = IF Top.why = "NextSimTime" THEN sim ELSE [sim EXCEPT ![Top.why] = Tail(@)]
      /\ stack' = WithTop(g)
      /\ cb' = IF cb[i].rtn THEN [cb EXCEPT ![i].calls = @ + 1] ELSE [cb EXCEPT ![i].st = "dead"]
      /\ UNCHANGED <<phase, now>>
  BY <1>0, <1>1 DEF NextOfList, In, Delete
<1>3. /\ IInv /\ OuterAtWork /\ cb \in [Ids -> CallbackType] /\ sim \in [Simulator -> Seq(Ids)]
      /\ SimOk
  BY DEF HInv, LInv, IInv, Types
<1>4. /\ Top \in FrameType /\ stack[Len(stack)] = Top /\ \A h : WithTop(h) = <<h>>
      /\ OuterOk(cb, sim["NextSimTime"], now, phase, Top)
  BY <1>2, <1>3, Alone DEF IsWalk
<1>5. /\ ListOk(cb, sim["NextSimTime"], now, Top) /\ Top.why \in Simulator
      /\ Top.cur = Null /\ Top.rest \in Seq(Ids)
  BY <1>2, <1>3, <1>4, FrameFields DEF OuterOk, ListOk, OuterAtWork, OuterHeld
<1>6. Left \in Seq(Ids)
  BY <1>3, <1>5 DEF Left
<1>7. /\ i \in Ids /\ i \in Range(Left) /\ Tail(Left) \in Seq(Ids)
      /\ Range(Left) \subseteq {i} \cup Range(Tail(Left))
  BY <1>0, <1>2, <1>6, HeadTail, RangeTail, RangeRest
<1>8. Waits(cb, i, Top.why)
  <2>1. CASE Top.why = "NextSimTime"
    BY <1>5, <1>7, <2>1 DEF Left, ListOk
  <2>2. CASE Top.why # "NextSimTime"
    BY <1>3, <1>5, <1>7, <2>2 DEF Left, SimOk
  <2>3. QED
    BY <2>1, <2>2
<1>9. cb[i].st = "live" /\ cb[i].why = Top.why
  BY <1>8 DEF Waits
<1>10. /\ \A x \in Ids : x # i => cb'[x] = cb[x]
       /\ cb'[i].why = cb[i].why /\ cb'[i].st = IF cb[i].rtn THEN "live" ELSE "dead"
  <2>1. CASE cb[i].rtn
    BY <1>2, <1>3, <1>7, <1>9, <2>1, CallsFacts
  <2>2. CASE ~ cb[i].rtn
    BY <1>2, <1>3, <1>7, <2>2, DeleteFacts
  <2>3. QED
    BY <2>1, <2>2
<1>11. /\ f \in FrameType /\ f.fn = "list" /\ f.cur = Null /\ f.run = FALSE
       /\ f.rest = IF Top.why = "NextSimTime" THEN Tail(Left) ELSE Top.rest
  <2>1. Top.run = FALSE
    BY <1>2, <1>4, FrameFields
  <2>2. CASE Top.why = "NextSimTime"
    <3>1. Left = Top.rest /\ f = [Top EXCEPT !.rest = Tail(Left)]
      BY <1>0, <2>2 DEF Left
    <3>2. QED
      BY <1>2, <1>4, <1>5, <1>7, <2>1, <2>2, <3>1 DEF FrameType
  <2>3. CASE Top.why # "NextSimTime"
    BY <1>0, <1>2, <1>4, <1>5, <2>1, <2>3
  <2>4. QED
    BY <2>2, <2>3
<1>12. /\ g.fn = "list" /\ g.rest = f.rest
       /\ IF cb[i].rtn THEN g.run /\ g.cur = i ELSE ~ g.run /\ g.cur = Null
  <2>1. /\ [f EXCEPT !.cur = i, !.run = TRUE].fn = "list"
        /\ [f EXCEPT !.cur = i, !.run = TRUE].rest = f.rest
        /\ [f EXCEPT !.cur = i, !.run = TRUE].run
        /\ [f EXCEPT !.cur = i, !.run = TRUE].cur = i
    BY <1>11 DEF FrameType
  <2>2. QED
    BY <1>1, <1>11, <2>1
<1>13. stack' = <<g>> /\ stack' # << >> /\ stack'[Len(stack')] = g
  <2>1. stack' = <<g>>
    BY <1>2, <1>4
  <2>2. QED
    BY <2>1
<1>14. ~ IsWalk(g) /\ OuterHeld(cb', g)
  BY <1>10, <1>12 DEF IsWalk, OuterHeld
<1>15. ASSUME NEW x \in Ids, cb'[x].st = "live" PROVE Home(cb', sim', stack', phase', now', x)
  <2>1. CASE x = i
    <3>1. Queued(sim', stack', x, cb[x].why)
      BY <1>10, <1>12, <1>13, <1>15, <2>1 DEF Queued
    <3>2. QED
      BY <1>5, <1>9, <1>10, <2>1, <3>1, Strings DEF Home
  <2>2. CASE x # i
    <3>1. cb'[x] = cb[x] /\ cb[x].st = "live"
      BY <1>10, <1>15, <2>2
    <3>2. Home(cb, sim, stack, phase, now, x)
      BY <3>1 DEF HInv, Homes
    <3>3. ~ Serves(stack, x)
      BY <1>2, <1>4 DEF Serves
    <3>4. ASSUME cb[x].why \in Simulator PROVE Queued(sim', stack', x, cb[x].why)
      <4>1. x \in Range(sim[cb[x].why]) \/ x \in Range(Top.rest)
        BY <1>2, <1>4, <3>2, <3>4 DEF Home, Queued
      <4>2. CASE Top.why = "NextSimTime"
        <5>1. sim' = sim /\ Left = Top.rest /\ g.rest = Tail(Left)
          BY <1>2, <1>11, <1>12, <4>2 DEF Left
        <5>2. x \in Range(Top.rest) => x \in Range(g.rest)
          BY <1>7, <2>2, <5>1
        <5>3. QED
          BY <1>12, <1>13, <4>1, <5>1, <5>2 DEF Queued
      <4>3. CASE Top.why # "NextSimTime"
        <5>1. Top.rest = << >> /\ Left = sim[Top.why]
          BY <1>5, <4>3 DEF ListOk, Left
        <5>2. x \in Range(sim[cb[x].why])
          BY <4>1, <5>1, RangeNone
        <5>3. x \in Range(sim'[cb[x].why])
          <6>1. CASE cb[x].why = Top.why
            <7>1. sim'[Top.why] = Tail(Left)
              BY <1>2, <1>3, <1>5, <4>3, <5>1
            <7>2. QED
              BY <1>7, <2>2, <5>1, <5>2, <6>1, <7>1
          <6>2. CASE cb[x].why # Top.why
            BY <1>2, <1>3, <1>5, <3>4, <4>3, <5>2, <6>2
          <6>3. QED
            BY <6>1, <6>2
        <5>4. QED
          BY <5>3 DEF Queued
      <4>4. QED
        BY <4>2, <4>3
    <3>5. QED
      BY <1>2, <3>1, <3>2, <3>3, <3>4 DEF Home
  <2>3. QED
    BY <2>1, <2>2
<1>16. QED
  BY <1>13, <1>14, <1>15, SoloHeld

LEMMA ListReturnsHeld ==
  ASSUME HInv, LInv', ListRoutineReturns
  PROVE  HInv'
<1>0. PICK i, g : i = Top.cur /\ g = [Top EXCEPT !.run = FALSE, !.cur = Null]
  OBVIOUS
<1>1. /\ stack # << >> /\ Top.fn = "list" /\ Top.run /\ stack' = WithTop(g)
      /\ cb' = [cb EXCEPT ![i].st = "dead"] /\ UNCHANGED <<sim, phase, now>>
  BY <1>0 DEF ListRoutineReturns, In, Delete
<1>2. IInv /\ cb \in [Ids -> CallbackType]
  BY DEF HInv, LInv, IInv, Types
<1>3. /\ Top \in FrameType /\ stack[Len(stack)] = Top /\ \A h : WithTop(h) = <<h>>
      /\ OuterOk(cb, sim["NextSimTime"], now, phase, Top)
  BY <1>1, <1>2, Alone DEF IsWalk
<1>4. i \in Ids
  BY <1>0, <1>1, <1>3 DEF OuterOk, ListOk
<1>5. cb'[i].st = "dead" /\ \A x \in Ids : x # i => cb'[x] = cb[x]
  BY <1>1, <1>2, <1>4, DeleteFacts
<1>6. g.fn = "list" /\ g.rest = Top.rest /\ g.run = FALSE /\ g.cur = Null
  BY <1>0, <1>1, <1>3 DEF FrameType
<1>7. stack' = <<g>> /\ stack' # << >> /\ stack'[Len(stack')] = g
  <2>1. stack' = <<g>>
    BY <1>1, <1>3
  <2>2. QED
    BY <2>1
<1>8. ~ IsWalk(g) /\ OuterHeld(cb', g)
  BY <1>6 DEF IsWalk, OuterHeld
<1>9. ASSUME NEW x \in Ids, cb'[x].st = "live" PROVE Home(cb', sim', stack', phase', now', x)
  <2>1. x # i /\ cb'[x] = cb[x] /\ cb[x].st = "live"
    BY <1>5, <1>9
  <2>2. Home(cb, sim, stack, phase, now, x)
    BY <2>1 DEF HInv, Homes
  <2>3. ~ Serves(stack, x)
    BY <1>1, <1>3 DEF Serves
  <2>4. Queued(sim, stack, x, cb[x].why) => Queued(sim', stack', x, cb[x].why)
    BY <1>0, <1>1, <1>3, <1>6, <1>7, <2>1 DEF Queued
  <2>5. QED
    BY <1>1, <2>1, <2>2, <2>3, <2>4 DEF Home
<1>10. QED
  BY <1>7, <1>8, <1>9, SoloHeld

LEMMA ListEndsHeld ==
  ASSUME HInv, LInv', ListEnds
  PROVE  HInv'
<1>1. /\ stack # << >> /\ Top.fn = "list" /\ ~ Top.run /\ Left = << >>
      /\ stack' = Tail(stack) /\ phase' = After(phase) /\ UNCHANGED <<cb, sim, now>>
  BY DEF ListEnds, In
<1>2. /\ stack' = << >> /\ stack[Len(stack)] = Top
      /\ OuterOk(cb, sim["NextSimTime"], now, phase, Top)
  BY <1>1, Alone DEF IsWalk, HInv, LInv
<1>3. /\ Top.rest = << >> /\ phase \in {"endofcompile", "startofsim", "nextsim", "postsim"}
  BY <1>1, <1>2 DEF OuterOk, ListOk, Left
<1>4. /\ phase' # "ro" /\ (phase' \notin {"nextsim", "start"} => phase \notin {"nextsim", "start"})
  BY <1>1, <1>3 DEF After
<1>5. ASSUME NEW x \in Ids, cb[x].st = "live" PROVE Home(cb', sim', stack', phase', now', x)
  <2>1. /\ cb[x].why \in Kinds
        /\ cb[x].why \in Simulator => x \in Range(sim[cb[x].why])
        /\ cb[x].why \in Sync => InTime(cb[x], phase, now)
    BY <1>1, <1>2, <1>3, <1>5, AtHome
  <2>2. InTime(cb[x], phase, now) => InTime(cb[x], phase', now)
    BY <1>4 DEF InTime
  <2>3. QED
    BY <1>1, <2>1, <2>2 DEF Home, Queued
<1>6. QED
  BY <1>1, <1>2, <1>5, SoloHeld

LEMMA AdvanceHeld ==
  ASSUME HInv, LInv', Advance
  PROVE  HInv'
<1>1. stack = << >> /\ UNCHANGED <<cb, sim, stack>>
  BY DEF Advance, Idle
<1>2. now \in Nat /\ cb \in [Ids -> CallbackType] /\ MaxTime \in Nat
  BY CallbackAssumption DEF HInv, LInv, IInv, Types
<1>3. ASSUME NEW x \in Ids, cb[x].st = "live" PROVE Home(cb', sim', stack', phase', now', x)
  <2>1. /\ cb[x].why \in Kinds
        /\ cb[x].why \in Simulator => x \in Range(sim[cb[x].why])
        /\ cb[x].why \in Sync => InTime(cb[x], phase, now)
    BY <1>1, <1>3, AtHome
  <2>2. ASSUME cb[x].why \in Sync PROVE InTime(cb[x], phase', now')
    <3>1. PICK r, d : r = Region(cb[x].why) /\ d = cb[x].due
      OBVIOUS
    <3>2. d \in Nat /\ r \in {"start", "active", "rw", "ro"}
      <4>1. cb[x] \in CallbackType
        BY <1>2
      <4>2. d \in 0..MaxTime
        BY <3>1, <4>1, CallbackFields
      <4>3. QED
        BY <1>2, <2>2, <3>1, <4>2, RegionOfSync
    <3>3. /\ d >= now /\ (r = "start" /\ phase \notin {"nextsim", "start"} => d > now)
          /\ (r \in {"active", "rw"} /\ phase = "ro" => d > now)
      BY <2>1, <2>2, <3>1 DEF InTime
    <3>4. \A q : Due(q) = {} /\ r = q => d # now
      BY <1>3, <3>1 DEF Due
    <3>5. /\ d >= now' /\ (r = "start" /\ phase' \notin {"nextsim", "start"} => d > now')
          /\ (r \in {"active", "rw"} /\ phase' = "ro" => d > now')
      <4>1. CASE phase = "load" /\ phase' = "endofcompile" /\ UNCHANGED now
        BY <3>3, <4>1
      <4>2. CASE phase = "start" /\ Due("start") = {} /\ phase' = "run" /\ UNCHANGED now
        BY <1>2, <3>2, <3>3, <3>4, <4>2
      <4>3. CASE /\ phase = "run" /\ Due("active") = {} /\ Due("rw") = {} /\ phase' = "ro"
                 /\ UNCHANGED now
        BY <1>2, <3>2, <3>3, <3>4, <4>3
      <4>4. CASE phase = "ro" /\ Due("ro") = {} /\ phase' = "nextsim" /\ now' = now + 1
        <5>1. d > now
          BY <1>2, <3>2, <3>3, <3>4, <4>4
        <5>2. QED
          BY <1>2, <3>2, <4>4, <5>1
      <4>5. CASE phase = "ro" /\ phase' = "postsim" /\ UNCHANGED now
        BY <3>3, <4>5
      <4>6. QED
        BY <4>1, <4>2, <4>3, <4>4, <4>5 DEF Advance
    <3>6. QED
      BY <3>1, <3>5 DEF InTime
  <2>3. QED
    BY <1>1, <2>1, <2>2 DEF Home, Queued
<1>4. QED
  BY <1>1, <1>3, SoloHeld

LEMMA InitHInv == Init => HInv
<1> SUFFICES ASSUME Init PROVE HInv
  OBVIOUS
<1>1. LInv /\ stack = << >>
  BY InitLInv DEF Init
<1>2. \A i \in Ids : cb[i].st = "unused"
  BY UnusedType, CallbackAssumption DEF Init
<1>3. QED
  BY <1>1, <1>2 DEF HInv, Homes, NoRests, OuterAtWork

LEMMA NextHInv == HInv /\ [Next]_vars => HInv'
<1> SUFFICES ASSUME HInv, [Next]_vars PROVE HInv'
  OBVIOUS
<1>0. LInv'
  BY NextLInv DEF HInv
<1>1. CASE Client
  BY <1>0, <1>1, RegisteredHeld, RemovedHeld, PutHeld DEF Client
<1>2. CASE NextCallback \/ CallbackReturns \/ WalkEnds
  BY <1>0, <1>2, NextCallbackHeld, ReturnsHeld, WalkEndsHeld
<1>3. CASE \E s \in Signals, b \in 1..2 : Assign(s, b)
  BY <1>0, <1>3, PutHeld
<1>4. CASE \/ CallTask \/ TaskReturns \/ SyncReturns \/ NextOfList \/ ListRoutineReturns
           \/ ListEnds \/ Advance
           \/ \E i \in Ids : RunSync(i)
           \/ \E r \in Simulator : RunList(r)
  BY <1>0, <1>4, TasksHeld, SyncReturnsHeld, NextOfListHeld, ListReturnsHeld, ListEndsHeld,
     AdvanceHeld, RunSyncHeld, RunListHeld
<1>5. CASE UNCHANGED vars
  BY <1>0, <1>5 DEF HInv, Homes, NoRests, OuterAtWork, vars
<1>6. QED
  BY <1>1, <1>2, <1>3, <1>4, <1>5 DEF Next

(* A one-shot callback that is not deleted is in the list of its phase, in *)
(* the list that the phase works off, at work, or scheduled for a region   *)
(* of a time step that is not over (make_prepost, make_sync,               *)
(* vpiNextSimTime and sync_cb::run_run, vvp/vpi_callback.cc).              *)
THEOREM HomesInvariant == Spec => []HInv
<1>1. QED
  BY InitHInv, NextHInv, PTL DEF Spec

LEMMA TypesOk ==
  ASSUME Types
  PROVE  TypeOK
<1>1. \A i \in Ids : cb[i].st \in {"unused", "live", "dead"} /\ cb[i].rtn \in BOOLEAN
  <2>1. \A i \in Ids : cb[i] \in CallbackType
    BY DEF Types
  <2>2. QED
    BY <2>1, CallbackFields
<1>2. /\ head \in [Signals -> Ids \cup {Null}] /\ next \in [Ids -> Ids \cup {Null}]
      /\ \A r \in Simulator : sim[r] \in Seq(Ids)
      /\ value \in [Signals -> [1..2 -> {0, 1}]]
      /\ mode \in {"NONE", "COMPILETF", "CALLTF", "RWSYNC", "ROSYNC"}
      /\ now \in 0..MaxTime /\ ops \in 0..MaxOps
      /\ aborted \in BOOLEAN /\ uaf \in BOOLEAN /\ reaped \in BOOLEAN
  BY DEF Types, OrNull, Modes
<1>3. QED
  BY <1>1, <1>2 DEF TypeOK

(* What any list or call in progress has is live. *)
LEMMA HeldIsLive ==
  ASSUME HInv, ~ reaped, NEW i \in Ids,
         \/ \E s \in Signals : i \in List(s)
         \/ \E r \in Simulator : i \in Range(sim[r])
         \/ \E k \in DOMAIN stack : i \in Range(stack[k].rest)
         \/ \E k \in DOMAIN stack : i = stack[k].cur
  PROVE  cb[i].st = "live"
<1>0. /\ IInv /\ Chains /\ SimOk /\ NoRests /\ OuterAtWork /\ WalksLive /\ Null \notin Ids
      /\ Nested /\ Outermost
  BY CallbackAssumption DEF HInv, LInv, IInv, Undisturbed
<1>1. CASE \E s \in Signals : i \in List(s)
  BY <1>0, <1>1, ListMembers DEF Listens
<1>2. CASE \E r \in Simulator : i \in Range(sim[r])
  BY <1>0, <1>2 DEF SimOk, Waits
<1>3. CASE \E k \in DOMAIN stack : i \in Range(stack[k].rest) \/ i = stack[k].cur
  <2>1. PICK k \in DOMAIN stack : i \in Range(stack[k].rest) \/ i = stack[k].cur
    BY <1>3
  <2>2. CASE IsWalk(stack[k])
    <3>1. i = stack[k].cur
      BY <1>0, <2>1, <2>2, RangeNone DEF NoRests
    <3>2. QED
      BY <1>0, <2>2, <3>1 DEF WalksLive, WalkLive
  <2>3. CASE ~ IsWalk(stack[k])
    <3>0. PICK f : f = stack[k]
      OBVIOUS
    <3>1. f = stack[Len(stack)] /\ stack # << >>
      <4>1. ~ k < Len(stack) /\ k \in 1..Len(stack) /\ Len(stack) \in Nat
        BY <1>0, <2>3, StackTypes DEF Nested
      <4>2. k = Len(stack)
        BY <4>1
      <4>3. QED
        BY <3>0, <4>1, <4>2
    <3>2. OuterHeld(cb, f) /\ OuterOk(cb, sim["NextSimTime"], now, phase, f)
      BY <1>0, <3>1 DEF OuterAtWork, Outermost
    <3>3. f.fn \in {"calltf", "sync_cb", "list"}
      BY <1>0, <2>3, <3>0, StackTypes, FrameFields DEF IsWalk
    <3>4. CASE i \in Range(f.rest)
      <4>1. f.fn = "list"
        BY <3>2, <3>4, RangeNone DEF OuterHeld
      <4>2. QED
        BY <3>2, <3>4, <4>1 DEF OuterOk, ListOk, Waits
    <3>5. CASE i = f.cur
      BY <1>0, <3>2, <3>3, <3>5 DEF OuterHeld
    <3>6. QED
      BY <2>1, <3>0, <3>4, <3>5
  <2>4. QED
    BY <2>2, <2>3
<1>4. QED
  BY <1>1, <1>2, <1>3

(* A live callback is in a list, at work, or due now or later. *)
LEMMA LiveIsHeld ==
  ASSUME HInv, NEW i \in Ids, cb[i].st = "live"
  PROVE  \/ \E s \in Signals : i \in List(s)
         \/ \E r \in Simulator : i \in Range(sim[r])
         \/ \E k \in DOMAIN stack : i \in Range(stack[k].rest)
         \/ \E k \in DOMAIN stack : i = stack[k].cur
         \/ cb[i].why \in Sync /\ cb[i].due >= now
<1>1. Home(cb, sim, stack, phase, now, i) /\ Chains /\ IInv
  BY DEF HInv, LInv, Homes
<1>2. stack # << >> => Len(stack) \in DOMAIN stack
  BY <1>1, StackTypes
<1>3. CASE cb[i].why = "ValueChange"
  BY <1>1, <1>3 DEF Chains, Listens
<1>4. CASE cb[i].why \in Simulator
  BY <1>1, <1>2, <1>4 DEF Home, Queued
<1>5. CASE cb[i].why \in Sync
  BY <1>1, <1>2, <1>5 DEF Home, Serves, InTime
<1>6. QED
  BY <1>1, <1>3, <1>4, <1>5 DEF Home, Kinds

(* No callback is lost and none is kept after its end: what make_sync,     *)
(* make_prepost and make_value_change create is in a list, scheduled or at *)
(* work until sync_cb::run_run, the lists of the phases or                 *)
(* run_vpi_callbacks delete it, and is then in none of them, as long as no *)
(* inner walk deletes a callback of a list that an outer walk is in        *)
(* (vvp/vpi_callback.cc).                                                  *)
THEOREM NothingLost == Spec => []Held
<1>1. ASSUME HInv PROVE Held
  <2>1. TypeOK
    BY <1>1, TypesOk DEF HInv, LInv, IInv
  <2>2. Null \notin Ids
    BY CallbackAssumption
  <2>3. ASSUME ~ reaped, NEW i \in Ids
        PROVE  cb[i].st = "live" <=>
                 \/ \E s \in Signals : i \in List(s)
                 \/ \E r \in Simulator : i \in Range(sim[r])
                 \/ \E k \in DOMAIN stack : i \in Range(stack[k].rest)
                 \/ \E k \in DOMAIN stack : i = stack[k].cur
                 \/ cb[i].why \in Sync /\ cb[i].st = "live" /\ cb[i].due >= now
    BY <1>1, <2>3, HeldIsLive, LiveIsHeld
  <2> DEFINE signals == UNION {List(s) : s \in Signals}
             phases == UNION {Range(sim[r]) : r \in Simulator}
             calls == UNION {Range(stack[k].rest) : k \in DOMAIN stack}
             listed == signals \cup phases \cup calls
             atwork == {stack[k].cur : k \in DOMAIN stack} \ {Null}
             pending == {i \in Ids : cb[i].why \in Sync /\ cb[i].st = "live" /\ cb[i].due >= now}
  <2>4. ASSUME ~ reaped, NEW i \in Ids
        PROVE  cb[i].st = "live" <=> i \in listed \cup atwork \cup pending
    <3>1. /\ i \in signals <=> \E s \in Signals : i \in List(s)
          /\ i \in phases <=> \E r \in Simulator : i \in Range(sim[r])
          /\ i \in calls <=> \E k \in DOMAIN stack : i \in Range(stack[k].rest)
      OBVIOUS
    <3>2. i \in atwork <=> \E k \in DOMAIN stack : i = stack[k].cur
      BY <2>2
    <3>3. i \in pending <=> cb[i].why \in Sync /\ cb[i].st = "live" /\ cb[i].due >= now
      OBVIOUS
    <3> HIDE DEF signals, phases, calls, atwork, pending
    <3>4. QED
      BY <2>3, <2>4, <3>1, <3>2, <3>3
  <2>5. QED
    BY <2>1, <2>4, Zenon DEF Held
<1>2. QED
  BY <1>1, HomesInvariant, PTL

=============================================================================
