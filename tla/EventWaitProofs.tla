-------------------------- MODULE EventWaitProofs --------------------------
(***************************************************************************)
(* Proofs about EventWait, for any number of signals, functors, threads    *)
(* and contexts and any nesting of the walks: no event is missed, threads  *)
(* wake by their events only, and event controls count exactly.            *)
(***************************************************************************)
EXTENDS EventWait, FiniteSetTheorems, TLAPS

-----------------------------------------------------------------------------
(* The stack of calls. *)

LEMMA PutFront ==
  ASSUME NEW S, NEW s \in Seq(S), NEW x \in S
  PROVE  /\ <<x>> \o s \in Seq(S) /\ <<x>> \o s # << >>
         /\ Len(<<x>> \o s) = Len(s) + 1 /\ Len(s) \in Nat
         /\ (<<x>> \o s)[1] = x
         /\ \A k \in 2..(Len(s) + 1) : (<<x>> \o s)[k] = s[k - 1]
         /\ Head(<<x>> \o s) = x /\ Tail(<<x>> \o s) = s
  OBVIOUS

(* Where the elements of <<x>> \o s are. *)
InFront(r, x, s) ==
  /\ 1 \in DOMAIN r /\ r[1] = x /\ DOMAIN s \subseteq Nat \ {0} /\ DOMAIN r \subseteq Nat
  /\ \A k \in DOMAIN s : k + 1 \in DOMAIN r /\ r[k + 1] = s[k]
  /\ \A k \in DOMAIN r : k = 1 \/ \E j \in DOMAIN s : k = j + 1 /\ r[k] = s[j]

LEMMA FrontAt ==
  ASSUME NEW S, NEW s \in Seq(S), NEW x \in S
  PROVE  InFront(<<x>> \o s, x, s)
<1> DEFINE r == <<x>> \o s
<1>1. /\ r \in Seq(S) /\ Len(r) = Len(s) + 1 /\ Len(s) \in Nat /\ r[1] = x
      /\ \A k \in 2..(Len(s) + 1) : r[k] = s[k - 1]
  BY PutFront
<1> HIDE DEF r
<1>2. DOMAIN r = 1..(Len(s) + 1) /\ DOMAIN s = 1..Len(s)
  BY <1>1
<1>3. ASSUME NEW k \in DOMAIN r, k # 1 PROVE \E j \in DOMAIN s : k = j + 1 /\ r[k] = s[j]
  <2>1. k - 1 \in DOMAIN s /\ k = (k - 1) + 1 /\ r[k] = s[k - 1]
    BY <1>1, <1>2, <1>3
  <2>2. QED
    BY <2>1
<1>4. ASSUME NEW k \in DOMAIN s PROVE k + 1 \in DOMAIN r /\ r[k + 1] = s[k]
  <2>1. k + 1 \in 2..(Len(s) + 1) /\ (k + 1) - 1 = k
    BY <1>1, <1>2
  <2>2. QED
    BY <1>1, <1>2, <2>1
<1>5. QED
  BY <1>1, <1>2, <1>3, <1>4 DEF InFront, r

LEMMA RangeFront ==
  ASSUME NEW S, NEW s \in Seq(S), NEW x \in S
  PROVE  Range(<<x>> \o s) = {x} \cup Range(s)
<1>1. PICK r : r = <<x>> \o s
  OBVIOUS
<1>2. /\ 1 \in DOMAIN r /\ r[1] = x /\ DOMAIN s \subseteq Nat \ {0} /\ DOMAIN r \subseteq Nat
      /\ \A k \in DOMAIN s : k + 1 \in DOMAIN r /\ r[k + 1] = s[k]
      /\ \A k \in DOMAIN r : k = 1 \/ \E j \in DOMAIN s : k = j + 1 /\ r[k] = s[j]
  <2>1. InFront(r, x, s)
    BY <1>1, FrontAt
  <2>2. QED
    BY <2>1 DEF InFront
<1>3. Range(r) = {x} \cup Range(s)
  BY <1>2 DEF Range
<1>4. QED
  BY <1>1, <1>3

LEMMA Split ==
  ASSUME NEW S, NEW s \in Seq(S), s # << >>
  PROVE  /\ Head(s) \in S /\ Tail(s) \in Seq(S) /\ s = <<Head(s)>> \o Tail(s)
         /\ Range(s) = {Head(s)} \cup Range(Tail(s))
<1>1. /\ Head(s) \in S /\ Tail(s) \in Seq(S) /\ s = <<Head(s)>> \o Tail(s)
  OBVIOUS
<1>2. QED
  BY <1>1, RangeFront

LEMMA ClashSym ==
  ASSUME NEW f, NEW g
  PROVE  Clash(f, g) <=> Clash(g, f)
  BY DEF Clash

LEMMA OnceFront ==
  ASSUME NEW s \in Seq(Frame), NEW f \in Frame
  PROVE  OnceEach(<<f>> \o s) <=> OnceEach(s) /\ \A g \in Range(s) : ~ Clash(f, g)
<1>1. PICK r : r = <<f>> \o s
  OBVIOUS
<1>2. /\ 1 \in DOMAIN r /\ r[1] = f /\ DOMAIN s \subseteq Nat \ {0} /\ DOMAIN r \subseteq Nat
      /\ \A k \in DOMAIN s : k + 1 \in DOMAIN r /\ r[k + 1] = s[k]
      /\ \A k \in DOMAIN r : k = 1 \/ \E j \in DOMAIN s : k = j + 1 /\ r[k] = s[j]
  <2>1. InFront(r, f, s)
    BY <1>1, FrontAt
  <2>2. QED
    BY <2>1 DEF InFront
<1>3. ASSUME OnceEach(r) PROVE OnceEach(s) /\ \A g \in Range(s) : ~ Clash(f, g)
  <2>1. ASSUME NEW i \in DOMAIN s, NEW j \in DOMAIN s, i # j PROVE ~ Clash(s[i], s[j])
    <3>1. i + 1 # j + 1 /\ i + 1 \in DOMAIN r /\ j + 1 \in DOMAIN r
      BY <1>2, <2>1
    <3>2. ~ Clash(r[i + 1], r[j + 1])
      BY <1>3, <3>1 DEF OnceEach
    <3>3. QED
      BY <1>2, <3>2
  <2>2. ASSUME NEW i \in DOMAIN s PROVE ~ Clash(f, s[i])
    <3>1. 1 # i + 1 /\ i + 1 \in DOMAIN r
      BY <1>2
    <3>2. ~ Clash(r[1], r[i + 1])
      BY <1>2, <1>3, <3>1 DEF OnceEach
    <3>3. QED
      BY <1>2, <3>2
  <2>3. QED
    BY <2>1, <2>2 DEF OnceEach, Range
<1>4. ASSUME OnceEach(s), \A g \in Range(s) : ~ Clash(f, g) PROVE OnceEach(r)
  <2>1. ASSUME NEW i \in DOMAIN r, NEW j \in DOMAIN r, i # j PROVE ~ Clash(r[i], r[j])
    <3>1. \A k \in DOMAIN s : ~ Clash(f, s[k]) /\ ~ Clash(s[k], f)
      BY <1>4, ClashSym DEF Range
    <3>2. CASE i = 1
      <4>1. PICK k \in DOMAIN s : r[j] = s[k]
        BY <1>2, <2>1, <3>2
      <4>2. QED
        BY <1>2, <3>1, <3>2, <4>1
    <3>3. CASE j = 1
      <4>1. PICK k \in DOMAIN s : r[i] = s[k]
        BY <1>2, <2>1, <3>3
      <4>2. QED
        BY <1>2, <3>1, <3>3, <4>1
    <3>4. CASE i # 1 /\ j # 1
      <4>1. PICK k \in DOMAIN s : i = k + 1 /\ r[i] = s[k]
        BY <1>2, <3>4
      <4>2. PICK l \in DOMAIN s : j = l + 1 /\ r[j] = s[l]
        BY <1>2, <3>4
      <4>3. k # l
        BY <2>1, <4>1, <4>2
      <4>4. QED
        BY <1>4, <4>1, <4>2, <4>3 DEF OnceEach
    <3>5. QED
      BY <3>2, <3>3, <3>4
  <2>2. QED
    BY <2>1 DEF OnceEach
<1>5. QED
  BY <1>1, <1>3, <1>4

LEMMA ChainFront ==
  ASSUME NEW s \in Seq(Frame), NEW f \in Frame
  PROVE  Chained(<<f>> \o s) <=> Chained(s) /\ Supported(f, Range(s))
<1>1. PICK r : r = <<f>> \o s
  OBVIOUS
<1>2. /\ 1 \in DOMAIN r /\ r[1] = f /\ DOMAIN s \subseteq Nat \ {0} /\ DOMAIN r \subseteq Nat
      /\ \A k \in DOMAIN s : k + 1 \in DOMAIN r /\ r[k + 1] = s[k]
      /\ \A k \in DOMAIN r : k = 1 \/ \E j \in DOMAIN s : k = j + 1 /\ r[k] = s[j]
  <2>1. InFront(r, f, s)
    BY <1>1, FrontAt
  <2>2. QED
    BY <2>1 DEF InFront
<1>3. Outside(r, 1) = Range(s)
  <2>1. \A k \in DOMAIN s : k + 1 > 1
    BY <1>2
  <2>2. ASSUME NEW g \in Range(s) PROVE g \in Outside(r, 1)
    BY <1>2, <2>1 DEF Range, Outside
  <2>3. ASSUME NEW g \in Outside(r, 1) PROVE g \in Range(s)
    <3>1. PICK k \in DOMAIN r : k > 1 /\ g = r[k]
      BY DEF Outside
    <3>2. PICK j \in DOMAIN s : r[k] = s[j]
      BY <1>2, <3>1
    <3>3. QED
      BY <3>1, <3>2 DEF Range
  <2>4. QED
    BY <2>2, <2>3
<1>4. ASSUME NEW i \in DOMAIN s PROVE Outside(r, i + 1) = Outside(s, i)
  <2>1. ASSUME NEW g \in Outside(s, i) PROVE g \in Outside(r, i + 1)
    <3>1. PICK j \in DOMAIN s : j > i /\ g = s[j]
      BY DEF Outside
    <3>2. j + 1 > i + 1 /\ j + 1 \in DOMAIN r /\ g = r[j + 1]
      BY <1>2, <3>1
    <3>3. QED
      BY <3>2 DEF Outside
  <2>2. ASSUME NEW g \in Outside(r, i + 1) PROVE g \in Outside(s, i)
    <3>1. PICK k \in DOMAIN r : k > i + 1 /\ g = r[k]
      BY DEF Outside
    <3>2. k # 1
      BY <1>2, <3>1
    <3>3. PICK j \in DOMAIN s : k = j + 1 /\ r[k] = s[j]
      BY <1>2, <3>2
    <3>4. j > i
      BY <1>2, <3>1, <3>3
    <3>5. QED
      BY <3>1, <3>3, <3>4 DEF Outside
  <2>3. QED
    BY <2>1, <2>2
<1>5. ASSUME Chained(r) PROVE Chained(s) /\ Supported(f, Range(s))
  <2>1. ASSUME NEW i \in DOMAIN s PROVE Supported(s[i], Outside(s, i))
    <3>1. Supported(r[i + 1], Outside(r, i + 1))
      BY <1>2, <1>5 DEF Chained
    <3>2. QED
      BY <1>2, <1>4, <3>1
  <2>2. Supported(r[1], Outside(r, 1))
    BY <1>2, <1>5 DEF Chained
  <2>3. QED
    BY <1>2, <1>3, <2>1, <2>2 DEF Chained
<1>6. ASSUME Chained(s), Supported(f, Range(s)) PROVE Chained(r)
  <2>1. ASSUME NEW i \in DOMAIN r PROVE Supported(r[i], Outside(r, i))
    <3>1. CASE i = 1
      BY <1>2, <1>3, <1>6, <3>1
    <3>2. CASE i # 1
      <4>1. PICK j \in DOMAIN s : i = j + 1 /\ r[i] = s[j]
        BY <1>2, <3>2
      <4>2. Supported(s[j], Outside(s, j))
        BY <1>6, <4>1 DEF Chained
      <4>3. QED
        BY <1>4, <4>1, <4>2
    <3>3. QED
      BY <3>1, <3>2
  <2>2. QED
    BY <2>1 DEF Chained
<1>7. QED
  BY <1>1, <1>5, <1>6

(* In a stack without clashes a signal or an event has one call. *)
LEMMA OnceFacts ==
  ASSUME NEW s \in Seq(Frame), OnceEach(s), NEW f \in Range(s), NEW g \in Range(s), Clash(f, g)
  PROVE  f = g
  BY DEF OnceEach, Range

LEMMA SupportMore ==
  ASSUME NEW F, NEW G, F \subseteq G, NEW f, Supported(f, F)
  PROVE  Supported(f, G)
  BY DEF Supported, Sent

LEMMA ChainFacts ==
  ASSUME NEW s \in Seq(Frame), Chained(s), NEW f \in Range(s)
  PROVE  Supported(f, Range(s))
<1>1. PICK i \in DOMAIN s : f = s[i]
  BY DEF Range
<1>2. Outside(s, i) \subseteq Range(s) /\ Supported(f, Outside(s, i))
  BY <1>1 DEF Outside, Range, Chained
<1>3. QED
  BY <1>2, SupportMore

-----------------------------------------------------------------------------
(* How the steps change the stack: the innermost call returns, goes on, or *)
(* goes on and makes a further call.                                       *)
Under == Range(Tail(stack))

LEMMA TopFacts ==
  ASSUME FramesOk, stack # << >>
  PROVE  /\ Top \in Frame /\ Tail(stack) \in Seq(Frame) /\ stack = <<Top>> \o Tail(stack)
         /\ Calls = {Top} \cup Under /\ Under \subseteq Frame
         /\ FrameOk(Top) /\ \A f \in Under : FrameOk(f)
<1>1. stack \in Seq(Frame)
  BY DEF FramesOk
<1>2. /\ Top \in Frame /\ Tail(stack) \in Seq(Frame) /\ stack = <<Top>> \o Tail(stack)
      /\ Calls = {Top} \cup Under
  BY <1>1, Split DEF Top, Calls, Under
<1>3. Under \subseteq Frame
  BY <1>2 DEF Under, Range
<1>4. QED
  BY <1>2, <1>3 DEF FramesOk

LEMMA TopApart ==
  ASSUME FramesOk, stack # << >>, OnceEach(stack), Chained(stack)
  PROVE  /\ OnceEach(Tail(stack)) /\ Chained(Tail(stack))
         /\ \A g \in Under : ~ Clash(Top, g)
         /\ \A g, h \in Under : Clash(g, h) => g = h
         /\ Supported(Top, Under) /\ \A g \in Under : Supported(g, Under)
<1>1. Top \in Frame /\ Tail(stack) \in Seq(Frame) /\ stack = <<Top>> \o Tail(stack)
  BY TopFacts
<1>2. OnceEach(Tail(stack)) /\ \A g \in Under : ~ Clash(Top, g)
  BY <1>1, OnceFront DEF Under
<1>3. Chained(Tail(stack)) /\ Supported(Top, Under)
  BY <1>1, ChainFront DEF Under
<1>4. \A g, h \in Under : Clash(g, h) => g = h
  BY <1>1, <1>2, OnceFacts DEF Under
<1>5. \A g \in Under : Supported(g, Under)
  BY <1>1, <1>3, ChainFacts DEF Under
<1>6. QED
  BY <1>2, <1>3, <1>4, <1>5

LEMMA SameFrame ==
  ASSUME live' = live, NEW f
  PROVE  FrameOk(f)' <=> FrameOk(f)
  BY DEF FrameOk, Places

LEMMA Pop ==
  ASSUME FramesOk, stack # << >>, stack' = Tail(stack), live' = live
  PROVE  /\ FramesOk' /\ Calls' = Under
         /\ OnceEach(stack) /\ Chained(stack) => OnceEach(stack)' /\ Chained(stack)'
<1>1. Calls' = Under
  BY DEF Calls, Under
<1>2. FramesOk'
  BY <1>1, TopFacts, SameFrame DEF FramesOk
<1>3. QED
  BY <1>1, <1>2, TopApart DEF OnceEach, Chained

LEMMA GoOn ==
  ASSUME FramesOk, stack # << >>, NEW f \in Frame, stack' = <<f>> \o Tail(stack), live' = live,
         FrameOk(f), f.op = Top.op \/ (Top.op = "walk" /\ f.op = "ors"), f.at = Top.at, f.ctx = Top.ctx
  PROVE  /\ FramesOk' /\ Calls' = {f} \cup Under
         /\ OnceEach(stack) /\ Chained(stack) => OnceEach(stack)' /\ Chained(stack)'
<1>1. PICK s : s = Tail(stack)
  OBVIOUS
<1>2. s \in Seq(Frame) /\ Under = Range(s) /\ \A g \in Under : FrameOk(g)
  BY <1>1, TopFacts DEF Under
<1>3. stack' \in Seq(Frame) /\ Calls' = {f} \cup Under
  <2>1. stack' = <<f>> \o s
    BY <1>1
  <2>2. <<f>> \o s \in Seq(Frame) /\ Range(<<f>> \o s) = {f} \cup Range(s)
    BY <1>2, PutFront, RangeFront
  <2>3. QED
    BY <1>2, <2>1, <2>2 DEF Calls
<1>4. FramesOk'
  BY <1>2, <1>3, SameFrame DEF FramesOk
<1>5. ASSUME OnceEach(stack), Chained(stack) PROVE OnceEach(stack') /\ Chained(stack')
  <2>1. /\ OnceEach(s) /\ Chained(s) /\ Supported(Top, Under)
        /\ \A g \in Under : ~ Clash(Top, g)
    BY <1>1, <1>5, TopApart
  <2>2. Supported(f, Under) /\ \A g \in Under : ~ Clash(f, g)
    BY <2>1 DEF Supported, Clash
  <2>3. QED
    BY <1>1, <1>2, <2>1, <2>2, OnceFront, ChainFront
<1>6. QED
  BY <1>3, <1>4, <1>5 DEF OnceEach, Chained

LEMMA CallOn ==
  ASSUME FramesOk, stack # << >>, NEW f \in Frame, NEW g \in Frame,
         stack' = <<g>> \o (<<f>> \o Tail(stack)), live' = live,
         FrameOk(f), FrameOk(g), f.op = Top.op, f.at = Top.at, f.ctx = Top.ctx
  PROVE  /\ FramesOk' /\ Calls' = {g, f} \cup Under
         /\ OnceEach(stack) /\ Chained(stack) /\ Supported(g, {f} \cup Under)
            /\ (\A h \in {f} \cup Under : ~ Clash(g, h)) => OnceEach(stack)' /\ Chained(stack)'
<1>1. PICK s, r : s = Tail(stack) /\ r = <<f>> \o s
  OBVIOUS
<1>2. s \in Seq(Frame) /\ Under = Range(s) /\ \A h \in Under : FrameOk(h)
  BY <1>1, TopFacts DEF Under
<1>3. r \in Seq(Frame) /\ Range(r) = {f} \cup Under
  BY <1>1, <1>2, PutFront, RangeFront
<1>4. stack' \in Seq(Frame) /\ Calls' = {g, f} \cup Under
  <2>1. stack' = <<g>> \o r
    BY <1>1
  <2>2. <<g>> \o r \in Seq(Frame) /\ Range(<<g>> \o r) = {g} \cup Range(r)
    BY <1>3, PutFront, RangeFront
  <2>3. Calls' = {g} \cup Range(r)
    BY <2>1, <2>2 DEF Calls
  <2>4. QED
    BY <1>3, <2>1, <2>2, <2>3
<1>5. FramesOk'
  BY <1>2, <1>4, SameFrame DEF FramesOk
<1>6. ASSUME OnceEach(stack), Chained(stack), Supported(g, {f} \cup Under),
             \A h \in {f} \cup Under : ~ Clash(g, h)
      PROVE  OnceEach(stack') /\ Chained(stack')
  <2>1. /\ OnceEach(s) /\ Chained(s) /\ Supported(Top, Under)
        /\ \A h \in Under : ~ Clash(Top, h)
    BY <1>1, <1>6, TopApart
  <2>2. Supported(f, Under) /\ \A h \in Under : ~ Clash(f, h)
    BY <2>1 DEF Supported, Clash
  <2>3. OnceEach(r) /\ Chained(r)
    BY <1>1, <1>2, <2>1, <2>2, OnceFront, ChainFront
  <2>4. QED
    BY <1>1, <1>3, <1>6, <2>3, OnceFront, ChainFront
<1>7. QED
  BY <1>4, <1>5, <1>6 DEF OnceEach, Chained

(* A thread's operation makes the first call. *)
LEMMA FirstCall ==
  ASSUME NEW g \in Frame, stack' = <<g>>, FrameOk(g), live' = live,
         g.op = "send" \/ (g.op = "walk" /\ Kind[g.at] \notin Edges)
  PROVE  FramesOk' /\ Calls' = {g} /\ OnceEach(stack)' /\ Chained(stack)'
<1>1. /\ stack' \in Seq(Frame) /\ DOMAIN stack' = {1} /\ stack'[1] = g
  OBVIOUS
<1>2. Calls' = {g}
  BY <1>1 DEF Calls, Range
<1>3. FramesOk'
  BY <1>1, <1>2, SameFrame DEF FramesOk
<1>4. OnceEach(stack)' /\ Chained(stack)'
  BY <1>1 DEF OnceEach, Chained, Supported
<1>5. QED
  BY <1>2, <1>3, <1>4

-----------------------------------------------------------------------------
(* What is under way. *)

LEMMA SamePlaces ==
  ASSUME NEW x \in Functors, NEW e \in Ors[x]
  PROVE  e \in Functors /\ Places(e) = Places(x) /\ Ors[e] = {} /\ Kind[e] = "or"
  BY EventAssumption DEF Places

LEMMA PlacesType ==
  ASSUME TypeOK, NEW e \in Functors
  PROVE  Places(e) \subseteq Contexts \cup {Static}
  BY DEF TypeOK, Places

(* Nothing is new for the functors. *)
LEMMA SameComing ==
  ASSUME live' = live,
         \A x \in Functors : \A c \in Places(x) :
           /\ Edge(x, c)' <=> Edge(x, c)
           /\ Walking(Calls, x, c)' <=> Walking(Calls, x, c)
           /\ \A o \in Ors[x] : Feeding(Calls, x, o, c)' <=> Feeding(Calls, x, o, c),
         NEW e \in Functors, NEW c \in Places(e)
  PROVE  Coming(e, c)' = Coming(e, c)
<1>1. ASSUME NEW x \in Functors PROVE Owes(x, e, c)' <=> Owes(x, e, c)
  <2>1. CASE x = e
    BY <2>1 DEF Owes
  <2>2. CASE x # e /\ e \in Ors[x]
    <3>1. c \in Places(x)
      BY <2>2, SamePlaces
    <3>2. QED
      BY <2>2, <3>1 DEF Owes
  <2>3. CASE x # e /\ e \notin Ors[x]
    BY <2>3 DEF Owes
  <2>4. QED
    BY <2>1, <2>2, <2>3
<1>2. QED
  BY <1>1 DEF Coming

LEMMA SameWaits ==
  ASSUME WaitsOk, UNCHANGED <<threads, hits, live, ctx>>,
         \A e \in Functors :
           /\ \A c \in Contexts \cup {Static} : Walking(Calls, e, c)' <=> Walking(Calls, e, c)
           /\ \A c \in Places(e) : Coming(e, c)' = Coming(e, c)
  PROVE  WaitsOk'
<1> SUFFICES ASSUME NEW e \in Functors, NEW c \in Contexts \cup {Static}, NEW t \in threads[e][c]
             PROVE  /\ c \in Places(e) /\ (c # Static => ctx[t] = c)
                    /\ \A f \in Functors, d \in Contexts \cup {Static} :
                         t \in threads[f][d] => f = e /\ d = c
                    /\ hits[t] > 0 <=> Walking(Calls, e, c)' \/ Coming(e, c)' # {}
  BY DEF WaitsOk, Places
<1>1. /\ c \in Places(e) /\ (c # Static => ctx[t] = c)
      /\ \A f \in Functors, d \in Contexts \cup {Static} : t \in threads[f][d] => f = e /\ d = c
      /\ hits[t] > 0 <=> Walking(Calls, e, c) \/ Coming(e, c) # {}
  BY DEF WaitsOk
<1>2. Coming(e, c)' = Coming(e, c) /\ (Walking(Calls, e, c)' <=> Walking(Calls, e, c))
  BY <1>1
<1>3. QED
  BY <1>1, <1>2

LEMMA SameView ==
  ASSUME TypeOK, ContextsOk, WaitsOk, CtlsOk,
         UNCHANGED <<threads, hits, event_ctls, last, fired, live, ctx>>,
         \A e \in Functors :
           /\ \A c \in Contexts \cup {Static} : Walking(Calls, e, c)' <=> Walking(Calls, e, c)
           /\ Firing(Calls, e)' <=> Firing(Calls, e)
           /\ \A c \in Places(e) : Coming(e, c)' = Coming(e, c)
  PROVE  ContextsOk' /\ WaitsOk' /\ CtlsOk'
<1>1. ContextsOk'
  BY DEF ContextsOk
<1>2. WaitsOk'
  BY SameWaits
<1>3. CtlsOk'
  <2>1. ASSUME NEW e \in Functors PROVE ListOk(e)'
    <3>1. ListOk(e)
      BY DEF CtlsOk
    <3>2. ASSUME NEW i \in DOMAIN event_ctls[e] PROVE CtlOk(e, i)'
      <4>1. CtlOk(e, i) /\ e \notin Automatic
        BY <3>1 DEF ListOk
      <4>2. Coming(e, Static)' = Coming(e, Static)
        BY <4>1 DEF Places
      <4>3. QED
        BY <4>1, <4>2 DEF CtlOk
    <3>3. QED
      BY <3>1, <3>2 DEF ListOk
  <2>2. QED
    BY <2>1 DEF CtlsOk
<1>4. QED
  BY <1>1, <1>2, <1>3

LEMMA SameWay ==
  ASSUME TypeOK, Good, UNCHANGED <<threads, hits, event_ctls, last, fired, live, ctx>>,
         OnceEach(stack)', Chained(stack)', SeenOk',
         \A e \in Functors :
           /\ \A c \in Contexts \cup {Static} : Walking(Calls, e, c)' <=> Walking(Calls, e, c)
           /\ Firing(Calls, e)' <=> Firing(Calls, e)
           /\ \A c \in Places(e) :
                /\ Edge(e, c)' <=> Edge(e, c)
                /\ \A o \in Ors[e] : Feeding(Calls, e, o, c)' <=> Feeding(Calls, e, o, c)
  PROVE  Good'
<1>1. \A e \in Functors : Places(e) \subseteq Contexts \cup {Static}
  BY PlacesType
<1>2. \A e \in Functors : \A c \in Places(e) : Coming(e, c)' = Coming(e, c)
  BY <1>1, SameComing
<1>3. ContextsOk' /\ WaitsOk' /\ CtlsOk'
  BY <1>2, SameView DEF Good
<1>4. QED
  BY <1>3 DEF Good

(* What one call more adds. *)
LEMMA AddCall ==
  ASSUME NEW f, NEW F
  PROVE  /\ \A e : Unseen({f} \cup F, e) <=>
                     \/ f.op = "send" /\ e \in f.todo
                     \/ f.op = "live" /\ f.at = e
                     \/ Unseen(F, e)
         /\ \A e, c : ToCome({f} \cup F, e, c) <=>
                        \/ f.op = "send" /\ e \in f.todo
                        \/ f.op = "live" /\ f.at = e /\ c \in f.todo
                        \/ ToCome(F, e, c)
         /\ \A e, c : Walking({f} \cup F, e, c) <=>
                        (f.op = "walk" /\ f.at = e /\ f.ctx = c) \/ Walking(F, e, c)
         /\ \A x, e, c : Feeding({f} \cup F, x, e, c) <=>
                           \/ f.op = "ors" /\ f.at = x /\ f.ctx = c /\ e \in f.todo
                           \/ Feeding(F, x, e, c)
         /\ \A e : Firing({f} \cup F, e) <=>
                     (f.op = "walk" /\ f.at = e /\ f.fired) \/ Firing(F, e)
  BY DEF Unseen, ToCome, Walking, Feeding, Firing

-----------------------------------------------------------------------------
(* The steps of the propagation that tell nobody of an event. *)

LEMMA ReturnInv ==
  ASSUME IInv, Return
  PROVE  IInv'
<1>1. /\ stack # << >> /\ Top.op \in {"send", "ors"} /\ Top.todo = {} /\ stack' = Tail(stack)
      /\ UNCHANGED <<value, bits_, bits, threads, event_ctls, last, live, ctx, ops,
                     aborted, hits, fired, cyclic>>
  BY DEF Return, Running
<1>2. FramesOk /\ TypeOK /\ (aborted => cyclic) /\ (~ cyclic => Good)
  BY DEF IInv
<1>3. /\ FramesOk' /\ Calls' = Under /\ Calls = {Top} \cup Under
      /\ OnceEach(stack) /\ Chained(stack) => OnceEach(stack)' /\ Chained(stack)'
  BY <1>1, <1>2, Pop, TopFacts
<1>4. TypeOK' /\ (aborted => cyclic)'
  BY <1>1, <1>2 DEF TypeOK
<1>5. ASSUME ~ cyclic' PROVE Good'
  <2>1. Good
    BY <1>1, <1>2, <1>5
  <2>2. \A e, c, o : /\ Unseen(Calls, e)' <=> Unseen(Calls, e)
                     /\ ToCome(Calls, e, c)' <=> ToCome(Calls, e, c)
                     /\ Walking(Calls, e, c)' <=> Walking(Calls, e, c)
                     /\ Feeding(Calls, e, o, c)' <=> Feeding(Calls, e, o, c)
                     /\ Firing(Calls, e)' <=> Firing(Calls, e)
    BY <1>1, <1>3, AddCall
  <2>3. SeenOk'
    BY <1>1, <2>1, <2>2 DEF Good, SeenOk, Seen, Places
  <2>4. \A e, c : Edge(e, c)' <=> Edge(e, c)
    BY <1>1, <2>2 DEF Edge, Seen
  <2>5. OnceEach(stack)' /\ Chained(stack)'
    BY <1>3, <2>1 DEF Good
  <2>6. QED
    BY <1>1, <1>2, <2>1, <2>2, <2>3, <2>4, <2>5, SameWay
<1>6. QED
  BY <1>3, <1>4, <1>5 DEF IInv

(* The innermost call goes on without x. *)
Less(x) == [Top EXCEPT !.todo = @ \ {x}]

LEMMA LessFacts ==
  ASSUME FramesOk, stack # << >>, NEW x
  PROVE  /\ Less(x) \in Frame /\ Less(x).op = Top.op /\ Less(x).at = Top.at
         /\ Less(x).ctx = Top.ctx /\ Less(x).todo = Top.todo \ {x} /\ Less(x).fired = Top.fired
         /\ FrameOk(Less(x)) /\ Rest(x) = <<Less(x)>> \o Tail(stack)
<1>1. PICK f : f = Less(x)
  OBVIOUS
<1>2. Top \in Frame /\ FrameOk(Top)
  BY TopFacts
<1>3. /\ f \in Frame /\ f.op = Top.op /\ f.at = Top.at /\ f.ctx = Top.ctx
      /\ f.todo = Top.todo \ {x} /\ f.fired = Top.fired
  BY <1>1, <1>2 DEF Less, Frame
<1>4. FrameOk(f)
  BY <1>2, <1>3 DEF FrameOk
<1>5. QED
  BY <1>1, <1>3, <1>4 DEF Rest, Less

(* A signal that is not being sent has no call for its functors. *)
LEMMA Quiet ==
  ASSUME NEW F, \A f \in F : FrameOk(f) /\ Supported(f, F), NEW s, NEW e \in Watchers(s),
         \A f \in F : ~ (f.op = "send" /\ f.at = s), NEW f \in F
  PROVE  ~ (f.op = "send" /\ e \in f.todo) /\ ~ (f.op \in {"live", "walk", "ors"} /\ f.at = e)
<1>1. Kind[e] \in Edges /\ Sig[e] = s
  BY DEF Watchers
<1>2. ~ Sent(F, e)
  BY <1>1 DEF Sent
<1>3. \A g \in F : ~ (g.op = "live" /\ g.at = e)
  BY <1>2 DEF Supported
<1>4. \A g \in F : ~ (g.op \in {"walk", "ors"} /\ g.at = e)
  BY <1>1, <1>2, <1>3 DEF Supported
<1>5. ~ (f.op = "send" /\ e \in f.todo)
  BY <1>1 DEF FrameOk, Watchers
<1>6. QED
  BY <1>3, <1>4, <1>5

LEMMA QuietWay ==
  ASSUME NEW F, NEW e,
         \A f \in F : /\ ~ (f.op = "send" /\ e \in f.todo)
                      /\ ~ (f.op \in {"live", "walk", "ors"} /\ f.at = e)
  PROVE  /\ ~ Unseen(F, e) /\ ~ Firing(F, e)
         /\ \A c : ~ ToCome(F, e, c) /\ ~ Walking(F, e, c) /\ \A o : ~ Feeding(F, e, o, c)
  BY DEF Unseen, ToCome, Walking, Feeding, Firing

LEMMA SendAlone ==
  ASSUME FramesOk, OnceEach(stack), Chained(stack), stack # << >>, Top.op = "send",
         NEW e \in Top.todo
  PROVE  /\ e \in Functors /\ Kind[e] \in Edges /\ Sig[e] = Top.at /\ Top.at \in Signals
         /\ \A f \in Under : ~ (f.op \in {"live", "walk", "ors"} /\ f.at = e)
         /\ ~ Unseen(Under, e) /\ ~ Firing(Under, e)
         /\ \A c : ~ ToCome(Under, e, c) /\ ~ Walking(Under, e, c) /\ \A o : ~ Feeding(Under, e, o, c)
<1>1. FrameOk(Top) /\ \A f \in Under : FrameOk(f)
  BY TopFacts
<1>2. e \in Watchers(Top.at) /\ Top.at \in Signals
  BY <1>1 DEF FrameOk
<1>3. \A f \in Under : Supported(f, Under) /\ ~ Clash(Top, f)
  BY TopApart
<1>4. \A f \in Under : ~ (f.op = "send" /\ f.at = Top.at)
  BY <1>3 DEF Clash
<1>5. \A f \in Under : ~ (f.op = "send" /\ e \in f.todo) /\ ~ (f.op \in {"live", "walk", "ors"} /\ f.at = e)
  BY <1>1, <1>2, <1>3, <1>4, Quiet
<1>6. QED
  BY <1>2, <1>5, QuietWay DEF Watchers

LEMMA LiveAlone ==
  ASSUME FramesOk, OnceEach(stack), Chained(stack), stack # << >>, Top.op = "live"
  PROVE  /\ \A f \in Under : ~ (f.op \in {"live", "walk", "ors"} /\ f.at = Top.at)
         /\ ~ Unseen(Under, Top.at) /\ ~ Firing(Under, Top.at)
         /\ \A c : /\ ~ ToCome(Under, Top.at, c) /\ ~ Walking(Under, Top.at, c)
                   /\ \A o : ~ Feeding(Under, Top.at, o, c)
<1>1. FrameOk(Top) /\ \A f \in Under : FrameOk(f)
  BY TopFacts
<1>2. Top.at \in Automatic /\ Kind[Top.at] \in Edges
  BY <1>1 DEF FrameOk, Watchers
<1>3. /\ \A f \in Under : Supported(f, Under) /\ ~ Clash(Top, f)
      /\ \A g, h \in Under : Clash(g, h) => g = h
      /\ Supported(Top, Under)
  BY TopApart
<1>4. \A f \in Under : ~ (f.op = "live" /\ f.at = Top.at)
  BY <1>3 DEF Clash
<1>5. \A f \in Under : ~ (f.op \in {"walk", "ors"} /\ f.at = Top.at)
  BY <1>2, <1>3, <1>4 DEF Supported
<1>6. PICK g \in Under : g.op = "send" /\ g.at = Sig[Top.at] /\ Top.at \notin g.todo
  BY <1>3 DEF Supported, Sent
<1>7. ASSUME NEW f \in Under, f.op = "send", Top.at \in f.todo PROVE FALSE
  <2>1. Top.at \in Watchers(f.at)
    BY <1>1, <1>7 DEF FrameOk
  <2>2. f.at = g.at
    BY <1>6, <2>1 DEF Watchers
  <2>3. f = g
    BY <1>3, <1>6, <1>7, <2>2 DEF Clash
  <2>4. QED
    BY <1>6, <1>7, <2>3
<1>8. \A f \in Under : /\ ~ (f.op = "send" /\ Top.at \in f.todo)
                       /\ ~ (f.op \in {"live", "walk", "ors"} /\ f.at = Top.at)
  BY <1>4, <1>5, <1>7
<1>9. QED
  BY <1>8, QuietWay

LEMMA recv_staticInv ==
  ASSUME IInv, recv_static
  PROVE  IInv'
<1>1. PICK e : e = Top.at
  OBVIOUS
<1>2. /\ stack # << >> /\ Top.op = "live" /\ Top.todo = {} /\ stack' = Tail(stack)
      /\ bits_' = [bits_ EXCEPT ![e] = value[Sig[e]]]
      /\ UNCHANGED <<value, bits, threads, event_ctls, last, live, ctx, ops,
                     aborted, hits, fired, cyclic>>
  BY <1>1 DEF recv_static, Running
<1>3. FramesOk /\ TypeOK /\ (aborted => cyclic) /\ (~ cyclic => Good)
  BY DEF IInv
<1>4. /\ FramesOk' /\ Calls' = Under /\ Calls = {Top} \cup Under /\ FrameOk(Top)
      /\ OnceEach(stack) /\ Chained(stack) => OnceEach(stack)' /\ Chained(stack)'
  BY <1>2, <1>3, Pop, TopFacts
<1>5. e \in Automatic /\ e \in Functors /\ Sig[e] \in Signals
  BY <1>1, <1>2, <1>4, EventAssumption DEF FrameOk, Watchers
<1>6. TypeOK' /\ (aborted => cyclic)'
  BY <1>2, <1>3, <1>5 DEF TypeOK
<1>7. ASSUME ~ cyclic' PROVE Good'
  <2>1. Good
    BY <1>2, <1>3, <1>7
  <2>2. \A x, c, o : /\ x # e => (Unseen(Calls, x)' <=> Unseen(Calls, x))
                     /\ ToCome(Calls, x, c)' <=> ToCome(Calls, x, c)
                     /\ Walking(Calls, x, c)' <=> Walking(Calls, x, c)
                     /\ Feeding(Calls, x, o, c)' <=> Feeding(Calls, x, o, c)
                     /\ Firing(Calls, x)' <=> Firing(Calls, x)
    BY <1>1, <1>2, <1>4, AddCall
  <2>3. bits_ \in [Functors -> Bit4]
    BY <1>3 DEF TypeOK
  <2>4. bits_'[e] = value[Sig[e]] /\ \A x \in Functors : x # e => bits_'[x] = bits_[x]
    BY <1>2, <1>5, <2>3
  <2>5. \A x \in Functors : \A c : Seen(x, c)' = Seen(x, c)
    BY <1>2, <1>5, <2>4 DEF Seen
  <2>6. SeenOk'
    <3>1. ASSUME NEW s \in Signals, NEW x \in Watchers(s)
          PROVE  /\ ~ Unseen(Calls, x)' => bits_'[x] = value'[s]
                 /\ \A c \in Places(x)' : ~ ToCome(Calls, x, c)' => Seen(x, c)' = value'[s]
      <4>1. /\ ~ Unseen(Calls, x) => bits_[x] = value[s]
            /\ \A c \in Places(x) : ~ ToCome(Calls, x, c) => Seen(x, c) = value[s]
        BY <2>1 DEF Good, SeenOk
      <4>2. x \in Functors /\ Sig[x] = s /\ Places(x)' = Places(x) /\ value' = value
        BY <1>2 DEF Watchers, Places
      <4>3. QED
        BY <2>2, <2>4, <2>5, <4>1, <4>2
    <3>2. QED
      BY <3>1 DEF SeenOk
  <2>7. \A x \in Functors : \A c : Edge(x, c)' <=> Edge(x, c)
    BY <1>2, <2>2, <2>5 DEF Edge
  <2>8. OnceEach(stack)' /\ Chained(stack)'
    BY <1>4, <2>1 DEF Good
  <2>9. QED
    BY <1>2, <1>3, <2>1, <2>2, <2>6, <2>7, <2>8, SameWay
<1>8. QED
  BY <1>4, <1>6, <1>7 DEF IInv

LEMMA recv_vec4_aaInv ==
  ASSUME IInv, NEW e \in Functors, recv_vec4_aa(e)
  PROVE  IInv'
<1>1. PICK f : f = Less(e)
  OBVIOUS
<1>2. PICK g : g = Call("live", e, Static, live)
  OBVIOUS
<1>3. FramesOk /\ TypeOK /\ (aborted => cyclic) /\ (~ cyclic => Good)
  BY DEF IInv
<1>4. /\ stack # << >> /\ Top.op = "send" /\ e \in Top.todo /\ e \in Automatic
      /\ stack' = <<g>> \o (<<f>> \o Tail(stack))
      /\ UNCHANGED <<value, bits_, bits, threads, event_ctls, last, live, ctx, ops,
                     aborted, hits, fired, cyclic>>
  BY <1>1, <1>2, <1>3, LessFacts DEF recv_vec4_aa, Running
<1>5. /\ f \in Frame /\ f.op = Top.op /\ f.at = Top.at /\ f.ctx = Top.ctx
      /\ f.todo = Top.todo \ {e} /\ FrameOk(f) /\ FrameOk(Top) /\ Calls = {Top} \cup Under
  BY <1>1, <1>3, <1>4, LessFacts, TopFacts
<1>6. e \in Watchers(Top.at) /\ Top.at \in Signals
  BY <1>4, <1>5 DEF FrameOk
<1>7. g \in Frame /\ g.op = "live" /\ g.at = e /\ g.todo = live /\ FrameOk(g)
  BY <1>2, <1>3, <1>4, <1>6 DEF Call, Frame, FrameOk, TypeOK
<1>8. /\ FramesOk' /\ Calls' = {g, f} \cup Under
      /\ OnceEach(stack) /\ Chained(stack) /\ Supported(g, {f} \cup Under)
         /\ (\A h \in {f} \cup Under : ~ Clash(g, h)) => OnceEach(stack)' /\ Chained(stack)'
  BY <1>3, <1>4, <1>5, <1>7, CallOn
<1>9. TypeOK' /\ (aborted => cyclic)'
  BY <1>3, <1>4 DEF TypeOK
<1>10. ASSUME ~ cyclic' PROVE Good'
  <2>1. Good /\ OnceEach(stack) /\ Chained(stack)
    BY <1>3, <1>4, <1>10 DEF Good
  <2>2. \A h \in Under : ~ (h.op = "live" /\ h.at = e)
    BY <1>3, <1>4, <2>1, SendAlone
  <2>3. Supported(g, {f} \cup Under) /\ \A h \in {f} \cup Under : ~ Clash(g, h)
    BY <1>4, <1>5, <1>6, <1>7, <2>2 DEF Supported, Sent, Clash, Watchers
  <2>4. OnceEach(stack)' /\ Chained(stack)'
    BY <1>8, <2>1, <2>3
  <2>5. PICK F : F = {f} \cup Under /\ Calls' = {g} \cup F
    BY <1>8
  <2>6. \A x, c, o : /\ Unseen(Calls, x)' <=> Unseen(Calls, x)
                     /\ c \in live => (ToCome(Calls, x, c)' <=> ToCome(Calls, x, c))
                     /\ x # e => (ToCome(Calls, x, c)' <=> ToCome(Calls, x, c))
                     /\ Walking(Calls, x, c)' <=> Walking(Calls, x, c)
                     /\ Feeding(Calls, x, o, c)' <=> Feeding(Calls, x, o, c)
                     /\ Firing(Calls, x)' <=> Firing(Calls, x)
    <3>1. \A x, c, o : /\ Walking(F, x, c) <=> Walking(Under, x, c)
                       /\ Feeding(F, x, o, c) <=> Feeding(Under, x, o, c)
                       /\ Firing(F, x) <=> Firing(Under, x)
                       /\ Unseen(F, x) <=> (x \in Top.todo /\ x # e) \/ Unseen(Under, x)
                       /\ ToCome(F, x, c) <=> (x \in Top.todo /\ x # e) \/ ToCome(Under, x, c)
      BY <1>4, <1>5, <2>5, AddCall
    <3>2. \A x, c, o : /\ Walking(Calls, x, c)' <=> Walking(F, x, c)
                       /\ Feeding(Calls, x, o, c)' <=> Feeding(F, x, o, c)
                       /\ Firing(Calls, x)' <=> Firing(F, x)
                       /\ Unseen(Calls, x)' <=> x = e \/ Unseen(F, x)
                       /\ ToCome(Calls, x, c)' <=> (x = e /\ c \in live) \/ ToCome(F, x, c)
      BY <1>7, <2>5, AddCall
    <3>3. \A x, c, o : /\ Walking(Calls, x, c) <=> Walking(Under, x, c)
                       /\ Feeding(Calls, x, o, c) <=> Feeding(Under, x, o, c)
                       /\ Firing(Calls, x) <=> Firing(Under, x)
                       /\ Unseen(Calls, x) <=> x \in Top.todo \/ Unseen(Under, x)
                       /\ ToCome(Calls, x, c) <=> x \in Top.todo \/ ToCome(Under, x, c)
      BY <1>4, <1>5, AddCall
    <3>4. QED
      BY <1>4, <3>1, <3>2, <3>3
  <2>7. \A x : \A c \in Places(x) : ToCome(Calls, x, c)' <=> ToCome(Calls, x, c)
    BY <1>4, <2>6 DEF Places
  <2>8. SeenOk'
    BY <1>4, <2>1, <2>6, <2>7 DEF Good, SeenOk, Seen, Places
  <2>9. \A x : \A c \in Places(x) : Edge(x, c)' <=> Edge(x, c)
    BY <1>4, <2>7 DEF Edge, Seen
  <2>10. QED
    BY <1>3, <1>4, <2>1, <2>4, <2>6, <2>8, <2>9, SameWay
<1>11. QED
  BY <1>8, <1>9, <1>10 DEF IInv

-----------------------------------------------------------------------------
(* A walk begins. *)

LEMMA ComingFinite ==
  ASSUME NEW e, NEW c
  PROVE  IsFiniteSet(Coming(e, c)) /\ Cardinality(Coming(e, c)) \in Nat
<1>1. Coming(e, c) \in SUBSET Functors
  BY DEF Coming
<1>2. QED
  BY <1>1, EventAssumption, FS_Subset, FS_CardinalityType

LEMMA CtlType ==
  ASSUME TypeOK, NEW e \in Functors
  PROVE  /\ event_ctls[e] \in Seq(evctl) /\ DOMAIN event_ctls[e] = 1..Len(event_ctls[e])
         /\ Len(event_ctls[e]) \in Nat /\ last[e] \in Nat /\ last[e] <= Len(event_ctls[e])
         /\ \A i \in DOMAIN event_ctls[e] :
              /\ event_ctls[e][i] \in evctl
              /\ event_ctls[e][i].id \in Nat
              /\ event_ctls[e][i].ecount \in Nat
              /\ event_ctls[e][i].n \in Nat
              /\ event_ctls[e][i].seen \in Nat
              /\ event_ctls[e][i].to \in Signals
              /\ event_ctls[e][i].val \in Bits
<1>1. event_ctls[e] \in Seq(evctl) /\ last[e] \in Nat /\ last[e] <= Len(event_ctls[e])
  BY DEF TypeOK
<1>2. DOMAIN event_ctls[e] = 1..Len(event_ctls[e]) /\ Len(event_ctls[e]) \in Nat
  BY <1>1
<1>3. \A i \in DOMAIN event_ctls[e] : event_ctls[e][i] \in evctl
  BY <1>1, <1>2
<1>4. QED
  BY <1>1, <1>2, <1>3 DEF evctl

(* The walk that x owes to w in the context k begins. *)
Enters(w, k, x) ==
  /\ w \in Functors /\ k \in Places(w) /\ x \in Coming(w, k)
  /\ UNCHANGED <<threads, hits, event_ctls, fired, live, ctx>>
  /\ last' = [last EXCEPT ![w] = 0]
  /\ ~ Firing(Calls, w) /\ \A c : ~ Walking(Calls, w, c)
  /\ \A e \in Functors :
       /\ \A c : Walking(Calls, e, c)' <=> Walking(Calls, e, c) \/ (e = w /\ c = k)
       /\ Firing(Calls, e)' <=> Firing(Calls, e)
       /\ \A c \in Places(e) :
            Coming(e, c)' = IF e = w /\ c = k THEN Coming(e, c) \ {x} ELSE Coming(e, c)

LEMMA EnterGood ==
  ASSUME TypeOK, Good, NEW w, NEW k, NEW x, Enters(w, k, x),
         OnceEach(stack)', Chained(stack)', SeenOk'
  PROVE  Good'
<1> USE DEF Enters
<1>1. ContextsOk /\ WaitsOk /\ CtlsOk
  BY DEF Good
<1>2. ContextsOk'
  BY <1>1 DEF ContextsOk
<1>3. WaitsOk'
  <2> SUFFICES ASSUME NEW e \in Functors, NEW c \in Contexts \cup {Static}, NEW t \in threads[e][c]
               PROVE  /\ c \in Places(e) /\ (c # Static => ctx[t] = c)
                      /\ \A f \in Functors, d \in Contexts \cup {Static} :
                           t \in threads[f][d] => f = e /\ d = c
                      /\ hits[t] > 0 <=> Walking(Calls, e, c)' \/ Coming(e, c)' # {}
    BY DEF WaitsOk, Places
  <2>1. /\ c \in Places(e) /\ (c # Static => ctx[t] = c)
        /\ \A f \in Functors, d \in Contexts \cup {Static} : t \in threads[f][d] => f = e /\ d = c
        /\ hits[t] > 0 <=> Walking(Calls, e, c) \/ Coming(e, c) # {}
    BY <1>1 DEF WaitsOk
  <2>2. CASE e = w /\ c = k
    BY <2>1, <2>2
  <2>3. CASE ~ (e = w /\ c = k)
    BY <2>1, <2>3
  <2>4. QED
    BY <2>2, <2>3
<1>4. CtlsOk'
  <2>1. ASSUME NEW e \in Functors PROVE ListOk(e)'
    <3>1. /\ ListOk(e) /\ Len(event_ctls[e]) \in Nat
          /\ DOMAIN event_ctls[e] = 1..Len(event_ctls[e])
          /\ \A i \in DOMAIN event_ctls[e] : event_ctls[e][i].n \in Nat /\ event_ctls[e][i].seen \in Nat
      BY <1>1, CtlType DEF CtlsOk
    <3>2. last'[e] = IF e = w THEN 0 ELSE last[e]
      BY DEF TypeOK
    <3>3. CASE e # w
      <4>1. \A c : Walking(Calls, e, c)' <=> Walking(Calls, e, c)
        BY <3>3
      <4>2. ASSUME NEW i \in DOMAIN event_ctls[e] PROVE CtlOk(e, i)'
        <5>1. CtlOk(e, i) /\ e \notin Automatic
          BY <3>1, <4>2 DEF ListOk
        <5>2. Coming(e, Static)' = Coming(e, Static)
          BY <3>3, <5>1 DEF Places
        <5>3. QED
          BY <3>2, <3>3, <4>1, <5>1, <5>2 DEF CtlOk
      <4>3. QED
        BY <3>1, <3>2, <3>3, <4>1, <4>2 DEF ListOk
    <3>4. CASE e = w /\ w \in Automatic
      <4>1. event_ctls[e] = << >>
        BY <3>1, <3>4 DEF ListOk
      <4>2. QED
        BY <3>1, <3>2, <3>4, <4>1 DEF ListOk
    <3>5. CASE e = w /\ w \notin Automatic
      <4>1. k = Static /\ Walking(Calls, w, Static)' /\ ~ Firing(Calls, w)'
        BY <3>5 DEF Places
      <4>2. Cardinality(Coming(w, Static)') = Cardinality(Coming(w, Static)) - 1
        BY <4>1, ComingFinite, FS_RemoveElement
      <4>3. ASSUME NEW i \in DOMAIN event_ctls[e] PROVE CtlOk(e, i)'
        <5>1. CtlOk(e, i) /\ i > 0 /\ Cardinality(Coming(w, Static)) \in Nat
          BY <3>1, <4>3, ComingFinite DEF ListOk
        <5>2. /\ event_ctls[e][i].ecount > 0
              /\ event_ctls[e][i].ecount =
                   event_ctls[e][i].n - event_ctls[e][i].seen + Cardinality(Coming(w, Static))
          BY <3>1, <3>5, <5>1 DEF CtlOk
        <5>3. event_ctls[e][i].ecount =
                event_ctls[e][i].n - event_ctls[e][i].seen + Cardinality(Coming(w, Static)') + 1
          <6>1. event_ctls[e][i].n \in Nat /\ event_ctls[e][i].seen \in Nat
            BY <3>1, <4>3
          <6>2. PICK m, m2 : m = Cardinality(Coming(w, Static)) /\ m2 = Cardinality(Coming(w, Static)')
            OBVIOUS
          <6>3. m \in Nat /\ m2 = m - 1
            BY <4>2, <5>1, <6>2
          <6>4. QED
            BY <5>2, <6>1, <6>2, <6>3
        <5>4. QED
          BY <3>2, <3>5, <4>1, <5>1, <5>2, <5>3 DEF CtlOk
      <4>4. QED
        BY <3>1, <3>2, <3>5, <4>1, <4>3 DEF ListOk
    <3>6. QED
      BY <3>3, <3>4, <3>5
  <2>2. QED
    BY <1>1, <2>1 DEF CtlsOk
<1>5. QED
  BY <1>2, <1>3, <1>4 DEF Good

LEMMA EnterType ==
  ASSUME TypeOK, NEW e \in Functors, last' = [last EXCEPT ![e] = 0], event_ctls' = event_ctls
  PROVE  last' \in [Functors -> Nat] /\ \A x \in Functors : last'[x] <= Len(event_ctls'[x])
<1>1. \A x \in Functors : Len(event_ctls[x]) \in Nat /\ last[x] <= Len(event_ctls[x])
  BY CtlType
<1>2. QED
  BY <1>1 DEF TypeOK

LEMMA EdgeComing ==
  ASSUME live' = live, NEW w \in Functors, Kind[w] \in Edges, NEW k \in Places(w),
         Edge(w, k), ~ Edge(w, k)',
         \A e \in Functors : \A c \in Places(e) :
           /\ ~ (e = w /\ c = k) => (Edge(e, c)' <=> Edge(e, c))
           /\ Walking(Calls, e, c)' <=> Walking(Calls, e, c) \/ (e = w /\ c = k)
           /\ \A o \in Ors[e] : Feeding(Calls, e, o, c)' <=> Feeding(Calls, e, o, c),
         NEW e \in Functors, NEW c \in Places(e)
  PROVE  /\ Coming(e, c)' = IF e = w /\ c = k THEN Coming(e, c) \ {w} ELSE Coming(e, c)
         /\ w \in Coming(w, k)
<1>1. w \notin Ors[w]
  BY SamePlaces DEF Edges
<1>2. ASSUME NEW x \in Functors, x # w PROVE Owes(x, e, c)' <=> Owes(x, e, c)
  <2>1. CASE x = e
    BY <1>2, <2>1 DEF Owes
  <2>2. CASE x # e /\ e \in Ors[x]
    <3>1. c \in Places(x)
      BY <2>2, SamePlaces
    <3>2. QED
      BY <1>2, <2>2, <3>1 DEF Owes
  <2>3. CASE x # e /\ e \notin Ors[x]
    BY <2>3 DEF Owes
  <2>4. QED
    BY <2>1, <2>2, <2>3
<1>3. Owes(w, w, k) /\ ~ Owes(w, w, k)'
  BY <1>1 DEF Owes
<1>4. ASSUME ~ (e = w /\ c = k) PROVE Owes(w, e, c)' <=> Owes(w, e, c)
  <2>1. CASE w = e
    BY <1>1, <1>4, <2>1 DEF Owes
  <2>2. CASE w # e /\ e \in Ors[w]
    <3>1. c \in Places(w)
      BY <2>2, SamePlaces
    <3>2. QED
      BY <2>2, <3>1 DEF Owes
  <2>3. CASE w # e /\ e \notin Ors[w]
    BY <2>3 DEF Owes
  <2>4. QED
    BY <2>1, <2>2, <2>3
<1>5. CASE e = w /\ c = k
  BY <1>2, <1>3, <1>5 DEF Coming
<1>6. CASE ~ (e = w /\ c = k)
  BY <1>2, <1>3, <1>4, <1>6 DEF Coming
<1>7. QED
  BY <1>5, <1>6

LEMMA recv_vec4_saInv ==
  ASSUME IInv, NEW e \in Functors, recv_vec4_sa(e)
  PROVE  IInv'
<1>1. PICK f : f = Less(e)
  OBVIOUS
<1>2. PICK g : g = Walk(e, Static)
  OBVIOUS
<1>3. FramesOk /\ TypeOK /\ (aborted => cyclic) /\ (~ cyclic => Good)
  BY DEF IInv
<1>4. /\ stack # << >> /\ Top.op = "send" /\ e \in Top.todo /\ e \notin Automatic
      /\ bits_' = [bits_ EXCEPT ![e] = value[Sig[e]]]
      /\ UNCHANGED <<value, bits, threads, event_ctls, live, ctx, ops, aborted, hits, fired>>
  BY DEF recv_vec4_sa, Running
<1>5. /\ f \in Frame /\ f.op = Top.op /\ f.at = Top.at /\ f.ctx = Top.ctx
      /\ f.todo = Top.todo \ {e} /\ FrameOk(f) /\ FrameOk(Top) /\ Calls = {Top} \cup Under
      /\ Rest(e) = <<f>> \o Tail(stack)
  BY <1>1, <1>3, <1>4, LessFacts, TopFacts
<1>6. e \in Watchers(Top.at) /\ Top.at \in Signals /\ Sig[e] = Top.at /\ Kind[e] \in Edges
  BY <1>4, <1>5 DEF FrameOk, Watchers
<1>7. g \in Frame /\ g.op = "walk" /\ g.at = e /\ g.ctx = Static /\ ~ g.fired /\ FrameOk(g)
  BY <1>2, <1>4, <1>6 DEF Walk, Frame, FrameOk, Places, Edges
<1>8. bits_' \in [Functors -> Bit4] /\ bits_'[e] = value[Sig[e]] /\ \A x \in Functors : x # e => bits_'[x] = bits_[x]
  BY <1>3, <1>4, <1>6 DEF TypeOK
<1>9. Places(e) = {Static} /\ Seen(e, Static) = bits_[e] /\ \A x : Places(x)' = Places(x)
  BY <1>4 DEF Places, Seen
<1>10. ASSUME Good,
              \A x, c : x # e => /\ Unseen(Calls, x)' <=> Unseen(Calls, x)
                                 /\ ToCome(Calls, x, c)' <=> ToCome(Calls, x, c)
       PROVE  SeenOk' /\ \A x \in Functors : \A c : x # e => (Edge(x, c)' <=> Edge(x, c))
  <2>1. \A x \in Functors : \A c : x # e => Seen(x, c)' = Seen(x, c)
    BY <1>4, <1>8 DEF Seen
  <2>2. Seen(e, Static)' = value[Sig[e]]
    BY <1>4, <1>8 DEF Seen
  <2>3. ASSUME NEW s \in Signals, NEW x \in Watchers(s)
        PROVE  /\ ~ Unseen(Calls, x)' => bits_'[x] = value'[s]
               /\ \A c \in Places(x)' : ~ ToCome(Calls, x, c)' => Seen(x, c)' = value'[s]
    <3>1. /\ ~ Unseen(Calls, x) => bits_[x] = value[s]
          /\ \A c \in Places(x) : ~ ToCome(Calls, x, c) => Seen(x, c) = value[s]
      BY <1>10 DEF Good, SeenOk
    <3>2. x \in Functors /\ Sig[x] = s /\ Places(x)' = Places(x) /\ value' = value
      BY <1>4, <1>9 DEF Watchers
    <3>3. CASE x = e
      BY <1>8, <1>9, <2>2, <3>2, <3>3
    <3>4. CASE x # e
      BY <1>8, <1>10, <2>1, <3>1, <3>2, <3>4
    <3>5. QED
      BY <3>3, <3>4
  <2>4. SeenOk'
    BY <2>3 DEF SeenOk
  <2>5. \A x \in Functors : \A c : x # e => (Edge(x, c)' <=> Edge(x, c))
    BY <1>4, <1>10, <2>1 DEF Edge
  <2>6. QED
    BY <2>4, <2>5
<1>11. CASE ~ Triggers(Kind[e], bits_[e], value[Sig[e]])
  <2>1. stack' = <<f>> \o Tail(stack) /\ UNCHANGED <<last, cyclic>>
    BY <1>5, <1>11 DEF recv_vec4_sa
  <2>2. /\ FramesOk' /\ Calls' = {f} \cup Under
        /\ OnceEach(stack) /\ Chained(stack) => OnceEach(stack)' /\ Chained(stack)'
    BY <1>3, <1>4, <1>5, <2>1, GoOn
  <2>3. TypeOK' /\ (aborted => cyclic)'
    BY <1>3, <1>4, <1>8, <2>1 DEF TypeOK
  <2>4. ASSUME ~ cyclic' PROVE Good'
    <3>1. Good /\ OnceEach(stack) /\ Chained(stack)
      BY <1>3, <2>1, <2>4 DEF Good
    <3>2. \A c : ~ ToCome(Under, e, c)
      BY <1>3, <1>4, <3>1, SendAlone
    <3>3. \A x, c, o : /\ x # e => (Unseen(Calls, x)' <=> Unseen(Calls, x))
                       /\ x # e => (ToCome(Calls, x, c)' <=> ToCome(Calls, x, c))
                       /\ Walking(Calls, x, c)' <=> Walking(Calls, x, c)
                       /\ Feeding(Calls, x, o, c)' <=> Feeding(Calls, x, o, c)
                       /\ Firing(Calls, x)' <=> Firing(Calls, x)
                       /\ ~ ToCome(Calls, e, c)'
      BY <1>4, <1>5, <2>2, <3>2, AddCall
    <3>4. SeenOk' /\ \A x \in Functors : \A c : x # e => (Edge(x, c)' <=> Edge(x, c))
      BY <1>10, <3>1, <3>3
    <3>5. \A c \in Places(e) : ~ Edge(e, c) /\ ~ Edge(e, c)'
      BY <1>9, <1>11, <3>3 DEF Edge
    <3>6. \A x \in Functors : \A c \in Places(x) : Edge(x, c)' <=> Edge(x, c)
      BY <3>4, <3>5
    <3>7. OnceEach(stack)' /\ Chained(stack)'
      BY <2>2, <3>1
    <3>8. QED
      BY <1>3, <1>4, <2>1, <3>1, <3>3, <3>4, <3>6, <3>7, SameWay
  <2>5. QED
    BY <2>2, <2>3, <2>4 DEF IInv
<1>12. CASE Triggers(Kind[e], bits_[e], value[Sig[e]])
  <2>1. /\ stack' = <<g>> \o (<<f>> \o Tail(stack)) /\ last' = [last EXCEPT ![e] = 0]
        /\ (cyclic => cyclic') /\ cyclic' \in BOOLEAN
    BY <1>2, <1>3, <1>5, <1>12 DEF recv_vec4_sa, Enter, TypeOK
  <2>2. /\ FramesOk' /\ Calls' = {g, f} \cup Under
        /\ OnceEach(stack) /\ Chained(stack) /\ Supported(g, {f} \cup Under)
           /\ (\A h \in {f} \cup Under : ~ Clash(g, h)) => OnceEach(stack)' /\ Chained(stack)'
    BY <1>3, <1>4, <1>5, <1>7, <2>1, CallOn
  <2>3. TypeOK' /\ (aborted => cyclic)'
    BY <1>3, <1>4, <1>8, <2>1, EnterType DEF TypeOK
  <2>4. ASSUME ~ cyclic' PROVE Good'
    <3>1. Good /\ OnceEach(stack) /\ Chained(stack)
      BY <1>3, <2>1, <2>4 DEF Good
    <3>2. /\ \A c : ~ ToCome(Under, e, c) /\ ~ Walking(Under, e, c) /\ ~ Firing(Under, e)
          /\ \A h \in Under : ~ (h.op \in {"walk", "ors"} /\ h.at = e)
      BY <1>3, <1>4, <3>1, SendAlone
    <3>3. Supported(g, {f} \cup Under) /\ \A h \in {f} \cup Under : ~ Clash(g, h)
      BY <1>4, <1>5, <1>6, <1>7, <3>2 DEF Supported, Sent, Clash
    <3>4. OnceEach(stack)' /\ Chained(stack)'
      BY <2>2, <3>1, <3>3
    <3>5. PICK F : F = {f} \cup Under /\ Calls' = {g} \cup F
      BY <2>2
    <3>6. \A x, c, o : /\ x # e => (Unseen(F, x) <=> Unseen(Calls, x))
                       /\ x # e => (ToCome(F, x, c) <=> ToCome(Calls, x, c))
                       /\ Walking(F, x, c) <=> Walking(Calls, x, c)
                       /\ Feeding(F, x, o, c) <=> Feeding(Calls, x, o, c)
                       /\ Firing(F, x) <=> Firing(Calls, x)
                       /\ ~ ToCome(F, e, c) /\ ToCome(Calls, e, c)
                       /\ ~ Walking(Calls, e, c) /\ ~ Firing(Calls, e)
      BY <1>4, <1>5, <3>2, <3>5, AddCall
    <3>7. \A x, c, o : /\ Unseen(Calls, x)' <=> Unseen(F, x)
                       /\ ToCome(Calls, x, c)' <=> ToCome(F, x, c)
                       /\ Walking(Calls, x, c)' <=> Walking(F, x, c) \/ (x = e /\ c = Static)
                       /\ Feeding(Calls, x, o, c)' <=> Feeding(F, x, o, c)
                       /\ Firing(Calls, x)' <=> Firing(F, x)
      BY <1>7, <3>5, AddCall
    <3>8. SeenOk' /\ \A x \in Functors : \A c : x # e => (Edge(x, c)' <=> Edge(x, c))
      BY <1>10, <3>1, <3>6, <3>7
    <3>9. Edge(e, Static) /\ ~ Edge(e, Static)'
      BY <1>9, <1>12, <3>6, <3>7 DEF Edge
    <3>10. \A x \in Functors : \A c \in Places(x) :
             /\ ~ (x = e /\ c = Static) => (Edge(x, c)' <=> Edge(x, c))
             /\ Walking(Calls, x, c)' <=> Walking(Calls, x, c) \/ (x = e /\ c = Static)
             /\ \A o \in Ors[x] : Feeding(Calls, x, o, c)' <=> Feeding(Calls, x, o, c)
      BY <1>9, <3>6, <3>7, <3>8
    <3>11. /\ e \in Coming(e, Static)
           /\ \A x \in Functors : \A c \in Places(x) :
                Coming(x, c)' = IF x = e /\ c = Static THEN Coming(x, c) \ {e} ELSE Coming(x, c)
      BY <1>4, <1>6, <1>9, <3>9, <3>10, EdgeComing
    <3>12. Enters(e, Static, e)
      BY <1>4, <1>9, <2>1, <3>6, <3>7, <3>11 DEF Enters
    <3>13. QED
      BY <1>3, <3>1, <3>4, <3>8, <3>12, EnterGood
  <2>5. QED
    BY <2>2, <2>3, <2>4 DEF IInv
<1>13. QED
  BY <1>11, <1>12

LEMMA recv_contextInv ==
  ASSUME IInv, NEW k \in Contexts, recv_context(k)
  PROVE  IInv'
<1>0. PICK e : e = Top.at
  OBVIOUS
<1>1. PICK f : f = Less(k)
  OBVIOUS
<1>2. PICK g : g = Walk(e, k)
  OBVIOUS
<1>3. FramesOk /\ TypeOK /\ (aborted => cyclic) /\ (~ cyclic => Good)
  BY DEF IInv
<1>4. /\ stack # << >> /\ Top.op = "live" /\ k \in Top.todo
      /\ bits' = [bits EXCEPT ![e][k] = value[Sig[e]]]
      /\ UNCHANGED <<value, bits_, threads, event_ctls, live, ctx, ops, aborted, hits, fired>>
  BY <1>0 DEF recv_context, Running
<1>5. /\ f \in Frame /\ f.op = Top.op /\ f.at = e /\ f.ctx = Top.ctx
      /\ f.todo = Top.todo \ {k} /\ FrameOk(f) /\ FrameOk(Top) /\ Calls = {Top} \cup Under
      /\ Rest(k) = <<f>> \o Tail(stack)
  BY <1>0, <1>1, <1>3, <1>4, LessFacts, TopFacts
<1>6. e \in Functors /\ e \in Automatic /\ Sig[e] \in Signals /\ Kind[e] \in Edges /\ k \in live
  BY <1>0, <1>4, <1>5, EventAssumption DEF FrameOk, Watchers
<1>7. g \in Frame /\ g.op = "walk" /\ g.at = e /\ g.ctx = k /\ ~ g.fired /\ FrameOk(g)
  BY <1>2, <1>4, <1>6 DEF Walk, Frame, FrameOk, Places, Edges
<1>8. /\ bits' \in [Functors -> [Contexts -> Bit4]] /\ bits'[e][k] = value[Sig[e]]
      /\ \A x \in Functors : \A c \in Contexts : ~ (x = e /\ c = k) => bits'[x][c] = bits[x][c]
  BY <1>3, <1>4, <1>6 DEF TypeOK
<1>9. /\ k \in Places(e) /\ Seen(e, k) = bits[e][k]
      /\ \A x \in Functors : Places(x)' = Places(x) /\ (x \in Automatic => Places(x) \subseteq Contexts)
  BY <1>3, <1>4, <1>6 DEF Places, Seen, TypeOK
<1>10. ASSUME Good,
              \A x : Unseen(Calls, x)' <=> Unseen(Calls, x),
              \A x, c : ~ (x = e /\ c = k) => (ToCome(Calls, x, c)' <=> ToCome(Calls, x, c))
       PROVE  /\ SeenOk'
              /\ \A x \in Functors : \A c \in Places(x) :
                   ~ (x = e /\ c = k) => (Edge(x, c)' <=> Edge(x, c))
  <2>1. \A x \in Functors : \A c \in Places(x) : ~ (x = e /\ c = k) => Seen(x, c)' = Seen(x, c)
    BY <1>4, <1>8, <1>9 DEF Seen
  <2>2. Seen(e, k)' = value[Sig[e]]
    BY <1>6, <1>8 DEF Seen
  <2>3. ASSUME NEW s \in Signals, NEW x \in Watchers(s)
        PROVE  /\ ~ Unseen(Calls, x)' => bits_'[x] = value'[s]
               /\ \A c \in Places(x)' : ~ ToCome(Calls, x, c)' => Seen(x, c)' = value'[s]
    <3>1. /\ ~ Unseen(Calls, x) => bits_[x] = value[s]
          /\ \A c \in Places(x) : ~ ToCome(Calls, x, c) => Seen(x, c) = value[s]
      BY <1>10 DEF Good, SeenOk
    <3>2. x \in Functors /\ Sig[x] = s
      BY DEF Watchers
    <3>3. Places(x)' = Places(x) /\ value' = value /\ bits_' = bits_
      BY <1>4, <1>9, <3>2
    <3>4. ASSUME NEW c \in Places(x), ~ ToCome(Calls, x, c)' PROVE Seen(x, c)' = value[s]
      <4>1. CASE x = e /\ c = k
        BY <2>2, <3>2, <4>1
      <4>2. CASE ~ (x = e /\ c = k)
        BY <1>10, <2>1, <3>1, <3>2, <3>4, <4>2
      <4>3. QED
        BY <4>1, <4>2
    <3>5. QED
      BY <1>10, <3>1, <3>3, <3>4
  <2>4. SeenOk'
    BY <2>3 DEF SeenOk
  <2>5. \A x \in Functors : \A c \in Places(x) : ~ (x = e /\ c = k) => (Edge(x, c)' <=> Edge(x, c))
    BY <1>4, <1>10, <2>1 DEF Edge
  <2>6. QED
    BY <2>4, <2>5
<1>11. CASE ~ Triggers(Kind[e], bits[e][k], value[Sig[e]])
  <2>1. stack' = <<f>> \o Tail(stack) /\ UNCHANGED <<last, cyclic>>
    BY <1>0, <1>5, <1>11 DEF recv_context
  <2>2. /\ FramesOk' /\ Calls' = {f} \cup Under
        /\ OnceEach(stack) /\ Chained(stack) => OnceEach(stack)' /\ Chained(stack)'
    BY <1>0, <1>3, <1>4, <1>5, <2>1, GoOn
  <2>3. TypeOK' /\ (aborted => cyclic)'
    BY <1>3, <1>4, <1>8, <2>1 DEF TypeOK
  <2>4. ASSUME ~ cyclic' PROVE Good'
    <3>1. Good /\ OnceEach(stack) /\ Chained(stack)
      BY <1>3, <2>1, <2>4 DEF Good
    <3>2. \A c : ~ ToCome(Under, e, c)
      BY <1>0, <1>3, <1>4, <3>1, LiveAlone
    <3>3. \A x, c, o : /\ Unseen(Calls, x)' <=> Unseen(Calls, x)
                       /\ ~ (x = e /\ c = k) => (ToCome(Calls, x, c)' <=> ToCome(Calls, x, c))
                       /\ Walking(Calls, x, c)' <=> Walking(Calls, x, c)
                       /\ Feeding(Calls, x, o, c)' <=> Feeding(Calls, x, o, c)
                       /\ Firing(Calls, x)' <=> Firing(Calls, x)
                       /\ ~ ToCome(Calls, e, k)'
      BY <1>0, <1>4, <1>5, <2>2, <3>2, AddCall
    <3>4. /\ SeenOk'
          /\ \A x \in Functors : \A c \in Places(x) :
               ~ (x = e /\ c = k) => (Edge(x, c)' <=> Edge(x, c))
      BY <1>10, <3>1, <3>3
    <3>5. ~ Edge(e, k) /\ ~ Edge(e, k)'
      BY <1>9, <1>11, <3>3 DEF Edge
    <3>6. \A x \in Functors : \A c \in Places(x) : Edge(x, c)' <=> Edge(x, c)
      BY <3>4, <3>5
    <3>7. OnceEach(stack)' /\ Chained(stack)'
      BY <2>2, <3>1
    <3>8. QED
      BY <1>3, <1>4, <2>1, <3>1, <3>3, <3>4, <3>6, <3>7, SameWay
  <2>5. QED
    BY <2>2, <2>3, <2>4 DEF IInv
<1>12. CASE Triggers(Kind[e], bits[e][k], value[Sig[e]])
  <2>1. /\ stack' = <<g>> \o (<<f>> \o Tail(stack)) /\ last' = [last EXCEPT ![e] = 0]
        /\ (cyclic => cyclic') /\ cyclic' \in BOOLEAN
    BY <1>0, <1>2, <1>3, <1>5, <1>12 DEF recv_context, Enter, TypeOK
  <2>2. /\ FramesOk' /\ Calls' = {g, f} \cup Under
        /\ OnceEach(stack) /\ Chained(stack) /\ Supported(g, {f} \cup Under)
           /\ (\A h \in {f} \cup Under : ~ Clash(g, h)) => OnceEach(stack)' /\ Chained(stack)'
    BY <1>0, <1>3, <1>4, <1>5, <1>7, <2>1, CallOn
  <2>3. TypeOK' /\ (aborted => cyclic)'
    BY <1>3, <1>4, <1>6, <1>8, <2>1, EnterType DEF TypeOK
  <2>4. ASSUME ~ cyclic' PROVE Good'
    <3>1. Good /\ OnceEach(stack) /\ Chained(stack)
      BY <1>3, <2>1, <2>4 DEF Good
    <3>2. /\ \A c : ~ ToCome(Under, e, c) /\ ~ Walking(Under, e, c) /\ ~ Firing(Under, e)
          /\ \A h \in Under : ~ (h.op \in {"walk", "ors"} /\ h.at = e)
      BY <1>0, <1>3, <1>4, <3>1, LiveAlone
    <3>3. Supported(g, {f} \cup Under) /\ \A h \in {f} \cup Under : ~ Clash(g, h)
      BY <1>4, <1>5, <1>6, <1>7, <3>2 DEF Supported, Clash
    <3>4. OnceEach(stack)' /\ Chained(stack)'
      BY <2>2, <3>1, <3>3
    <3>5. PICK F : F = {f} \cup Under /\ Calls' = {g} \cup F
      BY <2>2
    <3>6. \A x, c, o : /\ Unseen(F, x) <=> Unseen(Calls, x)
                       /\ ~ (x = e /\ c = k) => (ToCome(F, x, c) <=> ToCome(Calls, x, c))
                       /\ Walking(F, x, c) <=> Walking(Calls, x, c)
                       /\ Feeding(F, x, o, c) <=> Feeding(Calls, x, o, c)
                       /\ Firing(F, x) <=> Firing(Calls, x)
                       /\ ~ ToCome(F, e, k) /\ ToCome(Calls, e, k)
                       /\ ~ Walking(Calls, e, c) /\ ~ Firing(Calls, e)
      BY <1>0, <1>4, <1>5, <3>2, <3>5, AddCall, ZenonT(40)
    <3>7. \A x, c, o : /\ Unseen(Calls, x)' <=> Unseen(F, x)
                       /\ ToCome(Calls, x, c)' <=> ToCome(F, x, c)
                       /\ Walking(Calls, x, c)' <=> Walking(F, x, c) \/ (x = e /\ c = k)
                       /\ Feeding(Calls, x, o, c)' <=> Feeding(F, x, o, c)
                       /\ Firing(Calls, x)' <=> Firing(F, x)
      BY <1>7, <3>5, AddCall
    <3>8. /\ SeenOk'
          /\ \A x \in Functors : \A c \in Places(x) :
               ~ (x = e /\ c = k) => (Edge(x, c)' <=> Edge(x, c))
      BY <1>10, <3>1, <3>6, <3>7
    <3>9. Edge(e, k) /\ ~ Edge(e, k)'
      BY <1>9, <1>12, <3>6, <3>7 DEF Edge
    <3>10. \A x \in Functors : \A c \in Places(x) :
             /\ ~ (x = e /\ c = k) => (Edge(x, c)' <=> Edge(x, c))
             /\ Walking(Calls, x, c)' <=> Walking(Calls, x, c) \/ (x = e /\ c = k)
             /\ \A o \in Ors[x] : Feeding(Calls, x, o, c)' <=> Feeding(Calls, x, o, c)
      BY <3>6, <3>7, <3>8
    <3>11. /\ e \in Coming(e, k)
           /\ \A x \in Functors : \A c \in Places(x) :
                Coming(x, c)' = IF x = e /\ c = k THEN Coming(x, c) \ {e} ELSE Coming(x, c)
      BY <1>4, <1>6, <1>9, <3>9, <3>10, EdgeComing
    <3>12. Enters(e, k, e)
      BY <1>4, <1>6, <1>9, <2>1, <3>6, <3>7, <3>11 DEF Enters
    <3>13. QED
      BY <1>3, <3>1, <3>4, <3>8, <3>12, EnterGood
  <2>5. QED
    BY <2>2, <2>3, <2>4 DEF IInv
<1>13. QED
  BY <1>11, <1>12

(* An event that is being passed on is not on its way as well. *)
LEMMA OrsAlone ==
  ASSUME FramesOk, OnceEach(stack), Chained(stack), stack # << >>, Top.op = "ors",
         Ors[Top.at] # {}
  PROVE  /\ ~ ToCome(Calls, Top.at, Top.ctx)
         /\ \A f \in Under : ~ (f.op \in {"walk", "ors"} /\ f.at = Top.at)
<1>1. /\ FrameOk(Top) /\ Calls = {Top} \cup Under /\ \A f \in Under : FrameOk(f)
  BY TopFacts
<1>2. Kind[Top.at] # "or"
  BY <1>1 DEF FrameOk
<1>3. /\ \A f \in Under : Supported(f, Under) /\ ~ Clash(Top, f)
      /\ \A g, h \in Under : Clash(g, h) => g = h
      /\ Supported(Top, Under)
  BY TopApart
<1>4. \A f \in Under : ~ (f.op \in {"walk", "ors"} /\ f.at = Top.at)
  BY <1>2, <1>3 DEF Clash
<1>5. ASSUME Sent(Under, Top.at), NEW f \in Under, f.op = "send", Top.at \in f.todo PROVE FALSE
  <2>1. PICK g \in Under : g.op = "send" /\ g.at = Sig[Top.at] /\ Top.at \notin g.todo
    BY <1>5 DEF Sent
  <2>2. Top.at \in Watchers(f.at)
    BY <1>1, <1>5 DEF FrameOk
  <2>3. f.at = g.at
    BY <2>1, <2>2 DEF Watchers
  <2>4. f = g
    BY <1>3, <1>5, <2>1, <2>3 DEF Clash
  <2>5. QED
    BY <1>5, <2>1, <2>4
<1>6. ASSUME NEW f \in Under, f.op = "send", Top.at \in f.todo PROVE FALSE
  <2>1. Kind[Top.at] \in Edges
    BY <1>1, <1>6 DEF FrameOk, Watchers
  <2>2. Sent(Under, Top.at)
    BY <1>3, <2>1 DEF Supported
  <2>3. QED
    BY <1>5, <1>6, <2>2
<1>7. ASSUME NEW f \in Under, f.op = "live", f.at = Top.at, Top.ctx \in f.todo PROVE FALSE
  <2>1. Kind[Top.at] \in Edges /\ Top.at \in Automatic
    BY <1>1, <1>7 DEF FrameOk, Watchers
  <2>2. PICK g \in Under : g.op = "live" /\ g.at = Top.at /\ Top.ctx \notin g.todo
    BY <1>3, <2>1 DEF Supported
  <2>3. f = g
    BY <1>3, <1>7, <2>2 DEF Clash
  <2>4. QED
    BY <1>7, <2>2, <2>3
<1>8. ~ ToCome(Calls, Top.at, Top.ctx)
  BY <1>1, <1>6, <1>7 DEF ToCome
<1>9. QED
  BY <1>4, <1>8

LEMMA recv_vec4_orInv ==
  ASSUME IInv, NEW e \in Functors, recv_vec4_or(e)
  PROVE  IInv'
<1>0. PICK y, k : y = Top.at /\ k = Top.ctx
  OBVIOUS
<1>1. PICK f : f = Less(e)
  OBVIOUS
<1>2. PICK g : g = Walk(e, k)
  OBVIOUS
<1>3. FramesOk /\ TypeOK /\ (aborted => cyclic) /\ (~ cyclic => Good)
  BY DEF IInv
<1>4. /\ stack # << >> /\ Top.op = "ors" /\ e \in Top.todo
      /\ UNCHANGED <<value, bits_, bits, threads, event_ctls, live, ctx, ops, aborted, hits, fired>>
  BY DEF recv_vec4_or, Running
<1>5. /\ f \in Frame /\ f.op = Top.op /\ f.at = y /\ f.ctx = k
      /\ f.todo = Top.todo \ {e} /\ FrameOk(f) /\ FrameOk(Top) /\ Calls = {Top} \cup Under
      /\ Rest(e) = <<f>> \o Tail(stack) /\ Top \in Frame /\ Tail(stack) \in Seq(Frame)
  BY <1>0, <1>1, <1>3, <1>4, LessFacts, TopFacts
<1>6. y \in Functors /\ e \in Ors[y] /\ k \in Places(y) /\ k \in Contexts \cup {Static}
  BY <1>0, <1>4, <1>5 DEF FrameOk, Frame
<1>7. Places(e) = Places(y) /\ Ors[e] = {} /\ Kind[e] = "or" /\ Kind[e] \notin Edges /\ y # e
  <2>1. Places(e) = Places(y) /\ Ors[e] = {} /\ Kind[e] = "or"
    BY <1>6, SamePlaces
  <2>2. QED
    BY <1>6, <2>1 DEF Edges
<1>8. g \in Frame /\ g.op = "walk" /\ g.at = e /\ g.ctx = k /\ ~ g.fired /\ FrameOk(g)
  BY <1>2, <1>6, <1>7 DEF Walk, Frame, FrameOk
<1>9. /\ stack' = <<g>> \o (<<f>> \o Tail(stack)) /\ last' = [last EXCEPT ![e] = 0]
      /\ (cyclic => cyclic') /\ cyclic' \in BOOLEAN
  BY <1>0, <1>2, <1>3, <1>5 DEF recv_vec4_or, Enter, TypeOK
<1>10. ASSUME ~ cyclic', NEW h \in Under PROVE ~ (h.op = "walk" /\ h.at = e)
  <2>1. PICK r : r = <<f>> \o Tail(stack)
    OBVIOUS
  <2>2. ~ \E i \in DOMAIN r : r[i].op = "walk" /\ r[i].at = e
    BY <1>5, <1>10, <2>1 DEF recv_vec4_or, Enter
  <2>3. Range(r) = {f} \cup Under
    BY <1>5, <2>1, RangeFront DEF Under
  <2>4. QED
    BY <2>2, <2>3 DEF Range
<1>11. /\ FramesOk' /\ Calls' = {g, f} \cup Under
       /\ OnceEach(stack) /\ Chained(stack) /\ Supported(g, {f} \cup Under)
          /\ (\A h \in {f} \cup Under : ~ Clash(g, h)) => OnceEach(stack)' /\ Chained(stack)'
  BY <1>0, <1>3, <1>4, <1>5, <1>8, <1>9, CallOn
<1>12. TypeOK' /\ (aborted => cyclic)'
  BY <1>3, <1>4, <1>9, EnterType DEF TypeOK
<1>13. ASSUME ~ cyclic' PROVE Good'
  <2>1. Good /\ OnceEach(stack) /\ Chained(stack)
    BY <1>3, <1>9, <1>13 DEF Good
  <2>2. Supported(g, {f} \cup Under) /\ \A h \in {f} \cup Under : ~ Clash(g, h)
    BY <1>4, <1>5, <1>7, <1>8, <1>10, <1>13 DEF Supported, Clash
  <2>3. OnceEach(stack)' /\ Chained(stack)'
    BY <1>11, <2>1, <2>2
  <2>4. PICK F : F = {f} \cup Under /\ Calls' = {g} \cup F
    BY <1>11
  <2>5. ~ ToCome(Calls, y, k) /\ \A h \in Under : ~ (h.op \in {"walk", "ors"} /\ h.at = y)
    BY <1>0, <1>3, <1>4, <1>6, <2>1, OrsAlone
  <2>6. /\ ~ Walking(Under, y, k) /\ ~ Feeding(Under, y, e, k)
        /\ \A c : ~ Walking(Under, e, c) /\ ~ Firing(Under, e)
    BY <1>10, <1>13, <2>5 DEF Walking, Feeding, Firing
  <2>7. \A x, c, o : /\ Unseen(F, x) <=> Unseen(Calls, x)
                     /\ ToCome(F, x, c) <=> ToCome(Calls, x, c)
                     /\ Walking(F, x, c) <=> Walking(Calls, x, c)
                     /\ ~ (x = y /\ o = e /\ c = k) => (Feeding(F, x, o, c) <=> Feeding(Calls, x, o, c))
                     /\ ~ Feeding(F, y, e, k) /\ Feeding(Calls, y, e, k)
                     /\ Firing(F, x) <=> Firing(Calls, x)
                     /\ ~ Walking(Calls, e, c) /\ ~ Firing(Calls, e) /\ ~ Walking(Calls, y, k)
    BY <1>0, <1>4, <1>5, <2>4, <2>6, AddCall, ZenonT(40)
  <2>8. \A x, c, o : /\ Unseen(Calls, x)' <=> Unseen(F, x)
                     /\ ToCome(Calls, x, c)' <=> ToCome(F, x, c)
                     /\ Walking(Calls, x, c)' <=> Walking(F, x, c) \/ (x = e /\ c = k)
                     /\ Feeding(Calls, x, o, c)' <=> Feeding(F, x, o, c)
                     /\ Firing(Calls, x)' <=> Firing(F, x)
    BY <1>8, <2>4, AddCall
  <2>9. SeenOk' /\ \A x, c : Edge(x, c)' <=> Edge(x, c)
    BY <1>4, <2>1, <2>7, <2>8, ZenonT(40) DEF Good, SeenOk, Seen, Places, Edge
  <2>10. ~ Edge(y, k)
    BY <2>5 DEF Edge
  <2>11. ASSUME NEW x \in Functors, NEW z \in Functors, NEW c, ~ (x = y /\ z = e /\ c = k)
         PROVE  Owes(x, z, c)' <=> Owes(x, z, c)
    <3>1. z \in Ors[x] => x # e
      BY <1>7
    <3>2. QED
      BY <2>7, <2>8, <2>9, <2>11, <3>1 DEF Owes
  <2>12. Owes(y, e, k) /\ ~ Owes(y, e, k)'
    BY <1>6, <1>7, <2>7, <2>8, <2>9, <2>10 DEF Owes
  <2>13. /\ y \in Coming(e, k)
         /\ \A z \in Functors : \A c \in Places(z) :
              Coming(z, c)' = IF z = e /\ c = k THEN Coming(z, c) \ {y} ELSE Coming(z, c)
    BY <1>6, <2>11, <2>12 DEF Coming
  <2>14. Enters(e, k, y)
    BY <1>4, <1>6, <1>7, <1>9, <2>7, <2>8, <2>13 DEF Enters
  <2>15. QED
    BY <1>3, <2>1, <2>3, <2>9, <2>14, EnterGood
<1>14. QED
  BY <1>11, <1>12, <1>13 DEF IInv

-----------------------------------------------------------------------------
(* A walk goes on and ends. *)

LEMMA WalkAlone ==
  ASSUME FramesOk, OnceEach(stack), Chained(stack), stack # << >>, Top.op = "walk"
  PROVE  /\ Top.at \in Functors /\ Top.ctx \in Places(Top.at)
         /\ \A c : ~ Walking(Under, Top.at, c)
         /\ ~ Firing(Under, Top.at)
<1>1. FrameOk(Top) /\ \A f \in Under : ~ Clash(Top, f)
  BY TopFacts, TopApart
<1>2. QED
  BY <1>1 DEF FrameOk, Clash, Walking, Firing

LEMMA wake_threadsInv ==
  ASSUME IInv, wake_threads
  PROVE  IInv'
<1>0. PICK e, k : e = Top.at /\ k = Top.ctx
  OBVIOUS
<1>1. PICK f : f = Call("ors", e, k, Ors[e])
  OBVIOUS
<1>2. FramesOk /\ TypeOK /\ (aborted => cyclic) /\ (~ cyclic => Good)
  BY DEF IInv
<1>3. /\ stack # << >> /\ Top.op = "walk" /\ ~ Top.fired /\ last[e] = Len(event_ctls[e])
      /\ threads' = [threads EXCEPT ![e][k] = {}]
      /\ stack' = <<f>> \o Tail(stack)
      /\ UNCHANGED <<value, bits_, bits, event_ctls, last, live, ctx, ops, aborted,
                     hits, fired, cyclic>>
  BY <1>0, <1>1 DEF wake_threads, Running
<1>4. FrameOk(Top) /\ Calls = {Top} \cup Under /\ Top \in Frame
  BY <1>2, <1>3, TopFacts
<1>5. e \in Functors /\ k \in Places(e) /\ k \in Contexts \cup {Static} /\ (Kind[e] = "or" => Ors[e] = {})
  BY <1>0, <1>3, <1>4 DEF FrameOk, Frame
<1>6. f \in Frame /\ f.op = "ors" /\ f.at = e /\ f.ctx = k /\ f.todo = Ors[e] /\ FrameOk(f)
  BY <1>1, <1>5, EventAssumption DEF Call, Frame, FrameOk
<1>7. /\ FramesOk' /\ Calls' = {f} \cup Under
      /\ OnceEach(stack) /\ Chained(stack) => OnceEach(stack)' /\ Chained(stack)'
  BY <1>0, <1>2, <1>3, <1>6, GoOn
<1>8. /\ threads' \in [Functors -> [Contexts \cup {Static} -> SUBSET Threads]]
      /\ threads'[e][k] = {}
      /\ \A x \in Functors, c \in Contexts \cup {Static} :
           ~ (x = e /\ c = k) => threads'[x][c] = threads[x][c]
  BY <1>2, <1>3, <1>5 DEF TypeOK
<1>9. TypeOK' /\ (aborted => cyclic)'
  BY <1>2, <1>3, <1>8 DEF TypeOK
<1>10. ASSUME ~ cyclic' PROVE Good'
  <2>1. Good /\ OnceEach(stack) /\ Chained(stack)
    BY <1>2, <1>3, <1>10 DEF Good
  <2>2. \A c : ~ Walking(Under, e, c) /\ ~ Firing(Under, e)
    BY <1>0, <1>2, <1>3, <2>1, WalkAlone
  <2>3. OnceEach(stack)' /\ Chained(stack)'
    BY <1>7, <2>1
  <2>4. \A x, c, o : /\ Unseen(Calls, x)' <=> Unseen(Calls, x)
                     /\ ToCome(Calls, x, c)' <=> ToCome(Calls, x, c)
                     /\ ~ (x = e /\ c = k) => (Walking(Calls, x, c)' <=> Walking(Calls, x, c))
                     /\ ~ (x = e /\ c = k) => (Feeding(Calls, x, o, c)' <=> Feeding(Calls, x, o, c))
                     /\ Walking(Calls, e, k) /\ ~ Walking(Calls, e, k)'
                     /\ o \in Ors[e] => Feeding(Calls, e, o, k)'
                     /\ Firing(Calls, x)' <=> Firing(Calls, x)
                     /\ ~ Firing(Calls, e)
    BY <1>0, <1>3, <1>4, <1>6, <1>7, <2>2, AddCall, ZenonT(40)
  <2>5. SeenOk' /\ \A x, c : Edge(x, c)' <=> Edge(x, c)
    BY <1>3, <2>1, <2>4 DEF Good, SeenOk, Seen, Places, Edge
  <2>6. \A z, c : Coming(z, c)' = Coming(z, c)
    <3>1. ASSUME NEW x \in Functors, NEW z, NEW c PROVE Owes(x, z, c)' <=> Owes(x, z, c)
      BY <2>4, <2>5 DEF Owes
    <3>2. QED
      BY <3>1 DEF Coming
  <2>7. ContextsOk'
    BY <1>3, <2>1 DEF Good, ContextsOk
  <2>8. WaitsOk'
    <3> SUFFICES ASSUME NEW z \in Functors, NEW c \in Contexts \cup {Static}, NEW t \in threads'[z][c]
                 PROVE  /\ c \in Places(z) /\ (c # Static => ctx[t] = c)
                        /\ \A h \in Functors, d \in Contexts \cup {Static} :
                             t \in threads'[h][d] => h = z /\ d = c
                        /\ hits[t] > 0 <=> Walking(Calls, z, c)' \/ Coming(z, c)' # {}
      BY <1>3 DEF WaitsOk, Places
    <3>1. ~ (z = e /\ c = k) /\ t \in threads[z][c]
      BY <1>8
    <3>2. /\ c \in Places(z) /\ (c # Static => ctx[t] = c)
          /\ \A h \in Functors, d \in Contexts \cup {Static} : t \in threads[h][d] => h = z /\ d = c
          /\ hits[t] > 0 <=> Walking(Calls, z, c) \/ Coming(z, c) # {}
      BY <2>1, <3>1 DEF Good, WaitsOk
    <3>3. \A h \in Functors, d \in Contexts \cup {Static} : t \in threads'[h][d] => h = z /\ d = c
      BY <1>8, <3>2
    <3>4. QED
      BY <2>4, <2>6, <3>1, <3>2, <3>3
  <2>9. CtlsOk'
    <3>1. ASSUME NEW z \in Functors PROVE ListOk(z)'
      <4>1. /\ ListOk(z) /\ Len(event_ctls[z]) \in Nat
            /\ DOMAIN event_ctls[z] = 1..Len(event_ctls[z])
        BY <1>2, <2>1, CtlType DEF Good, CtlsOk
      <4>2. ASSUME NEW i \in DOMAIN event_ctls[z] PROVE CtlOk(z, i)'
        <5>1. CtlOk(z, i) /\ z \notin Automatic
          BY <4>1, <4>2 DEF ListOk
        <5>2. CASE z = e
          <6>1. ~ (i > last[z])
            BY <1>3, <4>1, <4>2, <5>2
          <6>2. QED
            BY <1>3, <2>4, <2>6, <5>1, <5>2, <6>1 DEF CtlOk
        <5>3. CASE z # e
          BY <1>3, <2>4, <2>6, <5>1, <5>3 DEF CtlOk
        <5>4. QED
          BY <5>2, <5>3
      <4>3. QED
        BY <1>3, <2>4, <4>1, <4>2 DEF ListOk
    <3>2. QED
      BY <1>3, <2>1, <3>1 DEF Good, CtlsOk
  <2>10. QED
    BY <2>3, <2>5, <2>7, <2>8, <2>9 DEF Good
<1>11. QED
  BY <1>7, <1>9, <1>10 DEF IInv

Shorter(r, s, l, S) ==
  /\ r \in Seq(S) /\ l <= Len(r)
  /\ l < Len(s) => /\ Len(r) = Len(s) - 1
                   /\ \A i \in 1..(Len(s) - 1) : r[i] = IF i <= l THEN s[i] ELSE s[i + 1]

LEMMA Removed ==
  ASSUME NEW S, NEW s, s \in Seq(S), NEW l, l \in Nat, l <= Len(s)
  PROVE  Shorter(RemoveAt(s, l + 1), s, l, S)
<1>1. PICK r : r = RemoveAt(s, l + 1)
  OBVIOUS
<1>2. PICK a : a = SubSeq(s, 1, l)
  OBVIOUS
<1>3. PICK b : b = SubSeq(s, l + 2, Len(s))
  OBVIOUS
<1>4. r = a \o b
  <2>1. (l + 1) - 1 = l /\ (l + 1) + 1 = l + 2
    OBVIOUS
  <2>2. QED
    BY <1>1, <1>2, <1>3, <2>1 DEF RemoveAt
<1>5. a \in Seq(S) /\ Len(a) = l /\ \A i \in 1..l : a[i] = s[i]
  BY <1>2
<1>6. b \in Seq(S)
  BY <1>3
<1>7. r \in Seq(S) /\ Len(r) = l + Len(b) /\ Len(b) \in Nat
  <2>1. Len(b) \in Nat
    BY <1>6
  <2>2. \A x, y \in Seq(S) : x \o y \in Seq(S) /\ Len(x \o y) = Len(x) + Len(y)
    OBVIOUS
  <2>3. r \in Seq(S) /\ Len(r) = Len(a) + Len(b)
    BY <1>4, <1>5, <1>6, <2>2
  <2>4. QED
    BY <1>5, <2>1, <2>3
<1>8. ASSUME l < Len(s)
      PROVE  /\ Len(r) = Len(s) - 1
             /\ \A i \in 1..(Len(s) - 1) : r[i] = IF i <= l THEN s[i] ELSE s[i + 1]
  <2>1. Len(b) = Len(s) - l - 1 /\ \A j \in 1..(Len(s) - l - 1) : b[j] = s[l + 1 + j]
    BY <1>3, <1>8
  <2>2. Len(r) = Len(s) - 1
    BY <1>7, <2>1
  <2>3. ASSUME NEW i \in 1..(Len(s) - 1), i <= l PROVE r[i] = s[i]
    BY <1>4, <1>5, <1>6, <2>3
  <2>4. ASSUME NEW i \in 1..(Len(s) - 1), ~ i <= l PROVE r[i] = s[i + 1]
    <3>1. r[i] = b[i - l] /\ i - l \in 1..(Len(s) - l - 1)
      BY <1>4, <1>5, <1>6, <2>1, <2>4
    <3>2. l + 1 + (i - l) = i + 1
      OBVIOUS
    <3>3. QED
      BY <2>1, <3>1, <3>2
  <2>5. QED
    BY <2>2, <2>3, <2>4
<1>9. Shorter(r, s, l, S)
  BY <1>7, <1>8 DEF Shorter
<1>10. QED
  BY <1>1, <1>9

LEMMA delete_evctlInv ==
  ASSUME IInv, delete_evctl
  PROVE  IInv'
<1>0. PICK e, k : e = Top.at /\ k = Top.ctx
  OBVIOUS
<1>1. PICK f : f = Walk(e, k)
  OBVIOUS
<1>2. PICK r : r = RemoveAt(event_ctls[e], last[e] + 1)
  OBVIOUS
<1>3. FramesOk /\ TypeOK /\ (aborted => cyclic) /\ (~ cyclic => Good)
  BY DEF IInv
<1>4. /\ stack # << >> /\ Top.op = "walk" /\ Top.fired
      /\ event_ctls' = [event_ctls EXCEPT ![e] = r]
      /\ stack' = <<f>> \o Tail(stack)
      /\ UNCHANGED <<value, bits_, bits, threads, last, live, ctx, ops, aborted,
                     hits, fired, cyclic>>
  BY <1>0, <1>1, <1>2 DEF delete_evctl, Running
<1>5. FrameOk(Top) /\ Calls = {Top} \cup Under /\ Top \in Frame
  BY <1>3, <1>4, TopFacts
<1>6. e \in Functors /\ k \in Places(e) /\ k \in Contexts \cup {Static} /\ (Kind[e] = "or" => Ors[e] = {})
  BY <1>0, <1>4, <1>5 DEF FrameOk, Frame
<1>7. f \in Frame /\ f.op = "walk" /\ f.at = e /\ f.ctx = k /\ ~ f.fired /\ FrameOk(f)
  BY <1>1, <1>6 DEF Walk, Frame, FrameOk
<1>8. /\ FramesOk' /\ Calls' = {f} \cup Under
      /\ OnceEach(stack) /\ Chained(stack) => OnceEach(stack)' /\ Chained(stack)'
  BY <1>0, <1>3, <1>4, <1>7, GoOn
<1>9. /\ event_ctls[e] \in Seq(evctl) /\ Len(event_ctls[e]) \in Nat
      /\ last[e] \in Nat /\ last[e] <= Len(event_ctls[e])
      /\ DOMAIN event_ctls[e] = 1..Len(event_ctls[e])
  BY <1>3, <1>6, CtlType
<1>10. /\ r \in Seq(evctl) /\ last[e] <= Len(r)
       /\ last[e] < Len(event_ctls[e]) =>
            /\ Len(r) = Len(event_ctls[e]) - 1
            /\ \A i \in 1..(Len(event_ctls[e]) - 1) :
                 r[i] = IF i <= last[e] THEN event_ctls[e][i] ELSE event_ctls[e][i + 1]
  <2>1. PICK s, l : s = event_ctls[e] /\ l = last[e]
    OBVIOUS
  <2>2. s \in Seq(evctl) /\ l \in Nat /\ l <= Len(s)
    BY <1>9, <2>1
  <2>3. r = RemoveAt(s, l + 1)
    BY <1>2, <2>1
  <2>4. Shorter(RemoveAt(s, l + 1), s, l, evctl)
    BY <2>2, Removed
  <2>5. Shorter(r, s, l, evctl)
    BY <2>3, <2>4
  <2>6. QED
    BY <2>1, <2>5 DEF Shorter
<1>11. /\ event_ctls' \in [Functors -> Seq(evctl)] /\ event_ctls'[e] = r
       /\ \A x \in Functors : x # e => event_ctls'[x] = event_ctls[x]
  BY <1>3, <1>4, <1>6, <1>10 DEF TypeOK
<1>12. \A x \in Functors : last'[x] <= Len(event_ctls'[x])
  BY <1>3, <1>4, <1>10, <1>11 DEF TypeOK
<1>13. TypeOK' /\ (aborted => cyclic)'
  BY <1>3, <1>4, <1>11, <1>12 DEF TypeOK
<1>14. ASSUME ~ cyclic' PROVE Good'
  <2>1. Good /\ OnceEach(stack) /\ Chained(stack)
    BY <1>3, <1>4, <1>14 DEF Good
  <2>2. \A c : ~ Walking(Under, e, c) /\ ~ Firing(Under, e)
    BY <1>0, <1>3, <1>4, <2>1, WalkAlone
  <2>3. OnceEach(stack)' /\ Chained(stack)'
    BY <1>8, <2>1
  <2>4. \A x, c, o : /\ Unseen(Calls, x)' <=> Unseen(Calls, x)
                     /\ ToCome(Calls, x, c)' <=> ToCome(Calls, x, c)
                     /\ Walking(Calls, x, c)' <=> Walking(Calls, x, c)
                     /\ Feeding(Calls, x, o, c)' <=> Feeding(Calls, x, o, c)
                     /\ x # e => (Firing(Calls, x)' <=> Firing(Calls, x))
                     /\ Firing(Calls, e) /\ ~ Firing(Calls, e)' /\ Walking(Calls, e, k)
    BY <1>0, <1>4, <1>5, <1>7, <1>8, <2>2, AddCall, ZenonT(40)
  <2>5. SeenOk' /\ \A x, c : Edge(x, c)' <=> Edge(x, c)
    BY <1>4, <2>1, <2>4 DEF Good, SeenOk, Seen, Places, Edge
  <2>6. \A z, c : Coming(z, c)' = Coming(z, c)
    <3>1. ASSUME NEW x \in Functors, NEW z, NEW c PROVE Owes(x, z, c)' <=> Owes(x, z, c)
      BY <2>4, <2>5 DEF Owes
    <3>2. QED
      BY <3>1 DEF Coming
  <2>7. ContextsOk'
    BY <1>4, <2>1 DEF Good, ContextsOk
  <2>8. WaitsOk'
    BY <1>4, <2>1, <2>4, <2>6, SameWaits DEF Good
  <2>9. CtlsOk'
    <3>1. ASSUME NEW z \in Functors, z # e PROVE ListOk(z)'
      <4>1. ListOk(z) /\ event_ctls'[z] = event_ctls[z]
        BY <1>11, <2>1, <3>1 DEF Good, CtlsOk
      <4>2. ASSUME NEW i \in DOMAIN event_ctls[z] PROVE CtlOk(z, i)'
        <5>1. CtlOk(z, i)
          BY <4>1, <4>2 DEF ListOk
        <5>2. QED
          BY <1>4, <2>4, <2>6, <3>1, <4>1, <5>1 DEF CtlOk
      <4>3. QED
        BY <1>4, <2>4, <3>1, <4>1, <4>2 DEF ListOk
    <3>2. ListOk(e)'
      <4>1. ListOk(e) /\ last[e] < Len(event_ctls[e])
        BY <1>6, <2>1, <2>4 DEF Good, CtlsOk, ListOk
      <4>2. e \notin Automatic
        BY <1>9, <4>1 DEF ListOk
      <4>3. k = Static /\ Walking(Calls, e, Static) /\ Walking(Calls, e, Static)'
        BY <1>6, <2>4, <4>2 DEF Places
      <4>4. DOMAIN r = 1..(Len(event_ctls[e]) - 1) /\ last'[e] = last[e] /\ fired' = fired
        BY <1>4, <1>10, <4>1
      <4>5. ASSUME NEW i \in DOMAIN r PROVE CtlOk(e, i)'
        <5>1. PICK j \in DOMAIN event_ctls[e] :
                /\ r[i] = event_ctls[e][j] /\ j # last[e] + 1
                /\ (j > last[e] <=> i > last[e])
          <6>1. i \in Nat /\ i \in 1..(Len(event_ctls[e]) - 1)
            BY <4>4, <4>5, <1>9
          <6>2. CASE i <= last[e]
            <7>1. i \in DOMAIN event_ctls[e] /\ r[i] = event_ctls[e][i]
              BY <1>9, <1>10, <4>1, <6>1, <6>2
            <7>2. QED
              BY <1>9, <6>1, <6>2, <7>1
          <6>3. CASE ~ (i <= last[e])
            <7>1. i + 1 \in DOMAIN event_ctls[e] /\ r[i] = event_ctls[e][i + 1]
              BY <1>9, <1>10, <4>1, <6>1, <6>3
            <7>2. i + 1 # last[e] + 1 /\ i + 1 > last[e] /\ i > last[e]
              BY <1>9, <6>1, <6>3
            <7>3. QED
              BY <7>1, <7>2
          <6>4. QED
            BY <6>2, <6>3
        <5>2. CtlOk(e, j)
          BY <4>1 DEF ListOk
        <5>3. event_ctls'[e][i] = event_ctls[e][j]
          BY <1>11, <5>1
        <5>4. QED
          BY <2>4, <2>6, <4>3, <4>4, <5>1, <5>2, <5>3 DEF CtlOk
      <4>6. QED
        BY <1>11, <2>4, <4>2, <4>3, <4>5 DEF ListOk
    <3>3. QED
      BY <1>4, <2>1, <3>1, <3>2 DEF Good, CtlsOk
  <2>10. QED
    BY <2>3, <2>5, <2>7, <2>8, <2>9 DEF Good
<1>15. QED
  BY <1>8, <1>13, <1>14 DEF IInv

-----------------------------------------------------------------------------
(* Events happen. *)

(* The masks of event.cc are the edges of the standard. *)
LEMMA EdgeRight ==
  ASSUME NEW k \in Edges, NEW from \in Bit4, NEW to \in Bit4
  PROVE  Triggers(k, from, to) <=> IsEdge(k, from, to)
<1>1. /\ Level("0") = 0 /\ Level("1") = 2 /\ Level("X") = 1 /\ Level("Z") = 1
  BY DEF Level
<1>2. CASE k = "posedge"
  BY <1>1, <1>2 DEF Bit4, Triggers, IsEdge
<1>3. CASE k = "negedge"
  BY <1>1, <1>3 DEF Bit4, Triggers, IsEdge
<1>4. CASE k = "edge"
  BY <1>1, <1>4 DEF Bit4, Triggers, IsEdge
<1>5. CASE k = "anyedge"
  BY <1>5 DEF Triggers, IsEdge
<1>6. QED
  BY <1>2, <1>3, <1>4, <1>5 DEF Edges

LEMMA WalksFinite ==
  ASSUME NEW es \in SUBSET Functors, NEW e
  PROVE  IsFiniteSet(Walks(es, e)) /\ Cardinality(Walks(es, e)) \in Nat
<1>1. Walks(es, e) \in SUBSET Functors
  BY DEF Walks
<1>2. QED
  BY <1>1, EventAssumption, FS_Subset, FS_CardinalityType

(* The history of the event controls: all has stayed but the events seen. *)
MoreSeen(x, y, n) ==
  y.id = x.id /\ y.ecount = x.ecount /\ y.n = x.n /\ y.to = x.to /\ y.val = x.val /\ y.seen = x.seen + n

LEMMA HappensFacts ==
  ASSUME NEW es \in SUBSET Functors, NEW ctls \in [Functors -> Seq(evctl)],
         hits \in [Threads -> Nat], Happens(es, ctls)
  PROVE  /\ hits' \in [Threads -> Nat] /\ event_ctls' \in [Functors -> Seq(evctl)]
         /\ \A z \in Functors :
              /\ DOMAIN event_ctls'[z] = DOMAIN ctls[z] /\ Len(event_ctls'[z]) = Len(ctls[z])
              /\ \A i \in DOMAIN ctls[z] :
                   MoreSeen(ctls[z][i], event_ctls'[z][i], Cardinality(Walks(es, z)))
<1>1. hits' \in [Threads -> Nat]
  BY DEF Happens
<1>2. ASSUME NEW z \in Functors
      PROVE  /\ event_ctls'[z] \in Seq(evctl)
             /\ DOMAIN event_ctls'[z] = DOMAIN ctls[z] /\ Len(event_ctls'[z]) = Len(ctls[z])
             /\ \A i \in DOMAIN ctls[z] :
                  MoreSeen(ctls[z][i], event_ctls'[z][i], Cardinality(Walks(es, z)))
  <2>1. PICK s, n, r : s = ctls[z] /\ n = Cardinality(Walks(es, z)) /\ r = event_ctls'[z]
    OBVIOUS
  <2>2. r = [i \in DOMAIN s |-> [s[i] EXCEPT !.seen = @ + n]]
    BY <2>1 DEF Happens
  <2>3. s \in Seq(evctl) /\ n \in Nat
    BY <2>1, WalksFinite
  <2>4. ASSUME NEW i \in DOMAIN s PROVE r[i] \in evctl /\ MoreSeen(s[i], r[i], n)
    <3>1. PICK x, y : x = s[i] /\ y = r[i]
      OBVIOUS
    <3>2. x \in evctl /\ y = [x EXCEPT !.seen = @ + n]
      BY <2>2, <2>3, <2>4, <3>1
    <3>3. x.seen \in Nat /\ x.seen + n \in Nat
      <4>1. x.seen \in Nat
        BY <3>2 DEF evctl
      <4>2. QED
        BY <2>3, <4>1
    <3>4. y \in evctl
      BY <3>2, <3>3 DEF evctl
    <3>5. MoreSeen(x, y, n)
      BY <3>2 DEF evctl, MoreSeen
    <3>6. QED
      BY <3>1, <3>4, <3>5
  <2>5. DOMAIN r = DOMAIN s /\ DOMAIN s = 1..Len(s) /\ Len(s) \in Nat
    BY <2>2, <2>3
  <2>6. r \in Seq(evctl) /\ Len(r) = Len(s)
    <3>1. r = [i \in 1..Len(s) |-> r[i]]
      BY <2>2, <2>5
    <3>2. QED
      BY <2>4, <2>5, <3>1
  <2>7. QED
    BY <2>1, <2>4, <2>5, <2>6
<1>3. event_ctls' \in [Functors -> Seq(evctl)]
  BY <1>2 DEF Happens
<1>4. QED
  BY <1>1, <1>2, <1>3

LEMMA HappensWaits ==
  ASSUME TypeOK, WaitsOk, UNCHANGED <<threads, live, ctx>>, NEW es, NEW ctls, Happens(es, ctls),
         \A e \in Functors : \A c \in Places(e) :
           Walking(Calls, e, c)' \/ Coming(e, c)' # {} <=>
             Walking(Calls, e, c) \/ Coming(e, c) # {} \/ Walks(es, e) # {}
  PROVE  WaitsOk'
<1> SUFFICES ASSUME NEW e \in Functors, NEW c \in Contexts \cup {Static}, NEW t \in threads[e][c]
             PROVE  /\ c \in Places(e) /\ (c # Static => ctx[t] = c)
                    /\ \A f \in Functors, d \in Contexts \cup {Static} :
                         t \in threads[f][d] => f = e /\ d = c
                    /\ hits'[t] > 0 <=> Walking(Calls, e, c)' \/ Coming(e, c)' # {}
  BY DEF WaitsOk, Places
<1>1. /\ c \in Places(e) /\ (c # Static => ctx[t] = c)
      /\ \A f \in Functors, d \in Contexts \cup {Static} : t \in threads[f][d] => f = e /\ d = c
      /\ hits[t] > 0 <=> Walking(Calls, e, c) \/ Coming(e, c) # {}
  BY DEF WaitsOk
<1>2. t \in Threads /\ hits[t] \in Nat
  BY DEF TypeOK
<1>3. hits'[t] = IF Walks(es, e) # {} THEN hits[t] + 1 ELSE hits[t]
  BY <1>1, <1>2 DEF Happens
<1>4. hits'[t] > 0 <=> hits[t] > 0 \/ Walks(es, e) # {}
  BY <1>2, <1>3
<1>5. QED
  BY <1>1, <1>4

(* The value of s is being sent, from the calls F. *)
SendsFrom(F, s, v) ==
  /\ s \in Signals /\ v \in Bit4 /\ value' = [value EXCEPT ![s] = v]
  /\ UNCHANGED <<bits, bits_, live>>
  /\ \A f \in F : FrameOk(f) /\ Supported(f, F) /\ ~ (f.op = "send" /\ f.at = s)
  /\ Calls' = {Call("send", s, Static, Watchers(s))} \cup F
  /\ \A x, c, o : /\ Unseen(F, x) <=> Unseen(Calls, x)
                  /\ ToCome(F, x, c) <=> ToCome(Calls, x, c)
                  /\ Walking(F, x, c) <=> Walking(Calls, x, c)
                  /\ Feeding(F, x, o, c) <=> Feeding(Calls, x, o, c)

(* The edges that the value v of s makes. *)
Hit(s, v) == {e \in Watchers(s) : IsEdge(Kind[e], value[s], v)}

LEMMA SendView ==
  ASSUME TypeOK, SeenOk, NEW F, NEW s, NEW v, SendsFrom(F, s, v), NEW es, es = Hit(s, v)
  PROVE  /\ SeenOk' /\ \A x, c : Walking(Calls, x, c)' <=> Walking(Calls, x, c)
         /\ \A e \in Functors : \A c \in Places(e) :
              /\ Coming(e, c)' = Coming(e, c) \cup Walks(es, e)
              /\ Coming(e, c) \cap Walks(es, e) = {}
<1>1. PICK g : g = Call("send", s, Static, Watchers(s))
  OBVIOUS
<1>2. /\ s \in Signals /\ v \in Bit4 /\ value' = [value EXCEPT ![s] = v]
      /\ UNCHANGED <<bits, bits_, live>>
      /\ \A f \in F : FrameOk(f) /\ Supported(f, F) /\ ~ (f.op = "send" /\ f.at = s)
      /\ Calls' = {g} \cup F
  BY <1>1 DEF SendsFrom
<1>3. \A x, c, o : /\ Unseen(F, x) <=> Unseen(Calls, x)
                   /\ ToCome(F, x, c) <=> ToCome(Calls, x, c)
                   /\ Walking(F, x, c) <=> Walking(Calls, x, c)
                   /\ Feeding(F, x, o, c) <=> Feeding(Calls, x, o, c)
  BY DEF SendsFrom
<1>4. g.op = "send" /\ g.at = s /\ g.todo = Watchers(s)
  BY <1>1 DEF Call
<1>5. \A x, c, o : /\ Unseen(Calls, x)' <=> x \in Watchers(s) \/ Unseen(Calls, x)
                   /\ ToCome(Calls, x, c)' <=> x \in Watchers(s) \/ ToCome(Calls, x, c)
                   /\ Walking(Calls, x, c)' <=> Walking(Calls, x, c)
                   /\ Feeding(Calls, x, o, c)' <=> Feeding(Calls, x, o, c)
  <2>1. Calls' = {g} \cup F
    BY <1>2
  <2>2. \A x, c, o : /\ Unseen(Calls, x)' <=> x \in Watchers(s) \/ Unseen(F, x)
                     /\ ToCome(Calls, x, c)' <=> x \in Watchers(s) \/ ToCome(F, x, c)
                     /\ Walking(Calls, x, c)' <=> Walking(F, x, c)
                     /\ Feeding(Calls, x, o, c)' <=> Feeding(F, x, o, c)
    <3>1. PICK G : G = {g} \cup F
      OBVIOUS
    <3>2. \A x, c, o : /\ Unseen(G, x) <=> x \in Watchers(s) \/ Unseen(F, x)
                       /\ ToCome(G, x, c) <=> x \in Watchers(s) \/ ToCome(F, x, c)
                       /\ Walking(G, x, c) <=> Walking(F, x, c)
                       /\ Feeding(G, x, o, c) <=> Feeding(F, x, o, c)
      BY <1>4, <3>1, AddCall
    <3>3. QED
      BY <2>1, <3>1, <3>2
  <2>3. QED
    BY <1>3, <2>2
<1>6. ASSUME NEW x \in Watchers(s)
      PROVE  \A c, o : ~ ToCome(Calls, x, c) /\ ~ Walking(Calls, x, c) /\ ~ Feeding(Calls, x, o, c)
  <2>1. \A f \in F : /\ ~ (f.op = "send" /\ x \in f.todo)
                     /\ ~ (f.op \in {"live", "walk", "ors"} /\ f.at = x)
    BY <1>2, Quiet
  <2>2. QED
    BY <1>3, <2>1, QuietWay, ZenonT(40)
<1>7. \A x, c : Seen(x, c)' = Seen(x, c) /\ Places(x)' = Places(x)
  BY <1>2 DEF Seen, Places
<1>8. value'[s] = v /\ value[s] \in Bit4 /\ \A q \in Signals : q # s => value'[q] = value[q]
  BY <1>2 DEF TypeOK
<1>9. SeenOk'
  <2>1. ASSUME NEW q \in Signals, NEW x \in Watchers(q)
        PROVE  /\ ~ Unseen(Calls, x)' => bits_'[x] = value'[q]
               /\ \A c \in Places(x)' : ~ ToCome(Calls, x, c)' => Seen(x, c)' = value'[q]
    <3>1. CASE q = s
      BY <1>5, <3>1
    <3>2. CASE q # s
      <4>1. /\ ~ Unseen(Calls, x) => bits_[x] = value[q]
            /\ \A c \in Places(x) : ~ ToCome(Calls, x, c) => Seen(x, c) = value[q]
        BY DEF SeenOk
      <4>2. QED
        BY <1>2, <1>5, <1>7, <1>8, <3>2, <4>1
    <3>3. QED
      BY <3>1, <3>2
  <2>2. QED
    BY <2>1 DEF SeenOk
<1>10. ASSUME NEW x \in Watchers(s), NEW c \in Places(x)
       PROVE  ~ Edge(x, c) /\ (Edge(x, c)' <=> x \in es)
  <2>1. x \in Functors /\ Kind[x] \in Edges /\ Sig[x] = s
    BY DEF Watchers
  <2>2. ~ ToCome(Calls, x, c) /\ ToCome(Calls, x, c)'
    BY <1>5, <1>6
  <2>3. Seen(x, c) = value[s]
    BY <1>2, <2>2 DEF SeenOk
  <2>4. Edge(x, c)' <=> Triggers(Kind[x], value[s], v)
    BY <1>7, <1>8, <2>1, <2>2, <2>3 DEF Edge
  <2>5. Triggers(Kind[x], value[s], v) <=> IsEdge(Kind[x], value[s], v)
    BY <1>2, <1>8, <2>1, EdgeRight
  <2>6. QED
    BY <2>2, <2>4, <2>5 DEF Edge, Hit
<1>11. ASSUME NEW x \in Functors, x \notin Watchers(s), NEW c
       PROVE  Edge(x, c)' <=> Edge(x, c)
  <2>1. ToCome(Calls, x, c)' <=> ToCome(Calls, x, c)
    BY <1>5, <1>11
  <2>2. ASSUME ToCome(Calls, x, c) PROVE value'[Sig[x]] = value[Sig[x]]
    <3>1. PICK f \in F : \/ f.op = "send" /\ x \in f.todo
                         \/ f.op = "live" /\ f.at = x
      BY <1>3, <2>2 DEF ToCome
    <3>2. PICK q \in Signals : x \in Watchers(q)
      BY <1>2, <3>1 DEF FrameOk
    <3>3. q # s /\ Sig[x] = q
      BY <1>11, <3>2 DEF Watchers
    <3>4. QED
      BY <1>8, <3>3
  <2>3. QED
    BY <1>7, <2>1, <2>2 DEF Edge
<1>12. ASSUME NEW e \in Functors, NEW c \in Places(e), NEW x \in Functors
       PROVE  /\ Owes(x, e, c)' <=> Owes(x, e, c) \/ x \in Walks(es, e)
              /\ ~ (Owes(x, e, c) /\ x \in Walks(es, e))
  <2>1. CASE ~ (x = e \/ e \in Ors[x])
    BY <2>1 DEF Owes, Walks
  <2>2. CASE x = e \/ e \in Ors[x]
    <3>1. c \in Places(x)
      BY <2>2, SamePlaces
    <3>2. x \in Walks(es, e) <=> x \in es
      BY <2>2 DEF Walks
    <3>3. CASE x \in Watchers(s)
      <4>1. ~ Edge(x, c) /\ (Edge(x, c)' <=> x \in es)
        BY <1>10, <3>1, <3>3
      <4>2. /\ ~ Walking(Calls, x, c) /\ ~ Walking(Calls, x, c)'
            /\ ~ Feeding(Calls, x, e, c) /\ ~ Feeding(Calls, x, e, c)'
        BY <1>5, <1>6, <3>3
      <4>3. QED
        BY <2>2, <3>2, <4>1, <4>2 DEF Owes
    <3>4. CASE x \notin Watchers(s)
      <4>1. x \notin es /\ (Edge(x, c)' <=> Edge(x, c))
        BY <1>11, <3>4 DEF Hit
      <4>2. QED
        BY <1>5, <3>2, <4>1 DEF Owes
    <3>5. QED
      BY <3>3, <3>4
  <2>3. QED
    BY <2>1, <2>2
<1>13. \A e : Walks(es, e) \subseteq Functors
  BY DEF Walks, Watchers, Hit
<1>14. ASSUME NEW e \in Functors, NEW c \in Places(e)
       PROVE  /\ Coming(e, c)' = Coming(e, c) \cup Walks(es, e)
              /\ Coming(e, c) \cap Walks(es, e) = {}
  BY <1>12, <1>13 DEF Coming
<1>15. QED
  BY <1>5, <1>9, <1>14

(* How the events es, and an event control that fires, show in the lists. *)
CountedCtl(es, z, i) ==
  /\ event_ctls'[z][i].id = event_ctls[z][i].id
  /\ event_ctls'[z][i].n = event_ctls[z][i].n
  /\ event_ctls'[z][i].seen = event_ctls[z][i].seen + Cardinality(Walks(es, z))
  /\ \/ /\ event_ctls'[z][i].ecount = event_ctls[z][i].ecount
        /\ Firing(Calls, z)' /\ i = last[z] + 1 <=> Firing(Calls, z) /\ i = last[z] + 1
     \/ /\ Firing(Calls, z)' /\ i = last[z] + 1
        /\ \E y \in fired' : y.id = event_ctls[z][i].id

Counted(es) ==
  /\ UNCHANGED last /\ fired \subseteq fired' /\ \A x \in fired' : x.seen >= x.n
  /\ \A z \in Functors :
       /\ DOMAIN event_ctls'[z] = DOMAIN event_ctls[z] /\ Len(event_ctls'[z]) = Len(event_ctls[z])
       /\ Firing(Calls, z)' => last[z] < Len(event_ctls[z])
       /\ \A c : Walking(Calls, z, c)' <=> Walking(Calls, z, c)
       /\ \A c \in Places(z) : /\ Coming(z, c)' = Coming(z, c) \cup Walks(es, z)
                               /\ Coming(z, c) \cap Walks(es, z) = {}
       /\ \A i \in DOMAIN event_ctls[z] : CountedCtl(es, z, i)

LEMMA CountedCtls ==
  ASSUME TypeOK, CtlsOk, NEW es \in SUBSET Functors, Counted(es)
  PROVE  CtlsOk'
<1>1. ASSUME NEW z \in Functors PROVE ListOk(z)'
  <2>1. ListOk(z)
    BY DEF CtlsOk
  <2>2. /\ DOMAIN event_ctls'[z] = DOMAIN event_ctls[z] /\ Len(event_ctls'[z]) = Len(event_ctls[z])
        /\ Firing(Calls, z)' => last[z] < Len(event_ctls[z])
        /\ \A c : Walking(Calls, z, c)' <=> Walking(Calls, z, c)
        /\ last' = last /\ fired \subseteq fired'
    BY DEF Counted
  <2>3. ASSUME NEW i \in DOMAIN event_ctls[z] PROVE CtlOk(z, i)'
    <3>1. CtlOk(z, i) /\ z \notin Automatic
      BY <2>1, <2>3 DEF ListOk
    <3>2. PICK x, y, C, D, W : /\ x = event_ctls[z][i] /\ y = event_ctls'[z][i]
                               /\ C = Coming(z, Static) /\ D = Coming(z, Static)' /\ W = Walks(es, z)
      OBVIOUS
    <3>3. /\ y.id = x.id /\ y.n = x.n /\ y.seen = x.seen + Cardinality(W)
          /\ \/ /\ y.ecount = x.ecount
                /\ Firing(Calls, z)' /\ i = last[z] + 1 <=> Firing(Calls, z) /\ i = last[z] + 1
             \/ /\ Firing(Calls, z)' /\ i = last[z] + 1
                /\ \E q \in fired' : q.id = x.id
      <4>1. CountedCtl(es, z, i)
        BY <2>3 DEF Counted
      <4>2. QED
        BY <3>2, <4>1 DEF CountedCtl
    <3>4. D = C \cup W /\ C \cap W = {}
      BY <3>1, <3>2 DEF Counted, Places
    <3>5. /\ Cardinality(D) = Cardinality(C) + Cardinality(W)
          /\ Cardinality(C) \in Nat /\ Cardinality(W) \in Nat
      <4>1. /\ IsFiniteSet(C) /\ Cardinality(C) \in Nat
            /\ IsFiniteSet(W) /\ Cardinality(W) \in Nat
        BY <3>2, ComingFinite, WalksFinite
      <4>2. Cardinality(C \cup W) = Cardinality(C) + Cardinality(W) - Cardinality(C \cap W)
        BY <4>1, FS_Union
      <4>3. Cardinality(C \cap W) = 0
        BY <3>4, FS_EmptySet
      <4>4. QED
        BY <3>4, <4>1, <4>2, <4>3
    <3>6. x.n \in Nat /\ x.seen \in Nat /\ x.ecount \in Nat
      BY <2>3, <3>2, CtlType
    <3>7. CASE Firing(Calls, z)' /\ i = last[z] + 1
      <4>1. \E q \in fired' : q.id = x.id
        BY <2>2, <3>1, <3>2, <3>3, <3>7 DEF CtlOk
      <4>2. QED
        BY <2>2, <3>2, <3>3, <3>7, <4>1 DEF CtlOk
    <3>8. CASE ~ (Firing(Calls, z)' /\ i = last[z] + 1)
      <4>1. PICK w : w = IF Walking(Calls, z, Static) /\ i > last[z] THEN 1 ELSE 0
        OBVIOUS
      <4>2. y.ecount = x.ecount /\ x.ecount > 0 /\ x.ecount = x.n - x.seen + Cardinality(C) + w
        BY <3>1, <3>2, <3>3, <3>8, <4>1 DEF CtlOk
      <4>3. w = IF Walking(Calls, z, Static)' /\ i > last'[z] THEN 1 ELSE 0
        BY <2>2, <4>1
      <4>4. x.n - x.seen + Cardinality(C) + w = y.n - y.seen + Cardinality(D) + w
        <5>1. w \in Nat
          BY <4>1
        <5>2. QED
          BY <3>3, <3>5, <3>6, <5>1
      <4>5. QED
        BY <2>2, <3>2, <3>8, <4>2, <4>3, <4>4 DEF CtlOk
    <3>9. QED
      BY <3>7, <3>8
  <2>5. QED
    BY <2>1, <2>2, <2>3 DEF ListOk
<1>2. QED
  BY <1>1 DEF CtlsOk, Counted

-----------------------------------------------------------------------------
(* dec_and_run *)

(* The lists ctls differ from event_ctls in the count of one object. *)
CountSet(ctls, e, k, n) ==
  /\ ctls \in [Functors -> Seq(evctl)]
  /\ \A z \in Functors :
       /\ DOMAIN ctls[z] = DOMAIN event_ctls[z] /\ Len(ctls[z]) = Len(event_ctls[z])
       /\ \A i \in DOMAIN event_ctls[z] :
            /\ ctls[z][i].id = event_ctls[z][i].id /\ ctls[z][i].n = event_ctls[z][i].n
            /\ ctls[z][i].seen = event_ctls[z][i].seen
            /\ ctls[z][i].ecount = IF z = e /\ i = k THEN n ELSE event_ctls[z][i].ecount

LEMMA SetCount ==
  ASSUME TypeOK, NEW e \in Functors, NEW k \in DOMAIN event_ctls[e], NEW n \in Nat, NEW ctls,
         ctls = [event_ctls EXCEPT ![e][k].ecount = n]
  PROVE  CountSet(ctls, e, k, n)
<1>1. PICK s, x, r, y : /\ s = event_ctls[e] /\ x = s[k] /\ r = ctls[e]
                        /\ y = [x EXCEPT !.ecount = n]
  OBVIOUS
<1>2. s \in Seq(evctl) /\ DOMAIN s = 1..Len(s) /\ Len(s) \in Nat /\ k \in DOMAIN s
  BY <1>1, CtlType
<1>3. event_ctls \in [Functors -> Seq(evctl)]
  BY DEF TypeOK
<1>4. r = [s EXCEPT ![k] = y] /\ \A z \in Functors : z # e => ctls[z] = event_ctls[z]
  BY <1>1, <1>3
<1>5. x \in evctl
  BY <1>1, <1>2
<1>6. y \in evctl /\ y.id = x.id /\ y.n = x.n /\ y.seen = x.seen /\ y.ecount = n
  BY <1>1, <1>5 DEF evctl
<1>7. r \in Seq(evctl) /\ DOMAIN r = DOMAIN s /\ Len(r) = Len(s) /\ r[k] = y
      /\ \A i \in DOMAIN s : i # k => r[i] = s[i]
  BY <1>2, <1>4, <1>6
<1>8. ctls = [z \in Functors |-> ctls[z]]
  BY <1>3
<1>9. ctls \in [Functors -> Seq(evctl)]
  BY <1>1, <1>3, <1>4, <1>7, <1>8
<1>10. ASSUME NEW z \in Functors
       PROVE  /\ DOMAIN ctls[z] = DOMAIN event_ctls[z] /\ Len(ctls[z]) = Len(event_ctls[z])
              /\ \A i \in DOMAIN event_ctls[z] :
                   /\ ctls[z][i].id = event_ctls[z][i].id /\ ctls[z][i].n = event_ctls[z][i].n
                   /\ ctls[z][i].seen = event_ctls[z][i].seen
                   /\ ctls[z][i].ecount = IF z = e /\ i = k THEN n ELSE event_ctls[z][i].ecount
  <2>1. CASE z # e
    BY <1>4, <2>1
  <2>2. CASE z = e
    <3>1. ctls[z] = r /\ event_ctls[z] = s
      BY <1>1, <2>2
    <3>2. ASSUME NEW i \in DOMAIN s
          PROVE  /\ r[i].id = s[i].id /\ r[i].n = s[i].n /\ r[i].seen = s[i].seen
                 /\ r[i].ecount = IF i = k THEN n ELSE s[i].ecount
      <4>1. CASE i = k
        BY <1>1, <1>6, <1>7, <4>1
      <4>2. CASE i # k
        BY <1>7, <3>2, <4>2
      <4>3. QED
        BY <4>1, <4>2
    <3>3. QED
      BY <1>7, <2>2, <3>1, <3>2
  <2>3. QED
    BY <2>1, <2>2
<1>11. QED
  BY <1>9, <1>10 DEF CountSet

(* The object that the walk has come to. *)
LEMMA NextCtl ==
  ASSUME IInv, Running("walk"), last[Top.at] < Len(event_ctls[Top.at])
  PROVE  /\ Top.at \in Functors /\ last[Top.at] + 1 \in DOMAIN event_ctls[Top.at]
         /\ last[Top.at] \in Nat /\ Top.ctx \in Places(Top.at)
         /\ ~ cyclic /\ ~ Top.fired =>
              /\ Top.at \notin Automatic /\ Top.ctx = Static
              /\ ~ Firing(Calls, Top.at) /\ Walking(Calls, Top.at, Static)
              /\ LET x == event_ctls[Top.at][last[Top.at] + 1]
                 IN  x.ecount > 0 /\ x.ecount = x.n - x.seen + Cardinality(Coming(Top.at, Static)) + 1
<1>1. FramesOk /\ TypeOK /\ (~ cyclic => Good) /\ stack # << >> /\ Top.op = "walk"
  BY DEF IInv, Running
<1>2. PICK e, k : e = Top.at /\ k = last[e] + 1
  OBVIOUS
<1>3. FrameOk(Top) /\ Calls = {Top} \cup Under
  BY <1>1, TopFacts
<1>4. e \in Functors /\ Top.ctx \in Places(e)
  BY <1>1, <1>2, <1>3 DEF FrameOk
<1>5. k \in DOMAIN event_ctls[e] /\ last[e] \in Nat
  BY <1>1, <1>2, <1>4, CtlType
<1>6. ASSUME ~ cyclic, ~ Top.fired
      PROVE  /\ e \notin Automatic /\ Top.ctx = Static /\ ~ Firing(Calls, e) /\ Walking(Calls, e, Static)
             /\ event_ctls[e][k].ecount > 0
             /\ event_ctls[e][k].ecount =
                  event_ctls[e][k].n - event_ctls[e][k].seen + Cardinality(Coming(e, Static)) + 1
  <2>1. ListOk(e) /\ OnceEach(stack) /\ Chained(stack)
    BY <1>1, <1>4, <1>6 DEF Good, CtlsOk
  <2>2. e \notin Automatic /\ CtlOk(e, k)
    BY <1>5, <2>1 DEF ListOk
  <2>3. Top.ctx = Static
    BY <1>4, <2>2 DEF Places
  <2>4. ~ Firing(Under, e)
    BY <1>1, <1>2, <2>1, WalkAlone
  <2>5. ~ Firing(Calls, e) /\ Walking(Calls, e, Static)
    BY <1>1, <1>2, <1>3, <1>6, <2>3, <2>4, AddCall
  <2>6. k > last[e]
    BY <1>2, <1>5
  <2>7. QED
    BY <2>2, <2>3, <2>5, <2>6 DEF CtlOk
<1>7. QED
  BY <1>2, <1>4, <1>5, <1>6

(* The count of the object at k of the list of e goes down. *)
Dec(e, k) ==
  /\ e = Top.at /\ k = last[e] + 1 /\ Running("walk") /\ ~ Top.fired
  /\ last[e] < Len(event_ctls[e]) /\ event_ctls[e][k].ecount > 1
  /\ event_ctls' = [event_ctls EXCEPT ![e][k].ecount = @ - 1]
  /\ last' = [last EXCEPT ![e] = k]
  /\ UNCHANGED <<value, bits_, bits, threads, live, ctx, stack, ops, aborted, hits, fired, cyclic>>

LEMMA DecInv ==
  ASSUME IInv, NEW e, NEW k, Dec(e, k)
  PROVE  IInv'
<1>a. /\ e = Top.at /\ k = last[e] + 1 /\ Running("walk") /\ ~ Top.fired
      /\ last[e] < Len(event_ctls[e]) /\ event_ctls[e][k].ecount > 1
  BY DEF Dec
<1>b. event_ctls' = [event_ctls EXCEPT ![e][k].ecount = @ - 1]
  BY DEF Dec
<1>c. last' = [last EXCEPT ![e] = k]
  BY DEF Dec
<1>d. UNCHANGED <<value, bits_, bits, threads, live, ctx, stack, ops, aborted, hits, fired, cyclic>>
  BY DEF Dec
<1>1. FramesOk /\ TypeOK /\ (aborted => cyclic) /\ (~ cyclic => Good)
  BY DEF IInv
<1>2. e \in Functors /\ k \in DOMAIN event_ctls[e] /\ last[e] \in Nat
  BY <1>a, NextCtl
<1>3. PICK n : n = event_ctls[e][k].ecount - 1
  OBVIOUS
<1>4. n \in Nat /\ n > 0 /\ event_ctls[e][k].ecount \in Nat
  <2>1. event_ctls[e][k].ecount \in Nat
    BY <1>1, <1>2, CtlType
  <2>2. QED
    BY <1>3, <1>a, <2>1
<1>5. /\ event_ctls' \in [Functors -> Seq(evctl)]
      /\ \A z \in Functors :
           /\ DOMAIN event_ctls'[z] = DOMAIN event_ctls[z] /\ Len(event_ctls'[z]) = Len(event_ctls[z])
           /\ \A i \in DOMAIN event_ctls[z] :
                /\ event_ctls'[z][i].id = event_ctls[z][i].id
                /\ event_ctls'[z][i].n = event_ctls[z][i].n
                /\ event_ctls'[z][i].seen = event_ctls[z][i].seen
                /\ event_ctls'[z][i].ecount = IF z = e /\ i = k THEN n ELSE event_ctls[z][i].ecount
  <2>1. PICK ctls : ctls = event_ctls' /\ ctls = [event_ctls EXCEPT ![e][k].ecount = n]
    BY <1>3, <1>b
  <2>2. CountSet(ctls, e, k, n)
    BY <1>1, <1>2, <1>4, <2>1, SetCount
  <2>3. ctls = event_ctls'
    BY <2>1
  <2>4. CountSet(event_ctls', e, k, n)
    BY <2>2, <2>3
  <2>5. QED
    BY <2>4 DEF CountSet
<1>6. /\ last' \in [Functors -> Nat] /\ last'[e] = k /\ \A z \in Functors : z # e => last'[z] = last[z]
      /\ k \in Nat /\ k <= Len(event_ctls[e])
  BY <1>1, <1>2, <1>a, <1>c, CtlType DEF TypeOK
<1>7. \A z \in Functors : last'[z] <= Len(event_ctls'[z])
  <2>1. \A z \in Functors : last[z] <= Len(event_ctls[z])
    BY <1>1, CtlType
  <2>2. QED
    BY <1>2, <1>5, <1>6, <2>1
<1>8. TypeOK' /\ (aborted => cyclic)'
  BY <1>1, <1>5, <1>6, <1>7, <1>d DEF TypeOK
<1>9. Calls' = Calls /\ FramesOk'
  BY <1>1, <1>d, SameFrame DEF Calls, FramesOk
<1>10. ASSUME ~ cyclic' PROVE Good'
  <2>1. Good
    BY <1>1, <1>10, <1>d
  <2>2. \A z, c : Coming(z, c)' = Coming(z, c)
    BY <1>9, <1>d DEF Coming, Owes, Edge, Seen
  <2>3. OnceEach(stack)' /\ Chained(stack)'
    BY <1>d, <2>1 DEF Good
  <2>4. SeenOk'
    BY <1>9, <1>d, <2>1 DEF Good, SeenOk, Seen, Places
  <2>5. ContextsOk'
    BY <1>d, <2>1 DEF Good, ContextsOk
  <2>6. WaitsOk'
    BY <1>9, <1>d, <2>1, <2>2, SameWaits DEF Good
  <2>7. /\ e \notin Automatic /\ ~ Firing(Calls, e) /\ Walking(Calls, e, Static)
        /\ event_ctls[e][k].ecount =
             event_ctls[e][k].n - event_ctls[e][k].seen + Cardinality(Coming(e, Static)) + 1
    BY <1>10, <1>a, <1>d, NextCtl
  <2>8. ASSUME NEW z \in Functors, z # e PROVE ListOk(z)'
    <3>1. ListOk(z)
      BY <2>1 DEF Good, CtlsOk
    <3>2. ASSUME NEW i \in DOMAIN event_ctls[z] PROVE CtlOk(z, i)'
      <4>1. CtlOk(z, i)
        BY <3>1, <3>2 DEF ListOk
      <4>2. QED
        BY <1>5, <1>6, <1>9, <1>d, <2>2, <2>8, <3>2, <4>1 DEF CtlOk
    <3>3. QED
      BY <1>5, <1>6, <1>9, <2>8, <3>1, <3>2 DEF ListOk
  <2>9. ListOk(e)'
    <3>1. ListOk(e)
      BY <1>2, <2>1 DEF Good, CtlsOk
    <3>2. ASSUME NEW i \in DOMAIN event_ctls[e] PROVE CtlOk(e, i)'
      <4>1. CtlOk(e, i)
        BY <3>1, <3>2 DEF ListOk
      <4>2. CASE i = k
        <5>1. ~ (i > last'[e])
          BY <1>6, <4>2
        <5>2. n = event_ctls[e][k].n - event_ctls[e][k].seen + Cardinality(Coming(e, Static))
          <6>1. event_ctls[e][k].n \in Nat /\ event_ctls[e][k].seen \in Nat
            BY <1>1, <1>2, CtlType
          <6>2. PICK m : m = Cardinality(Coming(e, Static))
            OBVIOUS
          <6>3. m \in Nat
            BY <6>2, ComingFinite
          <6>4. PICK a, b, d : /\ a = event_ctls[e][k].ecount /\ b = event_ctls[e][k].n
                               /\ d = event_ctls[e][k].seen
            OBVIOUS
          <6>5. a \in Nat /\ b \in Nat /\ d \in Nat /\ n = a - 1 /\ a = b - d + m + 1
            BY <1>3, <1>4, <2>7, <6>1, <6>2, <6>4
          <6>6. n = b - d + m
            BY <6>3, <6>5
          <6>7. QED
            BY <6>2, <6>4, <6>6
        <5>3. /\ event_ctls'[e][i].n = event_ctls[e][k].n
              /\ event_ctls'[e][i].seen = event_ctls[e][k].seen
              /\ event_ctls'[e][i].ecount = n
          <6>1. \A j \in DOMAIN event_ctls[e] :
                  /\ event_ctls'[e][j].n = event_ctls[e][j].n
                  /\ event_ctls'[e][j].seen = event_ctls[e][j].seen
                  /\ event_ctls'[e][j].ecount = IF j = k THEN n ELSE event_ctls[e][j].ecount
            BY <1>2, <1>5
          <6>2. QED
            BY <1>2, <4>2, <6>1
        <5>4. ~ Firing(Calls, e)' /\ Coming(e, Static)' = Coming(e, Static)
          BY <1>9, <2>2, <2>7
        <5>5. n \in Nat /\ n = n + 0
          BY <1>4
        <5>6. QED
          BY <1>4, <5>1, <5>2, <5>3, <5>4, <5>5 DEF CtlOk
      <4>3. CASE i # k
        <5>1. i > last'[e] <=> i > last[e]
          <6>1. i \in Nat
            BY <1>1, <1>2, <3>2, CtlType
          <6>2. QED
            BY <1>2, <1>6, <1>a, <4>3, <6>1
        <5>2. QED
          BY <1>2, <1>5, <1>9, <2>2, <2>7, <3>2, <4>1, <4>3, <5>1 DEF CtlOk
      <4>4. QED
        BY <4>2, <4>3
    <3>3. QED
      BY <1>2, <1>5, <1>9, <2>7, <3>2 DEF ListOk
  <2>10. CtlsOk'
    BY <1>d, <2>1, <2>8, <2>9 DEF Good, CtlsOk
  <2>11. QED
    BY <2>3, <2>4, <2>5, <2>6, <2>10 DEF Good
<1>11. QED
  BY <1>8, <1>9, <1>10 DEF IInv

(* The value of s is new, and events happen with it. *)
LEMMA SendGood ==
  ASSUME TypeOK, Good, NEW F, NEW s, NEW v, SendsFrom(F, s, v), NEW es, NEW ctls,
         es = Hit(s, v), Happens(es, ctls),
         UNCHANGED <<threads, ctx>>, OnceEach(stack)', Chained(stack)',
         Counted(es)
  PROVE  Good'
<1>1. /\ SeenOk' /\ \A x, c : Walking(Calls, x, c)' <=> Walking(Calls, x, c)
      /\ \A e \in Functors : \A c \in Places(e) :
           /\ Coming(e, c)' = Coming(e, c) \cup Walks(es, e)
           /\ Coming(e, c) \cap Walks(es, e) = {}
  BY SendView DEF Good
<1>2. live' = live
  BY DEF SendsFrom
<1>3. WaitsOk'
  <2>1. \A e \in Functors : \A c \in Places(e) :
           Walking(Calls, e, c)' \/ Coming(e, c)' # {} <=>
             Walking(Calls, e, c) \/ Coming(e, c) # {} \/ Walks(es, e) # {}
    BY <1>1
  <2>2. QED
    BY <1>2, <2>1, HappensWaits DEF Good
<1>4. ContextsOk'
  BY <1>2 DEF Good, ContextsOk
<1>5. es \in SUBSET Functors
  BY DEF Watchers, Hit
<1>6. CtlsOk'
  BY <1>5, CountedCtls DEF Good
<1>7. QED
  BY <1>1, <1>3, <1>4, <1>6 DEF Good

(* The count is used up: the object fires. *)
FireSend(e, k, cur) ==
  Send(cur.to, cur.val, <<[Top EXCEPT !.fired = TRUE]>> \o Tail(stack),
       [event_ctls EXCEPT ![e][k].ecount = 0])

Fires(e, k, cur) ==
  /\ e = Top.at /\ k = last[e] + 1 /\ cur = event_ctls[e][k] /\ Running("walk") /\ ~ Top.fired
  /\ last[e] < Len(event_ctls[e]) /\ cur.ecount = 1
  /\ FireSend(e, k, cur)
  /\ fired' = fired \cup {cur}
  /\ cyclic' = (cyclic \/ (value[cur.to] # cur.val /\ InProgress(cur.to)))
  /\ UNCHANGED <<bits_, bits, threads, last, live, ctx, ops, aborted>>

LEMMA FireInv ==
  ASSUME IInv, NEW e, NEW k, NEW cur, Fires(e, k, cur)
  PROVE  IInv'
<1>a. /\ e = Top.at /\ k = last[e] + 1 /\ cur = event_ctls[e][k] /\ Running("walk") /\ ~ Top.fired
      /\ last[e] < Len(event_ctls[e]) /\ cur.ecount = 1
  BY DEF Fires
<1>b. FireSend(e, k, cur)
  BY DEF Fires
<1>c. fired' = fired \cup {cur}
  BY DEF Fires
<1>d. cyclic' = (cyclic \/ (value[cur.to] # cur.val /\ InProgress(cur.to)))
  BY DEF Fires
<1>e. UNCHANGED <<bits_, bits, threads, last, live, ctx, ops, aborted>>
  BY DEF Fires
<1>1. FramesOk /\ TypeOK /\ (aborted => cyclic) /\ (~ cyclic => Good) /\ stack # << >> /\ Top.op = "walk"
  BY <1>a DEF IInv, Running
<1>2. e \in Functors /\ k \in DOMAIN event_ctls[e] /\ last[e] \in Nat
  BY <1>a, NextCtl
<1>3. PICK s, v, f : s = cur.to /\ v = cur.val /\ f = [Top EXCEPT !.fired = TRUE]
  OBVIOUS
<1>4. PICK ctls : ctls = [event_ctls EXCEPT ![e][k].ecount = 0]
  OBVIOUS
<1>5. CountSet(ctls, e, k, 0)
  BY <1>1, <1>2, <1>4, SetCount
<1>6. /\ cur \in evctl /\ s \in Signals /\ v \in Bit4
      /\ cur.n \in Nat /\ cur.seen \in Nat
  BY <1>1, <1>2, <1>3, <1>a, CtlType, EventAssumption
<1>7. /\ FrameOk(Top) /\ Top \in Frame /\ Calls = {Top} \cup Under /\ Tail(stack) \in Seq(Frame)
      /\ \A h \in Under : FrameOk(h)
  BY <1>1, TopFacts
<1>8. /\ f \in Frame /\ f.op = Top.op /\ f.at = e /\ f.ctx = Top.ctx /\ f.todo = Top.todo /\ f.fired
  BY <1>3, <1>7, <1>a DEF Frame
<1>9. FrameOk(f)
  BY <1>7, <1>8, <1>a DEF FrameOk
<1>10. Send(s, v, <<f>> \o Tail(stack), ctls)
  BY <1>3, <1>4, <1>b DEF FireSend
<1>11. /\ ctls \in [Functors -> Seq(evctl)]
       /\ \A z \in Functors :
            /\ DOMAIN ctls[z] = DOMAIN event_ctls[z] /\ Len(ctls[z]) = Len(event_ctls[z])
            /\ \A i \in DOMAIN event_ctls[z] :
                 /\ ctls[z][i].id = event_ctls[z][i].id /\ ctls[z][i].n = event_ctls[z][i].n
                 /\ ctls[z][i].seen = event_ctls[z][i].seen
                 /\ ctls[z][i].ecount = IF z = e /\ i = k THEN 0 ELSE event_ctls[z][i].ecount
  BY <1>5 DEF CountSet
<1>12. fired' \subseteq evctl /\ cyclic' \in BOOLEAN /\ (cyclic => cyclic')
  BY <1>1, <1>6, <1>c, <1>d DEF TypeOK
<1>13. \A z \in Functors : Len(ctls[z]) = Len(event_ctls[z]) /\ last[z] <= Len(event_ctls[z])
  BY <1>1, <1>11, CtlType
<1>14. ASSUME ~ cyclic'
       PROVE  /\ Good /\ OnceEach(stack) /\ Chained(stack) /\ ~ Firing(Calls, e)
              /\ \A x \in fired' : x.seen >= x.n
  <2>1. Good /\ OnceEach(stack) /\ Chained(stack)
    BY <1>1, <1>12, <1>14 DEF Good
  <2>2. /\ ~ Firing(Calls, e)
        /\ cur.ecount = cur.n - cur.seen + Cardinality(Coming(e, Static)) + 1
    BY <1>12, <1>14, <1>a, NextCtl
  <2>3. cur.seen >= cur.n
    <3>1. PICK m : m = Cardinality(Coming(e, Static))
      OBVIOUS
    <3>2. m \in Nat
      BY <3>1, ComingFinite
    <3>3. PICK a, b : a = cur.n /\ b = cur.seen
      OBVIOUS
    <3>4. a \in Nat /\ b \in Nat /\ 1 = a - b + m + 1
      BY <1>6, <1>a, <2>2, <3>1, <3>3
    <3>5. b >= a
      BY <3>2, <3>4
    <3>6. QED
      BY <3>3, <3>5
  <2>4. QED
    BY <1>c, <2>1, <2>2, <2>3 DEF Good, CtlsOk
<1>15. ASSUME ~ cyclic'
       PROVE  \A h \in {f} \cup Under : Supported(h, {f} \cup Under) /\ FrameOk(h)
  <2>1. Supported(Top, Under) /\ \A h \in Under : Supported(h, Under)
    BY <1>1, <1>14, <1>15, TopApart
  <2>2. Supported(f, Under)
    BY <1>7, <1>8, <1>a, <2>1 DEF Supported
  <2>3. PICK F : F = {f} \cup Under
    OBVIOUS
  <2>4. Under \subseteq F /\ \A h \in F : Supported(h, Under)
    BY <2>1, <2>2, <2>3
  <2>5. \A h \in F : Supported(h, F)
    BY <2>4, SupportMore
  <2>6. QED
    BY <1>7, <1>9, <2>3, <2>5
<1>16. \A x, c, o : /\ Unseen({f} \cup Under, x) <=> Unseen(Calls, x)
                    /\ ToCome({f} \cup Under, x, c) <=> ToCome(Calls, x, c)
                    /\ Walking({f} \cup Under, x, c) <=> Walking(Calls, x, c)
                    /\ Feeding({f} \cup Under, x, o, c) <=> Feeding(Calls, x, o, c)
                    /\ x # e => (Firing({f} \cup Under, x) <=> Firing(Calls, x))
                    /\ Firing({f} \cup Under, e)
  <2>1. Top.op = "walk" /\ Top.at = e /\ f.op = "walk"
    BY <1>1, <1>8, <1>a
  <2>2. QED
    BY <1>7, <1>8, <2>1, AddCall
<1>17. CASE value[s] = v
  <2>1. /\ stack' = <<f>> \o Tail(stack) /\ event_ctls' = ctls /\ UNCHANGED <<value, hits>>
    BY <1>10, <1>17 DEF Send
  <2>2. /\ FramesOk' /\ Calls' = {f} \cup Under
        /\ OnceEach(stack) /\ Chained(stack) => OnceEach(stack)' /\ Chained(stack)'
    BY <1>1, <1>8, <1>9, <1>a, <1>e, <2>1, GoOn
  <2>3. TypeOK' /\ (aborted => cyclic)'
    BY <1>1, <1>11, <1>12, <1>13, <1>e, <2>1 DEF TypeOK
  <2>4. ASSUME ~ cyclic' PROVE Good'
    <3>1. /\ Good /\ OnceEach(stack) /\ Chained(stack) /\ ~ Firing(Calls, e)
          /\ \A x \in fired' : x.seen >= x.n
      BY <1>14, <2>4
    <3>2. \A x, c, o : /\ Unseen(Calls, x)' <=> Unseen(Calls, x)
                       /\ ToCome(Calls, x, c)' <=> ToCome(Calls, x, c)
                       /\ Walking(Calls, x, c)' <=> Walking(Calls, x, c)
                       /\ Feeding(Calls, x, o, c)' <=> Feeding(Calls, x, o, c)
                       /\ x # e => (Firing(Calls, x)' <=> Firing(Calls, x))
      BY <1>16, <2>2
    <3>3. SeenOk' /\ \A x, c : Edge(x, c)' <=> Edge(x, c)
      BY <1>e, <2>1, <3>1, <3>2 DEF Good, SeenOk, Seen, Places, Edge
    <3>4. \A z, c : Coming(z, c)' = Coming(z, c)
      BY <3>2, <3>3 DEF Owes, Coming
    <3>5. Counted({})
      <4>1. \A z : Walks({}, z) = {} /\ Cardinality(Walks({}, z)) = 0
        BY FS_EmptySet DEF Walks
      <4>2. \A z \in Functors : \A i \in DOMAIN event_ctls[z] : event_ctls[z][i].seen \in Nat
        BY <1>1, CtlType
      <4>3. ASSUME NEW z \in Functors, NEW i \in DOMAIN event_ctls[z]
            PROVE  \/ /\ event_ctls'[z][i].ecount = event_ctls[z][i].ecount
                      /\ Firing(Calls, z)' /\ i = last[z] + 1 <=> Firing(Calls, z) /\ i = last[z] + 1
                   \/ /\ Firing(Calls, z)' /\ i = last[z] + 1
                      /\ \E y \in fired' : y.id = event_ctls[z][i].id
        <5>1. CASE z = e /\ i = k
          BY <1>16, <1>a, <1>c, <2>2, <5>1
        <5>2. CASE ~ (z = e /\ i = k)
          BY <1>11, <1>a, <2>1, <3>2, <4>3, <5>2
        <5>3. QED
          BY <5>1, <5>2
      <4>4. ASSUME NEW z \in Functors
            PROVE  /\ Firing(Calls, z)' => last[z] < Len(event_ctls[z])
                   /\ \A c : Coming(z, c)' = Coming(z, c) \cup Walks({}, z)
                             /\ Coming(z, c) \cap Walks({}, z) = {}
        <5>1. Firing(Calls, z)' => last[z] < Len(event_ctls[z])
          BY <1>a, <3>1, <3>2 DEF Good, CtlsOk, ListOk
        <5>2. QED
          BY <3>4, <4>1, <5>1
      <4>5. \A z \in Functors : /\ DOMAIN event_ctls'[z] = DOMAIN event_ctls[z]
                                /\ Len(event_ctls'[z]) = Len(event_ctls[z])
        BY <1>11, <2>1
      <4>6. ASSUME NEW z \in Functors, NEW i \in DOMAIN event_ctls[z]
            PROVE  CountedCtl({}, z, i)
        <5>1. PICK n : n = event_ctls[z][i].seen
          OBVIOUS
        <5>2. n \in Nat /\ n = n + 0
          BY <4>2, <4>6, <5>1
        <5>3. /\ event_ctls'[z][i].id = event_ctls[z][i].id
              /\ event_ctls'[z][i].n = event_ctls[z][i].n
              /\ event_ctls'[z][i].seen = n
          BY <1>11, <2>1, <4>6, <5>1
        <5>4. event_ctls'[z][i].seen = event_ctls[z][i].seen + Cardinality(Walks({}, z))
          BY <4>1, <5>1, <5>2, <5>3
        <5>5. QED
          BY <4>3, <4>6, <5>3, <5>4 DEF CountedCtl
      <4>7. UNCHANGED last /\ fired \subseteq fired' /\ \A x \in fired' : x.seen >= x.n
        BY <1>c, <1>e, <3>1
      <4>8. \A z \in Functors : \A c : Walking(Calls, z, c)' <=> Walking(Calls, z, c)
        BY <3>2
      <4>9. QED
        BY <4>4, <4>5, <4>6, <4>7, <4>8 DEF Counted
    <3>6. CtlsOk'
      <4>1. {} \in SUBSET Functors
        OBVIOUS
      <4>2. QED
        BY <1>1, <3>1, <3>5, <4>1, CountedCtls DEF Good
    <3>7. WaitsOk'
      BY <1>e, <2>1, <3>1, <3>2, <3>4, SameWaits DEF Good
    <3>8. ContextsOk'
      BY <1>e, <3>1 DEF Good, ContextsOk
    <3>9. QED
      BY <2>2, <3>1, <3>3, <3>6, <3>7, <3>8 DEF Good
  <2>5. QED
    BY <2>2, <2>3, <2>4 DEF IInv
<1>18. CASE value[s] # v
  <2>1. PICK g, es : /\ g = Call("send", s, Static, Watchers(s))
                     /\ es = Hit(s, v)
    OBVIOUS
  <2>2. /\ stack' = <<g>> \o (<<f>> \o Tail(stack)) /\ value' = [value EXCEPT ![s] = v]
        /\ Happens(es, ctls)
    BY <1>10, <1>18, <2>1 DEF Send, Hit
  <2>3. g \in Frame /\ g.op = "send" /\ g.at = s /\ FrameOk(g)
    BY <1>6, <2>1 DEF Call, Frame, FrameOk, Watchers
  <2>4. /\ FramesOk' /\ Calls' = {g, f} \cup Under
        /\ OnceEach(stack) /\ Chained(stack) /\ Supported(g, {f} \cup Under)
           /\ (\A h \in {f} \cup Under : ~ Clash(g, h)) => OnceEach(stack)' /\ Chained(stack)'
    BY <1>1, <1>8, <1>9, <1>a, <1>e, <2>2, <2>3, CallOn
  <2>5. es \in SUBSET Functors
    BY <2>1 DEF Watchers, Hit
  <2>6. /\ hits' \in [Threads -> Nat] /\ event_ctls' \in [Functors -> Seq(evctl)]
        /\ \A z \in Functors :
             /\ DOMAIN event_ctls'[z] = DOMAIN ctls[z] /\ Len(event_ctls'[z]) = Len(ctls[z])
             /\ \A i \in DOMAIN ctls[z] :
                  MoreSeen(ctls[z][i], event_ctls'[z][i], Cardinality(Walks(es, z)))
    <3>1. hits \in [Threads -> Nat] /\ ctls \in [Functors -> Seq(evctl)]
      BY <1>1, <1>11 DEF TypeOK
    <3>2. QED
      BY <2>2, <2>5, <3>1, HappensFacts
  <2>7. value' \in [Signals -> Bit4]
    BY <1>1, <1>6, <2>2 DEF TypeOK
  <2>8. TypeOK' /\ (aborted => cyclic)'
    <3>1. \A z \in Functors : last'[z] <= Len(event_ctls'[z])
      BY <1>13, <1>e, <2>6
    <3>2. QED
      BY <1>1, <1>12, <1>e, <2>6, <2>7, <3>1 DEF TypeOK
  <2>9. ASSUME ~ cyclic' PROVE Good'
    <3>1. /\ Good /\ OnceEach(stack) /\ Chained(stack) /\ ~ Firing(Calls, e)
          /\ \A x \in fired' : x.seen >= x.n
      BY <1>14, <2>9
    <3>2. ASSUME NEW h \in Calls PROVE ~ (h.op = "send" /\ h.at = s)
      BY <1>3, <1>18, <1>d, <2>9 DEF InProgress, Calls, Range
    <3>3. \A h \in {f} \cup Under : ~ (h.op = "send" /\ h.at = s)
      BY <1>1, <1>7, <1>8, <3>2
    <3>4. Supported(g, {f} \cup Under) /\ \A h \in {f} \cup Under : ~ Clash(g, h)
      BY <2>3, <3>3 DEF Supported, Clash
    <3>5. OnceEach(stack)' /\ Chained(stack)'
      BY <2>4, <3>1, <3>4
    <3>6. PICK F : F = {f} \cup Under
      OBVIOUS
    <3>7. SendsFrom(F, s, v)
      <4>1. Calls' = {Call("send", s, Static, Watchers(s))} \cup F
        BY <2>1, <2>4, <3>6
      <4>2. \A h \in F : FrameOk(h) /\ Supported(h, F) /\ ~ (h.op = "send" /\ h.at = s)
        BY <1>15, <2>9, <3>3, <3>6
      <4>3. \A x, c, o : /\ Unseen(F, x) <=> Unseen(Calls, x)
                         /\ ToCome(F, x, c) <=> ToCome(Calls, x, c)
                         /\ Walking(F, x, c) <=> Walking(Calls, x, c)
                         /\ Feeding(F, x, o, c) <=> Feeding(Calls, x, o, c)
        BY <1>16, <3>6
      <4>4. QED
        BY <1>6, <1>e, <2>2, <4>1, <4>2, <4>3 DEF SendsFrom
    <3>8. /\ \A x, c : Walking(Calls, x, c)' <=> Walking(Calls, x, c)
          /\ \A x \in Functors : \A c \in Places(x) :
               /\ Coming(x, c)' = Coming(x, c) \cup Walks(es, x)
               /\ Coming(x, c) \cap Walks(es, x) = {}
      <4>1. es = Hit(s, v)
        BY <2>1
      <4>2. TypeOK /\ SeenOk
        BY <1>1, <3>1 DEF Good
      <4>3. QED
        BY <3>7, <4>1, <4>2, SendView
    <3>9. \A x : Firing(Calls, x)' <=> x = e \/ Firing(Calls, x)
      <4>1. Calls' = {g} \cup F
        BY <2>4, <3>6
      <4>2. \A x : Firing(Calls, x)' <=> Firing(F, x)
        BY <2>3, <4>1, AddCall
      <4>3. QED
        BY <1>16, <3>6, <4>2
    <3>10. Counted(es)
      <4>1. ASSUME NEW z \in Functors, NEW i \in DOMAIN event_ctls[z]
            PROVE  /\ event_ctls'[z][i].id = event_ctls[z][i].id
                   /\ event_ctls'[z][i].n = event_ctls[z][i].n
                   /\ event_ctls'[z][i].seen = event_ctls[z][i].seen + Cardinality(Walks(es, z))
                   /\ event_ctls'[z][i].ecount = IF z = e /\ i = k THEN 0 ELSE event_ctls[z][i].ecount
        <5>1. MoreSeen(ctls[z][i], event_ctls'[z][i], Cardinality(Walks(es, z)))
          BY <1>11, <2>6, <4>1
        <5>2. /\ ctls[z][i].id = event_ctls[z][i].id /\ ctls[z][i].n = event_ctls[z][i].n
              /\ ctls[z][i].seen = event_ctls[z][i].seen
              /\ ctls[z][i].ecount = IF z = e /\ i = k THEN 0 ELSE event_ctls[z][i].ecount
          BY <1>11, <4>1
        <5>3. QED
          BY <5>1, <5>2 DEF MoreSeen
      <4>2. ASSUME NEW z \in Functors, NEW i \in DOMAIN event_ctls[z]
            PROVE  \/ /\ event_ctls'[z][i].ecount = event_ctls[z][i].ecount
                      /\ Firing(Calls, z)' /\ i = last[z] + 1 <=> Firing(Calls, z) /\ i = last[z] + 1
                   \/ /\ Firing(Calls, z)' /\ i = last[z] + 1
                      /\ \E y \in fired' : y.id = event_ctls[z][i].id
        <5>1. CASE z = e /\ i = k
          BY <1>a, <1>c, <3>9, <5>1
        <5>2. CASE ~ (z = e /\ i = k)
          BY <1>a, <3>9, <4>1, <4>2, <5>2
        <5>3. QED
          BY <5>1, <5>2
      <4>3. ASSUME NEW z \in Functors
            PROVE  Firing(Calls, z)' => last[z] < Len(event_ctls[z])
        BY <1>a, <3>1, <3>9 DEF Good, CtlsOk, ListOk
      <4>4. \A z \in Functors : /\ DOMAIN event_ctls'[z] = DOMAIN event_ctls[z]
                                /\ Len(event_ctls'[z]) = Len(event_ctls[z])
        BY <1>11, <2>6
      <4>5. ASSUME NEW z \in Functors, NEW i \in DOMAIN event_ctls[z]
            PROVE  CountedCtl(es, z, i)
        BY <4>1, <4>2, <4>5 DEF CountedCtl
      <4>6. UNCHANGED last /\ fired \subseteq fired' /\ \A x \in fired' : x.seen >= x.n
        BY <1>c, <1>e, <3>1
      <4>7. QED
        BY <3>8, <4>3, <4>4, <4>5, <4>6 DEF Counted
    <3>11. QED
      BY <1>1, <1>e, <2>1, <2>2, <3>1, <3>5, <3>7, <3>10, SendGood
  <2>10. QED
    BY <2>4, <2>8, <2>9 DEF IInv
<1>19. QED
  BY <1>17, <1>18

(* The assert() fails, the count goes down, or the value is assigned. *)
Fails(cur) ==
  /\ cur.ecount = 0 /\ aborted' = TRUE
  /\ UNCHANGED <<value, bits_, bits, threads, event_ctls, last, live, ctx, stack, ops, hits, fired, cyclic>>

LEMMA DecCases ==
  ASSUME dec_and_run, NEW e, NEW k, NEW cur, e = Top.at, k = last[e] + 1, cur = event_ctls[e][k]
  PROVE  /\ Running("walk") /\ ~ Top.fired /\ last[e] < Len(event_ctls[e])
         /\ Fails(cur) \/ Dec(e, k) \/ Fires(e, k, cur)
<1>1. Running("walk") /\ ~ Top.fired /\ last[e] < Len(event_ctls[e])
  BY Zenon DEF dec_and_run
<1>2. Fails(cur) \/ Dec(e, k) \/ Fires(e, k, cur)
  BY Zenon DEF dec_and_run, Fails, Dec, Fires, FireSend
<1>3. QED
  BY <1>1, <1>2

LEMMA dec_and_runInv ==
  ASSUME IInv, dec_and_run
  PROVE  IInv'
<1>1. PICK e, k, cur : e = Top.at /\ k = last[e] + 1 /\ cur = event_ctls[e][k]
  OBVIOUS
<1>2. /\ Running("walk") /\ ~ Top.fired /\ last[e] < Len(event_ctls[e])
      /\ Fails(cur) \/ Dec(e, k) \/ Fires(e, k, cur)
  BY <1>1, DecCases
<1>3. CASE Fails(cur)
  <2>1. cyclic
    <3>1. SUFFICES ASSUME ~ cyclic PROVE FALSE
      OBVIOUS
    <3>2. cur.ecount > 0
      BY <1>1, <1>2, <3>1, NextCtl
    <3>3. QED
      BY <1>3, <3>2 DEF Fails
  <2>2. TypeOK'
    BY <1>3 DEF Fails, IInv, TypeOK
  <2>3. FramesOk'
    BY <1>3, SameFrame DEF Fails, IInv, FramesOk, Calls
  <2>4. QED
    BY <1>3, <2>1, <2>2, <2>3 DEF Fails, IInv
<1>4. QED
  BY <1>2, <1>3, DecInv, FireInv

-----------------------------------------------------------------------------
(* The operations of the threads. *)

LEMMA IdleView ==
  ASSUME stack = << >>
  PROVE  /\ Calls = {} /\ OnceEach(stack) /\ Chained(stack)
         /\ \A x, c, o : /\ ~ Unseen(Calls, x) /\ ~ ToCome(Calls, x, c) /\ ~ Walking(Calls, x, c)
                         /\ ~ Feeding(Calls, x, o, c) /\ ~ Firing(Calls, x)
         /\ \A x, c : Coming(x, c) = {}
<1>1. Calls = {} /\ DOMAIN stack = {}
  BY DEF Calls, Range
<1>2. \A x, c, o : /\ ~ Unseen(Calls, x) /\ ~ ToCome(Calls, x, c) /\ ~ Walking(Calls, x, c)
                   /\ ~ Feeding(Calls, x, o, c) /\ ~ Firing(Calls, x)
  BY <1>1 DEF Unseen, ToCome, Walking, Feeding, Firing
<1>3. \A x, c : Coming(x, c) = {}
  BY <1>2 DEF Coming, Owes, Edge
<1>4. QED
  BY <1>1, <1>2, <1>3 DEF OnceEach, Chained

LEMMA StillIdle ==
  ASSUME stack = << >>, stack' = stack
  PROVE  /\ FramesOk' /\ Calls' = {} /\ OnceEach(stack)' /\ Chained(stack)'
         /\ \A x, c, o : /\ ~ Unseen(Calls, x)' /\ ~ ToCome(Calls, x, c)' /\ ~ Walking(Calls, x, c)'
                         /\ ~ Feeding(Calls, x, o, c)' /\ ~ Firing(Calls, x)'
         /\ \A x, c : Coming(x, c)' = {}
<1>1. stack' = << >> /\ Calls' = {} /\ DOMAIN stack' = {}
  BY DEF Calls, Range
<1>2. \A x, c, o : /\ ~ Unseen(Calls, x)' /\ ~ ToCome(Calls, x, c)' /\ ~ Walking(Calls, x, c)'
                   /\ ~ Feeding(Calls, x, o, c)' /\ ~ Firing(Calls, x)'
  BY <1>1 DEF Unseen, ToCome, Walking, Feeding, Firing
<1>3. \A x, c : Coming(x, c)' = {}
  BY <1>2 DEF Coming, Owes, Edge
<1>4. FramesOk'
  BY <1>1 DEF FramesOk
<1>5. QED
  BY <1>1, <1>2, <1>3, <1>4 DEF OnceEach, Chained

(* The thread that runs does not wait. *)
LEMMA RunsFacts ==
  ASSUME IInv, NEW t, Runs(t)
  PROVE  /\ stack = << >> /\ ~ aborted /\ ~ cyclic /\ TypeOK /\ FramesOk /\ Good
         /\ SeenOk /\ ContextsOk /\ WaitsOk /\ CtlsOk
         /\ \A e \in Functors, c \in Contexts \cup {Static} : t \notin threads[e][c]
  BY DEF Runs, Idle, Waits, IInv, Good

(* The event controls stay. *)
LEMMA IdleCtls ==
  ASSUME stack = << >>, stack' = stack, CtlsOk, UNCHANGED <<event_ctls, last, fired>>
  PROVE  CtlsOk'
<1>1. \A x, c : /\ Walking(Calls, x, c)' <=> Walking(Calls, x, c)
                /\ Firing(Calls, x)' <=> Firing(Calls, x)
                /\ Coming(x, c)' = Coming(x, c)
  BY IdleView, StillIdle
<1>2. ASSUME NEW z \in Functors PROVE ListOk(z)'
  <2>1. ListOk(z)
    BY DEF CtlsOk
  <2>2. ASSUME NEW i \in DOMAIN event_ctls[z] PROVE CtlOk(z, i)'
    <3>1. CtlOk(z, i)
      BY <2>1, <2>2 DEF ListOk
    <3>2. QED
      BY <1>1, <3>1 DEF CtlOk
  <2>3. QED
    BY <1>1, <2>1, <2>2 DEF ListOk
<1>3. QED
  BY <1>2 DEF CtlsOk

LEMMA add_waiting_threadInv ==
  ASSUME IInv, NEW t \in Threads, NEW e \in Functors, add_waiting_thread(t, e)
  PROVE  IInv'
<1>1. PICK k : k = IF e \in Automatic THEN ctx[t] ELSE Static
  OBVIOUS
<1>2. /\ Runs(t) /\ ops < MaxOps /\ ops' = ops + 1 /\ (e \in Automatic => ctx[t] # Static)
      /\ threads' = [threads EXCEPT ![e][k] = @ \cup {t}]
      /\ hits' = [hits EXCEPT ![t] = 0]
      /\ UNCHANGED <<value, bits_, bits, event_ctls, last, live, ctx, stack, aborted, fired, cyclic>>
  BY <1>1 DEF add_waiting_thread, Operation
<1>3. /\ stack = << >> /\ ~ aborted /\ TypeOK /\ SeenOk /\ ContextsOk /\ WaitsOk /\ CtlsOk
      /\ \A z \in Functors, c \in Contexts \cup {Static} : t \notin threads[z][c]
  BY <1>2, RunsFacts
<1>4. k \in Contexts \cup {Static} /\ k \in Places(e) /\ (k # Static => ctx[t] = k)
  BY <1>1, <1>2, <1>3 DEF TypeOK, ContextsOk, Places
<1>5. /\ threads' \in [Functors -> [Contexts \cup {Static} -> SUBSET Threads]]
      /\ threads'[e][k] = threads[e][k] \cup {t}
      /\ \A z \in Functors, c \in Contexts \cup {Static} :
           ~ (z = e /\ c = k) => threads'[z][c] = threads[z][c]
  BY <1>2, <1>3, <1>4 DEF TypeOK
<1>6. /\ hits' \in [Threads -> Nat] /\ hits'[t] = 0
      /\ \A u \in Threads : u # t => hits'[u] = hits[u]
  BY <1>2, <1>3 DEF TypeOK
<1>7. ops' \in 0..MaxOps
  BY <1>2, <1>3, EventAssumption DEF TypeOK
<1>8. TypeOK' /\ (aborted => cyclic)'
  BY <1>2, <1>3, <1>5, <1>6, <1>7 DEF TypeOK
<1>9. /\ FramesOk' /\ OnceEach(stack)' /\ Chained(stack)'
      /\ \A x, c : ~ Walking(Calls, x, c)' /\ Coming(x, c)' = {}
  BY <1>2, <1>3, StillIdle
<1>10. SeenOk'
  <2>1. \A x, c : /\ Unseen(Calls, x)' <=> Unseen(Calls, x)
                  /\ ToCome(Calls, x, c)' <=> ToCome(Calls, x, c)
    BY <1>2, <1>3, IdleView, StillIdle
  <2>2. QED
    BY <1>2, <1>3, <2>1 DEF SeenOk, Seen, Places
<1>11. ContextsOk'
  BY <1>2, <1>3 DEF ContextsOk
<1>12. CtlsOk'
  BY <1>2, <1>3, IdleCtls
<1>13. WaitsOk'
  <2> SUFFICES ASSUME NEW z \in Functors, NEW c \in Contexts \cup {Static}, NEW u \in threads'[z][c]
               PROVE  /\ c \in Places(z) /\ (c # Static => ctx[u] = c)
                      /\ \A h \in Functors, d \in Contexts \cup {Static} :
                           u \in threads'[h][d] => h = z /\ d = c
                      /\ hits'[u] > 0 <=> Walking(Calls, z, c)' \/ Coming(z, c)' # {}
    BY <1>2 DEF WaitsOk, Places
  <2>1. CASE u = t
    <3>1. \A h \in Functors, d \in Contexts \cup {Static} : t \in threads'[h][d] => h = e /\ d = k
      BY <1>3, <1>5
    <3>2. z = e /\ c = k
      BY <2>1, <3>1
    <3>3. ~ (hits'[t] > 0)
      BY <1>6
    <3>4. QED
      BY <1>4, <1>9, <2>1, <3>1, <3>2, <3>3
  <2>2. CASE u # t
    <3>1. \A h \in Functors, d \in Contexts \cup {Static} : u \in threads'[h][d] => u \in threads[h][d]
      BY <1>5, <2>2
    <3>2. u \in threads[z][c]
      BY <3>1
    <3>3. /\ c \in Places(z) /\ (c # Static => ctx[u] = c)
          /\ \A h \in Functors, d \in Contexts \cup {Static} : u \in threads[h][d] => h = z /\ d = c
          /\ hits[u] > 0 <=> Walking(Calls, z, c) \/ Coming(z, c) # {}
      BY <1>3, <3>2 DEF WaitsOk
    <3>4. ~ Walking(Calls, z, c) /\ Coming(z, c) = {}
      BY <1>3, IdleView
    <3>5. u \in Threads /\ hits'[u] = hits[u]
      BY <1>3, <1>6, <2>2, <3>2 DEF TypeOK
    <3>6. QED
      BY <1>9, <3>1, <3>3, <3>4, <3>5
  <2>3. QED
    BY <2>1, <2>2
<1>14. QED
  BY <1>8, <1>9, <1>10, <1>11, <1>12, <1>13 DEF IInv, Good

LEMMA alloc_contextInv ==
  ASSUME IInv, NEW t \in Threads, NEW k \in Contexts, alloc_context(t, k)
  PROVE  IInv'
<1>1. /\ Runs(t) /\ ops < MaxOps /\ ops' = ops + 1 /\ ctx[t] = Static /\ k \notin live
      /\ ctx' = [ctx EXCEPT ![t] = k] /\ live' = live \cup {k}
      /\ bits' = [e \in Functors |-> [bits[e] EXCEPT ![k] = IF e \in Automatic THEN bits_[e] ELSE @]]
      /\ threads' = [e \in Functors |-> [threads[e] EXCEPT ![k] = {}]]
      /\ UNCHANGED <<value, bits_, event_ctls, last, stack, aborted, hits, fired, cyclic>>
  BY DEF alloc_context, Operation
<1>2. /\ stack = << >> /\ ~ aborted /\ TypeOK /\ SeenOk /\ ContextsOk /\ WaitsOk /\ CtlsOk
      /\ \A z \in Functors, c \in Contexts \cup {Static} : t \notin threads[z][c]
  BY <1>1, RunsFacts
<1>3. /\ threads' \in [Functors -> [Contexts \cup {Static} -> SUBSET Threads]]
      /\ \A z \in Functors, c \in Contexts \cup {Static} :
           threads'[z][c] = IF c = k THEN {} ELSE threads[z][c]
  BY <1>1, <1>2 DEF TypeOK
<1>4. /\ bits' \in [Functors -> [Contexts -> Bit4]]
      /\ \A z \in Functors, c \in Contexts :
           bits'[z][c] = IF c = k /\ z \in Automatic THEN bits_[z] ELSE bits[z][c]
  BY <1>1, <1>2 DEF TypeOK
<1>5. /\ ctx' \in [Threads -> Contexts \cup {Static}] /\ ctx'[t] = k
      /\ \A u \in Threads : u # t => ctx'[u] = ctx[u]
  BY <1>1, <1>2 DEF TypeOK
<1>6. ops' \in 0..MaxOps /\ live' \subseteq Contexts
  BY <1>1, <1>2, EventAssumption DEF TypeOK
<1>7. TypeOK' /\ (aborted => cyclic)'
  BY <1>1, <1>2, <1>3, <1>4, <1>5, <1>6 DEF TypeOK
<1>8. /\ FramesOk' /\ OnceEach(stack)' /\ Chained(stack)'
      /\ \A x, c : /\ ~ Walking(Calls, x, c)' /\ Coming(x, c)' = {}
                   /\ ~ Walking(Calls, x, c) /\ Coming(x, c) = {}
                   /\ ~ Unseen(Calls, x) /\ ~ ToCome(Calls, x, c)
  BY <1>1, <1>2, IdleView, StillIdle
<1>9. SeenOk'
  <2>1. ASSUME NEW s \in Signals, NEW x \in Watchers(s)
        PROVE  bits_[x] = value[s] /\ \A c \in Places(x)' : Seen(x, c)' = value[s]
    <3>1. x \in Functors /\ bits_[x] = value[s] /\ \A c \in Places(x) : Seen(x, c) = value[s]
      BY <1>2, <1>8 DEF SeenOk, Watchers
    <3>2. CASE x \in Automatic
      <4>1. ASSUME NEW c \in live' PROVE bits'[x][c] = value[s]
        <5>1. c \in Contexts /\ (c # k => c \in live)
          BY <1>1, <1>2, <4>1 DEF TypeOK
        <5>2. c # k => bits[x][c] = value[s]
          BY <3>1, <3>2, <5>1 DEF Seen, Places
        <5>3. QED
          BY <1>4, <3>1, <3>2, <5>1, <5>2
      <4>2. QED
        BY <3>1, <3>2, <4>1 DEF Seen, Places
    <3>3. CASE x \notin Automatic
      BY <1>1, <3>1, <3>3 DEF Seen, Places
    <3>4. QED
      BY <3>1, <3>2, <3>3
  <2>2. QED
    BY <1>1, <2>1 DEF SeenOk
<1>10. ContextsOk'
  <2>1. \A u \in Threads : u # t => ctx[u] # k
    BY <1>1, <1>2, EventAssumption DEF ContextsOk
  <2>2. k # Static
    BY EventAssumption
  <2>3. ASSUME NEW u \in Threads, ctx'[u] # Static
        PROVE  ctx'[u] \in live' /\ \A w \in Threads : ctx'[w] = ctx'[u] => w = u
    <3>1. CASE u = t
      BY <1>1, <1>5, <2>1, <3>1
    <3>2. CASE u # t
      BY <1>1, <1>2, <1>5, <2>1, <2>3, <3>2 DEF ContextsOk
    <3>3. QED
      BY <3>1, <3>2
  <2>4. QED
    BY <2>3 DEF ContextsOk
<1>11. CtlsOk'
  BY <1>1, <1>2, IdleCtls
<1>12. WaitsOk'
  <2> SUFFICES ASSUME NEW z \in Functors, NEW c \in Contexts \cup {Static}, NEW u \in threads'[z][c]
               PROVE  /\ c \in Places(z)' /\ (c # Static => ctx'[u] = c)
                      /\ \A h \in Functors, d \in Contexts \cup {Static} :
                           u \in threads'[h][d] => h = z /\ d = c
                      /\ hits[u] > 0 <=> Walking(Calls, z, c)' \/ Coming(z, c)' # {}
    BY <1>1 DEF WaitsOk
  <2>1. \A h \in Functors, d \in Contexts \cup {Static} : u \in threads'[h][d] => u \in threads[h][d]
    BY <1>3
  <2>2. u \in threads[z][c] /\ u # t /\ u \in Threads
    BY <1>2, <2>1 DEF TypeOK
  <2>3. /\ c \in Places(z) /\ (c # Static => ctx[u] = c)
        /\ \A h \in Functors, d \in Contexts \cup {Static} : u \in threads[h][d] => h = z /\ d = c
        /\ hits[u] > 0 <=> Walking(Calls, z, c) \/ Coming(z, c) # {}
    BY <1>2, <2>2 DEF WaitsOk
  <2>4. c \in Places(z)'
    BY <1>1, <2>3 DEF Places
  <2>5. ctx'[u] = ctx[u]
    BY <1>5, <2>2
  <2>6. QED
    BY <1>8, <2>1, <2>3, <2>4, <2>5
<1>13. QED
  BY <1>7, <1>8, <1>9, <1>10, <1>11, <1>12 DEF IInv, Good

LEMMA free_contextInv ==
  ASSUME IInv, NEW t \in Threads, free_context(t)
  PROVE  IInv'
<1>1. /\ Runs(t) /\ ctx[t] # Static
      /\ live' = live \ {ctx[t]} /\ ctx' = [ctx EXCEPT ![t] = Static]
      /\ UNCHANGED <<value, bits_, bits, threads, event_ctls, last, stack, ops, aborted,
                     hits, fired, cyclic>>
  BY DEF free_context
<1>2. /\ stack = << >> /\ ~ aborted /\ TypeOK /\ SeenOk /\ ContextsOk /\ WaitsOk /\ CtlsOk
      /\ \A z \in Functors, c \in Contexts \cup {Static} : t \notin threads[z][c]
  BY <1>1, RunsFacts
<1>3. /\ ctx' \in [Threads -> Contexts \cup {Static}] /\ ctx'[t] = Static
      /\ \A u \in Threads : u # t => ctx'[u] = ctx[u]
  BY <1>1, <1>2 DEF TypeOK
<1>4. live' \subseteq Contexts
  BY <1>1, <1>2 DEF TypeOK
<1>5. TypeOK' /\ (aborted => cyclic)'
  BY <1>1, <1>2, <1>3, <1>4 DEF TypeOK
<1>6. /\ FramesOk' /\ OnceEach(stack)' /\ Chained(stack)'
      /\ \A x, c : /\ ~ Walking(Calls, x, c)' /\ Coming(x, c)' = {}
                   /\ ~ Walking(Calls, x, c) /\ Coming(x, c) = {}
                   /\ ~ Unseen(Calls, x) /\ ~ ToCome(Calls, x, c)
  BY <1>1, <1>2, IdleView, StillIdle
<1>7. SeenOk'
  <2>1. ASSUME NEW s \in Signals, NEW x \in Watchers(s)
        PROVE  bits_[x] = value[s] /\ \A c \in Places(x)' : Seen(x, c)' = value[s]
    <3>1. bits_[x] = value[s] /\ \A c \in Places(x) : Seen(x, c) = value[s]
      BY <1>2, <1>6 DEF SeenOk
    <3>2. Places(x)' \subseteq Places(x) /\ \A c : Seen(x, c)' = Seen(x, c)
      BY <1>1 DEF Places, Seen
    <3>3. QED
      BY <3>1, <3>2
  <2>2. QED
    BY <1>1, <2>1 DEF SeenOk
<1>8. ContextsOk'
  <2>1. \A u \in Threads : ctx[u] = ctx[t] => u = t
    BY <1>1, <1>2 DEF ContextsOk
  <2>2. ASSUME NEW u \in Threads, ctx'[u] # Static
        PROVE  ctx'[u] \in live' /\ \A w \in Threads : ctx'[w] = ctx'[u] => w = u
    <3>1. u # t /\ ctx'[u] = ctx[u] /\ ctx[u] # Static
      BY <1>3, <2>2
    <3>2. ctx[u] \in live /\ \A w \in Threads : ctx[w] = ctx[u] => w = u
      BY <1>2, <3>1 DEF ContextsOk
    <3>3. ctx[u] \in live'
      BY <1>1, <2>1, <3>1, <3>2
    <3>4. \A w \in Threads : ctx'[w] = ctx'[u] => w = u
      BY <1>3, <2>2, <3>1, <3>2
    <3>5. QED
      BY <3>1, <3>3, <3>4
  <2>3. QED
    BY <2>2 DEF ContextsOk
<1>9. CtlsOk'
  BY <1>1, <1>2, IdleCtls
<1>10. WaitsOk'
  <2> SUFFICES ASSUME NEW z \in Functors, NEW c \in Contexts \cup {Static}, NEW u \in threads[z][c]
               PROVE  /\ c \in Places(z)' /\ (c # Static => ctx'[u] = c)
                      /\ \A h \in Functors, d \in Contexts \cup {Static} :
                           u \in threads[h][d] => h = z /\ d = c
                      /\ hits[u] > 0 <=> Walking(Calls, z, c)' \/ Coming(z, c)' # {}
    BY <1>1 DEF WaitsOk
  <2>1. u # t /\ u \in Threads
    BY <1>2 DEF TypeOK
  <2>2. /\ c \in Places(z) /\ (c # Static => ctx[u] = c)
        /\ \A h \in Functors, d \in Contexts \cup {Static} : u \in threads[h][d] => h = z /\ d = c
        /\ hits[u] > 0 <=> Walking(Calls, z, c) \/ Coming(z, c) # {}
    BY <1>2 DEF WaitsOk
  <2>3. c \in Places(z)'
    <3>1. CASE z \in Automatic
      <4>1. c \in live /\ c # Static
        BY <1>2, <2>2, <3>1, EventAssumption DEF Places, TypeOK
      <4>2. c # ctx[t]
        BY <1>1, <1>2, <2>1, <2>2, <4>1 DEF ContextsOk
      <4>3. QED
        BY <1>1, <3>1, <4>1, <4>2 DEF Places
    <3>2. CASE z \notin Automatic
      BY <2>2, <3>2 DEF Places
    <3>3. QED
      BY <3>1, <3>2
  <2>4. ctx'[u] = ctx[u]
    BY <1>3, <2>1
  <2>5. QED
    BY <1>6, <2>2, <2>3, <2>4
<1>11. QED
  BY <1>5, <1>6, <1>7, <1>8, <1>9, <1>10 DEF IInv, Good

Extends(r, s, y) ==
  /\ r \in Seq(evctl) /\ Len(r) = Len(s) + 1 /\ r[Len(s) + 1] = y
  /\ \A i \in 1..Len(s) : r[i] = s[i]

LEMMA AddCtl ==
  ASSUME NEW s, s \in Seq(evctl), NEW y, y \in evctl
  PROVE  Extends(SubSeq(s, 1, Len(s)) \o <<y>>, s, y)
<1>1. SubSeq(s, 1, Len(s)) = s
  OBVIOUS
<1>2. PICK r : r = s \o <<y>>
  OBVIOUS
<1>3. r \in Seq(evctl) /\ Len(r) = Len(s) + 1
  BY <1>2
<1>4. r[Len(s) + 1] = y
  BY <1>2
<1>5. \A i \in 1..Len(s) : r[i] = s[i]
  BY <1>2
<1>6. r = SubSeq(s, 1, Len(s)) \o <<y>>
  BY <1>1, <1>2
<1>7. Extends(r, s, y)
  BY <1>3, <1>4, <1>5 DEF Extends
<1>8. QED
  BY <1>6, <1>7

LEMMA schedule_evctlInv ==
  ASSUME IInv, NEW x \in Ctls, schedule_evctl(x)
  PROVE  IInv'
<1>1. PICK e, y, r : e = x.on /\ y = NewCtl(x) /\ r = SubSeq(event_ctls[e], 1, last[e]) \o <<y>>
  OBVIOUS
<1>2. PICK t \in Threads : Runs(t)
  BY DEF schedule_evctl, SomeRuns
<1>3. /\ ops < MaxOps /\ ops' = ops + 1
      /\ event_ctls' = [event_ctls EXCEPT ![e] = r]
      /\ last' = [last EXCEPT ![e] = last[e] + 1]
      /\ UNCHANGED <<value, bits_, bits, threads, live, ctx, stack, aborted, hits, fired, cyclic>>
  BY <1>1 DEF schedule_evctl, SomeRuns, Operation
<1>4. /\ stack = << >> /\ ~ aborted /\ TypeOK /\ SeenOk /\ ContextsOk /\ WaitsOk /\ CtlsOk
  BY <1>2, RunsFacts
<1>5. /\ e \in Functors /\ e \notin Automatic /\ x.n \in Nat /\ x.n > 0 /\ x.to \in Signals /\ x.val \in Bits
  BY <1>1, EventAssumption
<1>6. /\ FramesOk' /\ OnceEach(stack)' /\ Chained(stack)'
      /\ \A z, c : /\ ~ Walking(Calls, z, c)' /\ Coming(z, c)' = {} /\ ~ Firing(Calls, z)'
                   /\ ~ Walking(Calls, z, c) /\ Coming(z, c) = {} /\ ~ Firing(Calls, z)
                   /\ Unseen(Calls, z)' <=> Unseen(Calls, z)
                   /\ ToCome(Calls, z, c)' <=> ToCome(Calls, z, c)
  BY <1>3, <1>4, IdleView, StillIdle
<1>7. ops \in Nat /\ ops' \in 0..MaxOps
  BY <1>3, <1>4, EventAssumption DEF TypeOK
<1>8. y \in evctl /\ y.ecount = x.n /\ y.n = x.n /\ y.seen = 0
  BY <1>1, <1>5, <1>7 DEF NewCtl, evctl
<1>9. PICK s, l : s = event_ctls[e] /\ l = last[e]
  OBVIOUS
<1>10. s \in Seq(evctl) /\ l = Len(s) /\ l \in Nat /\ DOMAIN s = 1..l
  <2>1. ListOk(e)
    BY <1>4, <1>5 DEF CtlsOk
  <2>2. l = Len(s)
    BY <1>6, <1>9, <2>1 DEF ListOk
  <2>3. QED
    BY <1>4, <1>5, <1>9, <2>2, CtlType
<1>11. /\ r \in Seq(evctl) /\ Len(r) = l + 1 /\ r[l + 1] = y /\ \A i \in 1..l : r[i] = s[i]
  <2>1. r = SubSeq(s, 1, Len(s)) \o <<y>>
    BY <1>1, <1>9, <1>10
  <2>2. s \in Seq(evctl) /\ y \in evctl
    BY <1>8, <1>10
  <2>3. Extends(SubSeq(s, 1, Len(s)) \o <<y>>, s, y)
    BY <2>2, AddCtl
  <2>4. Extends(r, s, y)
    BY <2>1, <2>3
  <2>5. QED
    BY <1>10, <2>4 DEF Extends
<1>12. /\ event_ctls' \in [Functors -> Seq(evctl)] /\ event_ctls'[e] = r
       /\ \A z \in Functors : z # e => event_ctls'[z] = event_ctls[z]
  BY <1>3, <1>4, <1>5, <1>11 DEF TypeOK
<1>13. /\ last' \in [Functors -> Nat] /\ last'[e] = l + 1
       /\ \A z \in Functors : z # e => last'[z] = last[z]
  BY <1>3, <1>4, <1>5, <1>9, <1>10 DEF TypeOK
<1>14. \A z \in Functors : last'[z] <= Len(event_ctls'[z])
  <2>1. \A z \in Functors : last[z] <= Len(event_ctls[z])
    BY <1>4 DEF TypeOK
  <2>2. l + 1 <= l + 1
    BY <1>10
  <2>3. QED
    BY <1>11, <1>12, <1>13, <2>1, <2>2
<1>15. TypeOK' /\ (aborted => cyclic)'
  BY <1>3, <1>4, <1>7, <1>12, <1>13, <1>14 DEF TypeOK
<1>16. SeenOk'
  BY <1>3, <1>4, <1>6 DEF SeenOk, Seen, Places
<1>17. ContextsOk'
  BY <1>3, <1>4 DEF ContextsOk
<1>18. WaitsOk'
  BY <1>3, <1>4, <1>6, SameWaits
<1>19. CtlsOk'
  <2>1. ASSUME NEW z \in Functors, z # e PROVE ListOk(z)'
    <3>1. ListOk(z) /\ event_ctls'[z] = event_ctls[z] /\ last'[z] = last[z]
      BY <1>4, <1>12, <1>13, <2>1 DEF CtlsOk
    <3>2. ASSUME NEW i \in DOMAIN event_ctls[z] PROVE CtlOk(z, i)'
      <4>1. CtlOk(z, i)
        BY <3>1, <3>2 DEF ListOk
      <4>2. QED
        BY <1>6, <3>1, <4>1 DEF CtlOk
    <3>3. QED
      BY <1>6, <3>1, <3>2 DEF ListOk
  <2>2. ListOk(e)'
    <3>1. ASSUME NEW i \in DOMAIN r PROVE CtlOk(e, i)'
      <4>1. i \in 1..(l + 1) /\ i \in Nat
        BY <1>10, <1>11, <3>1
      <4>2. CASE i = l + 1
        <5>1. event_ctls'[e][i] = y
          BY <1>11, <1>12, <4>2
        <5>2. Cardinality(Coming(e, Static)') = 0 /\ ~ Firing(Calls, e)' /\ ~ Walking(Calls, e, Static)'
          BY <1>6, FS_EmptySet
        <5>3. y.ecount > 0 /\ y.ecount = y.n - y.seen + 0 + 0
          BY <1>5, <1>8
        <5>4. QED
          BY <5>1, <5>2, <5>3 DEF CtlOk
      <4>3. CASE i # l + 1
        <5>1. i \in 1..l
          BY <1>10, <4>1, <4>3
        <5>2. event_ctls'[e][i] = event_ctls[e][i] /\ i \in DOMAIN event_ctls[e]
          BY <1>9, <1>10, <1>11, <1>12, <5>1
        <5>3. CtlOk(e, i)
          BY <1>4, <1>5, <5>2 DEF CtlsOk, ListOk
        <5>4. QED
          BY <1>6, <5>2, <5>3 DEF CtlOk
      <4>4. QED
        BY <4>2, <4>3
    <3>2. QED
      BY <1>5, <1>6, <1>11, <1>12, <1>13, <3>1 DEF ListOk
  <2>3. QED
    BY <1>3, <1>4, <2>1, <2>2 DEF CtlsOk
<1>20. QED
  BY <1>6, <1>15, <1>16, <1>17, <1>18, <1>19 DEF IInv, Good

LEMMA assignInv ==
  ASSUME IInv, NEW s \in Signals, NEW v \in Bits, assign(s, v)
  PROVE  IInv'
<1>1. PICK g, es : g = Call("send", s, Static, Watchers(s)) /\ es = Hit(s, v)
  OBVIOUS
<1>2. PICK t \in Threads : Runs(t)
  BY DEF assign, SomeRuns
<1>3. /\ ops < MaxOps /\ ops' = ops + 1
      /\ value' = [value EXCEPT ![s] = v] /\ stack' = <<g>> \o << >> /\ Happens(es, event_ctls)
      /\ UNCHANGED <<bits_, bits, threads, last, live, ctx, aborted, fired, cyclic>>
  BY <1>1 DEF assign, SomeRuns, Operation, Send, Hit
<1>4. /\ stack = << >> /\ ~ aborted /\ ~ cyclic /\ TypeOK /\ Good /\ CtlsOk
  BY <1>2, RunsFacts
<1>5. g \in Frame /\ g.op = "send" /\ g.at = s /\ FrameOk(g) /\ v \in Bit4
  BY <1>1, EventAssumption DEF Call, Frame, FrameOk, Watchers
<1>6. stack' = <<g>>
  <2>1. <<g>> \o << >> = <<g>>
    OBVIOUS
  <2>2. QED
    BY <1>3, <2>1
<1>7. FramesOk' /\ Calls' = {g} /\ OnceEach(stack)' /\ Chained(stack)'
  BY <1>3, <1>5, <1>6, FirstCall
<1>8. es \in SUBSET Functors
  BY <1>1 DEF Watchers, Hit
<1>9. hits \in [Threads -> Nat] /\ event_ctls \in [Functors -> Seq(evctl)]
  BY <1>4 DEF TypeOK
<1>10. /\ hits' \in [Threads -> Nat] /\ event_ctls' \in [Functors -> Seq(evctl)]
       /\ \A z \in Functors :
            /\ DOMAIN event_ctls'[z] = DOMAIN event_ctls[z]
            /\ Len(event_ctls'[z]) = Len(event_ctls[z])
            /\ \A i \in DOMAIN event_ctls[z] :
                 MoreSeen(event_ctls[z][i], event_ctls'[z][i], Cardinality(Walks(es, z)))
  BY <1>3, <1>8, <1>9, HappensFacts
<1>11. value' \in [Signals -> Bit4] /\ ops' \in 0..MaxOps
  BY <1>3, <1>4, <1>5, EventAssumption DEF TypeOK
<1>12. TypeOK' /\ (aborted => cyclic)'
  <2>1. \A z \in Functors : last'[z] <= Len(event_ctls'[z])
    BY <1>3, <1>4, <1>10 DEF TypeOK
  <2>2. QED
    BY <1>3, <1>4, <1>10, <1>11, <2>1 DEF TypeOK
<1>13. SendsFrom({}, s, v)
  <2>1. Calls = {} /\ Calls' = {Call("send", s, Static, Watchers(s))} \cup {}
    BY <1>1, <1>4, <1>7, IdleView
  <2>2. QED
    BY <1>3, <1>5, <2>1 DEF SendsFrom
<1>14. \A x, c : ~ Firing(Calls, x) /\ ~ Firing(Calls, x)'
  BY <1>4, <1>5, <1>7, IdleView DEF Firing
<1>15. /\ \A x, c : Walking(Calls, x, c)' <=> Walking(Calls, x, c)
       /\ \A x \in Functors : \A c \in Places(x) :
            /\ Coming(x, c)' = Coming(x, c) \cup Walks(es, x)
            /\ Coming(x, c) \cap Walks(es, x) = {}
  <2>1. es = Hit(s, v) /\ TypeOK /\ SeenOk
    BY <1>1, <1>4 DEF Good
  <2>2. QED
    BY <1>13, <2>1, SendView
<1>16. Counted(es)
  <2>1. ASSUME NEW z \in Functors, NEW i \in DOMAIN event_ctls[z] PROVE CountedCtl(es, z, i)
    <3>1. MoreSeen(event_ctls[z][i], event_ctls'[z][i], Cardinality(Walks(es, z)))
      BY <1>10, <2>1
    <3>2. QED
      BY <1>14, <3>1 DEF CountedCtl, MoreSeen
  <2>2. UNCHANGED last /\ fired \subseteq fired' /\ \A x \in fired' : x.seen >= x.n
    BY <1>3, <1>4 DEF CtlsOk
  <2>3. \A z \in Functors : /\ DOMAIN event_ctls'[z] = DOMAIN event_ctls[z]
                            /\ Len(event_ctls'[z]) = Len(event_ctls[z])
                            /\ ~ Firing(Calls, z)'
    BY <1>10, <1>14
  <2>4. QED
    BY <1>15, <2>1, <2>2, <2>3 DEF Counted
<1>17. Good'
  BY <1>1, <1>3, <1>4, <1>7, <1>13, <1>16, SendGood
<1>18. QED
  BY <1>7, <1>12, <1>17 DEF IInv

LEMMA triggerInv ==
  ASSUME IInv, NEW e \in Functors, trigger(e)
  PROVE  IInv'
<1>1. PICK g : g = Walk(e, Static)
  OBVIOUS
<1>2. PICK t \in Threads : Runs(t)
  BY DEF trigger, SomeRuns
<1>3. /\ ops < MaxOps /\ ops' = ops + 1 /\ Kind[e] = "named"
      /\ stack' = <<g>> \o << >> /\ last' = [last EXCEPT ![e] = 0]
      /\ Happens({e}, event_ctls)
      /\ UNCHANGED <<value, bits_, bits, threads, live, ctx, aborted, fired>>
  BY <1>1 DEF trigger, SomeRuns, Operation, Enter
<1>4. /\ stack = << >> /\ ~ aborted /\ ~ cyclic /\ TypeOK
      /\ SeenOk /\ ContextsOk /\ WaitsOk /\ CtlsOk
  BY <1>2, RunsFacts
<1>5. /\ e \notin Automatic /\ e \notin Ors[e] /\ \A o \in Ors[e] : o \in Functors /\ o \notin Automatic
  BY <1>3, EventAssumption
<1>6. /\ g \in Frame /\ g.op = "walk" /\ g.at = e /\ g.ctx = Static /\ ~ g.fired
      /\ FrameOk(g) /\ Kind[g.at] \notin Edges
  BY <1>1, <1>3, <1>5 DEF Walk, Frame, FrameOk, Places, Edges
<1>7. stack' = <<g>>
  <2>1. <<g>> \o << >> = <<g>>
    OBVIOUS
  <2>2. QED
    BY <1>3, <2>1
<1>8. FramesOk' /\ Calls' = {g} /\ OnceEach(stack)' /\ Chained(stack)'
  BY <1>3, <1>6, <1>7, FirstCall
<1>9. /\ hits' \in [Threads -> Nat] /\ event_ctls' \in [Functors -> Seq(evctl)]
      /\ \A z \in Functors :
           /\ DOMAIN event_ctls'[z] = DOMAIN event_ctls[z]
           /\ Len(event_ctls'[z]) = Len(event_ctls[z])
           /\ \A i \in DOMAIN event_ctls[z] :
                MoreSeen(event_ctls[z][i], event_ctls'[z][i], Cardinality(Walks({e}, z)))
  <2>1. {e} \in SUBSET Functors /\ hits \in [Threads -> Nat] /\ event_ctls \in [Functors -> Seq(evctl)]
    BY <1>4 DEF TypeOK
  <2>2. QED
    BY <1>3, <2>1, HappensFacts
<1>10. /\ last' \in [Functors -> Nat] /\ last'[e] = 0
       /\ \A z \in Functors : z # e => last'[z] = last[z]
  BY <1>3, <1>4 DEF TypeOK
<1>11. ops' \in 0..MaxOps
  BY <1>3, <1>4, EventAssumption DEF TypeOK
<1>12. cyclic' \in BOOLEAN
  BY <1>4 DEF trigger, Enter
<1>13. ASSUME NEW z \in Functors
       PROVE  /\ Len(event_ctls[z]) \in Nat /\ DOMAIN event_ctls[z] = 1..Len(event_ctls[z])
              /\ last'[z] <= Len(event_ctls'[z])
  <2>1. /\ Len(event_ctls[z]) \in Nat /\ DOMAIN event_ctls[z] = 1..Len(event_ctls[z])
        /\ last[z] <= Len(event_ctls[z])
    BY <1>4, CtlType DEF TypeOK
  <2>2. Len(event_ctls'[z]) = Len(event_ctls[z])
    BY <1>9
  <2>3. CASE z = e
    BY <1>10, <2>1, <2>2, <2>3
  <2>4. CASE z # e
    BY <1>10, <2>1, <2>2, <2>4
  <2>5. QED
    BY <2>1, <2>3, <2>4
<1>14. TypeOK' /\ (aborted => cyclic)'
  BY <1>3, <1>4, <1>9, <1>10, <1>11, <1>12, <1>13 DEF TypeOK
<1>15. \A x, c, o : /\ ~ Unseen(Calls, x)' /\ ~ ToCome(Calls, x, c)'
                    /\ ~ Feeding(Calls, x, o, c)' /\ ~ Firing(Calls, x)'
                    /\ Walking(Calls, x, c)' <=> x = e /\ c = Static
  BY <1>6, <1>8 DEF Unseen, ToCome, Feeding, Firing, Walking
<1>16. \A x, c : /\ ~ Unseen(Calls, x) /\ ~ ToCome(Calls, x, c) /\ ~ Firing(Calls, x)
                 /\ ~ Walking(Calls, x, c) /\ Coming(x, c) = {}
  BY <1>4, IdleView
<1>17. \A z, c : Coming(z, c)' = IF z \in Ors[e] /\ c = Static THEN {e} ELSE {}
  <2>1. \A x, z, c : Owes(x, z, c)' <=> x = e /\ z \in Ors[e] /\ c = Static
    BY <1>15 DEF Owes, Edge
  <2>2. QED
    BY <2>1 DEF Coming
<1>18. \A z : Walks({e}, z) = IF z = e \/ z \in Ors[e] THEN {e} ELSE {}
  BY DEF Walks
<1>19. Cardinality({e}) = 1 /\ Cardinality({}) = 0
  BY FS_Singleton, FS_EmptySet
<1>20. SeenOk'
  BY <1>3, <1>4, <1>15, <1>16 DEF SeenOk, Seen, Places
<1>21. ContextsOk'
  BY <1>3, <1>4 DEF ContextsOk
<1>22. WaitsOk'
  <2>1. ASSUME NEW z \in Functors, NEW c \in Places(z)
        PROVE  Walking(Calls, z, c)' \/ Coming(z, c)' # {} <=>
                 Walking(Calls, z, c) \/ Coming(z, c) # {} \/ Walks({e}, z) # {}
    <3>1. z = e \/ z \in Ors[e] => c = Static
      BY <1>5, <2>1 DEF Places
    <3>2. Walks({e}, z) # {} <=> z = e \/ z \in Ors[e]
      BY <1>18
    <3>3. Coming(z, c)' # {} <=> z \in Ors[e] /\ c = Static
      BY <1>17
    <3>4. QED
      BY <1>15, <1>16, <3>1, <3>2, <3>3
  <2>2. UNCHANGED <<threads, live, ctx>>
    BY <1>3
  <2>3. QED
    BY <1>3, <1>4, <2>1, <2>2, HappensWaits
<1>23. CtlsOk'
  <2>1. ASSUME NEW z \in Functors PROVE ListOk(z)'
    <3>1. ListOk(z)
      BY <1>4, <2>1 DEF CtlsOk
    <3>2. last[z] = Len(event_ctls[z]) /\ (z \in Automatic => event_ctls[z] = << >>)
      BY <1>16, <3>1 DEF ListOk
    <3>3. ASSUME NEW i \in DOMAIN event_ctls[z] PROVE CtlOk(z, i)'
      <4>1. i \in Nat /\ i > 0 /\ ~ (i > last[z])
        BY <1>13, <3>2, <3>3
      <4>2. PICK x, y, w, k : /\ x = event_ctls[z][i] /\ y = event_ctls'[z][i]
                              /\ w = Cardinality(Walks({e}, z)) /\ k = Cardinality(Coming(z, Static)')
        OBVIOUS
      <4>3. /\ x.ecount > 0 /\ x.ecount = x.n - x.seen + 0 + 0
            /\ x.ecount \in Nat /\ x.n \in Nat /\ x.seen \in Nat
        <5>1. CtlOk(z, i) /\ x \in evctl
          BY <1>4, <3>1, <3>3, <4>2, CtlType DEF ListOk
        <5>2. x.ecount \in Nat /\ x.n \in Nat /\ x.seen \in Nat
          BY <5>1 DEF evctl
        <5>3. QED
          BY <1>16, <1>19, <4>2, <5>1, <5>2 DEF CtlOk
      <4>4. y.ecount = x.ecount /\ y.n = x.n /\ y.seen = x.seen + w
        BY <1>9, <3>3, <4>2 DEF MoreSeen
      <4>5. w = (IF z = e \/ z \in Ors[e] THEN 1 ELSE 0) /\ k = (IF z \in Ors[e] THEN 1 ELSE 0)
        BY <1>17, <1>18, <1>19, <4>2
      <4>6. PICK d : d = IF Walking(Calls, z, Static)' /\ i > last'[z] THEN 1 ELSE 0
        OBVIOUS
      <4>7. d = IF z = e THEN 1 ELSE 0
        BY <1>10, <1>15, <4>1, <4>6
      <4>8. w = k + d /\ k \in Nat /\ d \in Nat
        BY <1>5, <4>5, <4>7
      <4>9. y.ecount > 0 /\ y.ecount = y.n - y.seen + k + d
        BY <4>3, <4>4, <4>8
      <4>10. QED
        BY <1>15, <4>2, <4>6, <4>9 DEF CtlOk
    <3>4. z \in Automatic => event_ctls'[z] = << >>
      BY <1>9, <3>2
    <3>5. ~ Walking(Calls, z, Static)' => last'[z] = Len(event_ctls'[z])
      BY <1>9, <1>10, <1>15, <3>2
    <3>6. QED
      BY <1>9, <1>15, <3>3, <3>4, <3>5 DEF ListOk
  <2>2. QED
    BY <1>3, <1>4, <2>1 DEF CtlsOk
<1>24. QED
  BY <1>8, <1>14, <1>20, <1>21, <1>22, <1>23 DEF IInv, Good

LEMMA InitInv == Init => IInv
<1> SUFFICES ASSUME Init PROVE IInv
  OBVIOUS
<1>1. TypeOK
  <2>1. event_ctls \in [Functors -> Seq(evctl)] /\ \A e \in Functors : Len(event_ctls[e]) = 0
    BY DEF Init
  <2>2. 0 \in 0..MaxOps
    BY EventAssumption
  <2>3. last \in [Functors -> Nat] /\ \A e \in Functors : last[e] = 0
    BY DEF Init
  <2>4. \A e \in Functors : last[e] <= Len(event_ctls[e])
    BY <2>1, <2>3
  <2>5. /\ value \in [Signals -> Bit4] /\ bits_ \in [Functors -> Bit4]
        /\ bits \in [Functors -> [Contexts -> Bit4]]
        /\ threads \in [Functors -> [Contexts \cup {Static} -> SUBSET Threads]]
    BY DEF Init, Bit4
  <2>6. /\ live \subseteq Contexts /\ ctx \in [Threads -> Contexts \cup {Static}]
        /\ hits \in [Threads -> Nat] /\ fired \subseteq evctl /\ ops \in 0..MaxOps
        /\ aborted \in BOOLEAN /\ cyclic \in BOOLEAN
    BY <2>2 DEF Init
  <2>7. QED
    BY <2>1, <2>3, <2>4, <2>5, <2>6 DEF TypeOK
<1>2. stack = << >> /\ ~ aborted
  BY DEF Init
<1>3. FramesOk /\ OnceEach(stack) /\ Chained(stack)
  <2>1. Calls = {} /\ OnceEach(stack) /\ Chained(stack)
    BY <1>2, IdleView
  <2>2. << >> \in Seq(Frame)
    OBVIOUS
  <2>3. QED
    BY <1>2, <2>1, <2>2 DEF FramesOk
<1>4. SeenOk
  BY DEF Init, SeenOk, Seen, Places, Watchers
<1>5. ContextsOk
  BY DEF Init, ContextsOk
<1>6. WaitsOk
  BY DEF Init, WaitsOk
<1>7. CtlsOk
  <2>1. ASSUME NEW e \in Functors PROVE ListOk(e)
    <3>1. event_ctls[e] = << >> /\ last[e] = 0 /\ Len(event_ctls[e]) = 0 /\ DOMAIN event_ctls[e] = {}
      BY DEF Init
    <3>2. ~ Firing(Calls, e)
      BY <1>2, IdleView
    <3>3. QED
      BY <3>1, <3>2 DEF ListOk
  <2>2. QED
    BY <2>1 DEF CtlsOk, Init
<1>8. QED
  BY <1>1, <1>2, <1>3, <1>4, <1>5, <1>6, <1>7 DEF IInv, Good

LEMMA Stutter ==
  ASSUME IInv, UNCHANGED vars
  PROVE  IInv'
<1>1. /\ TypeOK' /\ FramesOk' /\ (aborted => cyclic)'
  BY DEF IInv, vars, TypeOK, FramesOk, FrameOk, Calls, Places
<1>2. \A e, c : Coming(e, c)' = Coming(e, c) /\ Seen(e, c)' = Seen(e, c) /\ Places(e)' = Places(e)
  BY DEF vars, Coming, Owes, Edge, Calls, Seen, Places
<1>3. Calls' = Calls /\ stack' = stack
  BY DEF vars, Calls
<1>4. OnceEach(stack)' = OnceEach(stack) /\ Chained(stack)' = Chained(stack)
  BY <1>3
<1>5. SeenOk' = SeenOk
  BY <1>2, <1>3 DEF vars, SeenOk
<1>6. ContextsOk' = ContextsOk
  BY DEF vars, ContextsOk
<1>7. WaitsOk' = WaitsOk
  BY <1>2, <1>3 DEF vars, WaitsOk
<1>8. CtlsOk' = CtlsOk
  BY <1>2, <1>3 DEF vars, CtlsOk, ListOk, CtlOk
<1>9. cyclic' = cyclic
  BY DEF vars
<1>10. QED
  BY <1>1, <1>4, <1>5, <1>6, <1>7, <1>8, <1>9 DEF IInv, Good

LEMMA StepInv ==
  ASSUME IInv, [Next]_vars
  PROVE  IInv'
<1>1. CASE Return
  BY <1>1, ReturnInv
<1>2. ASSUME NEW e \in Functors, recv_vec4_sa(e) PROVE IInv'
  BY <1>2, recv_vec4_saInv
<1>3. ASSUME NEW e \in Functors, recv_vec4_aa(e) PROVE IInv'
  BY <1>3, recv_vec4_aaInv
<1>4. ASSUME NEW e \in Functors, recv_vec4_or(e) PROVE IInv'
  BY <1>4, recv_vec4_orInv
<1>5. ASSUME NEW c \in Contexts, recv_context(c) PROVE IInv'
  BY <1>5, recv_contextInv
<1>6. CASE recv_static
  BY <1>6, recv_staticInv
<1>7. CASE dec_and_run
  BY <1>7, dec_and_runInv
<1>8. CASE delete_evctl
  BY <1>8, delete_evctlInv
<1>9. CASE wake_threads
  BY <1>9, wake_threadsInv
<1>10. ASSUME NEW t \in Threads, NEW e \in Functors, add_waiting_thread(t, e) PROVE IInv'
  BY <1>10, add_waiting_threadInv
<1>11. ASSUME NEW t \in Threads, NEW c \in Contexts, alloc_context(t, c) PROVE IInv'
  BY <1>11, alloc_contextInv
<1>12. ASSUME NEW t \in Threads, free_context(t) PROVE IInv'
  BY <1>12, free_contextInv
<1>13. ASSUME NEW s \in Signals, NEW v \in Bits, assign(s, v) PROVE IInv'
  BY <1>13, assignInv
<1>14. ASSUME NEW e \in Functors, trigger(e) PROVE IInv'
  BY <1>14, triggerInv
<1>15. ASSUME NEW x \in Ctls, schedule_evctl(x) PROVE IInv'
  BY <1>15, schedule_evctlInv
<1>16. CASE UNCHANGED vars
  BY <1>16, Stutter
<1>17. QED
  BY <1>1, <1>2, <1>3, <1>4, <1>5, <1>6, <1>7, <1>8, <1>9, <1>10, <1>11, <1>12, <1>13, <1>14,
     <1>15, <1>16 DEF Next, Propagation, Instruction

(* The invariant holds: the calls in progress nest as the code nests them, *)
(* every functor has seen the value of its signal unless that is on its    *)
(* way, and every count is behind by exactly the walks still owed to it.   *)
THEOREM EventInvariant == Spec => []IInv
<1>1. Init => IInv
  BY InitInv
<1>2. IInv /\ [Next]_vars => IInv'
  BY StepInv
<1>3. QED
  BY <1>1, <1>2, PTL DEF Spec

(* Once a value has gone everywhere, a thread that still waits in the list *)
(* of vvp_fun_edge, vvp_fun_anyedge, vvp_named_event or vvp_fun_event_or   *)
(* has had no event since it began to wait.                                *)
THEOREM NoEventIsMissed == Spec => []NoMissedEvent
<1>1. IInv => NoMissedEvent
  <2> SUFFICES ASSUME IInv, Settled, NEW t \in Threads, Waits(t) PROVE hits[t] = 0
    BY DEF NoMissedEvent
  <2>1. stack = << >> /\ TypeOK /\ WaitsOk
    BY DEF IInv, Settled, Idle, Good
  <2>2. PICK e \in Functors, c \in Contexts \cup {Static} : t \in threads[e][c]
    BY DEF Waits
  <2>3. ~ Walking(Calls, e, c) /\ Coming(e, c) = {}
    BY <2>1, IdleView
  <2>4. ~ (hits[t] > 0)
    BY <2>1, <2>2, <2>3 DEF WaitsOk
  <2>5. QED
    BY <2>1, <2>4 DEF TypeOK
<1>2. QED
  BY <1>1, EventInvariant, PTL

(* Each q <= repeat (n) @(e) v is carried out at its n-th event, the       *)
(* pointer last ends every list, and the assert() of dec_and_run fails     *)
(* only when an event control causes the event it is run from.             *)
THEOREM CountsAreExact == Spec => []CountsExact
<1>1. IInv => CountsExact
  <2> SUFFICES ASSUME IInv PROVE CountsExact
    OBVIOUS
  <2>1. TypeOK /\ (aborted => cyclic)
    BY DEF IInv
  <2>2. ASSUME Settled
        PROVE  /\ \A e \in Functors : \A i \in DOMAIN event_ctls[e] :
                    event_ctls[e][i].ecount = event_ctls[e][i].n - event_ctls[e][i].seen
                    /\ event_ctls[e][i].ecount > 0
               /\ \A x \in fired : x.seen >= x.n
               /\ \A e \in Functors : last[e] = Len(event_ctls[e])
    <3>1. stack = << >> /\ CtlsOk
      BY <2>2 DEF IInv, Settled, Idle, Good
    <3>2. \A e : ~ Walking(Calls, e, Static) /\ Coming(e, Static) = {} /\ ~ Firing(Calls, e)
      BY <3>1, IdleView
    <3>3. ASSUME NEW e \in Functors, NEW i \in DOMAIN event_ctls[e]
          PROVE  event_ctls[e][i].ecount = event_ctls[e][i].n - event_ctls[e][i].seen
                 /\ event_ctls[e][i].ecount > 0
      <4>1. PICK x : x = event_ctls[e][i]
        OBVIOUS
      <4>2. CtlOk(e, i)
        BY <3>1, <3>3 DEF CtlsOk, ListOk
      <4>3. x.n \in Nat /\ x.seen \in Nat
        <5>1. x \in evctl
          BY <2>1, <3>3, <4>1, CtlType
        <5>2. QED
          BY <5>1 DEF evctl
      <4>4. Cardinality(Coming(e, Static)) = 0
        BY <3>2, FS_EmptySet
      <4>5. x.ecount > 0 /\ x.ecount = x.n - x.seen + 0 + 0
        BY <3>2, <4>1, <4>2, <4>4 DEF CtlOk
      <4>6. QED
        BY <4>1, <4>3, <4>5
    <3>4. QED
      BY <3>1, <3>2, <3>3 DEF CtlsOk, ListOk
  <2>3. QED
    BY <2>1, <2>2 DEF CountsExact
<1>2. QED
  BY <1>1, EventInvariant, PTL
-----------------------------------------------------------------------------
(* The action properties. *)

Woken(t) == Waits(t) /\ ~ Waits(t)'

LEMMA WokenNext ==
  ASSUME IInv, Next, NEW t \in Threads, Woken(t), ~ cyclic'
  PROVE  hits[t] > 0
<1>0. PICK e \in Functors, c \in Contexts \cup {Static} : t \in threads[e][c]
  BY DEF Woken, Waits
<1>1. \A z \in Functors, d \in Contexts \cup {Static} : t \notin threads'[z][d]
  BY DEF Woken, Waits
<1>2. TypeOK
  BY DEF IInv
<1>3. CASE wake_threads
  <2>1. PICK z, k : z = Top.at /\ k = Top.ctx
    OBVIOUS
  <2>2. /\ stack # << >> /\ Top.op = "walk" /\ threads' = [threads EXCEPT ![z][k] = {}]
        /\ UNCHANGED cyclic
    BY <1>3, <2>1 DEF wake_threads, Running
  <2>3. FramesOk /\ WaitsOk
    BY <2>2 DEF IInv, Good
  <2>4. FrameOk(Top) /\ Calls = {Top} \cup Under /\ Top \in Frame
    BY <2>2, <2>3, TopFacts
  <2>5. z \in Functors /\ k \in Contexts \cup {Static}
    BY <2>1, <2>2, <2>4 DEF FrameOk, Frame
  <2>6. e = z /\ c = k
    BY <1>0, <1>1, <1>2, <2>2, <2>5 DEF TypeOK
  <2>7. Walking(Calls, e, c)
    BY <2>1, <2>2, <2>4, <2>6 DEF Walking
  <2>8. QED
    BY <1>0, <2>3, <2>7 DEF WaitsOk
<1>4. ASSUME NEW u \in Threads, NEW z \in Functors, add_waiting_thread(u, z) PROVE FALSE
  <2>1. PICK k : k = IF z \in Automatic THEN ctx[u] ELSE Static
    OBVIOUS
  <2>2. threads' = [threads EXCEPT ![z][k] = @ \cup {u}]
    BY <1>4, <2>1 DEF add_waiting_thread
  <2>3. k \in Contexts \cup {Static}
    BY <1>2, <2>1 DEF TypeOK
  <2>4. threads[e][c] \subseteq threads'[e][c]
    BY <1>2, <2>2, <2>3 DEF TypeOK
  <2>5. QED
    BY <1>0, <1>1, <2>4
<1>5. ASSUME NEW u \in Threads, NEW k \in Contexts, alloc_context(u, k) PROVE FALSE
  <2>1. /\ Runs(u) /\ k \notin live
        /\ threads' = [x \in Functors |-> [threads[x] EXCEPT ![k] = {}]]
    BY <1>5 DEF alloc_context
  <2>2. WaitsOk
    BY <2>1, RunsFacts
  <2>3. c # k
    <3>1. c \in Places(e)
      BY <1>0, <2>2 DEF WaitsOk
    <3>2. QED
      BY <2>1, <3>1, EventAssumption DEF Places
  <2>4. threads'[e][c] = threads[e][c]
    BY <1>2, <2>1, <2>3 DEF TypeOK
  <2>5. QED
    BY <1>0, <1>1, <2>4
<1>6. CASE UNCHANGED threads
  BY <1>0, <1>1, <1>6
<1>7. CASE Propagation
  BY <1>3, <1>6, <1>7 DEF Propagation, Return, recv_vec4_sa, recv_vec4_aa, recv_vec4_or,
     recv_context, recv_static, dec_and_run, delete_evctl
<1>8. ASSUME NEW u \in Threads, Instruction(u) PROVE hits[t] > 0
  BY <1>4, <1>5, <1>6, <1>8 DEF Instruction, free_context
<1>9. QED
  BY <1>6, <1>7, <1>8 DEF Next, assign, trigger, schedule_evctl

(* A thread leaves the list of waiting threads only for an event that it   *)
(* waits for: neither the reset of another context's list nor a walk that  *)
(* an event control of another event starts wakes it.                      *)
THEOREM WokenOnlyByEvents == Spec => WokenByEvent
<1>1. IInv /\ [Next]_vars =>
        [\A t \in Threads : ~ cyclic' /\ Waits(t) /\ ~ Waits(t)' => hits[t] > 0]_vars
  BY WokenNext DEF Woken
<1>2. QED
  BY <1>1, EventInvariant, PTL DEF Spec, WokenByEvent

(* The object at i of the list of e is still in it, or has fired. *)
Kept(e, i) ==
  LET id == event_ctls[e][i].id
  IN  \/ \E j \in DOMAIN event_ctls'[e] : event_ctls'[e][j].id = id
      \/ \E x \in fired : x.id = id

SameIds ==
  \A z \in Functors :
    /\ DOMAIN event_ctls'[z] = DOMAIN event_ctls[z]
    /\ \A i \in DOMAIN event_ctls[z] : event_ctls'[z][i].id = event_ctls[z][i].id

AllKept == \A e \in Functors : \A i \in DOMAIN event_ctls[e] : Kept(e, i)

LEMMA SameIdsKept ==
  ASSUME SameIds
  PROVE  AllKept
  BY DEF SameIds, AllKept, Kept

LEMMA SameCtlsKept ==
  ASSUME UNCHANGED event_ctls
  PROVE  AllKept
  BY DEF AllKept, Kept

LEMMA HappensIds ==
  ASSUME TypeOK, NEW es \in SUBSET Functors, NEW ctls \in [Functors -> Seq(evctl)],
         Happens(es, ctls),
         \A z \in Functors :
           /\ DOMAIN ctls[z] = DOMAIN event_ctls[z]
           /\ \A i \in DOMAIN event_ctls[z] : ctls[z][i].id = event_ctls[z][i].id
  PROVE  SameIds
<1>1. hits \in [Threads -> Nat]
  BY DEF TypeOK
<1>2. \A z \in Functors :
        /\ DOMAIN event_ctls'[z] = DOMAIN ctls[z]
        /\ \A i \in DOMAIN ctls[z] :
             MoreSeen(ctls[z][i], event_ctls'[z][i], Cardinality(Walks(es, z)))
  BY <1>1, HappensFacts
<1>3. QED
  BY <1>2 DEF SameIds, MoreSeen

LEMMA SendIds ==
  ASSUME TypeOK, NEW s, NEW v, NEW rest, NEW ctls, ctls \in [Functors -> Seq(evctl)],
         Send(s, v, rest, ctls),
         \A z \in Functors :
           /\ DOMAIN ctls[z] = DOMAIN event_ctls[z]
           /\ \A i \in DOMAIN event_ctls[z] : ctls[z][i].id = event_ctls[z][i].id
  PROVE  SameIds
<1>1. CASE value[s] = v
  BY <1>1 DEF Send, SameIds
<1>2. CASE value[s] # v
  <2>1. PICK es : es = Hit(s, v)
    OBVIOUS
  <2>2. es \in SUBSET Functors /\ Happens(es, ctls)
    BY <1>2, <2>1 DEF Send, Hit, Watchers
  <2>3. QED
    BY <2>2, HappensIds
<1>3. QED
  BY <1>1, <1>2

LEMMA dec_and_runKeeps ==
  ASSUME IInv, dec_and_run
  PROVE  AllKept
<1>1. PICK e, k, cur : e = Top.at /\ k = last[e] + 1 /\ cur = event_ctls[e][k]
  OBVIOUS
<1>2. Running("walk") /\ last[e] < Len(event_ctls[e]) /\ TypeOK
  BY <1>1, DecCases DEF IInv
<1>3. Fails(cur) \/ Dec(e, k) \/ Fires(e, k, cur)
  BY <1>1, DecCases
<1>4. e \in Functors /\ k \in DOMAIN event_ctls[e]
  BY <1>1, <1>2, NextCtl
<1>5. CASE Dec(e, k)
  <2>1. PICK n : n = event_ctls[e][k].ecount - 1
    OBVIOUS
  <2>2. n \in Nat
    <3>1. event_ctls[e][k].ecount \in Nat
      BY <1>2, <1>4, CtlType
    <3>2. QED
      BY <1>5, <2>1, <3>1 DEF Dec
  <2>3. PICK ctls : ctls = event_ctls' /\ ctls = [event_ctls EXCEPT ![e][k].ecount = n]
    BY <1>5, <2>1 DEF Dec
  <2>4. CountSet(ctls, e, k, n)
    BY <1>2, <1>4, <2>2, <2>3, SetCount
  <2>5. ctls = event_ctls'
    BY <2>3
  <2>6. SameIds
    BY <2>4, <2>5 DEF CountSet, SameIds
  <2>7. QED
    BY <2>6, SameIdsKept
<1>6. CASE Fires(e, k, cur)
  <2>1. PICK ctls : ctls = [event_ctls EXCEPT ![e][k].ecount = 0]
    OBVIOUS
  <2>2. CountSet(ctls, e, k, 0)
    BY <1>2, <1>4, <2>1, SetCount
  <2>3. PICK rest : Send(cur.to, cur.val, rest, ctls)
    BY <1>6, <2>1 DEF Fires, FireSend
  <2>4. /\ ctls \in [Functors -> Seq(evctl)]
        /\ \A z \in Functors :
             /\ DOMAIN ctls[z] = DOMAIN event_ctls[z]
             /\ \A i \in DOMAIN event_ctls[z] : ctls[z][i].id = event_ctls[z][i].id
    BY <2>2 DEF CountSet
  <2>5. SameIds
    BY <1>2, <2>3, <2>4, SendIds
  <2>6. QED
    BY <2>5, SameIdsKept
<1>7. CASE Fails(cur)
  BY <1>7, SameCtlsKept DEF Fails
<1>8. QED
  BY <1>3, <1>5, <1>6, <1>7

LEMMA delete_evctlKeeps ==
  ASSUME IInv, delete_evctl, ~ cyclic'
  PROVE  AllKept
<1>0. PICK e, s, l : e = Top.at /\ s = event_ctls[e] /\ l = last[e]
  OBVIOUS
<1>1. PICK r : r = RemoveAt(s, l + 1)
  OBVIOUS
<1>2. /\ stack # << >> /\ Top.op = "walk" /\ Top.fired /\ UNCHANGED cyclic
      /\ event_ctls' = [event_ctls EXCEPT ![e] = r]
  BY <1>0, <1>1 DEF delete_evctl, Running
<1>3. TypeOK /\ FramesOk /\ CtlsOk
  BY <1>2 DEF IInv, Good
<1>4. FrameOk(Top) /\ Calls = {Top} \cup Under
  BY <1>2, <1>3, TopFacts
<1>5. e \in Functors /\ Firing(Calls, e)
  BY <1>0, <1>2, <1>4 DEF FrameOk, Firing
<1>6. /\ s \in Seq(evctl) /\ Len(s) \in Nat /\ l \in Nat /\ DOMAIN s = 1..Len(s)
      /\ l < Len(s)
  <2>1. ListOk(e)
    BY <1>3, <1>5 DEF CtlsOk
  <2>2. last[e] < Len(event_ctls[e])
    BY <1>5, <2>1 DEF ListOk
  <2>3. /\ event_ctls[e] \in Seq(evctl) /\ Len(event_ctls[e]) \in Nat /\ last[e] \in Nat
        /\ DOMAIN event_ctls[e] = 1..Len(event_ctls[e])
    BY <1>3, <1>5, CtlType
  <2>4. QED
    BY <1>0, <2>2, <2>3
<1>7. /\ r \in Seq(evctl) /\ Len(r) = Len(s) - 1
      /\ \A i \in 1..(Len(s) - 1) : r[i] = IF i <= l THEN s[i] ELSE s[i + 1]
  <2>1. s \in Seq(evctl) /\ l \in Nat /\ l <= Len(s)
    BY <1>6
  <2>2. Shorter(RemoveAt(s, l + 1), s, l, evctl)
    BY <2>1, Removed
  <2>3. Shorter(r, s, l, evctl)
    BY <1>1, <2>2
  <2>4. QED
    BY <1>6, <2>3 DEF Shorter
<1>8. /\ event_ctls'[e] = r
      /\ \A z \in Functors : z # e => event_ctls'[z] = event_ctls[z]
  BY <1>2, <1>3, <1>5 DEF TypeOK
<1>9. DOMAIN r = 1..(Len(s) - 1)
  BY <1>7
<1>10. ASSUME NEW i \in DOMAIN s PROVE Kept(e, i)
  <2>1. i \in Nat /\ i > 0 /\ i <= Len(s)
    BY <1>6, <1>10
  <2>2. CASE i = l + 1
    <3>1. CtlOk(e, i)
      BY <1>0, <1>3, <1>5, <1>10 DEF CtlsOk, ListOk
    <3>2. QED
      BY <1>0, <1>5, <2>2, <3>1 DEF CtlOk, Kept
  <2>3. CASE i <= l
    <3>1. i \in DOMAIN r /\ r[i] = s[i]
      BY <1>6, <1>7, <1>9, <2>1, <2>3
    <3>2. QED
      BY <1>0, <1>8, <3>1 DEF Kept
  <2>4. CASE i > l + 1
    <3>1. PICK j : j = i - 1
      OBVIOUS
    <3>2. j \in 1..(Len(s) - 1) /\ ~ (j <= l) /\ j + 1 = i
      BY <1>6, <2>1, <2>4, <3>1
    <3>3. j \in DOMAIN r /\ r[j] = s[i]
      BY <1>7, <1>9, <3>2
    <3>4. QED
      BY <1>0, <1>8, <3>3 DEF Kept
  <2>5. QED
    BY <1>6, <2>1, <2>2, <2>3, <2>4
<1>11. ASSUME NEW z \in Functors, z # e, NEW i \in DOMAIN event_ctls[z] PROVE Kept(z, i)
  BY <1>8, <1>11 DEF Kept
<1>12. QED
  BY <1>0, <1>10, <1>11 DEF AllKept

LEMMA schedule_evctlKeeps ==
  ASSUME IInv, NEW x \in Ctls, schedule_evctl(x)
  PROVE  AllKept
<1>1. PICK e, y, s : e = x.on /\ y = NewCtl(x) /\ s = event_ctls[e]
  OBVIOUS
<1>2. PICK t \in Threads : Runs(t)
  BY DEF schedule_evctl, SomeRuns
<1>3. TypeOK /\ CtlsOk /\ stack = << >>
  BY <1>2, RunsFacts
<1>4. e \in Functors /\ x.n \in Nat /\ x.to \in Signals /\ x.val \in Bits
  BY <1>1, EventAssumption
<1>5. s \in Seq(evctl) /\ Len(s) \in Nat /\ DOMAIN s = 1..Len(s)
  BY <1>1, <1>3, <1>4, CtlType
<1>6. last[e] = Len(s)
  <2>1. ~ Walking(Calls, e, Static)
    BY <1>3, IdleView
  <2>2. QED
    BY <1>1, <1>3, <1>4, <2>1 DEF CtlsOk, ListOk
<1>7. PICK r : r = SubSeq(s, 1, Len(s)) \o <<y>>
  OBVIOUS
<1>8. event_ctls' = [event_ctls EXCEPT ![e] = r]
  BY <1>1, <1>6, <1>7 DEF schedule_evctl
<1>9. Extends(r, s, y)
  <2>1. ops \in Nat
    BY <1>3, EventAssumption DEF TypeOK
  <2>2. y \in evctl
    BY <1>1, <1>4, <2>1 DEF NewCtl, evctl
  <2>3. Extends(SubSeq(s, 1, Len(s)) \o <<y>>, s, y)
    BY <1>5, <2>2, AddCtl
  <2>4. QED
    BY <1>7, <2>3
<1>10. event_ctls'[e] = r /\ \A z \in Functors : z # e => event_ctls'[z] = event_ctls[z]
  BY <1>3, <1>4, <1>8 DEF TypeOK
<1>11. ASSUME NEW i \in DOMAIN s PROVE i \in DOMAIN r /\ r[i] = s[i]
  <2>1. r \in Seq(evctl) /\ Len(r) = Len(s) + 1 /\ \A j \in 1..Len(s) : r[j] = s[j]
    BY <1>9 DEF Extends
  <2>2. DOMAIN r = 1..(Len(s) + 1)
    BY <2>1
  <2>3. QED
    BY <1>5, <1>11, <2>1, <2>2
<1>12. ASSUME NEW z \in Functors, NEW i \in DOMAIN event_ctls[z] PROVE Kept(z, i)
  <2>1. CASE z = e
    BY <1>1, <1>10, <1>11, <1>12, <2>1 DEF Kept
  <2>2. CASE z # e
    BY <1>10, <1>12, <2>2 DEF Kept
  <2>3. QED
    BY <2>1, <2>2
<1>13. QED
  BY <1>12 DEF AllKept

LEMMA KeptNext ==
  ASSUME IInv, Next, ~ cyclic'
  PROVE  AllKept
<1>0. TypeOK /\ event_ctls \in [Functors -> Seq(evctl)]
  BY DEF IInv, TypeOK
<1>1. CASE UNCHANGED event_ctls
  BY <1>1, SameCtlsKept
<1>2. CASE Propagation
  BY <1>1, <1>2, dec_and_runKeeps, delete_evctlKeeps
     DEF Propagation, Return, recv_vec4_sa, recv_vec4_aa, recv_vec4_or, recv_context,
         recv_static, wake_threads
<1>3. ASSUME NEW t \in Threads, Instruction(t) PROVE AllKept
  BY <1>1, <1>3 DEF Instruction, add_waiting_thread, alloc_context, free_context
<1>4. ASSUME NEW s \in Signals, NEW v \in Bits, assign(s, v) PROVE AllKept
  <2>1. Send(s, v, << >>, event_ctls)
    BY <1>4 DEF assign
  <2>2. SameIds
    BY <1>0, <2>1, SendIds
  <2>3. QED
    BY <2>2, SameIdsKept
<1>5. ASSUME NEW e \in Functors, trigger(e) PROVE AllKept
  <2>1. Happens({e}, event_ctls) /\ {e} \in SUBSET Functors
    BY <1>5 DEF trigger
  <2>2. SameIds
    BY <1>0, <2>1, HappensIds
  <2>3. QED
    BY <2>2, SameIdsKept
<1>6. ASSUME NEW x \in Ctls, schedule_evctl(x) PROVE AllKept
  BY <1>6, schedule_evctlKeeps
<1>7. QED
  BY <1>2, <1>3, <1>4, <1>5, <1>6 DEF Next

(* No non-blocking assignment with event control is lost: schedule_evctl   *)
(* appends at the pointer last, which then is at the end of the list, and  *)
(* run_waiting_threads_ deletes only the object whose value it assigned.   *)
THEOREM NoneIsLost == Spec => NoneLost
<1>1. IInv /\ [Next]_vars =>
        [\A e \in Functors : \A i \in DOMAIN event_ctls[e] :
           ~ cyclic' =>
             LET id == event_ctls[e][i].id
             IN  \/ \E j \in DOMAIN event_ctls'[e] : event_ctls'[e][j].id = id
                 \/ \E x \in fired : x.id = id]_vars
  BY KeptNext DEF AllKept, Kept
<1>2. QED
  BY <1>1, EventInvariant, PTL DEF Spec, NoneLost
=============================================================================
