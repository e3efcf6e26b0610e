--------------------------- MODULE ContextsProofs ---------------------------
(***************************************************************************)
(* Proofs about Contexts, for any number of threads, scopes and contexts,  *)
(* and calls nested to any depth: which context a thread reads and writes, *)
(* that calls do not share contexts, and that their arguments are kept.    *)
(***************************************************************************)
EXTENDS Contexts, SequenceTheorems, TLAPS

-----------------------------------------------------------------------------
(* Facts about sequences. *)

LEMMA HeadTail ==
  ASSUME NEW S, NEW s \in Seq(S), s # << >>
  PROVE  /\ Head(s) \in S /\ Tail(s) \in Seq(S) /\ Head(s) = s[1]
         /\ Len(s) \in Nat \ {0} /\ Len(Tail(s)) = Len(s) - 1
         /\ \A k \in 1..(Len(s) - 1) : Tail(s)[k] = s[k + 1]
  OBVIOUS

LEMMA PutInFront ==
  ASSUME NEW S, NEW s \in Seq(S), NEW x \in S
  PROVE  /\ <<x>> \o s \in Seq(S) /\ <<x>> \o s # << >>
         /\ Len(<<x>> \o s) = Len(s) + 1 /\ Len(s) \in Nat
         /\ (<<x>> \o s)[1] = x
         /\ \A k \in 2..(Len(s) + 1) : (<<x>> \o s)[k] = s[k - 1]
         /\ Head(<<x>> \o s) = x /\ Tail(<<x>> \o s) = s
  OBVIOUS

(* Lists without repetition. *)
LEMMA RangeFront ==
  ASSUME NEW S, NEW s \in Seq(S), NEW x \in S
  PROVE  /\ Range(<<x>> \o s) = {x} \cup Range(s)
         /\ IsInjective(s) /\ x \notin Range(s) => IsInjective(<<x>> \o s)
<1> DEFINE r == <<x>> \o s
<1>1. /\ r \in Seq(S) /\ Len(r) = Len(s) + 1 /\ Len(s) \in Nat /\ r[1] = x
      /\ \A k \in 2..(Len(s) + 1) : r[k] = s[k - 1]
  BY PutInFront
<1>2. DOMAIN r = 1..(Len(s) + 1) /\ DOMAIN s = 1..Len(s)
  BY <1>1
<1> HIDE DEF r
<1>3. ASSUME NEW k \in DOMAIN r PROVE r[k] \in {x} \cup Range(s)
  <2>1. CASE k = 1
    BY <1>1, <2>1
  <2>2. CASE k # 1
    <3>1. k \in 2..(Len(s) + 1) /\ k - 1 \in DOMAIN s
      BY <1>1, <1>2, <2>2
    <3>2. QED
      BY <1>1, <3>1 DEF Range
  <2>3. QED
    BY <2>1, <2>2
<1>4. ASSUME NEW k \in DOMAIN s PROVE s[k] \in Range(r)
  <2>1. k + 1 \in DOMAIN r /\ r[k + 1] = s[k]
    BY <1>1, <1>2
  <2>2. QED
    BY <2>1 DEF Range
<1>5. x \in Range(r)
  BY <1>1, <1>2 DEF Range
<1>6. Range(r) = {x} \cup Range(s)
  BY <1>3, <1>4, <1>5 DEF Range
<1>7. ASSUME IsInjective(s), x \notin Range(s), NEW j \in DOMAIN r, NEW k \in DOMAIN r, r[j] = r[k]
      PROVE  j = k
  <2>1. \A m \in DOMAIN r : m # 1 => m - 1 \in DOMAIN s /\ r[m] = s[m - 1] /\ m \in Int
    BY <1>1, <1>2
  <2>2. \A m \in DOMAIN s : s[m] # x
    BY <1>7 DEF Range
  <2>3. CASE j = 1 \/ k = 1
    BY <1>1, <1>7, <2>1, <2>2, <2>3
  <2>4. CASE j # 1 /\ k # 1
    <3>1. j - 1 = k - 1
      BY <1>7, <2>1, <2>4 DEF IsInjective
    <3>2. QED
      BY <2>1, <2>4, <3>1
  <2>5. QED
    BY <2>3, <2>4
<1>8. QED
  BY <1>6, <1>7 DEF IsInjective, r

LEMMA RangeTail ==
  ASSUME NEW S, NEW s \in Seq(S), s # << >>
  PROVE  /\ Head(s) \in Range(s) /\ Range(Tail(s)) \subseteq Range(s)
         /\ IsInjective(s) => IsInjective(Tail(s)) /\ Head(s) \notin Range(Tail(s))
<1> DEFINE r == Tail(s)
<1>1. /\ r \in Seq(S) /\ Head(s) = s[1] /\ Len(s) \in Nat \ {0} /\ Len(r) = Len(s) - 1
      /\ \A k \in 1..(Len(s) - 1) : r[k] = s[k + 1]
  BY HeadTail
<1>2. DOMAIN r = 1..(Len(s) - 1) /\ DOMAIN s = 1..Len(s)
  BY <1>1
<1> HIDE DEF r
<1>3. \A k \in DOMAIN r : k + 1 \in DOMAIN s /\ r[k] = s[k + 1] /\ k \in Int /\ k + 1 # 1
  BY <1>1, <1>2
<1>4. 1 \in DOMAIN s
  BY <1>1, <1>2
<1>5. Head(s) \in Range(s) /\ Range(r) \subseteq Range(s)
  BY <1>1, <1>3, <1>4 DEF Range
<1>6. ASSUME IsInjective(s) PROVE IsInjective(r) /\ Head(s) \notin Range(r)
  <2>1. ASSUME NEW j \in DOMAIN r, NEW k \in DOMAIN r, r[j] = r[k] PROVE j = k
    <3>1. j + 1 = k + 1
      BY <1>3, <1>6, <2>1 DEF IsInjective
    <3>2. QED
      BY <1>3, <3>1
  <2>2. ASSUME NEW k \in DOMAIN r PROVE r[k] # Head(s)
    BY <1>1, <1>3, <1>4, <1>6 DEF IsInjective
  <2>3. QED
    BY <2>1, <2>2 DEF IsInjective, Range
<1>7. QED
  BY <1>5, <1>6 DEF r

LEMMA RangeRemoved ==
  ASSUME NEW S, NEW s \in Seq(S), NEW m \in 1..Len(s), IsInjective(s)
  PROVE  /\ RemoveAt(s, m) \in Seq(S) /\ IsInjective(RemoveAt(s, m))
         /\ Range(RemoveAt(s, m)) = Range(s) \ {s[m]}
<1> DEFINE r == RemoveAt(s, m)
<1>1. /\ r \in Seq(S) /\ Len(r) = Len(s) - 1 /\ Len(s) \in Nat \ {0}
      /\ \A k \in 1..(Len(s) - 1) : r[k] = IF k < m THEN s[k] ELSE s[k + 1]
  <2>1. Len(s) \in Nat \ {0} /\ m \in Nat
    OBVIOUS
  <2>2. PICK a : a = SubSeq(s, 1, m - 1)
    OBVIOUS
  <2>3. a \in Seq(S) /\ Len(a) = m - 1 /\ \A k \in 1..(m - 1) : a[k] = s[k]
    BY <2>1, <2>2
  <2>4. PICK b : b = SubSeq(s, m + 1, Len(s))
    OBVIOUS
  <2>5. b \in Seq(S) /\ Len(b) = Len(s) - m /\ \A k \in 1..(Len(s) - m) : b[k] = s[m + k]
    BY <2>1, <2>4
  <2>6. r = a \o b
    BY <2>2, <2>4 DEF RemoveAt
  <2>7. r \in Seq(S) /\ Len(r) = Len(s) - 1
    BY <2>1, <2>3, <2>5, <2>6
  <2>8. ASSUME NEW k \in 1..(Len(s) - 1), k < m PROVE r[k] = s[k]
    BY <2>1, <2>3, <2>5, <2>6, <2>8
  <2>9. ASSUME NEW k \in 1..(Len(s) - 1), ~ k < m PROVE r[k] = s[k + 1]
    <3>1. r[k] = b[k - (m - 1)] /\ k - (m - 1) \in 1..(Len(s) - m)
      BY <2>1, <2>3, <2>5, <2>6, <2>9
    <3>2. m + (k - (m - 1)) = k + 1
      BY <2>1
    <3>3. QED
      BY <2>5, <3>1, <3>2
  <2>10. QED
    BY <2>1, <2>7, <2>8, <2>9
<1> HIDE DEF r
<1>2. DOMAIN r = 1..(Len(s) - 1) /\ DOMAIN s = 1..Len(s)
  BY <1>1
<1>3. ASSUME NEW j \in DOMAIN r, NEW k \in DOMAIN r, r[j] = r[k] PROVE j = k
  <2>1. PICK a \in DOMAIN s : a = IF j < m THEN j ELSE j + 1
    BY <1>1, <1>2
  <2>2. PICK b \in DOMAIN s : b = IF k < m THEN k ELSE k + 1
    BY <1>1, <1>2
  <2>3. s[a] = s[b]
    BY <1>1, <1>2, <1>3, <2>1, <2>2
  <2>4. a = b
    BY <2>3 DEF IsInjective
  <2>5. QED
    BY <1>1, <1>2, <2>1, <2>2, <2>4
<1>4. ASSUME NEW k \in DOMAIN r PROVE r[k] \in Range(s) \ {s[m]}
  <2>1. PICK b \in DOMAIN s : b = IF k < m THEN k ELSE k + 1
    BY <1>1, <1>2
  <2>2. r[k] = s[b] /\ b # m /\ m \in DOMAIN s
    BY <1>1, <1>2, <2>1
  <2>3. s[b] # s[m]
    BY <2>2 DEF IsInjective
  <2>4. QED
    BY <2>2, <2>3 DEF Range
<1>5. ASSUME NEW b \in DOMAIN s, s[b] # s[m] PROVE s[b] \in Range(r)
  <2>1. PICK k \in DOMAIN r : r[k] = s[b]
    <3>1. CASE b < m
      BY <1>1, <1>2, <3>1
    <3>2. CASE ~ b < m
      <4>1. b - 1 \in DOMAIN r /\ ~ b - 1 < m /\ b - 1 + 1 = b
        BY <1>1, <1>2, <1>5, <3>2
      <4>2. QED
        BY <1>1, <1>2, <4>1
    <3>3. QED
      BY <3>1, <3>2
  <2>2. QED
    BY <2>1 DEF Range
<1>6. QED
  BY <1>1, <1>3, <1>4, <1>5 DEF IsInjective, Range, r

(* The innermost call goes on to the place a: only at of its record        *)
(* changes.                                                                *)
LEMMA MovedOn ==
  ASSUME NEW cs \in Seq(CallRecord), cs # << >>, NEW a \in {"args", "ready", "body", "outputs"},
         NEW ds, ds = [cs EXCEPT ![1].at = a]
  PROVE  /\ ds \in Seq(CallRecord) /\ ds # << >> /\ DOMAIN ds = DOMAIN cs
         /\ 1 \in DOMAIN cs /\ ds[1].at = a
         /\ \A k \in DOMAIN cs : k # 1 => ds[k] = cs[k]
         /\ \A k \in DOMAIN cs : /\ ds[k].ctx = cs[k].ctx /\ ds[k].no = cs[k].no
                                  /\ ds[k].scope = cs[k].scope /\ ds[k].kind = cs[k].kind
<1>1. 1 \in DOMAIN cs /\ cs[1] \in CallRecord /\ DOMAIN cs = 1..Len(cs) /\ Len(cs) \in Nat \ {0}
  OBVIOUS
<1>2. PICK r : r = [cs[1] EXCEPT !.at = a]
  OBVIOUS
<1>3. /\ r \in CallRecord /\ r.at = a /\ r.ctx = cs[1].ctx /\ r.no = cs[1].no
      /\ r.scope = cs[1].scope /\ r.kind = cs[1].kind
  BY <1>1, <1>2 DEF CallRecord
<1>4. ds = [cs EXCEPT ![1] = r]
  BY <1>2
<1>5. /\ ds \in Seq(CallRecord) /\ ds # << >> /\ DOMAIN ds = DOMAIN cs /\ ds[1] = r
      /\ \A k \in DOMAIN cs : k # 1 => ds[k] = cs[k]
  BY <1>1, <1>3, <1>4
<1>6. QED
  BY <1>1, <1>3, <1>5

-----------------------------------------------------------------------------
(* FirstAt: which context a stack leads to. *)

LEMMA FirstNone ==
  ASSUME NEW cs, DOMAIN cs = {}, NEW m, NEW ats, NEW other, NEW x
  PROVE  FirstAt(cs, m, ats, other, x) <=> x = other
  BY DEF FirstAt

LEMMA FirstHere ==
  ASSUME NEW cs \in Seq(CallRecord), cs # << >>, NEW ats, NEW other, NEW x, cs[1].at \in ats
  PROVE  FirstAt(cs, 0, ats, other, x) <=> x = cs[1].ctx
<1>1. DOMAIN cs = 1..Len(cs) /\ 1 \in DOMAIN cs /\ Len(cs) \in Nat
  OBVIOUS
<1>2. QED
  BY <1>1 DEF FirstAt

LEMMA FirstSkip ==
  ASSUME NEW cs \in Seq(CallRecord), cs # << >>, NEW ats, NEW other, NEW x, cs[1].at \notin ats
  PROVE  FirstAt(cs, 0, ats, other, x) <=> FirstAt(cs, 1, ats, other, x)
<1>1. DOMAIN cs = 1..Len(cs) /\ 1 \in DOMAIN cs /\ Len(cs) \in Nat
  OBVIOUS
<1>2. \A k \in DOMAIN cs : k # 1 => (k > 0 <=> k > 1) /\ (0 < k <=> 1 < k)
  BY <1>1
<1>3. QED
  BY <1>1, <1>2 DEF FirstAt

(* Beyond the first m calls only places and contexts matter. *)
LEMMA FirstSame ==
  ASSUME NEW cs, NEW ds, NEW m, NEW ats, NEW other, NEW x, DOMAIN ds = DOMAIN cs,
         \A k \in DOMAIN cs : k > m => ds[k].at = cs[k].at /\ ds[k].ctx = cs[k].ctx,
         \A k \in DOMAIN cs : k > m <=> m < k,
         FirstAt(cs, m, ats, other, x)
  PROVE  FirstAt(ds, m, ats, other, x)
  BY DEF FirstAt

(* One more call in front, and one less. *)
LEMMA FirstPut ==
  ASSUME NEW cs \in Seq(CallRecord), NEW r \in CallRecord, NEW m \in Nat, NEW ats, NEW other, NEW x
  PROVE  FirstAt(<<r>> \o cs, m + 1, ats, other, x) <=> FirstAt(cs, m, ats, other, x)
<1> DEFINE ds == <<r>> \o cs
<1>1. /\ ds \in Seq(CallRecord) /\ Len(ds) = Len(cs) + 1 /\ Len(cs) \in Nat
      /\ \A k \in 2..(Len(cs) + 1) : ds[k] = cs[k - 1]
  BY PutInFront
<1> HIDE DEF ds
<1>2. DOMAIN ds = 1..(Len(cs) + 1) /\ DOMAIN cs = 1..Len(cs)
  BY <1>1
<1>3. \A k \in DOMAIN ds : k > m + 1 => k - 1 \in DOMAIN cs /\ k - 1 > m /\ ds[k] = cs[k - 1]
  BY <1>1, <1>2
<1>4. \A k \in DOMAIN cs : k > m => k + 1 \in DOMAIN ds /\ k + 1 > m + 1 /\ ds[k + 1] = cs[k]
  BY <1>1, <1>2
<1>5. ASSUME FirstAt(ds, m + 1, ats, other, x) PROVE FirstAt(cs, m, ats, other, x)
  <2>1. CASE x = other /\ \A k \in DOMAIN ds : k > m + 1 => ds[k].at \notin ats
    BY <1>4, <2>1 DEF FirstAt
  <2>2. ASSUME NEW k \in DOMAIN ds, k > m + 1, ds[k].at \in ats, x = ds[k].ctx,
               \A j \in DOMAIN ds : m + 1 < j /\ j < k => ds[j].at \notin ats
        PROVE  FirstAt(cs, m, ats, other, x)
    <3>1. k - 1 \in DOMAIN cs /\ k - 1 > m /\ cs[k - 1].at \in ats /\ x = cs[k - 1].ctx
      BY <1>3, <2>2
    <3>2. ASSUME NEW j \in DOMAIN cs, m < j, j < k - 1 PROVE cs[j].at \notin ats
      <4>1. j + 1 \in DOMAIN ds /\ m + 1 < j + 1 /\ j + 1 < k /\ ds[j + 1] = cs[j]
        BY <1>2, <1>4, <2>2, <3>2
      <4>2. QED
        BY <2>2, <4>1
    <3>3. QED
      BY <3>1, <3>2 DEF FirstAt
  <2>3. QED
    BY <1>5, <2>1, <2>2 DEF FirstAt
<1>6. ASSUME FirstAt(cs, m, ats, other, x) PROVE FirstAt(ds, m + 1, ats, other, x)
  <2>1. CASE x = other /\ \A k \in DOMAIN cs : k > m => cs[k].at \notin ats
    BY <1>3, <2>1 DEF FirstAt
  <2>2. ASSUME NEW k \in DOMAIN cs, k > m, cs[k].at \in ats, x = cs[k].ctx,
               \A j \in DOMAIN cs : m < j /\ j < k => cs[j].at \notin ats
        PROVE  FirstAt(ds, m + 1, ats, other, x)
    <3>1. k + 1 \in DOMAIN ds /\ k + 1 > m + 1 /\ ds[k + 1].at \in ats /\ x = ds[k + 1].ctx
      BY <1>4, <2>2
    <3>2. ASSUME NEW j \in DOMAIN ds, m + 1 < j, j < k + 1 PROVE ds[j].at \notin ats
      <4>1. j - 1 \in DOMAIN cs /\ m < j - 1 /\ j - 1 < k /\ ds[j] = cs[j - 1]
        BY <1>1, <1>2, <2>2, <3>2
      <4>2. QED
        BY <2>2, <4>1
    <3>3. QED
      BY <3>1, <3>2 DEF FirstAt
  <2>3. QED
    BY <1>6, <2>1, <2>2 DEF FirstAt
<1>7. QED
  BY <1>5, <1>6 DEF ds

LEMMA FirstTail ==
  ASSUME NEW cs \in Seq(CallRecord), cs # << >>, NEW m \in Nat, NEW ats, NEW other, NEW x
  PROVE  FirstAt(cs, m + 1, ats, other, x) <=> FirstAt(Tail(cs), m, ats, other, x)
<1>1. PICK ds \in Seq(CallRecord), r \in CallRecord : ds = Tail(cs) /\ cs = <<r>> \o ds
  <2>1. Tail(cs) \in Seq(CallRecord) /\ cs[1] \in CallRecord /\ cs = <<cs[1]>> \o Tail(cs)
    OBVIOUS
  <2>2. QED
    BY <2>1
<1>2. FirstAt(<<r>> \o ds, m + 1, ats, other, x) <=> FirstAt(ds, m, ats, other, x)
  BY FirstPut
<1>3. QED
  BY <1>1, <1>2

(* A stack leads to a call's context or ends in the other one. *)
LEMMA FirstValue ==
  ASSUME NEW cs, NEW m, NEW ats, NEW other, NEW x, FirstAt(cs, m, ats, other, x)
  PROVE  x = other \/ \E k \in DOMAIN cs : k > m /\ cs[k].at \in ats /\ x = cs[k].ctx
  BY DEF FirstAt

-----------------------------------------------------------------------------
(* The tree of threads. *)

LEMMA BelowLeast ==
  ASSUME NEW c \in Threads, NEW S \in SUBSET Threads, Children(c) \subseteq S, Closed(S)
  PROVE  Below(c) \subseteq S
  BY DEF Below

BelowIsClosed ==
  \A c \in Threads :
    Below(c) \subseteq Threads /\ Children(c) \subseteq Below(c) /\ Closed(Below(c))

LEMMA BelowClosed == BelowIsClosed
<1> SUFFICES ASSUME NEW c \in Threads
             PROVE  /\ Below(c) \subseteq Threads /\ Children(c) \subseteq Below(c)
                    /\ Closed(Below(c))
  BY DEF BelowIsClosed
<1>1. Below(c) \subseteq Threads
  BY DEF Below
<1>2. \A x \in Threads : Children(x) \subseteq Threads
  BY DEF Children
<1>3. Children(c) \subseteq Below(c)
  BY <1>2 DEF Below
<1>4. ASSUME NEW x \in Below(c), NEW y \in Children(x) PROVE y \in Below(c)
  <2>1. ASSUME NEW S \in SUBSET Threads, Children(c) \subseteq S, Closed(S) PROVE y \in S
    <3>1. x \in S
      BY <2>1, BelowLeast
    <3>2. QED
      BY <2>1, <3>1 DEF Closed
  <2>2. y \in Threads
    BY <1>1, <1>2
  <2>3. QED
    BY <2>1, <2>2 DEF Below
<1>5. QED
  BY <1>1, <1>3, <1>4 DEF Closed

LEMMA BelowInside ==
  ASSUME NEW c \in Threads, NEW e \in Below(c) \cup {c}
  PROVE  e \in Threads /\ Children(e) \subseteq Below(c) /\ Below(e) \subseteq Below(c)
<1>1. Below(c) \subseteq Threads /\ Children(c) \subseteq Below(c) /\ Closed(Below(c))
  BY BelowClosed DEF BelowIsClosed
<1>2. e \in Threads /\ Children(e) \subseteq Below(c)
  BY <1>1 DEF Closed
<1>3. QED
  BY <1>1, <1>2, BelowLeast

LEMMA BelowHasParent ==
  ASSUME NEW c \in Threads, NEW y \in Below(c)
  PROVE  \E x \in Below(c) \cup {c} : y \in Children(x)
<1> SUFFICES ASSUME \A x \in Below(c) \cup {c} : y \notin Children(x)
             PROVE  FALSE
  OBVIOUS
<1>1. PICK S : S = Below(c) \ {y}
  OBVIOUS
<1>2. S \in SUBSET Threads /\ Children(c) \subseteq S
  BY <1>1, BelowInside
<1>3. Closed(S)
  BY <1>1, BelowInside DEF Closed
<1>4. Below(c) \subseteq S
  BY <1>2, <1>3, BelowLeast
<1>5. QED
  BY <1>1, <1>4

LEMMA Childless ==
  ASSUME NEW c \in Threads, Children(c) = {}
  PROVE  Below(c) = {}
  BY BelowLeast DEF Closed

LEMMA AboveNotBelow ==
  ASSUME NEW c \in Threads, \E rank \in [Threads -> Nat] : Ordered(rank)
  PROVE  c \notin Below(c) /\ \A t \in Threads : c \in Children(t) => t \notin Below(c) \cup {c}
<1>1. PICK rank \in [Threads -> Nat] : Ordered(rank)
  OBVIOUS
<1>2. PICK S : S = {x \in Threads : rank[c] < rank[x]}
  OBVIOUS
<1>3. S \in SUBSET Threads /\ Children(c) \subseteq S
  BY <1>1, <1>2 DEF Ordered, Children
<1>4. Closed(S)
  <2> SUFFICES ASSUME NEW x \in S, NEW y \in Children(x) PROVE y \in S
    BY DEF Closed
  <2>1. x \in Threads /\ y \in Threads /\ rank[c] < rank[x]
    BY <1>2 DEF Children
  <2>2. rank[x] < rank[y] /\ rank[x] \in Nat /\ rank[y] \in Nat /\ rank[c] \in Nat
    BY <1>1, <2>1 DEF Ordered
  <2>3. QED
    BY <1>2, <2>1, <2>2
<1>5. Below(c) \subseteq S
  BY <1>3, <1>4, BelowLeast
<1>6. ASSUME NEW t \in Threads, c \in Children(t) PROVE t \notin Below(c) \cup {c}
  <2>1. rank[t] < rank[c] /\ rank[t] \in Nat /\ rank[c] \in Nat
    BY <1>1, <1>6 DEF Ordered
  <2>2. QED
    BY <1>2, <1>5, <2>1
<1>7. c \notin S
  BY <1>1, <1>2
<1>8. QED
  BY <1>5, <1>6, <1>7

LEMMA BelowGrows ==
  ASSUME NEW c \in Threads, \A x \in Threads : Children(x) \subseteq Children(x)'
  PROVE  Below(c) \subseteq Below(c)'
<1> SUFFICES ASSUME NEW y \in Below(c) PROVE y \in Below(c)'
  OBVIOUS
<1>1. ASSUME NEW S \in SUBSET Threads, Children(c)' \subseteq S, Closed(S)' PROVE y \in S
  <2>1. Children(c) \subseteq S /\ Closed(S)
    BY <1>1 DEF Closed
  <2>2. QED
    BY <2>1, BelowLeast
<1>2. y \in Threads
  BY DEF Below
<1>3. QED
  BY <1>1, <1>2 DEF Below

LEMMA BelowShrinks ==
  ASSUME NEW c \in Threads, NEW D \in SUBSET Threads, Closed(D),
         \A x \in Threads : Children(x) \subseteq Children(x)' \cup D
  PROVE  Below(c) \subseteq Below(c)' \cup D
<1>1. BelowIsClosed'
  BY BelowClosed, PTL
<1>2. Below(c)' \subseteq Threads /\ Children(c)' \subseteq Below(c)' /\ Closed(Below(c))'
  BY <1>1 DEF BelowIsClosed
<1>3. PICK S : S = Below(c)' \cup D
  OBVIOUS
<1>4. S \in SUBSET Threads /\ Children(c) \subseteq S
  BY <1>2, <1>3
<1>5. \A x \in Below(c)' : Children(x)' \subseteq Below(c)'
  BY <1>2 DEF Closed
<1>6. Closed(S)
  BY <1>2, <1>3, <1>5 DEF Closed
<1>7. QED
  BY <1>3, <1>4, <1>6, BelowLeast

(* What a fork does to the tree. *)
LEMMA ForkTree ==
  ASSUME TypeOK, TreeOk, \E rank \in [Threads -> Nat] : Ordered(rank),
         NEW t \in Threads, NEW N \in SUBSET Threads, Children(t) = {}, Alive(t),
         \A x \in N : status[x] = "unused" /\ parent'[x] = t /\ status'[x] = "running",
         \A x \in Threads \ N : /\ parent'[x] = parent[x]
                                /\ status'[x] = "reaped" <=> status[x] = "reaped"
  PROVE  /\ Children(t)' = N /\ t \notin N
         /\ \A u \in Threads : u # t => Children(u)' = Children(u)
         /\ \A x \in N : Children(x) = {} /\ parent[x] = Null /\ calls[x] = << >> /\ todo[x] = 0
                         /\ x \notin Roots
         /\ \A u \in Threads : Below(u) \subseteq Below(u)'
         /\ (\E rank \in [Threads -> Nat] : Ordered(rank))'
<1>1. t \notin N /\ \A x \in N : ~ Alive(x)
  BY DEF Alive
<1>2. \A x \in N : Children(x) = {} /\ parent[x] = Null /\ calls[x] = << >> /\ todo[x] = 0
                   /\ x \notin Roots
  BY <1>1 DEF TreeOk, KidsOk
<1>3. \A u \in Threads : \A x \in Children(u) : x \notin N
  BY <1>2, ContextAssumption DEF Children
<1>4. Children(t)' = N
  <2>1. ASSUME NEW x \in Threads \ N PROVE x \notin Children(t)'
    BY DEF Children
  <2>2. ASSUME NEW x \in N PROVE x \in Children(t)'
    BY DEF Children
  <2>3. QED
    BY <2>1, <2>2 DEF Children
<1>5. ASSUME NEW u \in Threads, u # t PROVE Children(u)' = Children(u)
  <2>1. ASSUME NEW x \in Threads \ N PROVE x \in Children(u)' <=> x \in Children(u)
    BY DEF Children
  <2>2. ASSUME NEW x \in N PROVE x \notin Children(u)' /\ x \notin Children(u)
    BY <1>3, <1>5 DEF Children
  <2>3. QED
    BY <2>1, <2>2 DEF Children
<1>6. ASSUME NEW u \in Threads PROVE Below(u) \subseteq Below(u)'
  BY <1>4, <1>5, BelowGrows
<1>7. (\E rank \in [Threads -> Nat] : Ordered(rank))'
  <2>1. PICK rank \in [Threads -> Nat] : Ordered(rank)
    OBVIOUS
  <2>2. PICK R \in [Threads -> Nat] :
          \A x \in Threads : R[x] = IF x \in N THEN rank[t] + 1 ELSE rank[x]
    <3>1. [x \in Threads |-> IF x \in N THEN rank[t] + 1 ELSE rank[x]] \in [Threads -> Nat]
      BY <2>1
    <3>2. QED
      BY <3>1
  <2>3. ASSUME NEW u \in Threads, NEW x \in Children(u)' PROVE R[u] < R[x]
    <3>1. CASE u = t
      BY <1>1, <1>4, <2>2, <3>1
    <3>2. CASE u # t
      <4>1. x \in Children(u) /\ x \in Threads
        BY <1>5, <2>3, <3>2 DEF Children
      <4>2. x \notin N /\ u \notin N
        BY <1>2, <1>3, <4>1
      <4>3. rank[u] < rank[x]
        BY <2>1, <4>1 DEF Ordered
      <4>4. QED
        BY <2>2, <4>1, <4>2, <4>3
    <3>3. QED
      BY <3>1, <3>2
  <2>4. Ordered(R)'
    BY <2>3 DEF Ordered
  <2>5. QED
    BY <2>4
<1>8. QED
  BY <1>1, <1>2, <1>4, <1>5, <1>6, <1>7

-----------------------------------------------------------------------------
(* Contexts and calls. *)

ScopesOk == \A s \in Scopes : Disjoint(s) /\ Open(s) = Range(live_contexts[s]) \ abandoned

LEMMA CallFacts ==
  ASSUME TypeOK, NEW t \in Threads
  PROVE  /\ calls[t] \in Seq(CallRecord) /\ DOMAIN calls[t] = 1..Len(calls[t])
         /\ Len(calls[t]) \in Nat
         /\ \A k \in DOMAIN calls[t] :
              /\ k \in Nat \ {0} /\ calls[t][k] \in CallRecord
              /\ calls[t][k].ctx \in Contexts /\ calls[t][k].ctx # Null
              /\ calls[t][k].scope \in Scopes /\ calls[t][k].no \in 1..MaxCalls
         /\ calls[t] # << >> <=> 1 \in DOMAIN calls[t]
<1>1. calls[t] \in Seq(CallRecord)
  BY DEF TypeOK
<1>2. /\ DOMAIN calls[t] = 1..Len(calls[t]) /\ Len(calls[t]) \in Nat
      /\ \A k \in DOMAIN calls[t] : k \in Nat \ {0} /\ calls[t][k] \in CallRecord
      /\ calls[t] # << >> <=> 1 \in DOMAIN calls[t]
  BY <1>1
<1>3. QED
  BY <1>1, <1>2, ContextAssumption DEF CallRecord

(* The context of an open call is live. *)
LEMMA OpenIsLive ==
  ASSUME TypeOK, ScopesOk, NEW t \in Threads, Alive(t), NEW k \in DOMAIN calls[t]
  PROVE  /\ calls[t][k].ctx \in Open(calls[t][k].scope)
         /\ calls[t][k].ctx \in Range(live_contexts[calls[t][k].scope])
         /\ calls[t][k].ctx \notin abandoned
<1>1. calls[t][k].ctx \in Contexts /\ calls[t][k].scope \in Scopes
  BY CallFacts
<1>2. calls[t][k].ctx \in Open(calls[t][k].scope)
  BY <1>1 DEF Open
<1>3. QED
  BY <1>1, <1>2 DEF ScopesOk

LEMMA TakenIsLive ==
  ASSUME TypeOK, ScopesOk, ListsOk, NEW t \in Threads, NEW x \in Taken(t)
  PROVE  \E s \in Scopes : x \in Range(live_contexts[s])
<1>1. CASE Alive(t)
  <2>1. PICK k \in DOMAIN calls[t] : x = calls[t][k].ctx
    BY DEF Taken
  <2>2. calls[t][k].scope \in Scopes
    BY CallFacts
  <2>3. QED
    BY <1>1, <2>1, <2>2, OpenIsLive
<1>2. CASE ~ Alive(t)
  BY <1>2 DEF ListsOk
<1>3. QED
  BY <1>1, <1>2

LEMMA Fresh ==
  ASSUME TypeOK, ScopesOk, ListsOk, OwnsOk, NEW c \in Contexts,
         \A s \in Scopes : c \notin Range(live_contexts[s])
  PROVE  /\ c \notin abandoned
         /\ \A t \in Threads : c \notin Taken(t)
         /\ \A t \in Threads : \A k \in DOMAIN calls[t] : calls[t][k].ctx # c
         /\ \A t \in Threads : Alive(t) => Own(t) # c
<1>1. c \notin abandoned
  BY DEF ListsOk
<1>2. \A t \in Threads : c \notin Taken(t)
  BY TakenIsLive
<1>3. \A t \in Threads : \A k \in DOMAIN calls[t] : calls[t][k].ctx # c
  BY <1>2 DEF Taken
<1>4. ASSUME NEW t \in Threads, Alive(t), Own(t) = c PROVE FALSE
  <2>1. Own(t) # Null
    BY <1>4, ContextAssumption
  <2>2. PICK q \in Threads : InBody(q) /\ Top(q).ctx = Own(t)
    BY <1>4, <2>1 DEF OwnsOk
  <2>3. 1 \in DOMAIN calls[q]
    BY <2>2, CallFacts DEF InBody
  <2>4. QED
    BY <1>3, <1>4, <2>2, <2>3 DEF Top
<1>5. QED
  BY <1>1, <1>2, <1>3, <1>4

(* The lists of a scope when it gives out a context. *)
LEMMA AllocLists ==
  ASSUME TypeOK, ScopesOk, ListsOk, NEW s \in Scopes, NEW c \in Contexts,
         vthread_alloc_context(s, c)
  PROVE  /\ live_contexts' \in [Scopes -> Seq(Contexts)]
         /\ free_contexts' \in [Scopes -> Seq(Contexts)]
         /\ \A r \in Scopes : c \notin Range(live_contexts[r])
         /\ \A r \in Scopes : r # s => c \notin Memory(r)
         /\ Range(live_contexts'[s]) = Range(live_contexts[s]) \cup {c}
         /\ Range(free_contexts'[s]) \subseteq Range(free_contexts[s])
         /\ \A r \in Scopes : r # s => /\ live_contexts'[r] = live_contexts[r]
                                       /\ free_contexts'[r] = free_contexts[r]
         /\ \A r \in Scopes : Disjoint(r)'
<1> DEFINE L == live_contexts[s]
           F == free_contexts[s]
<1>1. L \in Seq(Contexts) /\ F \in Seq(Contexts)
  BY DEF TypeOK
<1>2. IsInjective(L) /\ IsInjective(F) /\ Range(L) \cap Range(F) = {}
  BY DEF ScopesOk, Disjoint
<1>3. \A r \in Scopes : r # s => Memory(r) \cap Memory(s) = {}
  BY DEF ListsOk
<1>4. live_contexts' = [live_contexts EXCEPT ![s] = <<c>> \o L]
  BY DEF vthread_alloc_context
<1>5. \E G \in Seq(Contexts) :
        /\ \A r \in Scopes : r # s => c \notin Memory(r)
        /\ c \notin Range(L) /\ c \notin Range(G) /\ IsInjective(G) /\ Range(G) \subseteq Range(F)
        /\ free_contexts' = [free_contexts EXCEPT ![s] = G]
  <2>1. CASE F # << >>
    <3>1. c = Head(F) /\ free_contexts' = [free_contexts EXCEPT ![s] = Tail(F)]
      BY <2>1 DEF vthread_alloc_context
    <3>2. Tail(F) \in Seq(Contexts)
      BY <1>1, <2>1, HeadTail
    <3>3. /\ c \in Range(F) /\ c \notin Range(Tail(F)) /\ IsInjective(Tail(F))
          /\ Range(Tail(F)) \subseteq Range(F)
      BY <1>1, <1>2, <2>1, <3>1, RangeTail
    <3>4. c \notin Range(L) /\ \A r \in Scopes : r # s => c \notin Memory(r)
      BY <1>2, <1>3, <3>3 DEF Memory
    <3>5. QED
      BY <3>1, <3>2, <3>3, <3>4
  <2>2. CASE F = << >>
    <3>1. (\A r \in Scopes : c \notin Memory(r)) /\ free_contexts' = free_contexts
      BY <2>2 DEF vthread_alloc_context
    <3>2. free_contexts' = [free_contexts EXCEPT ![s] = F]
      BY <3>1 DEF TypeOK
    <3>3. QED
      BY <1>1, <1>2, <3>1, <3>2 DEF Memory
  <2>3. QED
    BY <2>1, <2>2
<1>6. PICK G \in Seq(Contexts) :
        /\ \A r \in Scopes : r # s => c \notin Memory(r)
        /\ c \notin Range(L) /\ c \notin Range(G) /\ IsInjective(G) /\ Range(G) \subseteq Range(F)
        /\ free_contexts' = [free_contexts EXCEPT ![s] = G]
  BY <1>5
<1>7. PICK M \in Seq(Contexts) :
        /\ M = <<c>> \o L /\ Range(M) = {c} \cup Range(L) /\ IsInjective(M)
  <2>1. <<c>> \o L \in Seq(Contexts)
    BY <1>1, PutInFront
  <2>2. Range(<<c>> \o L) = {c} \cup Range(L) /\ IsInjective(<<c>> \o L)
    BY <1>1, <1>2, <1>6, RangeFront
  <2>3. QED
    BY <2>1, <2>2
<1>8. live_contexts' = [live_contexts EXCEPT ![s] = M]
  BY <1>4, <1>7
<1>9. /\ live_contexts'[s] = M /\ free_contexts'[s] = G
      /\ \A r \in Scopes : r # s => /\ live_contexts'[r] = live_contexts[r]
                                    /\ free_contexts'[r] = free_contexts[r]
      /\ live_contexts' \in [Scopes -> Seq(Contexts)]
      /\ free_contexts' \in [Scopes -> Seq(Contexts)]
  BY <1>6, <1>8 DEF TypeOK
<1>10. ASSUME NEW r \in Scopes PROVE Disjoint(r)'
  <2>1. CASE r = s
    BY <1>2, <1>6, <1>7, <1>9, <2>1 DEF Disjoint
  <2>2. CASE r # s
    BY <1>9, <2>2 DEF ScopesOk, Disjoint
  <2>3. QED
    BY <2>1, <2>2
<1>11. QED
  BY <1>6, <1>7, <1>9, <1>10 DEF Memory

(* A call is opened: of_ALLOC and do_exec_ufunc. *)
LEMMA PushKeeps ==
  ASSUME TypeOK, Unshared, ScopesOk, ListsOk, OwnsOk, ArgumentsKept,
         NEW t \in Threads, Alive(t), Alive(t)', NEW s \in Scopes, NEW c \in Contexts,
         NEW r \in CallRecord, r.ctx = c, r.scope = s, vthread_alloc_context(s, c),
         calls' = [calls EXCEPT ![t] = <<r>> \o @],
         NEW v, port' = [port EXCEPT ![c] = v], r.at = "args" \/ v = r.no,
         abandoned' = abandoned,
         \A u \in Threads : Alive(u) => Alive(u)',
         \A u \in Threads : Alive(u)' => Alive(u) \/ calls[u] = << >>
  PROVE  Unshared' /\ ScopesOk' /\ ListsOk' /\ ArgumentsKept'
<1>1. /\ \A x \in Scopes : c \notin Range(live_contexts[x])
      /\ \A x \in Scopes : x # s => c \notin Memory(x)
      /\ Range(live_contexts'[s]) = Range(live_contexts[s]) \cup {c}
      /\ Range(free_contexts'[s]) \subseteq Range(free_contexts[s])
      /\ \A x \in Scopes : x # s => /\ live_contexts'[x] = live_contexts[x]
                                    /\ free_contexts'[x] = free_contexts[x]
      /\ \A x \in Scopes : Disjoint(x)'
  BY AllocLists
<1>2. /\ c \notin abandoned /\ \A u \in Threads : c \notin Taken(u)
      /\ \A u \in Threads : \A k \in DOMAIN calls[u] : calls[u][k].ctx # c
  BY <1>1, Fresh
<1>3. /\ calls[t] \in Seq(CallRecord) /\ DOMAIN calls[t] = 1..Len(calls[t])
      /\ Len(calls[t]) \in Nat
  BY CallFacts
<1>4. /\ calls'[t] = <<r>> \o calls[t]
      /\ \A u \in Threads : u # t => calls'[u] = calls[u]
  BY DEF TypeOK
<1>5. /\ calls'[t] \in Seq(CallRecord) /\ DOMAIN calls'[t] = 1..(Len(calls[t]) + 1)
      /\ calls'[t][1] = r
      /\ \A k \in 2..(Len(calls[t]) + 1) : calls'[t][k] = calls[t][k - 1]
  <2>1. PICK ds : ds = <<r>> \o calls[t]
    OBVIOUS
  <2>2. /\ ds \in Seq(CallRecord) /\ Len(ds) = Len(calls[t]) + 1 /\ ds[1] = r
        /\ \A k \in 2..(Len(calls[t]) + 1) : ds[k] = calls[t][k - 1]
    BY <1>3, <2>1, PutInFront
  <2>3. QED
    BY <1>4, <2>1, <2>2
(* The calls that are open afterwards: the new one and the old ones. *)
<1>6. ASSUME NEW u \in Threads, NEW k \in DOMAIN calls'[u], ~ (u = t /\ k = 1)
      PROVE  \E j \in DOMAIN calls[u] :
               calls'[u][k] = calls[u][j] /\ j = (IF u = t THEN k - 1 ELSE k)
  <2>1. CASE u = t
    <3>1. k - 1 \in DOMAIN calls[u] /\ k \in 2..(Len(calls[t]) + 1)
      BY <1>3, <1>5, <1>6, <2>1
    <3>2. QED
      BY <1>5, <2>1, <3>1
  <2>2. CASE u # t
    BY <1>4, <2>2
  <2>3. QED
    BY <2>1, <2>2
<1>7. ASSUME NEW u \in Threads, NEW j \in DOMAIN calls[u]
      PROVE  \E k \in DOMAIN calls'[u] : calls'[u][k] = calls[u][j]
  <2>1. CASE u = t
    <3>1. j + 1 \in DOMAIN calls'[u] /\ j + 1 \in 2..(Len(calls[t]) + 1) /\ j + 1 - 1 = j
      BY <1>3, <1>5, <2>1
    <3>2. QED
      BY <1>5, <2>1, <3>1
  <2>2. CASE u # t
    BY <1>4, <2>2
  <2>3. QED
    BY <2>1, <2>2
<1>8. ASSUME NEW u \in Threads, Alive(u)', NEW j \in DOMAIN calls[u] PROVE Alive(u)
  BY <1>8, CallFacts
<1>9. Unshared'
  <2> SUFFICES ASSUME NEW u \in Threads, NEW w \in Threads, Alive(u)', Alive(w)',
                      NEW j \in DOMAIN calls'[u], NEW k \in DOMAIN calls'[w],
                      calls'[u][j].ctx = calls'[w][k].ctx
               PROVE  u = w /\ j = k
    BY DEF Unshared
  <2>1. CASE (u = t /\ j = 1) \/ (w = t /\ k = 1)
    <3>1. (u = t /\ j = 1) /\ (w = t /\ k = 1)
      BY <1>2, <1>5, <1>6, <2>1
    <3>2. QED
      BY <3>1
  <2>2. CASE ~ (u = t /\ j = 1) /\ ~ (w = t /\ k = 1)
    <3>1. PICK a \in DOMAIN calls[u] : calls'[u][j] = calls[u][a] /\ a = (IF u = t THEN j - 1 ELSE j)
      BY <1>6, <2>2
    <3>2. PICK b \in DOMAIN calls[w] : calls'[w][k] = calls[w][b] /\ b = (IF w = t THEN k - 1 ELSE k)
      BY <1>6, <2>2
    <3>3. u = w /\ a = b
      BY <1>8, <3>1, <3>2 DEF Unshared
    <3>4. j \in Int /\ k \in Int
      BY <1>3, <1>4, <1>5, CallFacts
    <3>5. QED
      BY <3>1, <3>2, <3>3, <3>4
  <2>3. QED
    BY <2>1, <2>2
<1>10. ScopesOk'
  <2> SUFFICES ASSUME NEW x \in Scopes
               PROVE  Open(x)' = Range(live_contexts'[x]) \ abandoned
    BY <1>1 DEF ScopesOk
  <2>1. Open(x) = Range(live_contexts[x]) \ abandoned
    BY DEF ScopesOk
  <2>2. ASSUME NEW y \in Open(x)' PROVE y \in Open(x) \/ (y = c /\ x = s)
    <3>1. PICK u \in Threads : Alive(u)' /\
            \E k \in DOMAIN calls'[u] : calls'[u][k].ctx = y /\ calls'[u][k].scope = x
      BY <2>2 DEF Open
    <3>2. PICK k \in DOMAIN calls'[u] : calls'[u][k].ctx = y /\ calls'[u][k].scope = x
      BY <3>1
    <3>3. CASE u = t /\ k = 1
      BY <1>5, <3>2, <3>3
    <3>4. CASE ~ (u = t /\ k = 1)
      <4>1. PICK j \in DOMAIN calls[u] : calls'[u][k] = calls[u][j]
        BY <1>6, <3>4
      <4>2. Alive(u) /\ y \in Contexts
        BY <1>8, <2>2, <3>1, <4>1 DEF Open
      <4>3. QED
        BY <3>2, <4>1, <4>2 DEF Open
    <3>5. QED
      BY <3>3, <3>4
  <2>3. ASSUME NEW y \in Open(x) PROVE y \in Open(x)'
    <3>1. PICK u \in Threads : Alive(u) /\
            \E k \in DOMAIN calls[u] : calls[u][k].ctx = y /\ calls[u][k].scope = x
      BY <2>3 DEF Open
    <3>2. PICK j \in DOMAIN calls[u] : calls[u][j].ctx = y /\ calls[u][j].scope = x
      BY <3>1
    <3>3. PICK k \in DOMAIN calls'[u] : calls'[u][k] = calls[u][j]
      BY <1>7
    <3>4. Alive(u)' /\ y \in Contexts
      BY <2>3, <3>1 DEF Open
    <3>5. QED
      BY <3>2, <3>3, <3>4 DEF Open
  <2>4. c \in Open(s)'
    <3>1. 1 \in DOMAIN calls'[t]
      BY <1>3, <1>5
    <3>2. QED
      BY <1>5, <3>1 DEF Open
  <2>5. Open(x)' = IF x = s THEN Open(x) \cup {c} ELSE Open(x)
    BY <2>2, <2>3, <2>4
  <2>6. QED
    BY <1>1, <1>2, <2>1, <2>5
<1>11. ListsOk'
  <2>1. ASSUME NEW x \in Scopes, NEW y \in Scopes, x # y PROVE Memory(x)' \cap Memory(y)' = {}
    <3>1. Memory(x) \cap Memory(y) = {}
      BY <2>1 DEF ListsOk
    <3>2. Memory(s)' \subseteq Memory(s) \cup {c} /\ \A z \in Scopes : z # s => Memory(z)' = Memory(z)
      BY <1>1 DEF Memory
    <3>3. QED
      BY <1>1, <2>1, <3>1, <3>2
  <2>2. ASSUME NEW x \in abandoned' PROVE \E z \in Scopes : x \in Range(live_contexts'[z])
    <3>1. PICK z \in Scopes : x \in Range(live_contexts[z])
      BY <2>2 DEF ListsOk
    <3>2. QED
      BY <1>1, <3>1
  <2>3. ASSUME NEW u \in Threads, ~ Alive(u)' PROVE Taken(u)' \subseteq abandoned'
    <3>1. u # t /\ ~ Alive(u)
      BY <2>3
    <3>2. Taken(u)' = Taken(u)
      BY <1>4, <3>1 DEF Taken
    <3>3. QED
      BY <3>1, <3>2 DEF ListsOk
  <2>4. QED
    BY <2>1, <2>2, <2>3 DEF ListsOk
<1>12. ArgumentsKept'
  <2> SUFFICES ASSUME NEW u \in Threads, Alive(u)', NEW k \in DOMAIN calls'[u],
                      calls'[u][k].at \in {"ready", "body", "outputs"}
               PROVE  port'[calls'[u][k].ctx] = calls'[u][k].no
    BY DEF ArgumentsKept
  <2>1. port'[c] = v /\ \A x \in Contexts : x # c => port'[x] = port[x]
    BY DEF TypeOK
  <2>2. CASE u = t /\ k = 1
    BY <1>5, <2>1, <2>2
  <2>3. CASE ~ (u = t /\ k = 1)
    <3>1. PICK j \in DOMAIN calls[u] : calls'[u][k] = calls[u][j]
      BY <1>6, <2>3
    <3>2. Alive(u) /\ calls[u][j].ctx # c /\ calls[u][j].ctx \in Contexts
      BY <1>2, <1>8, CallFacts
    <3>3. port[calls[u][j].ctx] = calls[u][j].no
      BY <3>1, <3>2 DEF ArgumentsKept
    <3>4. QED
      BY <2>1, <3>1, <3>2, <3>3
  <2>4. QED
    BY <2>2, <2>3
<1>13. QED
  BY <1>9, <1>10, <1>11, <1>12

(* A call is closed: of_FREE and of_REAP_UFUNC. *)
LEMMA PopKeeps ==
  ASSUME TypeOK, Unshared, ScopesOk, ListsOk, ArgumentsKept,
         NEW t \in Threads, Alive(t), calls[t] # << >>,
         NEW c \in Contexts, c = Top(t).ctx, NEW s \in Scopes, s = Top(t).scope,
         vthread_free_context(c, s), calls' = [calls EXCEPT ![t] = Tail(@)],
         UNCHANGED <<port, status, abandoned>>
  PROVE  /\ Unshared' /\ ScopesOk' /\ ListsOk' /\ ArgumentsKept'
         /\ live_contexts' \in [Scopes -> Seq(Contexts)]
         /\ free_contexts' \in [Scopes -> Seq(Contexts)]
<1>1. /\ calls[t] \in Seq(CallRecord) /\ DOMAIN calls[t] = 1..Len(calls[t])
      /\ Len(calls[t]) \in Nat \ {0} /\ 1 \in DOMAIN calls[t]
  BY CallFacts
<1>2. /\ calls'[t] = Tail(calls[t])
      /\ \A u \in Threads : u # t => calls'[u] = calls[u]
      /\ \A u \in Threads : Alive(u)' <=> Alive(u)
  BY DEF TypeOK, Alive
<1>3. /\ DOMAIN calls'[t] = 1..(Len(calls[t]) - 1)
      /\ \A k \in 1..(Len(calls[t]) - 1) : calls'[t][k] = calls[t][k + 1]
  <2>1. PICK ds : ds = Tail(calls[t])
    OBVIOUS
  <2>2. /\ ds \in Seq(CallRecord) /\ Len(ds) = Len(calls[t]) - 1
        /\ \A k \in 1..(Len(calls[t]) - 1) : ds[k] = calls[t][k + 1]
    BY <1>1, <2>1, HeadTail
  <2>3. DOMAIN ds = 1..(Len(calls[t]) - 1)
    BY <1>1, <2>2
  <2>4. calls'[t] = ds
    BY <1>2, <2>1
  <2>5. QED
    BY <2>2, <2>3, <2>4
<1>4. ASSUME NEW u \in Threads, NEW k \in DOMAIN calls'[u]
      PROVE  \E j \in DOMAIN calls[u] : /\ calls'[u][k] = calls[u][j]
                                        /\ j = (IF u = t THEN k + 1 ELSE k)
                                        /\ ~ (u = t /\ j = 1)
  <2>1. CASE u = t
    <3>1. k + 1 \in DOMAIN calls[u] /\ k \in 1..(Len(calls[t]) - 1) /\ k + 1 # 1
      BY <1>1, <1>3, <2>1
    <3>2. QED
      BY <1>3, <2>1, <3>1
  <2>2. CASE u # t
    BY <1>2, <2>2
  <2>3. QED
    BY <2>1, <2>2
<1>5. ASSUME NEW u \in Threads, NEW j \in DOMAIN calls[u], ~ (u = t /\ j = 1)
      PROVE  \E k \in DOMAIN calls'[u] : calls'[u][k] = calls[u][j]
  <2>1. CASE u = t
    <3>1. j - 1 \in DOMAIN calls'[u] /\ j - 1 \in 1..(Len(calls[t]) - 1) /\ j - 1 + 1 = j
      BY <1>1, <1>3, <1>5, <2>1
    <3>2. QED
      BY <1>3, <2>1, <3>1
  <2>2. CASE u # t
    BY <1>2, <2>2
  <2>3. QED
    BY <2>1, <2>2
<1>6. ASSUME NEW u \in Threads, Alive(u), NEW j \in DOMAIN calls[u], calls[u][j].ctx = c
      PROVE  u = t /\ j = 1
  BY <1>1, <1>6 DEF Unshared, Top
(* The lists. *)
<1>7. c \in Open(s) /\ c \in Range(live_contexts[s]) /\ c \notin abandoned
  BY <1>1, OpenIsLive DEF Top
<1>8. /\ live_contexts[s] \in Seq(Contexts) /\ free_contexts[s] \in Seq(Contexts)
      /\ IsInjective(live_contexts[s]) /\ IsInjective(free_contexts[s])
      /\ Range(live_contexts[s]) \cap Range(free_contexts[s]) = {}
  BY DEF TypeOK, ScopesOk, Disjoint
<1>9. PICK m : m = CHOOSE i \in DOMAIN live_contexts[s] : live_contexts[s][i] = c
  OBVIOUS
<1>10. m \in 1..Len(live_contexts[s]) /\ live_contexts[s][m] = c
  <2>1. \E i \in DOMAIN live_contexts[s] : live_contexts[s][i] = c
    BY <1>7 DEF Range
  <2>2. DOMAIN live_contexts[s] = 1..Len(live_contexts[s])
    BY <1>8
  <2>3. QED
    BY <1>9, <2>1, <2>2
<1>11. PICK L \in Seq(Contexts) : /\ L = RemoveAt(live_contexts[s], m) /\ IsInjective(L)
                                  /\ Range(L) = Range(live_contexts[s]) \ {c}
  BY <1>8, <1>10, RangeRemoved
<1>12. PICK F \in Seq(Contexts) : /\ F = <<c>> \o free_contexts[s] /\ IsInjective(F)
                                  /\ Range(F) = {c} \cup Range(free_contexts[s])
  <2>1. c \notin Range(free_contexts[s])
    BY <1>7, <1>8
  <2>2. <<c>> \o free_contexts[s] \in Seq(Contexts)
    BY <1>8, PutInFront
  <2>3. QED
    BY <1>8, <2>1, <2>2, RangeFront
<1>13. /\ live_contexts' = [live_contexts EXCEPT ![s] = L]
       /\ free_contexts' = [free_contexts EXCEPT ![s] = F]
  BY <1>9, <1>11, <1>12 DEF vthread_free_context
<1>14. /\ live_contexts'[s] = L /\ free_contexts'[s] = F
       /\ \A x \in Scopes : x # s => /\ live_contexts'[x] = live_contexts[x]
                                     /\ free_contexts'[x] = free_contexts[x]
       /\ live_contexts' \in [Scopes -> Seq(Contexts)]
       /\ free_contexts' \in [Scopes -> Seq(Contexts)]
  BY <1>13 DEF TypeOK
<1>15. ASSUME NEW x \in Scopes PROVE Disjoint(x)' /\ Memory(x)' = Memory(x)
  <2>1. CASE x = s
    <3>1. Range(L) \cap Range(F) = {}
      BY <1>8, <1>11, <1>12
    <3>2. Range(L) \cup Range(F) = Range(live_contexts[s]) \cup Range(free_contexts[s])
      BY <1>7, <1>11, <1>12
    <3>3. Disjoint(x)'
      BY <1>11, <1>12, <1>14, <2>1, <3>1 DEF Disjoint
    <3>4. Memory(x)' = Memory(x)
      BY <1>14, <2>1, <3>2 DEF Memory
    <3>5. QED
      BY <3>3, <3>4
  <2>2. CASE x # s
    BY <1>14, <2>2 DEF ScopesOk, Disjoint, Memory
  <2>3. QED
    BY <2>1, <2>2
<1>16. Unshared'
  <2> SUFFICES ASSUME NEW u \in Threads, NEW w \in Threads, Alive(u)', Alive(w)',
                      NEW j \in DOMAIN calls'[u], NEW k \in DOMAIN calls'[w],
                      calls'[u][j].ctx = calls'[w][k].ctx
               PROVE  u = w /\ j = k
    BY DEF Unshared
  <2>1. PICK a \in DOMAIN calls[u] : calls'[u][j] = calls[u][a] /\ a = (IF u = t THEN j + 1 ELSE j)
    BY <1>4
  <2>2. PICK b \in DOMAIN calls[w] : calls'[w][k] = calls[w][b] /\ b = (IF w = t THEN k + 1 ELSE k)
    BY <1>4
  <2>3. u = w /\ a = b
    BY <1>2, <2>1, <2>2 DEF Unshared
  <2>4. j \in Int /\ k \in Int
    BY <1>1, <1>2, <1>3, CallFacts
  <2>5. QED
    BY <2>1, <2>2, <2>3, <2>4
<1>17. ScopesOk'
  <2> SUFFICES ASSUME NEW x \in Scopes
               PROVE  Open(x)' = Range(live_contexts'[x]) \ abandoned
    BY <1>15 DEF ScopesOk
  <2>1. Open(x) = Range(live_contexts[x]) \ abandoned
    BY DEF ScopesOk
  <2>2. ASSUME NEW y \in Open(x)' PROVE y \in Open(x) /\ y # c
    <3>1. PICK u \in Threads : Alive(u)' /\
            \E k \in DOMAIN calls'[u] : calls'[u][k].ctx = y /\ calls'[u][k].scope = x
      BY <2>2 DEF Open
    <3>2. PICK k \in DOMAIN calls'[u] : calls'[u][k].ctx = y /\ calls'[u][k].scope = x
      BY <3>1
    <3>3. PICK j \in DOMAIN calls[u] : calls'[u][k] = calls[u][j] /\ ~ (u = t /\ j = 1)
      BY <1>4
    <3>4. Alive(u) /\ y \in Contexts
      BY <1>2, <2>2, <3>1 DEF Open
    <3>5. QED
      BY <1>6, <3>2, <3>3, <3>4 DEF Open
  <2>3. ASSUME NEW y \in Open(x), y # c PROVE y \in Open(x)'
    <3>1. PICK u \in Threads : Alive(u) /\
            \E k \in DOMAIN calls[u] : calls[u][k].ctx = y /\ calls[u][k].scope = x
      BY <2>3 DEF Open
    <3>2. PICK j \in DOMAIN calls[u] : calls[u][j].ctx = y /\ calls[u][j].scope = x
      BY <3>1
    <3>3. ~ (u = t /\ j = 1)
      BY <2>3, <3>2 DEF Top
    <3>4. PICK k \in DOMAIN calls'[u] : calls'[u][k] = calls[u][j]
      BY <1>5, <3>3
    <3>5. Alive(u)' /\ y \in Contexts
      BY <1>2, <2>3, <3>1 DEF Open
    <3>6. QED
      BY <3>2, <3>4, <3>5 DEF Open
  <2>4. Open(x)' = Open(x) \ {c}
    BY <2>2, <2>3
  <2>5. x # s => c \notin Open(x)
    <3> SUFFICES ASSUME x # s, c \in Open(x) PROVE FALSE
      OBVIOUS
    <3>1. c \in Memory(x) /\ c \in Memory(s)
      BY <1>7, <2>1 DEF Memory
    <3>2. QED
      BY <3>1 DEF ListsOk
  <2>6. QED
    BY <1>11, <1>14, <2>1, <2>4, <2>5
<1>18. ListsOk'
  <2>1. ASSUME NEW x \in Scopes, NEW y \in Scopes, x # y PROVE Memory(x)' \cap Memory(y)' = {}
    BY <1>15, <2>1 DEF ListsOk
  <2>2. ASSUME NEW x \in abandoned' PROVE \E z \in Scopes : x \in Range(live_contexts'[z])
    <3>1. PICK z \in Scopes : x \in Range(live_contexts[z])
      BY <2>2 DEF ListsOk
    <3>2. x # c
      BY <1>7, <2>2
    <3>3. QED
      BY <1>11, <1>14, <3>1, <3>2
  <2>3. ASSUME NEW u \in Threads, ~ Alive(u)' PROVE Taken(u)' \subseteq abandoned'
    <3>1. u # t /\ ~ Alive(u)
      BY <1>2, <2>3
    <3>2. Taken(u)' = Taken(u)
      BY <1>2, <3>1 DEF Taken
    <3>3. QED
      BY <3>1, <3>2 DEF ListsOk
  <2>4. QED
    BY <2>1, <2>2, <2>3 DEF ListsOk
<1>19. ArgumentsKept'
  <2> SUFFICES ASSUME NEW u \in Threads, Alive(u)', NEW k \in DOMAIN calls'[u],
                      calls'[u][k].at \in {"ready", "body", "outputs"}
               PROVE  port'[calls'[u][k].ctx] = calls'[u][k].no
    BY DEF ArgumentsKept
  <2>1. PICK j \in DOMAIN calls[u] : calls'[u][k] = calls[u][j]
    BY <1>4
  <2>2. QED
    BY <1>2, <2>1 DEF ArgumentsKept
<1>20. QED
  BY <1>14, <1>16, <1>17, <1>18, <1>19

(* No call is opened or closed, but the threads D end. *)
LEMMA MoveKeeps ==
  ASSUME TypeOK, Unshared, ScopesOk, ListsOk, NEW D \in SUBSET Threads,
         \A u \in Threads : DOMAIN calls'[u] = DOMAIN calls[u],
         \A u \in Threads : \A k \in DOMAIN calls[u] :
           calls'[u][k].ctx = calls[u][k].ctx /\ calls'[u][k].scope = calls[u][k].scope,
         \A u \in Threads : Alive(u) /\ u \notin D => Alive(u)',
         \A u \in Threads : Alive(u)' => (Alive(u) \/ calls[u] = << >>) /\ u \notin D,
         abandoned' = abandoned \cup UNION {Taken(x) : x \in D},
         UNCHANGED <<live_contexts, free_contexts>>
  PROVE  Unshared' /\ ScopesOk' /\ ListsOk'
<1>1. ASSUME NEW u \in Threads, Alive(u)', NEW j \in DOMAIN calls'[u]
      PROVE  Alive(u) /\ u \notin D /\ j \in DOMAIN calls[u]
  BY <1>1, CallFacts
<1>2. Unshared'
  <2> SUFFICES ASSUME NEW u \in Threads, NEW w \in Threads, Alive(u)', Alive(w)',
                      NEW j \in DOMAIN calls'[u], NEW k \in DOMAIN calls'[w],
                      calls'[u][j].ctx = calls'[w][k].ctx
               PROVE  u = w /\ j = k
    BY DEF Unshared
  <2>1. Alive(u) /\ j \in DOMAIN calls[u] /\ Alive(w) /\ k \in DOMAIN calls[w]
    BY <1>1
  <2>2. calls[u][j].ctx = calls[w][k].ctx
    BY <2>1
  <2>3. QED
    BY <2>1, <2>2 DEF Unshared
<1>3. \A u \in Threads : Taken(u)' = Taken(u)
  BY DEF Taken
<1>4. ASSUME NEW x \in D PROVE Taken(x) \subseteq abandoned'
  OBVIOUS
<1>5. ScopesOk'
  <2> SUFFICES ASSUME NEW x \in Scopes
               PROVE  Open(x)' = Range(live_contexts[x]) \ abandoned'
    BY DEF ScopesOk, Disjoint
  <2>1. Open(x) = Range(live_contexts[x]) \ abandoned
    BY DEF ScopesOk
  <2>2. ASSUME NEW y \in Open(x)' PROVE y \in Open(x) /\ y \notin abandoned'
    <3>1. PICK u \in Threads : Alive(u)' /\
            \E k \in DOMAIN calls'[u] : calls'[u][k].ctx = y /\ calls'[u][k].scope = x
      BY <2>2 DEF Open
    <3>2. PICK k \in DOMAIN calls'[u] : calls'[u][k].ctx = y /\ calls'[u][k].scope = x
      BY <3>1
    <3>3. Alive(u) /\ u \notin D /\ k \in DOMAIN calls[u] /\ y \in Contexts
      BY <1>1, <2>2, <3>1 DEF Open
    <3>4. calls[u][k].ctx = y /\ calls[u][k].scope = x
      BY <3>2, <3>3
    <3>5. y \in Open(x) /\ y \notin abandoned
      BY <2>1, <3>3, <3>4 DEF Open
    <3>6. ASSUME NEW w \in D, y \in Taken(w) PROVE FALSE
      <4>1. PICK j \in DOMAIN calls[w] : calls[w][j].ctx = y
        BY <3>6 DEF Taken
      <4>2. CASE Alive(w)
        BY <3>3, <3>4, <4>1, <4>2 DEF Unshared
      <4>3. CASE ~ Alive(w)
        BY <3>5, <3>6, <4>3 DEF ListsOk
      <4>4. QED
        BY <4>2, <4>3
    <3>7. QED
      BY <3>5, <3>6
  <2>3. ASSUME NEW y \in Open(x), y \notin abandoned' PROVE y \in Open(x)'
    <3>1. PICK u \in Threads : Alive(u) /\
            \E k \in DOMAIN calls[u] : calls[u][k].ctx = y /\ calls[u][k].scope = x
      BY <2>3 DEF Open
    <3>2. PICK k \in DOMAIN calls[u] : calls[u][k].ctx = y /\ calls[u][k].scope = x
      BY <3>1
    <3>3. y \in Taken(u)
      BY <3>2 DEF Taken
    <3>4. u \notin D
      BY <1>4, <2>3, <3>3
    <3>5. Alive(u)' /\ y \in Contexts /\ k \in DOMAIN calls'[u]
      BY <2>3, <3>1, <3>4 DEF Open
    <3>6. QED
      BY <3>2, <3>5 DEF Open
  <2>4. QED
    BY <2>1, <2>2, <2>3
<1>6. ListsOk'
  <2>1. ASSUME NEW x \in Scopes, NEW y \in Scopes, x # y PROVE Memory(x)' \cap Memory(y)' = {}
    BY <2>1 DEF ListsOk, Memory
  <2>2. ASSUME NEW x \in abandoned' PROVE \E z \in Scopes : x \in Range(live_contexts'[z])
    <3>1. CASE x \in abandoned
      BY <3>1 DEF ListsOk
    <3>2. CASE x \notin abandoned
      <4>1. PICK w \in D : x \in Taken(w)
        BY <2>2, <3>2
      <4>2. QED
        BY <4>1, TakenIsLive
    <3>3. QED
      BY <3>1, <3>2
  <2>3. ASSUME NEW u \in Threads, ~ Alive(u)' PROVE Taken(u)' \subseteq abandoned'
    <3>1. CASE u \in D
      BY <1>3, <1>4, <3>1
    <3>2. CASE u \notin D
      <4>1. ~ Alive(u)
        BY <2>3, <3>2
      <4>2. QED
        BY <1>3, <4>1 DEF ListsOk
    <3>3. QED
      BY <3>1, <3>2
  <2>4. QED
    BY <2>1, <2>2, <2>3 DEF ListsOk
<1>7. QED
  BY <1>2, <1>5, <1>6

-----------------------------------------------------------------------------
(* What a thread is not concerned with. *)

LEMMA InvParts ==
  IInv <=> /\ TypeOK /\ Unshared /\ ScopesOk /\ ArgumentsKept /\ TreeOk /\ ThreadsOk /\ OwnsOk
           /\ ListsOk /\ \E rank \in [Threads -> Nat] : Ordered(rank)
  BY DEF IInv, OneCall, ScopesOk

LEMMA OwnKept ==
  ASSUME NEW u \in Threads, parent'[u] = parent[u],
         parent[u] # Null =>
           /\ calls'[parent[u]] # << >> <=> calls[parent[u]] # << >>
           /\ calls[parent[u]] # << >> => calls'[parent[u]][1].ctx = calls[parent[u]][1].ctx
           /\ calls[parent[u]] = << >> => wt_context'[parent[u]] = wt_context[parent[u]]
  PROVE  Own(u)' = Own(u)
  BY DEF Own, Top

LEMMA StacksKept ==
  ASSUME NEW u \in Threads, StacksOk(u), calls'[u] = calls[u], Own(u)' = Own(u),
         wt_context'[u] = wt_context[u], rd_context'[u] = rd_context[u],
         \A k \in DOMAIN calls[u] : stacked'[calls[u][k].ctx] = stacked[calls[u][k].ctx]
  PROVE  StacksOk(u)'
  BY DEF StacksOk

LEMMA UfuncKept ==
  ASSUME NEW u \in Threads, UfuncOk(u), calls'[u] = calls[u], todo'[u] = todo[u],
         wt_context'[u] = wt_context[u], rd_context'[u] = rd_context[u]
  PROVE  UfuncOk(u)'
  BY DEF UfuncOk, Top

LEMMA KidsKept ==
  ASSUME NEW u \in Threads, KidsOk(u), status'[u] = status[u], parent'[u] = parent[u],
         calls'[u] = calls[u], todo'[u] = todo[u], Children(u)' = Children(u)
  PROVE  KidsOk(u)'
  BY DEF KidsOk, Alive, Top

LEMMA KidsOfRunning ==
  ASSUME NEW u \in Threads, KidsOk(u), status'[u] = "running", status[u] # "unused",
         parent'[u] = parent[u], todo'[u] = 0, Children(u)' = {},
         NEW ds, calls'[u] = ds, ds # << >> => ds[1].at # "body",
         \A k \in DOMAIN ds : k > 1 => ds[k].at \in {"args", "outputs"}
  PROVE  KidsOk(u)'
<1>1. u \in Roots => parent'[u] = Null
  BY DEF KidsOk
<1>2. CASE ds = << >>
  BY <1>1, <1>2 DEF KidsOk, Alive
<1>3. CASE ds # << >>
  BY <1>1, <1>3 DEF KidsOk, Alive, Top
<1>4. QED
  BY <1>2, <1>3

(* An alive thread with a parent is one of its parent's children. *)
LEMMA ParentHasChild ==
  ASSUME TypeOK, NEW u \in Threads, Alive(u), parent[u] # Null
  PROVE  parent[u] \in Threads /\ u \in Children(parent[u])
  BY DEF TypeOK, Alive, Children

(* A thread without children works on its innermost call, which is not     *)
(* under way: no other thread is concerned.                                *)
LEMMA Quiet ==
  ASSUME TypeOK, TreeOk, OwnsOk, \E rank \in [Threads -> Nat] : Ordered(rank),
         NEW t \in Threads, Children(t) = {}, UNCHANGED <<status, parent, todo>>,
         \A u \in Threads : u # t => calls'[u] = calls[u] /\ wt_context'[u] = wt_context[u],
         ~ InBody(t), ~ InBody(t)'
  PROVE  /\ \A u \in Threads : Alive(u)' <=> Alive(u)
         /\ \A u \in Threads : Children(u)' = Children(u)
         /\ \A u \in Threads : Alive(u) => Own(u)' = Own(u)
         /\ OwnsOk' /\ (\E rank \in [Threads -> Nat] : Ordered(rank))'
         /\ \A u \in Threads : u # t => KidsOk(u)'
<1>1. \A u \in Threads : Alive(u)' <=> Alive(u)
  BY DEF Alive
<1>2. \A u \in Threads : Children(u)' = Children(u)
  BY DEF Children
<1>3. ASSUME NEW u \in Threads, Alive(u) PROVE Own(u)' = Own(u)
  <2>1. parent[u] # Null => parent[u] \in Threads /\ parent[u] # t
    BY <1>3, ParentHasChild
  <2>2. QED
    BY <2>1, OwnKept
<1>4. ASSUME NEW u \in Threads PROVE InBody(u)' <=> InBody(u)
  <2>1. CASE u = t
    BY <2>1
  <2>2. CASE u # t
    BY <1>1, <2>2 DEF InBody, Top
  <2>3. QED
    BY <2>1, <2>2
<1>5. ASSUME NEW u \in Threads, InBody(u) PROVE Top(u)' = Top(u)
  BY <1>5 DEF Top
<1>6. OwnsOk'
  <2>1. ASSUME NEW u \in Threads, Alive(u)', Own(u)' # Null
        PROVE  \E q \in Threads : InBody(q)' /\ Top(q)'.ctx = Own(u)'
    <3>1. Alive(u) /\ Own(u)' = Own(u)
      BY <1>1, <1>3, <2>1
    <3>2. PICK q \in Threads : InBody(q) /\ Top(q).ctx = Own(u)
      BY <2>1, <3>1 DEF OwnsOk
    <3>3. QED
      BY <1>4, <1>5, <3>1, <3>2
  <2>2. ASSUME NEW q \in Threads, NEW u \in Threads, NEW c \in Threads, InBody(q)',
               c \in Children(q)', Alive(u)', Own(u)' = Top(q)'.ctx
        PROVE  u \in Below(c)' \cup {c}
    <3>1. /\ InBody(q) /\ c \in Children(q) /\ Alive(u) /\ Own(u)' = Own(u)
          /\ Top(q)' = Top(q)
      BY <1>1, <1>2, <1>3, <1>4, <1>5, <2>2
    <3>2. u \in Below(c) \cup {c}
      BY <2>2, <3>1 DEF OwnsOk
    <3>3. Below(c) \subseteq Below(c)'
      BY <1>2, BelowGrows
    <3>4. QED
      BY <3>2, <3>3
  <2>3. QED
    BY <2>1, <2>2 DEF OwnsOk
<1>7. (\E rank \in [Threads -> Nat] : Ordered(rank))'
  BY <1>2 DEF Ordered
<1>8. ASSUME NEW u \in Threads, u # t PROVE KidsOk(u)'
  BY <1>2, <1>8, KidsKept DEF TreeOk
<1>9. QED
  BY <1>1, <1>2, <1>3, <1>6, <1>7, <1>8

(* A thread that is not in the middle of a call has no children. *)
LEMMA NoChildren ==
  ASSUME TypeOK, TreeOk, NEW t \in Threads, Runs(t), todo[t] = 0
  PROVE  /\ Alive(t) /\ Children(t) = {} /\ ~ InBody(t)
         /\ calls[t] # << >> => Top(t).at # "body"
         /\ \A k \in DOMAIN calls[t] : k > 1 => calls[t][k].at \in {"args", "outputs"}
<1>1. Alive(t) /\ KidsOk(t) /\ status[t] # "joining"
  BY DEF Runs, Alive, TreeOk
<1>2. CASE calls[t] = << >>
  BY <1>1, <1>2 DEF KidsOk, InBody
<1>3. CASE calls[t] # << >>
  BY <1>1, <1>3 DEF KidsOk, InBody
<1>4. QED
  BY <1>2, <1>3

-----------------------------------------------------------------------------
(* The actions. *)

LEMMA AllocKeeps ==
  ASSUME IInv, NEW t \in Threads, NEW s \in Scopes, NEW c \in Contexts, of_ALLOC(t, s, c)
  PROVE  IInv'
<1>1. /\ TypeOK /\ Unshared /\ ScopesOk /\ ArgumentsKept /\ TreeOk /\ ThreadsOk /\ OwnsOk
      /\ ListsOk /\ \E rank \in [Threads -> Nat] : Ordered(rank)
  BY InvParts
<1>2. /\ Runs(t) /\ todo[t] = 0 /\ t \notin UfuncRoots
      /\ calls[t] # << >> => Top(t).at \in {"args", "outputs"}
      /\ n < MaxCalls /\ vthread_alloc_context(s, c)
      /\ stacked' = [stacked EXCEPT ![c] = wt_context[t]]
      /\ wt_context' = [wt_context EXCEPT ![t] = c]
      /\ port' = [port EXCEPT ![c] = 0]
      /\ n' = n + 1
      /\ UNCHANGED <<rd_context, status, parent, todo, abandoned>>
  BY DEF of_ALLOC
<1>3. PICK r : r = [ctx |-> c, no |-> n + 1, scope |-> s, kind |-> "call", at |-> "args"]
  OBVIOUS
<1>4. r \in CallRecord /\ r.ctx = c /\ r.scope = s /\ r.kind = "call" /\ r.at = "args" /\ n + 1 \in 1..MaxCalls
  BY <1>1, <1>2, <1>3, ContextAssumption DEF CallRecord, TypeOK
<1>5. calls' = [calls EXCEPT ![t] = <<r>> \o @]
  BY <1>3 DEF of_ALLOC
<1>6. /\ Alive(t) /\ Children(t) = {} /\ ~ InBody(t)
      /\ \A k \in DOMAIN calls[t] : k > 1 => calls[t][k].at \in {"args", "outputs"}
  BY <1>1, <1>2, NoChildren
<1>7. /\ calls[t] \in Seq(CallRecord) /\ DOMAIN calls[t] = 1..Len(calls[t])
      /\ Len(calls[t]) \in Nat
  BY <1>1, CallFacts
<1>8. PICK ds \in Seq(CallRecord) :
        /\ ds = <<r>> \o calls[t] /\ ds # << >> /\ Len(ds) = Len(calls[t]) + 1 /\ ds[1] = r
        /\ \A k \in 2..(Len(calls[t]) + 1) : ds[k] = calls[t][k - 1]
  <2>1. PICK ds : ds = <<r>> \o calls[t]
    OBVIOUS
  <2>2. /\ ds \in Seq(CallRecord) /\ ds # << >> /\ Len(ds) = Len(calls[t]) + 1 /\ ds[1] = r
        /\ \A k \in 2..(Len(calls[t]) + 1) : ds[k] = calls[t][k - 1]
    BY <1>4, <1>7, <2>1, PutInFront
  <2>3. QED
    BY <2>1, <2>2
<1>9. /\ calls'[t] = ds /\ \A u \in Threads : u # t => calls'[u] = calls[u]
      /\ calls' \in [Threads -> Seq(CallRecord)]
  BY <1>1, <1>5, <1>8 DEF TypeOK
<1>10. /\ \A u \in Threads : Alive(u)' <=> Alive(u)
       /\ \A u \in Threads : Children(u)' = Children(u)
       /\ \A u \in Threads : Alive(u) => Own(u)' = Own(u)
       /\ OwnsOk' /\ (\E rank \in [Threads -> Nat] : Ordered(rank))'
       /\ \A u \in Threads : u # t => KidsOk(u)'
  <2>1. ~ InBody(t)'
    BY <1>4, <1>8, <1>9 DEF InBody, Top
  <2>2. \A u \in Threads : u # t => calls'[u] = calls[u] /\ wt_context'[u] = wt_context[u]
    BY <1>1, <1>2, <1>9 DEF TypeOK
  <2>3. QED
    BY <1>1, <1>2, <1>6, <2>1, <2>2, Quiet
<1>11. /\ live_contexts' \in [Scopes -> Seq(Contexts)]
       /\ free_contexts' \in [Scopes -> Seq(Contexts)]
       /\ \A x \in Scopes : c \notin Range(live_contexts[x])
  BY <1>1, <1>2, AllocLists
<1>12. TypeOK'
  <2>1. wt_context[t] \in Contexts \cup {Null}
    BY <1>1 DEF TypeOK
  <2>2. n' \in 0..MaxCalls /\ 0 \in 0..MaxCalls
    BY <1>1, <1>2, ContextAssumption DEF TypeOK
  <2>3. QED
    BY <1>1, <1>2, <1>9, <1>11, <2>1, <2>2 DEF TypeOK
<1>13. Unshared' /\ ScopesOk' /\ ListsOk' /\ ArgumentsKept'
  BY <1>1, <1>2, <1>4, <1>5, <1>6, <1>10, PushKeeps
<1>14. TreeOk'
  <2>1. KidsOk(t)'
    <3>1. /\ status[t] = "running" /\ status' = status /\ parent' = parent /\ todo' = todo
          /\ KidsOk(t) /\ Children(t)' = {}
      BY <1>1, <1>2, <1>6, <1>10 DEF Runs, TreeOk
    <3>2. ASSUME NEW k \in DOMAIN ds, k > 1 PROVE ds[k].at \in {"args", "outputs"}
      <4>1. k \in 2..(Len(calls[t]) + 1) /\ k - 1 \in DOMAIN calls[t]
        BY <1>7, <1>8, <3>2
      <4>2. CASE k - 1 = 1
        <5>1. calls[t] # << >> /\ calls[t][1].at \in {"args", "outputs"}
          BY <1>1, <1>2, <4>1, <4>2, CallFacts DEF Top
        <5>2. QED
          BY <1>8, <4>1, <4>2, <5>1
      <4>3. CASE k - 1 # 1
        <5>1. k - 1 > 1
          BY <4>1, <4>3
        <5>2. QED
          BY <1>6, <1>8, <4>1, <5>1
      <4>4. QED
        BY <4>2, <4>3
    <3>3. ds # << >> /\ ds[1].at = "args"
      BY <1>4, <1>8
    <3>4. QED
      BY <1>2, <1>9, <3>1, <3>2, <3>3 DEF KidsOk, Alive, Top
  <2>2. QED
    BY <1>10, <2>1 DEF TreeOk
<1>15. \A u \in Threads : \A k \in DOMAIN calls[u] : calls[u][k].ctx # c /\ calls[u][k].ctx \in Contexts
  BY <1>1, <1>11, Fresh, CallFacts
<1>16. stacked'[c] = wt_context[t] /\ \A x \in Contexts : x # c => stacked'[x] = stacked[x]
  BY <1>1, <1>2 DEF TypeOK
<1>17. /\ wt_context'[t] = c /\ rd_context' = rd_context
       /\ \A u \in Threads : u # t => wt_context'[u] = wt_context[u]
  BY <1>1, <1>2 DEF TypeOK
<1>18. StacksOk(t)'
  <2>1. StacksOk(t) /\ Own(t)' = Own(t)
    BY <1>1, <1>2, <1>6, <1>10 DEF ThreadsOk
  <2>2. FirstAt(ds, 0, Writing, Own(t), c)
    <3>1. ds[1].at \in Writing /\ c = ds[1].ctx
      BY <1>4, <1>8 DEF Writing
    <3>2. FirstAt(ds, 0, Writing, Own(t), c) <=> c = ds[1].ctx
      BY <1>8, <3>1, FirstHere
    <3>3. QED
      BY <3>1, <3>2
  <2>3. FirstAt(ds, 0, Reading, Own(t), rd_context[t])
    <3>1. FirstAt(calls[t], 0, Reading, Own(t), rd_context[t])
      BY <2>1 DEF StacksOk
    <3>2. FirstAt(<<r>> \o calls[t], 0 + 1, Reading, Own(t), rd_context[t])
      BY <1>4, <1>7, <3>1, FirstPut
    <3>3. ds[1].at \notin Reading
      BY <1>4, <1>8 DEF Reading
    <3>4. FirstAt(ds, 0, Reading, Own(t), rd_context[t]) <=> FirstAt(ds, 1, Reading, Own(t), rd_context[t])
      BY <1>8, <3>3, FirstSkip
    <3>5. QED
      BY <1>8, <3>2, <3>4
  <2>4. ASSUME NEW k \in DOMAIN ds
        PROVE  ds[k].kind = "call" /\ FirstAt(ds, k, Side(ds[k].at), Own(t), stacked'[ds[k].ctx])
    <3>1. CASE k = 1
      <4>1. Side(ds[k].at) = Writing /\ stacked'[ds[k].ctx] = wt_context[t] /\ ds[k].kind = "call"
        BY <1>4, <1>8, <1>16, <3>1 DEF Side, Writing
      <4>2. FirstAt(calls[t], 0, Writing, Own(t), wt_context[t])
        BY <2>1 DEF StacksOk
      <4>3. FirstAt(<<r>> \o calls[t], 0 + 1, Writing, Own(t), wt_context[t])
        BY <1>4, <1>7, <4>2, FirstPut
      <4>4. QED
        BY <1>8, <3>1, <4>1, <4>3
    <3>2. CASE k # 1
      <4>1. k \in 2..(Len(calls[t]) + 1) /\ k - 1 \in DOMAIN calls[t] /\ k - 1 \in Nat /\ k - 1 + 1 = k
        BY <1>7, <1>8, <3>2
      <4>2. PICK j \in DOMAIN calls[t] : j = k - 1 /\ j \in Nat /\ j + 1 = k /\ ds[k] = calls[t][j]
        BY <1>8, <4>1
      <4>3. calls[t][j].kind = "call" /\ FirstAt(calls[t], j, Side(ds[k].at), Own(t), stacked[ds[k].ctx])
        BY <2>1, <4>2 DEF StacksOk
      <4>4. stacked'[ds[k].ctx] = stacked[ds[k].ctx]
        BY <1>15, <1>16, <4>2
      <4>5. FirstAt(<<r>> \o calls[t], j + 1, Side(ds[k].at), Own(t), stacked[ds[k].ctx])
        BY <1>4, <1>7, <4>2, <4>3, FirstPut
      <4>6. QED
        BY <1>8, <4>2, <4>3, <4>4, <4>5
    <3>3. QED
      BY <3>1, <3>2
  <2>5. QED
    BY <1>9, <1>17, <2>1, <2>2, <2>3, <2>4 DEF StacksOk
<1>19. ThreadsOk'
  <2> SUFFICES ASSUME NEW u \in Threads, Alive(u)'
               PROVE  IF u \in UfuncRoots THEN UfuncOk(u)' ELSE StacksOk(u)'
    BY DEF ThreadsOk
  <2>1. CASE u = t
    BY <1>2, <1>18, <2>1
  <2>2. CASE u # t
    <3>1. Alive(u) /\ Own(u)' = Own(u) /\ calls'[u] = calls[u] /\ todo' = todo
      BY <1>2, <1>9, <1>10, <2>2
    <3>2. \A k \in DOMAIN calls[u] : stacked'[calls[u][k].ctx] = stacked[calls[u][k].ctx]
      BY <1>15, <1>16
    <3>3. CASE u \in UfuncRoots
      BY <1>1, <1>17, <2>2, <3>1, <3>3, UfuncKept DEF ThreadsOk
    <3>4. CASE u \notin UfuncRoots
      BY <1>1, <1>17, <2>2, <3>1, <3>2, <3>4, StacksKept DEF ThreadsOk
    <3>5. QED
      BY <3>3, <3>4
  <2>3. QED
    BY <2>1, <2>2
<1>20. QED
  BY <1>10, <1>12, <1>13, <1>14, <1>19 DEF IInv, OneCall, ScopesOk

(* The innermost call goes on to the place a. *)
LEMMA MoveOn ==
  ASSUME TypeOK, NEW t \in Threads, calls[t] # << >>,
         NEW a \in {"args", "ready", "body", "outputs"}, calls' = [calls EXCEPT ![t][1].at = a]
  PROVE  /\ calls' \in [Threads -> Seq(CallRecord)]
         /\ \A u \in Threads : u # t => calls'[u] = calls[u]
         /\ calls[t] \in Seq(CallRecord) /\ calls'[t] \in Seq(CallRecord) /\ calls'[t] # << >>
         /\ 1 \in DOMAIN calls[t] /\ calls'[t][1].at = a
         /\ \A k \in DOMAIN calls[t] : k # 1 => calls'[t][k] = calls[t][k]
         /\ \A u \in Threads : DOMAIN calls'[u] = DOMAIN calls[u]
         /\ \A u \in Threads : \A k \in DOMAIN calls[u] :
              /\ calls'[u][k].ctx = calls[u][k].ctx /\ calls'[u][k].no = calls[u][k].no
              /\ calls'[u][k].scope = calls[u][k].scope /\ calls'[u][k].kind = calls[u][k].kind
         /\ \A u \in Threads : calls'[u] # << >> <=> calls[u] # << >>
<1>1. calls[t] \in Seq(CallRecord)
  BY DEF TypeOK
<1>2. PICK ds : ds = [calls[t] EXCEPT ![1].at = a]
  OBVIOUS
<1>3. /\ ds \in Seq(CallRecord) /\ ds # << >> /\ DOMAIN ds = DOMAIN calls[t]
      /\ 1 \in DOMAIN calls[t] /\ ds[1].at = a
      /\ \A k \in DOMAIN calls[t] : k # 1 => ds[k] = calls[t][k]
      /\ \A k \in DOMAIN calls[t] :
           /\ ds[k].ctx = calls[t][k].ctx /\ ds[k].no = calls[t][k].no
           /\ ds[k].scope = calls[t][k].scope /\ ds[k].kind = calls[t][k].kind
  BY <1>1, <1>2, MovedOn
<1>4. calls' = [calls EXCEPT ![t] = ds]
  BY <1>2
<1>5. /\ calls'[t] = ds /\ \A u \in Threads : u # t => calls'[u] = calls[u]
      /\ calls' \in [Threads -> Seq(CallRecord)]
  BY <1>3, <1>4 DEF TypeOK
<1>6. ASSUME NEW u \in Threads
      PROVE  /\ DOMAIN calls'[u] = DOMAIN calls[u]
             /\ \A k \in DOMAIN calls[u] :
                  /\ calls'[u][k].ctx = calls[u][k].ctx /\ calls'[u][k].no = calls[u][k].no
                  /\ calls'[u][k].scope = calls[u][k].scope /\ calls'[u][k].kind = calls[u][k].kind
             /\ calls'[u] # << >> <=> calls[u] # << >>
  <2>1. CASE u = t
    BY <1>3, <1>5, <2>1
  <2>2. CASE u # t
    BY <1>5, <2>2
  <2>3. QED
    BY <2>1, <2>2
<1>7. QED
  BY <1>1, <1>3, <1>5, <1>6

(* Before the call returns that does not change the stacks. *)
LEMMA MoveStacks ==
  ASSUME TypeOK, NEW t \in Threads, StacksOk(t), calls[t] # << >>, Top(t).at \in Writing,
         NEW a \in Writing, calls' = [calls EXCEPT ![t][1].at = a],
         Own(t)' = Own(t), wt_context'[t] = wt_context[t], rd_context'[t] = rd_context[t],
         \A k \in DOMAIN calls[t] : stacked'[calls[t][k].ctx] = stacked[calls[t][k].ctx]
  PROVE  StacksOk(t)' /\ wt_context[t] = Top(t).ctx
<1> DEFINE cs == calls[t]
           own == Own(t)
<1>1. a \in {"args", "ready", "body", "outputs"} /\ a \notin Reading /\ cs[1].at \notin Reading
  BY DEF Writing, Reading, Top
<1>2. PICK ds \in Seq(CallRecord) : ds = calls'[t]
  BY <1>1, MoveOn
<1>3. /\ cs \in Seq(CallRecord) /\ ds # << >> /\ DOMAIN ds = DOMAIN cs
      /\ 1 \in DOMAIN cs /\ ds[1].at = a
      /\ \A k \in DOMAIN cs : k # 1 => ds[k] = cs[k]
      /\ \A k \in DOMAIN cs : ds[k].ctx = cs[k].ctx /\ ds[k].kind = cs[k].kind
  BY <1>1, <1>2, MoveOn
<1>4. /\ FirstAt(cs, 0, Writing, own, wt_context[t])
      /\ FirstAt(cs, 0, Reading, own, rd_context[t])
      /\ \A k \in DOMAIN cs :
           cs[k].kind = "call" /\ FirstAt(cs, k, Side(cs[k].at), own, stacked[cs[k].ctx])
  BY DEF StacksOk
<1>5. ASSUME NEW m \in Nat \ {0}, NEW ats, NEW x, FirstAt(cs, m, ats, own, x)
      PROVE  FirstAt(ds, m, ats, own, x)
  <2>1. \A k \in DOMAIN cs : k \in Nat /\ (k > m <=> m < k) /\ (k > m => k # 1)
    BY <1>3
  <2>2. \A k \in DOMAIN cs : k > m => ds[k].at = cs[k].at /\ ds[k].ctx = cs[k].ctx
    BY <1>3, <2>1
  <2>3. DOMAIN ds = DOMAIN cs
    BY <1>3
  <2>4. QED
    BY <1>5, <2>1, <2>2, <2>3, FirstSame
<1>6. wt_context[t] = cs[1].ctx
  <2>1. cs[1].at \in Writing
    BY DEF Top
  <2>2. FirstAt(cs, 0, Writing, own, wt_context[t]) <=> wt_context[t] = cs[1].ctx
    BY <1>3, <2>1, FirstHere
  <2>3. QED
    BY <1>4, <2>2
<1>7. FirstAt(ds, 0, Writing, own, wt_context[t])
  <2>1. FirstAt(ds, 0, Writing, own, wt_context[t]) <=> wt_context[t] = ds[1].ctx
    BY <1>3, FirstHere
  <2>2. QED
    BY <1>3, <1>6, <2>1
<1>8. FirstAt(ds, 0, Reading, own, rd_context[t])
  <2>1. FirstAt(cs, 0, Reading, own, rd_context[t]) <=> FirstAt(cs, 1, Reading, own, rd_context[t])
    BY <1>1, <1>3, FirstSkip
  <2>2. FirstAt(ds, 1, Reading, own, rd_context[t])
    <3>1. FirstAt(cs, 1, Reading, own, rd_context[t])
      BY <1>4, <2>1
    <3>2. 1 \in Nat \ {0}
      OBVIOUS
    <3>3. QED
      BY <1>5, <3>1, <3>2, Zenon
  <2>3. FirstAt(ds, 0, Reading, own, rd_context[t]) <=> FirstAt(ds, 1, Reading, own, rd_context[t])
    BY <1>1, <1>3, FirstSkip
  <2>4. QED
    BY <2>2, <2>3
<1>9. ASSUME NEW k \in DOMAIN ds
      PROVE  ds[k].kind = "call" /\ FirstAt(ds, k, Side(ds[k].at), own, stacked'[ds[k].ctx])
  <2>1. /\ k \in DOMAIN cs /\ k \in Nat \ {0} /\ ds[k].kind = "call" /\ ds[k].ctx = cs[k].ctx
        /\ stacked'[ds[k].ctx] = stacked[cs[k].ctx]
    BY <1>3, <1>4
  <2>2. Side(ds[k].at) = Side(cs[k].at)
    BY <1>3, <2>1 DEF Side, Top
  <2>3. FirstAt(cs, k, Side(cs[k].at), own, stacked[cs[k].ctx])
    BY <1>4, <2>1
  <2>4. FirstAt(ds, k, Side(cs[k].at), own, stacked[cs[k].ctx])
    BY <1>5, <2>1, <2>3, Zenon
  <2>5. QED
    BY <2>1, <2>2, <2>4
<1>10. StacksOk(t)'
  BY <1>2, <1>7, <1>8, <1>9 DEF StacksOk
<1>11. QED
  BY <1>6, <1>10 DEF Top

LEMMA StoreKeeps ==
  ASSUME IInv, NEW t \in Threads, StoreArguments(t)
  PROVE  IInv'
<1>1. /\ TypeOK /\ Unshared /\ ScopesOk /\ ArgumentsKept /\ TreeOk /\ ThreadsOk /\ OwnsOk
      /\ ListsOk /\ \E rank \in [Threads -> Nat] : Ordered(rank)
  BY InvParts
<1>2. /\ Runs(t) /\ calls[t] # << >> /\ Top(t).at = "args"
      /\ port' = [port EXCEPT ![wt_context[t]] = Top(t).no]
      /\ calls' = [calls EXCEPT ![t][1].at = "ready"]
      /\ UNCHANGED <<wt_context, rd_context, stacked, live_contexts, free_contexts, status,
                     parent, todo, n, abandoned>>
  BY DEF StoreArguments
<1>3. todo[t] = 0 /\ t \notin UfuncRoots /\ StacksOk(t)
  BY <1>1, <1>2 DEF Runs, Alive, TreeOk, KidsOk, ThreadsOk, UfuncOk
<1>4. /\ Alive(t) /\ Children(t) = {} /\ ~ InBody(t)
      /\ \A k \in DOMAIN calls[t] : k > 1 => calls[t][k].at \in {"args", "outputs"}
  BY <1>1, <1>2, <1>3, NoChildren
<1>5. /\ calls' \in [Threads -> Seq(CallRecord)]
      /\ \A u \in Threads : u # t => calls'[u] = calls[u]
      /\ calls'[t] # << >> /\ 1 \in DOMAIN calls[t] /\ calls'[t][1].at = "ready"
      /\ \A k \in DOMAIN calls[t] : k # 1 => calls'[t][k] = calls[t][k]
      /\ \A u \in Threads : DOMAIN calls'[u] = DOMAIN calls[u]
      /\ \A u \in Threads : \A k \in DOMAIN calls[u] :
           /\ calls'[u][k].ctx = calls[u][k].ctx /\ calls'[u][k].no = calls[u][k].no
           /\ calls'[u][k].scope = calls[u][k].scope
  BY <1>1, <1>2, MoveOn
<1>6. /\ \A u \in Threads : Alive(u)' <=> Alive(u)
      /\ \A u \in Threads : Children(u)' = Children(u)
      /\ \A u \in Threads : Alive(u) => Own(u)' = Own(u)
      /\ OwnsOk' /\ (\E rank \in [Threads -> Nat] : Ordered(rank))'
      /\ \A u \in Threads : u # t => KidsOk(u)'
  <2>1. ~ InBody(t)'
    BY <1>5 DEF InBody, Top
  <2>2. \A u \in Threads : u # t => calls'[u] = calls[u] /\ wt_context'[u] = wt_context[u]
    BY <1>2, <1>5
  <2>3. QED
    BY <1>1, <1>2, <1>4, <2>1, <2>2, Quiet
<1>7. StacksOk(t)' /\ wt_context[t] = calls[t][1].ctx
  BY <1>1, <1>2, <1>3, <1>4, <1>6, MoveStacks DEF Writing, Top
<1>8. calls[t][1].ctx \in Contexts /\ calls[t][1].no \in 1..MaxCalls
  BY <1>1, <1>5, CallFacts
<1>9. TypeOK'
  <2>1. port' \in [Contexts -> 0..MaxCalls]
    BY <1>1, <1>2, <1>7, <1>8 DEF TypeOK, Top
  <2>2. QED
    BY <1>1, <1>2, <1>5, <2>1 DEF TypeOK
<1>10. Unshared' /\ ScopesOk' /\ ListsOk'
  <2>1. PICK D \in SUBSET Threads : D = {}
    OBVIOUS
  <2>2. abandoned' = abandoned \cup UNION {Taken(x) : x \in D}
    BY <1>2, <2>1
  <2>3. QED
    BY <1>1, <1>2, <1>5, <1>6, <2>1, <2>2, MoveKeeps
<1>11. ArgumentsKept'
  <2> SUFFICES ASSUME NEW u \in Threads, Alive(u)', NEW k \in DOMAIN calls'[u],
                      calls'[u][k].at \in {"ready", "body", "outputs"}
               PROVE  port'[calls'[u][k].ctx] = calls'[u][k].no
    BY DEF ArgumentsKept
  <2>1. /\ port'[calls[t][1].ctx] = calls[t][1].no
        /\ \A x \in Contexts : x # calls[t][1].ctx => port'[x] = port[x]
    BY <1>1, <1>2, <1>7, <1>8 DEF TypeOK, Top
  <2>2. /\ k \in DOMAIN calls[u] /\ Alive(u) /\ calls'[u][k].ctx = calls[u][k].ctx
        /\ calls'[u][k].no = calls[u][k].no
    BY <1>5, <1>6
  <2>3. CASE u = t /\ k = 1
    BY <2>1, <2>2, <2>3
  <2>4. CASE ~ (u = t /\ k = 1)
    <3>1. calls'[u][k] = calls[u][k]
      BY <1>5, <2>2, <2>4
    <3>2. calls[u][k].ctx # calls[t][1].ctx /\ calls[u][k].ctx \in Contexts
      BY <1>1, <1>4, <1>5, <2>2, <2>4, CallFacts DEF Unshared
    <3>3. port[calls[u][k].ctx] = calls[u][k].no
      BY <1>1, <2>2, <3>1 DEF ArgumentsKept
    <3>4. QED
      BY <2>1, <2>2, <3>2, <3>3
  <2>5. QED
    BY <2>3, <2>4
<1>12. TreeOk'
  <2>1. KidsOk(t)'
    <3>1. /\ status[t] = "running" /\ status' = status /\ parent' = parent /\ todo' = todo
          /\ KidsOk(t) /\ Children(t)' = {}
      BY <1>1, <1>2, <1>4, <1>6 DEF Runs, TreeOk
    <3>2. \A k \in DOMAIN calls'[t] : k > 1 => calls'[t][k].at \in {"args", "outputs"}
      BY <1>4, <1>5
    <3>3. QED
      BY <1>3, <1>5, <3>1, <3>2 DEF KidsOk, Alive, Top
  <2>2. QED
    BY <1>6, <2>1 DEF TreeOk
<1>13. ThreadsOk'
  <2> SUFFICES ASSUME NEW u \in Threads, Alive(u)'
               PROVE  IF u \in UfuncRoots THEN UfuncOk(u)' ELSE StacksOk(u)'
    BY DEF ThreadsOk
  <2>1. CASE u = t
    BY <1>3, <1>7, <2>1
  <2>2. CASE u # t
    <3>1. Alive(u) /\ Own(u)' = Own(u) /\ calls'[u] = calls[u]
      BY <1>5, <1>6, <2>2
    <3>2. CASE u \in UfuncRoots
      BY <1>1, <1>2, <3>1, <3>2, UfuncKept DEF ThreadsOk
    <3>3. CASE u \notin UfuncRoots
      BY <1>1, <1>2, <3>1, <3>3, StacksKept DEF ThreadsOk
    <3>4. QED
      BY <3>2, <3>3
  <2>3. QED
    BY <2>1, <2>2
<1>14. QED
  BY <1>6, <1>9, <1>10, <1>11, <1>12, <1>13 DEF IInv, OneCall, ScopesOk

(* What of_FREE and of_REAP_UFUNC have in common. *)
LEMMA ReturnKeeps ==
  ASSUME IInv, NEW t \in Threads, Runs(t), calls[t] # << >>, Top(t).at = "outputs",
         rd_context[t] = Top(t).ctx, vthread_free_context(rd_context[t], Top(t).scope),
         calls' = [calls EXCEPT ![t] = Tail(@)],
         \A u \in Threads : u # t => /\ wt_context'[u] = wt_context[u]
                                     /\ rd_context'[u] = rd_context[u],
         wt_context' \in [Threads -> Contexts \cup {Null}],
         rd_context' \in [Threads -> Contexts \cup {Null}],
         UNCHANGED <<stacked, port, status, parent, todo, n, abandoned>>,
         Alive(t) /\ Own(t)' = Own(t) => IF t \in UfuncRoots THEN UfuncOk(t)' ELSE StacksOk(t)'
  PROVE  IInv'
<1>1. /\ TypeOK /\ Unshared /\ ScopesOk /\ ArgumentsKept /\ TreeOk /\ ThreadsOk /\ OwnsOk
      /\ ListsOk /\ \E rank \in [Threads -> Nat] : Ordered(rank)
  BY InvParts
<1>2. todo[t] = 0
  BY <1>1 DEF Runs, Alive, TreeOk, KidsOk
<1>3. /\ Alive(t) /\ Children(t) = {} /\ ~ InBody(t)
      /\ \A k \in DOMAIN calls[t] : k > 1 => calls[t][k].at \in {"args", "outputs"}
  BY <1>1, <1>2, NoChildren
<1>4. /\ calls[t] \in Seq(CallRecord) /\ 1 \in DOMAIN calls[t]
      /\ Top(t).ctx \in Contexts /\ Top(t).scope \in Scopes
  BY <1>1, CallFacts DEF Top
<1>5. PICK ds \in Seq(CallRecord) :
        /\ ds = Tail(calls[t]) /\ DOMAIN ds = 1..(Len(calls[t]) - 1) /\ Len(calls[t]) \in Nat
        /\ \A k \in 1..(Len(calls[t]) - 1) : ds[k] = calls[t][k + 1]
  <2>1. PICK ds : ds = Tail(calls[t])
    OBVIOUS
  <2>2. /\ ds \in Seq(CallRecord) /\ Len(ds) = Len(calls[t]) - 1 /\ Len(calls[t]) \in Nat
        /\ \A k \in 1..(Len(calls[t]) - 1) : ds[k] = calls[t][k + 1]
    BY <1>4, <2>1, HeadTail
  <2>3. DOMAIN ds = 1..(Len(calls[t]) - 1)
    BY <2>2
  <2>4. QED
    BY <2>1, <2>2, <2>3
<1>6. /\ calls'[t] = ds /\ \A u \in Threads : u # t => calls'[u] = calls[u]
      /\ calls' \in [Threads -> Seq(CallRecord)]
  BY <1>1, <1>5 DEF TypeOK
<1>7. ASSUME NEW k \in DOMAIN ds PROVE ds[k].at \in {"args", "outputs"}
  <2>1. k + 1 \in DOMAIN calls[t] /\ k + 1 > 1 /\ ds[k] = calls[t][k + 1]
    BY <1>4, <1>5
  <2>2. QED
    BY <1>3, <2>1
<1>8. ds # << >> => 1 \in DOMAIN ds /\ ds[1].at # "body"
  <2>1. ds # << >> => 1 \in DOMAIN ds
    BY <1>5
  <2>2. QED
    BY <1>7, <2>1
<1>9. /\ \A u \in Threads : Alive(u)' <=> Alive(u)
      /\ \A u \in Threads : Children(u)' = Children(u)
      /\ \A u \in Threads : Alive(u) => Own(u)' = Own(u)
      /\ OwnsOk' /\ (\E rank \in [Threads -> Nat] : Ordered(rank))'
      /\ \A u \in Threads : u # t => KidsOk(u)'
  <2>1. ~ InBody(t)'
    BY <1>6, <1>8 DEF InBody, Top
  <2>2. \A u \in Threads : u # t => calls'[u] = calls[u] /\ wt_context'[u] = wt_context[u]
    BY <1>6
  <2>3. QED
    BY <1>1, <1>3, <2>1, <2>2, Quiet
<1>10. /\ Unshared' /\ ScopesOk' /\ ListsOk' /\ ArgumentsKept'
       /\ live_contexts' \in [Scopes -> Seq(Contexts)]
       /\ free_contexts' \in [Scopes -> Seq(Contexts)]
  <2>1. PICK c \in Contexts, s \in Scopes : c = Top(t).ctx /\ s = Top(t).scope
    BY <1>4
  <2>2. vthread_free_context(c, s)
    BY <2>1
  <2>3. QED
    BY <1>1, <1>3, <2>1, <2>2, PopKeeps
<1>11. TypeOK'
  BY <1>1, <1>6, <1>10 DEF TypeOK
<1>12. TreeOk'
  <2>1. /\ status[t] = "running" /\ status' = status /\ parent' = parent /\ todo' = todo
        /\ KidsOk(t) /\ Children(t)' = {}
    BY <1>1, <1>3, <1>9 DEF Runs, TreeOk
  <2>2. KidsOk(t)'
    <3>1. ds # << >> => ds[1].at # "body" /\ \A k \in DOMAIN ds : ds[k].at \in {"args", "outputs"}
      BY <1>7, <1>8
    <3>2. \A k \in DOMAIN ds : k > 1 => ds[k].at \in {"args", "outputs"}
      BY <1>7
    <3>3. status'[t] = "running" /\ parent'[t] = parent[t] /\ todo'[t] = 0 /\ calls'[t] = ds
      BY <1>2, <1>6, <2>1
    <3>4. QED
      BY <2>1, <3>1, <3>2, <3>3, KidsOfRunning
  <2>3. QED
    BY <1>9, <2>2 DEF TreeOk
<1>13. ThreadsOk'
  <2> SUFFICES ASSUME NEW u \in Threads, Alive(u)'
               PROVE  IF u \in UfuncRoots THEN UfuncOk(u)' ELSE StacksOk(u)'
    BY DEF ThreadsOk
  <2>1. CASE u = t
    BY <1>3, <1>9, <2>1
  <2>2. CASE u # t
    <3>1. Alive(u) /\ Own(u)' = Own(u) /\ calls'[u] = calls[u]
      BY <1>6, <1>9, <2>2
    <3>2. CASE u \in UfuncRoots
      BY <1>1, <2>2, <3>1, <3>2, UfuncKept DEF ThreadsOk
    <3>3. CASE u \notin UfuncRoots
      BY <1>1, <2>2, <3>1, <3>3, StacksKept DEF ThreadsOk
    <3>4. QED
      BY <3>2, <3>3
  <2>3. QED
    BY <2>1, <2>2
<1>14. QED
  BY <1>9, <1>10, <1>11, <1>12, <1>13 DEF IInv, OneCall, ScopesOk

LEMMA FreeKeeps ==
  ASSUME IInv, NEW t \in Threads, of_FREE(t)
  PROVE  IInv'
<1>1. TypeOK /\ TreeOk /\ ThreadsOk
  BY InvParts
<1>2. /\ Runs(t) /\ calls[t] # << >> /\ Top(t).at = "outputs" /\ Top(t).kind = "call"
      /\ rd_context' = [rd_context EXCEPT ![t] = stacked[rd_context[t]]]
      /\ vthread_free_context(rd_context[t], Top(t).scope)
      /\ calls' = [calls EXCEPT ![t] = Tail(@)]
      /\ UNCHANGED <<wt_context, stacked, port, status, parent, todo, n, abandoned>>
  BY DEF of_FREE
<1>3. t \notin UfuncRoots /\ StacksOk(t)
  BY <1>1, <1>2 DEF Runs, Alive, ThreadsOk, UfuncOk
<1> DEFINE cs == calls[t]
           own == Own(t)
<1>4. cs \in Seq(CallRecord) /\ 1 \in DOMAIN cs /\ DOMAIN cs = 1..Len(cs) /\ cs[1].ctx \in Contexts
      /\ Len(cs) \in Nat
  BY <1>1, <1>2, CallFacts
<1>5. /\ FirstAt(cs, 0, Writing, own, wt_context[t])
      /\ FirstAt(cs, 0, Reading, own, rd_context[t])
      /\ \A k \in DOMAIN cs :
           cs[k].kind = "call" /\ FirstAt(cs, k, Side(cs[k].at), own, stacked[cs[k].ctx])
  BY <1>3 DEF StacksOk
<1>6. cs[1].at \in Reading /\ cs[1].at \notin Writing /\ Side(cs[1].at) = Reading
  BY <1>2 DEF Reading, Writing, Side, Top
<1>7. rd_context[t] = cs[1].ctx
  <2>1. FirstAt(cs, 0, Reading, own, rd_context[t]) <=> rd_context[t] = cs[1].ctx
    BY <1>2, <1>4, <1>6, FirstHere
  <2>2. QED
    BY <1>5, <2>1
<1>8. PICK ds \in Seq(CallRecord) :
        /\ ds = Tail(cs) /\ DOMAIN ds = 1..(Len(cs) - 1)
        /\ \A k \in 1..(Len(cs) - 1) : ds[k] = cs[k + 1]
  <2>1. PICK ds : ds = Tail(cs)
    OBVIOUS
  <2>2. /\ ds \in Seq(CallRecord) /\ Len(ds) = Len(cs) - 1
        /\ \A k \in 1..(Len(cs) - 1) : ds[k] = cs[k + 1]
    BY <1>2, <1>4, <2>1, HeadTail
  <2>3. DOMAIN ds = 1..(Len(cs) - 1)
    BY <1>4, <2>2
  <2>4. QED
    BY <2>1, <2>2, <2>3
<1>9. /\ calls'[t] = ds /\ rd_context'[t] = stacked[cs[1].ctx]
      /\ \A u \in Threads : u # t => rd_context'[u] = rd_context[u]
      /\ rd_context' \in [Threads -> Contexts \cup {Null}]
      /\ wt_context' \in [Threads -> Contexts \cup {Null}]
  BY <1>1, <1>2, <1>4, <1>7, <1>8 DEF TypeOK
<1>10. FirstAt(ds, 0, Writing, own, wt_context[t])
  <2>1. FirstAt(cs, 0 + 1, Writing, own, wt_context[t])
    BY <1>2, <1>4, <1>5, <1>6, FirstSkip
  <2>2. FirstAt(cs, 0 + 1, Writing, own, wt_context[t]) <=> FirstAt(Tail(cs), 0, Writing, own, wt_context[t])
    BY <1>2, <1>4, FirstTail
  <2>3. QED
    BY <1>8, <2>1, <2>2
<1>11. FirstAt(ds, 0, Reading, own, stacked[cs[1].ctx])
  <2>1. FirstAt(cs, 0 + 1, Reading, own, stacked[cs[1].ctx])
    BY <1>4, <1>5, <1>6
  <2>2. FirstAt(cs, 0 + 1, Reading, own, stacked[cs[1].ctx])
          <=> FirstAt(Tail(cs), 0, Reading, own, stacked[cs[1].ctx])
    BY <1>2, <1>4, FirstTail
  <2>3. QED
    BY <1>8, <2>1, <2>2
<1>12. ASSUME NEW k \in DOMAIN ds
       PROVE  ds[k].kind = "call" /\ FirstAt(ds, k, Side(ds[k].at), own, stacked[ds[k].ctx])
  <2>1. k \in Nat /\ k + 1 \in DOMAIN cs /\ ds[k] = cs[k + 1]
    BY <1>4, <1>8
  <2>2. cs[k + 1].kind = "call" /\ FirstAt(cs, k + 1, Side(ds[k].at), own, stacked[ds[k].ctx])
    BY <1>5, <2>1
  <2>3. FirstAt(cs, k + 1, Side(ds[k].at), own, stacked[ds[k].ctx])
          <=> FirstAt(Tail(cs), k, Side(ds[k].at), own, stacked[ds[k].ctx])
    BY <1>2, <1>4, <2>1, FirstTail
  <2>4. QED
    BY <1>8, <2>1, <2>2, <2>3
<1>13. Own(t)' = own => StacksOk(t)'
  BY <1>2, <1>9, <1>10, <1>11, <1>12 DEF StacksOk
<1>14. QED
  BY <1>2, <1>3, <1>7, <1>9, <1>13, ReturnKeeps DEF Top

LEMMA ReapKeeps ==
  ASSUME IInv, NEW t \in Threads, of_REAP_UFUNC(t)
  PROVE  IInv'
<1>1. TypeOK /\ TreeOk /\ ThreadsOk
  BY InvParts
<1>2. /\ Runs(t) /\ calls[t] # << >> /\ Top(t).at = "outputs" /\ Top(t).kind = "ufunc"
      /\ vthread_free_context(rd_context[t], Top(t).scope)
      /\ wt_context' = [wt_context EXCEPT ![t] = Null]
      /\ rd_context' = [rd_context EXCEPT ![t] = Null]
      /\ calls' = [calls EXCEPT ![t] = << >>]
      /\ UNCHANGED <<stacked, port, status, parent, todo, n, abandoned>>
  BY DEF of_REAP_UFUNC
<1>3. calls[t] \in Seq(CallRecord) /\ 1 \in DOMAIN calls[t]
  BY <1>1, <1>2, CallFacts
<1>4. Alive(t)
  BY <1>2 DEF Runs, Alive
<1>5. t \in UfuncRoots
  <2> SUFFICES ASSUME t \notin UfuncRoots PROVE FALSE
    OBVIOUS
  <2>1. StacksOk(t)
    BY <1>1, <1>4 DEF ThreadsOk
  <2>2. QED
    BY <1>2, <1>3, <2>1 DEF StacksOk, Top
<1>6. todo[t] = 0 /\ Len(calls[t]) = 1 /\ rd_context[t] = Top(t).ctx
  BY <1>1, <1>2, <1>4, <1>5 DEF ThreadsOk, UfuncOk
<1>7. Tail(calls[t]) = << >>
  <2>1. PICK ds : ds = Tail(calls[t])
    OBVIOUS
  <2>2. ds \in Seq(CallRecord) /\ Len(ds) = 0
    BY <1>2, <1>3, <1>6, <2>1, HeadTail
  <2>3. QED
    BY <2>1, <2>2
<1>8. calls' = [calls EXCEPT ![t] = Tail(@)]
  BY <1>2, <1>7
<1>9. /\ \A u \in Threads : u # t => /\ wt_context'[u] = wt_context[u]
                                     /\ rd_context'[u] = rd_context[u]
      /\ wt_context' \in [Threads -> Contexts \cup {Null}]
      /\ rd_context' \in [Threads -> Contexts \cup {Null}]
      /\ calls'[t] = << >>
  BY <1>1, <1>2 DEF TypeOK
<1>10. UfuncOk(t)'
  BY <1>2, <1>6, <1>9 DEF UfuncOk
<1>11. QED
  BY <1>2, <1>5, <1>6, <1>8, <1>9, <1>10, ReturnKeeps

(* Whose own context is whose, when the thread c is forked for a call of t *)
(* with the context x.                                                     *)
LEMMA CallOwns ==
  ASSUME OwnsOk, NEW t \in Threads, NEW c \in Threads, NEW x,
         Children(t)' = {c}, InBody(t)', Top(t)'.ctx = x, Own(c)' = x, ~ InBody(t),
         \A u \in Threads : u # t => Children(u)' = Children(u),
         \A u \in Threads : Below(u) \subseteq Below(u)',
         \A u \in Threads : Alive(u)' => Alive(u) \/ u = c,
         \A u \in Threads : Alive(u) => Own(u)' = Own(u) /\ Own(u) # x,
         \A q \in Threads : q # t => (InBody(q)' <=> InBody(q)),
         \A q \in Threads : q # t /\ InBody(q) => Top(q)' = Top(q) /\ Top(q).ctx # x
  PROVE  OwnsOk'
<1>1. ASSUME NEW u \in Threads, Alive(u)', Own(u)' # Null
      PROVE  \E q \in Threads : InBody(q)' /\ Top(q)'.ctx = Own(u)'
  <2>1. CASE u = c
    BY <2>1
  <2>2. CASE u # c
    <3>1. Alive(u) /\ Own(u)' = Own(u)
      BY <1>1, <2>2
    <3>2. PICK q \in Threads : InBody(q) /\ Top(q).ctx = Own(u)
      BY <1>1, <3>1 DEF OwnsOk
    <3>3. q # t /\ InBody(q)' /\ Top(q)' = Top(q)
      BY <3>2
    <3>4. QED
      BY <3>1, <3>2, <3>3
  <2>3. QED
    BY <2>1, <2>2
<1>2. ASSUME NEW q \in Threads, NEW u \in Threads, NEW d \in Threads, InBody(q)',
             d \in Children(q)', Alive(u)', Own(u)' = Top(q)'.ctx
      PROVE  u \in Below(d)' \cup {d}
  <2>1. CASE q = t
    <3>1. d = c /\ Own(u)' = x
      BY <1>2, <2>1
    <3>2. u = c
      BY <1>2, <3>1
    <3>3. QED
      BY <3>1, <3>2
  <2>2. CASE q # t
    <3>1. InBody(q) /\ d \in Children(q) /\ Top(q)' = Top(q) /\ Top(q).ctx # x
      BY <1>2, <2>2
    <3>2. Alive(u) /\ Own(u)' = Own(u)
      BY <1>2, <3>1
    <3>3. u \in Below(d) \cup {d}
      BY <1>2, <3>1, <3>2 DEF OwnsOk
    <3>4. QED
      BY <3>3
  <2>3. QED
    BY <2>1, <2>2
<1>3. QED
  BY <1>1, <1>2 DEF OwnsOk

(* A thread with no call open uses its own context. *)
LEMMA NoCallStacks ==
  ASSUME NEW t \in Threads, calls[t] = << >>
  PROVE  StacksOk(t) <=> wt_context[t] = Own(t) /\ rd_context[t] = Own(t)
<1>1. DOMAIN calls[t] = {}
  OBVIOUS
<1>2. /\ FirstAt(calls[t], 0, Writing, Own(t), wt_context[t]) <=> wt_context[t] = Own(t)
      /\ FirstAt(calls[t], 0, Reading, Own(t), rd_context[t]) <=> rd_context[t] = Own(t)
  BY <1>1, FirstNone
<1>3. QED
  BY <1>1, <1>2 DEF StacksOk

LEMMA NewStacks ==
  ASSUME NEW t \in Threads, calls'[t] = << >>,
         wt_context'[t] = Own(t)', rd_context'[t] = Own(t)'
  PROVE  StacksOk(t)'
<1>1. DOMAIN calls'[t] = {}
  OBVIOUS
<1>2. /\ FirstAt(calls'[t], 0, Writing, Own(t)', wt_context'[t])
      /\ FirstAt(calls'[t], 0, Reading, Own(t)', rd_context'[t])
  BY <1>1, FirstNone
<1>3. QED
  BY <1>1, <1>2 DEF StacksOk

LEMMA ForkCallKeeps ==
  ASSUME IInv, NEW t \in Threads, NEW c \in Threads, of_FORK_call(t, c)
  PROVE  IInv'
<1>1. /\ TypeOK /\ Unshared /\ ScopesOk /\ ArgumentsKept /\ TreeOk /\ ThreadsOk /\ OwnsOk
      /\ ListsOk /\ \E rank \in [Threads -> Nat] : Ordered(rank)
  BY InvParts
<1>2. /\ Runs(t) /\ calls[t] # << >> /\ Top(t).at = "ready" /\ status[c] = "unused"
      /\ parent' = [parent EXCEPT ![c] = t]
      /\ wt_context' = [wt_context EXCEPT ![c] = wt_context[t]]
      /\ rd_context' = [rd_context EXCEPT ![c] = wt_context[t]]
      /\ status' = [status EXCEPT ![c] = "running", ![t] = "joining"]
      /\ calls' = [calls EXCEPT ![t][1].at = "body"]
      /\ UNCHANGED <<stacked, live_contexts, free_contexts, port, todo, n, abandoned>>
  BY DEF of_FORK_call, NewChild
<1>3. todo[t] = 0 /\ t \notin UfuncRoots /\ StacksOk(t)
  BY <1>1, <1>2 DEF Runs, Alive, TreeOk, KidsOk, ThreadsOk, UfuncOk
<1>4. /\ Alive(t) /\ Children(t) = {} /\ ~ InBody(t)
      /\ \A k \in DOMAIN calls[t] : k > 1 => calls[t][k].at \in {"args", "outputs"}
  BY <1>1, <1>2, <1>3, NoChildren
<1>5. /\ calls' \in [Threads -> Seq(CallRecord)]
      /\ \A u \in Threads : u # t => calls'[u] = calls[u]
      /\ calls'[t] # << >> /\ 1 \in DOMAIN calls[t] /\ calls'[t][1].at = "body"
      /\ \A k \in DOMAIN calls[t] : k # 1 => calls'[t][k] = calls[t][k]
      /\ \A u \in Threads : DOMAIN calls'[u] = DOMAIN calls[u]
      /\ \A u \in Threads : \A k \in DOMAIN calls[u] :
           /\ calls'[u][k].ctx = calls[u][k].ctx /\ calls'[u][k].no = calls[u][k].no
           /\ calls'[u][k].scope = calls[u][k].scope
  BY <1>1, <1>2, MoveOn
<1>6. /\ c # t /\ status'[c] = "running" /\ status'[t] = "joining" /\ parent'[c] = t
      /\ wt_context'[c] = wt_context[t] /\ rd_context'[c] = wt_context[t]
      /\ \A u \in Threads : u # c => /\ parent'[u] = parent[u] /\ wt_context'[u] = wt_context[u]
                                     /\ rd_context'[u] = rd_context[u]
      /\ \A u \in Threads : u # c /\ u # t => status'[u] = status[u]
      /\ status[t] = "running"
  BY <1>1, <1>2 DEF Runs, TypeOK
<1>7. /\ Children(t)' = {c}
      /\ \A u \in Threads : u # t => Children(u)' = Children(u)
      /\ Children(c) = {} /\ calls[c] = << >> /\ todo[c] = 0 /\ c \notin Roots
      /\ \A u \in Threads : Below(u) \subseteq Below(u)'
      /\ (\E rank \in [Threads -> Nat] : Ordered(rank))'
  <2>1. PICK N \in SUBSET Threads : N = {c}
    OBVIOUS
  <2>2. /\ \A x \in N : status[x] = "unused" /\ parent'[x] = t /\ status'[x] = "running"
        /\ \A x \in Threads \ N : /\ parent'[x] = parent[x]
                                  /\ status'[x] = "reaped" <=> status[x] = "reaped"
    BY <1>2, <1>6, <2>1
  <2>3. /\ Children(t)' = N
        /\ \A u \in Threads : u # t => Children(u)' = Children(u)
        /\ \A x \in N : Children(x) = {} /\ parent[x] = Null /\ calls[x] = << >> /\ todo[x] = 0
                        /\ x \notin Roots
        /\ \A u \in Threads : Below(u) \subseteq Below(u)'
        /\ (\E rank \in [Threads -> Nat] : Ordered(rank))'
    BY <1>1, <1>4, <2>2, ForkTree
  <2>4. QED
    BY <2>1, <2>3
<1>8. \A u \in Threads : Alive(u)' <=> Alive(u) \/ u = c
  BY <1>4, <1>6 DEF Alive
<1>9. ASSUME NEW u \in Threads, Alive(u) PROVE Own(u)' = Own(u) /\ u # c
  <2>1. u # c
    BY <1>2, <1>9 DEF Alive
  <2>2. parent[u] # Null => parent[u] \in Threads /\ parent[u] # t /\ parent[u] # c
    BY <1>1, <1>4, <1>7, <1>9, ParentHasChild
  <2>3. QED
    BY <1>5, <1>6, <2>1, <2>2, OwnKept
<1>10. StacksOk(t)' /\ wt_context[t] = calls[t][1].ctx
  BY <1>1, <1>2, <1>3, <1>4, <1>6, <1>9, MoveStacks DEF Writing, Top
<1>11. Own(c)' = calls[t][1].ctx
  <2>1. t # Null
    BY ContextAssumption
  <2>2. QED
    BY <1>5, <1>6, <2>1 DEF Own, Top
<1>12. OwnsOk'
  <2>1. /\ InBody(t)' /\ Top(t)'.ctx = calls[t][1].ctx
    BY <1>4, <1>5, <1>8 DEF InBody, Top
  <2>2. ASSUME NEW q \in Threads, q # t PROVE InBody(q)' <=> InBody(q)
    <3>1. CASE q = c
      BY <1>5, <1>6, <1>7, <3>1 DEF InBody
    <3>2. CASE q # c
      BY <1>5, <1>8, <2>2, <3>2 DEF InBody, Top
    <3>3. QED
      BY <3>1, <3>2
  <2>3. ASSUME NEW q \in Threads, q # t, InBody(q)
        PROVE  Top(q)' = Top(q) /\ Top(q).ctx # calls[t][1].ctx
    <3>1. Alive(q) /\ 1 \in DOMAIN calls[q]
      BY <1>1, <2>3, CallFacts DEF InBody
    <3>2. QED
      BY <1>1, <1>4, <1>5, <2>3, <3>1 DEF Unshared, Top
  <2>4. ASSUME NEW u \in Threads, Alive(u), Own(u) = calls[t][1].ctx PROVE FALSE
    <3>1. Own(u) # Null
      BY <1>1, <1>5, <2>4, CallFacts
    <3>2. PICK q \in Threads : InBody(q) /\ Top(q).ctx = Own(u)
      BY <1>1, <2>4, <3>1 DEF OwnsOk
    <3>3. q # t
      BY <1>4, <3>2
    <3>4. QED
      BY <2>3, <2>4, <3>2, <3>3
  <2>5. QED
    BY <1>1, <1>4, <1>7, <1>8, <1>9, <1>11, <2>1, <2>2, <2>3, <2>4, CallOwns
<1>13. TypeOK'
  BY <1>1, <1>2, <1>5 DEF TypeOK
<1>14. Unshared' /\ ScopesOk' /\ ListsOk'
  <2>1. PICK D \in SUBSET Threads : D = {}
    OBVIOUS
  <2>2. abandoned' = abandoned \cup UNION {Taken(x) : x \in D}
    BY <1>2, <2>1
  <2>3. /\ \A u \in Threads : Alive(u) /\ u \notin D => Alive(u)'
        /\ \A u \in Threads : Alive(u)' => (Alive(u) \/ calls[u] = << >>) /\ u \notin D
    BY <1>7, <1>8, <2>1
  <2>4. QED
    BY <1>1, <1>2, <1>5, <2>2, <2>3, MoveKeeps
<1>15. ArgumentsKept'
  <2> SUFFICES ASSUME NEW u \in Threads, Alive(u)', NEW k \in DOMAIN calls'[u],
                      calls'[u][k].at \in {"ready", "body", "outputs"}
               PROVE  port[calls'[u][k].ctx] = calls'[u][k].no
    BY <1>2 DEF ArgumentsKept
  <2>1. k \in DOMAIN calls[u] /\ calls'[u][k].ctx = calls[u][k].ctx /\ calls'[u][k].no = calls[u][k].no
    BY <1>5
  <2>2. Alive(u)
    BY <1>7, <1>8, <2>1
  <2>3. calls[u][k].at \in {"ready", "body", "outputs"}
    <3>1. CASE u = t /\ k = 1
      BY <1>2, <3>1 DEF Top
    <3>2. CASE ~ (u = t /\ k = 1)
      BY <1>5, <2>1, <3>2
    <3>3. QED
      BY <3>1, <3>2
  <2>4. QED
    BY <1>1, <2>1, <2>2, <2>3 DEF ArgumentsKept
<1>16. TreeOk'
  <2>1. KidsOk(t)'
    <3>1. KidsOk(t) /\ todo'[t] = 0
      BY <1>1, <1>2, <1>3 DEF TreeOk
    <3>2. \A k \in DOMAIN calls'[t] : k > 1 => calls'[t][k].at \in {"args", "outputs"}
      BY <1>4, <1>5
    <3>3. QED
      BY <1>5, <1>6, <1>7, <3>1, <3>2 DEF KidsOk, Alive, Top
  <2>2. KidsOk(c)'
    <3>1. todo'[c] = 0 /\ calls'[c] = << >> /\ Children(c)' = {}
      BY <1>2, <1>5, <1>6, <1>7
    <3>2. QED
      BY <1>6, <1>7, <3>1 DEF KidsOk, Alive
  <2>3. ASSUME NEW u \in Threads, u # t, u # c PROVE KidsOk(u)'
    BY <1>1, <1>2, <1>5, <1>6, <1>7, <2>3, KidsKept DEF TreeOk
  <2>4. QED
    BY <2>1, <2>2, <2>3 DEF TreeOk
<1>17. ThreadsOk'
  <2> SUFFICES ASSUME NEW u \in Threads, Alive(u)'
               PROVE  IF u \in UfuncRoots THEN UfuncOk(u)' ELSE StacksOk(u)'
    BY DEF ThreadsOk
  <2>1. CASE u = t
    BY <1>3, <1>10, <2>1
  <2>2. CASE u = c
    <3>1. u \notin UfuncRoots
      BY <1>7, <2>2, ContextAssumption
    <3>2. StacksOk(u)'
      BY <1>5, <1>6, <1>7, <1>10, <1>11, <2>2, NewStacks
    <3>3. QED
      BY <3>1, <3>2
  <2>3. CASE u # t /\ u # c
    <3>1. Alive(u) /\ Own(u)' = Own(u) /\ calls'[u] = calls[u]
      BY <1>5, <1>8, <1>9, <2>3
    <3>2. CASE u \in UfuncRoots
      BY <1>1, <1>2, <1>6, <2>3, <3>1, <3>2, UfuncKept DEF ThreadsOk
    <3>3. CASE u \notin UfuncRoots
      BY <1>1, <1>2, <1>6, <2>3, <3>1, <3>3, StacksKept DEF ThreadsOk
    <3>4. QED
      BY <3>2, <3>3
  <2>4. QED
    BY <2>1, <2>2, <2>3
<1>18. QED
  BY <1>7, <1>12, <1>13, <1>14, <1>15, <1>16, <1>17 DEF IInv, OneCall, ScopesOk

LEMMA ForkBlockKeeps ==
  ASSUME IInv, NEW t \in Threads, NEW c \in Threads, NEW d \in Threads, of_FORK_block(t, c, d)
  PROVE  IInv'
<1>1. /\ TypeOK /\ Unshared /\ ScopesOk /\ ArgumentsKept /\ TreeOk /\ ThreadsOk /\ OwnsOk
      /\ ListsOk /\ \E rank \in [Threads -> Nat] : Ordered(rank)
  BY InvParts
<1>2. /\ Runs(t) /\ calls[t] = << >> /\ todo[t] = 0 /\ t \notin UfuncRoots /\ c # d
      /\ status[c] = "unused" /\ status[d] = "unused"
      /\ parent' = [parent EXCEPT ![c] = t, ![d] = t]
      /\ wt_context' = [wt_context EXCEPT ![c] = wt_context[t], ![d] = wt_context[t]]
      /\ rd_context' = [rd_context EXCEPT ![c] = wt_context[t], ![d] = wt_context[t]]
      /\ status' = [status EXCEPT ![c] = "running", ![d] = "running"]
      /\ todo' = [todo EXCEPT ![t] = 2]
      /\ UNCHANGED <<stacked, live_contexts, free_contexts, port, calls, n, abandoned>>
  BY DEF of_FORK_block, Statement
<1>3. Alive(t) /\ Children(t) = {} /\ ~ InBody(t)
  BY <1>1, <1>2, NoChildren
<1>4. PICK N \in SUBSET Threads : N = {c, d}
  OBVIOUS
<1>5. /\ t \notin N /\ \A x \in N : /\ status'[x] = "running" /\ parent'[x] = t
                                    /\ wt_context'[x] = wt_context[t] /\ rd_context'[x] = wt_context[t]
                                    /\ status[x] = "unused" /\ todo'[x] = todo[x]
      /\ \A u \in Threads \ N : /\ parent'[u] = parent[u] /\ wt_context'[u] = wt_context[u]
                                /\ rd_context'[u] = rd_context[u] /\ status'[u] = status[u]
      /\ \A u \in Threads : u # t => todo'[u] = todo[u]
      /\ todo'[t] = 2 /\ status[t] = "running"
  BY <1>1, <1>2, <1>4 DEF Runs, TypeOK
<1>6. /\ Children(t)' = N
      /\ \A u \in Threads : u # t => Children(u)' = Children(u)
      /\ \A x \in N : Children(x) = {} /\ parent[x] = Null /\ calls[x] = << >> /\ todo[x] = 0
                      /\ x \notin Roots
      /\ \A u \in Threads : Below(u) \subseteq Below(u)'
      /\ (\E rank \in [Threads -> Nat] : Ordered(rank))'
  BY <1>1, <1>3, <1>5, ForkTree
<1>7. \A u \in Threads : Alive(u)' <=> Alive(u) \/ u \in N
  BY <1>5 DEF Alive
<1>8. ASSUME NEW u \in Threads, Alive(u) PROVE Own(u)' = Own(u) /\ u \notin N
  <2>1. u \notin N
    BY <1>5, <1>8 DEF Alive
  <2>2. parent[u] # Null => parent[u] \in Threads /\ parent[u] # t /\ parent[u] \notin N
    BY <1>1, <1>3, <1>6, <1>8, ParentHasChild
  <2>3. QED
    BY <1>2, <1>5, <2>1, <2>2, OwnKept
<1>9. wt_context[t] = Own(t) /\ rd_context[t] = Own(t)
  BY <1>1, <1>2, <1>3, NoCallStacks DEF ThreadsOk
<1>a. calls' = calls /\ stacked' = stacked
  BY <1>2
<1>10. ASSUME NEW x \in N PROVE Own(x)' = Own(t)
  <2>1. t # Null
    BY ContextAssumption
  <2>2. parent'[x] = t /\ calls'[t] = << >> /\ wt_context'[t] = Own(t)
    BY <1>2, <1>5, <1>9, <1>a
  <2>3. QED
    BY <2>1, <2>2 DEF Own
<1>11. ASSUME NEW q \in Threads PROVE (InBody(q)' <=> InBody(q)) /\ Top(q)' = Top(q)
  <2>1. Top(q)' = Top(q)
    BY <1>a DEF Top
  <2>2. CASE q \in N
    BY <1>6, <1>a, <2>1, <2>2 DEF InBody
  <2>3. CASE q \notin N
    BY <1>7, <1>a, <2>1, <2>3 DEF InBody
  <2>4. QED
    BY <2>1, <2>2, <2>3
<1>12. OwnsOk'
  <2>1. ASSUME NEW u \in Threads, Alive(u)', Own(u)' # Null
        PROVE  \E q \in Threads : InBody(q)' /\ Top(q)'.ctx = Own(u)'
    <3>1. PICK v \in Threads : Alive(v) /\ Own(v) = Own(u)'
      BY <1>3, <1>7, <1>8, <1>10, <2>1
    <3>2. PICK q \in Threads : InBody(q) /\ Top(q).ctx = Own(v)
      BY <1>1, <2>1, <3>1 DEF OwnsOk
    <3>3. QED
      BY <1>11, <3>1, <3>2
  <2>2. ASSUME NEW q \in Threads, NEW u \in Threads, NEW e \in Threads, InBody(q)',
               e \in Children(q)', Alive(u)', Own(u)' = Top(q)'.ctx
        PROVE  u \in Below(e)' \cup {e}
    <3>1. InBody(q) /\ Top(q)' = Top(q) /\ q # t
      BY <1>3, <1>11, <2>2
    <3>2. e \in Children(q)
      BY <1>6, <2>2, <3>1
    <3>3. CASE u \in N
      <4>1. Own(t) = Top(q).ctx
        BY <1>10, <2>2, <3>1, <3>3
      <4>2. t \in Below(e) \cup {e}
        BY <1>1, <1>3, <3>1, <3>2, <4>1 DEF OwnsOk
      <4>3. t \in Below(e)' \cup {e}
        BY <1>6, <4>2
      <4>4. BelowIsClosed'
        BY BelowClosed, PTL
      <4>5. Children(e)' \subseteq Below(e)' /\ \A y \in Below(e)' : Children(y)' \subseteq Below(e)'
        BY <4>4 DEF BelowIsClosed, Closed
      <4>6. QED
        BY <1>6, <3>3, <4>3, <4>5
    <3>4. CASE u \notin N
      <4>1. Alive(u) /\ Own(u) = Top(q).ctx
        BY <1>7, <1>8, <2>2, <3>1, <3>4
      <4>2. u \in Below(e) \cup {e}
        BY <1>1, <3>1, <3>2, <4>1 DEF OwnsOk
      <4>3. QED
        BY <1>6, <4>2
    <3>5. QED
      BY <3>3, <3>4
  <2>3. QED
    BY <2>1, <2>2 DEF OwnsOk
<1>13. TypeOK'
  <2>1. /\ wt_context[t] \in Contexts \cup {Null} /\ 2 \in 0..2 /\ t \in Threads \cup {Null}
        /\ wt_context \in [Threads -> Contexts \cup {Null}]
        /\ rd_context \in [Threads -> Contexts \cup {Null}]
        /\ parent \in [Threads -> Threads \cup {Null}] /\ todo \in [Threads -> 0..2]
        /\ status \in [Threads -> {"unused", "running", "joining", "ended", "reaped"}]
    BY <1>1 DEF TypeOK
  <2>2. wt_context' \in [Threads -> Contexts \cup {Null}]
    BY <1>2, <2>1
  <2>3. rd_context' \in [Threads -> Contexts \cup {Null}]
    BY <1>2, <2>1
  <2>4. parent' \in [Threads -> Threads \cup {Null}]
    BY <1>2, <2>1
  <2>5. status' \in [Threads -> {"unused", "running", "joining", "ended", "reaped"}]
    BY <1>2, <2>1
  <2>6. todo' \in [Threads -> 0..2]
    BY <1>2, <2>1
  <2>7. UNCHANGED <<stacked, live_contexts, free_contexts, port, calls, n, abandoned>>
    BY <1>2
  <2>8. QED
    BY <1>1, <2>2, <2>3, <2>4, <2>5, <2>6, <2>7 DEF TypeOK
<1>14. Unshared' /\ ScopesOk' /\ ListsOk'
  <2>1. PICK D \in SUBSET Threads : D = {}
    OBVIOUS
  <2>2. abandoned' = abandoned \cup UNION {Taken(x) : x \in D}
    BY <1>2, <2>1
  <2>3. /\ \A u \in Threads : Alive(u) /\ u \notin D => Alive(u)'
        /\ \A u \in Threads : Alive(u)' => (Alive(u) \/ calls[u] = << >>) /\ u \notin D
    BY <1>6, <1>7, <2>1
  <2>4. QED
    BY <1>1, <1>2, <2>2, <2>3, MoveKeeps
<1>15. ArgumentsKept'
  <2> SUFFICES ASSUME NEW u \in Threads, Alive(u)', NEW k \in DOMAIN calls[u],
                      calls[u][k].at \in {"ready", "body", "outputs"}
               PROVE  port[calls[u][k].ctx] = calls[u][k].no
    BY <1>2 DEF ArgumentsKept
  <2>1. Alive(u)
    BY <1>6, <1>7
  <2>2. QED
    BY <1>1, <2>1 DEF ArgumentsKept
<1>16. TreeOk'
  <2>1. KidsOk(t)'
    <3>1. KidsOk(t) /\ parent'[t] = parent[t] /\ status'[t] = "running" /\ calls'[t] = << >>
      BY <1>1, <1>2, <1>5 DEF TreeOk
    <3>2. \E x, y \in Threads : x # y /\ Children(t)' = {x, y}
      BY <1>2, <1>4, <1>6
    <3>3. QED
      BY <1>5, <3>1, <3>2 DEF KidsOk, Alive
  <2>2. ASSUME NEW x \in N PROVE KidsOk(x)'
    <3>1. todo'[x] = 0 /\ calls'[x] = << >> /\ Children(x)' = {} /\ status'[x] = "running"
      BY <1>5, <1>6, <1>a
    <3>2. QED
      BY <1>6, <3>1 DEF KidsOk, Alive
  <2>3. ASSUME NEW u \in Threads, u # t, u \notin N PROVE KidsOk(u)'
    BY <1>1, <1>2, <1>5, <1>6, <2>3, KidsKept DEF TreeOk
  <2>4. QED
    BY <2>1, <2>2, <2>3 DEF TreeOk
<1>17. ThreadsOk'
  <2> SUFFICES ASSUME NEW u \in Threads, Alive(u)'
               PROVE  IF u \in UfuncRoots THEN UfuncOk(u)' ELSE StacksOk(u)'
    BY DEF ThreadsOk
  <2>1. CASE u \in N
    <3>1. u \notin UfuncRoots
      BY <1>6, <2>1, ContextAssumption
    <3>2. calls'[u] = << >> /\ wt_context'[u] = Own(u)' /\ rd_context'[u] = Own(u)'
      BY <1>2, <1>5, <1>6, <1>9, <1>10, <2>1
    <3>3. QED
      BY <3>1, <3>2, NewStacks
  <2>2. CASE u \notin N
    <3>1. Alive(u) /\ Own(u)' = Own(u) /\ calls' = calls /\ stacked' = stacked
      BY <1>2, <1>7, <1>8, <2>2
    <3>2. CASE u \in UfuncRoots
      <4>1. u # t
        BY <1>2, <3>2
      <4>2. QED
        BY <1>1, <1>5, <2>2, <3>1, <3>2, <4>1, UfuncKept DEF ThreadsOk
    <3>3. CASE u \notin UfuncRoots
      BY <1>1, <1>5, <2>2, <3>1, <3>3, StacksKept DEF ThreadsOk
    <3>4. QED
      BY <3>2, <3>3
  <2>3. QED
    BY <2>1, <2>2
<1>18. QED
  BY <1>6, <1>12, <1>13, <1>14, <1>15, <1>16, <1>17 DEF IInv, OneCall, ScopesOk

LEMMA ExecUfuncKeeps ==
  ASSUME IInv, NEW t \in Threads, NEW s \in Scopes, NEW c \in Threads, NEW x \in Contexts,
         do_exec_ufunc(t, s, c, x)
  PROVE  IInv'
<1>1. /\ TypeOK /\ Unshared /\ ScopesOk /\ ArgumentsKept /\ TreeOk /\ ThreadsOk /\ OwnsOk
      /\ ListsOk /\ \E rank \in [Threads -> Nat] : Ordered(rank)
  BY InvParts
<1>2. /\ Runs(t) /\ t \in UfuncRoots /\ calls[t] = << >> /\ todo[t] = 0 /\ n < MaxCalls
      /\ status[c] = "unused" /\ vthread_alloc_context(s, x)
      /\ wt_context' = [wt_context EXCEPT ![t] = x, ![c] = x]
      /\ rd_context' = [rd_context EXCEPT ![t] = x, ![c] = x]
      /\ n' = n + 1
      /\ port' = [port EXCEPT ![x] = n + 1]
      /\ parent' = [parent EXCEPT ![c] = t]
      /\ status' = [status EXCEPT ![c] = "running", ![t] = "joining"]
      /\ UNCHANGED <<stacked, todo, abandoned>>
  BY DEF do_exec_ufunc, Statement
<1>3. PICK r : r = [ctx |-> x, no |-> n + 1, scope |-> s, kind |-> "ufunc", at |-> "body"]
  OBVIOUS
<1>4. /\ r \in CallRecord /\ r.ctx = x /\ r.scope = s /\ r.kind = "ufunc" /\ r.at = "body"
      /\ r.no = n + 1 /\ n + 1 \in 1..MaxCalls
  BY <1>1, <1>2, <1>3, ContextAssumption DEF CallRecord, TypeOK
<1>5. /\ calls' = [calls EXCEPT ![t] = <<r>>] /\ calls'[t] = <<r>>
      /\ \A u \in Threads : u # t => calls'[u] = calls[u]
      /\ calls' \in [Threads -> Seq(CallRecord)]
  <2>1. calls' = [calls EXCEPT ![t] = <<r>>]
    BY <1>3 DEF do_exec_ufunc
  <2>2. <<r>> \in Seq(CallRecord)
    BY <1>4
  <2>3. QED
    BY <1>1, <2>1, <2>2 DEF TypeOK
<1>6. calls' = [calls EXCEPT ![t] = <<r>> \o @]
  <2>1. <<r>> \o << >> = <<r>>
    <3>1. <<r>> \in Seq(CallRecord)
      BY <1>4
    <3>2. QED
      BY <3>1, ConcatEmptySeq
  <2>2. QED
    BY <1>2, <1>5, <2>1
<1>7. Alive(t) /\ Children(t) = {} /\ ~ InBody(t)
  BY <1>1, <1>2, NoChildren
<1>8. /\ c # t /\ status'[c] = "running" /\ status'[t] = "joining" /\ parent'[c] = t
      /\ \A u \in Threads : u # c => parent'[u] = parent[u]
      /\ \A u \in Threads : u # c /\ u # t => status'[u] = status[u]
      /\ status[t] = "running"
  BY <1>1, <1>2 DEF Runs, TypeOK
<1>9. /\ wt_context'[c] = x /\ rd_context'[c] = x /\ wt_context'[t] = x /\ rd_context'[t] = x
      /\ \A u \in Threads : u # c /\ u # t => /\ wt_context'[u] = wt_context[u]
                                              /\ rd_context'[u] = rd_context[u]
  BY <1>1, <1>2, <1>8 DEF TypeOK
<1>10. /\ Children(t)' = {c}
       /\ \A u \in Threads : u # t => Children(u)' = Children(u)
       /\ Children(c) = {} /\ calls[c] = << >> /\ todo[c] = 0 /\ c \notin Roots
       /\ \A u \in Threads : Below(u) \subseteq Below(u)'
       /\ (\E rank \in [Threads -> Nat] : Ordered(rank))'
  <2>1. PICK N \in SUBSET Threads : N = {c}
    OBVIOUS
  <2>2. /\ \A y \in N : status[y] = "unused" /\ parent'[y] = t /\ status'[y] = "running"
        /\ \A y \in Threads \ N : /\ parent'[y] = parent[y]
                                  /\ status'[y] = "reaped" <=> status[y] = "reaped"
    BY <1>2, <1>8, <2>1
  <2>3. /\ Children(t)' = N
        /\ \A u \in Threads : u # t => Children(u)' = Children(u)
        /\ \A y \in N : Children(y) = {} /\ parent[y] = Null /\ calls[y] = << >> /\ todo[y] = 0
                        /\ y \notin Roots
        /\ \A u \in Threads : Below(u) \subseteq Below(u)'
        /\ (\E rank \in [Threads -> Nat] : Ordered(rank))'
    BY <1>1, <1>7, <2>2, ForkTree
  <2>4. QED
    BY <2>1, <2>3
<1>11. \A u \in Threads : Alive(u)' <=> Alive(u) \/ u = c
  BY <1>7, <1>8 DEF Alive
<1>12. ASSUME NEW u \in Threads, Alive(u) PROVE Own(u)' = Own(u) /\ u # c
  <2>1. u # c
    BY <1>2, <1>12 DEF Alive
  <2>2. parent[u] # Null => parent[u] \in Threads /\ parent[u] # t /\ parent[u] # c
    BY <1>1, <1>7, <1>10, <1>12, ParentHasChild
  <2>3. QED
    BY <1>5, <1>8, <1>9, <2>1, <2>2, OwnKept
<1>13. Own(c)' = x
  <2>1. t # Null /\ <<r>> # << >>
    BY ContextAssumption
  <2>2. QED
    BY <1>4, <1>5, <1>8, <2>1 DEF Own, Top
<1>14. /\ live_contexts' \in [Scopes -> Seq(Contexts)]
       /\ free_contexts' \in [Scopes -> Seq(Contexts)]
       /\ \A z \in Scopes : x \notin Range(live_contexts[z])
  BY <1>1, <1>2, AllocLists
<1>15. /\ \A u \in Threads : \A k \in DOMAIN calls[u] : calls[u][k].ctx # x
       /\ \A u \in Threads : Alive(u) => Own(u) # x
  BY <1>1, <1>14, Fresh
<1>16. OwnsOk'
  <2>1. InBody(t)' /\ Top(t)'.ctx = x
    BY <1>4, <1>5, <1>7, <1>11 DEF InBody, Top
  <2>2. ASSUME NEW q \in Threads, q # t PROVE InBody(q)' <=> InBody(q)
    <3>1. CASE q = c
      BY <1>5, <1>8, <1>10, <3>1 DEF InBody
    <3>2. CASE q # c
      BY <1>5, <1>11, <2>2, <3>2 DEF InBody, Top
    <3>3. QED
      BY <3>1, <3>2
  <2>3. ASSUME NEW q \in Threads, q # t, InBody(q) PROVE Top(q)' = Top(q) /\ Top(q).ctx # x
    <3>1. 1 \in DOMAIN calls[q]
      BY <1>1, <2>3, CallFacts DEF InBody
    <3>2. QED
      BY <1>5, <1>15, <2>3, <3>1 DEF Top
  <2>4. QED
    BY <1>1, <1>7, <1>10, <1>11, <1>12, <1>13, <1>15, <2>1, <2>2, <2>3, CallOwns
<1>17. TypeOK'
  <2>1. n' \in 0..MaxCalls /\ n + 1 \in 0..MaxCalls
    BY <1>1, <1>2, <1>4, ContextAssumption DEF TypeOK
  <2>2. port' \in [Contexts -> 0..MaxCalls]
    BY <1>1, <1>2, <2>1 DEF TypeOK
  <2>3. wt_context' \in [Threads -> Contexts \cup {Null}] /\ rd_context' \in [Threads -> Contexts \cup {Null}]
    BY <1>1, <1>2 DEF TypeOK
  <2>4. parent' \in [Threads -> Threads \cup {Null}]
    BY <1>1, <1>2 DEF TypeOK
  <2>5. status' \in [Threads -> {"unused", "running", "joining", "ended", "reaped"}]
    BY <1>1, <1>2 DEF TypeOK
  <2>6. UNCHANGED <<stacked, todo, abandoned>>
    BY <1>2
  <2>7. QED
    BY <1>1, <1>5, <1>14, <2>1, <2>2, <2>3, <2>4, <2>5, <2>6 DEF TypeOK
<1>18. Unshared' /\ ScopesOk' /\ ListsOk' /\ ArgumentsKept'
  <2>1. /\ \A u \in Threads : Alive(u) => Alive(u)'
        /\ \A u \in Threads : Alive(u)' => Alive(u) \/ calls[u] = << >>
        /\ Alive(t)' /\ abandoned' = abandoned
    BY <1>2, <1>7, <1>10, <1>11
  <2>2. PICK v : v = n + 1 /\ v = r.no /\ port' = [port EXCEPT ![x] = v]
    BY <1>2, <1>4
  <2>3. vthread_alloc_context(s, x)
    BY <1>2
  <2>4. QED
    BY <1>1, <1>4, <1>6, <1>7, <2>1, <2>2, <2>3, PushKeeps
<1>19. TreeOk'
  <2>1. KidsOk(t)'
    <3>1. KidsOk(t) /\ todo'[t] = 0 /\ parent'[t] = parent[t]
      BY <1>1, <1>2, <1>8 DEF TreeOk
    <3>2. calls'[t] # << >> /\ DOMAIN calls'[t] = {1} /\ calls'[t][1].at = "body"
      BY <1>4, <1>5
    <3>3. \A k \in DOMAIN calls'[t] : k > 1 => calls'[t][k].at \in {"args", "outputs"}
      BY <3>2
    <3>4. QED
      BY <1>8, <1>10, <3>1, <3>2, <3>3 DEF KidsOk, Alive, Top
  <2>2. KidsOk(c)'
    <3>1. todo'[c] = 0 /\ calls'[c] = << >> /\ Children(c)' = {}
      BY <1>2, <1>5, <1>8, <1>10
    <3>2. QED
      BY <1>8, <1>10, <3>1 DEF KidsOk, Alive
  <2>3. ASSUME NEW u \in Threads, u # t, u # c PROVE KidsOk(u)'
    <3>1. /\ KidsOk(u) /\ status'[u] = status[u] /\ parent'[u] = parent[u]
          /\ calls'[u] = calls[u] /\ todo'[u] = todo[u] /\ Children(u)' = Children(u)
      BY <1>1, <1>2, <1>5, <1>8, <1>10, <2>3 DEF TreeOk
    <3>2. QED
      BY <3>1, KidsKept
  <2>4. QED
    BY <2>1, <2>2, <2>3 DEF TreeOk
<1>20. ThreadsOk'
  <2> SUFFICES ASSUME NEW u \in Threads, Alive(u)'
               PROVE  IF u \in UfuncRoots THEN UfuncOk(u)' ELSE StacksOk(u)'
    BY DEF ThreadsOk
  <2>1. CASE u = t
    <3>1. todo'[t] = 0 /\ Len(<<r>>) = 1 /\ <<r>>[1] = r
      BY <1>2
    <3>2. UfuncOk(t)'
      BY <1>4, <1>5, <1>9, <3>1 DEF UfuncOk, Top
    <3>3. QED
      BY <1>2, <2>1, <3>2
  <2>2. CASE u = c
    <3>1. u \notin UfuncRoots
      BY <1>10, <2>2, ContextAssumption
    <3>2. calls'[u] = << >> /\ wt_context'[u] = Own(u)' /\ rd_context'[u] = Own(u)'
      BY <1>5, <1>8, <1>9, <1>10, <1>13, <2>2
    <3>3. QED
      BY <3>1, <3>2, NewStacks
  <2>3. CASE u # t /\ u # c
    <3>1. /\ Alive(u) /\ Own(u)' = Own(u) /\ calls'[u] = calls[u] /\ todo' = todo
          /\ stacked' = stacked /\ wt_context'[u] = wt_context[u] /\ rd_context'[u] = rd_context[u]
      BY <1>2, <1>5, <1>9, <1>11, <1>12, <2>3
    <3>2. CASE u \in UfuncRoots
      BY <1>1, <3>1, <3>2, UfuncKept DEF ThreadsOk
    <3>3. CASE u \notin UfuncRoots
      BY <1>1, <3>1, <3>3, StacksKept DEF ThreadsOk
    <3>4. QED
      BY <3>2, <3>3
  <2>4. QED
    BY <2>1, <2>2, <2>3
<1>21. QED
  BY <1>10, <1>16, <1>17, <1>18, <1>19, <1>20 DEF IInv, OneCall, ScopesOk

(* Whose own context is whose, when the threads D leave the tree. *)
LEMMA PruneOwns ==
  ASSUME OwnsOk, NEW D \in SUBSET Threads, Closed(D),
         \A u \in Threads : Children(u)' \subseteq Children(u),
         \A u \in Threads : Children(u) \subseteq Children(u)' \cup D,
         \A u \in Threads : Alive(u)' => Alive(u) /\ u \notin D /\ Own(u)' = Own(u),
         \A q \in Threads : InBody(q)' => InBody(q),
         \A q \in Threads : InBody(q) => Top(q)'.ctx = Top(q).ctx,
         \A q \in Threads : InBody(q) =>
           InBody(q)' \/ \E e \in Threads : e \in Children(q) /\ Below(e) \cup {e} \subseteq D
  PROVE  OwnsOk'
<1>1. ASSUME NEW u \in Threads, Alive(u)', Own(u)' # Null
      PROVE  \E q \in Threads : InBody(q)' /\ Top(q)'.ctx = Own(u)'
  <2>1. Alive(u) /\ u \notin D /\ Own(u)' = Own(u)
    BY <1>1
  <2>2. PICK q \in Threads : InBody(q) /\ Top(q).ctx = Own(u)
    BY <1>1, <2>1 DEF OwnsOk
  <2>3. InBody(q)'
    <3> SUFFICES ASSUME ~ InBody(q)' PROVE FALSE
      OBVIOUS
    <3>1. PICK e \in Threads : e \in Children(q) /\ Below(e) \cup {e} \subseteq D
      BY <2>2
    <3>2. u \in Below(e) \cup {e}
      BY <2>1, <2>2, <3>1 DEF OwnsOk
    <3>3. QED
      BY <2>1, <3>1, <3>2
  <2>4. QED
    BY <2>1, <2>2, <2>3
<1>2. ASSUME NEW q \in Threads, NEW u \in Threads, NEW e \in Threads, InBody(q)',
             e \in Children(q)', Alive(u)', Own(u)' = Top(q)'.ctx
      PROVE  u \in Below(e)' \cup {e}
  <2>1. /\ InBody(q) /\ e \in Children(q) /\ Alive(u) /\ u \notin D
        /\ Own(u) = Top(q).ctx
    BY <1>2
  <2>2. u \in Below(e) \cup {e}
    BY <2>1 DEF OwnsOk
  <2>3. Below(e) \subseteq Below(e)' \cup D
    BY BelowShrinks
  <2>4. QED
    BY <2>1, <2>2, <2>3
<1>3. QED
  BY <1>1, <1>2 DEF OwnsOk

LEMMA PruneRank ==
  ASSUME \E rank \in [Threads -> Nat] : Ordered(rank),
         \A u \in Threads : Children(u)' \subseteq Children(u)
  PROVE  (\E rank \in [Threads -> Nat] : Ordered(rank))'
  BY DEF Ordered

(* A thread with joins left has no call open and both stacks empty. *)
LEMMA BlockStacks ==
  ASSUME TypeOK, TreeOk, ThreadsOk, NEW t \in Threads, Alive(t), todo[t] > 0
  PROVE  /\ calls[t] = << >> /\ t \notin UfuncRoots /\ todo[t] \in {1, 2}
         /\ wt_context[t] = Own(t) /\ rd_context[t] = Own(t)
<1>1. calls[t] = << >>
  BY DEF TreeOk, KidsOk
<1>2. t \notin UfuncRoots
  BY DEF ThreadsOk, UfuncOk
<1>3. todo[t] \in {1, 2}
  BY DEF TypeOK
<1>4. StacksOk(t)
  BY <1>2 DEF ThreadsOk
<1>5. QED
  BY <1>1, <1>2, <1>3, <1>4, NoCallStacks

(* One of the joins of a fork block is done. *)
LEMMA KidsJoined ==
  ASSUME NEW t \in Threads, NEW c \in Threads, KidsOk(t), c \in Children(t), Alive(t),
         calls[t] = << >>, todo[t] \in {1, 2}, todo'[t] = todo[t] - 1, calls'[t] = << >>,
         status'[t] = "running", parent'[t] = parent[t], Children(t)' = Children(t) \ {c}
  PROVE  KidsOk(t)'
<1>1. t \in Roots => parent'[t] = Null
  BY DEF KidsOk
<1>2. CASE todo[t] = 1
  <2>1. PICK x \in Threads : Children(t) = {x}
    BY <1>2 DEF KidsOk
  <2>2. Children(t)' = {} /\ todo'[t] = 0
    BY <1>2, <2>1
  <2>3. QED
    BY <1>1, <2>2 DEF KidsOk, Alive
<1>3. CASE todo[t] = 2
  <2>1. PICK x \in Threads, y \in Threads : x # y /\ Children(t) = {x, y}
    BY <1>3 DEF KidsOk
  <2>2. (\E z \in Threads : Children(t)' = {z}) /\ todo'[t] = 1
    BY <1>3, <2>1
  <2>3. QED
    BY <1>1, <2>2 DEF KidsOk, Alive
<1>4. QED
  BY <1>2, <1>3

LEMMA JoinKeeps ==
  ASSUME IInv, NEW t \in Threads, of_JOIN(t)
  PROVE  IInv'
<1>1. /\ TypeOK /\ Unshared /\ ScopesOk /\ ArgumentsKept /\ TreeOk /\ ThreadsOk /\ OwnsOk
      /\ ListsOk /\ \E rank \in [Threads -> Nat] : Ordered(rank)
  BY InvParts
<1>2. /\ Alive(t) /\ status[t] = "running" /\ todo[t] > 0
      /\ UNCHANGED <<live_contexts, free_contexts, port, parent, n, abandoned>>
  BY DEF of_JOIN, Runs, Alive
<1>3. /\ calls[t] = << >> /\ t \notin UfuncRoots /\ todo[t] \in {1, 2}
      /\ wt_context[t] = Own(t) /\ rd_context[t] = Own(t)
  BY <1>1, <1>2, BlockStacks
<1>4. ASSUME NEW D \in SUBSET Threads, Closed(D), UNCHANGED <<calls, wt_context, rd_context, stacked>>,
             todo' \in [Threads -> 0..2], \A u \in Threads : u # t => todo'[u] = todo[u],
             status' \in [Threads -> {"unused", "running", "joining", "ended", "reaped"}],
             \A u \in Threads : Alive(u)' <=> Alive(u),
             \A u \in D : ~ Alive(u),
             \A u \in Threads : u # t /\ u \notin D => status'[u] = status[u],
             \A u \in Threads : Children(u)' = Children(u) \ D,
             \A u \in Threads : u # t => Children(u)' = Children(u),
             \A u \in D : status'[u] = "reaped" /\ status[u] = "ended",
             KidsOk(t)'
      PROVE  IInv'
  <2>1. ASSUME NEW u \in Threads PROVE Own(u)' = Own(u) /\ InBody(u)' = InBody(u) /\ Top(u)' = Top(u)
    BY <1>2, <1>4 DEF Own, InBody, Top
  <2>2. OwnsOk' /\ (\E rank \in [Threads -> Nat] : Ordered(rank))'
    <3>1. /\ \A u \in Threads : Children(u)' \subseteq Children(u)
          /\ \A u \in Threads : Children(u) \subseteq Children(u)' \cup D
          /\ \A u \in Threads : Alive(u)' => Alive(u) /\ u \notin D /\ Own(u)' = Own(u)
      BY <1>4, <2>1
    <3>2. OwnsOk'
      BY <1>1, <1>4, <2>1, <3>1, PruneOwns
    <3>3. QED
      BY <1>1, <3>1, <3>2, PruneRank
  <2>3. TypeOK'
    BY <1>1, <1>2, <1>4 DEF TypeOK
  <2>4. Unshared' /\ ScopesOk' /\ ListsOk'
    <3>1. PICK E \in SUBSET Threads : E = {}
      OBVIOUS
    <3>2. abandoned' = abandoned \cup UNION {Taken(x) : x \in E}
      BY <1>2, <3>1
    <3>3. QED
      BY <1>1, <1>2, <1>4, <3>1, <3>2, MoveKeeps
  <2>5. ArgumentsKept'
    BY <1>1, <1>2, <1>4 DEF ArgumentsKept
  <2>6. TreeOk'
    <3>1. ASSUME NEW u \in Threads, u # t PROVE KidsOk(u)'
      <4>1. KidsOk(u) /\ Children(u)' = Children(u) /\ calls' = calls /\ todo'[u] = todo[u] /\ parent' = parent
        BY <1>1, <1>2, <1>4, <3>1 DEF TreeOk
      <4>2. CASE u \in D
        <5>1. Children(u) = {} /\ ~ Alive(u)' /\ status'[u] = "reaped" /\ status[u] = "ended"
          BY <1>4, <4>1, <4>2 DEF KidsOk
        <5>2. u \in Roots => parent'[u] = Null
          BY <4>1 DEF KidsOk
        <5>3. QED
          BY <4>1, <5>1, <5>2 DEF KidsOk
      <4>3. CASE u \notin D
        BY <1>4, <3>1, <4>1, <4>3, KidsKept
      <4>4. QED
        BY <4>2, <4>3
    <3>2. QED
      BY <1>4, <3>1 DEF TreeOk
  <2>7. ThreadsOk'
    <3> SUFFICES ASSUME NEW u \in Threads, Alive(u)'
                 PROVE  IF u \in UfuncRoots THEN UfuncOk(u)' ELSE StacksOk(u)'
      BY DEF ThreadsOk
    <3>1. Alive(u) /\ Own(u)' = Own(u) /\ UNCHANGED <<calls, wt_context, rd_context, stacked>>
      BY <1>4, <2>1
    <3>2. CASE u \in UfuncRoots
      BY <1>1, <1>3, <1>4, <3>1, <3>2, UfuncKept DEF ThreadsOk
    <3>3. CASE u \notin UfuncRoots
      BY <1>1, <3>1, <3>3, StacksKept DEF ThreadsOk
    <3>4. QED
      BY <3>2, <3>3
  <2>8. QED
    BY <2>2, <2>3, <2>4, <2>5, <2>6, <2>7 DEF IInv, OneCall, ScopesOk
<1>5. CASE \E c \in Children(t) : status[c] = "ended"
  <2>1. PICK c \in Children(t) : /\ status[c] = "ended" /\ do_join(t, c)
                                 /\ status' = [status EXCEPT ![c] = "reaped"] /\ Joined(t)
    BY <1>5 DEF of_JOIN
  <2>2. /\ UNCHANGED <<wt_context, rd_context, stacked, calls>>
        /\ todo' = [todo EXCEPT ![t] = @ - 1]
    BY <1>2, <1>3, <2>1 DEF do_join, Joined
  <2>3. c \in Threads /\ parent[c] = t /\ ~ Alive(c) /\ c # t
    BY <1>2, <2>1 DEF Children, Alive
  <2>4. PICK D \in SUBSET Threads : D = {c}
    BY <2>3
  <2>5. Children(c) = {}
    BY <1>1, <2>3 DEF TreeOk, KidsOk
  <2>6. Closed(D)
    BY <2>4, <2>5 DEF Closed
  <2>7. /\ status'[c] = "reaped" /\ \A u \in Threads : u # c => status'[u] = status[u]
        /\ status' \in [Threads -> {"unused", "running", "joining", "ended", "reaped"}]
    BY <1>1, <2>1, <2>3 DEF TypeOK
  <2>8. /\ todo'[t] = todo[t] - 1 /\ \A u \in Threads : u # t => todo'[u] = todo[u]
        /\ todo' \in [Threads -> 0..2]
    BY <1>1, <1>3, <2>2 DEF TypeOK
  <2>9. /\ \A u \in Threads : Alive(u)' <=> Alive(u)
        /\ \A u \in D : ~ Alive(u)
    BY <2>3, <2>4, <2>7 DEF Alive
  <2>10. ASSUME NEW u \in Threads
         PROVE  Children(u)' = Children(u) \ D /\ (u # t => Children(u)' = Children(u))
    <3>1. Children(u)' = Children(u) \ D
      BY <1>2, <2>4, <2>7 DEF Children
    <3>2. u # t => c \notin Children(u)
      BY <2>3 DEF Children
    <3>3. QED
      BY <2>4, <3>1, <3>2
  <2>11. KidsOk(t)'
    <3>1. KidsOk(t) /\ status'[t] = "running" /\ calls'[t] = << >> /\ parent'[t] = parent[t]
      BY <1>1, <1>2, <1>3, <2>2, <2>3, <2>7 DEF TreeOk
    <3>2. Children(t)' = Children(t) \ {c}
      BY <2>4, <2>10
    <3>3. QED
      BY <1>2, <1>3, <2>1, <2>3, <2>8, <3>1, <3>2, KidsJoined
  <2>12. /\ \A u \in Threads : u # t /\ u \notin D => status'[u] = status[u]
         /\ \A u \in D : status'[u] = "reaped" /\ status[u] = "ended"
    BY <2>1, <2>4, <2>7
  <2>13. QED
    BY <1>4, <2>2, <2>6, <2>7, <2>8, <2>9, <2>10, <2>11, <2>12
<1>6. CASE ~ \E c \in Children(t) : status[c] = "ended"
  <2>1. /\ status' = [status EXCEPT ![t] = "joining"]
        /\ UNCHANGED <<wt_context, rd_context, stacked, calls, todo>>
    BY <1>6 DEF of_JOIN
  <2>2. PICK D \in SUBSET Threads : D = {}
    OBVIOUS
  <2>3. /\ status'[t] = "joining" /\ \A u \in Threads : u # t => status'[u] = status[u]
        /\ status' \in [Threads -> {"unused", "running", "joining", "ended", "reaped"}]
    BY <1>1, <2>1 DEF TypeOK
  <2>4. \A u \in Threads : Alive(u)' <=> Alive(u)
    BY <1>2, <2>3 DEF Alive
  <2>5. \A u \in Threads : status'[u] = "reaped" <=> status[u] = "reaped"
    BY <1>2, <2>3
  <2>6. \A u \in Threads : Children(u)' = Children(u)
    BY <1>2, <2>5 DEF Children
  <2>7. KidsOk(t)'
    <3>1. /\ KidsOk(t) /\ calls'[t] = << >> /\ todo'[t] = todo[t] /\ todo[t] # 0
          /\ parent' = parent
      BY <1>1, <1>2, <1>3, <2>1 DEF TreeOk
    <3>2. QED
      BY <1>2, <1>3, <2>3, <2>4, <2>6, <3>1 DEF KidsOk
  <2>8. /\ Closed(D) /\ todo' \in [Threads -> 0..2] /\ \A u \in Threads : todo'[u] = todo[u]
    BY <1>1, <2>1, <2>2 DEF Closed, TypeOK
  <2>9. /\ \A u \in Threads : Children(u)' = Children(u) \ D
        /\ \A u \in D : ~ Alive(u) /\ status'[u] = "reaped" /\ status[u] = "ended"
    BY <2>2, <2>6
  <2>10. QED
    BY <1>4, <2>1, <2>3, <2>4, <2>6, <2>7, <2>8, <2>9
<1>7. QED
  BY <1>5, <1>6

(* The thread c and its descendants are a part of the tree that only c's   *)
(* parent is linked to.                                                    *)
Subtree(c, D) ==
  /\ D \in SUBSET Threads /\ Closed(D)
  /\ parent[c] # Null => /\ parent[c] \in Threads /\ parent[c] \notin D
                         /\ c \in Children(parent[c]) /\ Alive(parent[c])
  /\ \A x \in Threads : \A y \in Children(x) : x \notin D /\ y \in D => y = c /\ x = parent[c]
  /\ \A x \in D : \A y \in Children(x) : y \in Below(c)
  /\ c \notin Below(c)

LEMMA EndTree ==
  ASSUME TypeOK, TreeOk, \E rank \in [Threads -> Nat] : Ordered(rank),
         NEW c \in Threads, Alive(c), NEW D, D = Below(c) \cup {c}
  PROVE  Subtree(c, D)
<1>1. D \in SUBSET Threads /\ \A x \in D : Children(x) \subseteq Below(c)
  BY BelowInside
<1>2. Closed(D)
  BY <1>1 DEF Closed
<1>3. ASSUME parent[c] # Null
      PROVE  /\ parent[c] \in Threads /\ parent[c] \notin D
             /\ c \in Children(parent[c]) /\ Alive(parent[c])
  <2>1. parent[c] \in Threads /\ c \in Children(parent[c])
    BY <1>3, ParentHasChild
  <2>2. parent[c] \notin D
    BY <2>1, AboveNotBelow
  <2>3. Alive(parent[c])
    BY <2>1 DEF TreeOk, KidsOk
  <2>4. QED
    BY <2>1, <2>2, <2>3
<1>4. ASSUME NEW x \in Threads, NEW y \in Children(x), x \notin D, y \in D
      PROVE  y = c /\ x = parent[c]
  <2>1. CASE y = c
    BY <2>1 DEF Children
  <2>2. CASE y # c
    <3>1. y \in Below(c)
      BY <1>4, <2>2
    <3>2. PICK z \in Below(c) \cup {c} : y \in Children(z)
      BY <3>1, BelowHasParent
    <3>3. z = x
      BY <3>2 DEF Children
    <3>4. QED
      BY <1>4, <3>2, <3>3
  <2>3. QED
    BY <2>1, <2>2
<1>5. QED
  BY <1>1, <1>2, <1>3, <1>4, AboveNotBelow DEF Subtree

(* The thread c ends, and its descendants with it. *)
EndStep(c, D, t) ==
  /\ abandoned' = abandoned \cup UNION {Taken(x) : x \in D}
  /\ UNCHANGED <<live_contexts, free_contexts, port, parent>>
  /\ \A u \in Below(c) : status'[u] = "reaped"
  /\ status'[c] \in {"ended", "reaped"}
  /\ \A u \in Threads : u \notin D /\ u # t => status'[u] = status[u]
  /\ t # Null => status'[t] = "running"
  /\ \A u \in Threads : u # t => /\ calls'[u] = calls[u] /\ wt_context'[u] = wt_context[u]
                                 /\ rd_context'[u] = rd_context[u] /\ todo'[u] = todo[u]
  /\ \A u \in Threads : DOMAIN calls'[u] = DOMAIN calls[u]
  /\ \A u \in Threads : calls'[u] # << >> <=> calls[u] # << >>
  /\ \A u \in Threads : \A k \in DOMAIN calls[u] :
       /\ calls'[u][k].ctx = calls[u][k].ctx /\ calls'[u][k].no = calls[u][k].no
       /\ calls'[u][k].scope = calls[u][k].scope
  /\ \A u \in Threads : \A k \in DOMAIN calls[u] :
       calls'[u][k].at \in {"ready", "body", "outputs"} =>
         calls[u][k].at \in {"ready", "body", "outputs"}
  /\ t # Null /\ calls[t] = << >> => wt_context'[t] = wt_context[t]
  /\ t # Null /\ InBody(t)' => InBody(t)
  /\ t # Null /\ InBody(t) => InBody(t)' \/ Children(t) = {c}
  /\ \A u \in Threads : u # t /\ Alive(u) => \A k \in DOMAIN calls[u] :
       stacked'[calls[u][k].ctx] = stacked[calls[u][k].ctx]
  /\ t # Null /\ Alive(t) /\ Own(t)' = Own(t) =>
       IF t \in UfuncRoots THEN UfuncOk(t)' ELSE StacksOk(t)'
  /\ t # Null /\ KidsOk(t) /\ Children(t)' = (IF status'[c] = "reaped" THEN Children(t) \ {c}
                                              ELSE Children(t)) => KidsOk(t)'

LEMMA EndShared ==
  ASSUME IInv, TypeOK', NEW c \in Threads, Alive(c), NEW D, D = Below(c) \cup {c},
         NEW t, t = parent[c], EndStep(c, D, t)
  PROVE  IInv'
<1> USE DEF EndStep
<1>1. /\ TypeOK /\ Unshared /\ ScopesOk /\ ArgumentsKept /\ TreeOk /\ ThreadsOk /\ OwnsOk
      /\ ListsOk /\ \E rank \in [Threads -> Nat] : Ordered(rank)
  BY InvParts
<1>2. /\ D \in SUBSET Threads /\ Closed(D)
      /\ t # Null => t \in Threads /\ t \notin D /\ c \in Children(t) /\ Alive(t)
      /\ \A x \in Threads : \A y \in Children(x) : x \notin D /\ y \in D => y = c /\ x = t
      /\ \A x \in D : \A y \in Children(x) : y \in Below(c)
      /\ c \notin Below(c)
  <2>1. Subtree(c, D)
    BY <1>1, EndTree
  <2>2. QED
    BY <2>1, Zenon DEF Subtree
<1>3. ASSUME NEW u \in Threads PROVE Alive(u)' <=> Alive(u) /\ u \notin D
  <2>1. CASE u \in Below(c)
    BY <2>1 DEF Alive
  <2>2. CASE u = c
    BY <2>2 DEF Alive
  <2>3. CASE u \notin D /\ u # t
    BY <2>3 DEF Alive
  <2>4. CASE u \notin D /\ u = t
    <3>1. t # Null
      BY <2>4, ContextAssumption
    <3>2. QED
      BY <1>2, <2>4, <3>1 DEF Alive
  <2>5. QED
    BY <2>1, <2>2, <2>3, <2>4
<1>4. ASSUME NEW u \in Threads PROVE status'[u] # "reaped" => status[u] # "reaped"
  <2>1. CASE u \in D
    BY <2>1 DEF Alive
  <2>2. CASE u \notin D /\ u # t
    BY <2>2
  <2>3. CASE u = t
    <3>1. t # Null
      BY <2>3, ContextAssumption
    <3>2. QED
      BY <1>2, <2>3, <3>1 DEF Alive
  <2>4. QED
    BY <2>1, <2>2, <2>3
<1>5. ASSUME NEW u \in Threads, u \notin D PROVE status'[u] = "reaped" <=> status[u] = "reaped"
  <2>1. CASE u # t
    BY <1>5, <2>1
  <2>2. CASE u = t
    <3>1. t # Null
      BY <2>2, ContextAssumption
    <3>2. QED
      BY <1>2, <2>2, <3>1 DEF Alive
  <2>3. QED
    BY <2>1, <2>2
<1>6. \A u \in Threads : /\ Children(u)' \subseteq Children(u)
                         /\ Children(u) \subseteq Children(u)' \cup D
  BY <1>4, <1>5 DEF Children
<1>7. ASSUME NEW u \in Threads, u \notin D, u # t PROVE Children(u)' = Children(u)
  <2>1. \A y \in Children(u) : y \notin D
    BY <1>2, <1>7
  <2>2. QED
    BY <1>6, <2>1
<1>8. ASSUME NEW u \in D PROVE Children(u)' = {} /\ u \in Threads
  <2>1. \A y \in Children(u) : status'[y] = "reaped"
    BY <1>2
  <2>2. \A y \in Children(u)' : status'[y] # "reaped"
    BY DEF Children
  <2>3. u \in Threads
    BY <1>2
  <2>4. QED
    BY <1>6, <2>1, <2>2, <2>3
<1>9. ASSUME t # Null
      PROVE  Children(t)' = IF status'[c] = "reaped" THEN Children(t) \ {c} ELSE Children(t)
  <2>1. t \in Threads /\ t \notin D
    BY <1>2, <1>9
  <2>2. \A y \in Children(t) : y \in D => y = c
    BY <1>2, <2>1
  <2>3. Children(t)' \subseteq Children(t) /\ Children(t) \ {c} \subseteq Children(t)'
    BY <1>2, <1>6, <2>1, <2>2
  <2>4. c \in Children(t)' <=> status'[c] # "reaped"
    BY DEF Children
  <2>5. c \in Children(t)
    BY <1>2, <1>9
  <2>6. CASE status'[c] = "reaped"
    <3>1. Children(t)' = Children(t) \ {c}
      BY <2>3, <2>4, <2>6, Zenon
    <3>2. QED
      BY <2>6, <3>1, Zenon
  <2>7. CASE status'[c] # "reaped"
    <3>1. Children(t)' = Children(t)
      BY <2>3, <2>4, <2>5, <2>7, Zenon
    <3>2. QED
      BY <2>7, <3>1, Zenon
  <2>8. QED
    BY <2>6, <2>7
<1>10. ASSUME NEW u \in Threads, Alive(u)' PROVE Alive(u) /\ u \notin D /\ Own(u)' = Own(u)
  <2>1. Alive(u) /\ u \notin D
    BY <1>3, <1>10
  <2>2. ASSUME parent[u] # Null
        PROVE  /\ calls'[parent[u]] # << >> <=> calls[parent[u]] # << >>
               /\ calls[parent[u]] # << >> => calls'[parent[u]][1].ctx = calls[parent[u]][1].ctx
               /\ calls[parent[u]] = << >> => wt_context'[parent[u]] = wt_context[parent[u]]
    <3>1. PICK p \in Threads : p = parent[u]
      BY <1>1, <2>1, <2>2, ParentHasChild
    <3>2. calls'[p] # << >> <=> calls[p] # << >>
      BY <3>1
    <3>3. calls[p] # << >> => calls'[p][1].ctx = calls[p][1].ctx
      BY <1>1, <3>1, CallFacts
    <3>4. calls[p] = << >> => wt_context'[p] = wt_context[p]
      BY <2>2, <3>1
    <3>5. QED
      BY <3>1, <3>2, <3>3, <3>4
  <2>3. Own(u)' = Own(u)
    BY <2>2, OwnKept
  <2>4. QED
    BY <2>1, <2>3
<1>11. OwnsOk'
  <2>1. ASSUME NEW q \in Threads, InBody(q)' PROVE InBody(q)
    <3>1. CASE q = t
      BY <2>1, <3>1, ContextAssumption
    <3>2. CASE q # t
      BY <1>3, <2>1, <3>2 DEF InBody, Top
    <3>3. QED
      BY <3>1, <3>2
  <2>2. ASSUME NEW q \in Threads, InBody(q)
        PROVE  /\ Top(q)'.ctx = Top(q).ctx
               /\ InBody(q)' \/ \E e \in Threads : e \in Children(q) /\ Below(e) \cup {e} \subseteq D
    <3>1. Top(q)'.ctx = Top(q).ctx
      <4>1. 1 \in DOMAIN calls[q]
        BY <1>1, <2>2, CallFacts DEF InBody
      <4>2. QED
        BY <4>1 DEF Top
    <3>2. CASE q = t
      <4>1. t # Null
        BY <3>2, ContextAssumption
      <4>2. InBody(q)' \/ Children(q) = {c}
        BY <2>2, <3>2, <4>1
      <4>3. QED
        BY <3>1, <4>2
    <3>3. CASE q # t /\ q \notin D
      <4>1. InBody(q)'
        BY <1>3, <2>2, <3>3 DEF InBody, Top
      <4>2. QED
        BY <3>1, <4>1
    <3>4. CASE q \in D
      <4>1. PICK e \in Threads : Children(q) = {e}
        BY <1>1, <2>2 DEF TreeOk, KidsOk, InBody
      <4>2. e \in Below(c)
        BY <1>2, <3>4, <4>1
      <4>3. Below(e) \subseteq Below(c)
        BY <4>2, BelowInside
      <4>4. QED
        BY <3>1, <4>1, <4>2, <4>3
    <3>5. QED
      BY <3>2, <3>3, <3>4
  <2>3. QED
    BY <1>1, <1>2, <1>6, <1>10, <2>1, <2>2, PruneOwns
<1>12. (\E rank \in [Threads -> Nat] : Ordered(rank))'
  BY <1>1, <1>6, PruneRank
<1>13. Unshared' /\ ScopesOk' /\ ListsOk'
  <2>1. /\ \A u \in Threads : Alive(u) /\ u \notin D => Alive(u)'
        /\ \A u \in Threads : Alive(u)' => (Alive(u) \/ calls[u] = << >>) /\ u \notin D
    BY <1>3, Zenon
  <2>2. \A u \in Threads : \A k \in DOMAIN calls[u] :
          calls'[u][k].ctx = calls[u][k].ctx /\ calls'[u][k].scope = calls[u][k].scope
    OBVIOUS
  <2>3. TypeOK /\ Unshared /\ ScopesOk /\ ListsOk /\ D \in SUBSET Threads
    BY <1>1, <1>2
  <2>4. QED
    BY <2>1, <2>2, <2>3, MoveKeeps, Zenon
<1>14. ArgumentsKept'
  <2> SUFFICES ASSUME NEW u \in Threads, Alive(u)', NEW k \in DOMAIN calls'[u],
                      calls'[u][k].at \in {"ready", "body", "outputs"}
               PROVE  port[calls'[u][k].ctx] = calls'[u][k].no
    BY DEF ArgumentsKept
  <2>1. /\ k \in DOMAIN calls[u] /\ calls'[u][k].ctx = calls[u][k].ctx
        /\ calls'[u][k].no = calls[u][k].no
    OBVIOUS
  <2>2. calls[u][k].at \in {"ready", "body", "outputs"} /\ Alive(u)
    BY <1>10, <2>1
  <2>3. QED
    BY <1>1, <2>1, <2>2 DEF ArgumentsKept
<1>15. TreeOk'
  <2> SUFFICES ASSUME NEW u \in Threads PROVE KidsOk(u)'
    BY DEF TreeOk
  <2>1. KidsOk(u)
    BY <1>1 DEF TreeOk
  <2>2. CASE u = t
    BY <1>9, <2>1, <2>2, ContextAssumption
  <2>3. CASE u \in D
    <3>1. ~ Alive(u)' /\ Children(u)' = {} /\ status'[u] # "unused"
      BY <1>3, <1>8, <2>3
    <3>2. u \in Roots => parent'[u] = Null
      BY <2>1 DEF KidsOk
    <3>3. QED
      BY <3>1, <3>2 DEF KidsOk
  <2>4. CASE u \notin D /\ u # t
    BY <1>7, <2>1, <2>4, KidsKept
  <2>5. QED
    BY <2>2, <2>3, <2>4
<1>16. ThreadsOk'
  <2> SUFFICES ASSUME NEW u \in Threads, Alive(u)'
               PROVE  IF u \in UfuncRoots THEN UfuncOk(u)' ELSE StacksOk(u)'
    BY DEF ThreadsOk
  <2>1. Alive(u) /\ Own(u)' = Own(u)
    BY <1>10
  <2>2. CASE u = t
    BY <2>1, <2>2, ContextAssumption
  <2>3. CASE u # t
    <3>1. /\ calls'[u] = calls[u] /\ wt_context'[u] = wt_context[u]
          /\ rd_context'[u] = rd_context[u] /\ todo'[u] = todo[u]
      BY <2>3
    <3>2. CASE u \in UfuncRoots
      BY <1>1, <2>1, <3>1, <3>2, UfuncKept DEF ThreadsOk
    <3>3. CASE u \notin UfuncRoots
      <4>1. \A k \in DOMAIN calls[u] : stacked'[calls[u][k].ctx] = stacked[calls[u][k].ctx]
        BY <2>1, <2>3
      <4>2. QED
        BY <1>1, <2>1, <3>1, <3>3, <4>1, StacksKept DEF ThreadsOk
    <3>4. QED
      BY <3>2, <3>3
  <2>4. QED
    BY <2>2, <2>3
<1>17. QED
  BY <1>11, <1>12, <1>13, <1>14, <1>15, <1>16 DEF IInv, OneCall, ScopesOk

LEMMA TakenType ==
  ASSUME TypeOK, NEW u \in Threads
  PROVE  Taken(u) \subseteq Contexts
  BY CallFacts DEF Taken

(* Nobody waits for c: it is reaped, or left to its parent's %join. *)
LEMMA EndAlone ==
  ASSUME IInv, NEW c \in Threads, Alive(c), NEW D, D = Below(c) \cup {c},
         NEW t, t = parent[c], t = Null \/ status[t] # "joining",
         status' = [x \in Threads |-> IF x \in Below(c) \/ (x = c /\ t = Null) THEN "reaped"
                                      ELSE IF x = c THEN "ended" ELSE status[x]],
         abandoned' = abandoned \cup UNION {Taken(x) : x \in D},
         UNCHANGED <<live_contexts, free_contexts, port, parent, n, wt_context, rd_context, stacked,
                     calls, todo>>
  PROVE  IInv'
<1>1. /\ TypeOK /\ TreeOk /\ ThreadsOk /\ \E rank \in [Threads -> Nat] : Ordered(rank)
  BY InvParts
<1>2. Subtree(c, D)
  BY <1>1, EndTree
<1>3. /\ D \in SUBSET Threads /\ c \notin Below(c)
      /\ t # Null => t \in Threads /\ t \notin D /\ c \in Children(t) /\ Alive(t)
  BY <1>2, Zenon DEF Subtree
<1>4. /\ \A u \in Below(c) : status'[u] = "reaped"
      /\ status'[c] \in {"ended", "reaped"} /\ (t = Null <=> status'[c] = "reaped")
      /\ \A u \in Threads : u \notin D => status'[u] = status[u]
      /\ status' \in [Threads -> {"unused", "running", "joining", "ended", "reaped"}]
  BY <1>1, <1>3 DEF TypeOK
<1>5. t # Null => status'[t] = "running" /\ status[t] = "running"
  BY <1>3, <1>4 DEF Alive
<1>6. TypeOK'
  <2>1. abandoned' \subseteq Contexts
    BY <1>1, <1>3, TakenType DEF TypeOK
  <2>2. QED
    BY <1>1, <1>4, <2>1 DEF TypeOK
<1>7. t # Null => (InBody(t)' <=> InBody(t))
  BY <1>3, <1>4, <1>5 DEF InBody, Alive, Top
<1>8. /\ \A u \in Threads : UfuncOk(u)' <=> UfuncOk(u)
      /\ \A u \in Threads : Own(u)' = Own(u) => (StacksOk(u)' <=> StacksOk(u))
  BY DEF UfuncOk, StacksOk, Top
<1>9. t # Null /\ Alive(t) /\ Own(t)' = Own(t) =>
        IF t \in UfuncRoots THEN UfuncOk(t)' ELSE StacksOk(t)'
  BY <1>1, <1>3, <1>8 DEF ThreadsOk
<1>10. t # Null /\ KidsOk(t) /\ Children(t)' = (IF status'[c] = "reaped" THEN Children(t) \ {c}
                                                ELSE Children(t)) => KidsOk(t)'
  <2> SUFFICES ASSUME t # Null, KidsOk(t), Children(t)' = Children(t) PROVE KidsOk(t)'
    BY <1>4
  <2>1. status'[t] = status[t] /\ t \in Threads
    BY <1>3, <1>5
  <2>2. QED
    BY <2>1, KidsKept
<1>11. EndStep(c, D, t)
  BY <1>4, <1>5, <1>7, <1>9, <1>10 DEF EndStep
<1>12. QED
  BY <1>6, <1>11, EndShared

(* The parent is in a %join of a fork block. *)
LEMMA EndInBlock ==
  ASSUME IInv, NEW c \in Threads, Alive(c), NEW D, D = Below(c) \cup {c},
         NEW t, t = parent[c], t # Null, status[t] = "joining", todo[t] > 0,
         status' = [x \in Threads |-> IF x = t THEN "running"
                                      ELSE IF x \in Below(c) \cup {c} THEN "reaped" ELSE status[x]],
         do_join(t, c), Joined(t),
         abandoned' = abandoned \cup UNION {Taken(x) : x \in D},
         UNCHANGED <<live_contexts, free_contexts, port, parent, n>>
  PROVE  IInv'
<1>1. /\ TypeOK /\ TreeOk /\ ThreadsOk /\ \E rank \in [Threads -> Nat] : Ordered(rank)
  BY InvParts
<1>2. Subtree(c, D)
  BY <1>1, EndTree
<1>3. /\ D \in SUBSET Threads /\ c \notin Below(c)
      /\ t \in Threads /\ t \notin D /\ c \in Children(t) /\ Alive(t)
  BY <1>2, Zenon DEF Subtree
<1>4. /\ calls[t] = << >> /\ t \notin UfuncRoots /\ todo[t] \in {1, 2}
      /\ wt_context[t] = Own(t) /\ rd_context[t] = Own(t)
  BY <1>1, <1>3, BlockStacks
<1>5. /\ UNCHANGED <<wt_context, rd_context, stacked, calls>>
      /\ todo' = [todo EXCEPT ![t] = @ - 1]
  BY <1>4 DEF do_join, Joined
<1>6. /\ \A u \in Below(c) : status'[u] = "reaped"
      /\ status'[c] = "reaped" /\ status'[t] = "running"
      /\ \A u \in Threads : u \notin D /\ u # t => status'[u] = status[u]
      /\ status' \in [Threads -> {"unused", "running", "joining", "ended", "reaped"}]
  BY <1>1, <1>3 DEF TypeOK
<1>7. /\ todo'[t] = todo[t] - 1 /\ \A u \in Threads : u # t => todo'[u] = todo[u]
      /\ todo' \in [Threads -> 0..2]
  BY <1>1, <1>3, <1>4, <1>5 DEF TypeOK
<1>8. TypeOK'
  <2>1. abandoned' \subseteq Contexts
    BY <1>1, <1>3, TakenType DEF TypeOK
  <2>2. QED
    BY <1>1, <1>5, <1>6, <1>7, <2>1 DEF TypeOK
<1>9. ~ InBody(t)' /\ ~ InBody(t)
  BY <1>4, <1>5 DEF InBody
<1>10. Own(t)' = Own(t) => StacksOk(t)'
  BY <1>3, <1>4, <1>5, NewStacks
<1>11. KidsOk(t) /\ Children(t)' = Children(t) \ {c} => KidsOk(t)'
  BY <1>3, <1>4, <1>5, <1>6, <1>7, KidsJoined
<1>12. /\ \A u \in Threads : u # t => /\ calls'[u] = calls[u] /\ wt_context'[u] = wt_context[u]
                                      /\ rd_context'[u] = rd_context[u] /\ todo'[u] = todo[u]
       /\ \A u \in Threads : calls'[u] = calls[u]
       /\ stacked' = stacked /\ wt_context'[t] = wt_context[t]
  BY <1>5, <1>7
<1>13. /\ UNCHANGED <<live_contexts, free_contexts, port, parent>>
       /\ status'[c] \in {"ended", "reaped"}
       /\ t # Null => status'[t] = "running"
  BY <1>6
<1>14. /\ \A u \in Threads : DOMAIN calls'[u] = DOMAIN calls[u]
       /\ \A u \in Threads : calls'[u] # << >> <=> calls[u] # << >>
       /\ \A u \in Threads : \A k \in DOMAIN calls[u] :
            /\ calls'[u][k].ctx = calls[u][k].ctx /\ calls'[u][k].no = calls[u][k].no
            /\ calls'[u][k].scope = calls[u][k].scope
       /\ \A u \in Threads : \A k \in DOMAIN calls[u] :
            calls'[u][k].at \in {"ready", "body", "outputs"} =>
              calls[u][k].at \in {"ready", "body", "outputs"}
  BY <1>12
<1>15. /\ t # Null /\ calls[t] = << >> => wt_context'[t] = wt_context[t]
       /\ t # Null /\ InBody(t)' => InBody(t)
       /\ t # Null /\ InBody(t) => InBody(t)' \/ Children(t) = {c}
  BY <1>9, <1>12
<1>16. \A u \in Threads : u # t /\ Alive(u) => \A k \in DOMAIN calls[u] :
         stacked'[calls[u][k].ctx] = stacked[calls[u][k].ctx]
  BY <1>12
<1>17. t # Null /\ Alive(t) /\ Own(t)' = Own(t) =>
         IF t \in UfuncRoots THEN UfuncOk(t)' ELSE StacksOk(t)'
  BY <1>4, <1>10
<1>18. t # Null /\ KidsOk(t) /\ Children(t)' = (IF status'[c] = "reaped" THEN Children(t) \ {c}
                                                ELSE Children(t)) => KidsOk(t)'
  BY <1>6, <1>11
<1>19. \A u \in Threads : u # t => /\ calls'[u] = calls[u] /\ wt_context'[u] = wt_context[u]
                                   /\ rd_context'[u] = rd_context[u] /\ todo'[u] = todo[u]
  BY <1>12
<1>20. /\ \A u \in Below(c) : status'[u] = "reaped"
       /\ \A u \in Threads : u \notin D /\ u # t => status'[u] = status[u]
  BY <1>6
<1>21. EndStep(c, D, t)
  BY <1>13, <1>14, <1>15, <1>16, <1>17, <1>18, <1>19, <1>20, Zenon DEF EndStep
<1>22. QED
  BY <1>8, <1>21, EndShared

(* The parent waits for its call. *)
LEMMA EndOfCall ==
  ASSUME IInv, NEW c \in Threads, Alive(c), NEW D, D = Below(c) \cup {c},
         NEW t, t = parent[c], t # Null, status[t] = "joining", todo[t] = 0,
         status' = [x \in Threads |-> IF x = t THEN "running"
                                      ELSE IF x \in Below(c) \cup {c} THEN "reaped" ELSE status[x]],
         do_join(t, c), Joined(t),
         abandoned' = abandoned \cup UNION {Taken(x) : x \in D},
         UNCHANGED <<live_contexts, free_contexts, port, parent, n>>
  PROVE  IInv'
<1>1. /\ TypeOK /\ Unshared /\ ScopesOk /\ ArgumentsKept /\ TreeOk /\ ThreadsOk /\ OwnsOk
      /\ ListsOk /\ \E rank \in [Threads -> Nat] : Ordered(rank)
  BY InvParts
<1>2. Subtree(c, D)
  BY <1>1, EndTree
<1>3. /\ D \in SUBSET Threads /\ c \notin Below(c)
      /\ t \in Threads /\ t \notin D /\ c \in Children(t) /\ Alive(t)
  BY <1>2, Zenon DEF Subtree
<1>4. /\ calls[t] # << >> /\ calls[t][1].at = "body" /\ Children(t) = {c}
      /\ \A k \in DOMAIN calls[t] : k > 1 => calls[t][k].at \in {"args", "outputs"}
  BY <1>1, <1>3 DEF TreeOk, KidsOk, Top
<1>5. calls' = [calls EXCEPT ![t][1].at = "outputs"] /\ todo' = todo
  BY DEF Joined
<1>6. /\ calls' \in [Threads -> Seq(CallRecord)]
      /\ \A u \in Threads : u # t => calls'[u] = calls[u]
      /\ calls[t] \in Seq(CallRecord) /\ calls'[t] \in Seq(CallRecord) /\ calls'[t] # << >>
      /\ 1 \in DOMAIN calls[t] /\ calls'[t][1].at = "outputs"
      /\ \A k \in DOMAIN calls[t] : k # 1 => calls'[t][k] = calls[t][k]
      /\ \A u \in Threads : DOMAIN calls'[u] = DOMAIN calls[u]
      /\ \A u \in Threads : \A k \in DOMAIN calls[u] :
           /\ calls'[u][k].ctx = calls[u][k].ctx /\ calls'[u][k].no = calls[u][k].no
           /\ calls'[u][k].scope = calls[u][k].scope /\ calls'[u][k].kind = calls[u][k].kind
      /\ \A u \in Threads : calls'[u] # << >> <=> calls[u] # << >>
  BY <1>1, <1>3, <1>4, <1>5, MoveOn
<1>7. /\ \A u \in Below(c) : status'[u] = "reaped"
      /\ status'[c] = "reaped" /\ status'[t] = "running"
      /\ \A u \in Threads : u \notin D /\ u # t => status'[u] = status[u]
      /\ status' \in [Threads -> {"unused", "running", "joining", "ended", "reaped"}]
  BY <1>1, <1>3 DEF TypeOK
<1>8. InBody(t) /\ ~ InBody(t)'
  BY <1>3, <1>4, <1>6 DEF InBody, Top
<1>9. abandoned' \subseteq Contexts
  BY <1>1, <1>3, TakenType DEF TypeOK
<1>10. ASSUME NEW u \in Threads, NEW k \in DOMAIN calls[u],
              calls'[u][k].at \in {"ready", "body", "outputs"}
       PROVE  calls[u][k].at \in {"ready", "body", "outputs"}
  <2>1. CASE u = t /\ k = 1
    <3>1. calls[u][k].at = "body"
      BY <1>4, <2>1
    <3>2. QED
      BY <3>1
  <2>2. CASE u = t /\ k # 1
    <3>1. calls'[u][k] = calls[u][k]
      BY <1>6, <1>10, <2>2
    <3>2. QED
      BY <1>10, <3>1
  <2>3. CASE u # t
    <3>1. calls'[u] = calls[u]
      BY <1>6, <2>3
    <3>2. QED
      BY <1>10, <3>1
  <2>4. QED
    BY <2>1, <2>2, <2>3
<1>11. KidsOk(t) /\ Children(t)' = Children(t) \ {c} => KidsOk(t)'
  <2> SUFFICES ASSUME KidsOk(t), Children(t)' = Children(t) \ {c} PROVE KidsOk(t)'
    OBVIOUS
  <2>1. Children(t)' = {} /\ todo'[t] = 0 /\ parent'[t] = parent[t] /\ status[t] # "unused"
    BY <1>4, <1>5
  <2>2. PICK ds : ds = calls'[t]
    OBVIOUS
  <2>3. /\ ds # << >> => ds[1].at # "body"
        /\ \A k \in DOMAIN ds : k > 1 => ds[k].at \in {"args", "outputs"}
    <3>1. ds[1].at # "body"
      BY <1>6, <2>2
    <3>2. ASSUME NEW k \in DOMAIN ds, k > 1 PROVE ds[k].at \in {"args", "outputs"}
      <4>1. k \in DOMAIN calls[t]
        BY <1>3, <1>6, <2>2
      <4>2. k # 1
        BY <1>1, <1>3, <3>2, <4>1, CallFacts
      <4>3. ds[k] = calls[t][k]
        BY <1>6, <2>2, <4>1, <4>2
      <4>4. calls[t][k].at \in {"args", "outputs"}
        BY <1>4, <3>2, <4>1
      <4>5. QED
        BY <4>3, <4>4
    <3>3. QED
      BY <3>1, <3>2
  <2>4. QED
    BY <1>3, <1>7, <2>1, <2>2, <2>3, KidsOfRunning
(* Whatever becomes of the stacks of t, it concerns no other thread. *)
<1>12. ASSUME wt_context' \in [Threads -> Contexts \cup {Null}],
              rd_context' \in [Threads -> Contexts \cup {Null}],
              stacked' \in [Contexts -> Contexts \cup {Null}],
              \A u \in Threads : u # t => /\ wt_context'[u] = wt_context[u]
                                          /\ rd_context'[u] = rd_context[u],
              \A x \in Contexts : x # calls[t][1].ctx => stacked'[x] = stacked[x],
              Own(t)' = Own(t) => IF t \in UfuncRoots THEN UfuncOk(t)' ELSE StacksOk(t)'
       PROVE  IInv'
  <2>1. TypeOK'
    BY <1>1, <1>5, <1>6, <1>7, <1>9, <1>12 DEF TypeOK
  <2>2. ASSUME NEW u \in Threads, u # t, Alive(u), NEW k \in DOMAIN calls[u]
        PROVE  stacked'[calls[u][k].ctx] = stacked[calls[u][k].ctx]
    <3>1. calls[u][k].ctx # calls[t][1].ctx /\ calls[u][k].ctx \in Contexts
      BY <1>1, <1>3, <1>6, <2>2, CallFacts DEF Unshared
    <3>2. QED
      BY <1>12, <3>1
  <2>3. \A u \in Threads : u # t => /\ calls'[u] = calls[u] /\ wt_context'[u] = wt_context[u]
                                    /\ rd_context'[u] = rd_context[u] /\ todo'[u] = todo[u]
    BY <1>5, <1>6, <1>12
  <2>4. /\ \A u \in Threads : \A k \in DOMAIN calls[u] :
             /\ calls'[u][k].ctx = calls[u][k].ctx /\ calls'[u][k].no = calls[u][k].no
             /\ calls'[u][k].scope = calls[u][k].scope
        /\ \A u \in Threads : DOMAIN calls'[u] = DOMAIN calls[u]
        /\ \A u \in Threads : calls'[u] # << >> <=> calls[u] # << >>
    BY <1>6
  <2>5. /\ UNCHANGED <<live_contexts, free_contexts, port, parent>>
        /\ status'[c] \in {"ended", "reaped"}
        /\ t # Null => status'[t] = "running"
    BY <1>7
  <2>6. \A u \in Threads : \A k \in DOMAIN calls[u] :
          calls'[u][k].at \in {"ready", "body", "outputs"} =>
            calls[u][k].at \in {"ready", "body", "outputs"}
    BY <1>10
  <2>7. /\ t # Null /\ calls[t] = << >> => wt_context'[t] = wt_context[t]
        /\ t # Null /\ InBody(t)' => InBody(t)
        /\ t # Null /\ InBody(t) => InBody(t)' \/ Children(t) = {c}
    BY <1>4, <1>8
  <2>8. \A u \in Threads : u # t /\ Alive(u) => \A k \in DOMAIN calls[u] :
          stacked'[calls[u][k].ctx] = stacked[calls[u][k].ctx]
    BY <2>2
  <2>9. t # Null /\ Alive(t) /\ Own(t)' = Own(t) =>
          IF t \in UfuncRoots THEN UfuncOk(t)' ELSE StacksOk(t)'
    BY <1>12
  <2>10. t # Null /\ KidsOk(t) /\ Children(t)' = (IF status'[c] = "reaped" THEN Children(t) \ {c}
                                                  ELSE Children(t)) => KidsOk(t)'
    BY <1>7, <1>11
  <2>11. /\ \A u \in Below(c) : status'[u] = "reaped"
         /\ \A u \in Threads : u \notin D /\ u # t => status'[u] = status[u]
    BY <1>7
  <2>12. EndStep(c, D, t)
    BY <2>3, <2>4, <2>5, <2>6, <2>7, <2>8, <2>9, <2>10, <2>11, Zenon DEF EndStep
  <2>13. QED
    BY <2>1, <2>12, EndShared
<1>13. CASE t \in UfuncRoots
  <2>1. UfuncOk(t)
    BY <1>1, <1>3, <1>13 DEF ThreadsOk
  <2>2. UNCHANGED <<wt_context, rd_context, stacked>>
    BY <1>4, <2>1 DEF UfuncOk, do_join
  <2>3. UfuncOk(t)'
    <3>1. Len(calls'[t]) = Len(calls[t])
      BY <1>3, <1>6
    <3>2. calls'[t][1].ctx = calls[t][1].ctx /\ calls'[t][1].kind = calls[t][1].kind
      BY <1>3, <1>6
    <3>3. QED
      BY <1>4, <1>5, <1>6, <2>1, <2>2, <3>1, <3>2 DEF UfuncOk, Top
  <2>4. QED
    BY <1>1, <1>12, <1>13, <2>2, <2>3 DEF TypeOK
<1>14. CASE t \notin UfuncRoots
  <2>1. StacksOk(t)
    BY <1>1, <1>3, <1>14 DEF ThreadsOk
  <2> DEFINE cs == calls[t]
             own == Own(t)
  <2>2. /\ FirstAt(cs, 0, Writing, own, wt_context[t])
        /\ FirstAt(cs, 0, Reading, own, rd_context[t])
        /\ \A k \in DOMAIN cs :
             cs[k].kind = "call" /\ FirstAt(cs, k, Side(cs[k].at), own, stacked[cs[k].ctx])
    BY <2>1 DEF StacksOk
  <2>3. /\ cs[1].at \in Writing /\ cs[1].at \notin Reading /\ Side(cs[1].at) = Writing
        /\ "outputs" \in Reading /\ "outputs" \notin Writing /\ Side("outputs") = Reading
    BY <1>4 DEF Writing, Reading, Side
  <2>4. wt_context[t] = cs[1].ctx /\ cs[1].ctx \in Contexts /\ cs[1].ctx # Null
    <3>1. FirstAt(cs, 0, Writing, own, wt_context[t]) <=> wt_context[t] = cs[1].ctx
      BY <1>4, <1>6, <2>3, FirstHere
    <3>2. QED
      BY <1>1, <1>3, <1>6, <2>2, <3>1, CallFacts
  (* The context of the call is not the one that outputs are read from. *)
  <2>5. rd_context[t] # cs[1].ctx
    <3> SUFFICES ASSUME rd_context[t] = cs[1].ctx PROVE FALSE
      OBVIOUS
    <3>1. rd_context[t] = own \/ \E k \in DOMAIN cs : k > 0 /\ cs[k].at \in Reading /\ rd_context[t] = cs[k].ctx
      BY <2>2, FirstValue
    <3>2. CASE rd_context[t] = own
      <4>1. Own(t) = Top(t).ctx
        BY <3>2 DEF Top
      <4>2. t \in Below(c) \cup {c}
        BY <1>1, <1>3, <1>8, <4>1 DEF OwnsOk
      <4>3. QED
        BY <1>3, <4>2
    <3>3. ASSUME NEW k \in DOMAIN cs, cs[k].at \in Reading, rd_context[t] = cs[k].ctx PROVE FALSE
      <4>1. k = 1
        <5>1. calls[t][k].ctx = calls[t][1].ctx /\ k \in DOMAIN calls[t]
          BY <3>3
        <5>2. QED
          BY <1>1, <1>3, <1>6, <5>1 DEF Unshared
      <4>2. QED
        BY <2>3, <3>3, <4>1
    <3>4. QED
      BY <3>1, <3>2, <3>3
  (* The thread c has a context. *)
  <2>6. wt_context[c] # Null
    <3>1. c \notin UfuncRoots
      BY <1>1, ContextAssumption DEF TreeOk, KidsOk
    <3>2. FirstAt(calls[c], 0, Writing, Own(c), wt_context[c])
      BY <1>1, <3>1 DEF ThreadsOk, StacksOk
    <3>3. Own(c) = cs[1].ctx
      BY <1>4 DEF Own, Top
    <3>4. wt_context[c] = Own(c) \/ \E k \in DOMAIN calls[c] : wt_context[c] = calls[c][k].ctx
      BY <3>2, FirstValue
    <3>5. QED
      BY <1>1, <2>4, <3>3, <3>4, CallFacts
  <2>7. /\ wt_context' = [wt_context EXCEPT ![t] = stacked[cs[1].ctx]]
        /\ stacked' = [stacked EXCEPT ![cs[1].ctx] = rd_context[t]]
        /\ rd_context' = [rd_context EXCEPT ![t] = cs[1].ctx]
    BY <2>4, <2>5, <2>6 DEF do_join
  <2>8. /\ wt_context' \in [Threads -> Contexts \cup {Null}]
        /\ rd_context' \in [Threads -> Contexts \cup {Null}]
        /\ stacked' \in [Contexts -> Contexts \cup {Null}]
        /\ \A u \in Threads : u # t => /\ wt_context'[u] = wt_context[u]
                                       /\ rd_context'[u] = rd_context[u]
        /\ \A x \in Contexts : x # cs[1].ctx => stacked'[x] = stacked[x]
        /\ wt_context'[t] = stacked[cs[1].ctx] /\ rd_context'[t] = cs[1].ctx
        /\ stacked'[cs[1].ctx] = rd_context[t]
    BY <1>1, <1>3, <2>4, <2>7 DEF TypeOK
  <2>9. PICK ds \in Seq(CallRecord) : ds = calls'[t]
    BY <1>6
  <2>10. /\ ds # << >> /\ DOMAIN ds = DOMAIN cs /\ ds[1].at = "outputs"
         /\ \A k \in DOMAIN cs : k # 1 => ds[k] = cs[k]
         /\ \A k \in DOMAIN cs : ds[k].ctx = cs[k].ctx /\ ds[k].kind = cs[k].kind
    BY <1>3, <1>6, <2>9
  <2>11. ASSUME NEW m \in Nat \ {0}, NEW ats, NEW x, FirstAt(cs, m, ats, own, x)
         PROVE  FirstAt(ds, m, ats, own, x)
    <3>1. \A k \in DOMAIN cs : k \in Nat /\ (k > m <=> m < k) /\ (k > m => k # 1)
      BY <1>6
    <3>2. \A k \in DOMAIN cs : k > m => ds[k].at = cs[k].at /\ ds[k].ctx = cs[k].ctx
      BY <2>10, <3>1
    <3>3. DOMAIN ds = DOMAIN cs
      BY <2>10
    <3>4. QED
      BY <2>11, <3>1, <3>2, <3>3, FirstSame
  <2>12. FirstAt(ds, 0, Writing, own, stacked[cs[1].ctx])
    <3>1. FirstAt(cs, 1, Writing, own, stacked[cs[1].ctx])
      <4>1. FirstAt(cs, 1, Side(cs[1].at), own, stacked[cs[1].ctx])
        BY <1>6, <2>2
      <4>2. QED
        BY <2>3, <4>1
    <3>2. FirstAt(ds, 1, Writing, own, stacked[cs[1].ctx])
      <4>1. 1 \in Nat \ {0}
        OBVIOUS
      <4>2. QED
        BY <2>11, <3>1, <4>1, Zenon
    <3>3. FirstAt(ds, 0, Writing, own, stacked[cs[1].ctx])
            <=> FirstAt(ds, 1, Writing, own, stacked[cs[1].ctx])
      BY <2>3, <2>10, FirstSkip
    <3>4. QED
      BY <3>2, <3>3
  <2>13. FirstAt(ds, 0, Reading, own, cs[1].ctx)
    <3>1. FirstAt(ds, 0, Reading, own, cs[1].ctx) <=> cs[1].ctx = ds[1].ctx
      BY <2>3, <2>10, FirstHere
    <3>2. QED
      BY <1>6, <2>10, <3>1
  <2>14. FirstAt(ds, 1, Reading, own, rd_context[t])
    <3>1. FirstAt(cs, 0, Reading, own, rd_context[t]) <=> FirstAt(cs, 1, Reading, own, rd_context[t])
      BY <1>4, <1>6, <2>3, FirstSkip
    <3>2. FirstAt(cs, 1, Reading, own, rd_context[t])
      BY <2>2, <3>1
    <3>3. 1 \in Nat \ {0}
      OBVIOUS
    <3>4. QED
      BY <2>11, <3>2, <3>3, Zenon
  <2>15. ASSUME NEW k \in DOMAIN ds
         PROVE  ds[k].kind = "call" /\ FirstAt(ds, k, Side(ds[k].at), own, stacked'[ds[k].ctx])
    <3>1. k \in DOMAIN cs /\ k \in Nat \ {0} /\ ds[k].kind = "call" /\ ds[k].ctx = cs[k].ctx
      <4>1. k \in DOMAIN cs
        BY <2>10
      <4>2. k \in Nat \ {0}
        BY <1>1, <1>3, <4>1, CallFacts
      <4>3. cs[k].kind = "call"
        BY <2>2, <4>1
      <4>4. QED
        BY <2>10, <4>1, <4>2, <4>3
    <3>2. CASE k = 1
      <4>1. Side(ds[k].at) = Reading /\ stacked'[ds[k].ctx] = rd_context[t]
        BY <2>3, <2>8, <2>10, <3>1, <3>2
      <4>2. QED
        BY <2>14, <3>1, <3>2, <4>1
    <3>3. CASE k # 1
      <4>1. cs[k].ctx # cs[1].ctx /\ cs[k].ctx \in Contexts
        BY <1>1, <1>3, <1>6, <3>1, <3>3, CallFacts DEF Unshared
      <4>2. Side(ds[k].at) = Side(cs[k].at) /\ stacked'[ds[k].ctx] = stacked[cs[k].ctx]
        BY <2>8, <2>10, <3>1, <3>3, <4>1
      <4>3. FirstAt(ds, k, Side(cs[k].at), own, stacked[cs[k].ctx])
        <5>1. FirstAt(cs, k, Side(cs[k].at), own, stacked[cs[k].ctx])
          BY <2>2, <3>1
        <5>2. QED
          BY <2>11, <3>1, <5>1, Zenon
      <4>4. QED
        BY <3>1, <4>2, <4>3
    <3>4. QED
      BY <3>2, <3>3
  <2>16. Own(t)' = own => StacksOk(t)'
    BY <2>8, <2>9, <2>12, <2>13, <2>15 DEF StacksOk
  <2>17. QED
    BY <1>12, <1>14, <2>8, <2>16
<1>15. QED
  BY <1>13, <1>14

LEMMA EndsKeeps ==
  ASSUME IInv, NEW c \in Threads, Alive(c), Ends(c, Below(c)),
         abandoned' = abandoned \cup UNION {Taken(x) : x \in Below(c) \cup {c}},
         UNCHANGED <<live_contexts, free_contexts, port, parent, n>>
  PROVE  IInv'
<1>1. PICK t, D : t = parent[c] /\ D = Below(c) \cup {c}
  OBVIOUS
<1>2. abandoned' = abandoned \cup UNION {Taken(x) : x \in D}
  BY <1>1
<1>3. CASE t # Null /\ status[t] = "joining"
  <2>1. /\ status' = [x \in Threads |-> IF x = t THEN "running"
                                        ELSE IF x \in Below(c) \cup {c} THEN "reaped" ELSE status[x]]
        /\ do_join(t, c) /\ Joined(t)
    BY <1>1, <1>3 DEF Ends
  <2>2. todo[t] > 0 \/ todo[t] = 0
    <3>1. TypeOK
      BY InvParts
    <3>2. t \in Threads
      BY <1>1, <1>3, <3>1 DEF TypeOK
    <3>3. todo[t] \in 0..2
      BY <3>1, <3>2 DEF TypeOK
    <3>4. QED
      BY <3>3
  <2>3. CASE todo[t] > 0
    BY <1>1, <1>2, <1>3, <2>1, <2>3, EndInBlock
  <2>4. CASE todo[t] = 0
    BY <1>1, <1>2, <1>3, <2>1, <2>4, EndOfCall
  <2>5. QED
    BY <2>2, <2>3, <2>4
<1>4. CASE ~ (t # Null /\ status[t] = "joining")
  <2>1. /\ status' = [x \in Threads |-> IF x \in Below(c) \/ (x = c /\ t = Null) THEN "reaped"
                                        ELSE IF x = c THEN "ended" ELSE status[x]]
        /\ UNCHANGED <<wt_context, rd_context, stacked, calls, todo>>
    BY <1>1, <1>4 DEF Ends
  <2>2. QED
    BY <1>1, <1>2, <1>4, <2>1, EndAlone
<1>5. QED
  BY <1>3, <1>4

LEMMA EndKeeps ==
  ASSUME IInv, NEW c \in Threads, of_END(c)
  PROVE  IInv'
<1>1. TypeOK /\ TreeOk
  BY InvParts
<1>2. /\ Runs(c) /\ calls[c] = << >> /\ todo[c] = 0 /\ Ends(c, {})
      /\ UNCHANGED <<live_contexts, free_contexts, port, parent, n, abandoned>>
  BY DEF of_END, Statement
<1>3. Alive(c) /\ Children(c) = {}
  BY <1>1, <1>2, NoChildren
<1>4. Below(c) = {}
  BY <1>3, Childless
<1>5. Taken(c) = {}
  BY <1>2 DEF Taken
<1>6. abandoned' = abandoned \cup UNION {Taken(x) : x \in Below(c) \cup {c}}
  BY <1>2, <1>4, <1>5
<1>7. QED
  BY <1>2, <1>3, <1>4, <1>6, EndsKeeps

LEMMA DisableKeeps ==
  ASSUME IInv, NEW c \in Threads, do_disable(c)
  PROVE  IInv'
<1>1. /\ Alive(c) /\ Ends(c, Below(c))
      /\ abandoned' = abandoned \cup UNION {Taken(x) : x \in Below(c) \cup {c}}
      /\ UNCHANGED <<live_contexts, free_contexts, port, parent, n>>
  BY DEF do_disable, Alive
<1>2. QED
  BY <1>1, EndsKeeps

-----------------------------------------------------------------------------
(* The invariant holds. *)

LEMMA InitInv == Init => IInv
<1> SUFFICES ASSUME Init PROVE IInv
  OBVIOUS
<1>1. TypeOK
  BY ContextAssumption DEF Init, TypeOK
<1>2. /\ \A u \in Threads : /\ calls[u] = << >> /\ todo[u] = 0 /\ parent[u] = Null
                            /\ wt_context[u] = Null /\ rd_context[u] = Null
                            /\ (u \in Roots => status[u] = "running")
                            /\ (u \notin Roots => status[u] = "unused")
      /\ \A s \in Scopes : live_contexts[s] = << >> /\ free_contexts[s] = << >>
      /\ abandoned = {}
  BY DEF Init
<1>3. \A u \in Threads : DOMAIN calls[u] = {} /\ Taken(u) = {}
  BY <1>2 DEF Taken
<1>4. \A u \in Threads : Children(u) = {} /\ Own(u) = Null
  BY <1>2, ContextAssumption DEF Children, Own
<1>5. Range(<< >>) = {} /\ IsInjective(<< >>)
  BY DEF Range, IsInjective
<1>6. Unshared /\ ArgumentsKept
  BY <1>3 DEF Unshared, ArgumentsKept
<1>7. ScopesOk
  <2>1. \A s \in Scopes : Open(s) = {}
    BY <1>3 DEF Open
  <2>2. \A s \in Scopes : Range(live_contexts[s]) = {} /\ Disjoint(s)
    BY <1>2, <1>5 DEF Disjoint
  <2>3. QED
    BY <2>1, <2>2 DEF ScopesOk
<1>8. ASSUME NEW u \in Threads PROVE KidsOk(u)
  BY <1>2, <1>4 DEF KidsOk, Alive
<1>9. ASSUME NEW u \in Threads PROVE IF u \in UfuncRoots THEN UfuncOk(u) ELSE StacksOk(u)
  <2>1. UfuncOk(u)
    BY <1>2 DEF UfuncOk
  <2>2. StacksOk(u)
    BY <1>2, <1>3, <1>4 DEF StacksOk, FirstAt
  <2>3. QED
    BY <2>1, <2>2
<1>10. OwnsOk
  BY <1>2, <1>4 DEF OwnsOk, InBody
<1>11. ListsOk
  <2>1. \A s \in Scopes : Memory(s) = {}
    BY <1>2, <1>5 DEF Memory
  <2>2. QED
    BY <1>2, <1>3, <2>1 DEF ListsOk
<1>12. \E rank \in [Threads -> Nat] : Ordered(rank)
  <2>1. Ordered([x \in Threads |-> 0])
    BY <1>4 DEF Ordered
  <2>2. [x \in Threads |-> 0] \in [Threads -> Nat]
    OBVIOUS
  <2>3. QED
    BY <2>1, <2>2
<1>13. QED
  BY <1>1, <1>6, <1>7, <1>8, <1>9, <1>10, <1>11, <1>12, InvParts DEF TreeOk, ThreadsOk

LEMMA StepInv == IInv /\ [Next]_vars => IInv'
<1> SUFFICES ASSUME IInv, [Next]_vars PROVE IInv'
  OBVIOUS
<1>1. CASE UNCHANGED vars
  <2>1. /\ UNCHANGED <<wt_context, rd_context, stacked, live_contexts, free_contexts, port>>
        /\ UNCHANGED <<status, parent, calls, todo, n, abandoned>>
    BY <1>1 DEF vars
  <2>2. /\ TypeOK' <=> TypeOK
        /\ Unshared' <=> Unshared
        /\ ArgumentsKept' <=> ArgumentsKept
        /\ TreeOk' <=> TreeOk
    BY <2>1 DEF TypeOK, Unshared, ArgumentsKept, TreeOk, KidsOk, Children, Alive, Top
  <2>3. /\ ScopesOk' <=> ScopesOk
        /\ ThreadsOk' <=> ThreadsOk
    BY <2>1 DEF ScopesOk, Disjoint, Open, ThreadsOk, StacksOk, UfuncOk, Own, Top, Alive
  <2>4. /\ OwnsOk' <=> OwnsOk
        /\ ListsOk' <=> ListsOk
    BY <2>1 DEF OwnsOk, ListsOk, Own, InBody, Below, Closed, Children, Alive, Top, Memory, Taken
  <2>5. \A r : Ordered(r)' <=> Ordered(r)
    BY <2>1 DEF Ordered, Children
  <2>6. IInv
    OBVIOUS
  <2>7. QED
    BY <2>2, <2>3, <2>4, <2>5, <2>6 DEF IInv, OneCall, ScopesOk
<1>2. ASSUME NEW t \in Threads, NEW s \in Scopes, NEW x \in Contexts, of_ALLOC(t, s, x) PROVE IInv'
  BY <1>2, AllocKeeps
<1>3. ASSUME NEW t \in Threads, StoreArguments(t) PROVE IInv'
  BY <1>3, StoreKeeps
<1>4. ASSUME NEW t \in Threads, NEW c \in Threads, of_FORK_call(t, c) PROVE IInv'
  BY <1>4, ForkCallKeeps
<1>5. ASSUME NEW t \in Threads, NEW c \in Threads, NEW d \in Threads, of_FORK_block(t, c, d)
      PROVE  IInv'
  BY <1>5, ForkBlockKeeps
<1>6. ASSUME NEW t \in Threads, of_JOIN(t) PROVE IInv'
  BY <1>6, JoinKeeps
<1>7. ASSUME NEW t \in Threads, of_END(t) PROVE IInv'
  BY <1>7, EndKeeps
<1>8. ASSUME NEW t \in Threads, do_disable(t) PROVE IInv'
  BY <1>8, DisableKeeps
<1>9. ASSUME NEW t \in Threads, of_FREE(t) PROVE IInv'
  BY <1>9, FreeKeeps
<1>10. ASSUME NEW t \in Threads, NEW s \in Scopes, NEW c \in Threads, NEW x \in Contexts,
              do_exec_ufunc(t, s, c, x)
       PROVE  IInv'
  BY <1>10, ExecUfuncKeeps
<1>11. ASSUME NEW t \in Threads, of_REAP_UFUNC(t) PROVE IInv'
  BY <1>11, ReapKeeps
<1>12. QED
  BY <1>1, <1>2, <1>3, <1>4, <1>5, <1>6, <1>7, <1>8, <1>9, <1>10, <1>11, Zenon DEF Next

(* The inductive invariant of the stacks of contexts, the tree of threads  *)
(* and the lists of the scopes: every instruction of vthread.cc that       *)
(* handles contexts keeps it.                                              *)
THEOREM ContextInvariant == Spec => []IInv
  BY InitInv, StepInv, PTL DEF Spec

(* %alloc, %join and %free keep two stacks that share one link, and still  *)
(* arguments go to the innermost call that is not made yet, outputs come   *)
(* from the innermost call that has returned, and everything else is the   *)
(* thread's own.                                                           *)
THEOREM ContextsAreRight == Spec => []ContextsRight
<1>1. IInv => ContextsRight
  <2> SUFFICES ASSUME IInv PROVE ContextsRight
    OBVIOUS
  <2>1. ThreadsOk
    BY InvParts
  <2>2. QED
    BY <2>1 DEF ThreadsOk, StacksOk, ContextsRight
<1>2. QED
  BY <1>1, ContextInvariant, PTL

(* What %store put in the context of a call stays there until its outputs  *)
(* are read, whatever nested and recursive calls and other threads do.     *)
THEOREM ArgumentsStay == Spec => []ArgumentsKept
<1>1. IInv => ArgumentsKept
  BY InvParts
<1>2. QED
  BY <1>1, ContextInvariant, PTL

(* vthread_alloc_context never gives a context of an open call to another, *)
(* vthread_free_context finds it on the list of live contexts, and only a  *)
(* disabled thread's calls leave theirs there.                             *)
THEOREM OneCallEach == Spec => []OneCall
<1>1. IInv => OneCall
  BY DEF IInv
<1>2. QED
  BY <1>1, ContextInvariant, PTL

=============================================================================
