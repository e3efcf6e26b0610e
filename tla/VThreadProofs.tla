--------------------------- MODULE VThreadProofs ---------------------------
(***************************************************************************)
(* Proofs about the threads of VThread, for any number of threads and      *)
(* scopes and any size of fork blocks, in the programs whose %disable      *)
(* meets no detached thread and no thread suspended in a mailbox.          *)
(*                                                                         *)
(* The argument: the invariant IInv relates four views of a thread that    *)
(* the code keeps apart.  Its flags go together (Rows); the pointers up    *)
(* and down agree, parents live and there is no cycle (Linked, Acyclic);   *)
(* its children are the ones its fork block has still to join or detach    *)
(* (Counts); and it is in the one queue that its flags tell (Places,       *)
(* Queues).  The steps that remove threads, %end, %join and the disabling  *)
(* ones, are shown to be cuts (Cut): K threads leave the tree, Z threads   *)
(* are dead and wait to be joined, W threads wake up, the detached         *)
(* children of all of these lose their parent and nothing else changes.    *)
(* One lemma shows that a cut keeps each part of the invariant.            *)
(***************************************************************************)
EXTENDS VThread, FiniteSetTheorems, WellFoundedInduction, TLAPS

(* The hypothesis of the theorems on the constant Programs. *)
SoundPrograms == \A k \in Programs : Sound(k)

-----------------------------------------------------------------------------
(* The inductive invariant.  Its parts are stated of any thread table f.   *)
Alive(f, x) == f[x].exists /\ ~ f[x].zombie

(* One thread: flags that go together. *)
RowOk(r) ==
  /\ r.exists => ~ r.freed /\ (r.zombie <=> r.i_have_ended)
  /\ r.exists /\ ~ r.zombie => r.in_scope /\ (r.i_am_detached => r.parent # None)
  /\ r.exists /\ r.zombie =>
       /\ r.children = {}
       /\ r.parent # None => r.detached_children = {} /\ ~ r.i_am_detached
       /\ r.in_scope => r.parent # None
  /\ ~ r.exists =>
       /\ r.children = {} /\ r.detached_children = {} /\ r.parent = None
       /\ ~ r.in_scope /\ ~ r.is_scheduled /\ ~ r.waiting_for_event
       /\ r.freed => r.zombie

Rows(f) == \A x \in Threads : RowOk(f[x])

(* The pointers up and down agree, parents live, and there is no cycle.    *)
Linked(f) ==
  /\ \A p, c \in Threads : c \in f[p].children <=> (f[c].parent = p /\ ~ f[c].i_am_detached)
  /\ \A p, c \in Threads : f[c].parent = p /\ f[c].i_am_detached => c \in f[p].detached_children
  /\ \A p, c \in Threads : Alive(f, p) /\ c \in f[p].detached_children =>
                             f[c].parent = p /\ f[c].i_am_detached
  /\ \A c \in Threads : f[c].parent # None => Alive(f, f[c].parent)

Below(rank, f) == \A c \in Threads : f[c].parent # None => rank[c] < rank[f[c].parent]

Acyclic(f) == \E rank \in [Threads -> Nat] : Below(rank, f)

(* Every child is still to be joined or detached, and a thread in %join    *)
(* has no child that has ended.                                            *)
Counted(r, b) ==
  Cardinality(r.children) + b.fork = b.join + b.detach + (IF r.i_am_joining THEN 1 ELSE 0)

Counts(f, td) ==
  \A x \in Threads :
    /\ Alive(f, x) =>
         /\ Counted(f[x], td[x])
         /\ f[x].i_am_joining => \A c \in f[x].children : ~ f[c].i_have_ended
         /\ f[x].i_am_waiting => f[x].detached_children # {}
    /\ ~ f[x].exists /\ ~ f[x].freed => td[x].fork = 0 /\ td[x].join = 0 /\ td[x].detach = 0

NoDetached(f, td) ==
  \A x \in Threads : f[x].detached_children = {} /\ ~ f[x].i_am_detached /\ td[x].detach = 0

(* Where a thread is: run tells that it runs, sus that it is suspended.    *)
PlaceOk(r, run, sus) ==
  /\ ~ (r.is_scheduled /\ r.waiting_for_event)
  /\ run => ~ r.is_scheduled /\ ~ r.waiting_for_event
  /\ sus => /\ r.exists /\ ~ r.zombie /\ ~ run
            /\ ~ r.is_scheduled /\ ~ r.waiting_for_event /\ ~ r.i_am_joining /\ ~ r.i_am_waiting
  /\ r.exists /\ ~ r.zombie =>
       /\ \/ r.is_scheduled \/ r.waiting_for_event
          \/ run \/ sus \/ r.i_am_joining \/ r.i_am_waiting
       /\ r.i_am_joining \/ r.i_am_waiting =>
            ~ r.is_scheduled /\ ~ r.waiting_for_event /\ ~ run
       /\ ~ (r.i_am_joining /\ r.i_am_waiting)
  /\ r.exists /\ r.zombie /\ r.parent = None => r.is_scheduled \/ r.waiting_for_event \/ run

Places(f, run, sus) == \A x \in Threads : PlaceOk(f[x], run = x, x \in Range(sus))

(* The queues hold what the flags say, once. *)
Once(lists) ==
  \A i, k \in DOMAIN lists : \A j \in DOMAIN lists[i], l \in DOMAIN lists[k] :
    lists[i][j] = lists[k][l] => i = k /\ j = l

Marks(f, a, e, l, w) ==
  \A x \in Threads :
    /\ f[x].is_scheduled <=> x \in Members(a) \cup Range(e) \cup l
    /\ f[x].waiting_for_event <=> x \in Range(w)

Apart(a, e, l) ==
  Members(a) \cap Range(e) = {} /\ Members(a) \cap l = {} /\ Range(e) \cap l = {}

Queues ==
  /\ Once(active) /\ IsInjective(rest) /\ IsInjective(event_list) /\ IsInjective(suspended)
  /\ Apart(active, rest, later)
  /\ Marks(thr, active, rest, later, event_list)

(* The running thread, also while it disables others. *)
RunOk ==
  /\ running # None => thr[running].exists \/ (disabling \in Scopes /\ thr[running].zombie)
  /\ disabling # None =>
       /\ running # None
       /\ thr[running].exists /\ thr[running].zombie => thr[running].parent # None
  /\ disabling \in Scopes => "disable" \in Opcodes
  /\ disabling \in Threads => running = disabling /\ Alive(thr, running) /\ "disfork" \in Opcodes

IInv ==
  /\ TypeOK /\ Sound(program) /\ ~ aborted
  /\ Rows(thr) /\ Linked(thr) /\ Acyclic(thr)
  /\ Counts(thr, todo)
  /\ {"join_any", "join_none"} \cap Opcodes = {} => NoDetached(thr, todo)
  /\ suspended # << >> => "mbx" \in Opcodes
  /\ Places(thr, running, suspended)
  /\ Queues /\ RunOk

-----------------------------------------------------------------------------
(* Facts about sequences. *)

LEMMA HeadTail ==
  ASSUME NEW S, NEW s \in Seq(S), s # << >>
  PROVE  /\ Head(s) \in S /\ Tail(s) \in Seq(S) /\ Head(s) = s[1]
         /\ Len(s) \in Nat \ {0} /\ Len(Tail(s)) = Len(s) - 1
         /\ \A k \in 1..(Len(s) - 1) : Tail(s)[k] = s[k + 1]
  OBVIOUS

LEMMA PutInFront ==
  ASSUME NEW S, NEW s \in Seq(S), NEW x \in S
  PROVE  /\ <<x>> \o s \in Seq(S) /\ <<x>> \o s # << >>
         /\ Len(<<x>> \o s) = Len(s) + 1 /\ Len(s) \in Nat
         /\ (<<x>> \o s)[1] = x
         /\ \A k \in 2..(Len(s) + 1) : (<<x>> \o s)[k] = s[k - 1]
         /\ Head(<<x>> \o s) = x /\ Tail(<<x>> \o s) = s
  OBVIOUS

(* Lists without repetition. *)
LEMMA RangeFront ==
  ASSUME NEW S, NEW s \in Seq(S), NEW x \in S
  PROVE  /\ Range(<<x>> \o s) = {x} \cup Range(s)
         /\ IsInjective(s) /\ x \notin Range(s) => IsInjective(<<x>> \o s)
<1> DEFINE r == <<x>> \o s
<1>1. /\ r \in Seq(S) /\ Len(r) = Len(s) + 1 /\ Len(s) \in Nat /\ r[1] = x
      /\ \A k \in 2..(Len(s) + 1) : r[k] = s[k - 1]
  BY PutInFront
<1>2. DOMAIN r = 1..(Len(s) + 1) /\ DOMAIN s = 1..Len(s)
  BY <1>1
<1> HIDE DEF r
<1>3. ASSUME NEW k \in DOMAIN r PROVE r[k] \in {x} \cup Range(s)
  <2>1. CASE k = 1
    BY <1>1, <2>1
  <2>2. CASE k # 1
    <3>1. k \in 2..(Len(s) + 1) /\ k - 1 \in DOMAIN s
      BY <1>1, <1>2, <2>2
    <3>2. QED
      BY <1>1, <3>1 DEF Range
  <2>3. QED
    BY <2>1, <2>2
<1>4. ASSUME NEW k \in DOMAIN s PROVE s[k] \in Range(r)
  <2>1. k + 1 \in DOMAIN r /\ r[k + 1] = s[k]
    BY <1>1, <1>2
  <2>2. QED
    BY <2>1 DEF Range
<1>5. x \in Range(r)
  BY <1>1, <1>2 DEF Range
<1>6. Range(r) = {x} \cup Range(s)
  BY <1>3, <1>4, <1>5 DEF Range
<1>7. ASSUME IsInjective(s), x \notin Range(s), NEW j \in DOMAIN r, NEW k \in DOMAIN r, r[j] = r[k]
      PROVE  j = k
  <2>1. \A m \in DOMAIN r : m # 1 => m - 1 \in DOMAIN s /\ r[m] = s[m - 1] /\ m \in Int
    BY <1>1, <1>2
  <2>2. \A m \in DOMAIN s : s[m] # x
    BY <1>7 DEF Range
  <2>3. CASE j = 1 \/ k = 1
    BY <1>1, <1>7, <2>1, <2>2, <2>3
  <2>4. CASE j # 1 /\ k # 1
    <3>1. j - 1 = k - 1
      BY <1>7, <2>1, <2>4 DEF IsInjective
    <3>2. QED
      BY <2>1, <2>4, <3>1
  <2>5. QED
    BY <2>3, <2>4
<1>8. QED
  BY <1>6, <1>7 DEF IsInjective, r

LEMMA RangeTail ==
  ASSUME NEW S, NEW s \in Seq(S), s # << >>
  PROVE  /\ Range(s) = {Head(s)} \cup Range(Tail(s))
         /\ IsInjective(s) => IsInjective(Tail(s)) /\ Head(s) \notin Range(Tail(s))
<1> DEFINE r == Tail(s)
<1>1. /\ r \in Seq(S) /\ Head(s) = s[1] /\ Len(s) \in Nat \ {0} /\ Len(r) = Len(s) - 1
      /\ \A k \in 1..(Len(s) - 1) : r[k] = s[k + 1]
  BY HeadTail
<1>2. DOMAIN r = 1..(Len(s) - 1) /\ DOMAIN s = 1..Len(s)
  BY <1>1
<1> HIDE DEF r
<1>3. \A k \in DOMAIN r : k + 1 \in DOMAIN s /\ r[k] = s[k + 1] /\ k \in Int /\ k + 1 # 1
  BY <1>1, <1>2
<1>4. 1 \in DOMAIN s
  BY <1>1, <1>2
<1>5. Range(s) = {Head(s)} \cup Range(r)
  <2>1. ASSUME NEW k \in DOMAIN s PROVE s[k] = Head(s) \/ s[k] \in Range(r)
    <3>1. CASE k = 1
      BY <1>1, <3>1
    <3>2. CASE k # 1
      <4>1. k - 1 \in DOMAIN r /\ r[k - 1] = s[k]
        BY <1>1, <1>2, <3>2
      <4>2. QED
        BY <4>1 DEF Range
    <3>3. QED
      BY <3>1, <3>2
  <2>2. {Head(s)} \cup Range(r) \subseteq Range(s)
    BY <1>1, <1>3, <1>4 DEF Range
  <2>3. QED
    BY <2>1, <2>2 DEF Range
<1>6. ASSUME IsInjective(s) PROVE IsInjective(r) /\ Head(s) \notin Range(r)
  <2>1. ASSUME NEW j \in DOMAIN r, NEW k \in DOMAIN r, r[j] = r[k] PROVE j = k
    <3>1. j + 1 = k + 1
      BY <1>3, <1>6, <2>1 DEF IsInjective
    <3>2. QED
      BY <1>3, <3>1
  <2>2. ASSUME NEW k \in DOMAIN r PROVE r[k] # Head(s)
    BY <1>1, <1>3, <1>4, <1>6 DEF IsInjective
  <2>3. QED
    BY <2>1, <2>2 DEF IsInjective, Range
<1>7. QED
  BY <1>5, <1>6 DEF r

LEMMA RangeLast ==
  ASSUME NEW S, NEW s \in Seq(S), NEW x \in S
  PROVE  /\ Append(s, x) \in Seq(S) /\ Range(Append(s, x)) = Range(s) \cup {x}
         /\ IsInjective(s) /\ x \notin Range(s) => IsInjective(Append(s, x))
<1>0. PICK r : r = Append(s, x)
  OBVIOUS
<1>1. /\ r \in Seq(S) /\ Len(r) = Len(s) + 1 /\ Len(s) \in Nat /\ r[Len(s) + 1] = x
      /\ \A k \in 1..Len(s) : r[k] = s[k]
  BY <1>0
<1>2. DOMAIN r = 1..(Len(s) + 1) /\ DOMAIN s = 1..Len(s)
  BY <1>1
<1>3. \A k \in DOMAIN r : (k \in DOMAIN s /\ r[k] = s[k]) \/ (k = Len(s) + 1 /\ r[k] = x)
  BY <1>1, <1>2
<1>4. DOMAIN s \subseteq DOMAIN r /\ Len(s) + 1 \in DOMAIN r /\ \A k \in DOMAIN s : r[k] = s[k]
  BY <1>1, <1>2
<1>5. Range(r) = Range(s) \cup {x}
  BY <1>1, <1>3, <1>4 DEF Range
<1>6. ASSUME IsInjective(s), x \notin Range(s) PROVE IsInjective(r)
  BY <1>3, <1>6 DEF IsInjective, Range
<1>7. QED
  BY <1>0, <1>1, <1>5, <1>6

LEMMA RangeNone == Range(<< >>) = {} /\ IsInjective(<< >>)
  BY DEF Range, IsInjective

-----------------------------------------------------------------------------
(* The lists of threads of the active events. *)

LEMMA MembersAre ==
  ASSUME NEW a
  PROVE  \A x : x \in Members(a) <=> \E i \in DOMAIN a : x \in Range(a[i])
  BY DEF Members

LEMMA PushLists ==
  ASSUME NEW T, NEW a \in Seq(Seq(T) \ {<< >>}), NEW x \in T
  PROVE  /\ Push(a, x) \in Seq(Seq(T) \ {<< >>}) /\ Members(Push(a, x)) = {x} \cup Members(a)
         /\ Once(a) /\ x \notin Members(a) => Once(Push(a, x))
<1>0. PICK b, l : b = Push(a, x) /\ l = <<x>>
  OBVIOUS
<1>1. l \in Seq(T) \ {<< >>} /\ DOMAIN l = {1} /\ l[1] = x /\ Range(l) = {x}
  BY <1>0 DEF Range
<1>2. /\ b \in Seq(Seq(T) \ {<< >>}) /\ Len(b) = Len(a) + 1 /\ Len(a) \in Nat /\ b[1] = l
      /\ \A k \in 2..(Len(a) + 1) : b[k] = a[k - 1]
  <2>1. b = <<l>> \o a
    BY <1>0 DEF Push
  <2>2. QED
    BY <1>1, <2>1, PutInFront
<1>3. DOMAIN b = 1..(Len(a) + 1) /\ DOMAIN a = 1..Len(a)
  BY <1>2
<1>4. /\ b[1] = l
      /\ \A k \in DOMAIN b : k # 1 => k - 1 \in DOMAIN a /\ b[k] = a[k - 1] /\ k \in Int
  <2>1. SUFFICES ASSUME NEW k \in DOMAIN b, k # 1
                 PROVE  k - 1 \in DOMAIN a /\ b[k] = a[k - 1] /\ k \in Int
    BY <1>2
  <2>2. k \in 2..(Len(a) + 1)
    BY <1>2, <1>3, <2>1
  <2>3. k - 1 \in 1..Len(a) /\ k \in Int
    BY SMTT(30), <1>2, <2>2
  <2>4. QED
    BY <1>2, <1>3, <2>2, <2>3
<1>5. /\ 1 \in DOMAIN b /\ b[1] = l
      /\ \A k \in DOMAIN a : k + 1 \in DOMAIN b /\ b[k + 1] = a[k]
  BY <1>2, <1>3
<1>6. Members(b) = {x} \cup Members(a)
  <2>1. ASSUME NEW y \in Members(b) PROVE y \in {x} \cup Members(a)
    BY <1>1, <1>4, MembersAre
  <2>2. ASSUME NEW y \in {x} \cup Members(a) PROVE y \in Members(b)
    BY <1>1, <1>5, MembersAre
  <2>3. QED
    BY <2>1, <2>2
<1>7. ASSUME Once(a), x \notin Members(a) PROVE Once(b)
  <2>1. SUFFICES ASSUME NEW i \in DOMAIN b, NEW k \in DOMAIN b, NEW j \in DOMAIN b[i],
                        NEW m \in DOMAIN b[k], b[i][j] = b[k][m]
                 PROVE  i = k /\ j = m
    BY DEF Once
  <2>2. \A h \in DOMAIN a : \A n \in DOMAIN a[h] : a[h][n] # x
    BY <1>7 DEF Members, Range
  <2>3. CASE i = 1 /\ k = 1
    BY <1>1, <1>5, <2>1, <2>3
  <2>4. CASE i = 1 /\ k # 1
    <3>1. k - 1 \in DOMAIN a /\ b[k] = a[k - 1] /\ b[i][j] = x
      BY <1>1, <1>4, <2>1, <2>4
    <3>2. QED
      BY <2>1, <2>2, <3>1
  <2>5. CASE i # 1 /\ k = 1
    <3>1. i - 1 \in DOMAIN a /\ b[i] = a[i - 1] /\ b[k][m] = x
      BY <1>1, <1>4, <2>1, <2>5
    <3>2. QED
      BY <2>1, <2>2, <3>1
  <2>6. CASE i # 1 /\ k # 1
    <3>1. /\ i - 1 \in DOMAIN a /\ b[i] = a[i - 1] /\ i \in Int
          /\ k - 1 \in DOMAIN a /\ b[k] = a[k - 1] /\ k \in Int
      BY <1>4, <2>6
    <3>2. i - 1 = k - 1 /\ j = m
      BY <1>7, <2>1, <3>1 DEF Once
    <3>3. QED
      BY <3>1, <3>2
  <2>7. QED
    BY <2>3, <2>4, <2>5, <2>6
<1>8. QED
  BY <1>0, <1>2, <1>6, <1>7

LEMMA AppendLists ==
  ASSUME NEW T, NEW a \in Seq(Seq(T) \ {<< >>}), NEW l \in Seq(T), l # << >>
  PROVE  /\ Append(a, l) \in Seq(Seq(T) \ {<< >>})
         /\ Members(Append(a, l)) = Members(a) \cup Range(l)
         /\ Once(a) /\ IsInjective(l) /\ Members(a) \cap Range(l) = {} => Once(Append(a, l))
<1>0. PICK b : b = Append(a, l)
  OBVIOUS
<1>1. /\ b \in Seq(Seq(T) \ {<< >>}) /\ Len(b) = Len(a) + 1 /\ Len(a) \in Nat
      /\ b[Len(a) + 1] = l /\ \A k \in 1..Len(a) : b[k] = a[k]
  BY <1>0
<1>2. DOMAIN b = 1..(Len(a) + 1) /\ DOMAIN a = 1..Len(a)
  BY <1>1
<1>3. \A k \in DOMAIN b : (k \in DOMAIN a /\ b[k] = a[k]) \/ (k = Len(a) + 1 /\ b[k] = l)
  BY <1>1, <1>2
<1>4. DOMAIN a \subseteq DOMAIN b /\ Len(a) + 1 \in DOMAIN b /\ \A k \in DOMAIN a : b[k] = a[k]
  BY <1>1, <1>2
<1>5. Members(b) = Members(a) \cup Range(l)
  <2>1. ASSUME NEW y \in Members(b) PROVE y \in Members(a) \cup Range(l)
    BY <1>3, MembersAre
  <2>2. ASSUME NEW y \in Members(a) \cup Range(l) PROVE y \in Members(b)
    BY <1>1, <1>4, MembersAre
  <2>3. QED
    BY <2>1, <2>2
<1>6. ASSUME Once(a), IsInjective(l), Members(a) \cap Range(l) = {} PROVE Once(b)
  <2>1. SUFFICES ASSUME NEW i \in DOMAIN b, NEW k \in DOMAIN b, NEW j \in DOMAIN b[i],
                        NEW m \in DOMAIN b[k], b[i][j] = b[k][m]
                 PROVE  i = k /\ j = m
    BY DEF Once
  <2>2. \A h \in DOMAIN a : \A n \in DOMAIN a[h] : \A o \in DOMAIN l : a[h][n] # l[o]
    BY <1>6 DEF Members, Range
  <2>3. CASE b[i] = l /\ b[k] = l /\ i = k
    BY <1>6, <2>1, <2>3 DEF IsInjective
  <2>4. CASE i \in DOMAIN a /\ b[i] = a[i] /\ k \in DOMAIN a /\ b[k] = a[k]
    BY <1>6, <2>1, <2>4 DEF Once
  <2>5. CASE (i \in DOMAIN a /\ b[i] = a[i] /\ b[k] = l) \/ (k \in DOMAIN a /\ b[k] = a[k] /\ b[i] = l)
    BY <2>1, <2>2, <2>5
  <2>6. QED
    BY <1>3, <2>3, <2>4, <2>5
<1>7. QED
  BY <1>0, <1>1, <1>5, <1>6

LEMMA PopLists ==
  ASSUME NEW T, NEW a \in Seq(Seq(T) \ {<< >>}), a # << >>
  PROVE  /\ Head(a) \in Seq(T) /\ Head(a) # << >> /\ Tail(a) \in Seq(Seq(T) \ {<< >>})
         /\ Members(a) = Range(Head(a)) \cup Members(Tail(a))
         /\ Once(a) => /\ Once(Tail(a)) /\ IsInjective(Head(a))
                       /\ Range(Head(a)) \cap Members(Tail(a)) = {}
<1>0. PICK b, l : b = Tail(a) /\ l = Head(a)
  OBVIOUS
<1>1. /\ l \in Seq(T) \ {<< >>} /\ b \in Seq(Seq(T) \ {<< >>}) /\ l = a[1]
      /\ Len(a) \in Nat \ {0} /\ Len(b) = Len(a) - 1
      /\ \A k \in 1..(Len(a) - 1) : b[k] = a[k + 1]
  BY <1>0, HeadTail
<1>2. DOMAIN b = 1..(Len(a) - 1) /\ DOMAIN a = 1..Len(a) /\ 1 \in DOMAIN a
  BY <1>1
<1>3. \A k \in DOMAIN b : k + 1 \in DOMAIN a /\ b[k] = a[k + 1] /\ k \in Int /\ k + 1 # 1
  BY <1>1, <1>2
<1>4. \A k \in DOMAIN a : k = 1 \/ (k - 1 \in DOMAIN b /\ a[k] = b[k - 1])
  BY SMTT(30), <1>1, <1>2
<1>5. Members(a) = Range(l) \cup Members(b)
  <2>1. ASSUME NEW y \in Members(a) PROVE y \in Range(l) \cup Members(b)
    <3>1. PICK k \in DOMAIN a : y \in Range(a[k])
      BY MembersAre
    <3>2. CASE k = 1
      BY <1>1, <3>1, <3>2
    <3>3. CASE k # 1
      BY <1>4, <3>1, <3>3, MembersAre
    <3>4. QED
      BY <3>2, <3>3
  <2>2. ASSUME NEW y \in Range(l) \cup Members(b) PROVE y \in Members(a)
    BY <1>1, <1>2, <1>3, MembersAre
  <2>3. QED
    BY <2>1, <2>2
<1>6. ASSUME Once(a) PROVE Once(b) /\ IsInjective(l) /\ Range(l) \cap Members(b) = {}
  <2>1. ASSUME NEW i \in DOMAIN b, NEW k \in DOMAIN b, NEW j \in DOMAIN b[i],
               NEW m \in DOMAIN b[k], b[i][j] = b[k][m]
        PROVE  i = k /\ j = m
    <3>1. i + 1 = k + 1 /\ j = m
      BY <1>3, <1>6, <2>1 DEF Once
    <3>2. QED
      BY <1>3, <3>1
  <2>0. l = a[1] /\ 1 \in DOMAIN a
    BY <1>1, <1>2
  <2>2. IsInjective(l)
    BY <1>6, <2>0 DEF Once, IsInjective
  <2>3. ASSUME NEW k \in DOMAIN b, NEW m \in DOMAIN b[k], NEW j \in DOMAIN l PROVE b[k][m] # l[j]
    <3>1. k + 1 \in DOMAIN a /\ b[k] = a[k + 1] /\ k + 1 # 1
      BY <1>3
    <3>2. QED
      BY <1>6, <2>0, <3>1 DEF Once
  <2>4. Range(l) \cap Members(b) = {}
    BY <2>3 DEF Members, Range
  <2>5. QED
    BY <2>1, <2>2, <2>4 DEF Once
<1>7. QED
  BY <1>0, <1>1, <1>5, <1>6

-----------------------------------------------------------------------------
(* Threads that go: K are reaped, Z have ended and wait to be joined, W    *)
(* are woken.  Every end, disable and reap of the code is such a change.   *)
GoneRow(r, n) ==
  IF ~ r.is_scheduled /\ ~ r.waiting_for_event THEN n = Deleted
  ELSE /\ n.exists /\ ~ n.freed /\ n.zombie /\ n.i_have_ended /\ ~ n.in_scope
       /\ n.parent = None /\ n.children = {}
       /\ n.detached_children \subseteq r.detached_children
       /\ n.i_am_detached => r.i_am_detached
       /\ n.is_scheduled = r.is_scheduled /\ n.waiting_for_event = r.waiting_for_event

EndedRow(r, n) ==
  /\ n.exists /\ ~ n.freed /\ n.zombie /\ n.i_have_ended
  /\ n.parent = r.parent /\ n.parent # None /\ ~ r.i_am_detached /\ ~ n.i_am_detached
  /\ n.children = {} /\ n.detached_children = {}
  /\ n.is_scheduled = r.is_scheduled /\ n.waiting_for_event = r.waiting_for_event

SameLife(r, n) ==
  /\ n.exists = r.exists /\ n.freed = r.freed /\ n.zombie = r.zombie
  /\ n.in_scope = r.in_scope /\ n.i_have_ended = r.i_have_ended
  /\ n.waiting_for_event = r.waiting_for_event

KeptRow(r, n, K, orphan, woken) ==
  /\ SameLife(r, n)
  /\ n.children = r.children \ K
  /\ n.detached_children \subseteq r.detached_children
  /\ r.exists /\ ~ r.zombie => n.detached_children = r.detached_children \ K
  /\ IF orphan THEN n.parent = None /\ ~ n.i_am_detached
     ELSE n.parent = r.parent /\ n.i_am_detached = r.i_am_detached
  /\ IF woken THEN ~ n.i_am_joining /\ ~ n.i_am_waiting /\ n.is_scheduled
     ELSE /\ n.i_am_joining = r.i_am_joining /\ n.i_am_waiting = r.i_am_waiting
          /\ n.is_scheduled = r.is_scheduled

Cut(f, g, K, Z, W) ==
  /\ K \subseteq Threads /\ Z \subseteq Threads /\ W \subseteq Threads
  /\ K \cap Z = {} /\ W \cap (K \cup Z) = {}
  /\ \A x \in K : f[x].exists /\ GoneRow(f[x], g[x])
  /\ \A x \in Z : f[x].exists /\ EndedRow(f[x], g[x]) /\ f[x].parent \notin K \cup Z
  /\ \A x \in Threads \ (K \cup Z) :
       KeptRow(f[x], g[x], K, f[x].parent \in K \cup Z, x \in W)
  /\ \A x \in Threads : f[x].parent \in K \cup Z /\ ~ f[x].i_am_detached => x \in K
  /\ \A x \in W : Alive(f, x) /\ (f[x].i_am_joining \/ f[x].i_am_waiting)

LEMMA Fields ==
  ASSUME NEW r \in vthread_s
  PROVE  /\ r.parent \in Threads \cup {None}
         /\ r.children \in SUBSET Threads /\ r.detached_children \in SUBSET Threads
         /\ r.exists \in BOOLEAN /\ r.freed \in BOOLEAN /\ r.zombie \in BOOLEAN
         /\ r.scope \in Scopes /\ r.in_scope \in BOOLEAN /\ r.i_am_joining \in BOOLEAN
         /\ r.i_am_detached \in BOOLEAN /\ r.i_am_waiting \in BOOLEAN
         /\ r.i_have_ended \in BOOLEAN /\ r.waiting_for_event \in BOOLEAN
         /\ r.is_scheduled \in BOOLEAN
  BY DEF vthread_s

LEMMA ParentIs ==
  ASSUME NEW f \in [Threads -> vthread_s], NEW c \in Threads
  PROVE  f[c].parent \in Threads \cup {None}
  BY DEF vthread_s

LEMMA DeletedFields ==
  /\ ~ Deleted.exists /\ Deleted.freed /\ Deleted.zombie /\ ~ Deleted.in_scope
  /\ Deleted.parent = None /\ Deleted.children = {} /\ Deleted.detached_children = {}
  /\ ~ Deleted.i_am_joining /\ ~ Deleted.i_am_detached /\ ~ Deleted.i_am_waiting
  /\ ~ Deleted.i_have_ended /\ ~ Deleted.waiting_for_event /\ ~ Deleted.is_scheduled
  BY DEF Deleted, NoThread, vthread_new

LEMMA GoneFields ==
  ASSUME NEW r, NEW n, GoneRow(r, n)
  PROVE  /\ n.parent = None /\ n.children = {} /\ n.zombie /\ RowOk(n)
         /\ n.exists => n.i_have_ended /\ (n.is_scheduled \/ n.waiting_for_event)
         /\ r.detached_children = {} => n.detached_children = {}
         /\ ~ r.i_am_detached => ~ n.i_am_detached
         /\ n.is_scheduled <=> r.is_scheduled
         /\ n.waiting_for_event <=> r.waiting_for_event
<1>1. CASE ~ r.is_scheduled /\ ~ r.waiting_for_event
  <2>1. n = Deleted
    BY <1>1 DEF GoneRow
  <2>2. QED
    BY <1>1, <2>1, DeletedFields DEF RowOk
<1>2. CASE ~ (~ r.is_scheduled /\ ~ r.waiting_for_event)
  BY <1>2 DEF GoneRow, RowOk
<1>3. QED
  BY <1>1, <1>2

LEMMA CutRows ==
  ASSUME NEW f, NEW g, NEW K, NEW Z, NEW W, Rows(f), Cut(f, g, K, Z, W)
  PROVE  Rows(g)
<1>1. SUFFICES ASSUME NEW x \in Threads PROVE RowOk(g[x])
  BY DEF Rows
<1>2. CASE x \in K
  BY <1>2, GoneFields DEF Cut
<1>3. CASE x \in Z
  <2>1. EndedRow(f[x], g[x])
    BY <1>3 DEF Cut
  <2>2. QED
    BY <2>1 DEF EndedRow, RowOk
<1>4. CASE x \notin K \cup Z
  <2>1. KeptRow(f[x], g[x], K, f[x].parent \in K \cup Z, x \in W) /\ RowOk(f[x])
    BY <1>4 DEF Cut, Rows
  <2>2. f[x].parent \in K \cup Z => f[x].i_am_detached /\ f[x].parent # None
    BY <1>4, ThreadsAssumption DEF Cut
  <2>3. CASE f[x].parent \in K \cup Z
    <3>1. f[x].exists /\ ~ f[x].zombie
      BY <2>1, <2>2, <2>3 DEF RowOk
    <3>2. QED
      BY <2>1, <2>3, <3>1 DEF KeptRow, SameLife, RowOk
  <2>4. CASE f[x].parent \notin K \cup Z
    <3>1. /\ g[x].parent = f[x].parent /\ g[x].i_am_detached = f[x].i_am_detached
          /\ SameLife(f[x], g[x])
          /\ g[x].children \subseteq f[x].children
          /\ g[x].detached_children \subseteq f[x].detached_children
          /\ ~ f[x].exists => g[x].is_scheduled = f[x].is_scheduled
      BY <2>1, <2>4 DEF KeptRow, Cut, Alive
    <3>2. QED
      BY <2>1, <3>1 DEF SameLife, RowOk
  <2>5. QED
    BY <2>3, <2>4
<1>5. QED
  BY <1>2, <1>3, <1>4

LEMMA CutLinked ==
  ASSUME NEW f \in [Threads -> vthread_s], NEW g, NEW K, NEW Z, NEW W,
         Rows(f), Linked(f), Cut(f, g, K, Z, W)
  PROVE  Linked(g) /\ (Acyclic(f) => Acyclic(g))
<1>1. ASSUME NEW c \in K
      PROVE  c \in Threads /\ c \notin Z /\ g[c].parent = None /\ g[c].children = {} /\ g[c].zombie
  BY GoneFields DEF Cut
<1>2. ASSUME NEW c \in Z
      PROVE  /\ c \in Threads /\ c \notin K /\ g[c].parent = f[c].parent /\ g[c].parent # None
             /\ f[c].parent \notin K \cup Z /\ ~ f[c].i_am_detached /\ ~ g[c].i_am_detached
             /\ g[c].children = {} /\ g[c].detached_children = {} /\ g[c].zombie
  BY DEF Cut, EndedRow
<1>3. ASSUME NEW c \in Threads, c \notin K \cup Z
      PROVE  /\ g[c].children = f[c].children \ K /\ (Alive(f, c) <=> Alive(g, c))
             /\ Alive(f, c) => g[c].detached_children = f[c].detached_children \ K
             /\ f[c].parent \in K \cup Z => g[c].parent = None /\ ~ g[c].i_am_detached
             /\ f[c].parent \notin K \cup Z =>
                  g[c].parent = f[c].parent /\ (g[c].i_am_detached <=> f[c].i_am_detached)
  <2>1. KeptRow(f[c], g[c], K, f[c].parent \in K \cup Z, c \in W)
    BY <1>3 DEF Cut
  <2>2. QED
    BY <2>1 DEF KeptRow, SameLife, Alive
<1>4. ASSUME NEW c \in Threads, NEW p \in Threads, g[c].parent = p
      PROVE  /\ c \notin K /\ p \notin K \cup Z /\ f[c].parent = p
             /\ g[c].i_am_detached <=> f[c].i_am_detached
  <2>1. p # None
    BY ThreadsAssumption
  <2>2. CASE c \in K
    BY <1>1, <1>4, <2>1, <2>2
  <2>3. CASE c \in Z
    BY <1>2, <1>4, <2>3
  <2>4. CASE c \notin K \cup Z
    BY <1>3, <1>4, <2>1, <2>4
  <2>5. QED
    BY <2>2, <2>3, <2>4
<1>5. ASSUME NEW p \in Threads, NEW c \in Threads
      PROVE  c \in g[p].children <=> (g[c].parent = p /\ ~ g[c].i_am_detached)
  <2>1. CASE p \in K \cup Z
    BY <1>1, <1>2, <1>4, <2>1
  <2>2. CASE p \notin K \cup Z /\ c \in K
    BY <1>1, <1>3, <1>4, <2>2
  <2>3. CASE p \notin K \cup Z /\ c \notin K
    <3>1. c \in g[p].children <=> (f[c].parent = p /\ ~ f[c].i_am_detached)
      BY <1>3, <2>3 DEF Linked
    <3>2. f[c].parent = p => g[c].parent = p /\ (g[c].i_am_detached <=> f[c].i_am_detached)
      <4>1. CASE c \in Z
        BY <1>2, <4>1
      <4>2. CASE c \notin Z
        BY <1>3, <2>3, <4>2
      <4>3. QED
        BY <4>1, <4>2
    <3>3. QED
      BY <1>4, <3>1, <3>2
  <2>4. QED
    BY <2>1, <2>2, <2>3
<1>6. ASSUME NEW c \in Threads, g[c].parent # None
      PROVE  g[c].parent = f[c].parent /\ Alive(g, g[c].parent) /\ g[c].parent \in Threads
  <2>1. g[c].parent = f[c].parent
    BY <1>1, <1>2, <1>3, <1>6
  <2>2. Alive(f, f[c].parent) /\ f[c].parent \in Threads
    BY <1>6, <2>1, ParentIs DEF Linked
  <2>3. f[c].parent \notin K \cup Z
    BY <1>4, <2>1, <2>2
  <2>4. QED
    BY <1>3, <2>1, <2>2, <2>3
<1>7. ASSUME NEW p \in Threads, NEW c \in Threads, g[c].parent = p, g[c].i_am_detached
      PROVE  c \in g[p].detached_children
  <2>1. c \notin K /\ p \notin K \cup Z /\ f[c].parent = p /\ f[c].i_am_detached
    BY <1>4, <1>7
  <2>2. Alive(f, p) /\ c \in f[p].detached_children
    BY <2>1, ThreadsAssumption DEF Linked
  <2>3. QED
    BY <1>3, <2>1, <2>2
<1>8. ASSUME NEW p \in Threads, NEW c \in Threads, Alive(g, p), c \in g[p].detached_children
      PROVE  g[c].parent = p /\ g[c].i_am_detached
  <2>1. p \notin K \cup Z
    BY <1>1, <1>2, <1>8 DEF Alive
  <2>2. Alive(f, p) /\ c \in f[p].detached_children /\ c \notin K
    BY <1>3, <1>8, <2>1
  <2>3. f[c].parent = p /\ f[c].i_am_detached
    BY <2>2 DEF Linked
  <2>4. c \notin Z
    BY <1>2, <2>3
  <2>5. QED
    BY <1>3, <2>1, <2>2, <2>3, <2>4
<1>9. ASSUME Acyclic(f) PROVE Acyclic(g)
  BY <1>6, <1>9 DEF Acyclic, Below
<1>10. QED
  BY <1>5, <1>6, <1>7, <1>8, <1>9 DEF Linked

LEMMA CutPlaces ==
  ASSUME NEW f, NEW g, NEW K, NEW Z, NEW W, Rows(f), Cut(f, g, K, Z, W),
         NEW run, NEW run2, NEW sus, Places(f, run, sus), (K \cup Z) \cap Range(sus) = {},
         \A x \in Threads : (run2 = x => run = x) /\ (x \notin K \cup Z /\ run = x => run2 = x)
  PROVE  Places(g, run2, sus)
<1>1. SUFFICES ASSUME NEW x \in Threads PROVE PlaceOk(g[x], run2 = x, x \in Range(sus))
  BY DEF Places
<1>2. PlaceOk(f[x], run = x, x \in Range(sus)) /\ RowOk(f[x])
  BY DEF Places, Rows
<1>3. CASE x \in K
  <2>1. GoneRow(f[x], g[x]) /\ x \notin Range(sus)
    BY <1>3 DEF Cut
  <2>2. /\ g[x].parent = None /\ g[x].zombie
        /\ g[x].exists => g[x].is_scheduled \/ g[x].waiting_for_event
        /\ g[x].is_scheduled <=> f[x].is_scheduled
        /\ g[x].waiting_for_event <=> f[x].waiting_for_event
    BY <2>1, GoneFields
  <2>3. QED
    BY <1>2, <2>1, <2>2 DEF PlaceOk
<1>4. CASE x \in Z
  <2>1. EndedRow(f[x], g[x]) /\ x \notin Range(sus)
    BY <1>4 DEF Cut
  <2>2. QED
    BY <1>2, <2>1 DEF PlaceOk, EndedRow
<1>5. CASE x \notin K \cup Z
  <2>1. KeptRow(f[x], g[x], K, f[x].parent \in K \cup Z, x \in W)
    BY <1>5 DEF Cut
  <2>2. (run2 = x <=> run = x) /\ SameLife(f[x], g[x])
    BY <1>5, <2>1 DEF KeptRow
  <2>3. f[x].parent \in K \cup Z => f[x].i_am_detached /\ f[x].parent # None
    BY <1>5, ThreadsAssumption DEF Cut
  <2>4. f[x].zombie /\ f[x].exists => g[x].parent = f[x].parent
    BY <1>2, <2>1, <2>3 DEF RowOk, KeptRow
  <2>5. CASE x \in W
    <3>1. f[x].exists /\ ~ f[x].zombie /\ (f[x].i_am_joining \/ f[x].i_am_waiting)
      BY <2>5 DEF Cut, Alive
    <3>2. ~ g[x].i_am_joining /\ ~ g[x].i_am_waiting /\ g[x].is_scheduled
      BY <2>1, <2>5 DEF KeptRow
    <3>3. QED
      BY <1>2, <2>2, <3>1, <3>2 DEF PlaceOk, SameLife
  <2>6. CASE x \notin W
    <3>1. /\ g[x].i_am_joining = f[x].i_am_joining /\ g[x].i_am_waiting = f[x].i_am_waiting
          /\ g[x].is_scheduled = f[x].is_scheduled
      BY <2>1, <2>6 DEF KeptRow
    <3>2. QED
      BY <1>2, <2>2, <2>4, <3>1 DEF PlaceOk, SameLife
  <2>7. QED
    BY <2>5, <2>6
<1>6. QED
  BY <1>3, <1>4, <1>5

LEMMA CutMarks ==
  ASSUME NEW f, NEW g, NEW K, NEW Z, NEW W, Cut(f, g, K, Z, W),
         NEW a, NEW b, NEW e, NEW l, NEW w, Marks(f, a, e, l, w), Members(b) = Members(a) \cup W
  PROVE  Marks(g, b, e, l, w)
<1>1. SUFFICES ASSUME NEW x \in Threads
               PROVE  /\ g[x].is_scheduled <=> x \in Members(b) \cup Range(e) \cup l
                      /\ g[x].waiting_for_event <=> x \in Range(w)
  BY DEF Marks
<1>2. /\ f[x].is_scheduled <=> x \in Members(a) \cup Range(e) \cup l
      /\ f[x].waiting_for_event <=> x \in Range(w)
  BY DEF Marks
<1>3. CASE x \in K
  <2>1. GoneRow(f[x], g[x]) /\ x \notin W
    BY <1>3 DEF Cut
  <2>2. (g[x].is_scheduled <=> f[x].is_scheduled) /\ (g[x].waiting_for_event <=> f[x].waiting_for_event)
    BY <2>1, GoneFields
  <2>3. QED
    BY <1>2, <2>1, <2>2
<1>4. CASE x \in Z
  <2>1. EndedRow(f[x], g[x]) /\ x \notin W
    BY <1>4 DEF Cut
  <2>2. (g[x].is_scheduled <=> f[x].is_scheduled) /\ (g[x].waiting_for_event <=> f[x].waiting_for_event)
    BY <2>1 DEF EndedRow
  <2>3. QED
    BY <1>2, <2>1, <2>2
<1>5. CASE x \notin K \cup Z
  <2>1. KeptRow(f[x], g[x], K, f[x].parent \in K \cup Z, x \in W)
    BY <1>5 DEF Cut
  <2>2. /\ g[x].waiting_for_event <=> f[x].waiting_for_event
        /\ x \in W => g[x].is_scheduled
        /\ x \notin W => (g[x].is_scheduled <=> f[x].is_scheduled)
    BY <2>1 DEF KeptRow, SameLife
  <2>3. QED
    BY <1>2, <2>2
<1>6. QED
  BY <1>3, <1>4, <1>5

LEMMA CutDetached ==
  ASSUME NEW f, NEW g, NEW K, NEW Z, NEW W, Cut(f, g, K, Z, W), NEW td, NoDetached(f, td)
  PROVE  NoDetached(g, td)
<1>1. SUFFICES ASSUME NEW x \in Threads
               PROVE  g[x].detached_children = {} /\ ~ g[x].i_am_detached
  BY DEF NoDetached
<1>2. f[x].detached_children = {} /\ ~ f[x].i_am_detached
  BY DEF NoDetached
<1>3. CASE x \in K
  BY <1>2, <1>3, GoneFields DEF Cut
<1>4. CASE x \in Z
  BY <1>2, <1>4 DEF Cut, EndedRow
<1>5. CASE x \notin K \cup Z
  <2>1. KeptRow(f[x], g[x], K, f[x].parent \in K \cup Z, x \in W)
    BY <1>5 DEF Cut
  <2>2. QED
    BY <1>2, <2>1 DEF KeptRow
<1>6. QED
  BY <1>3, <1>4, <1>5

(* p is the thread that loses a child, if there is one. *)
Loses(f, g, K, Z, W, td, td2, p) ==
  /\ \A x \in Threads \ (K \cup Z) :
       x # p => f[x].children \cap K = {} /\ x \notin W /\ td2[x] = td[x]
  /\ p \in Threads \ (K \cup Z) => Alive(f, p) /\ Counted(g[p], td2[p])
  /\ \A z \in Z : ~ g[f[z].parent].i_am_joining
  /\ \A x \in Threads \ (K \cup Z) :
       Alive(f, x) /\ g[x].i_am_waiting => g[x].detached_children # {}

LEMMA CutCounts ==
  ASSUME NEW f \in [Threads -> vthread_s], NEW g, NEW K, NEW Z, NEW W, NEW td, NEW td2, NEW p,
         Linked(f), Cut(f, g, K, Z, W), Counts(f, td), Loses(f, g, K, Z, W, td, td2, p)
  PROVE  Counts(g, td2)
<1>1. ASSUME NEW x \in K
      PROVE  ~ Alive(g, x) /\ (g[x].exists \/ g[x].freed)
  <2>1. GoneRow(f[x], g[x])
    BY DEF Cut
  <2>2. QED
    BY <2>1, DeletedFields DEF GoneRow, Alive
<1>2. ASSUME NEW x \in Z
      PROVE  ~ Alive(g, x) /\ (g[x].exists \/ g[x].freed) /\ f[x].parent \notin K \cup Z
  BY DEF Cut, EndedRow, Alive
<1>3. ASSUME NEW x \in Threads, x \notin K \cup Z
      PROVE  KeptRow(f[x], g[x], K, f[x].parent \in K \cup Z, x \in W)
  BY <1>3 DEF Cut
<1>4. ASSUME NEW x \in Threads, x \notin K \cup Z, Alive(g, x)
      PROVE  Alive(f, x) /\ Counted(g[x], td2[x])
  <2>1. Alive(f, x)
    BY <1>3, <1>4 DEF KeptRow, SameLife, Alive
  <2>2. CASE x = p
    BY <1>4, <2>1, <2>2 DEF Loses
  <2>3. CASE x # p
    <3>1. f[x].children \cap K = {} /\ x \notin W /\ td2[x] = td[x]
      BY <1>4, <2>3 DEF Loses
    <3>2. g[x].children = f[x].children /\ g[x].i_am_joining = f[x].i_am_joining
      BY <1>3, <1>4, <3>1 DEF KeptRow
    <3>3. Counted(f[x], td[x])
      BY <2>1 DEF Counts
    <3>4. QED
      BY <2>1, <3>1, <3>2, <3>3 DEF Counted
  <2>4. QED
    BY <2>2, <2>3
<1>5. ASSUME NEW x \in Threads, x \notin K \cup Z, Alive(g, x), g[x].i_am_joining,
             NEW c \in g[x].children
      PROVE  ~ g[c].i_have_ended
  <2>1. KeptRow(f[x], g[x], K, f[x].parent \in K \cup Z, x \in W)
    BY <1>3, <1>5
  <2>2. c \in f[x].children /\ c \notin K /\ f[x].i_am_joining
    BY <1>5, <2>1 DEF KeptRow
  <2>3. c \in Threads
    BY <2>2, Fields
  <2>4. f[c].parent = x /\ ~ f[c].i_have_ended
    BY <1>4, <1>5, <2>2, <2>3 DEF Linked, Counts
  <2>5. c \notin Z
    BY <1>5, <2>4 DEF Loses
  <2>6. KeptRow(f[c], g[c], K, f[c].parent \in K \cup Z, c \in W)
    BY <1>3, <2>2, <2>3, <2>5
  <2>7. QED
    BY <2>4, <2>6 DEF KeptRow, SameLife
<1>6. ASSUME NEW x \in Threads, ~ g[x].exists, ~ g[x].freed
      PROVE  td2[x].fork = 0 /\ td2[x].join = 0 /\ td2[x].detach = 0
  <2>1. x \notin K \cup Z
    BY <1>1, <1>2, <1>6
  <2>2. ~ f[x].exists /\ ~ f[x].freed
    BY <1>3, <1>6, <2>1 DEF KeptRow, SameLife
  <2>3. x # p
    BY <2>1, <2>2 DEF Loses, Alive
  <2>4. td2[x] = td[x]
    BY <2>1, <2>3 DEF Loses
  <2>5. QED
    BY <2>2, <2>4 DEF Counts
<1>7. \A x \in Threads : x \in K \/ x \in Z => ~ Alive(g, x)
  BY <1>1, <1>2
<1>8. ASSUME NEW x \in Threads, Alive(g, x), g[x].i_am_waiting
      PROVE  g[x].detached_children # {}
  BY <1>4, <1>7, <1>8 DEF Loses
<1>9. QED
  BY <1>4, <1>5, <1>6, <1>7, <1>8 DEF Counts

(* A step that cuts threads out keeps the invariant. *)
CutStep(K, Z, W, p) ==
  /\ Cut(thr, thr', K, Z, W)
  /\ Loses(thr, thr', K, Z, W, todo, todo', p)
  /\ \/ W = {} /\ active' = active
     \/ \E x \in Threads : W = {x} /\ active' = Push(active, x)
  /\ (K \cup Z) \cap Range(suspended) = {}
  /\ thr' \in [Threads -> vthread_s] /\ todo' \in [Threads -> Block]
  /\ running' = running \/ (running' = None /\ running \in K \cup Z)
  /\ \A x \in Threads : todo'[x].detach = 0 \/ todo'[x].detach = todo[x].detach
  /\ aborted' = FALSE /\ RunOk'
  /\ UNCHANGED <<program, later, event_list, suspended, rest, disabling>>

LEMMA CutKeeps ==
  ASSUME IInv, NEW K, NEW Z, NEW W, NEW p, CutStep(K, Z, W, p)
  PROVE  IInv'
<1>a. /\ Rows(thr) /\ Linked(thr) /\ Acyclic(thr) /\ Counts(thr, todo)
      /\ thr \in [Threads -> vthread_s]
  BY DEF IInv, TypeOK
<1>b. Cut(thr, thr', K, Z, W) /\ Loses(thr, thr', K, Z, W, todo, todo', p)
  BY DEF CutStep
<1>1. Rows(thr') /\ Linked(thr') /\ Acyclic(thr') /\ Counts(thr', todo')
  BY <1>a, <1>b, CutRows, CutLinked, CutCounts
<1>2. /\ active \in Seq(Seq(Threads) \ {<< >>})
      /\ Once(active) /\ Apart(active, rest, later)
      /\ Marks(thr, active, rest, later, event_list)
  BY DEF IInv, TypeOK, Queues
<1>3. /\ active' \in Seq(Seq(Threads) \ {<< >>}) /\ Members(active') = Members(active) \cup W
      /\ Once(active') /\ W \cap Members(active) = {} /\ W \cap Range(rest) = {} /\ W \cap later = {}
  <2>0. ASSUME NEW x \in W PROVE x \notin Members(active) \cup Range(rest) \cup later
    <3>1. Alive(thr, x) /\ (thr[x].i_am_joining \/ thr[x].i_am_waiting) /\ x \in Threads
      BY <1>b DEF Cut
    <3>2. PlaceOk(thr[x], running = x, x \in Range(suspended))
      BY <3>1 DEF IInv, Places
    <3>3. ~ thr[x].is_scheduled
      BY <3>1, <3>2 DEF PlaceOk, Alive
    <3>4. QED
      BY <1>2, <3>1, <3>3 DEF Marks
  <2>1. CASE W = {} /\ active' = active
    BY <1>2, <2>1
  <2>2. ASSUME NEW x \in Threads, W = {x}, active' = Push(active, x)
        PROVE  /\ active' \in Seq(Seq(Threads) \ {<< >>}) /\ Members(active') = Members(active) \cup W
               /\ Once(active')
    <3>1. x \notin Members(active)
      BY <2>0, <2>2
    <3>2. /\ Push(active, x) \in Seq(Seq(Threads) \ {<< >>})
          /\ Members(Push(active, x)) = {x} \cup Members(active) /\ Once(Push(active, x))
      BY <1>2, <3>1, PushLists
    <3>3. QED
      BY <2>2, <3>2
  <2>3. QED
    BY <2>0, <2>1, <2>2 DEF CutStep
<1>4. Marks(thr', active', rest, later, event_list)
  BY <1>2, <1>3, <1>b, CutMarks
<1>5. Apart(active', rest, later)
  BY <1>2, <1>3 DEF Apart
<1>6. Places(thr', running', suspended)
  <2>1. Places(thr, running, suspended) /\ (K \cup Z) \cap Range(suspended) = {}
    BY DEF IInv, CutStep
  <2>2. \A x \in Threads :
          (running' = x => running = x) /\ (x \notin K \cup Z /\ running = x => running' = x)
    BY ThreadsAssumption DEF CutStep
  <2>3. QED
    BY <1>a, <1>b, <2>1, <2>2, CutPlaces
<1>7. ASSUME NoDetached(thr, todo) PROVE NoDetached(thr', todo')
  <2>1. NoDetached(thr', todo)
    BY <1>7, <1>b, CutDetached
  <2>2. QED
    BY <1>7, <2>1 DEF NoDetached, CutStep
<1>8. /\ UNCHANGED <<program, later, event_list, suspended, rest, disabling>>
      /\ aborted' = FALSE /\ RunOk' /\ running' \in Threads \cup {None}
      /\ thr' \in [Threads -> vthread_s] /\ todo' \in [Threads -> Block]
  BY DEF CutStep, IInv, TypeOK
<1>9. TypeOK'
  BY <1>3, <1>8 DEF TypeOK, IInv
<1>10. Queues'
  BY <1>3, <1>4, <1>5, <1>8 DEF Queues, IInv
<1>11. QED
  BY <1>1, <1>6, <1>7, <1>8, <1>9, <1>10 DEF IInv, Opcodes

-----------------------------------------------------------------------------
(* What vthread_reap does to each thread, if no children are left. *)
Orphan(r) == [r EXCEPT !.parent = None, !.i_am_detached = FALSE]

Reaped(r) ==
  IF ~ r.is_scheduled /\ ~ r.waiting_for_event THEN Deleted
  ELSE [r EXCEPT !.parent = None, !.in_scope = FALSE, !.zombie = TRUE]

Lost(r, t, detached) ==
  IF detached THEN [r EXCEPT !.detached_children = @ \ {t}] ELSE [r EXCEPT !.children = @ \ {t}]

ReapsTo(f, t, g) ==
  \A x \in Threads :
    g[x] = IF x = t THEN Reaped(f[t])
           ELSE IF x \in f[t].detached_children THEN Orphan(f[x])
           ELSE IF x = f[t].parent THEN Lost(f[x], t, f[t].i_am_detached)
           ELSE f[x]

LEMMA ReapRows ==
  ASSUME NEW f, NEW t \in Threads, f[t].children = {}, t \notin f[t].detached_children,
         f[t].parent # t, f[t].parent \notin f[t].detached_children
  PROVE  ReapsTo(f, t, vthread_reap(f, t))
<1>0. PICK g : g = vthread_reap(f, t)
  OBVIOUS
<1>1. SUFFICES ASSUME NEW x \in Threads
      PROVE g[x] = IF x = t THEN Reaped(f[t])
                   ELSE IF x \in f[t].detached_children THEN Orphan(f[x])
                   ELSE IF x = f[t].parent THEN Lost(f[x], t, f[t].i_am_detached)
                   ELSE f[x]
  BY <1>0 DEF ReapsTo
<1>2. CASE x = t
  <2>1. g[t] = IF Deletable(f, t) THEN Deleted
               ELSE [f[t] EXCEPT !.parent = None, !.in_scope = FALSE, !.zombie = TRUE]
    <3>1. CASE Deletable(f, t)
      BY <1>0, <3>1 DEF vthread_reap
    <3>2. CASE ~ Deletable(f, t)
      BY <1>0, <3>2 DEF vthread_reap
    <3>3. QED
      BY SMTT(30), <3>1, <3>2
  <2>2. QED
    BY <1>2, <2>1 DEF Deletable, Reaped
<1>3. CASE x # t /\ x \in f[t].detached_children
  BY <1>0, <1>3 DEF vthread_reap, Orphan
<1>4. CASE x # t /\ x \notin f[t].detached_children /\ x = f[t].parent
  <2>1. CASE f[t].i_am_detached
    BY <1>0, <1>4, <2>1 DEF vthread_reap, Lost
  <2>2. CASE ~ f[t].i_am_detached
    BY <1>0, <1>4, <2>2 DEF vthread_reap, Lost
  <2>3. QED
    BY <1>4, <2>1, <2>2
<1>5. CASE x # t /\ x \notin f[t].detached_children /\ x # f[t].parent
  BY <1>0, <1>5 DEF vthread_reap
<1>6. QED
  BY <1>2, <1>3, <1>4, <1>5

LEMMA ReapTable ==
  ASSUME NEW f, NEW t, NEW S, NEW g, g = vthread_reap(f, t), \A x \in Threads : g[x] \in S
  PROVE  g \in [Threads -> S]
<1> DEFINE p == f[t].parent
           me == [f[t] EXCEPT !.parent = None, !.in_scope = FALSE, !.zombie = TRUE]
           row(x) ==
             CASE x = t -> IF Deletable(f, t) THEN Deleted ELSE me
               [] x \in f[t].children -> [f[x] EXCEPT !.parent = p]
               [] x \in f[t].detached_children ->
                    [f[x] EXCEPT !.parent = None, !.i_am_detached = FALSE]
               [] x = p /\ f[t].i_am_detached -> [f[x] EXCEPT !.detached_children = @ \ {t}]
               [] x = p /\ ~ f[t].i_am_detached -> [f[x] EXCEPT !.children = @ \ {t}]
               [] OTHER -> f[x]
<1>1. g = [x \in Threads |-> row(x)]
  BY Zenon DEF vthread_reap
<1> HIDE DEF row
<1>2. QED
  BY <1>1

LEMMA ReapType ==
  ASSUME NEW f \in [Threads -> vthread_s], NEW t \in Threads, NEW g, ReapsTo(f, t, g)
  PROVE  \A x \in Threads : g[x] \in vthread_s
<1>1. None \in Threads \cup {None} /\ {} \in SUBSET Threads /\ AScope \in Scopes
  BY ThreadsAssumption DEF AScope
<1>2. Deleted \in vthread_s
  BY <1>1 DEF Deleted, NoThread, vthread_new, vthread_s
<1>3. ASSUME NEW x \in Threads
      PROVE  /\ Orphan(f[x]) \in vthread_s /\ Reaped(f[x]) \in vthread_s
             /\ \A d \in BOOLEAN : Lost(f[x], t, d) \in vthread_s
  <2>1. f[x] \in vthread_s
    OBVIOUS
  <2>2. Orphan(f[x]) \in vthread_s
    BY <1>1, <2>1 DEF Orphan, vthread_s
  <2>3. [f[x] EXCEPT !.parent = None, !.in_scope = FALSE, !.zombie = TRUE] \in vthread_s
    BY <1>1, <2>1 DEF vthread_s
  <2>4. Lost(f[x], t, TRUE) \in vthread_s /\ Lost(f[x], t, FALSE) \in vthread_s
    BY <2>1 DEF Lost, vthread_s
  <2>5. QED
    BY <1>2, <2>2, <2>3, <2>4 DEF Reaped
<1>4. f[t].i_am_detached \in BOOLEAN
  BY Fields
<1>5. QED
  BY <1>3, <1>4 DEF ReapsTo

-----------------------------------------------------------------------------
(* Steps that change flags only. *)
Good(f) == f \in [Threads -> vthread_s] /\ Rows(f) /\ Linked(f) /\ Acyclic(f)

LEMMA GoodThr == IInv => Good(thr) /\ Counts(thr, todo) /\ Places(thr, running, suspended)
  BY DEF IInv, TypeOK, Good

FlagRow(r, n) ==
  /\ n.exists = r.exists /\ n.freed = r.freed /\ n.zombie = r.zombie
  /\ n.in_scope = r.in_scope /\ n.i_have_ended = r.i_have_ended
  /\ n.parent = r.parent /\ n.i_am_detached = r.i_am_detached
  /\ n.children = r.children /\ n.detached_children = r.detached_children
  /\ n.is_scheduled \/ n.waiting_for_event => n.exists

FlagStep ==
  /\ \A x \in Threads : FlagRow(thr[x], thr'[x])
  /\ \A x \in Threads : todo'[x].detach = todo[x].detach \/ todo'[x].detach = 0
  /\ TypeOK' /\ aborted' = FALSE /\ program' = program
  /\ Counts(thr', todo') /\ Places(thr', running', suspended') /\ Queues' /\ RunOk'
  /\ suspended' # << >> => "mbx" \in Opcodes

LEMMA FlagsKeep ==
  ASSUME IInv, FlagStep
  PROVE  IInv'
<1>0. PICK f, g : f = thr /\ g = thr'
  OBVIOUS
<1>1. Rows(f) /\ Linked(f) /\ Acyclic(f) /\ \A x \in Threads : FlagRow(f[x], g[x])
  BY <1>0 DEF IInv, FlagStep
<1>2. \A x \in Threads :
        /\ g[x].parent = f[x].parent /\ g[x].i_am_detached = f[x].i_am_detached
        /\ g[x].children = f[x].children /\ g[x].detached_children = f[x].detached_children
        /\ g[x].exists = f[x].exists /\ g[x].zombie = f[x].zombie
  BY <1>1 DEF FlagRow
<1>3. Rows(g)
  BY <1>1 DEF Rows, RowOk, FlagRow
<1>4. Linked(g)
  <2>0. \A x : x \in Threads => (Alive(g, x) <=> Alive(f, x))
    BY <1>2 DEF Alive
  <2>1. \A c \in Threads : g[c].parent # None => Alive(g, g[c].parent)
    <3>1. SUFFICES ASSUME NEW c \in Threads, g[c].parent # None PROVE Alive(g, g[c].parent)
      OBVIOUS
    <3>2. f[c].parent \in Threads
      BY ZenonT(60), <1>0, <1>2, <3>1, ParentIs DEF IInv, TypeOK
    <3>3. QED
      BY <1>1, <1>2, <2>0, <3>1, <3>2 DEF Linked
  <2>2. QED
    BY <1>1, <1>2, <2>0, <2>1 DEF Linked
<1>5. Acyclic(g)
  BY <1>1, <1>2 DEF Acyclic, Below
<1>6. ASSUME NoDetached(thr, todo) PROVE NoDetached(thr', todo')
  BY <1>0, <1>2, <1>6 DEF NoDetached, FlagStep
<1>7. QED
  BY <1>0, <1>3, <1>4, <1>5, <1>6 DEF IInv, FlagStep, Opcodes

LEMMA PlacesChange ==
  ASSUME NEW f, NEW g, NEW run, NEW run2, NEW sus, NEW sus2, NEW t, Places(f, run, sus),
         \A x \in Threads : x # t =>
           g[x] = f[x] /\ (run2 = x <=> run = x) /\ (x \in Range(sus2) <=> x \in Range(sus)),
         t \in Threads => PlaceOk(g[t], run2 = t, t \in Range(sus2))
  PROVE  Places(g, run2, sus2)
<1>1. SUFFICES ASSUME NEW x \in Threads PROVE PlaceOk(g[x], run2 = x, x \in Range(sus2))
  BY DEF Places
<1>2. CASE x = t
  BY <1>2
<1>3. CASE x # t
  <2>1. PlaceOk(f[x], run = x, x \in Range(sus))
    BY DEF Places
  <2>2. g[x] = f[x] /\ (run2 = x <=> run = x) /\ (x \in Range(sus2) <=> x \in Range(sus))
    BY <1>3
  <2>3. QED
    BY <2>1, <2>2 DEF PlaceOk
<1>4. QED
  BY <1>2, <1>3

(* The thread that executes an instruction. *)
LEMMA AtFacts ==
  ASSUME IInv, NEW t \in Threads, At(t)
  PROVE  /\ running = t /\ disabling = None /\ Alive(thr, t) /\ thr[t].exists /\ ~ thr[t].zombie
         /\ ~ thr[t].is_scheduled /\ ~ thr[t].waiting_for_event
         /\ ~ thr[t].i_am_joining /\ ~ thr[t].i_am_waiting /\ t \notin Range(suspended)
         /\ Counted(thr[t], todo[t])
<1>1. running = t /\ disabling = None /\ ~ thr[t].zombie /\ t # None
  BY ThreadsAssumption DEF At
<1>2. Alive(thr, t)
  BY <1>1, ThreadsAssumption DEF IInv, RunOk, Alive
<1>3. PlaceOk(thr[t], TRUE, t \in Range(suspended))
  <2>1. PlaceOk(thr[t], running = t, t \in Range(suspended))
    BY DEF IInv, Places
  <2>2. QED
    BY <1>1, <2>1 DEF PlaceOk
<1>4. QED
  BY <1>1, <1>2, <1>3 DEF Alive, PlaceOk, IInv, Counts

LEMMA FiniteThreads ==
  ASSUME NEW S \in SUBSET Threads
  PROVE  IsFiniteSet(S) /\ Cardinality(S) \in Nat /\ (Cardinality(S) = 0 <=> S = {})
  BY ThreadsAssumption, FS_Subset, FS_CardinalityType, FS_EmptySet

LEMMA BlockFields ==
  ASSUME NEW b \in Block
  PROVE  b.fork \in Nat /\ b.join \in Nat /\ b.detach \in Nat /\ b.scope \in Scopes
         /\ b.fork <= MaxFork /\ b.join <= MaxFork /\ b.detach <= MaxFork
  BY ThreadsAssumption DEF Block

LEMMA BodyFacts ==
  ASSUME IInv, NEW t \in Threads, InBody(t)
  PROVE  At(t) /\ todo[t].fork = 0 /\ todo[t].join = 0 /\ todo[t].detach = 0 /\ thr[t].children = {}
<1>1. At(t) /\ todo[t].fork + todo[t].join + todo[t].detach = 0
  BY DEF InBody
<1>2. todo[t] \in Block /\ thr[t] \in vthread_s
  BY DEF IInv, TypeOK
<1>3. PICK a, b, c, n : a = todo[t].fork /\ b = todo[t].join /\ c = todo[t].detach
                        /\ n = Cardinality(thr[t].children)
  OBVIOUS
<1>4. a \in Nat /\ b \in Nat /\ c \in Nat /\ a + b + c = 0
  BY <1>1, <1>2, <1>3, BlockFields
<1>5. thr[t].children \in SUBSET Threads
  BY <1>2, Fields
<1>6. n \in Nat /\ (n = 0 <=> thr[t].children = {})
  BY <1>3, <1>5, FiniteThreads
<1>7. n + a = b + c + 0
  BY <1>1, <1>3, AtFacts DEF Counted
<1>8. a = 0 /\ b = 0 /\ c = 0 /\ n = 0
  BY <1>4, <1>6, <1>7
<1>9. QED
  BY <1>1, <1>3, <1>6, <1>8

-----------------------------------------------------------------------------
(* The instructions that change no pointers. *)

(* Nothing but the running thread and its block changes. *)
LEMMA QueuesSame ==
  ASSUME IInv, UNCHANGED <<active, rest, later, event_list, suspended>>,
         \A x \in Threads : /\ thr'[x].is_scheduled = thr[x].is_scheduled
                            /\ thr'[x].waiting_for_event = thr[x].waiting_for_event
  PROVE  Queues'
<1>1. Queues
  BY DEF IInv
<1>2. Marks(thr', active, rest, later, event_list)
  BY <1>1 DEF Queues, Marks
<1>3. QED
  BY <1>1, <1>2 DEF Queues

LEMMA SameFlags ==
  ASSUME IInv
  PROVE  \A x \in Threads : FlagRow(thr[x], thr[x])
<1>1. Rows(thr)
  BY DEF IInv
<1>2. QED
  BY <1>1 DEF Rows, RowOk, FlagRow

LEMMA BeginForkStep ==
  ASSUME IInv, NEW t \in Threads, NEW n \in 1..MaxFork, NEW s \in Scopes, NEW b \in Blocks(n),
         BeginFork(t, n, b, s), program' = program
  PROVE  IInv'
<1>1. /\ UNCHANGED <<thr, active, later, event_list, suspended, running, rest, disabling, aborted>>
      /\ InBody(t) /\ b.kind \in Opcodes
  BY DEF BeginFork
<1>2. PICK k : k = [fork |-> n, join |-> b.join, detach |-> b.detach, scope |-> s]
  OBVIOUS
<1>3. todo' = [todo EXCEPT ![t] = k] /\ todo \in [Threads -> Block]
  BY <1>2 DEF BeginFork, IInv, TypeOK
<1>4. n \in Nat /\ n <= MaxFork /\ n > 0 /\ MaxFork \in Nat
  BY ThreadsAssumption
<1>5. /\ b.join \in 0..n /\ b.detach \in 0..n /\ n = b.join + b.detach
      /\ b.kind \in {"join_any", "join_none"} \/ b.detach = 0
  BY <1>4 DEF Blocks
<1>6. k \in Block /\ k.fork = n /\ k.join = b.join /\ k.detach = b.detach
  <2>1. b.join \in 0..MaxFork /\ b.detach \in 0..MaxFork /\ n \in 0..MaxFork
    BY <1>4, <1>5
  <2>2. QED
    BY <1>2, <2>1 DEF Block
<1>7. todo' \in [Threads -> Block] /\ todo'[t] = k /\ \A x \in Threads : x # t => todo'[x] = todo[x]
  BY <1>3, <1>6
<1>8. TypeOK'
  BY <1>1, <1>7 DEF TypeOK, IInv
<1>9. Counts(thr', todo')
  <2>1. At(t) /\ thr[t].children = {}
    BY <1>1, BodyFacts
  <2>2. Alive(thr, t) /\ ~ thr[t].i_am_joining
    BY <2>1, AtFacts
  <2>3. Counted(thr[t], k)
    <3>1. Cardinality(thr[t].children) = 0
      BY <2>1, FS_EmptySet
    <3>2. QED
      BY <1>4, <1>5, <1>6, <2>2, <3>1 DEF Counted
  <2>4. QED
    BY <1>1, <1>7, <2>2, <2>3 DEF Counts, IInv, Alive
<1>10. {"join_any", "join_none"} \cap Opcodes = {} => NoDetached(thr', todo')
  <2>1. ASSUME {"join_any", "join_none"} \cap Opcodes = {} PROVE b.detach = 0
    BY <1>1, <1>5, <2>1
  <2>2. QED
    BY <1>1, <1>6, <1>7, <2>1 DEF IInv, NoDetached
<1>11. QED
  BY <1>1, <1>8, <1>9, <1>10 DEF IInv, Opcodes, Queues, RunOk

(* The flags of one thread change. *)
OneFlag(t, r) ==
  /\ thr'[t] = r /\ r \in vthread_s /\ FlagRow(thr[t], r) /\ thr' \in [Threads -> vthread_s]
  /\ \A x \in Threads : x # t => thr'[x] = thr[x]

LEMMA OneFlagRows ==
  ASSUME IInv, NEW t, NEW r, OneFlag(t, r)
  PROVE  \A x \in Threads : FlagRow(thr[x], thr'[x])
  BY SameFlags DEF OneFlag

LEMMA OneFlagCounts ==
  ASSUME IInv, NEW t \in Threads, NEW r, OneFlag(t, r), thr[t].exists,
         Alive(thr, t) =>
           /\ Counted(r, todo'[t])
           /\ r.i_am_joining => \A c \in thr[t].children : ~ thr[c].i_have_ended
           /\ r.i_am_waiting => thr[t].detached_children # {},
         \A x \in Threads : x # t => todo'[x] = todo[x]
  PROVE  Counts(thr', todo')
<1>1. Counts(thr, todo) /\ thr \in [Threads -> vthread_s]
  BY DEF IInv, TypeOK
<1>2. /\ \A x \in Threads : x # t => thr'[x] = thr[x]
      /\ thr'[t] = r /\ r.exists /\ r.zombie = thr[t].zombie
      /\ r.i_have_ended = thr[t].i_have_ended
      /\ r.children = thr[t].children /\ r.detached_children = thr[t].detached_children
  BY DEF OneFlag, FlagRow
<1>3. \A x \in Threads : thr'[x].i_have_ended = thr[x].i_have_ended
  BY <1>2
<1>4. \A x \in Threads : \A c \in thr[x].children : c \in Threads
  BY <1>1, Fields
<1>5. ASSUME NEW x \in Threads, x # t
      PROVE  /\ Alive(thr', x) =>
                  /\ Counted(thr'[x], todo'[x])
                  /\ thr'[x].i_am_joining => \A c \in thr'[x].children : ~ thr'[c].i_have_ended
                  /\ thr'[x].i_am_waiting => thr'[x].detached_children # {}
             /\ ~ thr'[x].exists /\ ~ thr'[x].freed =>
                  todo'[x].fork = 0 /\ todo'[x].join = 0 /\ todo'[x].detach = 0
  BY <1>1, <1>2, <1>3, <1>4, <1>5 DEF Counts, Alive
<1>6. Alive(thr, t) /\ r.i_am_joining => \A c \in thr'[t].children : ~ thr'[c].i_have_ended
  BY <1>2, <1>3, <1>4
<1>7. Alive(thr', t) => Alive(thr, t)
  BY <1>2 DEF Alive
<1>8. QED
  BY <1>2, <1>5, <1>6, <1>7 DEF Counts

(* What such a step has to show. *)
OneFlagStep(t, r) ==
  /\ OneFlag(t, r) /\ thr[t].exists
  /\ Alive(thr, t) =>
       /\ Counted(r, todo'[t])
       /\ r.i_am_joining => \A c \in thr[t].children : ~ thr[c].i_have_ended
       /\ r.i_am_waiting => thr[t].detached_children # {}
  /\ todo' \in [Threads -> Block]
  /\ \A x \in Threads : x # t => todo'[x] = todo[x]
  /\ todo'[t].detach = todo[t].detach
  /\ PlaceOk(r, running' = t, t \in Range(suspended'))
  /\ \A x \in Threads : x # t =>
       (running' = x <=> running = x) /\ (x \in Range(suspended') <=> x \in Range(suspended))
  /\ active' \in Seq(Seq(Threads) \ {<< >>}) /\ later' \subseteq Threads
  /\ event_list' \in Seq(Threads) /\ suspended' \in Seq(Threads) /\ rest' \in Seq(Threads)
  /\ running' \in {running, t, None} /\ disabling' = disabling /\ disabling = None
  /\ aborted' = FALSE /\ program' = program /\ Queues'
  /\ suspended' # << >> => "mbx" \in Opcodes

LEMMA OneFlagKeeps ==
  ASSUME IInv, NEW t \in Threads, NEW r, OneFlagStep(t, r)
  PROVE  IInv'
<1>1. /\ OneFlag(t, r) /\ thr[t].exists /\ Queues' /\ aborted' = FALSE /\ program' = program
      /\ running' \in {running, t, None} /\ disabling' = None /\ disabling = None
      /\ suspended' # << >> => "mbx" \in Opcodes
      /\ \A x \in Threads : x # t => todo'[x] = todo[x]
      /\ todo'[t].detach = todo[t].detach
  BY DEF OneFlagStep
<1>2. thr'[t] = r /\ r.exists /\ \A x \in Threads : x # t => thr'[x] = thr[x]
  BY <1>1 DEF OneFlag, FlagRow
<1>3. Counts(thr', todo')
  BY OneFlagCounts DEF OneFlagStep
<1>4. Places(thr', running', suspended')
  <2>0. PICK g, run2, sus2 : g = thr' /\ run2 = running' /\ sus2 = suspended'
    OBVIOUS
  <2>1. PlaceOk(g[t], run2 = t, t \in Range(sus2)) /\ Places(thr, running, suspended)
    BY <1>2, <2>0 DEF OneFlagStep, IInv
  <2>2. \A x \in Threads : x # t => g[x] = thr[x] /\ (run2 = x <=> running = x)
                                    /\ (x \in Range(sus2) <=> x \in Range(suspended))
    BY <1>2, <2>0 DEF OneFlagStep
  <2>3. Places(g, run2, sus2)
    BY <2>1, <2>2, PlacesChange
  <2>4. QED
    BY <2>0, <2>3
<1>5. TypeOK'
  BY DEF TypeOK, IInv, OneFlag, OneFlagStep
<1>6. RunOk'
  <2>1. running # None => running \in Threads /\ thr[running].exists
    BY <1>1, ThreadsAssumption DEF IInv, TypeOK, RunOk
  <2>2. running' # None => thr'[running'].exists
    BY <1>1, <1>2, <2>1
  <2>3. QED
    BY <1>1, <2>2, ThreadsAssumption DEF RunOk
<1>7. QED
  BY <1>1, <1>3, <1>4, <1>5, <1>6, OneFlagRows, FlagsKeep DEF FlagStep

(* The other queues stay as they are. *)
LEMMA TypedQueues ==
  IInv => /\ active \in Seq(Seq(Threads) \ {<< >>}) /\ later \subseteq Threads
          /\ event_list \in Seq(Threads) /\ suspended \in Seq(Threads) /\ rest \in Seq(Threads)
          /\ todo \in [Threads -> Block] /\ thr \in [Threads -> vthread_s]
  BY DEF IInv, TypeOK

LEMMA DelayStep ==
  ASSUME IInv, NEW t \in Threads, of_DELAY(t), program' = program
  PROVE  IInv'
<1>1. At(t) /\ UNCHANGED <<todo, active, event_list, suspended, rest, disabling>>
  BY BodyFacts DEF of_DELAY
<1>2. /\ running = t /\ disabling = None /\ Alive(thr, t) /\ thr[t].exists
      /\ ~ thr[t].is_scheduled /\ ~ thr[t].waiting_for_event
      /\ ~ thr[t].i_am_joining /\ ~ thr[t].i_am_waiting /\ t \notin Range(suspended)
      /\ Counted(thr[t], todo[t])
  BY <1>1, AtFacts
<1>3. /\ thr \in [Threads -> vthread_s]
      /\ thr' = [x \in Threads |-> IF x = t THEN [thr[t] EXCEPT !.is_scheduled = TRUE] ELSE thr[x]]
      /\ later' = later \cup {t} /\ running' = None /\ aborted' = FALSE
  BY <1>2 DEF of_DELAY, Scheduled, Check, IInv, TypeOK
<1>4. PICK r : r = thr'[t]
  OBVIOUS
<1>5. r \in vthread_s /\ FlagRow(thr[t], r) /\ r.is_scheduled /\ r.exists /\ ~ r.zombie
      /\ r.waiting_for_event = thr[t].waiting_for_event /\ r.children = thr[t].children
      /\ r.i_am_joining = thr[t].i_am_joining /\ r.i_am_waiting = thr[t].i_am_waiting
  BY <1>2, <1>3, <1>4 DEF vthread_s, FlagRow, Alive
<1>6. OneFlag(t, r)
  BY <1>3, <1>4, <1>5 DEF OneFlag
<1>7. Counted(r, todo'[t])
  BY <1>1, <1>2, <1>5 DEF Counted
<1>8. PlaceOk(r, running' = t, t \in Range(suspended'))
  <2>1. running' # t /\ t \notin Range(suspended')
    BY <1>1, <1>2, <1>3, ThreadsAssumption
  <2>2. QED
    BY <1>2, <1>5, <2>1 DEF PlaceOk
<1>9. Queues'
  <2>1. Queues /\ t \notin Members(active) \cup Range(rest) \cup later
    BY <1>2 DEF IInv, Queues, Marks
  <2>2. Apart(active, rest, later') /\ Marks(thr', active, rest, later', event_list)
    BY <1>2, <1>3, <1>4, <1>5, <2>1 DEF Queues, Apart, Marks
  <2>3. QED
    BY <1>1, <2>1, <2>2 DEF Queues
<1>10. \A x \in Threads : x # t =>
         (running' = x <=> running = x) /\ (x \in Range(suspended') <=> x \in Range(suspended))
  BY <1>1, <1>2, <1>3, ThreadsAssumption
<1>11. OneFlagStep(t, r)
  BY <1>1, <1>2, <1>3, <1>5, <1>6, <1>7, <1>8, <1>9, <1>10, TypedQueues DEF OneFlagStep, IInv
<1>12. QED
  BY <1>11, OneFlagKeeps

LEMMA WaitStep ==
  ASSUME IInv, NEW t \in Threads, of_WAIT(t), program' = program
  PROVE  IInv'
<1>1. At(t) /\ UNCHANGED <<todo, active, later, suspended, rest, disabling>>
  BY BodyFacts DEF of_WAIT
<1>2. /\ running = t /\ disabling = None /\ Alive(thr, t) /\ thr[t].exists
      /\ ~ thr[t].is_scheduled /\ ~ thr[t].waiting_for_event
      /\ ~ thr[t].i_am_joining /\ ~ thr[t].i_am_waiting /\ t \notin Range(suspended)
      /\ Counted(thr[t], todo[t])
  BY <1>1, AtFacts
<1>3. /\ thr \in [Threads -> vthread_s]
      /\ thr' = [thr EXCEPT ![t].waiting_for_event = TRUE]
      /\ event_list' = <<t>> \o event_list /\ running' = None /\ aborted' = FALSE
  BY <1>2 DEF of_WAIT, Check, IInv, TypeOK
<1>4. PICK r : r = thr'[t]
  OBVIOUS
<1>5. r \in vthread_s /\ FlagRow(thr[t], r) /\ r.waiting_for_event /\ r.exists /\ ~ r.zombie
      /\ r.is_scheduled = thr[t].is_scheduled /\ r.children = thr[t].children
      /\ r.i_am_joining = thr[t].i_am_joining /\ r.i_am_waiting = thr[t].i_am_waiting
  BY <1>2, <1>3, <1>4 DEF vthread_s, FlagRow, Alive
<1>6. OneFlag(t, r)
  BY <1>3, <1>4, <1>5 DEF OneFlag
<1>7. Counted(r, todo'[t])
  BY <1>1, <1>2, <1>5 DEF Counted
<1>8. PlaceOk(r, running' = t, t \in Range(suspended'))
  <2>1. running' # t /\ t \notin Range(suspended')
    BY <1>1, <1>2, <1>3, ThreadsAssumption
  <2>2. QED
    BY <1>2, <1>5, <2>1 DEF PlaceOk
<1>9. Queues' /\ event_list' \in Seq(Threads)
  <2>0. PICK e : e = event_list'
    OBVIOUS
  <2>1. Queues /\ t \notin Range(event_list)
    BY <1>2 DEF IInv, Queues, Marks
  <2>2. event_list \in Seq(Threads) /\ IsInjective(event_list)
    BY <2>1, TypedQueues DEF Queues
  <2>3. e \in Seq(Threads) /\ Range(e) = {t} \cup Range(event_list) /\ IsInjective(e)
    BY <1>3, <2>0, <2>1, <2>2, RangeFront, PutInFront
  <2>4. Marks(thr', active, rest, later, e)
    BY <1>2, <1>4, <1>5, <1>6, <2>1, <2>3 DEF Queues, Marks, OneFlag
  <2>5. QED
    BY <1>1, <2>0, <2>1, <2>3, <2>4 DEF Queues
<1>10. \A x \in Threads : x # t =>
         (running' = x <=> running = x) /\ (x \in Range(suspended') <=> x \in Range(suspended))
  BY <1>1, <1>2, <1>3, ThreadsAssumption
<1>11. OneFlagStep(t, r)
  BY <1>1, <1>2, <1>3, <1>5, <1>6, <1>7, <1>8, <1>9, <1>10, TypedQueues DEF OneFlagStep, IInv
<1>12. QED
  BY <1>11, OneFlagKeeps

LEMMA WaitForkStep ==
  ASSUME IInv, NEW t \in Threads, of_WAIT_FORK(t), program' = program
  PROVE  IInv'
<1>1. /\ At(t) /\ UNCHANGED <<todo, active, later, event_list, suspended, rest, disabling>>
      /\ thr[t].children = {}
  BY BodyFacts DEF of_WAIT_FORK
<1>2. /\ running = t /\ disabling = None /\ Alive(thr, t) /\ thr[t].exists
      /\ ~ thr[t].is_scheduled /\ ~ thr[t].waiting_for_event
      /\ ~ thr[t].i_am_joining /\ ~ thr[t].i_am_waiting /\ t \notin Range(suspended)
      /\ Counted(thr[t], todo[t])
  BY <1>1, AtFacts
<1>3. /\ thr \in [Threads -> vthread_s]
      /\ thr' = [thr EXCEPT ![t].i_am_waiting = TRUE] /\ thr[t].detached_children # {}
      /\ running' = None /\ aborted' = FALSE
  BY <1>1, <1>2 DEF of_WAIT_FORK, Check, IInv, TypeOK
<1>4. PICK r : r = thr'[t]
  OBVIOUS
<1>5. r \in vthread_s /\ FlagRow(thr[t], r) /\ r.i_am_waiting /\ r.exists /\ ~ r.zombie
      /\ r.is_scheduled = thr[t].is_scheduled /\ r.children = thr[t].children
      /\ r.i_am_joining = thr[t].i_am_joining /\ r.waiting_for_event = thr[t].waiting_for_event
  BY <1>2, <1>3, <1>4 DEF vthread_s, FlagRow, Alive
<1>6. OneFlag(t, r)
  BY <1>3, <1>4, <1>5 DEF OneFlag
<1>7. Counted(r, todo'[t])
  BY <1>1, <1>2, <1>5 DEF Counted
<1>8. PlaceOk(r, running' = t, t \in Range(suspended'))
  <2>1. running' # t /\ t \notin Range(suspended')
    BY <1>1, <1>2, <1>3, ThreadsAssumption
  <2>2. QED
    BY <1>2, <1>5, <2>1 DEF PlaceOk
<1>9. Queues'
  <2>1. \A x \in Threads : /\ thr'[x].is_scheduled = thr[x].is_scheduled
                           /\ thr'[x].waiting_for_event = thr[x].waiting_for_event
    BY <1>4, <1>5, <1>6 DEF OneFlag
  <2>2. QED
    BY <1>1, <2>1, QueuesSame
<1>10. \A x \in Threads : x # t =>
         (running' = x <=> running = x) /\ (x \in Range(suspended') <=> x \in Range(suspended))
  BY <1>1, <1>2, <1>3, ThreadsAssumption
<1>11. OneFlagStep(t, r)
  BY <1>1, <1>2, <1>3, <1>5, <1>6, <1>7, <1>8, <1>9, <1>10, TypedQueues DEF OneFlagStep, IInv
<1>12. QED
  BY <1>11, OneFlagKeeps


LEMMA JoinWaits ==
  ASSUME IInv, NEW t \in Threads, of_JOIN(t), program' = program,
         \A c \in thr[t].children : ~ thr[c].i_have_ended
  PROVE  IInv'
<1>1. /\ At(t) /\ UNCHANGED <<active, later, event_list, suspended, rest, disabling>>
      /\ todo[t].fork = 0 /\ todo[t].join > 0
      /\ todo' = [todo EXCEPT ![t].join = @ - 1]
  BY DEF of_JOIN
<1>2. /\ running = t /\ disabling = None /\ Alive(thr, t) /\ thr[t].exists
      /\ ~ thr[t].is_scheduled /\ ~ thr[t].waiting_for_event
      /\ ~ thr[t].i_am_joining /\ ~ thr[t].i_am_waiting /\ t \notin Range(suspended)
      /\ Counted(thr[t], todo[t])
  BY <1>1, AtFacts
<1>3. todo \in [Threads -> Block] /\ thr \in [Threads -> vthread_s]
  BY TypedQueues
<1>4. PICK j, d, n : j = todo[t].join /\ d = todo[t].detach /\ n = Cardinality(thr[t].children)
  OBVIOUS
<1>5. j \in 1..MaxFork /\ d \in Nat /\ n \in Nat /\ (n = 0 <=> thr[t].children = {}) /\ MaxFork \in Nat
  <2>1. thr[t].children \in SUBSET Threads
    BY <1>3, Fields
  <2>2. todo[t] \in Block
    BY <1>3
  <2>3. QED
    BY <1>1, <1>4, <2>1, <2>2, FiniteThreads, BlockFields, ThreadsAssumption
<1>6. n = j + d /\ thr[t].children # {}
  <2>1. n + 0 = j + d + 0
    BY <1>1, <1>2, <1>4 DEF Counted
  <2>2. n = j + d /\ n # 0
    BY <1>5, <2>1
  <2>3. QED
    BY <1>5, <2>2
<1>7. thr' = [thr EXCEPT ![t].i_am_joining = TRUE] /\ running' = None /\ aborted' = FALSE
  BY <1>2, <1>6 DEF of_JOIN, Check
<1>8. PICK b : b = todo'[t]
  OBVIOUS
<1>9. /\ b \in Block /\ b.fork = 0 /\ b.join = j - 1 /\ b.detach = d
      /\ todo' \in [Threads -> Block] /\ \A x \in Threads : x # t => todo'[x] = todo[x]
  <2>1. j - 1 \in 0..MaxFork /\ todo[t] \in Block
    BY <1>3, <1>5
  <2>2. b = [todo[t] EXCEPT !.join = j - 1]
    BY <1>1, <1>3, <1>4, <1>8
  <2>3. b \in Block /\ b.fork = 0 /\ b.join = j - 1 /\ b.detach = d
    BY <1>1, <1>4, <2>1, <2>2 DEF Block
  <2>4. QED
    BY <1>1, <1>3, <1>8, <2>3
<1>10. PICK r : r = thr'[t]
  OBVIOUS
<1>11. r \in vthread_s /\ FlagRow(thr[t], r) /\ r.i_am_joining /\ r.exists /\ ~ r.zombie
      /\ r.is_scheduled = thr[t].is_scheduled /\ r.children = thr[t].children
      /\ r.i_am_waiting = thr[t].i_am_waiting /\ r.waiting_for_event = thr[t].waiting_for_event
  BY <1>2, <1>3, <1>7, <1>10 DEF vthread_s, FlagRow, Alive
<1>12. OneFlag(t, r)
  BY <1>3, <1>7, <1>10, <1>11 DEF OneFlag
<1>13. Counted(r, todo'[t])
  <2>1. n + 0 = (j - 1) + d + 1
    BY <1>5, <1>6
  <2>2. QED
    BY <1>4, <1>8, <1>9, <1>11, <2>1 DEF Counted
<1>14. PlaceOk(r, running' = t, t \in Range(suspended'))
  <2>1. running' # t /\ t \notin Range(suspended')
    BY <1>1, <1>2, <1>7, ThreadsAssumption
  <2>2. QED
    BY <1>2, <1>11, <2>1 DEF PlaceOk
<1>15. Queues'
  <2>1. \A x \in Threads : /\ thr'[x].is_scheduled = thr[x].is_scheduled
                           /\ thr'[x].waiting_for_event = thr[x].waiting_for_event
    BY <1>10, <1>11, <1>12 DEF OneFlag
  <2>2. QED
    BY <1>1, <2>1, QueuesSame
<1>16. \A x \in Threads : x # t =>
         (running' = x <=> running = x) /\ (x \in Range(suspended') <=> x \in Range(suspended))
  BY <1>1, <1>2, <1>7, ThreadsAssumption
<1>17. OneFlagStep(t, r)
  <2>1. todo'[t].detach = todo[t].detach
    BY <1>4, <1>8, <1>9
  <2>2. QED
    BY <1>1, <1>2, <1>7, <1>9, <1>11, <1>12, <1>13, <1>14, <1>15, <1>16, <2>1, TypedQueues
       DEF OneFlagStep, IInv
<1>18. QED
  BY <1>17, OneFlagKeeps

LEMMA SuspendStep ==
  ASSUME IInv, NEW t \in Threads, Suspend(t), program' = program
  PROVE  IInv'
<1>1. /\ At(t) /\ UNCHANGED <<thr, todo, active, later, event_list, rest, disabling, aborted>>
      /\ suspended' = Append(suspended, t) /\ running' = None /\ "mbx" \in Opcodes
  BY BodyFacts DEF Suspend
<1>2. /\ running = t /\ disabling = None /\ Alive(thr, t) /\ thr[t].exists /\ ~ thr[t].zombie
      /\ ~ thr[t].is_scheduled /\ ~ thr[t].waiting_for_event
      /\ ~ thr[t].i_am_joining /\ ~ thr[t].i_am_waiting /\ t \notin Range(suspended)
      /\ Counted(thr[t], todo[t])
  BY <1>1, AtFacts
<1>3. PICK s : s = suspended'
  OBVIOUS
<1>4. suspended \in Seq(Threads) /\ IsInjective(suspended) /\ Queues
  BY DEF IInv, TypeOK, Queues
<1>5. s \in Seq(Threads) /\ Range(s) = Range(suspended) \cup {t} /\ IsInjective(s)
  BY <1>1, <1>2, <1>3, <1>4, RangeLast
<1>6. OneFlag(t, thr[t])
  BY <1>1, SameFlags, TypedQueues DEF OneFlag
<1>7. PlaceOk(thr[t], running' = t, t \in Range(suspended'))
  <2>1. running' # t /\ t \in Range(suspended')
    BY <1>1, <1>3, <1>5, ThreadsAssumption
  <2>2. QED
    BY <1>2, <2>1 DEF PlaceOk
<1>8. Queues'
  BY <1>1, <1>3, <1>4, <1>5 DEF Queues
<1>9. \A x \in Threads : x # t =>
         (running' = x <=> running = x) /\ (x \in Range(suspended') <=> x \in Range(suspended))
  BY <1>1, <1>2, <1>3, <1>5, ThreadsAssumption
<1>10. OneFlagStep(t, thr[t])
  BY <1>1, <1>2, <1>3, <1>5, <1>6, <1>7, <1>8, <1>9, TypedQueues DEF OneFlagStep, IInv
<1>11. QED
  BY <1>10, OneFlagKeeps

LEMMA ResumeStep ==
  ASSUME IInv, NEW t \in Threads, Resume(t), program' = program
  PROVE  IInv'
<1>1. /\ At(t) /\ UNCHANGED <<todo, later, event_list, running, rest, disabling>>
      /\ suspended # << >> /\ suspended' = Tail(suspended)
  BY BodyFacts DEF Resume
<1>2. running = t /\ disabling = None
  BY <1>1, AtFacts
<1>3. PICK w, s, a : w = Head(suspended) /\ s = suspended' /\ a = active'
  OBVIOUS
<1>4. /\ suspended \in Seq(Threads) /\ IsInjective(suspended) /\ Queues
      /\ active \in Seq(Seq(Threads) \ {<< >>})
  BY DEF IInv, TypeOK, Queues
<1>5. /\ w \in Threads /\ w \in Range(suspended) /\ s \in Seq(Threads) /\ IsInjective(s)
      /\ Range(suspended) = {w} \cup Range(s) /\ w \notin Range(s)
  BY <1>1, <1>3, <1>4, RangeTail, HeadTail
<1>6. /\ Alive(thr, w) /\ thr[w].exists /\ ~ thr[w].zombie /\ running # w
      /\ ~ thr[w].is_scheduled /\ ~ thr[w].waiting_for_event
      /\ ~ thr[w].i_am_joining /\ ~ thr[w].i_am_waiting
  <2>1. PlaceOk(thr[w], running = w, w \in Range(suspended))
    BY <1>5 DEF IInv, Places
  <2>2. QED
    BY <1>5, <2>1 DEF PlaceOk, Alive
<1>7. /\ thr' = [x \in Threads |-> IF x = w THEN [thr[w] EXCEPT !.is_scheduled = TRUE] ELSE thr[x]]
      /\ a = Push(active, w) /\ aborted' = FALSE /\ thr \in [Threads -> vthread_s]
  BY <1>3, <1>6, TypedQueues DEF Resume, Scheduled, Check
<1>8. PICK r : r = thr'[w]
  OBVIOUS
<1>9. r \in vthread_s /\ FlagRow(thr[w], r) /\ r.is_scheduled /\ r.exists /\ ~ r.zombie
      /\ r.waiting_for_event = thr[w].waiting_for_event /\ r.children = thr[w].children
      /\ r.i_am_joining = thr[w].i_am_joining /\ r.i_am_waiting = thr[w].i_am_waiting
  BY <1>5, <1>6, <1>7, <1>8 DEF vthread_s, FlagRow
<1>10. OneFlag(w, r)
  BY <1>7, <1>8, <1>9 DEF OneFlag
<1>11. Counted(r, todo'[w])
  <2>1. Counted(thr[w], todo[w])
    BY <1>5, <1>6 DEF IInv, Counts
  <2>2. QED
    BY <1>1, <1>9, <2>1 DEF Counted
<1>12. PlaceOk(r, running' = w, w \in Range(suspended'))
  <2>1. running' # w /\ w \notin Range(suspended')
    BY <1>1, <1>3, <1>5, <1>6
  <2>2. QED
    BY <1>6, <1>9, <2>1 DEF PlaceOk
<1>13. Queues' /\ a \in Seq(Seq(Threads) \ {<< >>})
  <2>1. w \notin Members(active) \cup Range(rest) \cup later
    BY <1>4, <1>5, <1>6 DEF Queues, Marks
  <2>2. a \in Seq(Seq(Threads) \ {<< >>}) /\ Members(a) = {w} \cup Members(active) /\ Once(a)
    BY <1>4, <1>5, <1>7, <2>1, PushLists DEF Queues
  <2>3. Apart(a, rest, later) /\ Marks(thr', a, rest, later, event_list)
    BY ZenonT(60), <1>4, <1>6, <1>8, <1>9, <1>10, <2>1, <2>2 DEF Queues, Apart, Marks, OneFlag
  <2>4. QED
    BY <1>1, <1>3, <1>4, <1>5, <2>2, <2>3 DEF Queues
<1>14. \A x \in Threads : x # w =>
         (running' = x <=> running = x) /\ (x \in Range(suspended') <=> x \in Range(suspended))
  BY <1>1, <1>3, <1>5
<1>15. OneFlagStep(w, r)
  <2>1. suspended' # << >> => "mbx" \in Opcodes
    BY <1>1 DEF IInv
  <2>2. QED
    BY <1>1, <1>2, <1>3, <1>5, <1>6, <1>7, <1>9, <1>10, <1>11, <1>12, <1>13, <1>14, <2>1, TypedQueues
       DEF OneFlagStep, IInv
<1>16. QED
  BY <1>5, <1>15, OneFlagKeeps

-----------------------------------------------------------------------------
(* The scheduler. *)

(* A thread starts; q holds the threads after it. *)
LEMMA RunStep ==
  ASSUME IInv, NEW t \in Threads, RunThread(t), program' = program,
         running = None, ~ aborted, thr[t].is_scheduled, Queues',
         active' \in Seq(Seq(Threads) \ {<< >>}), rest' \in Seq(Threads)
  PROVE  IInv'
<1>1. /\ UNCHANGED <<todo, later, event_list, suspended, disabling>> /\ running' = t
      /\ thr' = [thr EXCEPT ![t].is_scheduled = FALSE] /\ aborted' = FALSE
      /\ disabling = None /\ thr \in [Threads -> vthread_s]
  BY TypedQueues DEF RunThread, Check, IInv, RunOk
<1>2. RowOk(thr[t]) /\ PlaceOk(thr[t], FALSE, t \in Range(suspended))
  <2>1. running # t
    BY ThreadsAssumption
  <2>2. PlaceOk(thr[t], running = t, t \in Range(suspended)) /\ RowOk(thr[t])
    BY DEF IInv, Places, Rows
  <2>3. QED
    BY <2>1, <2>2 DEF PlaceOk
<1>3. thr[t].exists /\ t \notin Range(suspended)
  BY <1>2 DEF RowOk, PlaceOk
<1>4. PICK r : r = thr'[t]
  OBVIOUS
<1>5. r \in vthread_s /\ FlagRow(thr[t], r) /\ ~ r.is_scheduled /\ r.exists
      /\ r.waiting_for_event = thr[t].waiting_for_event /\ r.children = thr[t].children
      /\ r.i_am_joining = thr[t].i_am_joining /\ r.i_am_waiting = thr[t].i_am_waiting
      /\ r.zombie = thr[t].zombie
  BY <1>1, <1>3, <1>4 DEF vthread_s, FlagRow
<1>6. OneFlag(t, r)
  BY <1>1, <1>4, <1>5 DEF OneFlag
<1>7. Alive(thr, t) =>
        /\ Counted(r, todo'[t])
        /\ r.i_am_joining => \A c \in thr[t].children : ~ thr[c].i_have_ended
        /\ r.i_am_waiting => thr[t].detached_children # {}
  BY <1>1, <1>5 DEF Counted, IInv, Counts
<1>8. PlaceOk(r, running' = t, t \in Range(suspended'))
  <2>1. running' = t /\ t \notin Range(suspended')
    BY <1>1, <1>3
  <2>2. QED
    BY <1>2, <1>3, <1>5, <2>1 DEF PlaceOk
<1>9. \A x \in Threads : x # t =>
         (running' = x <=> running = x) /\ (x \in Range(suspended') <=> x \in Range(suspended))
  BY <1>1, ThreadsAssumption
<1>10. OneFlagStep(t, r)
  BY <1>1, <1>3, <1>6, <1>7, <1>8, <1>9, TypedQueues DEF OneFlagStep, IInv
<1>11. QED
  BY <1>10, OneFlagKeeps

LEMMA RunFirstStep ==
  ASSUME IInv, vthread_run, program' = program
  PROVE  IInv'
<1>1. PICK l, t, a, e : l = Head(active) /\ t = Head(l) /\ a = active' /\ e = rest'
  OBVIOUS
<1>2. /\ ~ aborted /\ running = None /\ rest = << >> /\ active # << >> /\ RunThread(t)
      /\ e = Tail(l) /\ a = Tail(active)
      /\ active \in Seq(Seq(Threads) \ {<< >>}) /\ Queues
  BY <1>1 DEF vthread_run, IInv, TypeOK
<1>3. /\ l \in Seq(Threads) /\ l # << >> /\ a \in Seq(Seq(Threads) \ {<< >>})
      /\ Members(active) = Range(l) \cup Members(a)
      /\ Once(a) /\ IsInjective(l) /\ Range(l) \cap Members(a) = {}
  <2>1. Once(active) /\ active # << >> /\ active \in Seq(Seq(Threads) \ {<< >>})
    BY <1>2 DEF Queues
  <2>2. /\ Head(active) \in Seq(Threads) /\ Head(active) # << >>
        /\ Tail(active) \in Seq(Seq(Threads) \ {<< >>})
        /\ Members(active) = Range(Head(active)) \cup Members(Tail(active))
        /\ Once(Tail(active)) /\ IsInjective(Head(active))
        /\ Range(Head(active)) \cap Members(Tail(active)) = {}
    BY <2>1, PopLists
  <2>3. QED
    BY <1>1, <1>2, <2>2
<1>4. /\ t \in Threads /\ e \in Seq(Threads) /\ Range(l) = {t} \cup Range(e)
      /\ IsInjective(e) /\ t \notin Range(e)
  BY <1>1, <1>2, <1>3, HeadTail, RangeTail
<1>5. thr[t].is_scheduled /\ t \notin later /\ t \notin Members(a)
  BY <1>2, <1>3, <1>4 DEF Queues, Marks, Apart
<1>6. Queues'
  <2>1. /\ UNCHANGED <<later, event_list, suspended>> /\ thr \in [Threads -> vthread_s]
        /\ thr' = [thr EXCEPT ![t].is_scheduled = FALSE]
    BY <1>2, TypedQueues DEF RunThread
  <2>2. /\ \A x \in Threads : thr'[x].waiting_for_event = thr[x].waiting_for_event
        /\ \A x \in Threads : x # t => thr'[x].is_scheduled = thr[x].is_scheduled
        /\ ~ thr'[t].is_scheduled
    BY <1>4, <2>1 DEF vthread_s
  <2>3. \A x : x \in Members(active) \cup Range(rest) <=> x = t \/ x \in Members(a) \cup Range(e)
    BY <1>2, <1>3, <1>4, RangeNone
  <2>4. Apart(a, e, later)
    BY <1>2, <1>3, <1>4 DEF Queues, Apart
  <2>5. Marks(thr', a, e, later, event_list)
    BY <1>2, <1>4, <1>5, <2>2, <2>3 DEF Queues, Marks
  <2>6. QED
    BY <1>1, <1>2, <1>3, <1>4, <2>1, <2>4, <2>5 DEF Queues
<1>7. QED
  BY <1>1, <1>2, <1>3, <1>4, <1>5, <1>6, RunStep

LEMMA RunNextStep ==
  ASSUME IInv, vthread_run_next, program' = program
  PROVE  IInv'
<1>1. PICK t, e : t = Head(rest) /\ e = rest'
  OBVIOUS
<1>2. /\ ~ aborted /\ running = None /\ rest # << >> /\ RunThread(t)
      /\ e = Tail(rest) /\ active' = active /\ rest \in Seq(Threads)
      /\ active \in Seq(Seq(Threads) \ {<< >>}) /\ Queues
  BY <1>1 DEF vthread_run_next, IInv, TypeOK
<1>3. /\ t \in Threads /\ e \in Seq(Threads) /\ Range(rest) = {t} \cup Range(e)
      /\ IsInjective(e) /\ t \notin Range(e)
  BY <1>1, <1>2, HeadTail, RangeTail DEF Queues
<1>4. thr[t].is_scheduled /\ t \notin later /\ t \notin Members(active)
  BY <1>2, <1>3 DEF Queues, Marks, Apart
<1>5. Queues'
  <2>1. /\ UNCHANGED <<later, event_list, suspended>> /\ thr \in [Threads -> vthread_s]
        /\ thr' = [thr EXCEPT ![t].is_scheduled = FALSE]
    BY <1>2, TypedQueues DEF RunThread
  <2>2. /\ \A x \in Threads : thr'[x].waiting_for_event = thr[x].waiting_for_event
        /\ \A x \in Threads : x # t => thr'[x].is_scheduled = thr[x].is_scheduled
        /\ ~ thr'[t].is_scheduled
    BY <1>3, <2>1 DEF vthread_s
  <2>3. Apart(active, e, later)
    BY <1>2, <1>3 DEF Queues, Apart
  <2>4. Marks(thr', active, e, later, event_list)
    BY <1>2, <1>3, <1>4, <2>2 DEF Queues, Marks
  <2>5. QED
    BY <1>1, <1>2, <1>3, <2>1, <2>3, <2>4 DEF Queues
<1>6. QED
  BY <1>1, <1>2, <1>3, <1>4, <1>5, RunStep

LEMMA AdvanceTimeStep ==
  ASSUME IInv, NEW t \in Threads, AdvanceTime(t), program' = program
  PROVE  IInv'
<1>1. /\ UNCHANGED <<thr, todo, event_list, suspended, running, rest, disabling, aborted>>
      /\ running = None /\ rest = << >> /\ active = << >> /\ t \in later /\ later' = later \ {t}
      /\ active' = Push(active, t)
  BY DEF AdvanceTime, Push
<1>2. Queues /\ active \in Seq(Seq(Threads) \ {<< >>})
  BY DEF IInv, TypeOK
<1>3. PICK a, l : a = active' /\ l = later'
  OBVIOUS
<1>4. Members(active) = {} /\ Range(rest) = {}
  BY <1>1, RangeNone DEF Members
<1>5. a \in Seq(Seq(Threads) \ {<< >>}) /\ Members(a) = {t} /\ Once(a)
  <2>1. /\ a \in Seq(Seq(Threads) \ {<< >>}) /\ Members(a) = {t} \cup Members(active)
        /\ Once(active) /\ t \notin Members(active) => Once(a)
    BY <1>1, <1>2, <1>3, PushLists
  <2>2. QED
    BY <1>2, <1>4, <2>1 DEF Queues
<1>6. Apart(a, rest, l) /\ Marks(thr, a, rest, l, event_list)
  BY <1>1, <1>2, <1>3, <1>4, <1>5 DEF Queues, Apart, Marks
<1>7. Queues'
  BY <1>1, <1>2, <1>3, <1>5, <1>6 DEF Queues
<1>8. TypeOK'
  BY <1>1, <1>3, <1>5 DEF TypeOK, IInv
<1>9. RunOk'
  BY <1>1 DEF RunOk, IInv, Opcodes
<1>10. QED
  BY <1>1, <1>7, <1>8, <1>9 DEF IInv, Opcodes

LEMMA ScheduleListStep ==
  ASSUME IInv, vthread_schedule_list, program' = program
  PROVE  IInv'
<1>1. /\ UNCHANGED <<todo, later, suspended, running, rest, disabling>>
      /\ event_list # << >> /\ disabling = None
      /\ active' = Append(active, event_list) /\ event_list' = << >>
  BY DEF vthread_schedule_list
<1>2. PICK ts, a : ts = Range(event_list) /\ a = active'
  OBVIOUS
<1>3. /\ Queues /\ Good(thr) /\ Counts(thr, todo) /\ Places(thr, running, suspended)
      /\ active \in Seq(Seq(Threads) \ {<< >>}) /\ event_list \in Seq(Threads)
      /\ thr \in [Threads -> vthread_s]
  BY GoodThr DEF IInv, TypeOK
<1>4. \A x \in Threads : x \in ts <=> thr[x].waiting_for_event
  BY <1>2, <1>3 DEF Queues, Marks
<1>5. ASSUME NEW x \in ts
      PROVE  /\ x \in Threads /\ thr[x].waiting_for_event /\ ~ thr[x].is_scheduled /\ thr[x].exists
             /\ x \notin Range(suspended) /\ running # x
  <2>1. x \in Threads
    BY <1>2, <1>3 DEF Range
  <2>2. PlaceOk(thr[x], running = x, x \in Range(suspended)) /\ RowOk(thr[x])
    BY <1>3, <2>1 DEF Places, Good, Rows
  <2>3. QED
    BY <1>4, <2>1, <2>2 DEF PlaceOk, RowOk
<1>6. /\ aborted' = FALSE
      /\ thr' = [x \in Threads |->
                   IF x \in ts
                   THEN [thr[x] EXCEPT !.waiting_for_event = FALSE, !.is_scheduled = TRUE]
                   ELSE thr[x]]
  BY <1>2, <1>5 DEF vthread_schedule_list, Check
<1>7. ASSUME NEW x \in Threads
      PROVE  /\ thr'[x] \in vthread_s /\ FlagRow(thr[x], thr'[x])
             /\ thr'[x].i_am_joining = thr[x].i_am_joining
             /\ thr'[x].i_am_waiting = thr[x].i_am_waiting
             /\ ~ thr'[x].waiting_for_event
             /\ thr'[x].is_scheduled <=> thr[x].is_scheduled \/ thr[x].waiting_for_event
  <2>1. CASE x \in ts
    <3>0. thr[x] \in vthread_s /\ thr[x].exists /\ thr[x].waiting_for_event
      BY <1>3, <1>5, <2>1
    <3>1. thr'[x] = [thr[x] EXCEPT !.waiting_for_event = FALSE, !.is_scheduled = TRUE]
      BY <1>6, <2>1
    <3>2. QED
      BY ZenonT(60), <3>0, <3>1 DEF vthread_s, FlagRow
  <2>2. CASE x \notin ts
    <3>1. thr'[x] = thr[x] /\ thr[x] \in vthread_s /\ ~ thr[x].waiting_for_event
      BY <1>3, <1>4, <1>6, <2>2
    <3>2. QED
      BY <3>1, SameFlags
  <2>3. QED
    BY <2>1, <2>2
<1>8. thr' \in [Threads -> vthread_s]
  BY <1>6, <1>7
<1>9. /\ a \in Seq(Seq(Threads) \ {<< >>}) /\ Members(a) = Members(active) \cup ts /\ Once(a)
  <2>1. Members(active) \cap ts = {}
    BY <1>3, <1>5 DEF Queues, Marks
  <2>2. QED
    BY <1>1, <1>2, <1>3, <2>1, AppendLists DEF Queues
<1>10. Queues'
  <2>1. ts \cap Range(rest) = {} /\ ts \cap later = {}
    BY <1>3, <1>5 DEF Queues, Marks
  <2>2. Apart(a, rest, later)
    BY <1>3, <1>9, <2>1 DEF Queues, Apart
  <2>3. Marks(thr', a, rest, later, << >>)
    BY <1>3, <1>4, <1>7, <1>9, RangeNone DEF Queues, Marks
  <2>4. QED
    BY <1>1, <1>2, <1>3, <1>9, <2>2, <2>3, RangeNone DEF Queues
<1>11. Places(thr', running', suspended')
  <2>1. SUFFICES ASSUME NEW x \in Threads PROVE PlaceOk(thr'[x], running' = x, x \in Range(suspended'))
    BY DEF Places
  <2>2. PlaceOk(thr[x], running = x, x \in Range(suspended))
    BY <1>3 DEF Places
  <2>3. (running' = x <=> running = x) /\ (x \in Range(suspended') <=> x \in Range(suspended))
    BY <1>1
  <2>4. QED
    BY <1>7, <2>2, <2>3 DEF PlaceOk, FlagRow
<1>12. Counts(thr', todo')
  <2>1. ASSUME NEW x \in Threads
        PROVE  /\ thr'[x].exists = thr[x].exists /\ thr'[x].freed = thr[x].freed
               /\ thr'[x].i_have_ended = thr[x].i_have_ended
               /\ thr'[x].children = thr[x].children
               /\ thr'[x].detached_children = thr[x].detached_children
               /\ thr'[x].i_am_joining = thr[x].i_am_joining
               /\ thr'[x].i_am_waiting = thr[x].i_am_waiting
               /\ (Alive(thr', x) <=> Alive(thr, x))
               /\ thr[x].children \subseteq Threads
    BY <1>3, <1>7, Fields DEF FlagRow, Alive
  <2>2. \A x \in Threads : Counted(thr[x], todo[x]) => Counted(thr'[x], todo[x])
    BY <2>1 DEF Counted
  <2>3. \A x \in Threads : \A c \in thr[x].children : thr'[c].i_have_ended = thr[c].i_have_ended
    BY <2>1
  <2>4. Counts(thr', todo)
    BY ZenonT(60), <1>3, <2>1, <2>2, <2>3 DEF Counts
  <2>5. QED
    BY <1>1, <2>4
<1>13. TypeOK'
  <2>1. << >> \in Seq(Threads)
    OBVIOUS
  <2>2. QED
    BY <1>1, <1>2, <1>6, <1>8, <1>9, <2>1 DEF TypeOK, IInv
<1>14. RunOk'
  <2>1. running # None => running \in Threads /\ thr[running].exists
    BY <1>1, ThreadsAssumption DEF IInv, RunOk, TypeOK
  <2>2. QED
    BY <1>1, <1>7, <2>1, ThreadsAssumption DEF RunOk, FlagRow
<1>15. FlagStep
  BY <1>1, <1>6, <1>7, <1>10, <1>11, <1>12, <1>13, <1>14 DEF FlagStep, IInv
<1>16. QED
  BY <1>15, FlagsKeep

-----------------------------------------------------------------------------
(* Steps of which only the running thread and the disabling are part. *)
LEMMA PauseStep ==
  ASSUME IInv, UNCHANGED <<program, thr, todo, active, later, event_list, suspended, rest>>,
         aborted' = FALSE, RunOk', Places(thr, running', suspended),
         running' \in Threads \cup {None}, disabling' \in Scopes \cup Threads \cup {None}
  PROVE  IInv'
<1>1. TypeOK'
  BY DEF TypeOK, IInv
<1>2. QED
  BY <1>1 DEF IInv, Queues, Opcodes

LEMMA DisableBegins ==
  ASSUME IInv, NEW t \in Threads, NEW s \in Scopes, of_DISABLE(t, s), program' = program
  PROVE  IInv'
<1>1. /\ At(t) /\ disabling' = s /\ "disable" \in Opcodes
      /\ UNCHANGED <<thr, todo, active, later, event_list, suspended, running, rest, aborted>>
  BY BodyFacts DEF of_DISABLE
<1>2. running = t /\ Alive(thr, t) /\ t # None
  BY <1>1, AtFacts, ThreadsAssumption
<1>3. RunOk'
  BY <1>1, <1>2, ThreadsAssumption DEF RunOk, Opcodes, Alive
<1>4. aborted' = FALSE /\ Places(thr, running', suspended)
  BY <1>1 DEF IInv, TypeOK
<1>5. QED
  BY <1>1, <1>2, <1>3, <1>4, PauseStep

LEMMA DisableForkBegins ==
  ASSUME IInv, NEW t \in Threads, of_DISABLE_FORK(t), program' = program
  PROVE  IInv'
<1>1. /\ At(t) /\ disabling' = t /\ "disfork" \in Opcodes /\ thr[t].children = {}
      /\ UNCHANGED <<thr, todo, active, later, event_list, suspended, running, rest>>
      /\ aborted' = ~ (~ thr[t].i_am_joining /\ thr[t].children = {})
  BY BodyFacts DEF of_DISABLE_FORK, Check
<1>2. running = t /\ Alive(thr, t) /\ ~ thr[t].i_am_joining /\ t # None /\ t \notin Scopes
  BY <1>1, AtFacts, ThreadsAssumption
<1>3. RunOk'
  BY <1>1, <1>2, ThreadsAssumption DEF RunOk, Opcodes, Alive
<1>4. aborted' = FALSE /\ Places(thr, running', suspended)
  BY <1>1, <1>2 DEF IInv
<1>5. QED
  BY <1>1, <1>2, <1>3, <1>4, PauseStep

LEMMA DisableEnds ==
  ASSUME IInv, DisableEnd, program' = program
  PROVE  IInv'
<1>1. /\ disabling \in Scopes /\ disabling' = None
      /\ running' = IF thr[running].zombie THEN None ELSE running
      /\ UNCHANGED <<thr, todo, active, later, event_list, suspended, rest, aborted>>
  BY DEF DisableEnd
<1>2. PICK t : t = running
  OBVIOUS
<1>3. /\ t \in Threads
      /\ thr[t].exists \/ thr[t].zombie
      /\ thr[t].exists /\ thr[t].zombie => thr[t].parent # None
  BY <1>1, <1>2, ThreadsAssumption DEF IInv, RunOk, TypeOK
<1>4. RunOk'
  BY <1>1, <1>2, <1>3, ThreadsAssumption DEF RunOk
<1>5. Places(thr, running', suspended)
  <2>1. CASE ~ thr[t].zombie
    BY <1>1, <1>2, <2>1 DEF IInv
  <2>2. CASE thr[t].zombie
    <3>1. \A x \in Threads : x # t => (None = x <=> running = x)
      BY <1>2, ThreadsAssumption
    <3>2. Places(thr, running, suspended)
      BY DEF IInv
    <3>3. PlaceOk(thr[t], None = t, t \in Range(suspended))
      <4>1. PlaceOk(thr[t], running = t, t \in Range(suspended))
        BY <1>3, <3>2 DEF Places
      <4>2. None # t
        BY <1>3, ThreadsAssumption
      <4>3. QED
        BY <1>2, <1>3, <2>2, <4>1, <4>2 DEF PlaceOk
    <3>4. Places(thr, None, suspended)
      BY <3>1, <3>2, <3>3, PlacesChange
    <3>5. QED
      BY <1>1, <1>2, <2>2, <3>4
  <2>3. QED
    BY <2>1, <2>2
<1>6. aborted' = FALSE /\ running' \in Threads \cup {None}
  BY <1>1, <1>2, <1>3 DEF IInv, TypeOK
<1>7. QED
  BY <1>1, <1>4, <1>5, <1>6, PauseStep

LEMMA DisableForkEnds ==
  ASSUME IInv, DisableForkEnd, program' = program
  PROVE  IInv'
<1>1. /\ disabling \in Threads /\ disabling' = None
      /\ UNCHANGED <<thr, todo, active, later, event_list, suspended, running, rest, aborted>>
  BY DEF DisableForkEnd
<1>2. RunOk'
  BY <1>1, ThreadsAssumption DEF RunOk, IInv, Alive
<1>3. aborted' = FALSE /\ Places(thr, running', suspended) /\ running' \in Threads \cup {None}
  BY <1>1 DEF IInv, TypeOK
<1>4. QED
  BY <1>1, <1>2, <1>3, PauseStep

-----------------------------------------------------------------------------
(* A thread that a cut leaves as it is. *)
LEMMA KeptSame ==
  ASSUME NEW r, NEW K, NEW orphan, NEW woken, ~ orphan, ~ woken, r.children \cap K = {},
         r.exists /\ ~ r.zombie => r.detached_children \cap K = {}
  PROVE  KeptRow(r, r, K, orphan, woken)
  BY DEF KeptRow, SameLife

(* Nobody points at a thread that has no parent. *)
LEMMA NoPointers ==
  ASSUME NEW f, Linked(f), NEW t \in Threads, f[t].parent = None
  PROVE  \A x \in Threads : /\ t \notin f[x].children
                            /\ Alive(f, x) => t \notin f[x].detached_children
  BY ThreadsAssumption DEF Linked

(* A zombie is nobody's parent. *)
LEMMA NoOffspring ==
  ASSUME NEW f, Linked(f), NEW t \in Threads, ~ Alive(f, t)
  PROVE  \A x \in Threads : f[x].parent # t
  BY ThreadsAssumption DEF Linked

LEMMA ZombieStep ==
  ASSUME IInv, NEW t \in Threads, of_ZOMBIE(t), program' = program
  PROVE  IInv'
<1>1. /\ running = t /\ disabling = None /\ thr[t].zombie /\ running' = None
      /\ UNCHANGED <<todo, active, later, event_list, suspended, rest, disabling, aborted>>
      /\ thr' = IF thr[t].parent = None /\ thr[t].children = {}
                THEN [thr EXCEPT ![t] = Deleted] ELSE thr
  BY DEF of_ZOMBIE
<1>2. /\ thr[t].exists /\ ~ Alive(thr, t) /\ Linked(thr) /\ thr \in [Threads -> vthread_s]
      /\ aborted' = FALSE
  BY <1>1, ThreadsAssumption DEF IInv, RunOk, Alive, TypeOK
<1>3. RowOk(thr[t]) /\ PlaceOk(thr[t], running = t, t \in Range(suspended))
  BY DEF IInv, Rows, Places
<1>4. /\ ~ thr[t].is_scheduled /\ ~ thr[t].waiting_for_event /\ t \notin Range(suspended)
      /\ thr[t].children = {}
  BY <1>1, <1>2, <1>3 DEF RowOk, PlaceOk
<1>5. RunOk'
  BY <1>1, ThreadsAssumption DEF RunOk
<1>6. CASE thr[t].parent = None
  <2>1. /\ thr'[t] = Deleted /\ \A x \in Threads : x # t => thr'[x] = thr[x]
        /\ thr' = [thr EXCEPT ![t] = Deleted]
    BY <1>1, <1>2, <1>4, <1>6
  <2>2. \A x \in Threads : thr[x].parent # t /\ t \notin thr[x].children
                           /\ (Alive(thr, x) => t \notin thr[x].detached_children)
    BY <1>2, <1>6, NoPointers, NoOffspring
  <2>3. ASSUME NEW x \in Threads \ ({t} \cup {})
        PROVE  KeptRow(thr[x], thr'[x], {t}, thr[x].parent \in {t} \cup {}, x \in {})
    <3>1. thr'[x] = thr[x] /\ thr[x].parent \notin {t} \cup {}
      BY <2>1, <2>2
    <3>2. thr[x].children \cap {t} = {}
      BY <2>2
    <3>3. thr[x].exists /\ ~ thr[x].zombie => thr[x].detached_children \cap {t} = {}
      BY <2>2 DEF Alive
    <3>4. KeptRow(thr[x], thr[x], {t}, thr[x].parent \in {t} \cup {}, x \in {})
      BY <3>1, <3>2, <3>3, KeptSame
    <3>5. QED
      BY <3>1, <3>4
  <2>4. Cut(thr, thr', {t}, {}, {})
    <3>1. GoneRow(thr[t], thr'[t])
      BY <1>4, <2>1 DEF GoneRow
    <3>2. QED
      BY <1>2, <2>2, <2>3, <3>1 DEF Cut
  <2>5. Loses(thr, thr', {t}, {}, {}, todo, todo', None)
    <3>1. \A x \in Threads \ ({t} \cup {}) :
            Alive(thr, x) /\ thr'[x].i_am_waiting => thr'[x].detached_children # {}
      BY <2>1 DEF IInv, Counts
    <3>2. QED
      BY <1>1, <2>2, <3>1, ThreadsAssumption DEF Loses
  <2>6. Deleted \in vthread_s
    <3>1. AScope \in Scopes
      BY ThreadsAssumption DEF AScope
    <3>2. QED
      BY <3>1 DEF Deleted, NoThread, vthread_new, vthread_s
  <2>7. CutStep({t}, {}, {}, None)
    <3>1. thr' \in [Threads -> vthread_s] /\ todo' \in [Threads -> Block]
      BY <1>1, <1>2, <2>1, <2>6, TypedQueues
    <3>2. ({t} \cup {}) \cap Range(suspended) = {}
      BY <1>4
    <3>3. QED
      BY <1>1, <1>2, <1>5, <2>4, <2>5, <3>1, <3>2 DEF CutStep
  <2>8. QED
    BY <2>7, CutKeeps
<1>7. CASE thr[t].parent # None
  <2>1. thr' = thr
    BY <1>1, <1>7
  <2>2. \A x \in Threads : x # t => (None = x <=> running = x)
    BY <1>1, ThreadsAssumption
  <2>3. PlaceOk(thr[t], None = t, t \in Range(suspended))
    BY <1>1, <1>2, <1>3, <1>7, ThreadsAssumption DEF PlaceOk
  <2>4. Places(thr, running, suspended)
    BY DEF IInv
  <2>5. Places(thr, None, suspended)
    BY <2>2, <2>3, <2>4, PlacesChange
  <2>6. Places(thr, running', suspended)
    BY <1>1, <2>5
  <2>7. QED
    BY <1>1, <1>2, <1>5, <2>1, <2>6, PauseStep
<1>8. QED
  BY <1>6, <1>7

-----------------------------------------------------------------------------
(* One thread without children goes. *)
OneGone(f, g, t, K, Z, W) ==
  /\ K \cup Z = {t} /\ K \cap Z = {}
  /\ f[t].exists /\ f[t].children = {} /\ (Alive(f, t) \/ f[t].detached_children = {})
  /\ t \in K => GoneRow(f[t], g[t])
  /\ t \in Z => EndedRow(f[t], g[t])
  /\ \A x \in Threads : x # t /\ x # f[t].parent =>
       g[x] = IF x \in f[t].detached_children THEN Orphan(f[x]) ELSE f[x]
  /\ f[t].parent # None =>
       KeptRow(f[f[t].parent], g[f[t].parent], K, FALSE, f[t].parent \in W)
  /\ \A x \in W : /\ x = f[t].parent /\ x \in Threads /\ Alive(f, x)
                  /\ f[x].i_am_joining \/ f[x].i_am_waiting

LEMMA Rank ==
  ASSUME NEW f \in [Threads -> vthread_s], Acyclic(f)
  PROVE  \E rank : /\ \A x \in Threads : rank[x] \in Nat
                   /\ \A x \in Threads : f[x].parent # None =>
                        f[x].parent \in Threads /\ rank[x] < rank[f[x].parent]
<1>1. PICK rank \in [Threads -> Nat] : Below(rank, f)
  BY DEF Acyclic
<1>2. \A x \in Threads : f[x].parent # None => f[x].parent \in Threads
  BY ParentIs
<1>3. QED
  BY <1>1, <1>2 DEF Below

LEMMA NoLoop ==
  ASSUME NEW f \in [Threads -> vthread_s], Acyclic(f), NEW t \in Threads, NEW p \in Threads,
         f[t].parent = p
  PROVE  p # t /\ f[p].parent # t
<1>0. p # None /\ t # None
  BY ThreadsAssumption
<1>1. PICK rank : /\ \A x \in Threads : rank[x] \in Nat
                  /\ \A x \in Threads : f[x].parent # None =>
                       f[x].parent \in Threads /\ rank[x] < rank[f[x].parent]
  BY Rank
<1>2. PICK a, b : a = rank[t] /\ b = rank[p]
  OBVIOUS
<1>3. a \in Nat /\ b \in Nat /\ a < b /\ (f[p].parent = t => b < a)
  BY <1>0, <1>1, <1>2
<1>4. a # b /\ f[p].parent # t
  BY <1>3
<1>5. QED
  BY <1>2, <1>4

LEMMA OneGoneCut ==
  ASSUME NEW f, Good(f), NEW g, NEW t \in Threads, NEW K, NEW Z, NEW W, OneGone(f, g, t, K, Z, W)
  PROVE  Cut(f, g, K, Z, W)
<1>1. f \in [Threads -> vthread_s] /\ Rows(f) /\ Linked(f) /\ Acyclic(f)
  BY DEF Good
<1>2. PICK p : p = f[t].parent
  OBVIOUS
<1>3. p \in Threads \cup {None} /\ (p # None => p \in Threads /\ p # t /\ f[p].parent # t)
  BY <1>1, <1>2, ParentIs, NoLoop
<1>4. /\ K \cup Z = {t} /\ K \cap Z = {} /\ f[t].exists /\ f[t].children = {}
      /\ Alive(f, t) \/ f[t].detached_children = {}
  BY DEF OneGone
<1>5. ASSUME NEW x \in Threads
      PROVE  /\ f[x].parent = t => f[x].i_am_detached /\ x \in f[t].detached_children
             /\ x \in f[t].detached_children => f[x].parent = t
             /\ x # p => t \notin f[x].children /\ (Alive(f, x) => t \notin f[x].detached_children)
  BY <1>1, <1>2, <1>4, ThreadsAssumption DEF Linked
<1>6. ASSUME NEW x \in Threads, x # t
      PROVE  KeptRow(f[x], g[x], K, f[x].parent \in K \cup Z, x \in W)
  <2>1. CASE x = p
    <3>1. KeptRow(f[x], g[x], K, FALSE, x \in W)
      BY <1>2, <2>1, ThreadsAssumption DEF OneGone
    <3>2. f[x].parent \notin K \cup Z
      BY <1>3, <1>4, <2>1, ThreadsAssumption
    <3>3. QED
      BY <3>1, <3>2 DEF KeptRow
  <2>2. CASE x # p /\ x \in f[t].detached_children
    <3>1. g[x] = Orphan(f[x]) /\ f[x].parent \in K \cup Z /\ x \notin W /\ f[x] \in vthread_s
      BY <1>1, <1>2, <1>4, <1>5, <1>6, <2>2 DEF OneGone
    <3>2. f[x].children \cap K = {} /\ (Alive(f, x) => f[x].detached_children \cap K = {})
      BY <1>4, <1>5, <2>2
    <3>3. PICK n : n = Orphan(f[x])
      OBVIOUS
    <3>4. n.children = f[x].children /\ n.detached_children = f[x].detached_children
          /\ n.parent = None /\ ~ n.i_am_detached /\ SameLife(f[x], n)
          /\ n.i_am_joining = f[x].i_am_joining /\ n.i_am_waiting = f[x].i_am_waiting
          /\ n.is_scheduled = f[x].is_scheduled
      BY <3>1, <3>3 DEF Orphan, SameLife, vthread_s
    <3>5. KeptRow(f[x], n, K, f[x].parent \in K \cup Z, x \in W)
      BY <3>1, <3>2, <3>4 DEF KeptRow, Alive
    <3>6. QED
      BY <3>1, <3>3, <3>5
  <2>3. CASE x # p /\ x \notin f[t].detached_children
    <3>1. g[x] = f[x] /\ f[x].parent \notin K \cup Z /\ x \notin W
      BY <1>2, <1>4, <1>5, <1>6, <2>3 DEF OneGone
    <3>2. f[x].children \cap K = {} /\ (Alive(f, x) => f[x].detached_children \cap K = {})
      BY <1>4, <1>5, <2>3
    <3>3. KeptRow(f[x], f[x], K, f[x].parent \in K \cup Z, x \in W)
      BY <3>1, <3>2, KeptSame DEF Alive
    <3>4. QED
      BY <3>1, <3>3
  <2>4. QED
    BY <2>1, <2>2, <2>3
<1>7. /\ K \subseteq Threads /\ Z \subseteq Threads /\ W \subseteq Threads
      /\ W \cap (K \cup Z) = {}
      /\ \A x \in W : Alive(f, x) /\ (f[x].i_am_joining \/ f[x].i_am_waiting)
  BY <1>2, <1>3, <1>4, ThreadsAssumption DEF OneGone
<1>8. /\ \A x \in K : f[x].exists /\ GoneRow(f[x], g[x])
      /\ \A x \in Z : f[x].exists /\ EndedRow(f[x], g[x]) /\ f[x].parent \notin K \cup Z
  BY <1>2, <1>3, <1>4, ThreadsAssumption DEF OneGone
<1>9. \A x \in Threads : f[x].parent \in K \cup Z /\ ~ f[x].i_am_detached => x \in K
  BY <1>4, <1>5
<1>10. \A x \in Threads \ (K \cup Z) : KeptRow(f[x], g[x], K, f[x].parent \in K \cup Z, x \in W)
  BY <1>4, <1>6
<1>11. QED
  BY <1>4, <1>7, <1>8, <1>9, <1>10 DEF Cut

LEMMA OneGoneLoses ==
  ASSUME NEW f, Good(f), NEW g, NEW t \in Threads, NEW K, NEW Z, NEW W, OneGone(f, g, t, K, Z, W),
         NEW td, NEW td2, Counts(f, td), NEW p, p = f[t].parent,
         \A x \in Threads : x # p => td2[x] = td[x],
         p # None => /\ Alive(f, p) /\ Counted(g[p], td2[p])
                     /\ g[p].i_am_waiting => g[p].detached_children # {}
                     /\ Z # {} => ~ g[p].i_am_joining
  PROVE  Loses(f, g, K, Z, W, td, td2, p)
<1>1. f \in [Threads -> vthread_s] /\ Linked(f)
  BY DEF Good
<1>2. K \cup Z = {t} /\ p \in Threads \cup {None}
  BY <1>1, ParentIs DEF OneGone
<1>3. \A x \in Threads : x # p => t \notin f[x].children /\ x \notin W
  BY <1>1 DEF Linked, OneGone
<1>4. ASSUME NEW x \in Threads, x # t, Alive(f, x), g[x].i_am_waiting
      PROVE  g[x].detached_children # {}
  <2>1. CASE x = p
    BY <1>4, <2>1, ThreadsAssumption
  <2>2. CASE x # p
    <3>1. g[x] = f[x] \/ g[x] = Orphan(f[x])
      BY <1>4, <2>2 DEF OneGone
    <3>2. f[x] \in vthread_s
      BY <1>1
    <3>3. g[x].i_am_waiting = f[x].i_am_waiting /\ g[x].detached_children = f[x].detached_children
      BY <3>1, <3>2 DEF Orphan, vthread_s
    <3>4. QED
      BY <1>4, <3>3 DEF Counts
  <2>3. QED
    BY <2>1, <2>2
<1>5. \A z \in Z : z = t /\ f[z].parent # None
  BY <1>2 DEF OneGone, EndedRow
<1>6. QED
  BY <1>2, <1>3, <1>4, <1>5, ThreadsAssumption DEF Loses

LEMMA ReapedGone ==
  ASSUME NEW r \in vthread_s, r.exists, r.i_have_ended, RowOk(r), r.children = {}
  PROVE  GoneRow(r, Reaped(r))
<1>1. CASE ~ r.is_scheduled /\ ~ r.waiting_for_event
  BY <1>1 DEF GoneRow, Reaped
<1>2. CASE ~ (~ r.is_scheduled /\ ~ r.waiting_for_event)
  <2>1. PICK n : n = [r EXCEPT !.parent = None, !.in_scope = FALSE, !.zombie = TRUE]
    OBVIOUS
  <2>2. Reaped(r) = n
    BY <1>2, <2>1 DEF Reaped
  <2>3. GoneRow(r, n)
    BY <1>2, <2>1 DEF GoneRow, RowOk, vthread_s
  <2>4. QED
    BY <2>2, <2>3
<1>3. QED
  BY <1>1, <1>2

(* One child less, and one join. *)
LEMMA ChildLess ==
  ASSUME NEW S \in SUBSET Threads, NEW c \in S
  PROVE  Cardinality(S \ {c}) \in Nat /\ Cardinality(S) = Cardinality(S \ {c}) + 1
<1>1. IsFiniteSet(S) /\ Cardinality(S) \in Nat /\ Cardinality(S \ {c}) \in Nat
  BY FiniteThreads
<1>2. Cardinality(S \ {c}) = Cardinality(S) - 1
  BY <1>1, FS_RemoveElement
<1>3. QED
  BY <1>1, <1>2

(* An ended child. *)
LEMMA EndedChild ==
  ASSUME NEW f, Good(f), NEW t \in Threads, NEW c \in f[t].children, f[c].i_have_ended
  PROVE  /\ c \in Threads /\ c # t /\ f[c].parent = t /\ ~ f[c].i_am_detached /\ f[c].exists
         /\ f[c].zombie /\ f[c].children = {} /\ f[c].detached_children = {}
         /\ f[c] \in vthread_s /\ RowOk(f[c]) /\ ReapOk(f, c)
<1>1. f \in [Threads -> vthread_s] /\ Rows(f) /\ Linked(f) /\ Acyclic(f)
  BY DEF Good
<1>2. c \in Threads /\ f[c] \in vthread_s
  BY <1>1, Fields
<1>3. f[c].parent = t /\ ~ f[c].i_am_detached /\ t # None /\ RowOk(f[c])
  BY <1>1, <1>2, ThreadsAssumption DEF Linked, Rows
<1>4. f[c].exists /\ f[c].zombie /\ f[c].children = {} /\ f[c].detached_children = {}
  BY <1>3 DEF RowOk
<1>5. c # t
  BY <1>1, <1>2, <1>3, NoLoop
<1>6. ReapOk(f, c)
  BY <1>3, <1>4 DEF ReapOk
<1>7. QED
  BY <1>2, <1>3, <1>4, <1>5, <1>6

LEMMA LostFields ==
  ASSUME NEW r \in vthread_s, NEW t, NEW d \in BOOLEAN
  PROVE  /\ SameLife(r, Lost(r, t, d)) /\ Lost(r, t, d).parent = r.parent
         /\ Lost(r, t, d).i_am_detached = r.i_am_detached
         /\ Lost(r, t, d).children = IF d THEN r.children ELSE r.children \ {t}
         /\ Lost(r, t, d).detached_children
              = IF d THEN r.detached_children \ {t} ELSE r.detached_children
         /\ Lost(r, t, d).i_am_joining = r.i_am_joining
         /\ Lost(r, t, d).i_am_waiting = r.i_am_waiting
         /\ Lost(r, t, d).is_scheduled = r.is_scheduled
  BY DEF Lost, SameLife, vthread_s

LEMMA JoinsNow ==
  ASSUME IInv, NEW t \in Threads, of_JOIN(t), program' = program,
         NEW c \in thr[t].children, thr[c].i_have_ended, thr' = vthread_reap(thr, c), running' = running,
         aborted' = ~ (~ thr[t].i_am_joining /\ thr[t].children # {} /\ ReapOk(thr, c))
  PROVE  IInv'
<1>1. /\ At(t) /\ UNCHANGED <<active, later, event_list, suspended, rest, disabling>>
      /\ todo[t].fork = 0 /\ todo[t].join > 0
      /\ todo' = [todo EXCEPT ![t].join = @ - 1]
  BY DEF of_JOIN
<1>2. /\ running = t /\ disabling = None /\ Alive(thr, t) /\ t # None
      /\ ~ thr[t].i_am_joining /\ ~ thr[t].i_am_waiting /\ Counted(thr[t], todo[t])
  BY <1>1, AtFacts, ThreadsAssumption
<1>3. todo \in [Threads -> Block] /\ thr \in [Threads -> vthread_s] /\ Good(thr) /\ Counts(thr, todo)
  BY TypedQueues, GoodThr
<1>4. /\ c \in Threads /\ c # t /\ thr[c].parent = t /\ ~ thr[c].i_am_detached /\ thr[c].exists
      /\ thr[c].zombie /\ thr[c].children = {} /\ thr[c].detached_children = {}
      /\ thr[c] \in vthread_s /\ RowOk(thr[c]) /\ ReapOk(thr, c)
  BY <1>3, EndedChild
<1>5. PICK g : g = thr'
  OBVIOUS
<1>6. ReapsTo(thr, c, g)
  <2>1. ReapsTo(thr, c, vthread_reap(thr, c))
    BY <1>4, ReapRows
  <2>2. QED
    BY <1>5, <2>1
<1>7. g \in [Threads -> vthread_s]
  <2>1. \A x \in Threads : g[x] \in vthread_s
    BY <1>3, <1>4, <1>6, ReapType
  <2>2. QED
    BY <1>5, <2>1, ReapTable
<1>8. PICK n : n = Lost(thr[t], c, FALSE)
  OBVIOUS
<1>9. /\ g[c] = Reaped(thr[c]) /\ g[t] = n
      /\ \A x \in Threads : x # c /\ x # t => g[x] = thr[x]
  BY <1>4, <1>6, <1>8 DEF ReapsTo, Lost
<1>10. /\ SameLife(thr[t], n) /\ n.parent = thr[t].parent /\ n.i_am_detached = thr[t].i_am_detached
       /\ n.children = thr[t].children \ {c} /\ n.detached_children = thr[t].detached_children
       /\ n.i_am_joining = thr[t].i_am_joining /\ n.i_am_waiting = thr[t].i_am_waiting
       /\ n.is_scheduled = thr[t].is_scheduled
  <2>1. thr[t] \in vthread_s /\ FALSE \in BOOLEAN
    BY <1>3
  <2>2. QED
    BY ZenonT(60), <1>8, <2>1, LostFields
<1>11. OneGone(thr, g, c, {c}, {}, {})
  <2>1. GoneRow(thr[c], g[c])
    BY <1>4, <1>9, ReapedGone
  <2>2. c \notin thr[t].detached_children
    BY <1>2, <1>3, <1>4 DEF Good, Linked
  <2>3. KeptRow(thr[t], g[t], {c}, FALSE, t \in {})
    BY <1>2, <1>9, <1>10, <2>2 DEF KeptRow
  <2>4. QED
    BY <1>4, <1>9, <2>1, <2>3 DEF OneGone
<1>12. PICK b, j, d, m : b = todo'[t] /\ j = todo[t].join /\ d = todo[t].detach
                         /\ m = Cardinality(n.children)
  OBVIOUS
<1>13. j \in 1..MaxFork /\ d \in Nat /\ MaxFork \in Nat /\ todo[t] \in Block
  <2>1. todo[t] \in Block
    BY <1>3
  <2>2. QED
    BY <1>1, <1>12, <2>1, BlockFields, ThreadsAssumption
<1>14. /\ b \in Block /\ b.fork = 0 /\ b.join = j - 1 /\ b.detach = d
       /\ todo' \in [Threads -> Block] /\ \A x \in Threads : x # t => todo'[x] = todo[x]
  <2>1. j - 1 \in 0..MaxFork
    BY <1>13
  <2>2. b = [todo[t] EXCEPT !.join = j - 1]
    BY <1>1, <1>3, <1>12
  <2>3. b \in Block /\ b.fork = 0 /\ b.join = j - 1 /\ b.detach = d
    BY <1>1, <1>12, <1>13, <2>1, <2>2 DEF Block
  <2>4. QED
    BY <1>1, <1>3, <1>12, <2>3
<1>15. Counted(n, b)
  <2>1. thr[t].children \in SUBSET Threads
    BY <1>3, Fields
  <2>2. m \in Nat /\ Cardinality(thr[t].children) = m + 1
    BY <1>10, <1>12, <2>1, ChildLess
  <2>3. (m + 1) + 0 = j + d + 0
    BY <1>1, <1>2, <1>12, <2>2 DEF Counted
  <2>4. m + 0 = (j - 1) + d + 0
    BY <1>13, <2>2, <2>3
  <2>5. QED
    BY <1>2, <1>10, <1>12, <1>14, <2>4 DEF Counted
<1>16. Cut(thr, g, {c}, {}, {})
  BY <1>3, <1>4, <1>11, OneGoneCut
<1>17. Loses(thr, g, {c}, {}, {}, todo, todo', t)
  <2>1. Counted(g[t], todo'[t]) /\ ~ g[t].i_am_waiting
    BY <1>2, <1>9, <1>10, <1>12, <1>15
  <2>2. QED
    BY <1>2, <1>3, <1>4, <1>11, <1>14, <2>1, OneGoneLoses
<1>18. RunOk'
  <2>1. g[t].exists
    BY <1>2, <1>9, <1>10 DEF SameLife, Alive
  <2>2. QED
    BY <1>1, <1>2, <1>5, <2>1, ThreadsAssumption DEF RunOk
<1>19. CutStep({c}, {}, {}, t)
  <2>1. aborted' = FALSE
    BY <1>2, <1>4
  <2>2. c \notin Range(suspended)
    <3>1. PlaceOk(thr[c], running = c, c \in Range(suspended))
      BY <1>4 DEF IInv, Places
    <3>2. QED
      BY <1>4, <3>1 DEF PlaceOk
  <2>3. \A x \in Threads : todo'[x].detach = 0 \/ todo'[x].detach = todo[x].detach
    BY <1>12, <1>14
  <2>4. ({c} \cup {}) \cap Range(suspended) = {}
    BY <2>2
  <2>5. QED
    BY <1>1, <1>5, <1>7, <1>14, <1>16, <1>17, <1>18, <2>1, <2>3, <2>4 DEF CutStep
<1>20. QED
  BY <1>19, CutKeeps

LEMMA JoinStep ==
  ASSUME IInv, NEW t \in Threads, of_JOIN(t), program' = program
  PROVE  IInv'
<1>1. CASE \A c \in thr[t].children : ~ thr[c].i_have_ended
  BY <1>1, JoinWaits
<1>2. CASE \E c \in thr[t].children : thr[c].i_have_ended
  <2>1. PICK c \in thr[t].children :
          /\ thr[c].i_have_ended /\ thr' = vthread_reap(thr, c) /\ running' = running
          /\ aborted' = ~ (~ thr[t].i_am_joining /\ thr[t].children # {} /\ ReapOk(thr, c))
    BY <1>2 DEF of_JOIN, Check
  <2>2. QED
    BY <2>1, JoinsNow
<1>3. QED
  BY <1>1, <1>2

-----------------------------------------------------------------------------
(* The end of a thread. *)

LEMMA EndKeeps ==
  ASSUME IInv, NEW t \in Threads, At(t), NEW K, NEW Z, NEW W, NEW p, p = thr[t].parent,
         OneGone(thr, thr', t, K, Z, W), thr' \in [Threads -> vthread_s],
         \/ W = {} /\ active' = active
         \/ W = {p} /\ p \in Threads /\ active' = Push(active, p),
         p # None => /\ Counted(thr'[p], todo[p])
                     /\ thr'[p].i_am_waiting => thr'[p].detached_children # {}
                     /\ Z # {} => ~ thr'[p].i_am_joining,
         running' = None, aborted' = FALSE,
         UNCHANGED <<program, todo, later, event_list, suspended, rest, disabling>>
  PROVE  IInv'
<1>0. PICK g : g = thr'
  OBVIOUS
<1>1. running = t /\ disabling = None /\ t \notin Range(suspended) /\ Good(thr) /\ Counts(thr, todo)
  BY AtFacts, GoodThr
<1>2. p # None => Alive(thr, p)
  BY <1>1 DEF Good, Linked
<1>3. Cut(thr, g, K, Z, W)
  BY <1>0, <1>1, OneGoneCut
<1>4. Loses(thr, g, K, Z, W, todo, todo, p)
  BY <1>0, <1>1, <1>2, OneGoneLoses
<1>5. RunOk'
  BY <1>1, ThreadsAssumption DEF RunOk
<1>6. K \cup Z = {t}
  BY DEF OneGone
<1>7. CutStep(K, Z, W, p)
  BY <1>0, <1>1, <1>3, <1>4, <1>5, <1>6, TypedQueues DEF CutStep
<1>8. QED
  BY <1>7, CutKeeps

(* The thread at its %end, and its parent. *)
LEMMA EndFacts ==
  ASSUME IInv, NEW t \in Threads, InBody(t), NEW p, p = thr[t].parent
  PROVE  /\ At(t) /\ Alive(thr, t) /\ thr[t].exists /\ thr[t].children = {}
         /\ ~ thr[t].is_scheduled /\ ~ thr[t].waiting_for_event
         /\ thr \in [Threads -> vthread_s] /\ Good(thr) /\ t \notin thr[t].detached_children
         /\ \A c \in thr[t].detached_children : c \in Threads /\ thr[c].parent = t /\ thr[c].i_am_detached
         /\ p # None => /\ p \in Threads /\ p # t /\ p \notin thr[t].detached_children
                        /\ Alive(thr, p) /\ Counted(thr[p], todo[p])
                        /\ thr[p].i_am_joining \/ thr[p].i_am_waiting => ~ thr[p].is_scheduled
                        /\ ~ (thr[p].i_am_joining /\ thr[p].i_am_waiting)
                        /\ thr[p].i_am_waiting => thr[p].detached_children # {}
                        /\ thr[t].i_am_detached =>
                             t \in thr[p].detached_children /\ t \notin thr[p].children
                        /\ ~ thr[t].i_am_detached =>
                             t \in thr[p].children /\ t \notin thr[p].detached_children
         /\ thr[t].i_am_detached => p # None
<1>1. At(t) /\ thr[t].children = {} /\ thr \in [Threads -> vthread_s] /\ Good(thr)
  BY BodyFacts, GoodThr, TypedQueues
<1>2. Alive(thr, t) /\ thr[t].exists /\ ~ thr[t].is_scheduled /\ ~ thr[t].waiting_for_event
  BY <1>1, AtFacts
<1>3. Linked(thr) /\ Acyclic(thr) /\ RowOk(thr[t])
  BY <1>1 DEF Good, Rows
<1>4. \A c \in thr[t].detached_children : c \in Threads /\ thr[c].parent = t /\ thr[c].i_am_detached
  <2>1. thr[t].detached_children \subseteq Threads
    BY <1>1, Fields
  <2>2. QED
    BY <1>2, <1>3, <2>1 DEF Linked
<1>5. t \notin thr[t].detached_children
  BY <1>1, <1>3, <1>4, NoLoop
<1>6. thr[t].i_am_detached => p # None
  BY <1>2, <1>3 DEF RowOk, Alive
<1>7. ASSUME p # None
      PROVE  /\ p \in Threads /\ p # t /\ p \notin thr[t].detached_children
             /\ Alive(thr, p) /\ Counted(thr[p], todo[p])
             /\ thr[p].i_am_waiting => thr[p].detached_children # {}
             /\ thr[t].i_am_detached =>
                  t \in thr[p].detached_children /\ t \notin thr[p].children
             /\ ~ thr[t].i_am_detached =>
                  t \in thr[p].children /\ t \notin thr[p].detached_children
  <2>1. p \in Threads
    BY <1>1, <1>7, ParentIs
  <2>2. p # t /\ thr[p].parent # t /\ Alive(thr, p)
    BY <1>1, <1>3, <1>7, <2>1, NoLoop DEF Linked
  <2>3. Counted(thr[p], todo[p]) /\ (thr[p].i_am_waiting => thr[p].detached_children # {})
    BY <2>1, <2>2 DEF IInv, Counts
  <2>4. QED
    BY <1>3, <1>4, <2>1, <2>2, <2>3 DEF Linked
<1>8. ASSUME p # None
      PROVE  /\ thr[p].i_am_joining \/ thr[p].i_am_waiting => ~ thr[p].is_scheduled
             /\ ~ (thr[p].i_am_joining /\ thr[p].i_am_waiting)
  <2>1. PlaceOk(thr[p], running = p, p \in Range(suspended))
    BY <1>7, <1>8 DEF IInv, Places
  <2>2. QED
    BY <1>7, <1>8, <2>1 DEF PlaceOk, Alive
<1>9. QED
  BY <1>1, <1>2, <1>4, <1>5, <1>6, <1>7, <1>8

EndRows(f, t) ==
  /\ f[t] = [thr[t] EXCEPT !.i_have_ended = TRUE, !.zombie = TRUE, !.detached_children = {}]
  /\ \A x \in Threads : x # t =>
       f[x] = IF x \in thr[t].detached_children THEN Orphan(thr[x]) ELSE thr[x]

LEMMA EndedTable ==
  ASSUME IInv, NEW t \in Threads, InBody(t), NEW f, f = Ended(t)
  PROVE  EndRows(f, t) /\ f \in [Threads -> vthread_s]
<1>1. t \notin thr[t].detached_children /\ thr \in [Threads -> vthread_s]
  BY EndFacts
<1>2. f[t] = [thr[t] EXCEPT !.i_have_ended = TRUE, !.zombie = TRUE, !.detached_children = {}]
  BY <1>1 DEF Ended
<1>3. ASSUME NEW x \in Threads, x # t
      PROVE  f[x] = IF x \in thr[t].detached_children THEN Orphan(thr[x]) ELSE thr[x]
  <2>1. CASE x \in thr[t].detached_children
    BY <1>3, <2>1 DEF Ended, Orphan
  <2>2. CASE x \notin thr[t].detached_children
    BY <1>3, <2>2 DEF Ended
  <2>3. QED
    BY <2>1, <2>2
<1>4. f[t] \in vthread_s
  BY <1>1, <1>2 DEF vthread_s
<1>5. \A x \in Threads : f[x] \in vthread_s
  <2>1. ASSUME NEW x \in Threads PROVE Orphan(thr[x]) \in vthread_s
    <3>1. thr[x] \in vthread_s /\ None \in Threads \cup {None}
      BY <1>1
    <3>2. QED
      BY <3>1 DEF Orphan, vthread_s
  <2>2. QED
    BY <1>1, <1>3, <1>4, <2>1
<1>6. f \in [Threads -> vthread_s]
  <2> DEFINE row(x) ==
        CASE x = t -> [thr[t] EXCEPT !.i_have_ended = TRUE, !.zombie = TRUE,
                                     !.detached_children = {}]
          [] x \in thr[t].detached_children ->
               [thr[x] EXCEPT !.parent = None, !.i_am_detached = FALSE]
          [] OTHER -> thr[x]
  <2>1. f = [x \in Threads |-> row(x)]
    BY Zenon DEF Ended
  <2> HIDE DEF row
  <2>2. QED
    BY <1>5, <2>1
<1>7. QED
  BY <1>2, <1>3, <1>6 DEF EndRows

(* What is left of a thread that nothing refers to. *)
LEMMA ReapedNow ==
  ASSUME NEW r, NEW n \in vthread_s, ~ r.is_scheduled, ~ r.waiting_for_event,
         ~ n.is_scheduled, ~ n.waiting_for_event
  PROVE  GoneRow(r, Reaped(n))
  BY DEF GoneRow, Reaped

(* A root, or a thread that lost its parent, ends. *)
LEMMA EndAlone ==
  ASSUME IInv, NEW t \in Threads, of_END(t), program' = program,
         ~ thr[t].i_am_detached, thr[t].parent = None
  PROVE  IInv'
<1>0. InBody(t)
  BY DEF of_END
<1>1. PICK f : f = Ended(t)
  OBVIOUS
<1>2. /\ f[t] = [thr[t] EXCEPT !.i_have_ended = TRUE, !.zombie = TRUE, !.detached_children = {}]
      /\ \A x \in Threads : x # t =>
           f[x] = IF x \in thr[t].detached_children THEN Orphan(thr[x]) ELSE thr[x]
      /\ f \in [Threads -> vthread_s]
  <2>1. EndRows(f, t) /\ f \in [Threads -> vthread_s]
    BY <1>0, <1>1, EndedTable
  <2>2. QED
    BY <2>1 DEF EndRows
<1>3. /\ At(t) /\ Alive(thr, t) /\ thr[t].exists /\ thr[t].children = {}
      /\ ~ thr[t].is_scheduled /\ ~ thr[t].waiting_for_event /\ thr[t] \in vthread_s
      /\ \A c \in thr[t].detached_children : thr[c].parent = t /\ thr[c].i_am_detached
  BY <1>0, EndFacts
<1>4. /\ f[t].parent = None /\ f[t].children = {} /\ f[t].detached_children = {}
      /\ ~ f[t].is_scheduled /\ ~ f[t].waiting_for_event /\ f[t] \in vthread_s
  BY <1>2, <1>3 DEF vthread_s
<1>5. ReapOk(f, t)
  BY <1>4 DEF ReapOk
<1>6. ~ EndsJoin(t) /\ ~ EndsWaitFork(t) /\ Left(t) = f
  BY <1>1 DEF EndsJoin, EndsWaitFork, Left
<1>7. /\ thr' = vthread_reap(f, t) /\ active' = active /\ aborted' = FALSE
      /\ running' = None /\ UNCHANGED <<todo, later, event_list, suspended, rest, disabling>>
  BY <1>1, <1>3, <1>4, <1>5, <1>6 DEF of_END, Check
<1>8. PICK g : g = thr'
  OBVIOUS
<1>9. ReapsTo(f, t, g)
  <2>1. ReapsTo(f, t, vthread_reap(f, t))
    BY <1>4, ReapRows, ThreadsAssumption
  <2>2. QED
    BY <1>7, <1>8, <2>1
<1>10. g \in [Threads -> vthread_s]
  <2>1. \A x \in Threads : g[x] \in vthread_s
    BY <1>2, <1>9, ReapType
  <2>2. QED
    BY <1>7, <1>8, <2>1, ReapTable
<1>11. g[t] = Reaped(f[t]) /\ \A x \in Threads : x # t => g[x] = f[x]
  BY <1>4, <1>9, ThreadsAssumption DEF ReapsTo
<1>12. OneGone(thr, g, t, {t}, {}, {})
  <2>1. GoneRow(thr[t], g[t])
    BY <1>3, <1>4, <1>11, ReapedNow
  <2>2. \A x \in Threads : x # t /\ x # thr[t].parent =>
          g[x] = IF x \in thr[t].detached_children THEN Orphan(thr[x]) ELSE thr[x]
    BY <1>2, <1>11
  <2>3. QED
    BY <1>3, <2>1, <2>2 DEF OneGone
<1>13. QED
  BY <1>3, <1>7, <1>8, <1>10, <1>12, EndKeeps

(* The parent waits in %join. *)
LEMMA EndJoined ==
  ASSUME IInv, NEW t \in Threads, of_END(t), program' = program, NEW p \in Threads,
         p = thr[t].parent, ~ thr[t].i_am_detached, thr[p].i_am_joining
  PROVE  IInv'
<1>0. InBody(t) /\ p # None
  BY ThreadsAssumption DEF of_END
<1>1. PICK f : f = Ended(t)
  OBVIOUS
<1>2. /\ f[t] = [thr[t] EXCEPT !.i_have_ended = TRUE, !.zombie = TRUE, !.detached_children = {}]
      /\ \A x \in Threads : x # t =>
           f[x] = IF x \in thr[t].detached_children THEN Orphan(thr[x]) ELSE thr[x]
      /\ f \in [Threads -> vthread_s]
  <2>1. EndRows(f, t) /\ f \in [Threads -> vthread_s]
    BY <1>0, <1>1, EndedTable
  <2>2. QED
    BY <2>1 DEF EndRows
<1>3. /\ At(t) /\ Alive(thr, t) /\ thr[t].exists /\ thr[t].children = {}
      /\ ~ thr[t].is_scheduled /\ ~ thr[t].waiting_for_event /\ thr[t] \in vthread_s
      /\ thr \in [Threads -> vthread_s]
      /\ \A c \in thr[t].detached_children : thr[c].parent = t /\ thr[c].i_am_detached
  BY <1>0, EndFacts
<1>4. /\ p # t /\ p \notin thr[t].detached_children
      /\ Alive(thr, p) /\ Counted(thr[p], todo[p])
      /\ ~ thr[p].is_scheduled /\ ~ thr[p].i_am_waiting
      /\ t \in thr[p].children /\ t \notin thr[p].detached_children
  BY <1>0, EndFacts
<1>5. /\ f[t].parent = p /\ f[t].children = {} /\ f[t].detached_children = {}
      /\ ~ f[t].is_scheduled /\ ~ f[t].waiting_for_event /\ f[t] \in vthread_s
      /\ f[t].i_am_detached = FALSE /\ f[p] = thr[p]
  BY <1>2, <1>3, <1>4 DEF vthread_s
<1>6. ReapOk(f, t)
  BY <1>4, <1>5 DEF ReapOk
<1>7. EndsJoin(t)
  BY <1>0 DEF EndsJoin
<1>8. PICK h : h = Scheduled([f EXCEPT ![p].i_am_joining = FALSE], {p})
  OBVIOUS
<1>9. /\ thr' = vthread_reap(h, t) /\ active' = Push(active, p) /\ aborted' = FALSE
      /\ running' = None /\ UNCHANGED <<todo, later, event_list, suspended, rest, disabling>>
  BY <1>1, <1>3, <1>4, <1>6, <1>7, <1>8 DEF of_END, Check
<1>10. PICK r : r = [thr[p] EXCEPT !.i_am_joining = FALSE, !.is_scheduled = TRUE]
  OBVIOUS
<1>11. /\ r \in vthread_s /\ SameLife(thr[p], r) /\ r.parent = thr[p].parent
       /\ r.i_am_detached = thr[p].i_am_detached /\ r.children = thr[p].children
       /\ r.detached_children = thr[p].detached_children /\ ~ r.i_am_joining /\ r.is_scheduled
       /\ r.i_am_waiting = thr[p].i_am_waiting
  <2>1. thr[p] \in vthread_s
    BY <1>3
  <2>2. QED
    BY ZenonT(60), <1>10, <2>1 DEF vthread_s, SameLife
<1>12. h[p] = r /\ (\A x \in Threads : x # p => h[x] = f[x]) /\ h \in [Threads -> vthread_s]
  <2>1. PICK e : e = [f EXCEPT ![p].i_am_joining = FALSE]
    OBVIOUS
  <2>2. e[p] = [thr[p] EXCEPT !.i_am_joining = FALSE] /\ \A x \in Threads : x # p => e[x] = f[x]
    BY <1>2, <1>5, <2>1
  <2>3. /\ h = Scheduled(e, {p})
        /\ h = [x \in Threads |-> IF x \in {p} THEN [e[x] EXCEPT !.is_scheduled = TRUE] ELSE e[x]]
    BY <1>8, <2>1 DEF Scheduled
  <2>4. h[p] = [e[p] EXCEPT !.is_scheduled = TRUE] /\ \A x \in Threads : x # p => h[x] = e[x]
    BY <2>3
  <2>5. h[p] = r
    BY <1>10, <2>2, <2>4
  <2>6. \A x \in Threads : h[x] \in vthread_s
    BY <1>2, <1>11, <2>2, <2>4, <2>5
  <2>7. h = [x \in Threads |-> h[x]]
    BY <2>3
  <2>8. QED
    BY <2>2, <2>4, <2>5, <2>6, <2>7
<1>13. h[t] = f[t]
  BY <1>4, <1>12
<1>14. PICK g, n : g = thr' /\ n = Lost(r, t, FALSE)
  OBVIOUS
<1>15. ReapsTo(h, t, g)
  <2>1. ReapsTo(h, t, vthread_reap(h, t))
    BY <1>4, <1>5, <1>13, ReapRows
  <2>2. QED
    BY <1>9, <1>14, <2>1
<1>16. g \in [Threads -> vthread_s]
  <2>1. \A x \in Threads : g[x] \in vthread_s
    BY <1>12, <1>15, ReapType
  <2>2. QED
    BY <1>9, <1>14, <2>1, ReapTable
<1>17. /\ g[t] = Reaped(f[t]) /\ g[p] = n
       /\ \A x \in Threads : x # t /\ x # p => g[x] = f[x]
  <2>1. \A x \in Threads :
          g[x] = IF x = t THEN Reaped(f[t])
                 ELSE IF x \in {} THEN Orphan(h[x])
                 ELSE IF x = p THEN Lost(h[x], t, FALSE)
                 ELSE h[x]
    BY ZenonT(60), <1>5, <1>13, <1>15 DEF ReapsTo
  <2>2. QED
    BY <1>4, <1>12, <1>14, <2>1
<1>18. /\ SameLife(r, n) /\ n.parent = r.parent /\ n.i_am_detached = r.i_am_detached
       /\ n.children = r.children \ {t} /\ n.detached_children = r.detached_children
       /\ n.i_am_joining = r.i_am_joining /\ n.i_am_waiting = r.i_am_waiting
       /\ n.is_scheduled = r.is_scheduled
  <2>1. r \in vthread_s /\ FALSE \in BOOLEAN
    BY <1>11
  <2>2. QED
    BY ZenonT(60), <1>14, <2>1, LostFields
<1>19. KeptRow(thr[p], n, {t}, FALSE, TRUE)
  BY <1>4, <1>11, <1>18 DEF KeptRow, SameLife
<1>20. OneGone(thr, g, t, {t}, {}, {p})
  <2>1. GoneRow(thr[t], g[t])
    BY <1>3, <1>5, <1>17, ReapedNow
  <2>2. \A x \in Threads : x # t /\ x # thr[t].parent =>
          g[x] = IF x \in thr[t].detached_children THEN Orphan(thr[x]) ELSE thr[x]
    BY <1>2, <1>17
  <2>3. KeptRow(thr[p], g[p], {t}, FALSE, p \in {p})
    BY <1>17, <1>19
  <2>4. QED
    BY <1>3, <1>4, <2>1, <2>2, <2>3 DEF OneGone
<1>21. Counted(g[p], todo[p]) /\ ~ g[p].i_am_waiting
  <2>1. n.children = thr[p].children \ {t} /\ ~ n.i_am_joining /\ ~ n.i_am_waiting
    BY <1>4, <1>11, <1>18
  <2>2. PICK b, j, d, m : b = todo[p].fork /\ j = todo[p].join /\ d = todo[p].detach
                          /\ m = Cardinality(thr[p].children \ {t})
    OBVIOUS
  <2>3. thr[p].children \in SUBSET Threads /\ todo[p] \in Block
    BY <1>3, Fields, TypedQueues
  <2>4. m \in Nat /\ Cardinality(thr[p].children) = m + 1
    BY <1>4, <2>2, <2>3, ChildLess
  <2>5. b \in Nat /\ j \in Nat /\ d \in Nat
    BY <2>2, <2>3, BlockFields
  <2>6. (m + 1) + b = j + d + 1
    BY <1>4, <2>2, <2>4 DEF Counted
  <2>7. m + b = j + d + 0
    BY <2>4, <2>5, <2>6
  <2>8. QED
    BY <1>17, <2>1, <2>2, <2>7 DEF Counted
<1>22. QED
  BY <1>3, <1>9, <1>14, <1>16, <1>20, <1>21, EndKeeps

(* The parent has not come to its %join yet. *)
LEMMA EndWaits ==
  ASSUME IInv, NEW t \in Threads, of_END(t), program' = program, NEW p \in Threads,
         p = thr[t].parent, ~ thr[t].i_am_detached, ~ thr[p].i_am_joining
  PROVE  IInv'
<1>0. InBody(t) /\ p # None
  BY ThreadsAssumption DEF of_END
<1>1. PICK f : f = Ended(t)
  OBVIOUS
<1>2. /\ f[t] = [thr[t] EXCEPT !.i_have_ended = TRUE, !.zombie = TRUE, !.detached_children = {}]
      /\ \A x \in Threads : x # t =>
           f[x] = IF x \in thr[t].detached_children THEN Orphan(thr[x]) ELSE thr[x]
      /\ f \in [Threads -> vthread_s]
  <2>1. EndRows(f, t) /\ f \in [Threads -> vthread_s]
    BY <1>0, <1>1, EndedTable
  <2>2. QED
    BY <2>1 DEF EndRows
<1>3. /\ At(t) /\ Alive(thr, t) /\ thr[t].exists /\ thr[t].children = {} /\ Good(thr)
      /\ ~ thr[t].is_scheduled /\ ~ thr[t].waiting_for_event /\ thr[t] \in vthread_s
      /\ \A c \in thr[t].detached_children : thr[c].parent = t /\ thr[c].i_am_detached
  BY <1>0, EndFacts
<1>4. /\ p # t /\ p \notin thr[t].detached_children
      /\ Alive(thr, p) /\ Counted(thr[p], todo[p])
      /\ thr[p].i_am_waiting => thr[p].detached_children # {}
  BY <1>0, EndFacts
<1>5. EndedRow(thr[t], f[t]) /\ f[t].parent = p
  <2>1. RowOk(thr[t])
    BY <1>3 DEF Good, Rows
  <2>2. QED
    BY <1>0, <1>2, <1>3, <2>1 DEF EndedRow, RowOk, vthread_s
<1>6. ~ EndsJoin(t) /\ ~ EndsWaitFork(t) /\ Left(t) = f
  BY <1>0, <1>1 DEF EndsJoin, EndsWaitFork, Left
<1>7. /\ thr' = f /\ active' = active /\ aborted' = FALSE
      /\ running' = None /\ UNCHANGED <<todo, later, event_list, suspended, rest, disabling>>
  BY <1>0, <1>1, <1>3, <1>5, <1>6 DEF of_END, Check
<1>8. f[p] = thr[p]
  BY <1>2, <1>4
<1>9. OneGone(thr, f, t, {}, {t}, {})
  <2>1. thr[p].children \cap {} = {} /\ thr[p].detached_children \cap {} = {}
    OBVIOUS
  <2>2. KeptRow(thr[p], thr[p], {}, FALSE, p \in {})
    BY <2>1, KeptSame
  <2>3. \A x \in Threads : x # t /\ x # thr[t].parent =>
          f[x] = IF x \in thr[t].detached_children THEN Orphan(thr[x]) ELSE thr[x]
    BY <1>2
  <2>4. QED
    BY <1>3, <1>5, <1>8, <2>2, <2>3 DEF OneGone
<1>10. QED
  BY <1>2, <1>3, <1>4, <1>7, <1>8, <1>9, EndKeeps

(* A detached thread ends. *)
LEMMA EndDetached ==
  ASSUME IInv, NEW t \in Threads, of_END(t), program' = program, thr[t].i_am_detached
  PROVE  IInv'
<1>0. InBody(t)
  BY DEF of_END
<1>a. PICK p : p = thr[t].parent
  OBVIOUS
<1>b. p # None /\ p \in Threads
  BY <1>0, <1>a, EndFacts
<1>1. PICK f : f = Ended(t)
  OBVIOUS
<1>2. /\ f[t] = [thr[t] EXCEPT !.i_have_ended = TRUE, !.zombie = TRUE, !.detached_children = {}]
      /\ \A x \in Threads : x # t =>
           f[x] = IF x \in thr[t].detached_children THEN Orphan(thr[x]) ELSE thr[x]
      /\ f \in [Threads -> vthread_s]
  <2>1. EndRows(f, t) /\ f \in [Threads -> vthread_s]
    BY <1>0, <1>1, EndedTable
  <2>2. QED
    BY <2>1 DEF EndRows
<1>3. /\ At(t) /\ Alive(thr, t) /\ thr[t].exists /\ thr[t].children = {}
      /\ ~ thr[t].is_scheduled /\ ~ thr[t].waiting_for_event /\ thr[t] \in vthread_s
      /\ thr \in [Threads -> vthread_s]
      /\ \A c \in thr[t].detached_children : thr[c].parent = t /\ thr[c].i_am_detached
  BY <1>0, EndFacts
<1>4. /\ p # t /\ p \notin thr[t].detached_children
      /\ Alive(thr, p) /\ Counted(thr[p], todo[p])
      /\ thr[p].i_am_waiting => ~ thr[p].is_scheduled /\ ~ thr[p].i_am_joining
      /\ t \in thr[p].detached_children /\ t \notin thr[p].children
  BY <1>0, <1>a, <1>b, EndFacts
<1>5. f[p] = thr[p] /\ f[p] \in vthread_s /\ f[t] \in vthread_s
  BY <1>2, <1>4, <1>b
<1>6. PICK last : last = EndsWaitFork(t)
  OBVIOUS
<1>7. /\ last \in BOOLEAN
      /\ last <=> thr[p].i_am_waiting /\ thr[p].detached_children = {t}
  BY <1>6, <1>a DEF EndsWaitFork
<1>8. PICK h : h = Left(t)
  OBVIOUS
<1>9. PICK r, n : /\ r = [f[t] EXCEPT !.i_am_detached = FALSE, !.parent = None]
                  /\ n = [f[p] EXCEPT !.detached_children = @ \ {t},
                                      !.i_am_waiting = @ /\ ~ last, !.is_scheduled = @ \/ last]
  OBVIOUS
<1>10. /\ h = [f EXCEPT ![t] = r, ![p] = n]
       /\ h[t] = r /\ h[p] = n /\ \A x \in Threads : x # t /\ x # p => h[x] = f[x]
  <2>1. h = [f EXCEPT ![t].i_am_detached = FALSE, ![t].parent = None,
                      ![p].detached_children = @ \ {t},
                      ![p].i_am_waiting = @ /\ ~ last,
                      ![p].is_scheduled = @ \/ last]
    BY <1>1, <1>6, <1>8, <1>a DEF Left
  <2>2. QED
    BY <1>2, <1>4, <1>9, <1>b, <2>1
<1>11. /\ r \in vthread_s /\ r.parent = None /\ r.children = {} /\ r.detached_children = {}
       /\ ~ r.is_scheduled /\ ~ r.waiting_for_event
  <2>1. f[t].children = {} /\ f[t].detached_children = {}
        /\ ~ f[t].is_scheduled /\ ~ f[t].waiting_for_event
    BY <1>2, <1>3 DEF vthread_s
  <2>2. None \in Threads \cup {None}
    OBVIOUS
  <2>3. QED
    BY <1>5, <1>9, <2>1, <2>2 DEF vthread_s
<1>12. /\ n \in vthread_s /\ SameLife(thr[p], n) /\ n.parent = thr[p].parent
       /\ n.i_am_detached = thr[p].i_am_detached /\ n.children = thr[p].children
       /\ n.detached_children = thr[p].detached_children \ {t}
       /\ n.i_am_joining = thr[p].i_am_joining
       /\ n.i_am_waiting = (thr[p].i_am_waiting /\ ~ last)
       /\ n.is_scheduled = (thr[p].is_scheduled \/ last)
  BY ZenonT(60), <1>5, <1>7, <1>9 DEF vthread_s, SameLife
<1>13. h \in [Threads -> vthread_s]
  BY <1>2, <1>10, <1>11, <1>12
<1>14. ReapOk(h, t)
  BY <1>10, <1>11 DEF ReapOk
<1>15. ~ EndsJoin(t)
  BY DEF EndsJoin
<1>16. /\ thr' = vthread_reap(h, t) /\ active' = (IF last THEN Push(active, p) ELSE active)
       /\ running' = None /\ UNCHANGED <<todo, later, event_list, suspended, rest, disabling>>
  BY <1>6, <1>8, <1>10, <1>11, <1>15, <1>a DEF of_END
<1>17. aborted' = FALSE
  <2>1. aborted' = ~ (/\ /\ thr[t].children = {} /\ ~ thr[t].waiting_for_event
                         /\ \A c \in thr[t].detached_children : thr[c].parent = t /\ thr[c].i_am_detached
                      /\ thr[t].i_am_detached =>
                           /\ p # None /\ t \in thr[p].detached_children
                           /\ last => ~ thr[p].is_scheduled
                      /\ h[t].parent = None => ReapOk(h, t))
    BY <1>6, <1>8, <1>15, <1>a DEF of_END, Check
  <2>2. QED
    BY <1>3, <1>4, <1>7, <1>14, <1>b, <2>1
<1>18. PICK g : g = thr'
  OBVIOUS
<1>19. ReapsTo(h, t, g)
  <2>1. ReapsTo(h, t, vthread_reap(h, t))
    BY <1>10, <1>11, ReapRows, ThreadsAssumption
  <2>2. QED
    BY <1>16, <1>18, <2>1
<1>20. g \in [Threads -> vthread_s]
  <2>1. \A x \in Threads : g[x] \in vthread_s
    BY <1>13, <1>19, ReapType
  <2>2. QED
    BY <1>16, <1>18, <2>1, ReapTable
<1>21. g[t] = Reaped(r) /\ g[p] = n /\ \A x \in Threads : x # t /\ x # p => g[x] = f[x]
  <2>1. \A x \in Threads :
          g[x] = IF x = t THEN Reaped(r)
                 ELSE IF x \in {} THEN Orphan(h[x])
                 ELSE IF x = None THEN Lost(h[x], t, h[t].i_am_detached)
                 ELSE h[x]
    BY ZenonT(60), <1>10, <1>11, <1>19 DEF ReapsTo
  <2>2. QED
    BY <1>4, <1>10, <1>b, <2>1, ThreadsAssumption
<1>22. PICK W : W = IF last THEN {p} ELSE {}
  OBVIOUS
<1>23. KeptRow(thr[p], n, {t}, FALSE, p \in W)
  <2>1. thr[p].i_am_waiting \in BOOLEAN /\ thr[p].is_scheduled \in BOOLEAN
    BY <1>5, Fields
  <2>2. CASE last
    <3>1. p \in W /\ n.is_scheduled /\ ~ n.i_am_waiting /\ ~ n.i_am_joining
      BY <1>4, <1>7, <1>12, <1>22, <2>2
    <3>2. QED
      BY <1>4, <1>12, <3>1 DEF KeptRow
  <2>3. CASE ~ last
    <3>1. /\ p \notin W /\ n.is_scheduled = thr[p].is_scheduled
          /\ n.i_am_waiting = thr[p].i_am_waiting
      BY <1>12, <1>22, <2>1, <2>3
    <3>2. QED
      BY <1>4, <1>12, <3>1 DEF KeptRow
  <2>4. QED
    BY <2>2, <2>3
<1>24. OneGone(thr, g, t, {t}, {}, W)
  <2>1. GoneRow(thr[t], g[t])
    BY <1>3, <1>11, <1>21, ReapedNow
  <2>2. \A x \in Threads : x # t /\ x # thr[t].parent =>
          g[x] = IF x \in thr[t].detached_children THEN Orphan(thr[x]) ELSE thr[x]
    BY <1>2, <1>21, <1>a
  <2>3. KeptRow(thr[p], g[p], {t}, FALSE, p \in W)
    BY <1>21, <1>23
  <2>4. \A x \in W : x = p /\ x \in Threads /\ Alive(thr, x) /\ (thr[x].i_am_joining \/ thr[x].i_am_waiting)
    BY <1>4, <1>7, <1>22, <1>b
  <2>5. QED
    BY <1>3, <1>a, <2>1, <2>2, <2>3, <2>4 DEF OneGone
<1>25. Counted(g[p], todo[p]) /\ (g[p].i_am_waiting => g[p].detached_children # {})
  <2>1. Counted(n, todo[p])
    BY <1>4, <1>12 DEF Counted
  <2>2. n.i_am_waiting => n.detached_children # {}
    BY <1>4, <1>7, <1>12
  <2>3. QED
    BY <1>21, <2>1, <2>2
<1>26. \/ W = {} /\ active' = active
       \/ W = {p} /\ p \in Threads /\ active' = Push(active, p)
  BY <1>16, <1>22, <1>b
<1>27. QED
  BY <1>3, <1>16, <1>17, <1>18, <1>20, <1>24, <1>25, <1>26, <1>a, EndKeeps

LEMMA EndStep ==
  ASSUME IInv, NEW t \in Threads, of_END(t), program' = program
  PROVE  IInv'
<1>1. thr[t].parent \in Threads \cup {None}
  BY TypedQueues, ParentIs
<1>2. CASE thr[t].i_am_detached
  BY <1>2, EndDetached
<1>3. CASE ~ thr[t].i_am_detached /\ thr[t].parent = None
  BY <1>3, EndAlone
<1>4. CASE ~ thr[t].i_am_detached /\ thr[t].parent \in Threads
  BY <1>4, EndJoined, EndWaits
<1>5. QED
  BY <1>1, <1>2, <1>3, <1>4

-----------------------------------------------------------------------------
(* A thread is forked. *)
NewThread(t, s) == [vthread_new(t, s) EXCEPT !.is_scheduled = TRUE]

Forked(f, g, t, c, s) ==
  /\ g \in [Threads -> vthread_s]
  /\ g[c] = NewThread(t, s)
  /\ g[t] = [f[t] EXCEPT !.children = @ \cup {c}]
  /\ \A x \in Threads : x # t /\ x # c => g[x] = f[x]

LEMMA NewFields ==
  ASSUME NEW t \in Threads, NEW s \in Scopes, NEW n,
         n = NewThread(t, s)
  PROVE  /\ n \in vthread_s /\ n.exists /\ ~ n.freed /\ ~ n.zombie /\ n.in_scope /\ n.parent = t
         /\ n.children = {} /\ n.detached_children = {} /\ ~ n.i_am_joining /\ ~ n.i_am_detached
         /\ ~ n.i_am_waiting /\ ~ n.i_have_ended /\ ~ n.waiting_for_event /\ n.is_scheduled
  BY DEF NewThread, vthread_new, vthread_s

(* The rows of the tables, field by field. *)
ForkedRows(f, g, t, c) ==
  /\ c # t /\ t # None /\ f[c].parent = None
  /\ g[c].exists /\ ~ g[c].freed /\ ~ g[c].zombie /\ g[c].in_scope /\ g[c].parent = t
  /\ g[c].children = {} /\ g[c].detached_children = {} /\ ~ g[c].i_am_joining
  /\ ~ g[c].i_am_detached /\ ~ g[c].i_am_waiting /\ ~ g[c].i_have_ended
  /\ ~ g[c].waiting_for_event /\ g[c].is_scheduled
  /\ g[t].children = f[t].children \cup {c} /\ SameLife(f[t], g[t])
  /\ g[t].parent = f[t].parent /\ g[t].detached_children = f[t].detached_children
  /\ g[t].i_am_joining = f[t].i_am_joining /\ g[t].i_am_detached = f[t].i_am_detached
  /\ g[t].i_am_waiting = f[t].i_am_waiting /\ g[t].is_scheduled = f[t].is_scheduled
  /\ \A x \in Threads : x # t /\ x # c => g[x] = f[x]
  /\ \A x \in Threads : f[x].parent # c /\ c \notin f[x].children
                        /\ (Alive(f, x) => c \notin f[x].detached_children)

LEMMA ForkFields ==
  ASSUME NEW f, Good(f), NEW g, NEW t \in Threads, NEW c \in Threads, NEW s \in Scopes,
         Forked(f, g, t, c, s), Alive(f, t), ~ f[c].exists
  PROVE  ForkedRows(f, g, t, c)
<1>1. /\ f \in [Threads -> vthread_s] /\ Linked(f) /\ RowOk(f[c])
  BY DEF Good, Rows
<1>2. c # t /\ t # None /\ f[c].parent = None /\ ~ Alive(f, c)
  BY <1>1, ThreadsAssumption DEF Alive, RowOk
<1>3. g[c] = NewThread(t, s)
  BY DEF Forked
<1>4. /\ g[c].exists /\ ~ g[c].freed /\ ~ g[c].zombie /\ g[c].in_scope /\ g[c].parent = t
      /\ g[c].children = {} /\ g[c].detached_children = {} /\ ~ g[c].i_am_joining
      /\ ~ g[c].i_am_detached /\ ~ g[c].i_am_waiting /\ ~ g[c].i_have_ended
      /\ ~ g[c].waiting_for_event /\ g[c].is_scheduled
  BY <1>3, NewFields
<1>5. f[t] \in vthread_s /\ g[t] = [f[t] EXCEPT !.children = @ \cup {c}]
  BY <1>1 DEF Forked
<1>6. /\ g[t].children = f[t].children \cup {c} /\ SameLife(f[t], g[t])
      /\ g[t].parent = f[t].parent /\ g[t].detached_children = f[t].detached_children
      /\ g[t].i_am_joining = f[t].i_am_joining /\ g[t].i_am_detached = f[t].i_am_detached
      /\ g[t].i_am_waiting = f[t].i_am_waiting /\ g[t].is_scheduled = f[t].is_scheduled
  BY <1>5 DEF SameLife, vthread_s
<1>7. \A x \in Threads : f[x].parent # c /\ c \notin f[x].children
                         /\ (Alive(f, x) => c \notin f[x].detached_children)
  BY <1>1, <1>2, NoPointers, NoOffspring
<1>8. \A x \in Threads : x # t /\ x # c => g[x] = f[x]
  BY DEF Forked
<1>9. QED
  BY <1>2, <1>4, <1>6, <1>7, <1>8 DEF ForkedRows

LEMMA ForkGood ==
  ASSUME NEW f, Good(f), NEW g, NEW t \in Threads, NEW c \in Threads, NEW s \in Scopes,
         Forked(f, g, t, c, s), Alive(f, t), ~ f[c].exists
  PROVE  Good(g)
<1>1. /\ f \in [Threads -> vthread_s] /\ Rows(f) /\ Linked(f) /\ Acyclic(f)
      /\ g \in [Threads -> vthread_s]
  BY DEF Good, Forked
<1>2. /\ c # t /\ t # None /\ f[c].parent = None
      /\ g[c].exists /\ ~ g[c].freed /\ ~ g[c].zombie /\ g[c].in_scope /\ g[c].parent = t
      /\ g[c].children = {} /\ g[c].detached_children = {}
      /\ ~ g[c].i_am_detached /\ ~ g[c].i_have_ended
      /\ g[t].children = f[t].children \cup {c} /\ SameLife(f[t], g[t])
      /\ g[t].parent = f[t].parent /\ g[t].detached_children = f[t].detached_children
      /\ g[t].i_am_detached = f[t].i_am_detached
      /\ \A x \in Threads : x # t /\ x # c => g[x] = f[x]
      /\ \A x \in Threads : f[x].parent # c /\ c \notin f[x].children
                            /\ (Alive(f, x) => c \notin f[x].detached_children)
  <2>1. ForkedRows(f, g, t, c)
    BY ForkFields
  <2>2. QED
    BY <2>1 DEF ForkedRows
<1>3. \A x \in Threads : x # c =>
        /\ g[x].parent = f[x].parent /\ g[x].i_am_detached = f[x].i_am_detached
        /\ g[x].detached_children = f[x].detached_children
        /\ Alive(g, x) <=> Alive(f, x)
  BY <1>2 DEF SameLife, Alive
<1>4. Rows(g)
  <2>1. RowOk(g[c])
    BY <1>2 DEF RowOk
  <2>2. RowOk(g[t])
    <3>1. RowOk(f[t])
      BY <1>1 DEF Rows
    <3>2. QED
      BY <1>2, <3>1 DEF RowOk, SameLife, Alive
  <2>3. QED
    BY <1>1, <1>2, <2>1, <2>2 DEF Rows
<1>5. Alive(g, c) /\ Alive(g, t)
  BY <1>2, <1>3 DEF Alive
<1>6. ASSUME NEW p \in Threads, NEW x \in Threads
      PROVE  x \in g[p].children <=> (g[x].parent = p /\ ~ g[x].i_am_detached)
  <2>1. CASE x = c
    <3>1. g[x].parent = t /\ ~ g[x].i_am_detached
      BY <1>2, <2>1
    <3>2. x \in g[p].children <=> p = t
      BY <1>2, <2>1
    <3>3. QED
      BY <3>1, <3>2
  <2>2. CASE x # c
    <3>1. x \in f[p].children <=> (f[x].parent = p /\ ~ f[x].i_am_detached)
      BY <1>1 DEF Linked
    <3>2. x \in g[p].children <=> p # c /\ x \in f[p].children
      BY <1>2, <2>2
    <3>3. QED
      BY <1>2, <1>3, <2>2, <3>1, <3>2
  <2>3. QED
    BY <2>1, <2>2
<1>7. ASSUME NEW x \in Threads, g[x].parent # None PROVE Alive(g, g[x].parent)
  <2>1. CASE x = c
    BY <1>2, <1>5, <2>1
  <2>2. CASE x # c
    <3>1. f[x].parent # None /\ g[x].parent = f[x].parent
      BY <1>3, <1>7, <2>2
    <3>2. Alive(f, f[x].parent) /\ f[x].parent # c /\ f[x].parent \in Threads
      BY <1>1, <1>2, <3>1, ParentIs DEF Linked
    <3>3. QED
      BY <1>3, <3>1, <3>2
  <2>3. QED
    BY <2>1, <2>2
<1>8. ASSUME NEW p \in Threads, NEW x \in Threads, g[x].parent = p, g[x].i_am_detached
      PROVE  x \in g[p].detached_children
  <2>1. x # c /\ f[x].parent = p /\ f[x].i_am_detached
    BY <1>2, <1>3, <1>8
  <2>2. x \in f[p].detached_children /\ p # c
    BY <1>1, <1>2, <2>1 DEF Linked
  <2>3. QED
    BY <1>3, <2>2
<1>9. ASSUME NEW p \in Threads, NEW x \in Threads, Alive(g, p), x \in g[p].detached_children
      PROVE  g[x].parent = p /\ g[x].i_am_detached
  <2>1. p # c
    BY <1>2, <1>9
  <2>2. Alive(f, p) /\ x \in f[p].detached_children
    BY <1>3, <1>9, <2>1
  <2>3. x # c /\ f[x].parent = p /\ f[x].i_am_detached
    BY <1>1, <1>2, <2>2 DEF Linked
  <2>4. QED
    BY <1>3, <2>3
<1>10. Linked(g)
  BY <1>6, <1>7, <1>8, <1>9 DEF Linked
<1>11. Acyclic(g)
  <2>1. PICK rank \in [Threads -> Nat] : Below(rank, f)
    BY <1>1 DEF Acyclic
  <2>2. PICK new : new = [x \in Threads |-> IF x = c THEN 0 ELSE rank[x] + 1]
    OBVIOUS
  <2>3. new \in [Threads -> Nat]
    BY <2>1, <2>2
  <2>4. ASSUME NEW x \in Threads, g[x].parent # None PROVE new[x] < new[g[x].parent]
    <3>1. CASE x = c
      <4>1. new[c] = 0 /\ new[t] = rank[t] + 1 /\ rank[t] \in Nat
        BY <1>2, <2>1, <2>2
      <4>2. new[c] < new[t]
        BY <4>1
      <4>3. QED
        BY <1>2, <3>1, <4>2
    <3>2. CASE x # c
      <4>1. PICK p : p = f[x].parent
        OBVIOUS
      <4>2. g[x].parent = p /\ p # None /\ p \in Threads /\ p # c
        BY <1>1, <1>2, <1>3, <2>4, <3>2, <4>1, ParentIs
      <4>3. rank[x] < rank[p] /\ rank[x] \in Nat /\ rank[p] \in Nat
        BY <2>1, <4>1, <4>2 DEF Below
      <4>4. new[x] = rank[x] + 1 /\ new[p] = rank[p] + 1
        BY <2>2, <3>2, <4>2
      <4>5. new[x] < new[p]
        BY <4>3, <4>4
      <4>6. QED
        BY <4>2, <4>5
    <3>3. QED
      BY <3>1, <3>2
  <2>5. QED
    BY <2>3, <2>4 DEF Acyclic, Below
<1>12. QED
  BY <1>1, <1>4, <1>10, <1>11 DEF Good

LEMMA ForkCounts ==
  ASSUME NEW f, Good(f), NEW g, NEW t \in Threads, NEW c \in Threads, NEW s \in Scopes,
         Forked(f, g, t, c, s), Alive(f, t), ~ f[c].exists, ~ f[c].freed, ~ f[t].i_am_joining,
         NEW td \in [Threads -> Block], NEW td2, Counts(f, td),
         td[t].fork > 0, td2[t].fork = td[t].fork - 1, td2[t].join = td[t].join,
         td2[t].detach = td[t].detach, \A x \in Threads : x # t => td2[x] = td[x]
  PROVE  Counts(g, td2)
<1>1. f \in [Threads -> vthread_s]
  BY DEF Good
<1>2. /\ c # t /\ g[c].exists
      /\ g[c].children = {} /\ ~ g[c].i_am_joining /\ ~ g[c].i_am_waiting /\ ~ g[c].i_have_ended
      /\ g[t].children = f[t].children \cup {c} /\ SameLife(f[t], g[t])
      /\ g[t].detached_children = f[t].detached_children
      /\ g[t].i_am_joining = f[t].i_am_joining /\ g[t].i_am_waiting = f[t].i_am_waiting
      /\ \A x \in Threads : x # t /\ x # c => g[x] = f[x]
      /\ \A x \in Threads : c \notin f[x].children
  BY SMTT(30), ForkFields DEF ForkedRows
<1>3. \A x \in Threads : x # c => g[x].i_have_ended = f[x].i_have_ended
  BY <1>2 DEF SameLife
<1>4. \A x \in Threads : \A y \in f[x].children : y \in Threads /\ y # c
  BY <1>1, <1>2, Fields
<1>5. Counted(g[t], td2[t])
  <2>1. PICK k, j, d, m : k = td[t].fork /\ j = td[t].join /\ d = td[t].detach
                          /\ m = Cardinality(f[t].children)
    OBVIOUS
  <2>2. k \in Nat /\ j \in Nat /\ d \in Nat
    BY <2>1, BlockFields
  <2>3. m \in Nat /\ Cardinality(g[t].children) = m + 1
    <3>1. f[t].children \in SUBSET Threads /\ g[t].children \in SUBSET Threads
      BY <1>1, <1>2, Fields
    <3>2. Cardinality(g[t].children) = Cardinality(g[t].children \ {c}) + 1
      BY <1>2, <3>1, ChildLess
    <3>3. g[t].children \ {c} = f[t].children
      BY <1>2
    <3>4. QED
      BY <2>1, <3>1, <3>2, <3>3, FiniteThreads
  <2>4. m + k = j + d + 0
    BY <2>1 DEF Counts, Counted
  <2>5. (m + 1) + (k - 1) = j + d + 0
    BY <2>2, <2>3, <2>4
  <2>6. QED
    BY <1>2, <2>1, <2>3, <2>5 DEF Counted
<1>6. Counted(g[c], td2[c])
  <2>1. td[c].fork = 0 /\ td[c].join = 0 /\ td[c].detach = 0 /\ td2[c] = td[c]
    BY <1>2 DEF Counts
  <2>2. Cardinality(g[c].children) = 0
    BY <1>2, FS_EmptySet
  <2>3. QED
    BY <1>2, <2>1, <2>2 DEF Counted
<1>7. ASSUME NEW x \in Threads, x # t, x # c, Alive(g, x)
      PROVE  /\ Counted(g[x], td2[x])
             /\ g[x].i_am_joining => \A y \in g[x].children : ~ g[y].i_have_ended
             /\ g[x].i_am_waiting => g[x].detached_children # {}
  <2>1. g[x] = f[x] /\ Alive(f, x) /\ td2[x] = td[x]
    BY <1>2, <1>7 DEF Alive
  <2>2. QED
    BY <1>3, <1>4, <2>1 DEF Counts
<1>8. g[t].i_am_waiting => g[t].detached_children # {}
  BY <1>2 DEF Counts
<1>9. ASSUME NEW x \in Threads, ~ g[x].exists, ~ g[x].freed
      PROVE  td2[x].fork = 0 /\ td2[x].join = 0 /\ td2[x].detach = 0
  <2>1. x # t /\ x # c
    BY <1>2, <1>9 DEF SameLife, Alive
  <2>2. QED
    BY <1>2, <1>9, <2>1 DEF Counts
<1>10. QED
  BY <1>2, <1>5, <1>6, <1>7, <1>8, <1>9 DEF Counts

LEMMA ForkStep ==
  ASSUME IInv, NEW t \in Threads, NEW c \in Threads, of_FORK(t, c), program' = program
  PROVE  IInv'
<1>1. /\ At(t) /\ todo[t].fork > 0 /\ ~ thr[c].exists /\ ~ thr[c].freed
      /\ todo' = [todo EXCEPT ![t].fork = @ - 1] /\ active' = Push(active, c)
      /\ UNCHANGED <<later, event_list, suspended, running, rest, disabling, aborted>>
  BY DEF of_FORK, Unused
<1>2. /\ running = t /\ disabling = None /\ Alive(thr, t) /\ thr[t].exists
      /\ ~ thr[t].i_am_joining /\ t # None
  BY <1>1, AtFacts, ThreadsAssumption
<1>3. /\ todo \in [Threads -> Block] /\ thr \in [Threads -> vthread_s] /\ Good(thr)
      /\ Counts(thr, todo) /\ active \in Seq(Seq(Threads) \ {<< >>})
  BY TypedQueues, GoodThr
<1>4. PICK s, g : s = todo[t].scope /\ g = thr'
  OBVIOUS
<1>5. todo[t] \in Block /\ s \in Scopes /\ c # t
  BY <1>1, <1>2, <1>3, <1>4, BlockFields
<1>6. Forked(thr, g, t, c, s)
  <2>1. PICK e : e = [thr EXCEPT ![t].children = @ \cup {c}, ![c] = vthread_new(t, s)]
    OBVIOUS
  <2>2. /\ e[c] = vthread_new(t, s) /\ e[t] = [thr[t] EXCEPT !.children = @ \cup {c}]
        /\ \A x \in Threads : x # t /\ x # c => e[x] = thr[x]
    BY <1>3, <1>5, <2>1
  <2>3. g = Scheduled(e, {c})
    BY <1>4, <2>1 DEF of_FORK
  <2>4. g = [x \in Threads |-> IF x \in {c} THEN [e[x] EXCEPT !.is_scheduled = TRUE] ELSE e[x]]
    BY <2>3 DEF Scheduled
  <2>5. g[c] = [e[c] EXCEPT !.is_scheduled = TRUE] /\ \A x \in Threads : x # c => g[x] = e[x]
    BY <2>4
  <2>6. g[c] = NewThread(t, s)
    BY <2>2, <2>5 DEF NewThread
  <2>7. NewThread(t, s) \in vthread_s
    BY <1>5, NewFields
  <2>8. g[t] \in vthread_s /\ g[t] = [thr[t] EXCEPT !.children = @ \cup {c}]
    <3>1. thr[t] \in vthread_s
      BY <1>3
    <3>2. [thr[t] EXCEPT !.children = @ \cup {c}] \in vthread_s
      BY <3>1 DEF vthread_s
    <3>3. QED
      BY <1>5, <2>2, <2>5, <3>2
  <2>9. \A x \in Threads : g[x] \in vthread_s
    BY <1>3, <2>2, <2>5, <2>6, <2>7, <2>8
  <2>10. g = [x \in Threads |-> g[x]]
    BY <2>4
  <2>11. QED
    BY <2>2, <2>5, <2>6, <2>8, <2>9, <2>10 DEF Forked
<1>7. ForkedRows(thr, g, t, c)
  BY <1>1, <1>2, <1>3, <1>5, <1>6, ForkFields
<1>8. Good(g)
  BY <1>1, <1>2, <1>3, <1>5, <1>6, ForkGood
<1>9. PICK b, k : b = todo'[t] /\ k = todo[t].fork
  OBVIOUS
<1>10. /\ b \in Block /\ b.fork = k - 1 /\ b.join = todo[t].join /\ b.detach = todo[t].detach
       /\ todo' \in [Threads -> Block] /\ \A x \in Threads : x # t => todo'[x] = todo[x]
  <2>1. k \in 1..MaxFork /\ MaxFork \in Nat
    BY <1>1, <1>5, <1>9, BlockFields, ThreadsAssumption
  <2>2. k - 1 \in 0..MaxFork
    BY <2>1
  <2>3. b = [todo[t] EXCEPT !.fork = k - 1]
    BY <1>1, <1>3, <1>9
  <2>4. b \in Block /\ b.fork = k - 1 /\ b.join = todo[t].join /\ b.detach = todo[t].detach
    BY <1>5, <2>2, <2>3 DEF Block
  <2>5. QED
    BY <1>1, <1>3, <1>9, <2>4
<1>11. Counts(g, todo')
  <2>1. PICK td2 : td2 = todo'
    OBVIOUS
  <2>2. /\ td2[t].fork = todo[t].fork - 1 /\ td2[t].join = todo[t].join
        /\ td2[t].detach = todo[t].detach /\ \A x \in Threads : x # t => td2[x] = todo[x]
    BY <1>9, <1>10, <2>1
  <2>3. Counts(g, td2)
    BY <1>1, <1>2, <1>3, <1>5, <1>6, <2>2, ForkCounts
  <2>4. QED
    BY <2>1, <2>3
<1>12. /\ ~ thr[c].is_scheduled /\ ~ thr[c].waiting_for_event /\ c \notin Range(suspended)
  <2>1. RowOk(thr[c]) /\ PlaceOk(thr[c], running = c, c \in Range(suspended))
    BY DEF IInv, Rows, Places
  <2>2. QED
    BY <1>1, <2>1 DEF RowOk, PlaceOk
<1>13. Places(g, running, suspended)
  <2>1. SUFFICES ASSUME NEW x \in Threads PROVE PlaceOk(g[x], running = x, x \in Range(suspended))
    BY DEF Places
  <2>2. PlaceOk(thr[x], running = x, x \in Range(suspended))
    BY DEF IInv, Places
  <2>3. CASE x = c
    <3>1. running # x /\ x \notin Range(suspended)
      BY <1>2, <1>5, <1>12, <2>3
    <3>2. /\ g[x].exists /\ ~ g[x].zombie /\ g[x].is_scheduled /\ ~ g[x].waiting_for_event
          /\ ~ g[x].i_am_joining /\ ~ g[x].i_am_waiting
      BY <1>7, <2>3 DEF ForkedRows
    <3>3. QED
      BY <3>1, <3>2 DEF PlaceOk
  <2>4. CASE x = t
    <3>1. /\ SameLife(thr[x], g[x]) /\ g[x].parent = thr[x].parent
          /\ g[x].i_am_joining = thr[x].i_am_joining /\ g[x].i_am_waiting = thr[x].i_am_waiting
          /\ g[x].is_scheduled = thr[x].is_scheduled
      BY <1>7, <2>4 DEF ForkedRows
    <3>2. QED
      BY <2>2, <3>1 DEF PlaceOk, SameLife
  <2>5. CASE x # c /\ x # t
    BY <1>6, <2>2, <2>5 DEF Forked
  <2>6. QED
    BY <2>3, <2>4, <2>5
<1>14. PICK a : a = active'
  OBVIOUS
<1>15. Queues' /\ a \in Seq(Seq(Threads) \ {<< >>})
  <2>0. Queues
    BY DEF IInv
  <2>1. c \notin Members(active) \cup Range(rest) \cup later /\ c \notin Range(event_list)
    BY <1>12, <2>0 DEF Queues, Marks
  <2>2. a \in Seq(Seq(Threads) \ {<< >>}) /\ Members(a) = {c} \cup Members(active) /\ Once(a)
    BY <1>1, <1>3, <1>14, <2>0, <2>1, PushLists DEF Queues
  <2>3. /\ g[c].is_scheduled /\ ~ g[c].waiting_for_event
        /\ g[t].is_scheduled = thr[t].is_scheduled /\ g[t].waiting_for_event = thr[t].waiting_for_event
        /\ \A x \in Threads : x # t /\ x # c => g[x] = thr[x]
    BY <1>7 DEF ForkedRows, SameLife
  <2>4. Apart(a, rest, later)
    BY <2>0, <2>1, <2>2 DEF Queues, Apart
  <2>5. Marks(g, a, rest, later, event_list)
    <3>1. SUFFICES ASSUME NEW x \in Threads
                   PROVE  /\ g[x].is_scheduled <=> x \in Members(a) \cup Range(rest) \cup later
                          /\ g[x].waiting_for_event <=> x \in Range(event_list)
      BY DEF Marks
    <3>2. /\ thr[x].is_scheduled <=> x \in Members(active) \cup Range(rest) \cup later
          /\ thr[x].waiting_for_event <=> x \in Range(event_list)
      BY <2>0 DEF Queues, Marks
    <3>3. QED
      BY <2>1, <2>2, <2>3, <3>2
  <2>6. QED
    BY <1>1, <1>4, <1>14, <2>0, <2>2, <2>4, <2>5 DEF Queues
<1>16. RunOk'
  <2>1. g[t].exists
    BY <1>2, <1>7 DEF ForkedRows, SameLife
  <2>2. QED
    BY <1>1, <1>2, <1>4, <2>1, ThreadsAssumption DEF RunOk
<1>17. ASSUME NoDetached(thr, todo) PROVE NoDetached(g, todo')
  <2>1. ASSUME NEW x \in Threads
        PROVE  g[x].detached_children = {} /\ ~ g[x].i_am_detached /\ todo'[x].detach = 0
    <3>1. thr[x].detached_children = {} /\ ~ thr[x].i_am_detached /\ todo[x].detach = 0
      BY <1>17 DEF NoDetached
    <3>2. todo'[x].detach = todo[x].detach
      BY <1>9, <1>10
    <3>3. QED
      BY <1>7, <3>1, <3>2 DEF ForkedRows
  <2>2. QED
    BY <2>1 DEF NoDetached
<1>18. TypeOK'
  BY <1>1, <1>4, <1>6, <1>10, <1>14, <1>15 DEF TypeOK, IInv, Forked
<1>19. QED
  BY <1>1, <1>4, <1>8, <1>11, <1>13, <1>15, <1>16, <1>17, <1>18 DEF IInv, Opcodes, Good

-----------------------------------------------------------------------------
(* %join/detach: the children that have ended go, then the others are      *)
(* moved to the detached children.                                         *)
JoinedRows(f, m, t, dead) ==
  /\ m \in [Threads -> vthread_s]
  /\ m[t] = [f[t] EXCEPT !.children = @ \ dead]
  /\ \A x \in dead : m[x] = Reaped(f[x])
  /\ \A x \in Threads : x # t /\ x \notin dead => m[x] = f[x]

LEMMA EndedGo ==
  ASSUME NEW f, Good(f), NEW t \in Threads, Alive(f, t), NEW dead,
         dead = {c \in f[t].children : f[c].i_have_ended}, NEW m, JoinedRows(f, m, t, dead)
  PROVE  Cut(f, m, dead, {}, {})
<1>1. f \in [Threads -> vthread_s] /\ Linked(f) /\ f[t] \in vthread_s /\ t # None
  BY ThreadsAssumption DEF Good
<1>2. ASSUME NEW c \in dead
      PROVE  /\ c \in Threads /\ c # t /\ f[c].parent = t /\ ~ f[c].i_am_detached /\ f[c].exists
             /\ ~ Alive(f, c) /\ GoneRow(f[c], m[c])
  <2>1. c \in f[t].children /\ f[c].i_have_ended
    OBVIOUS
  <2>2. /\ c \in Threads /\ c # t /\ f[c].parent = t /\ ~ f[c].i_am_detached /\ f[c].exists
        /\ f[c].zombie /\ f[c].children = {} /\ f[c] \in vthread_s /\ RowOk(f[c])
    BY <2>1, EndedChild
  <2>3. GoneRow(f[c], Reaped(f[c]))
    BY <2>1, <2>2, ReapedGone
  <2>4. QED
    BY <2>2, <2>3 DEF JoinedRows, Alive
<1>3. ASSUME NEW x \in Threads PROVE f[x].parent \notin dead
  BY <1>1, <1>2, NoOffspring
<1>4. ASSUME NEW x \in Threads, Alive(f, x) PROVE f[x].detached_children \cap dead = {}
  BY <1>1, <1>2, <1>4 DEF Linked
<1>5. ASSUME NEW x \in Threads, x \notin dead
      PROVE  KeptRow(f[x], m[x], dead, FALSE, FALSE)
  <2>1. CASE x = t
    <3>1. PICK n : n = m[t]
      OBVIOUS
    <3>2. /\ n.children = f[t].children \ dead /\ n.detached_children = f[t].detached_children
          /\ n.parent = f[t].parent /\ n.i_am_detached = f[t].i_am_detached
          /\ SameLife(f[t], n) /\ n.is_scheduled = f[t].is_scheduled
          /\ n.i_am_joining = f[t].i_am_joining /\ n.i_am_waiting = f[t].i_am_waiting
      BY <1>1, <3>1 DEF JoinedRows, SameLife, vthread_s
    <3>3. f[t].detached_children \cap dead = {}
      BY <1>4
    <3>4. KeptRow(f[t], n, dead, FALSE, FALSE)
      BY <3>2, <3>3 DEF KeptRow
    <3>5. QED
      BY <2>1, <3>1, <3>4
  <2>2. CASE x # t
    <3>1. m[x] = f[x] /\ f[x].children \cap dead = {}
      BY <1>1, <1>2, <1>5, <2>2 DEF JoinedRows, Linked
    <3>2. f[x].exists /\ ~ f[x].zombie => f[x].detached_children \cap dead = {}
      BY <1>4 DEF Alive
    <3>3. KeptRow(f[x], f[x], dead, FALSE, FALSE)
      BY <3>1, <3>2, KeptSame
    <3>4. QED
      BY <3>1, <3>3
  <2>3. QED
    BY <2>1, <2>2
<1>6. ASSUME NEW x \in Threads \ (dead \cup {})
      PROVE  KeptRow(f[x], m[x], dead, f[x].parent \in dead \cup {}, x \in {})
  <2>1. f[x].parent \notin dead \cup {} /\ x \notin {}
    BY <1>3
  <2>2. KeptRow(f[x], m[x], dead, FALSE, FALSE)
    BY <1>5
  <2>3. QED
    BY <2>1, <2>2 DEF KeptRow
<1>7. QED
  BY <1>2, <1>3, <1>6 DEF Cut

DetachedRows(m, g, t) ==
  /\ g \in [Threads -> vthread_s]
  /\ g[t] = [m[t] EXCEPT !.children = {}, !.detached_children = @ \cup m[t].children]
  /\ \A x \in m[t].children : g[x] = [m[x] EXCEPT !.i_am_detached = TRUE]
  /\ \A x \in Threads : x # t /\ x \notin m[t].children => g[x] = m[x]

LEMMA DetachFields ==
  ASSUME NEW m, Good(m), NEW g, NEW t \in Threads, Alive(m, t), DetachedRows(m, g, t)
  PROVE  /\ t \notin m[t].children /\ m[t].children \subseteq Threads
         /\ \A x \in Threads :
              /\ SameLife(m[x], g[x]) /\ g[x].parent = m[x].parent
              /\ g[x].is_scheduled = m[x].is_scheduled
              /\ g[x].i_am_joining = m[x].i_am_joining /\ g[x].i_am_waiting = m[x].i_am_waiting
         /\ \A x \in Threads : x # t =>
              g[x].children = m[x].children /\ g[x].detached_children = m[x].detached_children
         /\ g[t].children = {} /\ g[t].detached_children = m[t].detached_children \cup m[t].children
         /\ \A x \in m[t].children : m[x].parent = t /\ ~ m[x].i_am_detached /\ g[x].i_am_detached
         /\ \A x \in Threads : x \notin m[t].children => g[x].i_am_detached = m[x].i_am_detached
<1>1. m \in [Threads -> vthread_s] /\ Linked(m) /\ Acyclic(m)
  BY DEF Good
<1>2. m[t] \in vthread_s /\ m[t].children \subseteq Threads
  BY <1>1, Fields
<1>3. \A x \in m[t].children : m[x].parent = t /\ ~ m[x].i_am_detached
  BY <1>1, <1>2 DEF Linked
<1>4. t \notin m[t].children
  BY <1>1, <1>3, NoLoop
<1>5. /\ SameLife(m[t], g[t]) /\ g[t].parent = m[t].parent
      /\ g[t].is_scheduled = m[t].is_scheduled
      /\ g[t].i_am_joining = m[t].i_am_joining /\ g[t].i_am_waiting = m[t].i_am_waiting
      /\ g[t].children = {} /\ g[t].detached_children = m[t].detached_children \cup m[t].children
      /\ g[t].i_am_detached = m[t].i_am_detached
  BY <1>2 DEF DetachedRows, SameLife, vthread_s
<1>6. ASSUME NEW x \in m[t].children
      PROVE  /\ SameLife(m[x], g[x]) /\ g[x].parent = m[x].parent
             /\ g[x].is_scheduled = m[x].is_scheduled
             /\ g[x].i_am_joining = m[x].i_am_joining /\ g[x].i_am_waiting = m[x].i_am_waiting
             /\ g[x].children = m[x].children /\ g[x].detached_children = m[x].detached_children
             /\ g[x].i_am_detached
  <2>1. m[x] \in vthread_s /\ g[x] = [m[x] EXCEPT !.i_am_detached = TRUE]
    BY <1>1, <1>2 DEF DetachedRows
  <2>2. QED
    BY <2>1 DEF SameLife, vthread_s
<1>7. \A x \in Threads : x # t /\ x \notin m[t].children => g[x] = m[x] /\ SameLife(m[x], g[x])
  BY DEF DetachedRows, SameLife
<1>8. QED
  BY <1>2, <1>3, <1>4, <1>5, <1>6, <1>7

LEMMA DetachGood ==
  ASSUME NEW m, Good(m), NEW g, NEW t \in Threads, Alive(m, t), DetachedRows(m, g, t),
         \A c \in m[t].children : ~ m[c].i_have_ended
  PROVE  Good(g)
<1>1. m \in [Threads -> vthread_s] /\ Rows(m) /\ Linked(m) /\ Acyclic(m) /\ t # None
  BY ThreadsAssumption DEF Good
<1>2. /\ t \notin m[t].children /\ m[t].children \subseteq Threads
      /\ \A x \in Threads : SameLife(m[x], g[x]) /\ g[x].parent = m[x].parent
                            /\ g[x].is_scheduled = m[x].is_scheduled
      /\ \A x \in Threads : x # t =>
           g[x].children = m[x].children /\ g[x].detached_children = m[x].detached_children
      /\ g[t].children = {} /\ g[t].detached_children = m[t].detached_children \cup m[t].children
      /\ \A x \in m[t].children : m[x].parent = t /\ ~ m[x].i_am_detached /\ g[x].i_am_detached
      /\ \A x \in Threads : x \notin m[t].children => g[x].i_am_detached = m[x].i_am_detached
  BY DetachFields
<1>3. \A x : x \in Threads => (Alive(g, x) <=> Alive(m, x))
  BY <1>2 DEF SameLife, Alive
<1>4. ASSUME NEW x \in Threads PROVE RowOk(g[x])
  <2>1. RowOk(m[x]) /\ SameLife(m[x], g[x]) /\ g[x].parent = m[x].parent
        /\ g[x].is_scheduled = m[x].is_scheduled
    BY <1>1, <1>2 DEF Rows
  <2>2. CASE x = t
    <3>1. m[x].exists /\ ~ m[x].zombie /\ g[x].i_am_detached = m[x].i_am_detached
      BY <1>2, <2>2 DEF Alive
    <3>2. QED
      BY <2>1, <3>1 DEF RowOk, SameLife
  <2>3. CASE x # t /\ x \in m[t].children
    <3>1. m[x].parent # None /\ ~ m[x].i_have_ended
      BY <1>1, <1>2, <2>3
    <3>2. m[x].exists /\ ~ m[x].zombie
      BY <2>1, <3>1 DEF RowOk
    <3>3. QED
      BY <2>1, <3>1, <3>2 DEF RowOk, SameLife
  <2>4. CASE x # t /\ x \notin m[t].children
    BY <2>4 DEF DetachedRows, Rows, Good
  <2>5. QED
    BY <2>2, <2>3, <2>4
<1>5. ASSUME NEW p \in Threads, NEW x \in Threads
      PROVE  x \in g[p].children <=> (g[x].parent = p /\ ~ g[x].i_am_detached)
  <2>1. x \in m[p].children <=> (m[x].parent = p /\ ~ m[x].i_am_detached)
    BY <1>1 DEF Linked
  <2>2. g[x].parent = m[x].parent
    BY <1>2
  <2>3. CASE p = t
    BY <1>2, <2>1, <2>2, <2>3
  <2>4. CASE p # t
    BY <1>2, <2>1, <2>2, <2>4
  <2>5. QED
    BY <2>3, <2>4
<1>6. ASSUME NEW p \in Threads, NEW x \in Threads, g[x].parent = p, g[x].i_am_detached
      PROVE  x \in g[p].detached_children
  <2>1. CASE x \in m[t].children
    BY <1>2, <1>6, <2>1
  <2>2. CASE x \notin m[t].children
    <3>1. m[x].parent = p /\ m[x].i_am_detached
      BY <1>2, <1>6, <2>2
    <3>2. x \in m[p].detached_children
      BY <1>1, <3>1 DEF Linked
    <3>3. QED
      BY <1>2, <3>2
  <2>3. QED
    BY <2>1, <2>2
<1>7. ASSUME NEW p \in Threads, NEW x \in Threads, Alive(g, p), x \in g[p].detached_children
      PROVE  g[x].parent = p /\ g[x].i_am_detached
  <2>1. CASE x \in m[t].children /\ p = t
    BY <1>2, <2>1
  <2>2. CASE ~ (x \in m[t].children /\ p = t)
    <3>1. Alive(m, p) /\ x \in m[p].detached_children
      BY <1>2, <1>3, <1>7, <2>2
    <3>2. m[x].parent = p /\ m[x].i_am_detached
      BY <1>1, <3>1 DEF Linked
    <3>3. x \notin m[t].children
      BY <1>2, <3>2
    <3>4. QED
      BY <1>2, <3>2, <3>3
  <2>3. QED
    BY <2>1, <2>2
<1>8. ASSUME NEW x \in Threads, g[x].parent # None PROVE Alive(g, g[x].parent)
  BY <1>1, <1>2, <1>3, <1>8, ParentIs DEF Linked
<1>9. Linked(g)
  BY <1>5, <1>6, <1>7, <1>8 DEF Linked
<1>10. Acyclic(g)
  BY <1>1, <1>2 DEF Acyclic, Below
<1>11. QED
  BY <1>4, <1>9, <1>10 DEF Good, Rows, DetachedRows

LEMMA DetachCounts ==
  ASSUME NEW m, Good(m), NEW g, NEW t \in Threads, Alive(m, t), DetachedRows(m, g, t),
         NEW td, NEW td2, Counts(m, td), \A x \in Threads : x # t => td2[x] = td[x],
         ~ m[t].i_am_joining, ~ m[t].i_am_waiting,
         td2[t].fork = 0, td2[t].join = 0, td2[t].detach = 0
  PROVE  Counts(g, td2)
<1>1. m \in [Threads -> vthread_s]
  BY DEF Good
<1>2. /\ \A x \in Threads :
           /\ SameLife(m[x], g[x])
           /\ g[x].i_am_joining = m[x].i_am_joining /\ g[x].i_am_waiting = m[x].i_am_waiting
      /\ \A x \in Threads : x # t =>
           g[x].children = m[x].children /\ g[x].detached_children = m[x].detached_children
      /\ g[t].children = {}
  BY DetachFields
<1>3. \A x \in Threads : /\ Alive(g, x) <=> Alive(m, x)
                         /\ g[x].i_have_ended = m[x].i_have_ended
                         /\ g[x].exists = m[x].exists /\ g[x].freed = m[x].freed
                         /\ m[x].children \subseteq Threads
  BY <1>1, <1>2, Fields DEF SameLife, Alive
<1>4. Counted(g[t], td2[t]) /\ ~ g[t].i_am_joining /\ ~ g[t].i_am_waiting
  <2>1. Cardinality(g[t].children) = 0
    BY <1>2, FS_EmptySet
  <2>2. ~ g[t].i_am_joining /\ ~ g[t].i_am_waiting
    BY <1>2
  <2>3. QED
    BY <2>1, <2>2 DEF Counted
<1>5. ASSUME NEW x \in Threads, x # t, Alive(g, x)
      PROVE  /\ Counted(g[x], td2[x])
             /\ g[x].i_am_joining => \A y \in g[x].children : ~ g[y].i_have_ended
             /\ g[x].i_am_waiting => g[x].detached_children # {}
  <2>1. Alive(m, x) /\ td2[x] = td[x] /\ g[x].children = m[x].children
        /\ g[x].detached_children = m[x].detached_children
        /\ g[x].i_am_joining = m[x].i_am_joining /\ g[x].i_am_waiting = m[x].i_am_waiting
    BY <1>2, <1>3, <1>5
  <2>2. /\ Counted(m[x], td[x])
        /\ m[x].i_am_joining => \A y \in m[x].children : ~ m[y].i_have_ended
        /\ m[x].i_am_waiting => m[x].detached_children # {}
    BY <2>1 DEF Counts
  <2>3. Counted(g[x], td2[x])
    BY <2>1, <2>2 DEF Counted
  <2>4. g[x].i_am_joining => \A y \in g[x].children : ~ g[y].i_have_ended
    BY <1>3, <2>1, <2>2
  <2>5. QED
    BY <2>1, <2>2, <2>3, <2>4
<1>6. ASSUME NEW x \in Threads, ~ g[x].exists, ~ g[x].freed
      PROVE  td2[x].fork = 0 /\ td2[x].join = 0 /\ td2[x].detach = 0
  <2>1. ~ m[x].exists /\ ~ m[x].freed
    BY <1>3, <1>6
  <2>2. x # t
    BY <2>1 DEF Alive
  <2>3. QED
    BY <2>1, <2>2 DEF Counts
<1>7. QED
  BY <1>4, <1>5, <1>6 DEF Counts

LEMMA DetachStep ==
  ASSUME IInv, NEW t \in Threads, of_JOIN_DETACH(t), program' = program
  PROVE  IInv'
<1>1. PICK dead, kept : /\ dead = {c \in thr[t].children : thr[c].i_have_ended}
                        /\ kept = thr[t].children \ dead
  BY ZenonT(60)
<1>2. /\ At(t) /\ todo[t].fork = 0 /\ todo[t].join = 0 /\ todo[t].detach > 0
      /\ todo' = [todo EXCEPT ![t].detach = 0]
      /\ UNCHANGED <<active, later, event_list, suspended, running, rest, disabling>>
  BY ZenonT(60) DEF of_JOIN_DETACH
<1>3. /\ running = t /\ disabling = None /\ Alive(thr, t) /\ thr[t].exists /\ t # None
      /\ ~ thr[t].i_am_joining /\ ~ thr[t].i_am_waiting /\ Counted(thr[t], todo[t])
  BY <1>2, AtFacts, ThreadsAssumption
<1>4. /\ todo \in [Threads -> Block] /\ thr \in [Threads -> vthread_s] /\ Good(thr)
      /\ Counts(thr, todo) /\ Places(thr, running, suspended) /\ Linked(thr)
      /\ thr[t] \in vthread_s /\ todo[t] \in Block
  BY TypedQueues, GoodThr DEF Good
<1>5. \A c \in thr[t].children : c \in Threads /\ thr[c].parent = t /\ c # t
  <2>1. thr[t].children \subseteq Threads
    BY <1>4, Fields
  <2>2. QED
    BY <1>4, <2>1, NoLoop DEF Good, Linked
<1>6. ASSUME NEW c \in dead
      PROVE  /\ c \in Threads /\ thr[c].zombie /\ thr[c].exists /\ thr[c].detached_children = {}
             /\ ReapOk(thr, c) /\ vthread_reap(thr, c)[c] = Reaped(thr[c])
  <2>1. c \in thr[t].children /\ thr[c].i_have_ended
    BY <1>1
  <2>2. /\ c \in Threads /\ c # t /\ thr[c].parent = t /\ thr[c].zombie /\ thr[c].exists
        /\ thr[c].children = {} /\ thr[c].detached_children = {} /\ ReapOk(thr, c)
    BY <1>4, <2>1, EndedChild
  <2>3. ReapsTo(thr, c, vthread_reap(thr, c))
    BY <2>2, ReapRows
  <2>4. QED
    BY <2>2, <2>3 DEF ReapsTo
<1>7. PICK d, n : d = todo[t].detach /\ n = Cardinality(thr[t].children)
  BY SMTT(30)
<1>8. aborted' = FALSE
  <2>1. d \in Nat /\ n \in Nat
    <3>1. thr[t].children \in SUBSET Threads
      BY <1>5
    <3>2. QED
      BY <1>4, <1>7, <3>1, BlockFields, FiniteThreads
  <2>2. n + 0 = 0 + d + 0
    BY <1>2, <1>3, <1>7 DEF Counted
  <2>3. d = n
    BY <2>1, <2>2
  <2>4. QED
    BY ZenonT(60), <1>1, <1>5, <1>6, <1>7, <2>3 DEF of_JOIN_DETACH, Check
<1>9. PICK g : g = thr'
  OBVIOUS
<1>10. /\ g[t] = [thr[t] EXCEPT !.children = {}, !.detached_children = @ \cup kept]
       /\ \A x \in kept : g[x] = [thr[x] EXCEPT !.i_am_detached = TRUE]
       /\ \A x \in dead : g[x] = Reaped(thr[x])
       /\ \A x \in Threads : x # t /\ x \notin dead /\ x \notin kept => g[x] = thr[x]
       /\ g = [x \in Threads |-> g[x]]
  <2> DEFINE gone == {c \in thr[t].children : thr[c].i_have_ended}
             rowOf(x, D, K) ==
               CASE x = t -> [thr[t] EXCEPT !.children = {}, !.detached_children = @ \cup K]
                 [] x \in K -> [thr[x] EXCEPT !.i_am_detached = TRUE]
                 [] x \in D -> vthread_reap(thr, x)[x]
                 [] \E c \in D : x \in thr[c].detached_children ->
                      [thr[x] EXCEPT !.parent = None, !.i_am_detached = FALSE]
                 [] OTHER -> thr[x]
             row(x) == rowOf(x, dead, kept)
  <2>1. g = [x \in Threads |-> row(x)]
    <3>1. thr' = [x \in Threads |-> rowOf(x, gone, thr[t].children \ gone)]
      BY Zenon DEF of_JOIN_DETACH
    <3>2. gone = dead /\ thr[t].children \ gone = kept
      BY <1>1
    <3> HIDE DEF rowOf, gone
    <3>3. QED
      BY <1>9, <3>1, <3>2
  <2>2. t \notin kept /\ t \notin dead /\ kept \subseteq Threads /\ \A x \in kept : x \notin dead
    BY <1>1, <1>5
  <2>3. \A x : ~ \E c \in dead : x \in thr[c].detached_children
    BY <1>6
  <2>4. row(t) = [thr[t] EXCEPT !.children = {}, !.detached_children = @ \cup kept]
    BY <2>2, <2>3
  <2>5. \A x \in kept : row(x) = [thr[x] EXCEPT !.i_am_detached = TRUE]
    BY <2>2, <2>3
  <2>6. \A x \in dead : row(x) = vthread_reap(thr, x)[x]
    BY <2>2, <2>3
  <2>7. \A x \in Threads : x # t /\ x \notin dead /\ x \notin kept => row(x) = thr[x]
    BY <2>3
  <2> HIDE DEF row
  <2>8. (\A x \in Threads : g[x] = row(x)) /\ g = [x \in Threads |-> g[x]]
    BY <2>1
  <2>9. QED
    BY <1>6, <2>2, <2>4, <2>5, <2>6, <2>7, <2>8
<1>11. PICK m : m = [x \in Threads |-> IF x = t THEN [thr[t] EXCEPT !.children = @ \ dead]
                                       ELSE IF x \in dead THEN Reaped(thr[x]) ELSE thr[x]]
  OBVIOUS
<1>12. /\ m[t] = [thr[t] EXCEPT !.children = @ \ dead]
       /\ \A x \in dead : m[x] = Reaped(thr[x])
       /\ \A x \in Threads : x # t /\ x \notin dead => m[x] = thr[x]
       /\ m = [x \in Threads |-> m[x]]
  <2>1. t \notin dead
    BY <1>1, <1>5
  <2>2. QED
    BY <1>6, <1>11, <2>1
<1>13. /\ m[t] \in vthread_s /\ m[t].children = kept
       /\ m[t].detached_children = thr[t].detached_children /\ SameLife(thr[t], m[t])
       /\ m[t].i_am_joining = thr[t].i_am_joining /\ m[t].i_am_waiting = thr[t].i_am_waiting
       /\ g[t] = [m[t] EXCEPT !.children = {}, !.detached_children = @ \cup m[t].children]
       /\ g[t] \in vthread_s
  <2>1. /\ m[t] \in vthread_s /\ m[t].children = kept
        /\ m[t].detached_children = thr[t].detached_children /\ SameLife(thr[t], m[t])
        /\ m[t].i_am_joining = thr[t].i_am_joining /\ m[t].i_am_waiting = thr[t].i_am_waiting
    BY <1>1, <1>4, <1>12 DEF vthread_s, SameLife
  <2>2. g[t] = [m[t] EXCEPT !.children = {}, !.detached_children = @ \cup kept]
    BY <1>4, <1>10, <1>12 DEF vthread_s
  <2>3. kept \subseteq Threads
    BY <1>1, <1>5
  <2>4. g[t] \in vthread_s
    BY <1>4, <1>10, <2>3 DEF vthread_s
  <2>5. QED
    BY <2>1, <2>2, <2>4
<1>14. JoinedRows(thr, m, t, dead)
  <2>1. ASSUME NEW x \in dead PROVE Reaped(thr[x]) \in vthread_s
    <3>1. ReapsTo(thr, x, [y \in Threads |-> IF y = x THEN Reaped(thr[x])
                                           ELSE IF y \in thr[x].detached_children THEN Orphan(thr[y])
                                           ELSE IF y = thr[x].parent THEN Lost(thr[y], x, thr[x].i_am_detached)
                                           ELSE thr[y]])
      BY DEF ReapsTo
    <3>2. QED
      BY <1>4, <1>6, <3>1, ReapType
  <2>2. \A x \in Threads : m[x] \in vthread_s
    BY <1>4, <1>12, <1>13, <2>1
  <2>3. m \in [Threads -> vthread_s]
    BY <1>12, <2>2
  <2>4. QED
    BY <1>12, <2>3 DEF JoinedRows
<1>15. Cut(thr, m, dead, {}, {})
  BY <1>1, <1>3, <1>4, <1>14, EndedGo
<1>16. Good(m)
  <2>1. Rows(m)
    BY <1>4, <1>15, CutRows DEF Good
  <2>2. Linked(m) /\ Acyclic(m)
    BY <1>4, <1>15, CutLinked DEF Good
  <2>3. QED
    BY <1>14, <2>1, <2>2 DEF Good, JoinedRows
<1>17. Alive(m, t)
  BY <1>3, <1>13 DEF SameLife, Alive
<1>18. ASSUME NEW x \in kept PROVE x \in Threads /\ m[x] = thr[x] /\ ~ m[x].i_have_ended
  BY <1>1, <1>5, <1>12
<1>19. DetachedRows(m, g, t)
  <2>1. \A x \in m[t].children : g[x] = [m[x] EXCEPT !.i_am_detached = TRUE]
    BY <1>10, <1>13, <1>18
  <2>2. \A x \in Threads : x # t /\ x \notin m[t].children => g[x] = m[x]
    BY <1>10, <1>12, <1>13
  <2>3. ASSUME NEW x \in m[t].children PROVE g[x] \in vthread_s
    <3>1. thr[x] \in vthread_s /\ g[x] = [thr[x] EXCEPT !.i_am_detached = TRUE]
      BY <1>4, <1>13, <1>18, <2>1
    <3>2. QED
      BY <3>1 DEF vthread_s
  <2>4. \A x \in Threads : m[x] \in vthread_s
    BY <1>14 DEF JoinedRows
  <2>5. \A x \in Threads : g[x] \in vthread_s
    BY <1>13, <2>2, <2>3, <2>4
  <2>6. g \in [Threads -> vthread_s]
    BY <1>10, <2>5
  <2>7. QED
    BY <1>13, <2>1, <2>2, <2>6 DEF DetachedRows
<1>20. Good(g)
  BY <1>13, <1>16, <1>17, <1>18, <1>19, DetachGood
<1>21. \A x \in Threads :
         /\ SameLife(m[x], g[x]) /\ g[x].parent = m[x].parent
         /\ g[x].is_scheduled = m[x].is_scheduled
         /\ g[x].i_am_joining = m[x].i_am_joining /\ g[x].i_am_waiting = m[x].i_am_waiting
  BY <1>16, <1>17, <1>19, DetachFields
<1>22. PICK td, td2 : td = [todo EXCEPT ![t].detach = Cardinality(kept)] /\ td2 = todo'
  OBVIOUS
<1>23. /\ td[t].fork = 0 /\ td[t].join = 0 /\ td[t].detach = Cardinality(kept)
       /\ \A x \in Threads : x # t => td[x] = todo[x] /\ td2[x] = todo[x]
       /\ td2[t].fork = 0 /\ td2[t].join = 0 /\ td2[t].detach = 0
       /\ td2 \in [Threads -> Block]
  <2>1. 0 \in 0..MaxFork
    BY ThreadsAssumption
  <2>2. [todo[t] EXCEPT !.detach = 0] \in Block
    BY <1>4, <2>1 DEF Block
  <2>3. td[t] = [todo[t] EXCEPT !.detach = Cardinality(kept)] /\ td2[t] = [todo[t] EXCEPT !.detach = 0]
    BY <1>2, <1>4, <1>22
  <2>4. \A x \in Threads : x # t => td[x] = todo[x] /\ td2[x] = todo[x]
    BY <1>2, <1>4, <1>22
  <2>5. td2 \in [Threads -> Block]
    BY <1>2, <1>4, <1>22, <2>2
  <2>6. QED
    BY <1>2, <1>4, <2>3, <2>4, <2>5 DEF Block
<1>24. Counts(g, td2)
  <2>1. Counted(m[t], td[t])
    <3>1. Cardinality(kept) \in Nat /\ Cardinality(m[t].children) = Cardinality(kept)
      <4>1. kept \in SUBSET Threads
        BY <1>1, <1>5
      <4>2. QED
        BY <1>13, <4>1, FiniteThreads
    <3>2. Cardinality(kept) + 0 = 0 + Cardinality(kept) + 0
      BY <3>1
    <3>3. QED
      BY <1>3, <1>13, <1>23, <3>1, <3>2 DEF Counted
  <2>2. Loses(thr, m, dead, {}, {}, todo, td, t)
    <3>1. ASSUME NEW x \in Threads, x \notin dead, x # t
          PROVE  thr[x].children \cap dead = {} /\ td[x] = todo[x] /\ m[x] = thr[x]
      BY <1>1, <1>4, <1>5, <1>12, <1>23, <3>1 DEF Linked
    <3>2. ASSUME NEW x \in Threads, x \notin dead, Alive(thr, x), m[x].i_am_waiting
          PROVE  m[x].detached_children # {}
      BY <1>3, <1>4, <1>13, <3>1, <3>2 DEF Counts
    <3>3. QED
      BY <1>3, <2>1, <3>1, <3>2 DEF Loses
  <2>3. Counts(m, td)
    BY <1>4, <1>15, <2>2, CutCounts
  <2>4. ~ m[t].i_am_joining /\ ~ m[t].i_am_waiting
    BY <1>3, <1>13
  <2>5. QED
    BY <1>16, <1>17, <1>19, <1>23, <2>3, <2>4, DetachCounts
<1>25. Places(g, running, suspended)
  <2>1. (dead \cup {}) \cap Range(suspended) = {}
    <3>1. ASSUME NEW c \in dead PROVE c \notin Range(suspended)
      <4>1. PlaceOk(thr[c], running = c, c \in Range(suspended))
        BY <1>4, <1>6 DEF Places
      <4>2. QED
        BY <1>6, <4>1 DEF PlaceOk
    <3>2. QED
      BY <3>1
  <2>2. Places(m, running, suspended)
    BY <1>4, <1>15, <2>1, CutPlaces DEF Good
  <2>3. SUFFICES ASSUME NEW x \in Threads PROVE PlaceOk(g[x], running = x, x \in Range(suspended))
    BY DEF Places
  <2>4. PlaceOk(m[x], running = x, x \in Range(suspended))
    BY <2>2 DEF Places
  <2>5. QED
    BY <1>21, <2>4 DEF PlaceOk, SameLife
<1>26. Queues'
  <2>1. Queues
    BY DEF IInv
  <2>2. Marks(m, active, rest, later, event_list)
    <3>1. Members(active) = Members(active) \cup {}
      OBVIOUS
    <3>2. QED
      BY <1>15, <2>1, <3>1, CutMarks DEF Queues
  <2>3. Marks(g, active, rest, later, event_list)
    BY <1>21, <2>2 DEF Marks, SameLife
  <2>4. QED
    BY <1>2, <1>9, <2>1, <2>3 DEF Queues
<1>27. RunOk'
  <2>1. g[t].exists
    BY <1>17, <1>21 DEF SameLife, Alive
  <2>2. QED
    BY <1>2, <1>3, <1>9, <2>1, ThreadsAssumption DEF RunOk
<1>28. {"join_any", "join_none"} \cap Opcodes # {}
  <2>1. ~ (0 > 0)
    OBVIOUS
  <2>2. QED
    BY <1>2, <2>1 DEF IInv, NoDetached
<1>29. TypeOK'
  BY <1>2, <1>8, <1>9, <1>19, <1>22, <1>23 DEF TypeOK, IInv, DetachedRows
<1>30. QED
  BY <1>2, <1>8, <1>9, <1>20, <1>22, <1>24, <1>25, <1>26, <1>27, <1>28, <1>29 DEF IInv, Opcodes, Good

-----------------------------------------------------------------------------
(* The threads below a thread. *)

LEMMA DescendantsClosed ==
  ASSUME NEW f, NEW t, NEW D, D = Descendants(f, t), f[t].children \subseteq Threads,
         \A x \in Threads : f[x].children \subseteq Threads
  PROVE  D \subseteq Threads /\ f[t].children \subseteq D /\ \A y \in D : f[y].children \subseteq D
<1>1. D \subseteq Threads
  BY DEF Descendants
<1>2. f[t].children \subseteq D
  BY DEF Descendants
<1>3. ASSUME NEW y \in D, NEW c \in f[y].children PROVE c \in D
  <2>1. c \in Threads
    BY <1>1
  <2>2. ASSUME NEW S \in SUBSET Threads, f[t].children \subseteq S, \A z \in S : f[z].children \subseteq S
        PROVE  c \in S
    <3>1. y \in S
      BY <2>2 DEF Descendants
    <3>2. QED
      BY <2>2, <3>1
  <2>3. QED
    BY <2>1, <2>2 DEF Descendants
<1>4. QED
  BY <1>1, <1>2, <1>3

LEMMA DescendantsLeast ==
  ASSUME NEW f, NEW t, NEW S \in SUBSET Threads, f[t].children \subseteq S,
         \A y \in S : f[y].children \subseteq S
  PROVE  Descendants(f, t) \subseteq S
  BY DEF Descendants

BelowTree(f, t, D) ==
  /\ D \subseteq Threads /\ f[t].children \subseteq D /\ \A y \in D : f[y].children \subseteq D
  /\ \A x \in D : f[x].parent \in D \cup {t} /\ ~ f[x].i_am_detached /\ f[x].exists
  /\ t \notin D /\ f[t].parent \notin D \cup {t}
  /\ f[t].parent # None => f[f[t].parent].parent \notin D \cup {t}

LEMMA DescendantsTree ==
  ASSUME NEW f, Good(f), NEW t \in Threads
  PROVE  BelowTree(f, t, Descendants(f, t))
<1>0. PICK D : D = Descendants(f, t)
  OBVIOUS
<1>1. f \in [Threads -> vthread_s] /\ Rows(f) /\ Linked(f) /\ Acyclic(f) /\ t # None
  BY ThreadsAssumption DEF Good
<1>2. \A x \in Threads : f[x].children \subseteq Threads
  BY <1>1, Fields
<1>3. D \subseteq Threads /\ f[t].children \subseteq D /\ \A y \in D : f[y].children \subseteq D
  BY <1>0, <1>2, DescendantsClosed
<1>4. ASSUME NEW y \in Threads, NEW c \in f[y].children
      PROVE  c \in Threads /\ f[c].parent = y /\ ~ f[c].i_am_detached /\ f[c].exists
  <2>1. c \in Threads /\ f[c].parent = y /\ ~ f[c].i_am_detached /\ y # None /\ RowOk(f[c])
    BY <1>1, <1>2, ThreadsAssumption DEF Linked, Rows
  <2>2. QED
    BY <2>1 DEF RowOk
<1>5. ASSUME NEW x \in D
      PROVE  f[x].parent \in D \cup {t} /\ ~ f[x].i_am_detached /\ f[x].exists
  <2>1. PICK S : S = {y \in D : f[y].parent \in D \cup {t} /\ ~ f[y].i_am_detached /\ f[y].exists}
    OBVIOUS
  <2>2. S \in SUBSET Threads /\ f[t].children \subseteq S /\ \A y \in S : f[y].children \subseteq S
    BY <1>3, <1>4, <2>1
  <2>3. D \subseteq S
    BY <1>0, <2>2, DescendantsLeast
  <2>4. QED
    BY <2>1, <2>3
<1>6. PICK rank : /\ \A x \in Threads : rank[x] \in Nat
                  /\ \A x \in Threads : f[x].parent # None =>
                       f[x].parent \in Threads /\ rank[x] < rank[f[x].parent]
  BY <1>1, Rank
<1>7. \A x, y \in Threads : f[x].parent = y => rank[x] < rank[y]
  BY <1>6, ThreadsAssumption
<1>8. \A x \in D : rank[x] < rank[t]
  <2>1. PICK S : S = {y \in D : rank[y] < rank[t]}
    OBVIOUS
  <2>2. f[t].children \subseteq S
    BY <1>3, <1>4, <1>7, <2>1
  <2>3. ASSUME NEW y \in S, NEW c \in f[y].children PROVE c \in S
    <3>1. y \in Threads /\ c \in D /\ c \in Threads /\ f[c].parent = y
      BY <1>3, <1>4, <2>1
    <3>2. rank[c] < rank[y] /\ rank[y] < rank[t]
      BY <1>7, <2>1, <3>1
    <3>3. rank[c] \in Nat /\ rank[y] \in Nat /\ rank[t] \in Nat
      BY <1>6, <3>1
    <3>4. rank[c] < rank[t]
      BY <3>2, <3>3
    <3>5. QED
      BY <2>1, <3>1, <3>4
  <2>4. D \subseteq S
    BY <1>0, <1>3, <2>1, <2>2, <2>3, DescendantsLeast
  <2>5. QED
    BY <2>1, <2>4
<1>9. t \notin D
  BY <1>6, <1>8
<1>10. ASSUME NEW p \in Threads, rank[t] < rank[p] PROVE p \notin D \cup {t}
  <2>1. rank[t] \in Nat /\ rank[p] \in Nat
    BY <1>6
  <2>2. p # t /\ ~ (rank[p] < rank[t])
    BY <1>10, <2>1
  <2>3. QED
    BY <1>8, <2>2
<1>11. None \notin D \cup {t}
  BY <1>3, ThreadsAssumption
<1>12. PICK p : p = f[t].parent
  OBVIOUS
<1>13. p \notin D \cup {t} /\ (p # None => p \in Threads /\ rank[t] < rank[p])
  BY <1>6, <1>10, <1>11, <1>12
<1>14. ASSUME p # None PROVE f[p].parent \notin D \cup {t}
  <2>1. CASE f[p].parent = None
    BY <1>11, <2>1
  <2>2. CASE f[p].parent # None
    <3>1. PICK q : q = f[p].parent
      OBVIOUS
    <3>2. q \in Threads /\ rank[p] < rank[q] /\ rank[t] < rank[p]
      BY <1>6, <1>13, <1>14, <2>2, <3>1
    <3>3. rank[q] \in Nat /\ rank[p] \in Nat /\ rank[t] \in Nat
      BY <1>6, <1>13, <1>14, <3>2
    <3>4. rank[t] < rank[q]
      BY <3>2, <3>3
    <3>5. QED
      BY <1>10, <3>1, <3>2, <3>4
  <2>3. QED
    BY <2>1, <2>2
<1>15. QED
  BY <1>0, <1>3, <1>5, <1>9, <1>12, <1>13, <1>14 DEF BelowTree

-----------------------------------------------------------------------------
(* A thread and the threads below it go. *)
TreeGone(f, g, t, D, K, Z, W) ==
  /\ BelowTree(f, t, D)
  /\ K \cup Z = D \cup {t} /\ K \cap Z = {} /\ Z \subseteq {t}
  /\ f[t].exists /\ (Alive(f, t) \/ f[t].detached_children = {})
  /\ \A x \in K : GoneRow(f[x], g[x])
  /\ \A x \in Z : EndedRow(f[x], g[x])
  /\ \A x \in Threads : x \notin D \cup {t} /\ x # f[t].parent =>
       g[x] = IF \E d \in D \cup {t} : x \in f[d].detached_children THEN Orphan(f[x]) ELSE f[x]
  /\ f[t].parent # None =>
       KeptRow(f[f[t].parent], g[f[t].parent], K, FALSE, f[t].parent \in W)
  /\ \A x \in W : /\ x = f[t].parent /\ x \in Threads /\ Alive(f, x)
                  /\ f[x].i_am_joining \/ f[x].i_am_waiting

(* Who was detached from one of them. *)
LEMMA TreeDetached ==
  ASSUME NEW f, Good(f), NEW t \in Threads, NEW D, BelowTree(f, t, D),
         Alive(f, t) \/ f[t].detached_children = {}
  PROVE  /\ \A d \in D \cup {t} : \A x \in f[d].detached_children :
              x \in Threads /\ f[x].parent = d /\ f[x].i_am_detached
         /\ \A x \in Threads : x \notin D /\ f[x].parent \in D \cup {t} =>
              f[x].i_am_detached /\ \E d \in D \cup {t} : x \in f[d].detached_children
         /\ \A x \in Threads : f[x].parent \in D \cup {t} /\ ~ f[x].i_am_detached => x \in D
<1>1. f \in [Threads -> vthread_s] /\ Rows(f) /\ Linked(f)
  BY DEF Good
<1>2. \A x \in Threads : f[x].detached_children \subseteq Threads
  BY <1>1, Fields
<1>3. D \cup {t} \subseteq Threads
  BY DEF BelowTree
<1>4. ASSUME NEW d \in D \cup {t}, NEW x \in f[d].detached_children
      PROVE  x \in Threads /\ f[x].parent = d /\ f[x].i_am_detached
  <2>1. x \in Threads /\ d \in Threads
    BY <1>2, <1>3
  <2>2. Alive(f, d)
    <3>1. CASE d = t
      BY <1>4, <3>1
    <3>2. CASE d \in D
      <4>1. f[d].parent \in D \cup {t} /\ f[d].exists /\ RowOk(f[d])
        BY <1>1, <2>1, <3>2 DEF BelowTree, Rows
      <4>2. f[d].parent # None
        BY <1>3, <4>1, ThreadsAssumption
      <4>3. QED
        BY <1>4, <4>1, <4>2 DEF RowOk, Alive
    <3>3. QED
      BY <3>1, <3>2
  <2>3. QED
    BY <1>1, <2>1, <2>2 DEF Linked
<1>5. ASSUME NEW x \in Threads, f[x].parent \in D \cup {t}, ~ f[x].i_am_detached PROVE x \in D
  <2>1. PICK d : d = f[x].parent
    OBVIOUS
  <2>2. d \in Threads /\ x \in f[d].children
    BY <1>1, <1>3, <1>5, <2>1 DEF Linked
  <2>3. QED
    BY <1>5, <2>1, <2>2 DEF BelowTree
<1>6. ASSUME NEW x \in Threads, x \notin D, f[x].parent \in D \cup {t}
      PROVE  f[x].i_am_detached /\ \E d \in D \cup {t} : x \in f[d].detached_children
  <2>1. f[x].i_am_detached
    BY <1>5, <1>6
  <2>2. x \in f[f[x].parent].detached_children
    BY <1>1, <1>3, <1>6, <2>1 DEF Linked
  <2>3. QED
    BY <1>6, <2>1, <2>2
<1>7. QED
  BY <1>4, <1>5, <1>6

LEMMA TreeGoneCut ==
  ASSUME NEW f, Good(f), NEW g, NEW t \in Threads, NEW D, NEW K, NEW Z, NEW W,
         TreeGone(f, g, t, D, K, Z, W)
  PROVE  Cut(f, g, K, Z, W)
<1>1. f \in [Threads -> vthread_s] /\ Rows(f) /\ Linked(f) /\ Acyclic(f)
  BY DEF Good
<1>2. PICK p : p = f[t].parent
  OBVIOUS
<1>3. /\ BelowTree(f, t, D) /\ K \cup Z = D \cup {t} /\ K \cap Z = {} /\ Z \subseteq {t}
      /\ f[t].exists /\ (Alive(f, t) \/ f[t].detached_children = {})
  BY DEF TreeGone
<1>4. /\ p \in Threads \cup {None} /\ p \notin D \cup {t} /\ D \subseteq Threads
      /\ p # None => f[p].parent \notin D \cup {t}
      /\ \A x \in D : f[x].parent \in D \cup {t} /\ ~ f[x].i_am_detached /\ f[x].exists
  BY <1>1, <1>2, <1>3, ParentIs DEF BelowTree
<1>5. /\ \A d \in D \cup {t} : \A x \in f[d].detached_children :
           x \in Threads /\ f[x].parent = d /\ f[x].i_am_detached
      /\ \A x \in Threads : x \notin D /\ f[x].parent \in D \cup {t} =>
           f[x].i_am_detached /\ \E d \in D \cup {t} : x \in f[d].detached_children
      /\ \A x \in Threads : f[x].parent \in D \cup {t} /\ ~ f[x].i_am_detached => x \in D
  BY <1>3, TreeDetached
<1>6. ASSUME NEW x \in Threads, x \notin D \cup {t}, x # p
      PROVE  f[x].children \cap K = {} /\ (Alive(f, x) => f[x].detached_children \cap K = {})
  <2>1. ASSUME NEW c \in K, f[c].parent = x PROVE FALSE
    BY <1>2, <1>3, <1>4, <1>6, <2>1
  <2>2. K \subseteq Threads
    BY <1>3, <1>4
  <2>3. QED
    BY <1>1, <2>1, <2>2 DEF Linked
<1>7. ASSUME NEW x \in Threads, x \notin D \cup {t}
      PROVE  KeptRow(f[x], g[x], K, f[x].parent \in K \cup Z, x \in W)
  <2>1. CASE x = p
    <3>1. KeptRow(f[x], g[x], K, FALSE, x \in W)
      BY <1>2, <2>1, ThreadsAssumption DEF TreeGone
    <3>2. f[x].parent \notin K \cup Z
      BY <1>3, <1>4, <2>1, ThreadsAssumption
    <3>3. QED
      BY <3>1, <3>2 DEF KeptRow
  <2>2. CASE x # p /\ \E d \in D \cup {t} : x \in f[d].detached_children
    <3>1. g[x] = Orphan(f[x]) /\ f[x].parent \in K \cup Z /\ x \notin W /\ f[x] \in vthread_s
      BY <1>1, <1>2, <1>3, <1>5, <1>7, <2>2 DEF TreeGone
    <3>2. f[x].children \cap K = {} /\ (Alive(f, x) => f[x].detached_children \cap K = {})
      BY <1>6, <1>7, <2>2
    <3>3. PICK n : n = Orphan(f[x])
      OBVIOUS
    <3>4. n.children = f[x].children /\ n.detached_children = f[x].detached_children
          /\ n.parent = None /\ ~ n.i_am_detached /\ SameLife(f[x], n)
          /\ n.i_am_joining = f[x].i_am_joining /\ n.i_am_waiting = f[x].i_am_waiting
          /\ n.is_scheduled = f[x].is_scheduled
      BY <3>1, <3>3 DEF Orphan, SameLife, vthread_s
    <3>5. KeptRow(f[x], n, K, f[x].parent \in K \cup Z, x \in W)
      BY <3>1, <3>2, <3>4 DEF KeptRow, Alive
    <3>6. QED
      BY <3>1, <3>3, <3>5
  <2>3. CASE x # p /\ ~ \E d \in D \cup {t} : x \in f[d].detached_children
    <3>1. g[x] = f[x] /\ f[x].parent \notin K \cup Z /\ x \notin W
      BY <1>2, <1>3, <1>5, <1>7, <2>3 DEF TreeGone
    <3>2. f[x].children \cap K = {} /\ (Alive(f, x) => f[x].detached_children \cap K = {})
      BY <1>6, <1>7, <2>3
    <3>3. KeptRow(f[x], f[x], K, f[x].parent \in K \cup Z, x \in W)
      BY <3>1, <3>2, KeptSame DEF Alive
    <3>4. QED
      BY <3>1, <3>3
  <2>4. QED
    BY <2>1, <2>2, <2>3
<1>8. /\ K \subseteq Threads /\ Z \subseteq Threads /\ W \subseteq Threads
      /\ W \cap (K \cup Z) = {}
      /\ \A x \in W : Alive(f, x) /\ (f[x].i_am_joining \/ f[x].i_am_waiting)
  BY <1>2, <1>3, <1>4 DEF TreeGone
<1>9. /\ \A x \in K : f[x].exists /\ GoneRow(f[x], g[x])
      /\ \A x \in Z : f[x].exists /\ EndedRow(f[x], g[x]) /\ f[x].parent \notin K \cup Z
  BY <1>2, <1>3, <1>4 DEF TreeGone
<1>10. \A x \in Threads : f[x].parent \in K \cup Z /\ ~ f[x].i_am_detached => x \in K
  <2>1. \A x \in D : x \in K
    BY <1>3, <1>4 DEF BelowTree
  <2>2. QED
    BY <1>3, <1>5, <2>1
<1>11. \A x \in Threads \ (K \cup Z) : KeptRow(f[x], g[x], K, f[x].parent \in K \cup Z, x \in W)
  BY <1>3, <1>7
<1>12. QED
  BY <1>3, <1>8, <1>9, <1>10, <1>11 DEF Cut

LEMMA TreeGoneLoses ==
  ASSUME NEW f, Good(f), NEW g, NEW t \in Threads, NEW D, NEW K, NEW Z, NEW W,
         TreeGone(f, g, t, D, K, Z, W), NEW td, Counts(f, td), NEW p, p = f[t].parent,
         p # None => /\ Alive(f, p) /\ Counted(g[p], td[p])
                     /\ g[p].i_am_waiting => g[p].detached_children # {}
                     /\ Z # {} => ~ g[p].i_am_joining
  PROVE  Loses(f, g, K, Z, W, td, td, p)
<1>1. f \in [Threads -> vthread_s] /\ Linked(f)
  BY DEF Good
<1>2. /\ BelowTree(f, t, D) /\ K \cup Z = D \cup {t} /\ K \cap Z = {} /\ Z \subseteq {t}
      /\ p \in Threads \cup {None}
  BY <1>1, ParentIs DEF TreeGone
<1>3. ASSUME NEW x \in Threads, x \notin D \cup {t}, x # p
      PROVE  f[x].children \cap K = {} /\ x \notin W
  <2>1. ASSUME NEW c \in K, f[c].parent = x PROVE FALSE
    BY <1>2, <1>3, <2>1 DEF BelowTree
  <2>2. K \subseteq Threads
    BY <1>2 DEF BelowTree
  <2>3. QED
    BY <1>1, <1>3, <2>1, <2>2 DEF Linked, TreeGone
<1>4. ASSUME NEW x \in Threads, x \notin D \cup {t}, Alive(f, x), g[x].i_am_waiting
      PROVE  g[x].detached_children # {}
  <2>1. CASE x = p
    BY <1>4, <2>1, ThreadsAssumption
  <2>2. CASE x # p
    <3>1. g[x] = f[x] \/ g[x] = Orphan(f[x])
      BY <1>4, <2>2 DEF TreeGone
    <3>2. f[x] \in vthread_s
      BY <1>1
    <3>3. g[x].i_am_waiting = f[x].i_am_waiting /\ g[x].detached_children = f[x].detached_children
      BY <3>1, <3>2 DEF Orphan, vthread_s
    <3>4. QED
      BY <1>4, <3>3 DEF Counts
  <2>3. QED
    BY <2>1, <2>2
<1>5. \A z \in Z : z = t /\ f[z].parent # None
  BY <1>2 DEF TreeGone, EndedRow
<1>6. QED
  BY <1>2, <1>3, <1>4, <1>5, ThreadsAssumption DEF Loses

-----------------------------------------------------------------------------
(* do_disable: what the loop makes of each thread. *)
Off(r) ==
  [r EXCEPT !.in_scope = FALSE, !.zombie = TRUE, !.i_have_ended = TRUE, !.children = {},
            !.i_am_joining = @ /\ r.children = {}]

Dead(r) == [Off(r) EXCEPT !.parent = None]

LEMMA OffFields ==
  ASSUME NEW r \in vthread_s
  PROVE  /\ Off(r) \in vthread_s /\ Off(r).exists = r.exists /\ Off(r).freed = r.freed
         /\ Off(r).zombie /\ Off(r).i_have_ended /\ ~ Off(r).in_scope /\ Off(r).children = {}
         /\ Off(r).parent = r.parent /\ Off(r).detached_children = r.detached_children
         /\ Off(r).i_am_detached = r.i_am_detached /\ Off(r).is_scheduled = r.is_scheduled
         /\ Off(r).waiting_for_event = r.waiting_for_event
  BY DEF Off, vthread_s

LEMMA DeadFields ==
  ASSUME NEW r \in vthread_s
  PROVE  /\ Dead(r) \in vthread_s /\ Dead(r).exists = r.exists /\ Dead(r).freed = r.freed
         /\ Dead(r).zombie /\ Dead(r).i_have_ended /\ ~ Dead(r).in_scope /\ Dead(r).children = {}
         /\ Dead(r).parent = None /\ Dead(r).detached_children = r.detached_children
         /\ Dead(r).i_am_detached = r.i_am_detached /\ Dead(r).is_scheduled = r.is_scheduled
         /\ Dead(r).waiting_for_event = r.waiting_for_event
<1>1. PICK n : n = Off(r)
  OBVIOUS
<1>2. /\ n \in vthread_s /\ n.exists = r.exists /\ n.freed = r.freed
      /\ n.zombie /\ n.i_have_ended /\ ~ n.in_scope /\ n.children = {}
      /\ n.parent = r.parent /\ n.detached_children = r.detached_children
      /\ n.i_am_detached = r.i_am_detached /\ n.is_scheduled = r.is_scheduled
      /\ n.waiting_for_event = r.waiting_for_event
  BY <1>1, OffFields
<1>3. Dead(r) = [n EXCEPT !.parent = None]
  BY <1>1 DEF Dead
<1>4. None \in Threads \cup {None}
  OBVIOUS
<1>5. QED
  BY <1>2, <1>3, <1>4 DEF vthread_s

LEMMA DeletedIs == Deleted \in vthread_s
<1>1. AScope \in Scopes
  BY ThreadsAssumption DEF AScope
<1>2. QED
  BY <1>1 DEF Deleted, NoThread, vthread_new, vthread_s

OffRows(f, g, t, D) ==
  /\ g \in [Threads -> vthread_s]
  /\ g[t] = Off(f[t])
  /\ \A x \in D : GoneRow(f[x], g[x])
  /\ \A x \in Threads : x \notin D \cup {t} =>
       g[x] = IF \E d \in D : x \in f[d].detached_children THEN Orphan(f[x]) ELSE f[x]

LEMMA TurnedOffRows ==
  ASSUME NEW f, Good(f), NEW t \in Threads, Alive(f, t) \/ f[t].detached_children = {},
         NEW D, D = Descendants(f, t), NEW g, g = TurnedOff(f, t)
  PROVE  OffRows(f, g, t, D)
<1>1. f \in [Threads -> vthread_s] /\ Rows(f) /\ Linked(f)
  BY DEF Good
<1>2. BelowTree(f, t, D)
  BY DescendantsTree
<1>3. /\ D \subseteq Threads /\ t \notin D
      /\ \A x \in D : ~ f[x].i_am_detached /\ f[x].exists
      /\ f[t].parent \notin D
  BY <1>2 DEF BelowTree
<1>4. \A d \in D : \A x \in f[d].detached_children :
        x \in Threads /\ f[x].parent = d /\ f[x].i_am_detached
  BY <1>2, TreeDetached
<1> DEFINE det(x) == \E d \in D : x \in f[d].detached_children
<1>5. ~ det(t) /\ \A x \in D : ~ det(x)
  BY <1>3, <1>4
<1> DEFINE below == Descendants(f, t)
           off(x) == [f[x] EXCEPT !.in_scope = FALSE, !.zombie = TRUE,
                                  !.i_have_ended = TRUE, !.children = {},
                                  !.i_am_joining = @ /\ f[x].children = {}]
           rowOf(x, E) ==
             CASE x = t -> off(x)
               [] x \in E -> IF Deletable(f, x) THEN Deleted ELSE [off(x) EXCEPT !.parent = None]
               [] \E d \in E : x \in f[d].detached_children ->
                    [f[x] EXCEPT !.parent = None, !.i_am_detached = FALSE]
               [] OTHER -> f[x]
           row(x) == rowOf(x, D)
<1>6. g = [x \in Threads |-> row(x)]
  <2>1. TurnedOff(f, t) = [x \in Threads |-> rowOf(x, below)]
    BY Zenon DEF TurnedOff
  <2>2. below = D
    OBVIOUS
  <2> HIDE DEF rowOf, below
  <2>3. QED
    BY <2>1, <2>2
<1>7. \A x \in Threads : off(x) = Off(f[x]) /\ [off(x) EXCEPT !.parent = None] = Dead(f[x])
  BY DEF Off, Dead
<1> HIDE DEF det, off
<1>8. row(t) = Off(f[t])
  BY <1>3, <1>5, <1>7 DEF det
<1>9. ASSUME NEW x \in D PROVE row(x) = IF Deletable(f, x) THEN Deleted ELSE Dead(f[x])
  <2>1. x \in Threads /\ x # t /\ ~ \E d \in D : x \in f[d].detached_children
    BY <1>3, <1>5 DEF det
  <2>2. CASE Deletable(f, x)
    BY <2>1, <2>2
  <2>3. CASE ~ Deletable(f, x)
    BY <1>7, <2>1, <2>3
  <2>4. QED
    BY <2>2, <2>3
<1>10. ASSUME NEW x \in Threads, x \notin D \cup {t}
       PROVE  row(x) = IF det(x) THEN Orphan(f[x]) ELSE f[x]
  <2>1. CASE \E d \in D : x \in f[d].detached_children
    BY <1>10, <2>1 DEF Orphan, det
  <2>2. CASE ~ \E d \in D : x \in f[d].detached_children
    BY <1>10, <2>2 DEF det
  <2>3. QED
    BY <2>1, <2>2
<1> HIDE DEF row
<1>11. \A x \in Threads : g[x] = row(x)
  BY <1>6
<1>12. ASSUME NEW x \in D PROVE GoneRow(f[x], g[x]) /\ g[x] \in vthread_s
  <2>1. /\ x \in Threads /\ f[x] \in vthread_s /\ RowOk(f[x]) /\ f[x].exists
        /\ g[x] = IF Deletable(f, x) THEN Deleted ELSE Dead(f[x])
    BY <1>1, <1>3, <1>9, <1>11 DEF Rows
  <2>2. CASE Deletable(f, x)
    BY <2>1, <2>2, DeletedIs DEF Deletable, GoneRow
  <2>3. CASE ~ Deletable(f, x)
    <3>2. PICK n : n = g[x]
      OBVIOUS
    <3>3. /\ n \in vthread_s /\ n.exists /\ ~ n.freed
          /\ n.zombie /\ n.i_have_ended /\ ~ n.in_scope /\ n.children = {}
          /\ n.parent = None /\ n.detached_children = f[x].detached_children
          /\ n.i_am_detached = f[x].i_am_detached /\ n.is_scheduled = f[x].is_scheduled
          /\ n.waiting_for_event = f[x].waiting_for_event
      <4>1. n = Dead(f[x]) /\ ~ f[x].freed
        BY <2>1, <2>3, <3>2 DEF RowOk
      <4>2. QED
        BY <2>1, <4>1, DeadFields
    <3>4. GoneRow(f[x], n)
      BY <2>3, <3>3 DEF GoneRow, Deletable
    <3>5. QED
      BY <3>2, <3>3, <3>4
  <2>4. QED
    BY <2>2, <2>3
<1>13. ASSUME NEW x \in Threads PROVE Orphan(f[x]) \in vthread_s
  <2>1. f[x] \in vthread_s /\ None \in Threads \cup {None}
    BY <1>1
  <2>2. QED
    BY <2>1 DEF Orphan, vthread_s
<1>14. g[t] = Off(f[t]) /\ g[t] \in vthread_s
  <2>1. f[t] \in vthread_s
    BY <1>1
  <2>2. Off(f[t]) \in vthread_s
    BY <2>1, OffFields
  <2>3. QED
    BY <1>8, <1>11, <2>2
<1>15. \A x \in Threads : g[x] \in vthread_s
  BY <1>1, <1>10, <1>11, <1>12, <1>13, <1>14
<1>16. g \in [Threads -> vthread_s]
  BY <1>6, <1>11, <1>15
<1>17. QED
  BY <1>10, <1>11, <1>12, <1>14, <1>16 DEF OffRows, det

(* The thread itself is reaped after that; h may differ at its parent. *)
GoneRows(f, r, t, D) ==
  /\ r \in [Threads -> vthread_s]
  /\ \A x \in D \cup {t} : GoneRow(f[x], r[x])
  /\ \A x \in Threads : x \notin D \cup {t} /\ x # f[t].parent =>
       r[x] = IF \E d \in D \cup {t} : x \in f[d].detached_children THEN Orphan(f[x]) ELSE f[x]

LEMMA TurnedReaped ==
  ASSUME NEW f, Good(f), NEW t \in Threads, f[t].exists, Alive(f, t) \/ f[t].detached_children = {},
         NEW D, BelowTree(f, t, D), NEW g, OffRows(f, g, t, D), NEW p, p = f[t].parent,
         NEW h \in [Threads -> vthread_s], \A x \in Threads : x # p => h[x] = g[x],
         NEW r, r = vthread_reap(h, t)
  PROVE  GoneRows(f, r, t, D) /\ (p # None => r[p] = Lost(h[p], t, f[t].i_am_detached))
<1>1. f \in [Threads -> vthread_s] /\ Rows(f) /\ Linked(f) /\ f[t] \in vthread_s /\ RowOk(f[t])
  BY DEF Good, Rows
<1>2. /\ D \subseteq Threads /\ t \notin D /\ p \notin D \cup {t}
      /\ \A x \in D : ~ f[x].i_am_detached /\ f[x].exists
      /\ p # None => f[p].parent \notin D \cup {t}
      /\ p \in Threads \cup {None}
  BY <1>1, ParentIs DEF BelowTree
<1>3. \A d \in D \cup {t} : \A x \in f[d].detached_children :
        x \in Threads /\ f[x].parent = d /\ f[x].i_am_detached
  BY TreeDetached
<1>4. PICK n : n = Off(f[t])
  OBVIOUS
<1>5. /\ n \in vthread_s /\ n.exists /\ ~ n.freed /\ n.zombie /\ n.i_have_ended /\ ~ n.in_scope
      /\ n.children = {} /\ n.parent = p /\ n.detached_children = f[t].detached_children
      /\ n.i_am_detached = f[t].i_am_detached /\ n.is_scheduled = f[t].is_scheduled
      /\ n.waiting_for_event = f[t].waiting_for_event
  <2>1. ~ f[t].freed
    BY <1>1 DEF RowOk
  <2>2. QED
    BY <1>1, <1>4, <2>1, OffFields
<1>6. h[t] = n
  BY <1>2, <1>4 DEF OffRows
<1>7. t \notin f[t].detached_children /\ p \notin f[t].detached_children /\ p # t
  BY <1>2, <1>3, ThreadsAssumption
<1>8. ReapsTo(h, t, r)
  BY <1>5, <1>6, <1>7, ReapRows
<1>9. r \in [Threads -> vthread_s]
  <2>1. \A x \in Threads : r[x] \in vthread_s
    BY <1>8, ReapType
  <2>2. QED
    BY <2>1, ReapTable
<1>10. \A x \in Threads :
         r[x] = IF x = t THEN Reaped(n)
                ELSE IF x \in f[t].detached_children THEN Orphan(h[x])
                ELSE IF x = p THEN Lost(h[x], t, f[t].i_am_detached)
                ELSE h[x]
  BY <1>5, <1>6, <1>8 DEF ReapsTo
<1>11. GoneRow(f[t], Reaped(n))
  <2>1. CASE ~ f[t].is_scheduled /\ ~ f[t].waiting_for_event
    BY <1>5, <2>1 DEF GoneRow, Reaped
  <2>2. CASE ~ (~ f[t].is_scheduled /\ ~ f[t].waiting_for_event)
    <3>1. PICK m : m = [n EXCEPT !.parent = None, !.in_scope = FALSE, !.zombie = TRUE]
      OBVIOUS
    <3>2. Reaped(n) = m
      BY <1>5, <2>2, <3>1 DEF Reaped
    <3>3. /\ m.exists /\ ~ m.freed /\ m.zombie /\ m.i_have_ended /\ ~ m.in_scope
          /\ m.children = {} /\ m.parent = None /\ m.detached_children = f[t].detached_children
          /\ m.i_am_detached = f[t].i_am_detached /\ m.is_scheduled = f[t].is_scheduled
          /\ m.waiting_for_event = f[t].waiting_for_event
      BY <1>5, <3>1 DEF vthread_s
    <3>4. GoneRow(f[t], m)
      BY <2>2, <3>3 DEF GoneRow
    <3>5. QED
      BY <3>2, <3>4
  <2>3. QED
    BY <2>1, <2>2
<1>12. ASSUME NEW x \in D PROVE GoneRow(f[x], r[x])
  <2>1. x \in Threads /\ x # t /\ x # p /\ x \notin f[t].detached_children
    BY <1>2, <1>3
  <2>2. r[x] = g[x]
    BY <1>10, <2>1
  <2>3. QED
    BY <2>2 DEF OffRows
<1>13. ASSUME NEW x \in Threads, x \notin D \cup {t}, x # p
       PROVE  r[x] = IF \E d \in D \cup {t} : x \in f[d].detached_children THEN Orphan(f[x]) ELSE f[x]
  <2>1. h[x] = IF \E d \in D : x \in f[d].detached_children THEN Orphan(f[x]) ELSE f[x]
    BY <1>13 DEF OffRows
  <2>2. CASE x \in f[t].detached_children
    <3>1. ~ \E d \in D : x \in f[d].detached_children
      BY <1>2, <1>3, <2>2
    <3>2. r[x] = Orphan(f[x])
      BY <1>10, <1>13, <2>1, <2>2, <3>1
    <3>3. QED
      BY <2>2, <3>2
  <2>3. CASE x \notin f[t].detached_children
    <3>1. r[x] = h[x]
      BY <1>10, <1>13, <2>3
    <3>2. QED
      BY <2>1, <2>3, <3>1
  <2>4. QED
    BY <2>2, <2>3
<1>14. p # None => r[p] = Lost(h[p], t, f[t].i_am_detached)
  BY <1>2, <1>7, <1>10
<1>15. r[t] = Reaped(n)
  BY <1>10
<1>16. QED
  BY <1>9, <1>11, <1>12, <1>13, <1>14, <1>15 DEF GoneRows

(* The parent of a thread that is turned off is left alone. *)
LEMMA TurnedParent ==
  ASSUME NEW f, Good(f), NEW t \in Threads, Alive(f, t) \/ f[t].detached_children = {},
         NEW D, BelowTree(f, t, D), NEW g, OffRows(f, g, t, D), NEW p, p = f[t].parent
  PROVE  /\ g[t].parent = p
         /\ p # None => p \in Threads /\ p \notin D \cup {t} /\ g[p] = f[p] /\ Alive(f, p)
         /\ Joined(g, t) <=> (p # None /\ f[p].i_am_joining)
<1>1. f \in [Threads -> vthread_s] /\ Linked(f) /\ f[t] \in vthread_s
  BY DEF Good
<1>2. g[t].parent = p
  <2>1. g[t] = Off(f[t])
    BY DEF OffRows
  <2>2. QED
    BY <1>1, <2>1, OffFields
<1>3. ASSUME p # None PROVE p \in Threads /\ p \notin D \cup {t} /\ g[p] = f[p] /\ Alive(f, p)
  <2>1. p \in Threads /\ p \notin D \cup {t} /\ f[p].parent \notin D /\ Alive(f, p)
    BY <1>1, <1>3, ParentIs DEF BelowTree, Linked
  <2>2. \A d \in D : p \notin f[d].detached_children
    BY <2>1, TreeDetached
  <2>3. QED
    BY <2>1, <2>2 DEF OffRows
<1>4. QED
  BY <1>2, <1>3 DEF Joined

(* No assert() of do_disable fails. *)
LEMMA DisableAsserts ==
  ASSUME NEW f, Good(f), NEW t \in Threads, f[t].exists, Alive(f, t) \/ f[t].detached_children = {},
         NEW p, p = f[t].parent, p # None /\ f[p].i_am_joining => ~ f[p].is_scheduled
  PROVE  /\ DisableOk(f, t) /\ ReapOk(TurnedOff(f, t), t)
         /\ Wakes(f, t) <=> (p # None /\ f[p].i_am_joining)
<1>0. PICK D, g : D = Descendants(f, t) /\ g = TurnedOff(f, t)
  OBVIOUS
<1>1. f \in [Threads -> vthread_s] /\ Rows(f) /\ Linked(f) /\ Acyclic(f) /\ f[t] \in vthread_s
  BY DEF Good
<1>2. BelowTree(f, t, D) /\ OffRows(f, g, t, D)
  BY <1>0, DescendantsTree, TurnedOffRows
<1>3. \A d \in D \cup {t} : \A x \in f[d].detached_children :
        x \in Threads /\ f[x].parent = d /\ f[x].i_am_detached
  BY <1>2, TreeDetached
<1>4. /\ g[t].parent = p
      /\ p # None => p \in Threads /\ p \notin D \cup {t} /\ g[p] = f[p] /\ Alive(f, p)
      /\ Joined(g, t) <=> (p # None /\ f[p].i_am_joining)
  BY <1>2, TurnedParent
<1>5. Wakes(f, t) <=> (p # None /\ f[p].i_am_joining)
  <2>1. p # None => ~ f[p].i_have_ended
    BY <1>1, <1>4 DEF Rows, RowOk, Alive
  <2>2. QED
    BY <1>0, <1>4, <2>1 DEF Wakes
<1>6. ASSUME NEW d \in D PROVE ReapOk([f EXCEPT ![d].children = {}], d)
  <2>1. PICK h, q : h = [f EXCEPT ![d].children = {}] /\ q = f[d].parent
    OBVIOUS
  <2>2. d \in Threads /\ q \in D \cup {t} /\ q \in Threads /\ ~ f[d].i_am_detached /\ f[d] \in vthread_s
    BY <1>1, <1>2, <2>1 DEF BelowTree
  <2>3. q # d /\ d \in f[q].children
    BY <1>1, <2>1, <2>2, NoLoop DEF Linked
  <2>4. /\ h[d].children = {} /\ h[d].parent = q /\ ~ h[d].i_am_detached
        /\ h[d].detached_children = f[d].detached_children
        /\ \A x \in Threads : x # d => h[x] = f[x]
    BY <1>1, <2>1, <2>2 DEF vthread_s
  <2>5. ASSUME NEW c \in f[d].detached_children PROVE h[c].parent = d /\ h[c].i_am_detached
    BY <1>3, <2>2, <2>4
  <2>6. ReapOk(h, d)
    BY <2>2, <2>3, <2>4, <2>5 DEF ReapOk
  <2>7. QED
    BY <2>1, <2>6
<1>7. ReapOk(g, t)
  <2>1. PICK n : n = Off(f[t])
    OBVIOUS
  <2>2. /\ g[t] = n /\ n.children = {} /\ n.parent = p
        /\ n.detached_children = f[t].detached_children
        /\ n.i_am_detached = f[t].i_am_detached
    BY <1>1, <1>2, <2>1, OffFields DEF OffRows
  <2>3. ASSUME NEW c \in f[t].detached_children PROVE g[c].parent = t /\ g[c].i_am_detached
    <3>1. c \in Threads /\ f[c].parent = t /\ f[c].i_am_detached
      BY <1>3
    <3>2. c \notin D \cup {t} /\ ~ \E d \in D : c \in f[d].detached_children
      <4>1. c \notin D /\ t \notin D /\ c # t
        BY <1>1, <1>2, <3>1, NoLoop DEF BelowTree
      <4>2. QED
        BY <1>3, <3>1, <4>1
    <3>3. g[c] = f[c]
      BY <1>2, <3>1, <3>2 DEF OffRows
    <3>4. QED
      BY <3>1, <3>3
  <2>4. ASSUME p # None
        PROVE  t \in IF f[t].i_am_detached THEN g[p].detached_children ELSE g[p].children
    BY <1>1, <1>4, <2>4 DEF Linked
  <2>5. QED
    BY <2>2, <2>3, <2>4 DEF ReapOk
<1>8. DisableOk(f, t)
  <2>1. Wakes(f, t) => ~ f[f[t].parent].is_scheduled
    BY <1>5
  <2>2. QED
    BY <1>0, <1>6, <1>7, <2>1 DEF DisableOk
<1>9. QED
  BY <1>0, <1>5, <1>7, <1>8

LEMMA TreeChildren ==
  ASSUME NEW f, Good(f), NEW t \in Threads, NEW D, BelowTree(f, t, D), NEW p, p = f[t].parent, p # None
  PROVE  /\ f[p].children \cap D = {} /\ (Alive(f, p) => f[p].detached_children \cap D = {})
         /\ f[t].i_am_detached => t \notin f[p].children
         /\ ~ f[t].i_am_detached => t \in f[p].children /\ (Alive(f, p) => t \notin f[p].detached_children)
<1>1. f \in [Threads -> vthread_s] /\ Linked(f) /\ p \in Threads
  BY ParentIs DEF Good
<1>2. p \notin D \cup {t} /\ D \subseteq Threads /\ \A x \in D : f[x].parent \in D \cup {t}
  BY DEF BelowTree
<1>3. \A x \in D : f[x].parent # p
  BY <1>2
<1>4. QED
  BY <1>1, <1>2, <1>3 DEF Linked

(* The step of do_disable as a cut. *)
Disabled(t, K, Z, W) ==
  /\ TreeGone(thr, thr', t, Descendants(thr, t), K, Z, W)
  /\ thr' \in [Threads -> vthread_s]
  /\ thr[t].parent # None =>
       /\ Alive(thr, thr[t].parent) /\ Counted(thr'[thr[t].parent], todo[thr[t].parent])
       /\ thr'[thr[t].parent].i_am_waiting => thr'[thr[t].parent].detached_children # {}
       /\ Z # {} => ~ thr'[thr[t].parent].i_am_joining
  /\ \/ W = {} /\ active' = active
     \/ \E x \in Threads : W = {x} /\ active' = Push(active, x)

LEMMA DisabledKeeps ==
  ASSUME IInv, NEW t \in Threads, NEW K, NEW Z, NEW W, Disabled(t, K, Z, W),
         (K \cup Z) \cap Range(suspended) = {}, aborted' = FALSE, RunOk',
         running' = running \/ (running' = None /\ running \in K \cup Z),
         UNCHANGED <<program, todo, later, event_list, suspended, rest, disabling>>
  PROVE  IInv'
<1>0. PICK g, p, D : g = thr' /\ p = thr[t].parent /\ D = Descendants(thr, t)
  OBVIOUS
<1>1. Good(thr) /\ Counts(thr, todo)
  BY GoodThr
<1>2. TreeGone(thr, g, t, D, K, Z, W)
  BY <1>0 DEF Disabled
<1>3. Cut(thr, g, K, Z, W)
  BY <1>1, <1>2, TreeGoneCut
<1>4. p # None => /\ Alive(thr, p) /\ Counted(g[p], todo[p])
                  /\ g[p].i_am_waiting => g[p].detached_children # {}
                  /\ Z # {} => ~ g[p].i_am_joining
  BY <1>0 DEF Disabled
<1>5. Loses(thr, g, K, Z, W, todo, todo, p)
  BY <1>0, <1>1, <1>2, <1>4, TreeGoneLoses
<1>6. CutStep(K, Z, W, p)
  BY <1>0, <1>3, <1>5, TypedQueues DEF CutStep, Disabled
<1>7. QED
  BY <1>6, CutKeeps

-----------------------------------------------------------------------------
(* do_disable in a program without detached threads. *)

(* What is known before the step. *)
MayDisable(t) ==
  /\ thr[t].exists /\ (Alive(thr, t) \/ thr[t].parent # None)
  /\ NoDetached(thr, todo)

LEMMA DisableFacts ==
  ASSUME IInv, NEW t \in Threads, MayDisable(t), NEW D, D = Descendants(thr, t),
         NEW g, g = TurnedOff(thr, t), NEW p, p = thr[t].parent
  PROVE  /\ Good(thr) /\ thr[t].exists /\ thr[t].detached_children = {} /\ ~ thr[t].i_am_detached
         /\ BelowTree(thr, t, D) /\ OffRows(thr, g, t, D) /\ DisableOk(thr, t)
         /\ g[t].parent = p /\ g \in [Threads -> vthread_s]
         /\ Joined(g, t) <=> (p # None /\ thr[p].i_am_joining)
         /\ Wakes(thr, t) <=> (p # None /\ thr[p].i_am_joining)
         /\ p # None => /\ p \in Threads /\ p \notin D \cup {t} /\ g[p] = thr[p] /\ Alive(thr, p)
                        /\ thr[p] \in vthread_s /\ Counted(thr[p], todo[p]) /\ ~ thr[p].i_have_ended
                        /\ thr[p].i_am_waiting => thr[p].detached_children # {}
                        /\ thr[p].i_am_joining => ~ thr[p].i_am_waiting /\ ~ thr[p].is_scheduled
                        /\ thr[p].children \cap D = {} /\ thr[p].detached_children \cap D = {}
                        /\ t \in thr[p].children /\ t \notin thr[p].detached_children
<1>1. Good(thr) /\ Counts(thr, todo) /\ Places(thr, running, suspended)
  BY GoodThr
<1>2. thr[t].exists /\ thr[t].detached_children = {} /\ ~ thr[t].i_am_detached
  BY DEF MayDisable, NoDetached
<1>3. BelowTree(thr, t, D) /\ OffRows(thr, g, t, D)
  BY <1>1, <1>2, DescendantsTree, TurnedOffRows
<1>4. /\ g[t].parent = p
      /\ p # None => p \in Threads /\ p \notin D \cup {t} /\ g[p] = thr[p] /\ Alive(thr, p)
      /\ Joined(g, t) <=> (p # None /\ thr[p].i_am_joining)
  BY <1>1, <1>2, <1>3, TurnedParent
<1>5. ASSUME p # None
      PROVE  /\ thr[p] \in vthread_s /\ Counted(thr[p], todo[p]) /\ ~ thr[p].i_have_ended
             /\ thr[p].i_am_waiting => thr[p].detached_children # {}
             /\ thr[p].i_am_joining => ~ thr[p].i_am_waiting /\ ~ thr[p].is_scheduled
  <2>1. p \in Threads /\ Alive(thr, p) /\ RowOk(thr[p]) /\ thr[p] \in vthread_s
    BY <1>1, <1>4, <1>5 DEF Good, Rows
  <2>2. PlaceOk(thr[p], running = p, p \in Range(suspended))
    BY <1>1, <2>1 DEF Places
  <2>3. QED
    BY <1>1, <2>1, <2>2 DEF PlaceOk, Alive, RowOk, Counts
<1>6. DisableOk(thr, t) /\ (Wakes(thr, t) <=> (p # None /\ thr[p].i_am_joining))
  BY <1>1, <1>2, <1>5, DisableAsserts
<1>7. p # None => /\ thr[p].children \cap D = {} /\ thr[p].detached_children \cap D = {}
                  /\ t \in thr[p].children /\ t \notin thr[p].detached_children
  BY <1>1, <1>2, <1>3, <1>4, TreeChildren
<1>8. g \in [Threads -> vthread_s]
  BY <1>3 DEF OffRows
<1>9. QED
  BY <1>1, <1>2, <1>3, <1>4, <1>5, <1>6, <1>7, <1>8

LEMMA DisableRoot ==
  ASSUME IInv, NEW t \in Threads, MayDisable(t), Disables(t), thr[t].parent = None
  PROVE  Disabled(t, Descendants(thr, t) \cup {t}, {}, {}) /\ aborted' = FALSE
<1>1. PICK D, g, r : D = Descendants(thr, t) /\ g = TurnedOff(thr, t) /\ r = thr'
  OBVIOUS
<1>2. /\ Good(thr) /\ thr[t].exists /\ thr[t].detached_children = {}
      /\ BelowTree(thr, t, D) /\ OffRows(thr, g, t, D) /\ DisableOk(thr, t)
      /\ g[t].parent = None /\ g \in [Threads -> vthread_s]
      /\ ~ Joined(g, t) /\ ~ Wakes(thr, t)
  BY <1>1, DisableFacts
<1>3. r = vthread_reap(g, t) /\ active' = active /\ aborted' = FALSE
  BY <1>1, <1>2 DEF Disables, do_disable, Check
<1>4. GoneRows(thr, r, t, D)
  BY <1>2, <1>3, TurnedReaped
<1>5. TreeGone(thr, r, t, D, D \cup {t}, {}, {})
  BY <1>2, <1>4 DEF TreeGone, GoneRows
<1>6. QED
  BY <1>1, <1>3, <1>4, <1>5 DEF Disabled, GoneRows

LEMMA DisableEnded ==
  ASSUME IInv, NEW t \in Threads, MayDisable(t), Disables(t), NEW p, p = thr[t].parent, p # None,
         ~ thr[p].i_am_joining
  PROVE  Disabled(t, Descendants(thr, t), {t}, {}) /\ aborted' = FALSE
<1>1. PICK D, g : D = Descendants(thr, t) /\ g = TurnedOff(thr, t)
  OBVIOUS
<1>2. /\ Good(thr) /\ thr[t].exists /\ thr[t].detached_children = {} /\ ~ thr[t].i_am_detached
      /\ BelowTree(thr, t, D) /\ OffRows(thr, g, t, D) /\ DisableOk(thr, t)
      /\ g[t].parent = p /\ g \in [Threads -> vthread_s]
      /\ ~ Joined(g, t) /\ ~ Wakes(thr, t)
      /\ p \in Threads /\ p \notin D \cup {t} /\ g[p] = thr[p] /\ Alive(thr, p)
      /\ Counted(thr[p], todo[p])
      /\ thr[p].i_am_waiting => thr[p].detached_children # {}
      /\ thr[p].children \cap D = {} /\ thr[p].detached_children \cap D = {}
  BY <1>1, DisableFacts
<1>3. thr' = g /\ active' = active /\ aborted' = FALSE
  BY <1>1, <1>2 DEF Disables, do_disable, Check
<1>4. EndedRow(thr[t], g[t])
  <2>1. thr[t] \in vthread_s /\ RowOk(thr[t]) /\ g[t] = Off(thr[t])
    BY <1>2 DEF Good, Rows, OffRows
  <2>2. PICK n : n = Off(thr[t])
    OBVIOUS
  <2>3. /\ n.exists = thr[t].exists /\ n.freed = thr[t].freed
        /\ n.zombie /\ n.i_have_ended /\ ~ n.in_scope /\ n.children = {}
        /\ n.parent = thr[t].parent /\ n.detached_children = thr[t].detached_children
        /\ n.i_am_detached = thr[t].i_am_detached /\ n.is_scheduled = thr[t].is_scheduled
        /\ n.waiting_for_event = thr[t].waiting_for_event
    BY <2>1, <2>2, OffFields
  <2>4. ~ thr[t].freed
    BY <1>2, <2>1 DEF RowOk
  <2>5. EndedRow(thr[t], n)
    BY <1>2, <2>3, <2>4 DEF EndedRow
  <2>6. QED
    BY <2>1, <2>2, <2>5
<1>5. KeptRow(thr[p], g[p], D, FALSE, p \in {})
  <2>1. KeptRow(thr[p], thr[p], D, FALSE, p \in {})
    BY <1>2, KeptSame
  <2>2. QED
    BY <1>2, <2>1
<1>6. \A x \in Threads : x \notin D \cup {t} /\ x # thr[t].parent =>
        g[x] = IF \E d \in D \cup {t} : x \in thr[d].detached_children THEN Orphan(thr[x]) ELSE thr[x]
  <2>1. SUFFICES ASSUME NEW x \in Threads, x \notin D \cup {t}
                 PROVE  g[x] = IF \E d \in D \cup {t} : x \in thr[d].detached_children
                               THEN Orphan(thr[x]) ELSE thr[x]
    OBVIOUS
  <2>2. (\E d \in D \cup {t} : x \in thr[d].detached_children)
          <=> \E d \in D : x \in thr[d].detached_children
    BY <1>2
  <2>3. g[x] = IF \E d \in D : x \in thr[d].detached_children THEN Orphan(thr[x]) ELSE thr[x]
    BY <1>2, <2>1 DEF OffRows
  <2>4. QED
    BY <2>2, <2>3
<1>7. TreeGone(thr, g, t, D, D, {t}, {})
  <2>1. t \notin D /\ D \cup {t} = D \cup {t} /\ D \cap {t} = {}
    BY <1>2 DEF BelowTree
  <2>2. \A x \in D : GoneRow(thr[x], g[x])
    BY <1>2 DEF OffRows
  <2>3. QED
    BY <1>2, <1>4, <1>5, <1>6, <2>1, <2>2 DEF TreeGone
<1>8. QED
  BY <1>1, <1>2, <1>3, <1>7 DEF Disabled

LEMMA DisableJoined ==
  ASSUME IInv, NEW t \in Threads, MayDisable(t), Disables(t), NEW p, p = thr[t].parent, p # None,
         thr[p].i_am_joining
  PROVE  Disabled(t, Descendants(thr, t) \cup {t}, {}, {p}) /\ aborted' = FALSE
<1>1. PICK D, g, r : D = Descendants(thr, t) /\ g = TurnedOff(thr, t) /\ r = thr'
  OBVIOUS
<1>2. /\ Good(thr) /\ thr[t].exists /\ thr[t].detached_children = {} /\ ~ thr[t].i_am_detached
      /\ BelowTree(thr, t, D) /\ OffRows(thr, g, t, D) /\ DisableOk(thr, t)
      /\ g[t].parent = p /\ g \in [Threads -> vthread_s]
      /\ Joined(g, t) /\ Wakes(thr, t)
      /\ p \in Threads /\ p \notin D \cup {t} /\ g[p] = thr[p] /\ Alive(thr, p)
      /\ thr[p] \in vthread_s /\ Counted(thr[p], todo[p])
      /\ ~ thr[p].i_am_waiting /\ ~ thr[p].i_have_ended
      /\ thr[p].children \cap D = {} /\ thr[p].detached_children \cap D = {}
      /\ t \in thr[p].children /\ t \notin thr[p].detached_children
  BY <1>1, DisableFacts
<1>3. PICK h : h = [g EXCEPT ![p].i_am_joining = FALSE, ![p].is_scheduled = @ \/ ~ g[p].i_have_ended]
  OBVIOUS
<1>4. r = vthread_reap(h, t) /\ active' = Push(active, p) /\ aborted' = FALSE
  BY <1>1, <1>2, <1>3 DEF Disables, do_disable, Check
<1>5. /\ h[p].i_am_joining = FALSE /\ h[p].is_scheduled = TRUE /\ h[p] \in vthread_s
      /\ SameLife(thr[p], h[p]) /\ h[p].parent = thr[p].parent
      /\ h[p].i_am_detached = thr[p].i_am_detached /\ h[p].children = thr[p].children
      /\ h[p].detached_children = thr[p].detached_children
      /\ h[p].i_am_waiting = thr[p].i_am_waiting
      /\ h \in [Threads -> vthread_s] /\ \A x \in Threads : x # p => h[x] = g[x]
  <2>1. PICK n : n = [thr[p] EXCEPT !.i_am_joining = FALSE, !.is_scheduled = TRUE]
    OBVIOUS
  <2>2. /\ n.i_am_joining = FALSE /\ n.is_scheduled = TRUE /\ n \in vthread_s
        /\ SameLife(thr[p], n) /\ n.parent = thr[p].parent
        /\ n.i_am_detached = thr[p].i_am_detached /\ n.children = thr[p].children
        /\ n.detached_children = thr[p].detached_children
        /\ n.i_am_waiting = thr[p].i_am_waiting
    BY <1>2, <2>1 DEF SameLife, vthread_s
  <2>3. h = [g EXCEPT ![p] = n]
    BY <1>2, <1>3, <2>1
  <2>4. QED
    BY <1>2, <2>2, <2>3
<1>6. GoneRows(thr, r, t, D) /\ r[p] = Lost(h[p], t, thr[t].i_am_detached)
  BY <1>2, <1>4, <1>5, TurnedReaped
<1>7. PICK q, n : q = h[p] /\ n = r[p]
  OBVIOUS
<1>8. /\ SameLife(q, n) /\ n.parent = q.parent /\ n.i_am_detached = q.i_am_detached
      /\ n.children = q.children \ {t} /\ n.detached_children = q.detached_children
      /\ n.i_am_joining = q.i_am_joining /\ n.i_am_waiting = q.i_am_waiting
      /\ n.is_scheduled = q.is_scheduled
  <2>1. thr[t].i_am_detached = FALSE
    <3>1. thr[t].i_am_detached \in BOOLEAN
      BY <1>2, Fields DEF Good
    <3>2. QED
      BY <1>2, <3>1
  <2>2. q \in vthread_s /\ FALSE \in BOOLEAN /\ n = Lost(q, t, FALSE)
    BY <1>5, <1>6, <1>7, <2>1
  <2>3. QED
    BY ZenonT(60), <2>2, LostFields
<1>9. KeptRow(thr[p], n, D \cup {t}, FALSE, TRUE)
  <2>1. /\ SameLife(thr[p], n) /\ n.parent = thr[p].parent
        /\ n.i_am_detached = thr[p].i_am_detached /\ ~ n.i_am_joining /\ ~ n.i_am_waiting
        /\ n.is_scheduled
    BY SMTT(30), <1>2, <1>5, <1>7, <1>8 DEF SameLife
  <2>2. /\ n.children = thr[p].children \ (D \cup {t})
        /\ n.detached_children = thr[p].detached_children \ (D \cup {t})
    <3>1. PICK C, E : C = thr[p].children /\ E = thr[p].detached_children
      OBVIOUS
    <3>2. n.children = C \ {t} /\ n.detached_children = E
      BY <1>5, <1>7, <1>8, <3>1
    <3>3. C \cap D = {} /\ E \cap D = {} /\ t \notin E
      BY <1>2, <3>1
    <3>4. C \ {t} = C \ (D \cup {t}) /\ E = E \ (D \cup {t})
      BY <3>3
    <3>5. QED
      BY <3>1, <3>2, <3>4
  <2>3. QED
    BY SMTT(30), <2>1, <2>2 DEF KeptRow
<1>10. TreeGone(thr, r, t, D, D \cup {t}, {}, {p})
  <2>1. KeptRow(thr[p], r[p], D \cup {t}, FALSE, p \in {p})
    BY <1>7, <1>9
  <2>2. QED
    BY <1>2, <1>6, <2>1 DEF TreeGone, GoneRows
<1>11. Counted(r[p], todo[p]) /\ ~ r[p].i_am_waiting
  <2>1. n.children = thr[p].children \ {t} /\ ~ n.i_am_joining /\ ~ n.i_am_waiting
    BY <1>2, <1>5, <1>7, <1>8
  <2>2. PICK b, j, d, m : b = todo[p].fork /\ j = todo[p].join /\ d = todo[p].detach
                          /\ m = Cardinality(thr[p].children \ {t})
    OBVIOUS
  <2>3. thr[p].children \in SUBSET Threads /\ todo[p] \in Block
    BY <1>2, Fields, TypedQueues
  <2>4. m \in Nat /\ Cardinality(thr[p].children) = m + 1
    BY <1>2, <2>2, <2>3, ChildLess
  <2>5. b \in Nat /\ j \in Nat /\ d \in Nat
    BY <2>2, <2>3, BlockFields
  <2>6. (m + 1) + b = j + d + 1
    BY <1>2, <2>2, <2>4 DEF Counted
  <2>7. m + b = j + d + 0
    BY <2>4, <2>5, <2>6
  <2>8. QED
    BY <1>7, <2>1, <2>2, <2>7 DEF Counted
<1>12. QED
  BY <1>1, <1>2, <1>4, <1>6, <1>10, <1>11 DEF Disabled, GoneRows

(* The three together: the threads that go are t and those below it. *)
LEMMA DisablesCut ==
  ASSUME IInv, NEW t \in Threads, MayDisable(t), Disables(t)
  PROVE  /\ \E K, Z, W : Disabled(t, K, Z, W) /\ K \cup Z = Descendants(thr, t) \cup {t}
         /\ aborted' = FALSE
<1>1. CASE thr[t].parent = None
  <2>1. Disabled(t, Descendants(thr, t) \cup {t}, {}, {}) /\ aborted' = FALSE
    BY <1>1, DisableRoot
  <2>2. (Descendants(thr, t) \cup {t}) \cup {} = Descendants(thr, t) \cup {t}
    OBVIOUS
  <2>3. QED
    BY <2>1, <2>2
<1>2. CASE thr[t].parent # None
  <2>1. PICK p : p = thr[t].parent
    OBVIOUS
  <2>2. CASE thr[p].i_am_joining
    <3>1. Disabled(t, Descendants(thr, t) \cup {t}, {}, {p}) /\ aborted' = FALSE
      BY <1>2, <2>1, <2>2, DisableJoined
    <3>2. (Descendants(thr, t) \cup {t}) \cup {} = Descendants(thr, t) \cup {t}
      OBVIOUS
    <3>3. QED
      BY <3>1, <3>2
  <2>3. CASE ~ thr[p].i_am_joining
    <3>1. Disabled(t, Descendants(thr, t), {t}, {}) /\ aborted' = FALSE
      BY <1>2, <2>1, <2>3, DisableEnded
    <3>2. QED
      BY <3>1
  <2>4. QED
    BY <2>2, <2>3
<1>3. QED
  BY <1>1, <1>2

(* What a program that disables threads does not do. *)
LEMMA NotSuspended ==
  ASSUME IInv, {"disable", "flow", "disfork"} \cap Opcodes # {}
  PROVE  Range(suspended) = {}
<1>1. suspended = << >>
  BY DEF IInv, Sound, Opcodes
<1>2. QED
  BY <1>1, RangeNone

LEMMA NotDetached ==
  ASSUME IInv, {"disable", "flow"} \cap Opcodes # {}
  PROVE  NoDetached(thr, todo)
  BY DEF IInv, Sound, Opcodes

(* What becomes of the running thread. *)
LEMMA RunningCut ==
  ASSUME NEW f, Rows(f), NEW g, NEW K, NEW Z, NEW W, Cut(f, g, K, Z, W), NEW t \in Threads,
         ~ f[t].is_scheduled, ~ f[t].waiting_for_event,
         f[t].exists \/ f[t].zombie, f[t].exists /\ f[t].zombie => f[t].parent # None
  PROVE  /\ g[t].exists \/ g[t].zombie
         /\ g[t].exists /\ g[t].zombie => g[t].parent # None
         /\ t \notin K \cup Z => (Alive(g, t) <=> Alive(f, t))
<1>1. CASE t \in K
  <2>1. g[t] = Deleted
    BY <1>1 DEF Cut, GoneRow
  <2>2. QED
    BY <1>1, <2>1, DeletedFields
<1>2. CASE t \in Z
  BY <1>2 DEF Cut, EndedRow
<1>3. CASE t \notin K \cup Z
  <2>1. KeptRow(f[t], g[t], K, f[t].parent \in K \cup Z, t \in W) /\ RowOk(f[t])
    BY <1>3 DEF Cut, Rows
  <2>2. SameLife(f[t], g[t])
    BY <2>1 DEF KeptRow
  <2>3. f[t].parent \in K \cup Z => f[t].i_am_detached /\ f[t].parent # None
    BY <1>3, ThreadsAssumption DEF Cut
  <2>4. f[t].exists /\ f[t].zombie => g[t].parent = f[t].parent
    BY <2>1, <2>3 DEF RowOk, KeptRow
  <2>5. QED
    BY <2>2, <2>4 DEF SameLife, Alive
<1>4. QED
  BY <1>1, <1>2, <1>3

LEMMA DisableStepKeeps ==
  ASSUME IInv, DisableStep, program' = program
  PROVE  IInv'
<1>1. PICK t \in Threads : thr[t].in_scope /\ Disables(t)
  BY DEF DisableStep
<1>2. /\ disabling \in Scopes
      /\ UNCHANGED <<todo, later, event_list, suspended, running, rest, disabling>>
  BY DEF DisableStep
<1>3. /\ "disable" \in Opcodes /\ running # None /\ running \in Threads
      /\ (thr[running].exists \/ thr[running].zombie)
      /\ (thr[running].exists /\ thr[running].zombie => thr[running].parent # None)
  BY <1>2, ThreadsAssumption DEF IInv, RunOk, TypeOK
<1>4. MayDisable(t)
  <2>1. RowOk(thr[t]) /\ NoDetached(thr, todo)
    BY <1>3, NotDetached DEF IInv, Rows
  <2>2. QED
    BY <1>1, <2>1 DEF MayDisable, RowOk, Alive
<1>5. aborted' = FALSE /\ \E K, Z, W : Disabled(t, K, Z, W) /\ K \cup Z = Descendants(thr, t) \cup {t}
  BY <1>1, <1>4, DisablesCut
<1>6. PICK K, Z, W : Disabled(t, K, Z, W)
  BY <1>5
<1>7. (K \cup Z) \cap Range(suspended) = {}
  BY <1>3, NotSuspended
<1>8. PICK g, u : g = thr' /\ u = running
  OBVIOUS
<1>9. (g[u].exists \/ g[u].zombie) /\ (g[u].exists /\ g[u].zombie => g[u].parent # None)
  <2>1. Good(thr) /\ Places(thr, running, suspended)
    BY GoodThr
  <2>2. Cut(thr, g, K, Z, W)
    BY <1>6, <1>8, <2>1, TreeGoneCut DEF Disabled
  <2>3. PlaceOk(thr[u], running = u, u \in Range(suspended))
    BY <1>3, <1>8, <2>1 DEF Places
  <2>4. ~ thr[u].is_scheduled /\ ~ thr[u].waiting_for_event
    BY <1>8, <2>3 DEF PlaceOk
  <2>5. QED
    BY <1>3, <1>8, <2>1, <2>2, <2>4, RunningCut DEF Good
<1>10. RunOk'
  BY <1>2, <1>3, <1>8, <1>9, ThreadsAssumption DEF RunOk, Opcodes
<1>11. QED
  BY <1>2, <1>5, <1>6, <1>7, <1>10, DisabledKeeps

(* A thread that lives has only threads that live above it. *)
LEMMA AliveAbove ==
  ASSUME NEW t \in Threads, Good(thr), Alive(thr, t), NEW x \in Ancestors(t)
  PROVE  x \in Threads /\ Alive(thr, x)
<1>1. PICK S : S = {y \in Threads : Alive(thr, y)}
  OBVIOUS
<1>2. \A y \in S : thr[y].parent \in S \cup {None}
  <2>1. \A y \in Threads : thr[y].parent # None => thr[y].parent \in Threads /\ Alive(thr, thr[y].parent)
    BY ParentIs DEF Good, Linked
  <2>2. QED
    BY <1>1, <2>1
<1>3. t \in S /\ S \in SUBSET Threads
  BY <1>1
<1>4. x \in S
  BY <1>2, <1>3 DEF Ancestors
<1>5. QED
  BY <1>1, <1>4

LEMMA FlowStep ==
  ASSUME IInv, NEW t \in Threads, NEW s \in Scopes, of_DISABLE_FLOW(t, s), program' = program
  PROVE  IInv'
<1>1. /\ At(t) /\ "flow" \in Opcodes
      /\ UNCHANGED <<todo, later, event_list, suspended, rest, disabling>>
  BY BodyFacts DEF of_DISABLE_FLOW
<1>2. running = t /\ disabling = None /\ Alive(thr, t) /\ Good(thr) /\ t # None
      /\ ~ thr[t].is_scheduled /\ ~ thr[t].waiting_for_event /\ thr[t].exists /\ ~ thr[t].zombie
  BY <1>1, AtFacts, GoodThr, ThreadsAssumption
<1>3. PICK cur : /\ cur \in Closest(t, s) /\ Disables(cur)
                 /\ running' = IF t = cur \/ t \in Descendants(thr, cur) THEN None ELSE running
  BY DEF of_DISABLE_FLOW
<1>4. cur \in Threads /\ Alive(thr, cur)
  <2>1. cur = t \/ cur \in Ancestors(t)
    BY <1>3 DEF Closest
  <2>2. QED
    BY <1>2, <2>1, AliveAbove
<1>5. MayDisable(cur)
  BY <1>1, <1>4, NotDetached DEF MayDisable, Alive
<1>6. aborted' = FALSE /\ \E K, Z, W : Disabled(cur, K, Z, W) /\ K \cup Z = Descendants(thr, cur) \cup {cur}
  BY <1>3, <1>4, <1>5, DisablesCut
<1>7. PICK K, Z, W : Disabled(cur, K, Z, W) /\ K \cup Z = Descendants(thr, cur) \cup {cur}
  BY <1>6
<1>8. (K \cup Z) \cap Range(suspended) = {}
  BY <1>1, NotSuspended
<1>9. PICK g : g = thr'
  OBVIOUS
<1>10. t \notin K \cup Z => g[t].exists
  <2>1. Cut(thr, g, K, Z, W)
    BY <1>2, <1>4, <1>7, <1>9, TreeGoneCut DEF Disabled
  <2>2. t \notin K \cup Z => (Alive(g, t) <=> Alive(thr, t))
    BY <1>2, <2>1, RunningCut DEF Good
  <2>3. QED
    BY <1>2, <2>2 DEF Alive
<1>11. running' = running \/ (running' = None /\ running \in K \cup Z)
  BY <1>2, <1>3, <1>7
<1>12. RunOk'
  <2>1. running' # None => running' = t /\ t \notin K \cup Z
    BY <1>2, <1>3, <1>7
  <2>2. QED
    BY <1>1, <1>2, <1>9, <1>10, <2>1, ThreadsAssumption DEF RunOk
<1>13. QED
  BY <1>1, <1>4, <1>6, <1>7, <1>8, <1>11, <1>12, DisabledKeeps

(* %disable/fork: the thread that executes it is not in a %join, and what  *)
(* it turns off are its detached children.                                 *)
LEMMA DisableForkCut ==
  ASSUME IInv, NEW p, p = running, disabling \in Threads, NEW c \in thr[p].detached_children
  PROVE  /\ p \in Threads /\ p # None /\ Good(thr) /\ Alive(thr, p)
         /\ c \in Threads /\ thr[c].parent = p /\ thr[c].i_am_detached /\ Alive(thr, c)
         /\ ~ thr[p].i_am_joining /\ ~ thr[p].i_am_waiting
         /\ ~ thr[p].is_scheduled /\ ~ thr[p].waiting_for_event
         /\ Counted(thr[p], todo[p]) /\ thr[p] \in vthread_s
<1>1. disabling = p /\ Alive(thr, p) /\ p \in Threads /\ p # None
  BY ThreadsAssumption DEF IInv, RunOk
<1>2. Good(thr) /\ Places(thr, running, suspended) /\ Counts(thr, todo)
  BY GoodThr
<1>3. thr[p] \in vthread_s
  BY <1>1, <1>2 DEF Good
<1>4. thr[p].detached_children \subseteq Threads
  BY <1>3 DEF vthread_s
<1>5. c \in Threads
  BY <1>4
<1>6. thr[c].parent = p /\ thr[c].i_am_detached
  BY <1>1, <1>2, <1>5 DEF Good, Linked
<1>7. Alive(thr, c)
  <2>1. RowOk(thr[c])
    BY <1>2, <1>5 DEF Good, Rows
  <2>2. QED
    BY <1>1, <1>6, <2>1 DEF RowOk, Alive
<1>8. PlaceOk(thr[p], running = p, p \in Range(suspended)) /\ thr[p].exists /\ ~ thr[p].zombie
  BY <1>1, <1>2 DEF Places, Alive
<1>9. /\ ~ thr[p].i_am_joining /\ ~ thr[p].i_am_waiting
      /\ ~ thr[p].is_scheduled /\ ~ thr[p].waiting_for_event
  BY <1>8 DEF PlaceOk
<1>10. QED
  BY <1>1, <1>2, <1>3, <1>5, <1>6, <1>7, <1>9 DEF Counts

LEMMA DisableForkStepKeeps ==
  ASSUME IInv, DisableForkStep, program' = program
  PROVE  IInv'
<1>0. PICK p : p = running
  OBVIOUS
<1>1. /\ disabling \in Threads /\ disabling = p /\ "disfork" \in Opcodes
      /\ UNCHANGED <<todo, later, event_list, suspended, running, rest, disabling>>
  BY <1>0 DEF DisableForkStep, IInv, RunOk
<1>2. PICK c \in thr[p].detached_children :
        /\ thr' = vthread_reap(do_disable(thr, c), c)
        /\ active' = IF Wakes(thr, c) THEN Push(active, thr[c].parent) ELSE active
        /\ Check(/\ thr[c].parent = p /\ DisableOk(thr, c) /\ ReapOk(do_disable(thr, c), c)
                 /\ running # c /\ running \notin Descendants(thr, c))
  BY <1>1 DEF DisableForkStep
<1>3. /\ p \in Threads /\ p # None /\ Good(thr) /\ Alive(thr, p)
      /\ c \in Threads /\ thr[c].parent = p /\ thr[c].i_am_detached /\ Alive(thr, c)
      /\ ~ thr[p].i_am_joining /\ ~ thr[p].i_am_waiting
      /\ ~ thr[p].is_scheduled /\ ~ thr[p].waiting_for_event
      /\ Counted(thr[p], todo[p]) /\ thr[p] \in vthread_s
  BY <1>0, <1>1, DisableForkCut
<1>4. thr[c].exists /\ c \in thr[p].detached_children
  BY <1>3 DEF Alive
<1>5. PICK D, g, r : D = Descendants(thr, c) /\ g = TurnedOff(thr, c) /\ r = thr'
  OBVIOUS
<1>6. BelowTree(thr, c, D)
  BY <1>3, <1>5, DescendantsTree
<1>7. OffRows(thr, g, c, D)
  BY <1>3, <1>5, TurnedOffRows
<1>8. /\ g[c].parent = p /\ p \notin D \cup {c} /\ g[p] = thr[p] /\ ~ Joined(g, c)
  BY <1>3, <1>6, <1>7, TurnedParent
<1>9. DisableOk(thr, c) /\ ReapOk(g, c) /\ ~ Wakes(thr, c)
  BY <1>3, <1>4, <1>5, DisableAsserts
<1>10. do_disable(thr, c) = g
  BY <1>3, <1>5, <1>8 DEF do_disable
<1>11. r = vthread_reap(g, c) /\ active' = active /\ aborted' = FALSE
  BY <1>0, <1>2, <1>3, <1>5, <1>8, <1>9, <1>10 DEF Check
<1>12. GoneRows(thr, r, c, D) /\ r[p] = Lost(g[p], c, thr[c].i_am_detached)
  <2>1. g \in [Threads -> vthread_s]
    BY <1>7 DEF OffRows
  <2>2. PICK f, h : f = thr /\ h = g
    OBVIOUS
  <2>3. /\ Good(f) /\ c \in Threads /\ f[c].exists
        /\ Alive(f, c) \/ f[c].detached_children = {}
        /\ BelowTree(f, c, D) /\ OffRows(f, g, c, D) /\ p = f[c].parent
        /\ h \in [Threads -> vthread_s] /\ (\A x \in Threads : x # p => h[x] = g[x])
        /\ r = vthread_reap(h, c)
    BY <1>3, <1>4, <1>6, <1>7, <1>11, <2>1, <2>2
  <2>4. GoneRows(f, r, c, D) /\ (p # None => r[p] = Lost(h[p], c, f[c].i_am_detached))
    BY <2>3, TurnedReaped
  <2>5. GoneRows(thr, r, c, D) /\ (p # None => r[p] = Lost(g[p], c, thr[c].i_am_detached))
    BY <2>2, <2>4
  <2>6. QED
    BY <1>3, <2>5
<1>13. PICK q, n : q = thr[p] /\ n = r[p]
  OBVIOUS
<1>14. /\ SameLife(q, n) /\ n.parent = q.parent /\ n.i_am_detached = q.i_am_detached
       /\ n.children = q.children /\ n.detached_children = q.detached_children \ {c}
       /\ n.i_am_joining = q.i_am_joining /\ n.i_am_waiting = q.i_am_waiting
       /\ n.is_scheduled = q.is_scheduled
  <2>1. thr[c].i_am_detached = TRUE
    <3>1. thr[c].i_am_detached \in BOOLEAN
      BY <1>3, Fields DEF Good
    <3>2. QED
      BY <1>3, <3>1
  <2>2. q \in vthread_s /\ TRUE \in BOOLEAN /\ n = Lost(q, c, TRUE)
    BY <1>3, <1>8, <1>12, <1>13, <2>1
  <2>3. QED
    BY ZenonT(60), <2>2, LostFields
<1>15. q.children \cap D = {} /\ q.detached_children \cap D = {} /\ c \notin q.children
  BY <1>3, <1>6, <1>13, TreeChildren
<1>16. KeptRow(q, n, D \cup {c}, FALSE, FALSE)
  <2>1. /\ n.children = q.children \ (D \cup {c})
        /\ n.detached_children = q.detached_children \ (D \cup {c})
    BY <1>14, <1>15
  <2>2. QED
    BY <1>14, <2>1 DEF KeptRow
<1>17. TreeGone(thr, r, c, D, D \cup {c}, {}, {})
  <2>1. KeptRow(thr[p], r[p], D \cup {c}, FALSE, p \in {})
    <3>1. (p \in {}) = FALSE
      OBVIOUS
    <3>2. KeptRow(thr[p], r[p], D \cup {c}, FALSE, FALSE)
      BY <1>13, <1>16
    <3>3. QED
      BY <3>1, <3>2
  <2>2. QED
    BY <1>3, <1>4, <1>6, <1>12, <2>1 DEF TreeGone, GoneRows
<1>18. Counted(r[p], todo[p]) /\ ~ r[p].i_am_waiting
  BY <1>3, <1>13, <1>14 DEF Counted
<1>19. Disabled(c, D \cup {c}, {}, {})
  BY <1>3, <1>5, <1>11, <1>12, <1>17, <1>18 DEF Disabled, GoneRows
<1>20. Alive(r, p)
  <2>1. Cut(thr, r, D \cup {c}, {}, {})
    BY <1>3, <1>17, TreeGoneCut
  <2>2. thr[p].exists /\ ~ thr[p].zombie /\ Rows(thr)
    BY <1>3 DEF Alive, Good
  <2>3. QED
    BY <1>3, <1>8, <2>1, <2>2, RunningCut
<1>21. RunOk'
  BY <1>0, <1>1, <1>3, <1>5, <1>20, ThreadsAssumption DEF RunOk, Alive, Opcodes
<1>22. ((D \cup {c}) \cup {}) \cap Range(suspended) = {}
  BY <1>1, NotSuspended
<1>23. QED
  BY <1>1, <1>3, <1>11, <1>19, <1>21, <1>22, DisabledKeeps

-----------------------------------------------------------------------------
(* The initial state. *)
StartRow(r, root) ==
  /\ r \in vthread_s /\ r.exists = root /\ r.in_scope = root /\ r.is_scheduled = root
  /\ ~ r.freed /\ ~ r.zombie /\ r.parent = None /\ r.children = {} /\ r.detached_children = {}
  /\ ~ r.i_am_joining /\ ~ r.i_am_detached /\ ~ r.i_am_waiting
  /\ ~ r.i_have_ended /\ ~ r.waiting_for_event

LEMMA StartRows ==
  ASSUME NEW R \in SUBSET Threads, NEW s \in [R -> Scopes], NEW x \in Threads, NEW r,
         r = IF x \in R THEN [vthread_new(None, s[x]) EXCEPT !.is_scheduled = TRUE] ELSE NoThread
  PROVE  StartRow(r, x \in R)
<1>1. AScope \in Scopes /\ None \in Threads \cup {None} /\ {} \in SUBSET Threads
  BY ThreadsAssumption DEF AScope
<1>2. CASE x \in R
  <2>1. s[x] \in Scopes
    BY <1>2
  <2>2. PICK z : z = s[x]
    OBVIOUS
  <2>3. r = [vthread_new(None, z) EXCEPT !.is_scheduled = TRUE] /\ z \in Scopes
    BY <1>2, <2>1, <2>2
  <2>4. StartRow(r, TRUE)
    BY <1>1, <2>3 DEF StartRow, vthread_new, vthread_s
  <2>5. (x \in R) = TRUE
    BY <1>2
  <2>6. QED
    BY <2>4, <2>5
<1>3. CASE x \notin R
  <2>1. r = NoThread
    BY <1>3
  <2>2. StartRow(r, FALSE)
    BY <1>1, <2>1 DEF StartRow, NoThread, vthread_new, vthread_s
  <2>3. (x \in R) = FALSE
    BY <1>3
  <2>4. QED
    BY <2>2, <2>3
<1>4. QED
  BY <1>2, <1>3

(* Each of the threads that are there is in one list of its own. *)
LEMMA StartLists ==
  ASSUME NEW R \in SUBSET Threads, NEW q \in SetToSeqs(R), NEW a, a = [i \in DOMAIN q |-> <<q[i]>>]
  PROVE  a \in Seq(Seq(Threads) \ {<< >>}) /\ Members(a) = R /\ Once(a)
<1>1. PICK n : n = Cardinality(R)
  OBVIOUS
<1>2. IsFiniteSet(R) /\ n \in Nat
  BY <1>1, ThreadsAssumption, FS_Subset, FS_CardinalityType
<1>3. q \in [1..n -> R] /\ \A i, j \in 1..n : i # j => q[i] # q[j]
  BY <1>1 DEF SetToSeqs
<1>4. q \in Injection(1..n, R)
  <2>1. DOMAIN q = 1..n
    BY <1>3
  <2>2. QED
    BY <1>3, <2>1 DEF Injection, IsInjective
<1>5. Cardinality(1..n) = n
  BY <1>2, FS_Interval
<1>6. \A x \in R : \E i \in 1..n : q[i] = x
  <2>1. q \in Surjection(1..n, R)
    BY <1>1, <1>2, <1>4, <1>5, FS_Injection
  <2>2. QED
    BY <2>1 DEF Surjection
<1>7. DOMAIN a = 1..n /\ \A i \in 1..n : a[i] = <<q[i]>>
  BY <1>3
<1>8. \A i \in 1..n : a[i] \in Seq(Threads) \ {<< >>} /\ DOMAIN a[i] = {1} /\ a[i][1] = q[i]
  <2>1. SUFFICES ASSUME NEW i \in 1..n
                 PROVE  a[i] \in Seq(Threads) \ {<< >>} /\ DOMAIN a[i] = {1} /\ a[i][1] = q[i]
    OBVIOUS
  <2>2. q[i] \in Threads /\ a[i] = <<q[i]>>
    BY <1>3, <1>7
  <2>3. PICK y, l : y = q[i] /\ l = a[i]
    OBVIOUS
  <2>4. y \in Threads /\ l = <<y>>
    BY <2>2, <2>3
  <2>5. l \in Seq(Threads) /\ l # << >> /\ DOMAIN l = {1} /\ l[1] = y
    BY <2>4
  <2>6. QED
    BY <2>3, <2>5
<1>9. a \in Seq(Seq(Threads) \ {<< >>})
  <2>1. a \in [1..n -> Seq(Threads) \ {<< >>}]
    <3>1. a = [i \in 1..n |-> a[i]]
      BY <1>3
    <3>2. QED
      BY <1>8, <3>1
  <2>2. QED
    BY <1>2, <2>1
<1>10. Members(a) = R
  <2>1. \A i \in 1..n : Range(a[i]) = {q[i]} /\ q[i] \in R
    <3>1. SUFFICES ASSUME NEW i \in 1..n PROVE Range(a[i]) = {q[i]} /\ q[i] \in R
      OBVIOUS
    <3>2. DOMAIN a[i] = {1} /\ a[i][1] = q[i] /\ q[i] \in R
      BY <1>3, <1>8
    <3>3. QED
      BY <3>2 DEF Range
  <2>2. \A x : x \in Members(a) <=> \E i \in 1..n : x \in Range(a[i])
    BY <1>7, MembersAre
  <2>3. ASSUME NEW x \in Members(a) PROVE x \in R
    <3>1. PICK i \in 1..n : x \in Range(a[i])
      BY <2>2
    <3>2. Range(a[i]) = {q[i]} /\ q[i] \in R
      BY <2>1
    <3>3. QED
      BY <3>1, <3>2
  <2>4. ASSUME NEW x \in R PROVE x \in Members(a)
    <3>1. PICK i \in 1..n : q[i] = x
      BY <1>6
    <3>2. Range(a[i]) = {q[i]}
      BY <2>1
    <3>3. QED
      BY <2>2, <3>1, <3>2
  <2>5. QED
    BY <2>3, <2>4
<1>11. Once(a)
  <2>1. SUFFICES ASSUME NEW i \in 1..n, NEW k \in 1..n, NEW j \in DOMAIN a[i], NEW l \in DOMAIN a[k],
                        a[i][j] = a[k][l]
                 PROVE  i = k /\ j = l
    BY <1>7 DEF Once
  <2>2. j = 1 /\ l = 1 /\ q[i] = q[k]
    BY <1>8, <2>1
  <2>3. QED
    BY <1>3, <2>2
<1>12. QED
  BY <1>9, <1>10, <1>11

LEMMA StartTable ==
  ASSUME NEW f \in [Threads -> vthread_s], NEW R, \A x \in Threads : StartRow(f[x], x \in R),
         NEW td, td = [t \in Threads |-> NoBlock]
  PROVE  /\ Rows(f) /\ Linked(f) /\ Acyclic(f) /\ Counts(f, td) /\ NoDetached(f, td)
         /\ td \in [Threads -> Block] /\ Places(f, None, << >>)
<1>0. \A x \in Threads : td[x] = NoBlock
  OBVIOUS
<1>1. /\ NoBlock \in Block
      /\ NoBlock.fork = 0 /\ NoBlock.join = 0 /\ NoBlock.detach = 0
  <2>1. AScope \in Scopes /\ 0 \in 0..MaxFork
    BY ThreadsAssumption DEF AScope
  <2>2. QED
    BY <2>1 DEF NoBlock, Block
<1>2. \A x \in Threads : /\ td[x].fork = 0 /\ td[x].join = 0 /\ td[x].detach = 0
  BY <1>0, <1>1
<1>3. td \in [Threads -> Block]
  BY <1>1
<1>4. \A x \in Threads :
        /\ ~ f[x].freed /\ ~ f[x].zombie /\ f[x].parent = None /\ f[x].children = {}
        /\ f[x].detached_children = {} /\ ~ f[x].i_am_joining /\ ~ f[x].i_am_detached
        /\ ~ f[x].i_am_waiting /\ ~ f[x].i_have_ended /\ ~ f[x].waiting_for_event
        /\ f[x].exists = (x \in R) /\ f[x].in_scope = (x \in R) /\ f[x].is_scheduled = (x \in R)
  BY DEF StartRow
<1>5. Rows(f)
  BY <1>4 DEF Rows, RowOk
<1>6. Linked(f)
  BY <1>4, ThreadsAssumption DEF Linked, Alive
<1>7. Acyclic(f)
  <2>1. [x \in Threads |-> 0] \in [Threads -> Nat]
    OBVIOUS
  <2>2. \A rank : Below(rank, f)
    BY <1>4 DEF Below
  <2>3. QED
    BY <2>1, <2>2 DEF Acyclic
<1>8. Counts(f, td)
  <2>1. \A x \in Threads : Counted(f[x], td[x])
    <3>1. Cardinality({}) = 0
      BY FS_EmptySet
    <3>2. SUFFICES ASSUME NEW x \in Threads PROVE Counted(f[x], td[x])
      OBVIOUS
    <3>3. PICK r, b : r = f[x] /\ b = td[x]
      OBVIOUS
    <3>4. r.children = {} /\ ~ r.i_am_joining /\ b.fork = 0 /\ b.join = 0 /\ b.detach = 0
      BY <1>2, <1>4, <3>3
    <3>5. Counted(r, b)
      BY <3>1, <3>4 DEF Counted
    <3>6. QED
      BY <3>3, <3>5
  <2>2. QED
    BY <1>2, <1>4, <2>1 DEF Counts
<1>9. NoDetached(f, td)
  BY <1>2, <1>4 DEF NoDetached
<1>10. Places(f, None, << >>)
  <2>1. SUFFICES ASSUME NEW x \in Threads PROVE PlaceOk(f[x], None = x, x \in Range(<< >>))
    BY DEF Places
  <2>2. None # x /\ x \notin Range(<< >>)
    BY ThreadsAssumption, RangeNone
  <2>3. PlaceOk(f[x], FALSE, FALSE)
    BY <1>4 DEF PlaceOk
  <2>4. (None = x) = FALSE /\ (x \in Range(<< >>)) = FALSE
    BY <2>2
  <2>5. QED
    BY <2>3, <2>4
<1>11. QED
  BY <1>3, <1>5, <1>6, <1>7, <1>8, <1>9, <1>10

LEMMA InitIInv ==
  ASSUME SoundPrograms, Init
  PROVE  IInv
<1>1. PICK R, f, a : R = program.roots /\ f = thr /\ a = active
  OBVIOUS
<1>2. program \in Programs /\ Sound(program) /\ R \in SUBSET Threads
  <2>1. program \in Kinds
    BY ThreadsAssumption DEF Init
  <2>2. program \in Programs
    BY DEF Init
  <2>3. R \in SUBSET Threads
    BY <1>1, <2>1 DEF Kinds
  <2>4. QED
    BY <2>2, <2>3 DEF SoundPrograms
<1>3. PICK s \in [R -> Scopes] :
        f = [t \in Threads |->
               IF t \in R THEN [vthread_new(None, s[t]) EXCEPT !.is_scheduled = TRUE] ELSE NoThread]
  BY <1>1 DEF Init
<1>4. \A x \in Threads : StartRow(f[x], x \in R)
  <2>1. SUFFICES ASSUME NEW x \in Threads PROVE StartRow(f[x], x \in R)
    OBVIOUS
  <2>2. f[x] = IF x \in R THEN [vthread_new(None, s[x]) EXCEPT !.is_scheduled = TRUE] ELSE NoThread
    BY <1>3
  <2>3. QED
    BY <1>2, <2>2, StartRows
<1>5. f \in [Threads -> vthread_s]
  <2>1. f = [x \in Threads |-> f[x]]
    BY <1>3
  <2>2. \A x \in Threads : f[x] \in vthread_s
    BY <1>4 DEF StartRow
  <2>3. QED
    BY <2>1, <2>2
<1>6. /\ Rows(f) /\ Linked(f) /\ Acyclic(f) /\ Counts(f, todo) /\ NoDetached(f, todo)
      /\ todo \in [Threads -> Block] /\ Places(f, None, << >>)
  <2>1. todo = [t \in Threads |-> NoBlock]
    BY DEF Init
  <2>2. QED
    BY <1>4, <1>5, <2>1, StartTable
<1>7. a \in Seq(Seq(Threads) \ {<< >>}) /\ Members(a) = R /\ Once(a)
  <2>1. PICK q \in SetToSeqs(R) : a = [i \in DOMAIN q |-> <<q[i]>>]
    BY <1>1 DEF Init
  <2>2. QED
    BY <1>2, <2>1, StartLists
<1>8. /\ later = {} /\ event_list = << >> /\ suspended = << >>
      /\ running = None /\ rest = << >> /\ disabling = None /\ aborted = FALSE
  BY DEF Init
<1>9. TypeOK
  <2>0. << >> \in Seq(Threads)
    OBVIOUS
  <2>1. /\ event_list \in Seq(Threads) /\ suspended \in Seq(Threads) /\ rest \in Seq(Threads)
        /\ later \subseteq Threads /\ running \in Threads \cup {None}
        /\ disabling \in Scopes \cup Threads \cup {None} /\ aborted \in BOOLEAN
    BY <1>8, <2>0
  <2>2. QED
    BY <1>1, <1>2, <1>5, <1>6, <1>7, <2>1 DEF TypeOK
<1>10. Queues
  <2>1. Marks(f, a, << >>, {}, << >>)
    <3>1. \A x \in Threads : f[x].is_scheduled = (x \in R) /\ ~ f[x].waiting_for_event
      BY <1>4 DEF StartRow
    <3>2. QED
      BY <1>7, <3>1, RangeNone DEF Marks
  <2>2. Apart(a, << >>, {})
    BY RangeNone DEF Apart
  <2>3. QED
    BY <1>1, <1>7, <1>8, <2>1, <2>2, RangeNone DEF Queues
<1>11. RunOk
  BY <1>8, ThreadsAssumption DEF RunOk
<1>12. QED
  BY <1>1, <1>2, <1>6, <1>8, <1>9, <1>10, <1>11 DEF IInv

-----------------------------------------------------------------------------
(* The invariant holds in every state. *)

LEMMA InstructionStep ==
  ASSUME IInv, NEW t \in Threads, Instruction(t), program' = program
  PROVE  IInv'
<1>1. CASE \E n \in 1..MaxFork, s \in Scopes : \E b \in Blocks(n) : BeginFork(t, n, b, s)
  BY <1>1, BeginForkStep
<1>2. CASE \E child \in Threads : of_FORK(t, child)
  BY <1>2, ForkStep
<1>3. CASE of_JOIN(t)
  BY <1>3, JoinStep
<1>4. CASE of_JOIN_DETACH(t)
  BY <1>4, DetachStep
<1>5. CASE of_DELAY(t)
  BY <1>5, DelayStep
<1>6. CASE of_WAIT(t)
  BY <1>6, WaitStep
<1>7. CASE of_WAIT_FORK(t)
  BY <1>7, WaitForkStep
<1>8. CASE Suspend(t)
  BY <1>8, SuspendStep
<1>9. CASE Resume(t)
  BY <1>9, ResumeStep
<1>10. CASE of_END(t)
  BY <1>10, EndStep
<1>11. CASE \E s \in Scopes : of_DISABLE(t, s)
  BY <1>11, DisableBegins
<1>12. CASE \E s \in Scopes : of_DISABLE_FLOW(t, s)
  BY <1>12, FlowStep
<1>13. CASE of_DISABLE_FORK(t)
  BY <1>13, DisableForkBegins
<1>14. CASE of_ZOMBIE(t)
  BY <1>14, ZombieStep
<1>15. QED
  BY <1>1, <1>2, <1>3, <1>4, <1>5, <1>6, <1>7, <1>8, <1>9, <1>10, <1>11, <1>12, <1>13, <1>14
     DEF Instruction

LEMMA StutterStep ==
  ASSUME IInv, UNCHANGED vars
  PROVE  IInv'
  BY DEF vars, IInv, TypeOK, Queues, RunOk, Opcodes

LEMMA NextStep ==
  ASSUME IInv, [Next /\ UNCHANGED program]_vars
  PROVE  IInv'
<1>1. CASE UNCHANGED vars
  BY <1>1, StutterStep
<1>2. CASE Next /\ program' = program
  <2>1. CASE \E t \in Threads : Instruction(t)
    BY <1>2, <2>1, InstructionStep
  <2>2. CASE vthread_schedule_list
    BY <1>2, <2>2, ScheduleListStep
  <2>3. CASE DisableStep
    BY <1>2, <2>3, DisableStepKeeps
  <2>4. CASE DisableEnd
    BY <1>2, <2>4, DisableEnds
  <2>5. CASE DisableForkStep
    BY <1>2, <2>5, DisableForkStepKeeps
  <2>6. CASE DisableForkEnd
    BY <1>2, <2>6, DisableForkEnds
  <2>7. CASE vthread_run
    BY <1>2, <2>7, RunFirstStep
  <2>8. CASE vthread_run_next
    BY <1>2, <2>8, RunNextStep
  <2>9. CASE \E t \in Threads : AdvanceTime(t)
    BY <1>2, <2>9, AdvanceTimeStep
  <2>10. CASE Finished
    BY <2>10, StutterStep DEF Finished
  <2>11. QED
    BY <1>2, <2>1, <2>2, <2>3, <2>4, <2>5, <2>6, <2>7, <2>8, <2>9, <2>10 DEF Next
<1>3. QED
  BY <1>1, <1>2

(* The threads, their pointers, their flags and the queues of vthread.cc   *)
(* agree in every state, whatever is forked, joined, detached, disabled    *)
(* and ended in which order.                                               *)
THEOREM ThreadInvariant ==
  ASSUME SoundPrograms
  PROVE  Spec => []IInv
<1>1. Init => IInv
  BY InitIInv
<1>2. IInv /\ [Next /\ UNCHANGED program]_vars => IInv'
  BY NextStep
<1>3. QED
  BY <1>1, <1>2, PTL DEF Spec

(* No assert() of the thread code fails: not those of vthread_reap and     *)
(* do_disable on the sets of children, not the one of schedule_vthread on  *)
(* a thread that is scheduled already, not the counts of %join/detach.     *)
THEOREM NoAssertFailsHolds ==
  ASSUME SoundPrograms
  PROVE  Spec => []NoAssertFails
<1>1. IInv => NoAssertFails
  BY DEF IInv, NoAssertFails
<1>2. QED
  BY <1>1, ThreadInvariant, PTL

(* A thread that does not exist is known to nobody. *)
LEMMA GoneIsNowhere ==
  ASSUME IInv, NEW t \in Threads, ~ thr[t].exists
  PROVE  t \notin Queued /\ (disabling = None => running # t)
<1>1. RowOk(thr[t]) /\ PlaceOk(thr[t], running = t, t \in Range(suspended))
  BY DEF IInv, Rows, Places
<1>2. ~ thr[t].is_scheduled /\ ~ thr[t].waiting_for_event /\ t \notin Range(suspended)
  BY <1>1 DEF RowOk, PlaceOk
<1>3. t \notin Members(active) \cup Range(rest) \cup later /\ t \notin Range(event_list)
  BY <1>2 DEF IInv, Queues, Marks
<1>4. disabling = None => running # t
  <2>1. t # None /\ None \notin Scopes
    BY ThreadsAssumption
  <2>2. QED
    BY <2>1 DEF IInv, RunOk
<1>5. QED
  BY <1>2, <1>3, <1>4 DEF Queued

LEMMA GoneIsUnlinked ==
  ASSUME IInv, NEW t \in Threads, ~ thr[t].exists, NEW x \in Threads, thr[x].exists,
         ~ (thr[x].zombie /\ thr[x].parent = None)
  PROVE  t \notin thr[x].children \cup thr[x].detached_children \cup {thr[x].parent}
<1>1. RowOk(thr[t]) /\ RowOk(thr[x]) /\ Linked(thr) /\ x # None /\ t # None
  BY ThreadsAssumption DEF IInv, Rows
<1>2. thr[t].parent = None
  BY <1>1 DEF RowOk
<1>3. t \notin thr[x].children
  BY <1>1, <1>2 DEF Linked
<1>4. t \notin thr[x].detached_children
  <2>1. CASE thr[x].zombie
    BY <1>1, <2>1 DEF RowOk
  <2>2. CASE ~ thr[x].zombie
    BY <1>1, <1>2, <2>2 DEF Linked, Alive
  <2>3. QED
    BY <2>1, <2>2
<1>5. t # thr[x].parent
  BY <1>1 DEF Linked, Alive
<1>6. QED
  BY <1>3, <1>4, <1>5

(* vthread_delete is only called for a thread that no event, no wait list, *)
(* no mailbox and no relative that is still in the tree refers to.         *)
THEOREM NoDanglingHolds ==
  ASSUME SoundPrograms
  PROVE  Spec => []NoDangling
<1>1. ASSUME IInv PROVE NoDangling
  <2>1. TypeOK
    BY <1>1 DEF IInv
  <2>2. ASSUME NEW t \in Threads, thr[t].freed PROVE ~ thr[t].exists
    <3>1. RowOk(thr[t])
      BY <1>1 DEF IInv, Rows
    <3>2. QED
      BY <2>2, <3>1 DEF RowOk
  <2>3. QED
    BY <1>1, <2>1, <2>2, GoneIsNowhere, GoneIsUnlinked DEF NoDangling
<1>2. QED
  BY <1>1, ThreadInvariant, PTL

-----------------------------------------------------------------------------
(* The places of a thread. *)

LEMMA OccursOnce ==
  ASSUME NEW S, NEW q \in Seq(S), IsInjective(q), NEW t
  PROVE  Occurrences(q, t) = IF t \in Range(q) THEN 1 ELSE 0
<1>1. PICK I : I = {i \in DOMAIN q : q[i] = t}
  OBVIOUS
<1>2. CASE t \in Range(q)
  <2>1. PICK i \in DOMAIN q : q[i] = t
    BY <1>2 DEF Range
  <2>2. I = {i}
    BY <1>1, <2>1 DEF IsInjective
  <2>3. Cardinality(I) = 1
    BY <2>2, FS_Singleton
  <2>4. QED
    BY <1>1, <1>2, <2>3 DEF Occurrences
<1>3. CASE t \notin Range(q)
  <2>1. I = {}
    BY <1>1, <1>3 DEF Range
  <2>2. Cardinality(I) = 0
    BY <2>1, FS_EmptySet
  <2>3. QED
    BY <1>1, <1>3, <2>2 DEF Occurrences
<1>4. QED
  BY <1>2, <1>3

LEMMA EventOnce ==
  ASSUME NEW a, Once(a), NEW t
  PROVE  Events(a, t) = IF t \in Members(a) THEN 1 ELSE 0
<1>1. PICK I : I = UNION {{i} \X {j \in DOMAIN a[i] : a[i][j] = t} : i \in DOMAIN a}
  OBVIOUS
<1>2. \A z : z \in I <=> \E i \in DOMAIN a : \E j \in DOMAIN a[i] : a[i][j] = t /\ z = <<i, j>>
  <2>1. SUFFICES ASSUME NEW z
                 PROVE  z \in I <=> \E i \in DOMAIN a : \E j \in DOMAIN a[i] : a[i][j] = t /\ z = <<i, j>>
    OBVIOUS
  <2>2. z \in I <=> \E i \in DOMAIN a : z \in {i} \X {j \in DOMAIN a[i] : a[i][j] = t}
    BY <1>1
  <2>3. \A i \in DOMAIN a : z \in {i} \X {j \in DOMAIN a[i] : a[i][j] = t}
                            <=> \E j \in DOMAIN a[i] : a[i][j] = t /\ z = <<i, j>>
    OBVIOUS
  <2>4. QED
    BY <2>2, <2>3
<1>3. CASE t \in Members(a)
  <2>1. PICK i \in DOMAIN a : t \in Range(a[i])
    BY <1>3, MembersAre
  <2>2. PICK j \in DOMAIN a[i] : a[i][j] = t
    BY <2>1 DEF Range
  <2>3. ASSUME NEW z \in I PROVE z = <<i, j>>
    <3>1. PICK k \in DOMAIN a : \E l \in DOMAIN a[k] : a[k][l] = t /\ z = <<k, l>>
      BY <1>2
    <3>2. PICK l \in DOMAIN a[k] : a[k][l] = t /\ z = <<k, l>>
      BY <3>1
    <3>3. i = k /\ j = l
      BY <2>2, <3>2 DEF Once
    <3>4. QED
      BY <3>2, <3>3
  <2>4. <<i, j>> \in I
    BY <1>2, <2>2
  <2>5. I = {<<i, j>>}
    BY <2>3, <2>4
  <2>6. Cardinality(I) = 1
    BY <2>5, FS_Singleton
  <2>7. QED
    BY <1>1, <1>3, <2>6 DEF Events
<1>4. CASE t \notin Members(a)
  <2>1. ASSUME NEW z \in I PROVE FALSE
    <3>1. PICK k \in DOMAIN a : \E l \in DOMAIN a[k] : a[k][l] = t /\ z = <<k, l>>
      BY <1>2
    <3>2. t \in Range(a[k])
      BY <3>1 DEF Range
    <3>3. QED
      BY <1>4, <3>2, MembersAre
  <2>2. Cardinality(I) = 0
    BY <2>1, FS_EmptySet
  <2>3. QED
    BY <1>1, <1>4, <2>2 DEF Events
<1>5. QED
  BY <1>3, <1>4

(* One for what holds, zero for what does not. *)
One(b) == IF b THEN 1 ELSE 0

LEMMA PlacesOf ==
  ASSUME IInv, NEW t \in Threads
  PROVE  /\ Events(active, t) + Occurrences(rest, t) + One(t \in later) = One(thr[t].is_scheduled)
         /\ Occurrences(event_list, t) = One(thr[t].waiting_for_event)
         /\ Occurrences(suspended, t) = One(t \in Range(suspended))
         /\ One(t \in later) \in Nat /\ Events(active, t) \in Nat /\ Occurrences(rest, t) \in Nat
<1>1. /\ Once(active) /\ IsInjective(rest) /\ IsInjective(event_list) /\ IsInjective(suspended)
      /\ Apart(active, rest, later) /\ Marks(thr, active, rest, later, event_list)
      /\ rest \in Seq(Threads) /\ event_list \in Seq(Threads) /\ suspended \in Seq(Threads)
      /\ thr \in [Threads -> vthread_s]
  BY DEF IInv, Queues, TypeOK
<1>2. /\ thr[t].is_scheduled <=> t \in Members(active) \cup Range(rest) \cup later
      /\ thr[t].waiting_for_event <=> t \in Range(event_list)
  BY <1>1 DEF Marks
<1>3. PICK e, r, w, s : /\ e = Events(active, t) /\ r = Occurrences(rest, t)
                        /\ w = Occurrences(event_list, t) /\ s = Occurrences(suspended, t)
  OBVIOUS
<1>4. /\ e = IF t \in Members(active) THEN 1 ELSE 0
      /\ r = IF t \in Range(rest) THEN 1 ELSE 0
      /\ w = IF t \in Range(event_list) THEN 1 ELSE 0
      /\ s = IF t \in Range(suspended) THEN 1 ELSE 0
  BY <1>1, <1>3, EventOnce, OccursOnce
<1>5. w = One(thr[t].waiting_for_event) /\ s = One(t \in Range(suspended))
  BY <1>2, <1>4 DEF One
<1>6. e + r + One(t \in later) = One(thr[t].is_scheduled)
  <2>1. CASE t \in Members(active)
    <3>1. t \notin Range(rest) /\ t \notin later /\ thr[t].is_scheduled
      BY <1>1, <1>2, <2>1 DEF Apart
    <3>2. QED
      BY <1>4, <2>1, <3>1 DEF One
  <2>2. CASE t \notin Members(active) /\ t \in Range(rest)
    <3>1. t \notin later /\ thr[t].is_scheduled
      BY <1>1, <1>2, <2>2 DEF Apart
    <3>2. QED
      BY <1>4, <2>2, <3>1 DEF One
  <2>3. CASE t \notin Members(active) /\ t \notin Range(rest)
    <3>1. thr[t].is_scheduled <=> t \in later
      BY <1>2, <2>3
    <3>2. QED
      BY <1>4, <2>3, <3>1 DEF One
  <2>4. QED
    BY <2>1, <2>2, <2>3
<1>7. QED
  BY <1>3, <1>4, <1>5, <1>6 DEF One

LEMMA OnePlaceEach ==
  ASSUME IInv, NEW t \in Threads, thr[t].exists, NEW n,
         n = Events(active, t) + Occurrences(rest, t) + Occurrences(event_list, t)
               + Occurrences(suspended, t) + One(t \in later) + One(running = t)
  PROVE  IF thr[t].zombie
         THEN n \in (IF thr[t].parent = None THEN {1} ELSE {0, 1})
         ELSE n + One(thr[t].i_am_joining) + One(thr[t].i_am_waiting) = 1
<1>1. PICK e, r, w, s, l : /\ e = Events(active, t) /\ r = Occurrences(rest, t)
                           /\ w = Occurrences(event_list, t) /\ s = Occurrences(suspended, t)
                           /\ l = One(t \in later)
  OBVIOUS
<1>2. /\ e + r + l = One(thr[t].is_scheduled) /\ w = One(thr[t].waiting_for_event)
      /\ s = One(t \in Range(suspended)) /\ l \in Nat /\ e \in Nat /\ r \in Nat
  BY <1>1, PlacesOf
<1>3. n = One(thr[t].is_scheduled) + One(thr[t].waiting_for_event)
            + One(t \in Range(suspended)) + One(running = t)
  <2>1. PICK u : u = One(running = t)
    OBVIOUS
  <2>2. u \in Nat /\ w \in Nat /\ s \in Nat
    BY <1>2, <2>1 DEF One
  <2>3. n = e + r + w + s + l + u
    BY <1>1, <2>1
  <2>4. n = (e + r + l) + w + s + u
    BY <1>2, <2>2, <2>3
  <2>5. QED
    BY <1>2, <2>1, <2>4
<1>4. PlaceOk(thr[t], running = t, t \in Range(suspended))
  BY DEF IInv, Places
<1>5. CASE thr[t].zombie
  <2>1. t \notin Range(suspended)
    BY <1>4, <1>5 DEF PlaceOk
  <2>2. /\ ~ (thr[t].is_scheduled /\ thr[t].waiting_for_event)
        /\ running = t => ~ thr[t].is_scheduled /\ ~ thr[t].waiting_for_event
        /\ thr[t].parent = None =>
             thr[t].is_scheduled \/ thr[t].waiting_for_event \/ running = t
    BY <1>4, <1>5 DEF PlaceOk
  <2>3. QED
    BY <1>3, <1>5, <2>1, <2>2 DEF One
<1>6. CASE ~ thr[t].zombie
  <2>1. /\ ~ (thr[t].is_scheduled /\ thr[t].waiting_for_event)
        /\ running = t => ~ thr[t].is_scheduled /\ ~ thr[t].waiting_for_event
        /\ t \in Range(suspended) =>
             /\ running # t /\ ~ thr[t].is_scheduled /\ ~ thr[t].waiting_for_event
             /\ ~ thr[t].i_am_joining /\ ~ thr[t].i_am_waiting
        /\ \/ thr[t].is_scheduled \/ thr[t].waiting_for_event
           \/ running = t \/ t \in Range(suspended) \/ thr[t].i_am_joining \/ thr[t].i_am_waiting
        /\ thr[t].i_am_joining \/ thr[t].i_am_waiting =>
             ~ thr[t].is_scheduled /\ ~ thr[t].waiting_for_event /\ running # t
        /\ ~ (thr[t].i_am_joining /\ thr[t].i_am_waiting)
    BY <1>4, <1>6 DEF PlaceOk
  <2>2. n + One(thr[t].i_am_joining) + One(thr[t].i_am_waiting) = 1
    BY <1>3, <2>1 DEF One
  <2>3. QED
    BY <1>6, <2>2
<1>7. QED
  BY <1>5, <1>6

(* A thread is in one place: schedule_vthread, %wait, %join and %wait/fork *)
(* never put it in two, a wake-up takes it out of the one it was in, and a *)
(* disabled thread that no queue holds and nobody joins is deleted.        *)
THEOREM OnePlaceHolds ==
  ASSUME SoundPrograms
  PROVE  Spec => []OnePlace
<1>1. ASSUME IInv PROVE OnePlace
  BY <1>1, OnePlaceEach DEF OnePlace, One
<1>2. QED
  BY <1>1, ThreadInvariant, PTL

-----------------------------------------------------------------------------
(* Who waits for its children has one to wait for. *)

LEMMA DetachedLive ==
  ASSUME IInv, NEW t \in Threads, Alive(thr, t), NEW c \in thr[t].detached_children
  PROVE  c \in Threads /\ Alive(thr, c) /\ ~ thr[c].i_have_ended /\ thr[c].parent = t
<1>1. Good(thr) /\ t # None
  BY GoodThr, ThreadsAssumption
<1>2. c \in Threads
  BY <1>1, Fields DEF Good
<1>3. thr[c].parent = t /\ thr[c].i_am_detached /\ RowOk(thr[c])
  BY <1>1, <1>2 DEF Good, Linked, Rows
<1>4. QED
  BY <1>1, <1>2, <1>3 DEF RowOk, Alive

(* A thread that %wait/fork put to sleep has a detached child that has yet *)
(* to end: of_END wakes it with the last one.                              *)
THEOREM WaitForkWakesHolds ==
  ASSUME SoundPrograms
  PROVE  Spec => []WaitForkWakes
<1>1. ASSUME IInv PROVE WaitForkWakes
  <2>1. SUFFICES ASSUME NEW t \in Threads, Live(t), thr[t].i_am_waiting
                 PROVE  \E c \in thr[t].detached_children : ~ thr[c].i_have_ended
    BY DEF WaitForkWakes
  <2>2. Alive(thr, t) /\ Counts(thr, todo)
    BY <1>1, <2>1 DEF Live, Alive, IInv
  <2>3. PICK c : c \in thr[t].detached_children
    BY <2>1, <2>2 DEF Counts
  <2>4. QED
    BY <1>1, <2>2, <2>3, DetachedLive
<1>2. QED
  BY <1>1, ThreadInvariant, PTL

LEMMA LowestThread ==
  ASSUME NEW rank \in [Threads -> Nat], NEW T \in SUBSET Threads, T # {}
  PROVE  \E x \in T : \A y \in T : ~ (rank[y] < rank[x])
<1>1. PICK S : S = {rank[x] : x \in T}
  OBVIOUS
<1>2. S \subseteq Nat /\ S # {}
  BY <1>1
<1>3. PICK R : R = OpToRel(<, Nat)
  OBVIOUS
<1>4. IsWellFoundedOn(R, Nat)
  BY <1>3, NatLessThanWellFounded
<1>5. PICK m \in S : \A k \in S : ~ (<<k, m>> \in R)
  BY <1>2, <1>4, WFMin
<1>6. \A k \in S : ~ (k < m)
  BY <1>2, <1>3, <1>5 DEF OpToRel
<1>7. QED
  BY <1>1, <1>5, <1>6

-----------------------------------------------------------------------------
(* A thread in %join has forked all the threads of its fork block. *)
AllForked == \A x \in Threads : thr[x].i_am_joining => todo[x].fork = 0

(* Nobody enters a %join. *)
NoneJoins(f, g) == \A x \in Threads : g[x].i_am_joining => f[x].i_am_joining

LEMMA ReapJoins ==
  ASSUME NEW f \in [Threads -> vthread_s], NEW t \in Threads
  PROVE  NoneJoins(f, vthread_reap(f, t)) /\ vthread_reap(f, t) \in [Threads -> vthread_s]
<1>1. ~ Deleted.i_am_joining /\ Deleted \in vthread_s
  BY DeletedFields, DeletedIs
<1>2. PICK p : p = f[t].parent
  OBVIOUS
<1>3. p \in Threads \cup {None}
  BY <1>2, Fields
<1>4. PICK g : g = vthread_reap(f, t)
  OBVIOUS
<1>5. ASSUME NEW x \in Threads
      PROVE  g[x] \in vthread_s /\ (g[x].i_am_joining => f[x].i_am_joining)
  <2>1. f[x] \in vthread_s
    OBVIOUS
  <2>2. PICK r, n, a, b, c, d, e :
          /\ r = f[x] /\ n = g[x]
          /\ a = [f[t] EXCEPT !.parent = None, !.in_scope = FALSE, !.zombie = TRUE]
          /\ b = [r EXCEPT !.parent = p] /\ c = [r EXCEPT !.parent = None, !.i_am_detached = FALSE]
          /\ d = [r EXCEPT !.detached_children = @ \ {t}] /\ e = [r EXCEPT !.children = @ \ {t}]
    OBVIOUS
  <2>3. r \in vthread_s /\ None \in Threads \cup {None}
    BY <2>1, <2>2
  <2>4. n = Deleted \/ (n = a /\ x = t) \/ n = b \/ n = c \/ n = d \/ n = e \/ n = r
    <3>1. n = CASE x = t -> IF Deletable(f, t) THEN Deleted ELSE a
                [] x \in f[t].children -> b
                [] x \in f[t].detached_children -> c
                [] x = p /\ f[t].i_am_detached -> d
                [] x = p /\ ~ f[t].i_am_detached -> e
                [] OTHER -> r
      BY <1>2, <1>4, <2>2 DEF vthread_reap
    <3>2. QED
      BY <3>1
  <2>5. a \in vthread_s /\ (a.i_am_joining => f[t].i_am_joining)
    BY <2>2, <2>3 DEF vthread_s
  <2>6. b \in vthread_s /\ (b.i_am_joining => r.i_am_joining)
    BY <1>3, <2>2, <2>3 DEF vthread_s
  <2>7. c \in vthread_s /\ (c.i_am_joining => r.i_am_joining)
    BY <2>2, <2>3 DEF vthread_s
  <2>8. d \in vthread_s /\ (d.i_am_joining => r.i_am_joining)
    BY <2>2, <2>3 DEF vthread_s
  <2>9. e \in vthread_s /\ (e.i_am_joining => r.i_am_joining)
    BY <2>2, <2>3 DEF vthread_s
  <2>10. n \in vthread_s /\ (n.i_am_joining => r.i_am_joining)
    BY <1>1, <2>2, <2>3, <2>4, <2>5, <2>6, <2>7, <2>8, <2>9
  <2>11. QED
    BY <2>2, <2>10
<1>6. g \in [Threads -> vthread_s]
  BY <1>4, <1>5, ReapTable
<1>7. QED
  BY <1>4, <1>5, <1>6 DEF NoneJoins

LEMMA TurnedOffJoins ==
  ASSUME NEW f \in [Threads -> vthread_s], NEW t \in Threads
  PROVE  NoneJoins(f, TurnedOff(f, t))
<1>1. SUFFICES ASSUME NEW x \in Threads, TurnedOff(f, t)[x].i_am_joining PROVE f[x].i_am_joining
  BY DEF NoneJoins
<1>2. f[x] \in vthread_s
  OBVIOUS
<1>3. ~ Deleted.i_am_joining
  BY DeletedFields
<1>4. QED
  BY <1>1, <1>2, <1>3 DEF TurnedOff, vthread_s

(* do_disable, for a thread that exists. *)
LEMMA DisableJoins ==
  ASSUME NEW f, Good(f), NEW t \in Threads, Alive(f, t) \/ f[t].detached_children = {},
         NEW d, d = do_disable(f, t)
  PROVE  NoneJoins(f, d) /\ d \in [Threads -> vthread_s]
<1>1. PICK g, D : g = TurnedOff(f, t) /\ D = Descendants(f, t)
  OBVIOUS
<1>2. g \in [Threads -> vthread_s] /\ NoneJoins(f, g)
  <2>1. OffRows(f, g, t, D)
    BY <1>1, TurnedOffRows
  <2>2. QED
    BY <1>1, <2>1, TurnedOffJoins DEF Good, OffRows
<1>3. PICK p, h : /\ p = g[t].parent
                  /\ h = [g EXCEPT ![p].i_am_joining = FALSE,
                                   ![p].is_scheduled = @ \/ ~ g[p].i_have_ended]
  OBVIOUS
<1>4. d = vthread_reap(h, t) \/ d = vthread_reap(g, t) \/ d = g
  BY <1>1, <1>3 DEF do_disable
<1>5. h \in [Threads -> vthread_s] /\ NoneJoins(g, h)
  <2>1. CASE p \in Threads
    <3>1. g[p] \in vthread_s
      BY <1>2, <2>1
    <3>2. PICK r, n : r = g[p] /\ n = [r EXCEPT !.i_am_joining = FALSE,
                                                !.is_scheduled = @ \/ ~ r.i_have_ended]
      OBVIOUS
    <3>3. n \in vthread_s /\ ~ n.i_am_joining
      BY <3>1, <3>2 DEF vthread_s
    <3>4. h = [g EXCEPT ![p] = n]
      BY <1>2, <1>3, <2>1, <3>2
    <3>5. QED
      BY <1>2, <2>1, <3>3, <3>4 DEF NoneJoins
  <2>2. CASE p \notin Threads
    <3>1. h = g
      BY <1>2, <1>3, <2>2
    <3>2. QED
      BY <1>2, <3>1 DEF NoneJoins
  <2>3. QED
    BY <2>1, <2>2
<1>6. CASE d = vthread_reap(h, t)
  BY <1>2, <1>5, <1>6, ReapJoins DEF NoneJoins
<1>7. CASE d = vthread_reap(g, t)
  BY <1>2, <1>7, ReapJoins DEF NoneJoins
<1>8. CASE d = g
  BY <1>2, <1>8
<1>9. QED
  BY <1>4, <1>6, <1>7, <1>8

(* %end *)
LEMMA EndJoins ==
  ASSUME IInv, NEW t \in Threads, of_END(t)
  PROVE  NoneJoins(thr, thr')
<1>1. PICK f, g, p : f = Ended(t) /\ g = Left(t) /\ p = thr[t].parent
  OBVIOUS
<1>2. thr \in [Threads -> vthread_s]
  BY DEF IInv, TypeOK
<1>3. f \in [Threads -> vthread_s] /\ NoneJoins(thr, f)
  <2>1. ASSUME NEW x \in Threads, f[x].i_am_joining PROVE thr[x].i_am_joining
    <3>1. thr[x] \in vthread_s /\ thr[t] \in vthread_s
      BY <1>2
    <3>2. QED
      BY <1>1, <2>1, <3>1 DEF Ended, vthread_s
  <2>2. f \in [Threads -> vthread_s]
    BY <1>1, EndedTable DEF of_END
  <2>3. QED
    BY <2>1, <2>2 DEF NoneJoins
<1>4. g \in [Threads -> vthread_s] /\ NoneJoins(f, g)
  <2>1. CASE ~ thr[t].i_am_detached
    BY <1>1, <1>3, <2>1 DEF Left, NoneJoins
  <2>2. CASE thr[t].i_am_detached
    <3>1. PICK last : last = EndsWaitFork(t)
      OBVIOUS
    <3>2. g = [f EXCEPT ![t].i_am_detached = FALSE, ![t].parent = None,
                        ![p].detached_children = @ \ {t},
                        ![p].i_am_waiting = @ /\ ~ last,
                        ![p].is_scheduled = @ \/ last]
      BY <1>1, <2>2, <3>1 DEF Left
    <3>3. PICK h : h = [f EXCEPT ![t].i_am_detached = FALSE, ![t].parent = None]
      OBVIOUS
    <3>4. h \in [Threads -> vthread_s] /\ NoneJoins(f, h)
      <4>1. PICK r, n : r = f[t] /\ n = [r EXCEPT !.i_am_detached = FALSE, !.parent = None]
        OBVIOUS
      <4>2. r \in vthread_s /\ None \in Threads \cup {None}
        BY <1>3, <4>1
      <4>3. n \in vthread_s /\ (n.i_am_joining => r.i_am_joining)
        BY <4>1, <4>2 DEF vthread_s
      <4>4. h = [f EXCEPT ![t] = n]
        BY <1>3, <3>3, <4>1
      <4>5. QED
        BY <1>3, <4>1, <4>3, <4>4 DEF NoneJoins
    <3>5. g = [h EXCEPT ![p].detached_children = @ \ {t}, ![p].i_am_waiting = @ /\ ~ last,
                        ![p].is_scheduled = @ \/ last]
      BY ZenonT(60), <3>2, <3>3
    <3>6. g \in [Threads -> vthread_s] /\ NoneJoins(h, g)
      <4>1. CASE p \in Threads
        <5>1. PICK r, n : r = h[p] /\ n = [r EXCEPT !.detached_children = @ \ {t},
                                                    !.i_am_waiting = @ /\ ~ last,
                                                    !.is_scheduled = @ \/ last]
          OBVIOUS
        <5>2. r \in vthread_s
          BY <3>4, <4>1, <5>1
        <5>3. n \in vthread_s /\ (n.i_am_joining => r.i_am_joining)
          <6>1. (r.i_am_waiting /\ ~ last) \in BOOLEAN /\ (r.is_scheduled \/ last) \in BOOLEAN
            OBVIOUS
          <6>2. PICK a, b, c : /\ a = r.detached_children \ {t} /\ b = (r.i_am_waiting /\ ~ last)
                               /\ c = (r.is_scheduled \/ last)
            OBVIOUS
          <6>3. n = [r EXCEPT !.detached_children = a, !.i_am_waiting = b, !.is_scheduled = c]
            BY <5>1, <6>2
          <6>4. a \in SUBSET Threads /\ b \in BOOLEAN /\ c \in BOOLEAN
            BY <5>2, <6>1, <6>2, Fields
          <6>5. QED
            BY <5>2, <6>3, <6>4 DEF vthread_s
        <5>4. g = [h EXCEPT ![p] = n]
          BY <3>4, <3>5, <4>1, <5>1
        <5>5. QED
          BY <3>4, <4>1, <5>1, <5>3, <5>4 DEF NoneJoins
      <4>2. CASE p \notin Threads
        <5>1. g = h
          BY <3>4, <3>5, <4>2
        <5>2. QED
          BY <3>4, <5>1 DEF NoneJoins
      <4>3. QED
        BY <4>1, <4>2
    <3>7. QED
      BY <3>4, <3>6 DEF NoneJoins
  <2>3. QED
    BY <2>1, <2>2
<1>5. CASE thr' = vthread_reap(Scheduled([f EXCEPT ![p].i_am_joining = FALSE], {p}), t)
  <2>1. PICK h, k : h = [f EXCEPT ![p].i_am_joining = FALSE] /\ k = Scheduled(h, {p})
    OBVIOUS
  <2>2. h \in [Threads -> vthread_s] /\ NoneJoins(f, h)
    <3>1. CASE p \in Threads
      <4>1. PICK r, n : r = f[p] /\ n = [r EXCEPT !.i_am_joining = FALSE]
        OBVIOUS
      <4>2. r \in vthread_s
        BY <1>3, <3>1, <4>1
      <4>3. n \in vthread_s /\ ~ n.i_am_joining
        BY <4>1, <4>2 DEF vthread_s
      <4>4. h = [f EXCEPT ![p] = n]
        BY <1>3, <2>1, <3>1, <4>1
      <4>5. QED
        BY <1>3, <3>1, <4>3, <4>4 DEF NoneJoins
    <3>2. CASE p \notin Threads
      <4>1. h = f
        BY <1>3, <2>1, <3>2
      <4>2. QED
        BY <1>3, <4>1 DEF NoneJoins
    <3>3. QED
      BY <3>1, <3>2
  <2>3. k \in [Threads -> vthread_s] /\ NoneJoins(h, k)
    <3>1. \A x \in Threads : k[x] \in vthread_s /\ (k[x].i_am_joining => h[x].i_am_joining)
      <4>1. SUFFICES ASSUME NEW x \in Threads
                     PROVE  k[x] \in vthread_s /\ (k[x].i_am_joining => h[x].i_am_joining)
        OBVIOUS
      <4>2. PICK r, n : r = h[x] /\ n = k[x]
        OBVIOUS
      <4>3. r \in vthread_s /\ (n = r \/ n = [r EXCEPT !.is_scheduled = TRUE])
        BY <2>1, <2>2, <4>2 DEF Scheduled
      <4>4. n \in vthread_s /\ (n.i_am_joining => r.i_am_joining)
        BY <4>3 DEF vthread_s
      <4>5. QED
        BY <4>2, <4>4
    <3>2. k = [x \in Threads |-> k[x]]
      BY <2>1 DEF Scheduled
    <3>3. QED
      BY <3>1, <3>2 DEF NoneJoins
  <2>4. NoneJoins(k, vthread_reap(k, t))
    BY <2>3, ReapJoins
  <2>5. QED
    BY <1>3, <1>5, <2>1, <2>2, <2>3, <2>4 DEF NoneJoins
<1>6. CASE thr' = vthread_reap(g, t)
  BY <1>3, <1>4, <1>6, ReapJoins DEF NoneJoins
<1>7. CASE thr' = g
  BY <1>3, <1>4, <1>7 DEF NoneJoins
<1>8. QED
  BY <1>1, <1>5, <1>6, <1>7 DEF of_END

(* The other steps that make no fork block smaller. *)
LEMMA DetachJoins ==
  ASSUME IInv, NEW t \in Threads, of_JOIN_DETACH(t)
  PROVE  NoneJoins(thr, thr')
<1>1. PICK dead, kept, f, g : /\ dead = {c \in thr[t].children : thr[c].i_have_ended}
                              /\ kept = thr[t].children \ dead /\ f = thr /\ g = thr'
  OBVIOUS
<1>2. f \in [Threads -> vthread_s]
  BY <1>1 DEF IInv, TypeOK
<1>3. SUFFICES ASSUME NEW x \in Threads, g[x].i_am_joining PROVE f[x].i_am_joining
  BY <1>1 DEF NoneJoins
<1>4. vthread_reap(f, x)[x].i_am_joining => f[x].i_am_joining
  BY <1>2, ReapJoins DEF NoneJoins
<1>5. PICK r, n, o, a, b, c :
        /\ r = f[x] /\ n = g[x] /\ o = vthread_reap(f, x)[x]
        /\ a = [r EXCEPT !.children = {}, !.detached_children = @ \cup kept]
        /\ b = [r EXCEPT !.i_am_detached = TRUE]
        /\ c = [r EXCEPT !.parent = None, !.i_am_detached = FALSE]
  OBVIOUS
<1>6. n = a \/ n = b \/ n = o \/ n = c \/ n = r
  <2>0. g[x] = CASE x = t -> [f[t] EXCEPT !.children = {}, !.detached_children = @ \cup kept]
                 [] x \in kept -> [f[x] EXCEPT !.i_am_detached = TRUE]
                 [] x \in dead -> vthread_reap(f, x)[x]
                 [] \E y \in dead : x \in f[y].detached_children ->
                      [f[x] EXCEPT !.parent = None, !.i_am_detached = FALSE]
                 [] OTHER -> f[x]
    BY ZenonT(60), <1>1 DEF of_JOIN_DETACH
  <2>1. CASE x = t
    BY <1>5, <2>0, <2>1
  <2>2. CASE x # t /\ x \in kept
    BY <1>5, <2>0, <2>2
  <2>3. CASE x # t /\ x \notin kept /\ x \in dead
    BY <1>5, <2>0, <2>3
  <2>4. CASE x # t /\ x \notin kept /\ x \notin dead
    BY <1>5, <2>0, <2>4
  <2>5. QED
    BY SMTT(30), <2>1, <2>2, <2>3, <2>4
<1>7. r \in vthread_s /\ n.i_am_joining /\ (o.i_am_joining => r.i_am_joining)
  BY <1>2, <1>3, <1>4, <1>5
<1>8. r.i_am_joining
  <2>1. a.i_am_joining = r.i_am_joining /\ b.i_am_joining = r.i_am_joining
        /\ c.i_am_joining = r.i_am_joining
    BY <1>5, <1>7 DEF vthread_s
  <2>2. QED
    BY <1>6, <1>7, <2>1
<1>9. QED
  BY <1>5, <1>8

LEMMA StillForked ==
  ASSUME AllForked, NoneJoins(thr, thr'),
         \A x \in Threads : thr'[x].i_am_joining => todo'[x].fork = todo[x].fork
  PROVE  AllForked'
  BY DEF AllForked, NoneJoins

LEMMA SameFlagsJoin ==
  ASSUME IInv, \A x \in Threads :
           \/ thr'[x] = thr[x]
           \/ \E b \in BOOLEAN : thr'[x] = [thr[x] EXCEPT !.is_scheduled = b]
           \/ thr'[x] = [thr[x] EXCEPT !.waiting_for_event = TRUE]
           \/ thr'[x] = [thr[x] EXCEPT !.i_am_waiting = TRUE]
           \/ thr'[x] = [thr[x] EXCEPT !.waiting_for_event = FALSE, !.is_scheduled = TRUE]
           \/ thr'[x] = Deleted
  PROVE  NoneJoins(thr, thr')
<1>1. SUFFICES ASSUME NEW x \in Threads, thr'[x].i_am_joining PROVE thr[x].i_am_joining
  BY DEF NoneJoins
<1>2. PICK r, n : r = thr[x] /\ n = thr'[x]
  OBVIOUS
<1>3. r \in vthread_s /\ n.i_am_joining /\ ~ Deleted.i_am_joining
  BY <1>1, <1>2, DeletedFields DEF IInv, TypeOK
<1>4. \/ n = r
      \/ \E b \in BOOLEAN : n = [r EXCEPT !.is_scheduled = b]
      \/ n = [r EXCEPT !.waiting_for_event = TRUE]
      \/ n = [r EXCEPT !.i_am_waiting = TRUE]
      \/ n = [r EXCEPT !.waiting_for_event = FALSE, !.is_scheduled = TRUE]
      \/ n = Deleted
  BY <1>2
<1>5. r.i_am_joining
  BY <1>3, <1>4 DEF vthread_s
<1>6. QED
  BY <1>2, <1>5

LEMMA BeginForked ==
  ASSUME IInv, AllForked, NEW t \in Threads, NEW n, NEW s, NEW b, BeginFork(t, n, b, s)
  PROVE  AllForked'
<1>1. At(t) /\ thr' = thr /\ \A x \in Threads : x # t => todo'[x] = todo[x]
  <2>1. todo \in [Threads -> Block]
    BY DEF IInv, TypeOK
  <2>2. QED
    BY <2>1 DEF BeginFork, InBody
<1>2. ~ thr[t].i_am_joining
  BY <1>1, AtFacts
<1>3. QED
  BY <1>1, <1>2 DEF AllForked

LEMMA ForkForked ==
  ASSUME IInv, AllForked, NEW t \in Threads, NEW c \in Threads, of_FORK(t, c)
  PROVE  AllForked'
<1>1. /\ At(t) /\ todo' = [todo EXCEPT ![t].fork = @ - 1]
      /\ thr' = Scheduled([thr EXCEPT ![t].children = @ \cup {c},
                                      ![c] = vthread_new(t, todo[t].scope)], {c})
  BY DEF of_FORK
<1>2. todo \in [Threads -> Block] /\ thr \in [Threads -> vthread_s]
  BY DEF IInv, TypeOK
<1>3. ~ thr[t].i_am_joining
  BY <1>1, AtFacts
<1>4. PICK g, h, n : /\ g = thr' /\ n = vthread_new(t, todo[t].scope)
                     /\ h = [thr EXCEPT ![t].children = @ \cup {c}, ![c] = n]
  OBVIOUS
<1>5. ~ n.i_am_joining /\ [n EXCEPT !.is_scheduled = TRUE].i_am_joining = FALSE
  BY <1>4 DEF vthread_new
<1>6. \A x \in Threads : x # t /\ x # c => g[x] = thr[x] /\ todo'[x] = todo[x]
  BY <1>1, <1>2, <1>4 DEF Scheduled
<1>7. ~ g[c].i_am_joining
  BY <1>1, <1>2, <1>4, <1>5 DEF Scheduled
<1>8. t # c => ~ g[t].i_am_joining
  <2>1. SUFFICES ASSUME t # c PROVE ~ g[t].i_am_joining
    OBVIOUS
  <2>2. g[t] = [thr[t] EXCEPT !.children = @ \cup {c}]
    BY <1>1, <1>2, <1>4, <2>1 DEF Scheduled
  <2>3. thr[t] \in vthread_s
    BY <1>2
  <2>4. QED
    BY <1>3, <2>2, <2>3 DEF vthread_s
<1>9. QED
  BY <1>4, <1>6, <1>7, <1>8 DEF AllForked

LEMMA JoinForked ==
  ASSUME IInv, AllForked, NEW t \in Threads, of_JOIN(t)
  PROVE  AllForked'
<1>1. todo[t].fork = 0 /\ todo' = [todo EXCEPT ![t].join = @ - 1]
  BY DEF of_JOIN
<1>2. todo \in [Threads -> Block] /\ thr \in [Threads -> vthread_s]
  BY DEF IInv, TypeOK
<1>3. \A x \in Threads : todo'[x].fork = todo[x].fork
  <2>1. SUFFICES ASSUME NEW x \in Threads PROVE todo'[x].fork = todo[x].fork
    OBVIOUS
  <2>2. todo[x] \in Block
    BY <1>2
  <2>3. QED
    BY <1>1, <1>2, <2>2 DEF Block
<1>4. CASE \E c \in thr[t].children : thr' = vthread_reap(thr, c)
  <2>1. PICK c : c \in thr[t].children /\ thr' = vthread_reap(thr, c)
    BY <1>4
  <2>2. c \in Threads
    BY <1>2, <2>1, Fields
  <2>3. NoneJoins(thr, thr')
    BY <1>2, <2>1, <2>2, ReapJoins
  <2>4. QED
    BY <1>3, <2>3, StillForked
<1>5. CASE thr' = [thr EXCEPT ![t].i_am_joining = TRUE]
  BY <1>1, <1>2, <1>3, <1>5 DEF AllForked
<1>6. QED
  BY <1>4, <1>5 DEF of_JOIN

LEMMA DetachForked ==
  ASSUME IInv, AllForked, NEW t \in Threads, of_JOIN_DETACH(t)
  PROVE  AllForked'
<1>1. todo' = [todo EXCEPT ![t].detach = 0] /\ todo \in [Threads -> Block]
  BY ZenonT(60) DEF of_JOIN_DETACH, IInv, TypeOK
<1>2. \A x \in Threads : todo'[x].fork = todo[x].fork
  <2>1. SUFFICES ASSUME NEW x \in Threads PROVE todo'[x].fork = todo[x].fork
    OBVIOUS
  <2>2. todo[x] \in Block
    BY <1>1
  <2>3. QED
    BY <1>1, <2>2 DEF Block
<1>3. QED
  BY SMTT(30), <1>2, DetachJoins, StillForked

LEMMA NotMoved ==
  ASSUME IInv, AllForked, NoneJoins(thr, thr'), todo' = todo
  PROVE  AllForked'
  BY StillForked

LEMMA DisableForked ==
  ASSUME IInv, AllForked, NEW t \in Threads, Disables(t),
         {"disable", "flow"} \cap Opcodes # {}, todo' = todo
  PROVE  AllForked'
<1>1. Good(thr) /\ thr[t].detached_children = {}
  BY GoodThr, NotDetached DEF NoDetached
<1>2. NoneJoins(thr, thr')
  BY <1>1, DisableJoins DEF Disables
<1>3. QED
  BY <1>2, NotMoved

LEMMA DisableForkForked ==
  ASSUME IInv, AllForked, DisableForkStep
  PROVE  AllForked'
<1>1. disabling \in Threads /\ disabling = running /\ todo' = todo
  BY DEF DisableForkStep, IInv, RunOk
<1>2. PICK c \in thr[running].detached_children : thr' = vthread_reap(do_disable(thr, c), c)
  BY <1>1 DEF DisableForkStep
<1>3. Good(thr) /\ c \in Threads /\ Alive(thr, c)
  BY <1>1, DisableForkCut
<1>4. PICK d : d = do_disable(thr, c)
  OBVIOUS
<1>5. NoneJoins(thr, d) /\ d \in [Threads -> vthread_s]
  BY <1>3, <1>4, DisableJoins
<1>6. NoneJoins(d, thr')
  BY <1>2, <1>3, <1>4, <1>5, ReapJoins
<1>7. NoneJoins(thr, thr')
  BY <1>5, <1>6 DEF NoneJoins
<1>8. QED
  BY <1>1, <1>7, NotMoved

LEMMA InstructionForked ==
  ASSUME IInv, AllForked, NEW t \in Threads, Instruction(t)
  PROVE  AllForked'
<1>0. thr \in [Threads -> vthread_s]
  BY DEF IInv, TypeOK
<1>1. CASE \E n \in 1..MaxFork, s \in Scopes : \E b \in Blocks(n) : BeginFork(t, n, b, s)
  BY <1>1, BeginForked
<1>2. CASE \E child \in Threads : of_FORK(t, child)
  BY <1>2, ForkForked
<1>3. CASE of_JOIN(t)
  BY <1>3, JoinForked
<1>4. CASE of_JOIN_DETACH(t)
  BY <1>4, DetachForked
<1>5. CASE of_DELAY(t)
  <2>1. \A x \in Threads : thr'[x] = thr[x] \/ thr'[x] = [thr[x] EXCEPT !.is_scheduled = TRUE]
    BY <1>5 DEF of_DELAY, Scheduled
  <2>2. todo' = todo
    BY <1>5 DEF of_DELAY
  <2>3. QED
    BY <2>1, <2>2, SameFlagsJoin, NotMoved
<1>6. CASE of_WAIT(t)
  <2>1. thr' = [thr EXCEPT ![t].waiting_for_event = TRUE] /\ todo' = todo
    BY <1>6 DEF of_WAIT
  <2>2. \A x \in Threads : thr'[x] = thr[x] \/ thr'[x] = [thr[x] EXCEPT !.waiting_for_event = TRUE]
    BY <1>0, <2>1
  <2>3. QED
    BY <2>1, <2>2, SameFlagsJoin, NotMoved
<1>7. CASE of_WAIT_FORK(t)
  <2>1. thr' = [thr EXCEPT ![t].i_am_waiting = TRUE] /\ todo' = todo
    BY <1>7 DEF of_WAIT_FORK
  <2>2. \A x \in Threads : thr'[x] = thr[x] \/ thr'[x] = [thr[x] EXCEPT !.i_am_waiting = TRUE]
    BY <1>0, <2>1
  <2>3. QED
    BY <2>1, <2>2, SameFlagsJoin, NotMoved
<1>8. CASE Suspend(t)
  BY <1>8 DEF Suspend, AllForked
<1>9. CASE Resume(t)
  <2>1. \A x \in Threads : thr'[x] = thr[x] \/ thr'[x] = [thr[x] EXCEPT !.is_scheduled = TRUE]
    BY <1>9 DEF Resume, Scheduled
  <2>2. todo' = todo
    BY <1>9 DEF Resume
  <2>3. QED
    BY <2>1, <2>2, SameFlagsJoin, NotMoved
<1>10. CASE of_END(t)
  <2>1. todo' = todo
    BY <1>10 DEF of_END
  <2>2. QED
    BY <1>10, <2>1, EndJoins, NotMoved
<1>11. CASE \E s \in Scopes : of_DISABLE(t, s)
  BY <1>11 DEF of_DISABLE, AllForked
<1>12. CASE \E s \in Scopes : of_DISABLE_FLOW(t, s)
  <2>1. PICK s \in Scopes : of_DISABLE_FLOW(t, s)
    BY <1>12
  <2>2. PICK cur \in Closest(t, s) : Disables(cur)
    BY <2>1 DEF of_DISABLE_FLOW
  <2>3. cur \in Threads
    BY <2>2 DEF Closest, Ancestors
  <2>4. "flow" \in Opcodes /\ todo' = todo
    BY <2>1 DEF of_DISABLE_FLOW
  <2>5. QED
    BY <2>2, <2>3, <2>4, DisableForked
<1>13. CASE of_DISABLE_FORK(t)
  BY <1>13 DEF of_DISABLE_FORK, AllForked
<1>14. CASE of_ZOMBIE(t)
  <2>1. thr' = (IF thr[t].parent = None /\ thr[t].children = {}
                THEN [thr EXCEPT ![t] = Deleted] ELSE thr) /\ todo' = todo
    BY <1>14 DEF of_ZOMBIE
  <2>2. \A x \in Threads : thr'[x] = thr[x] \/ thr'[x] = Deleted
    BY <1>0, <2>1
  <2>3. QED
    BY <2>1, <2>2, SameFlagsJoin, NotMoved
<1>15. QED
  BY <1>1, <1>2, <1>3, <1>4, <1>5, <1>6, <1>7, <1>8, <1>9, <1>10, <1>11, <1>12, <1>13, <1>14
     DEF Instruction

LEMMA RunForked ==
  ASSUME IInv, AllForked, NEW t, RunThread(t)
  PROVE  AllForked'
<1>1. thr' = [thr EXCEPT ![t].is_scheduled = FALSE] /\ todo' = todo /\ thr \in [Threads -> vthread_s]
  BY DEF RunThread, IInv, TypeOK
<1>2. \A x \in Threads : thr'[x] = thr[x] \/ thr'[x] = [thr[x] EXCEPT !.is_scheduled = FALSE]
  BY <1>1
<1>3. QED
  BY <1>1, <1>2, SameFlagsJoin, NotMoved

LEMMA NextForked ==
  ASSUME IInv, AllForked, [Next /\ UNCHANGED program]_vars
  PROVE  AllForked'
<1>1. CASE UNCHANGED vars
  BY <1>1 DEF vars, AllForked
<1>2. CASE Next
  <2>1. CASE \E t \in Threads : Instruction(t)
    BY <2>1, InstructionForked
  <2>2. CASE vthread_schedule_list
    <3>1. /\ todo' = todo
          /\ thr' = [x \in Threads |->
                       IF x \in Range(event_list)
                       THEN [thr[x] EXCEPT !.waiting_for_event = FALSE, !.is_scheduled = TRUE]
                       ELSE thr[x]]
      BY <2>2 DEF vthread_schedule_list
    <3>2. \A x \in Threads :
            \/ thr'[x] = thr[x]
            \/ thr'[x] = [thr[x] EXCEPT !.waiting_for_event = FALSE, !.is_scheduled = TRUE]
      BY <3>1
    <3>3. QED
      BY <3>1, <3>2, SameFlagsJoin, NotMoved
  <2>3. CASE DisableStep
    <3>1. PICK t \in Threads : Disables(t)
      BY <2>3 DEF DisableStep
    <3>2. "disable" \in Opcodes /\ todo' = todo
      BY <2>3 DEF DisableStep, IInv, RunOk
    <3>3. QED
      BY <3>1, <3>2, DisableForked
  <2>4. CASE DisableEnd
    BY <2>4 DEF DisableEnd, AllForked
  <2>5. CASE DisableForkStep
    BY <2>5, DisableForkForked
  <2>6. CASE DisableForkEnd
    BY <2>6 DEF DisableForkEnd, AllForked
  <2>7. CASE vthread_run
    BY <2>7, RunForked DEF vthread_run
  <2>8. CASE vthread_run_next
    BY <2>8, RunForked DEF vthread_run_next
  <2>9. CASE \E t \in Threads : AdvanceTime(t)
    BY <2>9 DEF AdvanceTime, AllForked
  <2>10. CASE Finished
    BY <2>10 DEF Finished, vars, AllForked
  <2>11. QED
    BY <1>2, <2>1, <2>2, <2>3, <2>4, <2>5, <2>6, <2>7, <2>8, <2>9, <2>10 DEF Next
<1>3. QED
  BY <1>1, <1>2

LEMMA InitForked ==
  ASSUME Init
  PROVE  AllForked
<1>1. \A x \in Threads : todo[x] = NoBlock
  BY DEF Init
<1>2. QED
  BY <1>1 DEF AllForked, NoBlock

(* A thread that waits in %join has executed all the %fork instructions of *)
(* its fork block.                                                         *)
THEOREM JoinsAreForked ==
  ASSUME SoundPrograms
  PROVE  Spec => []AllForked
<1>1. Init => AllForked
  BY InitForked
<1>2. IInv /\ AllForked /\ [Next /\ UNCHANGED program]_vars => AllForked'
  BY NextForked
<1>3. QED
  BY <1>1, <1>2, ThreadInvariant, PTL DEF Spec

(* A thread in %join has a child, and the child lives. *)
LEMMA JoinedLive ==
  ASSUME IInv, AllForked, NEW t \in Threads, Alive(thr, t), thr[t].i_am_joining
  PROVE  \E c \in Threads : Alive(thr, c) /\ thr[c].parent = t
<1>1. Good(thr) /\ Counts(thr, todo) /\ todo[t] \in Block /\ thr[t] \in vthread_s
  BY GoodThr DEF Good, IInv, TypeOK
<1>2. Counted(thr[t], todo[t]) /\ todo[t].fork = 0 /\ \A c \in thr[t].children : ~ thr[c].i_have_ended
  BY <1>1 DEF Counts, AllForked
<1>3. thr[t].children # {}
  <2>1. SUFFICES ASSUME thr[t].children = {} PROVE FALSE
    OBVIOUS
  <2>2. PICK j, d : j = todo[t].join /\ d = todo[t].detach
    OBVIOUS
  <2>3. j \in Nat /\ d \in Nat
    <3>1. j \in 0..MaxFork /\ d \in 0..MaxFork /\ MaxFork \in Nat
      BY <1>1, <2>2, ThreadsAssumption DEF Block
    <3>2. QED
      BY <3>1
  <2>4. Cardinality(thr[t].children) = 0
    BY <2>1, FS_EmptySet
  <2>5. 0 + 0 = j + d + 1
    BY <1>2, <2>2, <2>4 DEF Counted
  <2>6. QED
    BY <2>3, <2>5
<1>4. PICK c : c \in thr[t].children
  BY <1>3
<1>5. c \in Threads
  BY <1>1, <1>4, Fields
<1>6. thr[c].parent = t /\ RowOk(thr[c]) /\ t # None /\ ~ thr[c].i_have_ended
  BY <1>1, <1>2, <1>4, <1>5, ThreadsAssumption DEF Good, Linked, Rows
<1>7. Alive(thr, c)
  BY <1>6 DEF RowOk, Alive
<1>8. QED
  BY <1>5, <1>6, <1>7

LEMMA QuietPlaces ==
  ASSUME IInv, Quiet, event_list = << >>, suspended = << >>, NEW t \in Threads
  PROVE  /\ ~ thr[t].is_scheduled /\ ~ thr[t].waiting_for_event
         /\ Alive(thr, t) => thr[t].i_am_joining \/ thr[t].i_am_waiting
         /\ thr[t].exists /\ thr[t].zombie => thr[t].parent # None
<1>1. running = None /\ rest = << >> /\ active = << >> /\ later = {} /\ t # None
  BY ThreadsAssumption DEF Quiet
<1>2. Members(active) = {}
  BY <1>1 DEF Members
<1>3. ~ thr[t].is_scheduled /\ ~ thr[t].waiting_for_event
  <2>1. Marks(thr, active, rest, later, event_list)
    BY DEF IInv, Queues
  <2>2. QED
    BY <1>1, <1>2, <2>1, RangeNone DEF Marks
<1>4. PlaceOk(thr[t], running = t, t \in Range(suspended)) /\ running # t /\ t \notin Range(suspended)
  BY <1>1, RangeNone DEF IInv, Places
<1>5. QED
  BY <1>3, <1>4 DEF PlaceOk, Alive

LEMMA NobodyLives ==
  ASSUME IInv, AllForked, Quiet, event_list = << >>, suspended = << >>
  PROVE  \A t \in Threads : ~ Alive(thr, t)
<1>1. PICK T : T = {t \in Threads : Alive(thr, t)}
  OBVIOUS
<1>2. SUFFICES ASSUME T # {} PROVE FALSE
  BY <1>1
<1>3. PICK rank \in [Threads -> Nat] : Below(rank, thr)
  BY DEF IInv, Acyclic
<1>4. PICK x \in T : \A y \in T : ~ (rank[y] < rank[x])
  <2>1. T \in SUBSET Threads
    BY <1>1
  <2>2. QED
    BY <1>2, <2>1, LowestThread
<1>5. x \in Threads /\ Alive(thr, x) /\ x # None
  BY <1>1, ThreadsAssumption
<1>6. thr[x].i_am_joining \/ thr[x].i_am_waiting
  BY <1>5, QuietPlaces
<1>7. \E c \in Threads : Alive(thr, c) /\ thr[c].parent = x
  <2>1. CASE thr[x].i_am_joining
    BY <1>5, <2>1, JoinedLive
  <2>2. CASE thr[x].i_am_waiting
    <3>1. Counts(thr, todo)
      BY DEF IInv
    <3>2. PICK c : c \in thr[x].detached_children
      BY <1>5, <2>2, <3>1 DEF Counts
    <3>3. QED
      BY <1>5, <3>2, DetachedLive
  <2>3. QED
    BY <1>6, <2>1, <2>2
<1>8. PICK c \in Threads : Alive(thr, c) /\ thr[c].parent = x
  BY <1>7
<1>9. rank[c] < rank[x] /\ c \in T
  BY <1>1, <1>3, <1>5, <1>8 DEF Below
<1>10. QED
  BY <1>4, <1>9

(* When vvp has nothing left to run and no thread waits for an event, all  *)
(* threads have ended and have been deleted: of the live threads the       *)
(* lowest in the tree would wait for a child that lives, lower still.      *)
THEOREM NobodyStuckHolds ==
  ASSUME SoundPrograms
  PROVE  Spec => []NobodyStuck
<1>1. ASSUME IInv, AllForked PROVE NobodyStuck
  <2>1. SUFFICES ASSUME Quiet, event_list = << >>, suspended = << >>, NEW t \in Threads, thr[t].exists
                 PROVE  FALSE
    BY DEF NobodyStuck
  <2>2. ~ Alive(thr, t)
    BY <1>1, <2>1, NobodyLives
  <2>3. thr[t].zombie
    BY <2>1, <2>2 DEF Alive
  <2>4. thr[t].parent # None
    BY <1>1, <2>1, <2>3, QuietPlaces
  <2>5. thr[t].parent \in Threads /\ Alive(thr, thr[t].parent)
    <3>1. Good(thr)
      BY <1>1, GoodThr
    <3>2. QED
      BY <2>1, <2>4, <3>1, ParentIs DEF Good, Linked
  <2>6. QED
    BY <1>1, <2>1, <2>5, NobodyLives
<1>2. QED
  BY <1>1, ThreadInvariant, JoinsAreForked, PTL

=============================================================================
