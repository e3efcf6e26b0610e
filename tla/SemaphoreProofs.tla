-------------------------- MODULE SemaphoreProofs --------------------------
(***************************************************************************)
(* Proofs about Semaphore, for any number of threads and keys.             *)
(***************************************************************************)
EXTENDS Semaphore, SequenceTheorems, FiniteSetTheorems, TLAPS

(* Removing an element of a sequence moves the later ones down by one.     *)
LEMMA RemoveAtProperties ==
  ASSUME NEW S, NEW s \in Seq(S), NEW i \in 1..Len(s)
  PROVE  /\ RemoveAt(s, i) \in Seq(S)
         /\ Len(RemoveAt(s, i)) = Len(s) - 1
         /\ \A j \in 1..(Len(s) - 1) :
              RemoveAt(s, i)[j] = IF j < i THEN s[j] ELSE s[j + 1]
<1> DEFINE a == SubSeq(s, 1, i - 1)
           b == SubSeq(s, i + 1, Len(s))
<1>1. /\ a \in Seq(S) /\ Len(a) = i - 1 /\ \A j \in 1..(i - 1) : a[j] = s[j]
  BY SubSeqProperties
<1>2. /\ b \in Seq(S) /\ Len(b) = Len(s) - i
      /\ \A j \in 1..(Len(s) - i) : b[j] = s[i + j]
  BY SubSeqProperties
<1>3. RemoveAt(s, i) = a \o b
  BY DEF RemoveAt
<1> HIDE DEF a, b
<1>4. /\ a \o b \in Seq(S)
      /\ Len(a \o b) = Len(s) - 1
      /\ \A j \in 1..(Len(s) - 1) :
           (a \o b)[j] = IF j <= i - 1 THEN a[j] ELSE b[j - (i - 1)]
  <2>1. Len(a) + Len(b) = Len(s) - 1 /\ Len(a) = i - 1
    BY <1>1, <1>2
  <2>2. /\ a \o b \in Seq(S)
        /\ Len(a \o b) = Len(a) + Len(b)
        /\ \A j \in 1..(Len(a) + Len(b)) :
             (a \o b)[j] = IF j <= Len(a) THEN a[j] ELSE b[j - Len(a)]
    BY <1>1, <1>2, ConcatProperties
  <2>3. QED
    BY <2>1, <2>2, Zenon
<1>5. ASSUME NEW j \in 1..(Len(s) - 1)
      PROVE  (a \o b)[j] = IF j < i THEN s[j] ELSE s[j + 1]
  <2>1. CASE j < i
    BY <2>1, <1>1, <1>4
  <2>2. CASE ~ (j < i)
    <3>1. j - (i - 1) \in 1..(Len(s) - i) /\ i + (j - (i - 1)) = j + 1
      BY <2>2
    <3>2. QED
      BY <2>2, <3>1, <1>2, <1>4
  <2>3. QED
    BY <2>1, <2>2
<1>6. QED
  BY <1>3, <1>4, <1>5

(* Putting a thread in front of a sequence. *)
LEMMA InFront ==
  ASSUME NEW S, NEW s \in Seq(S), NEW e \in S
  PROVE  /\ <<e>> \o s \in Seq(S)
         /\ Len(<<e>> \o s) = Len(s) + 1
         /\ (<<e>> \o s)[1] = e
         /\ \A j \in 1..Len(s) : (<<e>> \o s)[j + 1] = s[j]
         /\ \A j \in 2..(Len(s) + 1) : (<<e>> \o s)[j] = s[j - 1]
  OBVIOUS

LEMMA InitIInv == Init => IInv
<1> SUFFICES ASSUME Init PROVE IInv
  OBVIOUS
<1>1. Cardinality(Threads) \in Nat
  BY SemaphoreAssumption, FS_CardinalityType
<1>2. /\ ready \in [1..Cardinality(Threads) -> Threads]
      /\ \A i, j \in 1..Cardinality(Threads) : i # j => ready[i] # ready[j]
  BY DEF Init, SetToSeqs
<1>3. ready \in Seq(Threads) /\ DOMAIN ready = 1..Cardinality(Threads)
  BY <1>1, <1>2
<1>4. \A i \in DOMAIN ready : ready[i] # None
  BY <1>2, <1>3, SemaphoreAssumption
<1>5. TypeOK /\ Conserved /\ NoMissedWakeup
  <2>1. waiters_ = << >> /\ DOMAIN waiters_ = {}
    BY DEF Init
  <2>0. resuming \in BOOLEAN
    BY Zenon DEF Init
  <2>2. /\ count_ \in Nat /\ given \in Nat /\ granted \in Nat
        /\ waiters_ \in Seq(waiter_t) /\ running \in Threads \cup {None}
    BY SemaphoreAssumption DEF Init
  <2>3. Conserved
    BY SemaphoreAssumption DEF Init, Conserved
  <2>4. QED
    BY <1>3, <2>0, <2>1, <2>2, <2>3 DEF TypeOK, NoMissedWakeup
<1>6. Apart
  <2>1. waiters_ = << >> /\ DOMAIN waiters_ = {} /\ running = None
    BY DEF Init
  <2>2. QED
    BY <2>1, <1>2, <1>3, <1>4 DEF Apart
<1>7. QED
  BY <1>5, <1>6 DEF IInv

(* What a call of get or try_get does when there are enough keys. *)
LEMMA ObtainStep ==
  ASSUME IInv, NEW n \in Nat, Obtain(n)
  PROVE  /\ count_' \in Nat /\ granted' \in Nat
         /\ count_' <= count_ /\ granted' - granted = n
         /\ given' = given => Conserved'
  BY SemaphoreAssumption DEF IInv, TypeOK, Conserved, Obtain

LEMMA WaiterTypes ==
  ASSUME TypeOK
  PROVE  /\ \A i \in DOMAIN waiters_ : waiters_[i].n \in Nat /\ waiters_[i].thr \in Threads
         /\ \A i \in DOMAIN ready : ready[i] \in Threads
         /\ Len(waiters_) \in Nat /\ DOMAIN waiters_ = 1..Len(waiters_)
         /\ Len(ready) \in Nat /\ DOMAIN ready = 1..Len(ready)
<1>1. waiters_ \in Seq(waiter_t) /\ ready \in Seq(Threads)
  BY DEF TypeOK
<1>2. \A i \in DOMAIN waiters_ : waiters_[i] \in waiter_t
  BY <1>1
<1>3. \A x \in waiter_t : x.n \in Nat /\ x.thr \in Threads
  BY SemaphoreAssumption DEF waiter_t
<1>4. QED
  BY <1>1, <1>2, <1>3

(* Fewer keys and the same waiters: those still have to wait. *)
LEMMA StillWaiting ==
  ASSUME IInv, count_' \in Nat, count_' <= count_,
         waiters_' = waiters_, resuming' = resuming
  PROVE  NoMissedWakeup'
<1> SUFFICES ASSUME ~ resuming', NEW i \in DOMAIN waiters_'
             PROVE  waiters_'[i].n > count_'
  BY DEF NoMissedWakeup
<1>0. ~ resuming
  OBVIOUS
<1>1. i \in DOMAIN waiters_ /\ waiters_'[i] = waiters_[i]
  OBVIOUS
<1>2. waiters_[i].n > count_ /\ waiters_[i].n \in Nat /\ count_ \in Nat
  BY <1>0, <1>1, WaiterTypes DEF IInv, TypeOK, NoMissedWakeup
<1>3. QED
  BY <1>1, <1>2

LEMMA KeysType ==
  ASSUME NEW nval \in 0..MaxN
  PROVE  Keys(nval) \in 1..MaxN
  BY SemaphoreAssumption DEF Keys

(* get appends the thread to the waiters, unless there are enough keys. *)
LEMMA GetStep ==
  ASSUME IInv, NEW t \in Threads, NEW nval \in 0..MaxN, get(t, nval)
  PROVE  IInv'
<1> DEFINE n == Keys(nval)
<1>0. n \in 1..MaxN /\ n \in Nat
  BY KeysType
<1> HIDE DEF n
<1>1. CASE Obtain(n) /\ UNCHANGED <<waiters_, running>>
  <2>1. UNCHANGED <<resuming, ready, given, waiters_, running>>
    BY <1>1 DEF get
  <2>2. TypeOK' /\ Conserved'
    BY <1>0, <1>1, <2>1, ObtainStep DEF IInv, TypeOK
  <2>3. NoMissedWakeup'
    BY <1>0, <1>1, <2>1, ObtainStep, StillWaiting
  <2>4. Apart'
    BY <2>1 DEF IInv, Apart
  <2>5. QED
    BY <2>2, <2>3, <2>4 DEF IInv
<1>2. CASE /\ count_ < n
           /\ waiters_' = Append(waiters_, [thr |-> t, n |-> n])
           /\ running' = None
           /\ UNCHANGED <<count_, granted>>
  <2>1. UNCHANGED <<resuming, ready, given>> /\ running = t
    BY DEF get, Calls
  <2>2. [thr |-> t, n |-> n] \in waiter_t
    BY <1>0 DEF waiter_t
  <2>3. /\ waiters_' \in Seq(waiter_t)
        /\ Len(waiters_') = Len(waiters_) + 1
        /\ DOMAIN waiters_' = 1..(Len(waiters_) + 1)
        /\ DOMAIN waiters_ = 1..Len(waiters_)
        /\ waiters_'[Len(waiters_) + 1] = [thr |-> t, n |-> n]
        /\ \A j \in 1..Len(waiters_) : waiters_'[j] = waiters_[j]
    BY <1>2, <2>2 DEF IInv, TypeOK
  <2>4. TypeOK' /\ Conserved'
    BY <1>2, <2>1, <2>3 DEF IInv, TypeOK, Conserved
  <2>5. NoMissedWakeup'
    <3>1. ASSUME ~ resuming', NEW j \in DOMAIN waiters_'
          PROVE  waiters_'[j].n > count_'
      <4>1. CASE j = Len(waiters_) + 1
        BY <4>1, <1>0, <1>2, <2>3 DEF IInv, TypeOK
      <4>2. CASE j \in 1..Len(waiters_)
        BY <3>1, <4>2, <1>2, <2>1, <2>3 DEF IInv, NoMissedWakeup
      <4>3. QED
        BY <3>1, <4>1, <4>2, <2>3 DEF IInv, TypeOK
    <3>2. QED
      BY <3>1 DEF NoMissedWakeup
  <2>6. Apart'
    <3>1. /\ waiters_'[Len(waiters_) + 1].thr = t
          /\ \A j \in 1..Len(waiters_) : waiters_'[j].thr = waiters_[j].thr
      BY <2>3
    <3>2. ready' = ready /\ running' = None /\ running = t
      BY <1>2, <2>1
    <3>3. \A i, j \in DOMAIN ready' : i # j => ready'[i] # ready'[j]
      BY <3>2 DEF IInv, Apart
    <3>4. \A i, j \in DOMAIN waiters_' : i # j => waiters_'[i].thr # waiters_'[j].thr
      BY <2>3, <3>1, <3>2, WaiterTypes DEF IInv, Apart
    <3>5. \A i \in DOMAIN ready', j \in DOMAIN waiters_' : ready'[i] # waiters_'[j].thr
      BY <2>3, <3>1, <3>2, WaiterTypes DEF IInv, Apart
    <3>6. /\ \A i \in DOMAIN ready' : ready'[i] # running'
          /\ \A j \in DOMAIN waiters_' : waiters_'[j].thr # running'
      BY <2>3, <3>1, <3>2, WaiterTypes, SemaphoreAssumption DEF IInv
    <3>7. QED
      BY <3>3, <3>4, <3>5, <3>6 DEF Apart
  <2>7. QED
    BY <2>4, <2>5, <2>6 DEF IInv
<1>3. QED
  BY <1>1, <1>2 DEF get, n

LEMMA TryGetStep ==
  ASSUME IInv, NEW t \in Threads, NEW nval \in 0..MaxN, try_get(t, nval)
  PROVE  IInv'
<1> DEFINE n == Keys(nval)
<1>0. n \in Nat
  BY KeysType
<1>1. Obtain(n) /\ UNCHANGED <<waiters_, resuming, running, ready, given>>
  BY DEF try_get
<1> HIDE DEF n
<1>2. TypeOK' /\ Conserved'
  BY <1>0, <1>1, ObtainStep DEF IInv, TypeOK
<1>3. NoMissedWakeup'
  BY <1>0, <1>1, ObtainStep, StillWaiting
<1>4. Apart'
  BY <1>1 DEF IInv, Apart
<1>5. QED
  BY <1>2, <1>3, <1>4 DEF IInv

LEMMA PutStep ==
  ASSUME IInv, NEW t \in Threads, NEW nval \in 0..MaxN, put(t, nval)
  PROVE  IInv'
<1> DEFINE n == Keys(nval)
<1>0. n \in Nat
  BY KeysType
<1>1. /\ count_' = count_ + n /\ given' = given + n
      /\ UNCHANGED <<waiters_, running, ready, granted>>
  BY DEF put
<1>2. resuming' = TRUE
  BY Zenon DEF put
<1> HIDE DEF n
<1>3. resuming' \in BOOLEAN /\ NoMissedWakeup'
  BY <1>2, Zenon DEF NoMissedWakeup
<1>4. TypeOK' /\ Conserved'
  BY <1>0, <1>1, <1>3, SemaphoreAssumption DEF IInv, TypeOK, Conserved
<1>5. Apart'
  BY <1>1 DEF IInv, Apart
<1>6. QED
  BY <1>3, <1>4, <1>5 DEF IInv

(* A turn of resume_waiters_ moves a waiter in front of the ready threads. *)
LEMMA ResumeOneStep ==
  ASSUME IInv, ResumeOne
  PROVE  IInv'
<1>1. PICK i \in Served :
        /\ Obtain(waiters_[i].n)
        /\ ready' = <<waiters_[i].thr>> \o ready
        /\ waiters_' = RemoveAt(waiters_, i)
  BY DEF ResumeOne
<1>2. UNCHANGED <<running, given>>
  BY DEF ResumeOne
<1>3. resuming' = resuming /\ resuming
  BY Zenon DEF ResumeOne
<1>4. /\ i \in 1..Len(waiters_) /\ waiters_ \in Seq(waiter_t) /\ ready \in Seq(Threads)
      /\ waiters_[i].n \in Nat /\ waiters_[i].thr \in Threads
  BY WaiterTypes DEF Served, IInv, TypeOK
<1> DEFINE w == waiters_[i].thr
<1>5. /\ waiters_' \in Seq(waiter_t)
      /\ Len(waiters_') = Len(waiters_) - 1
      /\ \A j \in 1..(Len(waiters_) - 1) :
           waiters_'[j] = IF j < i THEN waiters_[j] ELSE waiters_[j + 1]
  BY <1>1, <1>4, RemoveAtProperties
<1>6. /\ ready' \in Seq(Threads) /\ Len(ready') = Len(ready) + 1 /\ ready'[1] = w
      /\ \A j \in 2..(Len(ready) + 1) : ready'[j] = ready[j - 1]
  BY <1>1, <1>4, InFront
<1>7. resuming' \in BOOLEAN /\ NoMissedWakeup'
  BY <1>3, Zenon DEF IInv, TypeOK, NoMissedWakeup
<1>8. TypeOK' /\ Conserved'
  BY <1>1, <1>2, <1>4, <1>5, <1>6, <1>7, ObtainStep DEF IInv, TypeOK
<1>9. Apart'
  <2> DEFINE old(j) == IF j < i THEN j ELSE j + 1
  <2>1. /\ DOMAIN waiters_' = 1..(Len(waiters_) - 1)
        /\ DOMAIN ready' = 1..(Len(ready) + 1)
    BY <1>5, <1>6
  <2>2. \A j \in DOMAIN waiters_' :
          /\ old(j) \in DOMAIN waiters_ /\ old(j) # i
          /\ waiters_'[j].thr = waiters_[old(j)].thr
    BY <2>1, <1>4, <1>5
  <2>3. \A j, k \in DOMAIN waiters_' : j # k => old(j) # old(k)
    BY <2>1, <1>4
  <2>4. \A j \in DOMAIN ready' :
          \/ j = 1 /\ ready'[j] = w
          \/ j # 1 /\ j - 1 \in DOMAIN ready /\ ready'[j] = ready[j - 1]
    BY <2>1, <1>4, <1>6
  <2> HIDE DEF old, w
  <2>5. i \in DOMAIN waiters_ /\ w = waiters_[i].thr
    BY <1>4 DEF w
  <2>6. \A j, k \in DOMAIN ready' : j # k => ready'[j] # ready'[k]
    BY <2>1, <2>4, <2>5 DEF IInv, Apart
  <2>7. \A j, k \in DOMAIN waiters_' : j # k => waiters_'[j].thr # waiters_'[k].thr
    BY <2>2, <2>3 DEF IInv, Apart
  <2>8. \A j \in DOMAIN ready', k \in DOMAIN waiters_' : ready'[j] # waiters_'[k].thr
    BY <2>2, <2>4, <2>5 DEF IInv, Apart
  <2>9. /\ \A j \in DOMAIN ready' : ready'[j] # running'
        /\ \A k \in DOMAIN waiters_' : waiters_'[k].thr # running'
    BY <1>2, <2>2, <2>4, <2>5 DEF IInv, Apart
  <2>10. QED
    BY <2>6, <2>7, <2>8, <2>9 DEF Apart
<1>10. QED
  BY <1>7, <1>8, <1>9 DEF IInv

LEMMA ResumeEndStep ==
  ASSUME IInv, ResumeEnd
  PROVE  IInv'
<1>1. UNCHANGED <<count_, waiters_, running, ready, given, granted>> /\ Served = {}
  BY DEF ResumeEnd
<1>2. resuming' \in BOOLEAN
  BY Zenon DEF ResumeEnd
<1>3. TypeOK' /\ Conserved' /\ Apart'
  BY <1>1, <1>2 DEF IInv, TypeOK, Conserved, Apart
<1>4. \A i \in DOMAIN waiters_ : waiters_[i].n > count_
  BY <1>1, WaiterTypes DEF Served, IInv, TypeOK
<1>5. NoMissedWakeup'
  BY <1>1, <1>4 DEF NoMissedWakeup
<1>6. QED
  BY <1>3, <1>5 DEF IInv

(* The scheduler only moves threads between running and ready. *)
LEMMA DispatchStep ==
  ASSUME IInv, Dispatch
  PROVE  IInv'
<1>1. UNCHANGED <<count_, waiters_, given, granted>>
  BY DEF Dispatch
<1>2. resuming' = resuming
  BY DEF Dispatch
<1>3. /\ running' = ready[1] /\ ready # << >> /\ ready' = Tail(ready)
      /\ ready \in Seq(Threads)
  BY DEF Dispatch, IInv, TypeOK
<1>4. /\ ready' \in Seq(Threads) /\ Len(ready') = Len(ready) - 1
      /\ 1 \in DOMAIN ready /\ running' \in Threads
      /\ \A j \in DOMAIN ready' :
           j + 1 \in DOMAIN ready /\ j \in Nat /\ j # 0 /\ ready'[j] = ready[j + 1]
  BY <1>3
<1>5. resuming' \in BOOLEAN
  BY <1>2 DEF IInv, TypeOK
<1>6. TypeOK' /\ Conserved'
  BY <1>1, <1>4, <1>5 DEF IInv, TypeOK, Conserved
<1>7. NoMissedWakeup'
  BY <1>1, <1>2 DEF IInv, NoMissedWakeup
<1>8. Apart'
  BY <1>1, <1>3, <1>4 DEF IInv, Apart
<1>9. QED
  BY <1>6, <1>7, <1>8 DEF IInv

LEMMA PauseStep ==
  ASSUME IInv, NEW t \in Threads, Pause(t)
  PROVE  IInv'
<1>1. UNCHANGED <<count_, waiters_, given, granted>> /\ running = t /\ running' = None
  BY DEF Pause, Calls
<1>2. resuming' = resuming
  BY DEF Pause
<1>3. ready \in Seq(Threads) /\ ready' = Append(ready, t)
  BY DEF Pause, IInv, TypeOK
<1>4. /\ ready' \in Seq(Threads) /\ Len(ready') = Len(ready) + 1 /\ Len(ready) \in Nat
      /\ DOMAIN ready = 1..Len(ready) /\ DOMAIN ready' = 1..(Len(ready) + 1)
      /\ \A j \in DOMAIN ready : ready'[j] = ready[j] /\ ready[j] \in Threads
      /\ ready'[Len(ready) + 1] = t
  BY <1>3
<1>5. resuming' \in BOOLEAN
  BY <1>2 DEF IInv, TypeOK
<1>6. TypeOK' /\ Conserved'
  BY <1>1, <1>4, <1>5 DEF IInv, TypeOK, Conserved
<1>7. NoMissedWakeup'
  BY <1>1, <1>2 DEF IInv, NoMissedWakeup
<1>8. Apart'
  BY <1>1, <1>4, WaiterTypes, SemaphoreAssumption DEF IInv, Apart
<1>9. QED
  BY <1>6, <1>7, <1>8 DEF IInv

(* Every step keeps the invariant. *)
LEMMA NextIInv == IInv /\ [Next]_vars => IInv'
<1> SUFFICES ASSUME IInv, [Next]_vars PROVE IInv'
  OBVIOUS
<1>1. ASSUME NEW t \in Threads, NEW nval \in 0..MaxN,
             get(t, nval) \/ try_get(t, nval) \/ put(t, nval)
      PROVE  IInv'
  BY <1>1, GetStep, TryGetStep, PutStep
<1>2. CASE UNCHANGED vars
  BY <1>2 DEF vars, IInv, TypeOK, Conserved, NoMissedWakeup, Apart
<1>3. QED
  BY <1>1, <1>2, ResumeOneStep, ResumeEndStep, DispatchStep, PauseStep DEF Next

(* The invariant holds for any number of threads and keys. *)
THEOREM SemaphoreInvariant == Spec => []IInv
  BY InitIInv, NextIInv, PTL DEF Spec

(* count_ of vvp_semaphore, which is unsigned, never wraps below zero.     *)
THEOREM TypeCorrect == Spec => []TypeOK
<1>1. IInv => TypeOK
  BY DEF IInv
<1>2. QED
  BY <1>1, SemaphoreInvariant, PTL

(* vvp_semaphore neither makes nor loses keys: count_ is what was there at *)
(* first and was put, less what get, try_get and resume_waiters_ gave.     *)
THEOREM KeysConserved == Spec => []Conserved
<1>1. IInv => Conserved
  BY DEF IInv
<1>2. QED
  BY <1>1, SemaphoreInvariant, PTL

(* resume_waiters_ leaves no thread waiting for keys that are there.       *)
THEOREM WakeupsComplete == Spec => []NoMissedWakeup
<1>1. IInv => NoMissedWakeup
  BY DEF IInv
<1>2. QED
  BY <1>1, SemaphoreInvariant, PTL

(* The keys that a step hands out are fewer than any thread that goes on   *)
(* waiting in the same place asks for.                                     *)
LEMMA GrantStep ==
  ASSUME IInv, Next, granted' # granted,
         NEW j \in DOMAIN waiters_ \cap DOMAIN waiters_', waiters_'[j] = waiters_[j]
  PROVE  waiters_[j].n > granted' - granted
<1>0. /\ waiters_[j].n \in Nat /\ count_ \in Nat /\ granted \in Nat
      /\ waiters_[j].thr \in Threads
  BY WaiterTypes DEF IInv, TypeOK
<1>1. ASSUME NEW n \in Nat, Obtain(n), waiters_[j].n > count_
      PROVE  waiters_[j].n > granted' - granted
  BY <1>0, <1>1, ObtainStep DEF Obtain
<1>2. ASSUME NEW t \in Threads, NEW nval \in 0..MaxN, get(t, nval) \/ try_get(t, nval)
      PROVE  waiters_[j].n > granted' - granted
  <2>1. Keys(nval) \in Nat
    BY KeysType
  <2>2. ~ resuming
    BY <1>2, Zenon DEF get, try_get, Calls
  <2>3. Obtain(Keys(nval))
    BY <1>2 DEF get, try_get
  <2>4. waiters_[j].n > count_
    BY <2>2 DEF IInv, NoMissedWakeup
  <2>5. QED
    BY <2>1, <2>3, <2>4, <1>1
<1>3. ASSUME NEW t \in Threads, NEW nval \in 0..MaxN, put(t, nval)
      PROVE  FALSE
  BY <1>3 DEF put
<1>4. CASE ResumeOne
  <2>1. PICK i \in Served :
          /\ \A k \in Served : i <= k
          /\ Obtain(waiters_[i].n)
          /\ waiters_' = RemoveAt(waiters_, i)
    BY <1>4 DEF ResumeOne
  <2>2. i \in 1..Len(waiters_) /\ waiters_ \in Seq(waiter_t) /\ waiters_[i].n \in Nat
    BY WaiterTypes DEF Served, IInv, TypeOK
  <2>3. /\ Len(waiters_') = Len(waiters_) - 1 /\ waiters_' \in Seq(waiter_t)
        /\ \A k \in 1..(Len(waiters_) - 1) :
             waiters_'[k] = IF k < i THEN waiters_[k] ELSE waiters_[k + 1]
    BY <2>1, <2>2, RemoveAtProperties
  <2>4. j \in 1..(Len(waiters_) - 1) /\ j + 1 \in DOMAIN waiters_ /\ j # j + 1
    BY <2>2, <2>3
  <2>5. waiters_[j] # waiters_[j + 1]
    BY <2>4 DEF IInv, Apart
  <2>6. j < i
    BY <2>2, <2>3, <2>4, <2>5
  <2>7. waiters_[j].n > count_
    BY <1>0, <2>1, <2>2, <2>4, <2>6 DEF Served
  <2>8. QED
    BY <2>1, <2>2, <2>7, <1>1
<1>5. CASE ResumeEnd \/ Dispatch \/ \E t \in Threads : Pause(t)
  BY <1>5 DEF ResumeEnd, Dispatch, Pause
<1>6. QED
  BY <1>2, <1>3, <1>4, <1>5 DEF Next

(* A thread that waits for keys is overtaken only by threads that ask for  *)
(* fewer: get, try_get and resume_waiters_ are otherwise first come, first *)
(* served.                                                                 *)
THEOREM OvertakingBounded == Spec => OvertakenBySmaller
<1>1. IInv /\ [Next]_vars =>
        [granted' # granted =>
           \A j \in DOMAIN waiters_ \cap DOMAIN waiters_' :
             waiters_'[j] = waiters_[j] => waiters_[j].n > granted' - granted]_vars
  BY GrantStep DEF vars
<1>2. QED
  BY <1>1, SemaphoreInvariant, PTL DEF Spec, OvertakenBySmaller

=============================================================================
