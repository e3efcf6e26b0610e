-------------------------- MODULE SchedulerProofs --------------------------
(***************************************************************************)
(* Proofs about the event queue, for any delays and any number of events.  *)
(*                                                                         *)
(* The argument: the delay of a cell is relative to the cell before it, so *)
(* the proof keeps the absolute time of every cell (HeadAt, CellChain), of *)
(* what a running search has left to go (SearchOk), and the fact that a    *)
(* cell only holds events of its own time (EventsDue).                     *)
(***************************************************************************)
EXTENDS Scheduler, SequenceTheorems, TLAPS

USE DelaysAssumption, BoundsAssumption, RegionsAssumption DEF stops

-----------------------------------------------------------------------------
(* Lemmas on the building blocks. *)

(* A new event is an event, due after its delay. *)
LEMMA NewEventType ==
  ASSUME TypeOK, NEW r \in Queues \cup Lists, NEW d \in Nat, NEW p \in BOOLEAN
  PROVE  /\ NewEvent(r, d, p) \in Event
         /\ NewEvent(r, d, p).at = schedule_time + d
         /\ NewEvent(r, d, p).region = r
  BY DEF NewEvent, Event, TypeOK

(* A new cell has the time of its event, and holds nothing else. *)
LEMMA CellWithOk ==
  ASSUME NEW ev \in Event, NEW d \in Nat, ev.region \in Queues
  PROVE  /\ CellWith(d, ev) \in Cell
         /\ CellWith(d, ev).delay = d
         /\ CellWith(d, ev).at = ev.at
         /\ Due(CellWith(d, ev))
<1> DEFINE c == CellWith(d, ev)
<1>1. \A r \in Queues : c.q[r] = IF r = ev.region THEN <<ev>> ELSE << >>
  BY DEF CellWith
<1>2. c \in Cell /\ c.delay = d /\ c.at = ev.at
  <2>0. << >> \in Seq(Event) /\ <<ev>> \in Seq(Event)
    OBVIOUS
  <2>1. \A r \in Queues : c.q[r] \in Seq(Event)
    BY <1>1, <2>0, Zenon
  <2>2. c.q \in [Queues -> Seq(Event)]
    BY <2>1 DEF CellWith
  <2>3. c = [delay |-> d, at |-> ev.at, q |-> c.q] /\ ev.at \in Nat
    BY DEF CellWith, Event
  <2> QED BY <2>2, <2>3 DEF Cell
<1>3. Due(c)
  <2> SUFFICES ASSUME NEW r \in Queues, NEW k \in 1..Len(c.q[r])
               PROVE  c.q[r][k].at = c.at /\ c.q[r][k].region \in Queues
    BY DEF Due, AllDue
  <2>1. r = ev.region /\ c.q[r] = <<ev>>
    BY <1>1
  <2> QED BY <2>1, <1>2
<1> QED BY <1>2, <1>3

(* Inserting a cell in front of cell i moves the later ones by one place   *)
(* and takes its delay from cell i's.                                      *)
LEMMA InsertBeforeOk ==
  ASSUME sched_list \in Seq(Cell), NEW i \in 1..Len(sched_list), NEW c \in Cell,
         c.delay <= sched_list[i].delay, NEW L, L = InsertBefore(i, c)
  PROVE  /\ L \in Seq(Cell)
         /\ Len(L) = Len(sched_list) + 1
         /\ \A k \in 1..Len(sched_list) + 1 :
              /\ k < i => L[k] = sched_list[k]
              /\ k = i => L[k] = c
              /\ k = i + 1 => L[k] = [sched_list[i] EXCEPT !.delay = @ - c.delay]
              /\ k > i + 1 => L[k] = sched_list[k - 1]
<1>1. \A k \in 1..Len(sched_list) : sched_list[k] \in Cell
  BY ElementOfSeq
<1>2. Len(sched_list) \in Nat
  BY LenProperties
<1>3. [sched_list[i] EXCEPT !.delay = @ - c.delay] \in Cell
  <2>1. sched_list[i] \in Cell
    BY <1>1
  <2>2. c.delay \in Nat /\ sched_list[i].delay \in Nat
    BY <2>1 DEF Cell
  <2>3. sched_list[i].delay - c.delay \in Nat
    BY <2>2
  <2> QED BY <2>1, <2>3 DEF Cell
<1>4. \A k \in 1..Len(sched_list) + 1 : L[k] \in Cell
  BY <1>1, <1>2, <1>3 DEF InsertBefore
<1>5. L \in [1..Len(sched_list) + 1 -> Cell]
  BY <1>1, <1>2, <1>3 DEF InsertBefore
<1>6. L \in Seq(Cell) /\ Len(L) = Len(sched_list) + 1
  BY <1>2, <1>5, SeqDef, LenProperties
<1> QED BY <1>6, <1>2 DEF InsertBefore

(* What the queue operations do to a queue of events that are due at t. *)
LEMMA AllDueOps ==
  ASSUME NEW s \in Seq(Event), NEW t \in Nat, AllDue(s, t)
  PROVE  /\ \A ev \in Event : ev.at = t /\ ev.region \in Queues =>
              /\ Append(s, ev) \in Seq(Event) /\ AllDue(Append(s, ev), t)
              /\ <<ev>> \o s \in Seq(Event) /\ AllDue(<<ev>> \o s, t)
         /\ s # << >> => /\ Tail(s) \in Seq(Event) /\ AllDue(Tail(s), t)
                        /\ Head(s) \in Event
                        /\ Head(s).at = t /\ Head(s).region \in Queues
         /\ << >> \in Seq(Event) /\ AllDue(<< >>, t)
<1>1. ASSUME NEW ev \in Event, ev.at = t, ev.region \in Queues
      PROVE  /\ Append(s, ev) \in Seq(Event) /\ AllDue(Append(s, ev), t)
             /\ <<ev>> \o s \in Seq(Event) /\ AllDue(<<ev>> \o s, t)
  <2>1. Append(s, ev) \in Seq(Event) /\ AllDue(Append(s, ev), t)
    BY <1>1 DEF AllDue
  <2>2. <<ev>> \in Seq(Event) /\ Len(<<ev>>) = 1 /\ <<ev>>[1] = ev
    OBVIOUS
  <2>3. <<ev>> \o s \in Seq(Event) /\ Len(<<ev>> \o s) = 1 + Len(s)
        /\ \A k \in 1..Len(s) + 1 :
             (<<ev>> \o s)[k] = IF k <= 1 THEN ev ELSE s[k - 1]
    BY <2>2, ConcatProperties, LenProperties
  <2>4. AllDue(<<ev>> \o s, t)
    BY <1>1, <2>3 DEF AllDue
  <2> QED BY <2>1, <2>3, <2>4
<1>2. ASSUME s # << >>
      PROVE  /\ Tail(s) \in Seq(Event) /\ AllDue(Tail(s), t)
             /\ Head(s) \in Event
             /\ Head(s).at = t /\ Head(s).region \in Queues
  BY <1>2 DEF AllDue
<1> QED BY <1>1, <1>2 DEF AllDue

-----------------------------------------------------------------------------
(* The part of the invariant that is about the list of cells, and what     *)
(* each change of the list does to it.                                     *)

ListInv ==
  sched_list \in Seq(Cell) /\ HeadAt /\ CellChain /\ CellOrder /\ EventsDue

(* A first cell. *)
LEMMA FirstCell ==
  ASSUME schedule_time \in Nat, NEW c \in Cell, Due(c), c.at = schedule_time + c.delay,
         sched_list' = <<c>>, schedule_time' = schedule_time
  PROVE  ListInv'
<1>1. <<c>> \in Seq(Cell) /\ Len(<<c>>) = 1 /\ <<c>>[1] = c
  OBVIOUS
<1> QED BY <1>1 DEF ListInv, HeadAt, CellChain, CellOrder, EventsDue

(* A new cell in front of cell i, at the time the search arrived at. *)
LEMMA InsertKeeps ==
  ASSUME ListInv, schedule_time \in Nat,
         NEW i \in 1..Len(sched_list), NEW c \in Cell, Due(c),
         c.delay < sched_list[i].delay,
         c.at = sched_list[i].at - sched_list[i].delay + c.delay,
         i > 1 => c.delay > 0,
         sched_list' = InsertBefore(i, c), schedule_time' = schedule_time
  PROVE  ListInv' /\ sched_list' # << >> /\ (i > 1 => sched_list'[1] = sched_list[1])
<1> DEFINE n == Len(sched_list)
           L == sched_list'
<1>0. n \in Nat /\ sched_list \in Seq(Cell) /\ \A k \in 1..n : sched_list[k] \in Cell
  BY LenProperties, ElementOfSeq DEF ListInv
<1>1. \A k \in 1..n : sched_list[k].delay \in Nat /\ sched_list[k].at \in Nat
  BY <1>0 DEF Cell
<1>2. c.delay \in Nat /\ c.at \in Nat
  BY DEF Cell
<1>3. /\ L \in Seq(Cell) /\ Len(L) = n + 1
      /\ \A k \in 1..n + 1 :
           /\ k < i => L[k] = sched_list[k]
           /\ k = i => L[k] = c
           /\ k = i + 1 => L[k] = [sched_list[i] EXCEPT !.delay = @ - c.delay]
           /\ k > i + 1 => L[k] = sched_list[k - 1]
  <2>1. c.delay <= sched_list[i].delay
    BY <1>1, <1>2
  <2>2. L = InsertBefore(i, c)
    OBVIOUS
  <2> QED BY <1>0, <2>1, <2>2, InsertBeforeOk
<1>4. sched_list[i] \in Cell
  BY <1>0
<1>5. LET f == [sched_list[i] EXCEPT !.delay = @ - c.delay]
      IN  f.delay = sched_list[i].delay - c.delay /\ f.at = sched_list[i].at
          /\ f.q = sched_list[i].q
  BY <1>4 DEF Cell
<1> HIDE DEF L, n
<1>6. i \in 1..n
  BY DEF n
<1>7. /\ \A k \in 1..n : k < i => /\ L[k].delay = sched_list[k].delay
                                 /\ L[k].at = sched_list[k].at
      /\ L[i].delay = c.delay /\ L[i].at = c.at
      /\ L[i + 1].delay = sched_list[i].delay - c.delay
      /\ L[i + 1].at = sched_list[i].at
      /\ \A k \in 1..n : k > i => /\ L[k + 1].delay = sched_list[k].delay
                                 /\ L[k + 1].at = sched_list[k].at
  <2>1. i \in 1..n + 1 /\ i + 1 \in 1..n + 1
    BY <1>0, <1>6
  <2>2. L[i] = c /\ L[i + 1] = [sched_list[i] EXCEPT !.delay = @ - c.delay]
    BY <1>3, <2>1
  <2>3. ASSUME NEW k \in 1..n, k < i PROVE L[k] = sched_list[k]
    <3>1. k \in 1..n + 1
      BY <1>0
    <3> QED BY <1>3, <2>3, <3>1
  <2>4. ASSUME NEW k \in 1..n, k > i PROVE L[k + 1] = sched_list[k]
    <3>1. k + 1 \in 1..n + 1 /\ k + 1 > i + 1 /\ (k + 1) - 1 = k
      BY <1>0, <1>6, <2>4
    <3>2. L[k + 1] = sched_list[(k + 1) - 1]
      BY <1>3, <3>1
    <3> QED BY <3>1, <3>2
  <2> QED BY <1>5, <2>2, <2>3, <2>4
<1>8. HeadAt'
  <2>1. sched_list[1].at = schedule_time + sched_list[1].delay /\ 1 \in 1..n
    BY <1>0, <1>6 DEF ListInv, HeadAt, n
  <2>2. CASE i = 1
    <3>1. L[1].at = schedule_time + L[1].delay
      BY <1>1, <1>2, <1>7, <2>1, <2>2
    <3> QED BY <3>1 DEF HeadAt, L
  <2>3. CASE i > 1
    <3>1. L[1].at = schedule_time + L[1].delay
      BY <1>7, <2>1, <2>3
    <3> QED BY <3>1 DEF HeadAt, L
  <2> QED BY <1>6, <2>2, <2>3
<1>9. i > 1 => i - 1 \in 1..n /\ sched_list[i].at = sched_list[i - 1].at + sched_list[i].delay
  <2> HAVE i > 1
  <2>1. i - 1 \in 1..n - 1 /\ (i - 1) + 1 = i /\ i - 1 \in 1..n
    BY <1>0, <1>6
  <2> QED BY <2>1 DEF ListInv, CellChain, n
<1>10. CellChain'
  <2>1. \A k \in 1..n - 1 : sched_list[k + 1].delay > 0
           /\ sched_list[k + 1].at = sched_list[k].at + sched_list[k + 1].delay
    BY DEF ListInv, CellChain, n
  <2>2. ASSUME NEW k \in 1..n
        PROVE  L[k + 1].delay > 0 /\ L[k + 1].at = L[k].at + L[k + 1].delay
    <3>1. CASE k + 1 < i
      <4>1. k \in 1..n - 1 /\ k + 1 \in 1..n /\ k < i
        BY <1>0, <1>6, <3>1
      <4> QED BY <1>7, <2>1, <3>1, <4>1
    <3>2. CASE k + 1 = i
      <4>1. L[k].at = sched_list[i - 1].at /\ k = i - 1 /\ i > 1
        BY <1>0, <1>6, <1>7, <3>2
      <4>2. L[k + 1].delay = c.delay /\ L[k + 1].at = c.at
        BY <1>7, <3>2
      <4> QED BY <1>1, <1>2, <1>6, <1>9, <4>1, <4>2
    <3>3. CASE k = i
      <4>1. /\ L[k].at = c.at /\ L[k + 1].at = sched_list[i].at
            /\ L[k + 1].delay = sched_list[i].delay - c.delay
        BY <1>7, <3>3
      <4>2. sched_list[i].at \in Nat /\ sched_list[i].delay \in Nat
        BY <1>1, <1>6
      <4> QED BY <1>2, <4>1, <4>2
    <3>4. CASE k = i + 1
      <4>1. L[k].at = sched_list[i].at /\ L[k + 1].at = sched_list[k].at
            /\ L[k + 1].delay = sched_list[k].delay /\ i \in 1..n - 1
        BY <1>0, <1>6, <1>7, <3>4
      <4> QED BY <2>1, <3>4, <4>1
    <3>5. CASE k > i + 1
      <4>1. k - 1 \in 1..n /\ k - 1 \in 1..n - 1 /\ k - 1 > i /\ (k - 1) + 1 = k /\ k > i
        BY <1>0, <1>6, <3>5
      <4>2. L[k].at = sched_list[k - 1].at /\ L[k + 1].at = sched_list[k].at
            /\ L[k + 1].delay = sched_list[k].delay
        BY <1>7, <4>1
      <4>3. sched_list[k].delay > 0
            /\ sched_list[k].at = sched_list[k - 1].at + sched_list[k].delay
        BY <2>1, <4>1
      <4> QED BY <4>2, <4>3
    <3> QED BY <1>0, <1>6, <3>1, <3>2, <3>3, <3>4, <3>5
  <2> QED BY <1>0, <1>3, <2>2 DEF CellChain, L
<1>11. CellOrder'
  <2>1. \A j, k \in 1..n : j < k => sched_list[j].at < sched_list[k].at
    BY DEF ListInv, CellOrder, n
  <2>2. c.at < sched_list[i].at /\ (i > 1 => sched_list[i - 1].at < c.at)
    BY <1>1, <1>2, <1>6, <1>9
  <2>3. \A k \in 1..n : (k < i => L[k].at < c.at) /\ (k >= i => c.at < L[k + 1].at)
    <3> TAKE k \in 1..n
    <3>1. CASE k < i
      <4>1. i - 1 \in 1..n /\ i > 1 /\ (k = i - 1 \/ k < i - 1)
        BY <1>0, <1>6, <3>1
      <4>2. sched_list[k].at <= sched_list[i - 1].at
        BY <1>1, <2>1, <4>1
      <4> QED BY <1>1, <1>2, <1>7, <2>2, <3>1, <4>1, <4>2
    <3>2. CASE k = i
      BY <1>7, <2>2, <1>6, <3>2
    <3>3. CASE k > i
      <4>1. sched_list[i].at < sched_list[k].at /\ L[k + 1].at = sched_list[k].at
        BY <1>6, <1>7, <2>1, <3>3
      <4> QED BY <1>1, <1>2, <1>6, <2>2, <3>3, <4>1
    <3> QED BY <1>0, <1>6, <3>1, <3>2, <3>3
  <2>4. \A k \in 1..n : k >= i => L[k + 1].at = sched_list[k].at
    BY <1>6, <1>7
  <2>5. ASSUME NEW j \in 1..n + 1, NEW k \in 1..n + 1, j < k
        PROVE  L[j].at < L[k].at
    <3>1. CASE k < i
      BY <1>0, <1>6, <1>7, <2>1, <2>5, <3>1
    <3>2. CASE k = i
      BY <1>0, <1>6, <1>7, <2>3, <2>5, <3>2
    <3>3. CASE k > i
      <4>1. k - 1 \in 1..n /\ k - 1 >= i /\ (k - 1) + 1 = k
        BY <1>0, <1>6, <3>3
      <4>2. L[k].at = sched_list[k - 1].at /\ c.at < L[k].at
        BY <2>3, <2>4, <4>1
      <4>3. CASE j < i
        <5>1. j \in 1..n /\ j < k - 1
          BY <1>0, <1>6, <3>3, <4>3
        <5> QED BY <1>7, <2>1, <4>1, <4>2, <4>3, <5>1
      <4>4. CASE j = i
        BY <1>7, <4>2, <4>4
      <4>5. CASE j > i
        <5>1. j - 1 \in 1..n /\ j - 1 >= i /\ (j - 1) + 1 = j /\ j - 1 < k - 1
          BY <1>0, <1>6, <2>5, <4>5
        <5>2. L[j].at = sched_list[j - 1].at
          BY <2>4, <5>1
        <5> QED BY <2>1, <4>1, <4>2, <5>1, <5>2
      <4> QED BY <1>0, <1>6, <4>3, <4>4, <4>5
    <3> QED BY <1>0, <1>6, <3>1, <3>2, <3>3
  <2> QED BY <1>3, <2>5 DEF CellOrder, L
<1>12. EventsDue'
  <2> SUFFICES ASSUME NEW k \in 1..n + 1
               PROVE  Due(L[k])
    BY <1>3 DEF EventsDue, L
  <2> i \in 1..n /\ \A j \in 1..n : Due(sched_list[j])
    BY DEF ListInv, EventsDue, n
  <2>1. CASE k < i
    BY <1>0, <1>3, <2>1
  <2>2. CASE k = i
    BY <1>3, <2>2
  <2>3. CASE k = i + 1
    <3>1. L[k].q = sched_list[i].q /\ L[k].at = sched_list[i].at
      BY <1>3, <1>5, <2>3
    <3>2. Due(sched_list[i])
      OBVIOUS
    <3> QED BY <3>1, <3>2 DEF Due
  <2>4. CASE k > i + 1
    <3>1. k - 1 \in 1..n
      BY <1>0, <2>4
    <3> QED BY <1>3, <2>4, <3>1
  <2> QED BY <1>0, <2>1, <2>2, <2>3, <2>4
<1>13. L # << >> /\ (i > 1 => L[1] = sched_list[1])
  BY <1>0, <1>3, <1>6, EmptySeq
<1> QED BY <1>3, <1>8, <1>10, <1>11, <1>12, <1>13 DEF ListInv, L

(* A new cell at the end of the list. *)
LEMMA AppendKeeps ==
  ASSUME ListInv, schedule_time \in Nat, sched_list # << >>, NEW c \in Cell, Due(c),
         c.delay > 0, c.at = sched_list[Len(sched_list)].at + c.delay,
         sched_list' = Append(sched_list, c), schedule_time' = schedule_time
  PROVE  ListInv'
<1> DEFINE n == Len(sched_list)
<1>0. n \in Nat /\ n > 0 /\ sched_list \in Seq(Cell) /\ \A k \in 1..n : sched_list[k] \in Cell
  BY LenProperties, EmptySeq, ElementOfSeq DEF ListInv
<1>1. \A k \in 1..n : sched_list[k].delay \in Nat /\ sched_list[k].at \in Nat
  BY <1>0 DEF Cell
<1>2. c.delay \in Nat /\ c.at \in Nat
  BY DEF Cell
<1>3. /\ sched_list' \in Seq(Cell) /\ Len(sched_list') = n + 1
      /\ \A k \in 1..n : sched_list'[k] = sched_list[k]
      /\ sched_list'[n + 1] = c
  BY <1>0, AppendProperties
<1> HIDE DEF n
<1>4. HeadAt'
  BY <1>0, <1>3 DEF HeadAt, ListInv
<1>5. CellChain'
  <2>1. \A k \in 1..n - 1 : sched_list[k + 1].delay > 0
           /\ sched_list[k + 1].at = sched_list[k].at + sched_list[k + 1].delay
    BY DEF ListInv, CellChain, n
  <2>2. c.at = sched_list[n].at + c.delay
    BY DEF n
  <2> QED BY <1>0, <1>2, <1>3, <2>1, <2>2 DEF CellChain
<1>6. CellOrder'
  <2>1. \A j, k \in 1..n : j < k => sched_list[j].at < sched_list[k].at
    BY DEF ListInv, CellOrder, n
  <2>2. c.at > sched_list[n].at
    BY <1>0, <1>1, <1>2 DEF n
  <2>3. \A j \in 1..n : sched_list[j].at < c.at
    BY <1>0, <1>1, <1>2, <2>1, <2>2
  <2> QED BY <1>0, <1>3, <2>1, <2>3 DEF CellOrder
<1>7. EventsDue'
  BY <1>0, <1>3 DEF EventsDue, ListInv, n
<1> QED BY <1>3, <1>4, <1>5, <1>6, <1>7 DEF ListInv

(* A change of the queues of one cell. *)
LEMMA RequeueKeeps ==
  ASSUME ListInv, schedule_time \in Nat, NEW i \in 1..Len(sched_list),
         NEW Q \in [Queues -> Seq(Event)],
         \A r \in Queues : AllDue(Q[r], sched_list[i].at),
         sched_list' = [sched_list EXCEPT ![i] = [@ EXCEPT !.q = Q]],
         schedule_time' = schedule_time
  PROVE  /\ ListInv'
         /\ Len(sched_list') = Len(sched_list)
         /\ \A k \in 1..Len(sched_list) : sched_list'[k].delay = sched_list[k].delay
                                        /\ sched_list'[k].at = sched_list[k].at
<1> DEFINE n == Len(sched_list)
<1>0. n \in Nat /\ sched_list \in Seq(Cell) /\ \A k \in 1..n : sched_list[k] \in Cell
  BY LenProperties, ElementOfSeq DEF ListInv
<1>1. /\ [sched_list[i] EXCEPT !.q = Q] \in Cell
      /\ [sched_list[i] EXCEPT !.q = Q].q = Q
      /\ [sched_list[i] EXCEPT !.q = Q].at = sched_list[i].at
      /\ [sched_list[i] EXCEPT !.q = Q].delay = sched_list[i].delay
  BY <1>0 DEF Cell
<1>2. /\ sched_list' \in Seq(Cell) /\ Len(sched_list') = n
      /\ \A k \in 1..n : k # i => sched_list'[k] = sched_list[k]
      /\ sched_list'[i] = [sched_list[i] EXCEPT !.q = Q]
  BY <1>0, <1>1, ExceptSeq
<1>3. \A k \in 1..n : sched_list'[k].delay = sched_list[k].delay
                     /\ sched_list'[k].at = sched_list[k].at
  BY <1>1, <1>2
<1>4. Due(sched_list'[i])
  BY <1>1, <1>2 DEF Due
<1> HIDE DEF n
<1>5. HeadAt'
  <2>1. 1 \in 1..n /\ sched_list # << >>
    BY <1>0, EmptySeq DEF n
  <2> QED BY <1>3, <2>1 DEF HeadAt, ListInv
<1>6. CellChain'
  <2>1. \A k \in 1..n - 1 : sched_list[k + 1].delay > 0
           /\ sched_list[k + 1].at = sched_list[k].at + sched_list[k + 1].delay
    BY DEF ListInv, CellChain, n
  <2>2. \A k \in 1..n - 1 : k \in 1..n /\ k + 1 \in 1..n
    BY <1>0
  <2>3. \A k \in 1..n - 1 : sched_list'[k + 1].delay > 0
           /\ sched_list'[k + 1].at = sched_list'[k].at + sched_list'[k + 1].delay
    BY <1>3, <2>1, <2>2
  <2> QED BY <1>2, <2>3 DEF CellChain
<1>7. CellOrder'
  BY <1>2, <1>3 DEF CellOrder, ListInv, n
<1>8. EventsDue'
  BY <1>2, <1>4 DEF EventsDue, ListInv, n
<1> QED BY <1>2, <1>3, <1>5, <1>6, <1>7, <1>8 DEF ListInv, n

(* The time advance: the first cell's delay moves into the simulation time. *)
LEMMA AdvanceKeeps ==
  ASSUME ListInv, schedule_time \in Nat, sched_list # << >>,
         sched_list' = [sched_list EXCEPT ![1].delay = 0],
         schedule_time' = schedule_time + sched_list[1].delay
  PROVE  /\ ListInv' /\ schedule_time' \in Nat
         /\ sched_list' # << >> /\ sched_list'[1].delay = 0
<1> DEFINE n == Len(sched_list)
<1>0. n \in Nat /\ 1 \in 1..n /\ sched_list \in Seq(Cell) /\ \A k \in 1..n : sched_list[k] \in Cell
  BY LenProperties, EmptySeq, ElementOfSeq DEF ListInv
<1>1. /\ [sched_list[1] EXCEPT !.delay = 0] \in Cell
      /\ [sched_list[1] EXCEPT !.delay = 0].q = sched_list[1].q
      /\ [sched_list[1] EXCEPT !.delay = 0].at = sched_list[1].at
      /\ [sched_list[1] EXCEPT !.delay = 0].delay = 0
  BY <1>0 DEF Cell
<1>2. sched_list' = [sched_list EXCEPT ![1] = [sched_list[1] EXCEPT !.delay = 0]]
  OBVIOUS
<1>3. /\ sched_list' \in Seq(Cell) /\ Len(sched_list') = n
      /\ \A k \in 1..n : k # 1 => sched_list'[k] = sched_list[k]
      /\ sched_list'[1] = [sched_list[1] EXCEPT !.delay = 0]
  BY <1>0, <1>1, <1>2, ExceptSeq
<1>4. \A k \in 1..n : sched_list'[k].at = sched_list[k].at
  BY <1>1, <1>3
<1>5. \A k \in 1..n : sched_list[k].delay \in Nat /\ sched_list[k].at \in Nat
  BY <1>0 DEF Cell
<1> HIDE DEF n
<1>6. HeadAt'
  BY <1>0, <1>1, <1>3, <1>4, <1>5 DEF HeadAt, ListInv
<1>7. CellChain'
  <2>1. \A k \in 1..n - 1 : sched_list[k + 1].delay > 0
           /\ sched_list[k + 1].at = sched_list[k].at + sched_list[k + 1].delay
    BY DEF ListInv, CellChain, n
  <2>2. \A k \in 1..n - 1 : k \in 1..n /\ k + 1 \in 1..n /\ k + 1 # 1
    BY <1>0
  <2>3. \A k \in 1..n - 1 : sched_list'[k + 1].delay > 0
           /\ sched_list'[k + 1].at = sched_list'[k].at + sched_list'[k + 1].delay
    BY <1>3, <1>4, <2>1, <2>2
  <2> QED BY <1>3, <2>3 DEF CellChain
<1>8. CellOrder'
  BY <1>3, <1>4 DEF CellOrder, ListInv, n
<1>9. EventsDue'
  <2>1. Due(sched_list'[1])
    BY <1>0, <1>1, <1>3 DEF Due, EventsDue, ListInv, n
  <2> QED BY <1>3, <2>1 DEF EventsDue, ListInv, n
<1>10. sched_list' # << >> /\ sched_list'[1].delay = 0
  BY <1>0, <1>1, <1>3, EmptySeq
<1> QED BY <1>0, <1>3, <1>5, <1>6, <1>7, <1>8, <1>9, <1>10 DEF ListInv

(* The current cell is done with. *)
LEMMA TailKeeps ==
  ASSUME ListInv, schedule_time \in Nat, sched_list # << >>, sched_list[1].delay = 0,
         sched_list' = Tail(sched_list), schedule_time' = schedule_time
  PROVE  ListInv'
<1> DEFINE n == Len(sched_list)
<1>0. n \in Nat /\ n > 0 /\ sched_list \in Seq(Cell) /\ \A k \in 1..n : sched_list[k] \in Cell
  BY LenProperties, EmptySeq, ElementOfSeq DEF ListInv
<1>1. /\ sched_list' \in Seq(Cell) /\ Len(sched_list') = n - 1
      /\ \A k \in 1..n - 1 : sched_list'[k] = sched_list[k + 1]
  BY <1>0, HeadTailProperties
<1>2. \A k \in 1..n : sched_list[k].delay \in Nat /\ sched_list[k].at \in Nat
  BY <1>0 DEF Cell
<1>3. \A k \in 1..n - 1 : k \in 1..n /\ k + 1 \in 1..n
  BY <1>0
<1> HIDE DEF n
<1>4. \A k \in 1..n - 1 : sched_list[k + 1].delay > 0
         /\ sched_list[k + 1].at = sched_list[k].at + sched_list[k + 1].delay
  BY DEF ListInv, CellChain, n
<1>5. HeadAt'
  <2>1. CASE n = 1
    <3>1. sched_list' = << >>
      BY <1>1, <2>1, EmptySeq
    <3> QED BY <3>1 DEF HeadAt
  <2>2. CASE n > 1
    <3>1. 1 \in 1..n - 1 /\ 1 + 1 = 2
      BY <1>0, <2>2
    <3>2. sched_list'[1] = sched_list[2]
          /\ sched_list[2].at = sched_list[1].at + sched_list[2].delay
      BY <1>1, <1>4, <3>1
    <3>3. sched_list[1].at = schedule_time
      BY DEF HeadAt, ListInv
    <3> QED BY <3>2, <3>3 DEF HeadAt
  <2> QED BY <1>0, <2>1, <2>2
<1>6. CellChain'
  <2>1. \A k \in 1..(n - 1) - 1 : k \in 1..n - 1 /\ k + 1 \in 1..n - 1
    BY <1>0
  <2>2. \A k \in 1..(n - 1) - 1 : sched_list'[k + 1].delay > 0
           /\ sched_list'[k + 1].at = sched_list'[k].at + sched_list'[k + 1].delay
    BY <1>1, <1>4, <2>1
  <2> QED BY <1>1, <2>2 DEF CellChain
<1>7. CellOrder'
  <2>1. \A j, k \in 1..n : j < k => sched_list[j].at < sched_list[k].at
    BY DEF ListInv, CellOrder, n
  <2>2. ASSUME NEW j \in 1..n - 1, NEW k \in 1..n - 1, j < k
        PROVE  sched_list'[j].at < sched_list'[k].at
    <3>1. j + 1 \in 1..n /\ k + 1 \in 1..n /\ j + 1 < k + 1
      BY <1>0, <2>2
    <3> QED BY <1>1, <2>1, <3>1
  <2> QED BY <1>1, <2>2 DEF CellOrder
<1>8. EventsDue'
  <2>1. \A k \in 1..n : Due(sched_list[k])
    BY DEF EventsDue, ListInv, n
  <2>2. \A k \in 1..n - 1 : Due(sched_list'[k])
    BY <1>1, <1>3, <2>1
  <2> QED BY <1>1, <2>2 DEF EventsDue
<1> QED BY <1>1, <1>5, <1>6, <1>7, <1>8 DEF ListInv

-----------------------------------------------------------------------------
(* The steps of the scheduler. *)

(* What IInv says of the list, by itself and as a part. *)
LEMMA IInvParts ==
  IInv <=> /\ TypeOK /\ ListInv /\ ListRegions /\ SearchOk /\ InCurrentCell /\ OnTime
  BY DEF IInv, ListInv, TypeOK

(* A step that leaves list, time and search alone. *)
LEMMA Quiet ==
  ASSUME IInv, UNCHANGED <<sched_list, schedule_time, call>>
  PROVE  ListInv' /\ SearchOk'
<1>1. ListInv
  BY IInvParts
<1>2. ListInv'
  BY <1>1 DEF ListInv, HeadAt, CellChain, CellOrder, EventsDue, Due, AllDue
<1>3. SearchOk'
  BY DEF IInv, SearchOk
<1> QED BY <1>2, <1>3

(* The first part of schedule_event_. *)
LEMMA ScheduleEventKeeps ==
  ASSUME IInv, call = NoCall, NEW ev \in Event, NEW d \in Nat,
         ev.region \in Queues, ev.at = schedule_time + d,
         schedule_event_(ev, d), UNCHANGED <<schedule_time, phase, running>>
  PROVE  ListInv' /\ call' \in Search \cup {NoCall} /\ SearchOk' /\ InCurrentCell'
<1> DEFINE c == CellWith(d, ev)
<1>0. ListInv /\ schedule_time \in Nat /\ InCurrentCell
  BY IInvParts DEF IInv, TypeOK
<1>1. c \in Cell /\ c.delay = d /\ c.at = ev.at /\ Due(c)
  BY CellWithOk
<1> HIDE DEF c
<1>2. CASE sched_list = << >> /\ sched_list' = <<c>> /\ UNCHANGED call
  <2>1. ListInv'
    BY <1>0, <1>1, <1>2, FirstCell
  <2>2. InCurrentCell'
    BY <1>0, <1>2 DEF InCurrentCell
  <2> QED BY <1>2, <2>1, <2>2 DEF SearchOk
<1>3. CASE /\ sched_list # << >> /\ sched_list[1].delay > d
           /\ sched_list' = InsertBefore(1, c) /\ UNCHANGED call
  <2>1. 1 \in 1..Len(sched_list) /\ sched_list[1] \in Cell
    BY <1>0, <1>3, EmptySeq, LenProperties, ElementOfSeq DEF ListInv
  <2>2. sched_list[1].at = schedule_time + sched_list[1].delay /\ sched_list[1].delay \in Nat
    BY <1>0, <1>3, <2>1 DEF ListInv, HeadAt, Cell
  <2>3. c.at = sched_list[1].at - sched_list[1].delay + c.delay
    BY <1>0, <1>1, <2>2
  <2>4. c.delay < sched_list[1].delay
    BY <1>1, <1>3, <2>2
  <2>5. ListInv'
    BY <1>0, <1>1, <1>3, <2>1, <2>3, <2>4, InsertKeeps
  <2>6. InCurrentCell'
    BY <1>0, <1>3, <2>2 DEF InCurrentCell
  <2> QED BY <1>3, <2>5, <2>6 DEF SearchOk
<1>4. CASE /\ sched_list # << >> /\ sched_list[1].delay <= d
           /\ call' = [ev |-> ev, delay |-> d, ctim |-> 1] /\ UNCHANGED sched_list
  <2>1. 1 \in 1..Len(sched_list) /\ sched_list[1] \in Cell
    BY <1>0, <1>4, EmptySeq, LenProperties, ElementOfSeq DEF ListInv
  <2>2. /\ sched_list[1].at = schedule_time + sched_list[1].delay
        /\ sched_list[1].delay \in Nat /\ sched_list[1].at \in Nat
    BY <1>0, <1>4, <2>1 DEF ListInv, HeadAt, Cell
  <2>3. ListInv'
    BY <1>0, <1>4 DEF ListInv, HeadAt, CellChain, CellOrder, EventsDue, Due, AllDue
  <2>4. call' \in Search /\ call'.ev = ev /\ call'.delay = d /\ call'.ctim = 1
    BY <1>4 DEF Search
  <2>5. SearchOk'
    <3>1. sched_list[1].at - sched_list[1].delay + d = ev.at
      BY <1>0, <2>2
    <3> QED BY <1>4, <2>1, <2>4, <3>1 DEF SearchOk
  <2>6. InCurrentCell'
    BY <1>0, <1>4 DEF InCurrentCell
  <2> QED BY <2>3, <2>4, <2>5, <2>6
<1> QED BY <1>2, <1>3, <1>4 DEF schedule_event_, c

(* The current cell, when it is known to exist. *)
LEMMA CurrentCell ==
  ASSUME ListInv, sched_list # << >>
  PROVE  /\ 1 \in 1..Len(sched_list) /\ sched_list[1] \in Cell
         /\ sched_list[1].at \in Nat /\ sched_list[1].delay \in Nat
         /\ sched_list[1].at = schedule_time + sched_list[1].delay
         /\ sched_list[1].q \in [Queues -> Seq(Event)]
         /\ \A r \in Queues : AllDue(sched_list[1].q[r], sched_list[1].at)
<1>1. 1 \in 1..Len(sched_list) /\ sched_list[1] \in Cell
  BY EmptySeq, LenProperties, ElementOfSeq DEF ListInv
<1> QED BY <1>1 DEF ListInv, HeadAt, EventsDue, Due, Cell

(* A change of the current cell's queues leaves a search and the step      *)
(* under way valid.                                                        *)
LEMMA RequeueCurrent ==
  ASSUME IInv, sched_list # << >>, NEW Q \in [Queues -> Seq(Event)],
         \A r \in Queues : AllDue(Q[r], sched_list[1].at),
         sched_list' = [sched_list EXCEPT ![1] = [@ EXCEPT !.q = Q]],
         schedule_time' = schedule_time
  PROVE  ListInv' /\ sched_list' # << >> /\ sched_list'[1].delay = sched_list[1].delay
<1>1. ListInv /\ schedule_time \in Nat
  BY IInvParts DEF TypeOK
<1>2. 1 \in 1..Len(sched_list)
  BY <1>1, CurrentCell
<1>3. /\ ListInv' /\ Len(sched_list') = Len(sched_list)
      /\ sched_list'[1].delay = sched_list[1].delay
  BY <1>1, <1>2, RequeueKeeps
<1> QED BY <1>2, <1>3, EmptySeq

(* schedule_event_push_. *)
LEMMA SchedulePushKeeps ==
  ASSUME IInv, call = NoCall, NEW ev \in Event,
         ev.region \in Queues, ev.at = schedule_time,
         schedule_event_push_(ev), UNCHANGED <<schedule_time, phase, running>>
  PROVE  ListInv' /\ call' \in Search \cup {NoCall} /\ SearchOk' /\ InCurrentCell'
<1>0. ListInv /\ schedule_time \in Nat /\ InCurrentCell
  BY IInvParts DEF TypeOK
<1>1. CASE schedule_event_(ev, 0)
  <2>1. ev.at = schedule_time + 0
    BY <1>0
  <2> QED BY <1>1, <2>1, ScheduleEventKeeps
<1>2. CASE /\ sched_list # << >> /\ sched_list[1].delay = 0
           /\ sched_list' = [sched_list EXCEPT ![1].q["active"] = <<ev>> \o @]
           /\ UNCHANGED call
  <2> DEFINE Q == [sched_list[1].q EXCEPT !["active"] = <<ev>> \o @]
  <2>1. /\ sched_list[1].q \in [Queues -> Seq(Event)] /\ sched_list[1].at \in Nat
        /\ \A r \in Queues : AllDue(sched_list[1].q[r], sched_list[1].at)
        /\ sched_list[1].at = schedule_time
    BY <1>0, <1>2, CurrentCell
  <2>2. "active" \in Queues
    BY DEF Queues
  <2>3. /\ <<ev>> \o sched_list[1].q["active"] \in Seq(Event)
        /\ AllDue(<<ev>> \o sched_list[1].q["active"], sched_list[1].at)
    BY <2>1, <2>2, AllDueOps
  <2>4. Q \in [Queues -> Seq(Event)] /\ \A r \in Queues : AllDue(Q[r], sched_list[1].at)
    BY <2>1, <2>2, <2>3
  <2>5. sched_list' = [sched_list EXCEPT ![1] = [@ EXCEPT !.q = Q]]
    BY <1>2
  <2> HIDE DEF Q
  <2>6. ListInv' /\ sched_list' # << >> /\ sched_list'[1].delay = 0
    BY <1>2, <2>4, <2>5, RequeueCurrent
  <2> QED BY <1>2, <2>6 DEF SearchOk, InCurrentCell
<1> QED BY <1>1, <1>2 DEF schedule_event_push_

(* The search moves on. *)
LEMMA WalkKeeps ==
  ASSUME IInv, ScheduleWalk
  PROVE  ListInv' /\ call' \in Search /\ SearchOk'
<1>0. ListInv /\ call \in Search /\ SearchOk
  BY IInvParts DEF TypeOK, ScheduleWalk
<1> DEFINE i == call.ctim
<1>1. UNCHANGED <<sched_list, schedule_time>>
  BY DEF ScheduleWalk, queues
<1>2. ListInv'
  BY <1>0, <1>1 DEF ListInv, HeadAt, CellChain, CellOrder, EventsDue, Due, AllDue
<1>3. i \in 1..Len(sched_list) - 1 /\ i \in 1..Len(sched_list) /\ i + 1 \in 1..Len(sched_list)
  BY <1>0, LenProperties DEF SearchOk, ScheduleWalk, ListInv
<1>4. /\ sched_list[i] \in Cell /\ sched_list[i + 1] \in Cell
      /\ sched_list[i + 1].at = sched_list[i].at + sched_list[i + 1].delay
  BY <1>0, <1>3, ElementOfSeq DEF ListInv, CellChain
<1>5. /\ sched_list[i].delay \in Nat /\ sched_list[i].at \in Nat
      /\ sched_list[i + 1].delay \in Nat /\ sched_list[i + 1].at \in Nat
      /\ call.delay \in Nat /\ call.ev \in Event /\ call.ev.at \in Nat
  BY <1>0, <1>4 DEF Cell, Search, Event
<1>6. /\ call'.ev = call.ev /\ call'.delay = call.delay - sched_list[i].delay
      /\ call'.ctim = i + 1
      /\ call' = [ev |-> call.ev, delay |-> call.delay - sched_list[i].delay, ctim |-> i + 1]
  BY <1>0 DEF ScheduleWalk, Search
<1>7. sched_list[i].delay < call.delay
  BY DEF ScheduleWalk
<1>8. call' \in Search
  BY <1>3, <1>5, <1>6, <1>7 DEF Search
<1>9. sched_list[i].at - sched_list[i].delay + call.delay = call.ev.at /\ call.ev.region \in Queues
  BY <1>0 DEF SearchOk, ScheduleWalk
<1>10. sched_list[i + 1].at - sched_list[i + 1].delay + (call.delay - sched_list[i].delay)
         = call.ev.at
  BY <1>4, <1>5, <1>9
<1>11. call.delay - sched_list[i].delay > 0 /\ i + 1 # 1
  BY <1>3, <1>5, <1>7
<1>12. SearchOk'
  BY <1>1, <1>3, <1>6, <1>9, <1>10, <1>11 DEF SearchOk
<1> QED BY <1>2, <1>8, <1>12

(* The search ends: the event is placed. *)
LEMMA PlaceKeeps ==
  ASSUME IInv, SchedulePlace
  PROVE  ListInv' /\ SearchOk' /\ InCurrentCell'
<1> DEFINE i == call.ctim
           d == call.delay
           ev == call.ev
<1>0. ListInv /\ call \in Search /\ schedule_time \in Nat /\ InCurrentCell /\ SearchOk
  BY IInvParts DEF TypeOK, SchedulePlace
<1>1. /\ i \in 1..Len(sched_list) /\ ev.region \in Queues
      /\ sched_list[i].at - sched_list[i].delay + d = ev.at
      /\ i = 1 => sched_list[1].delay <= d
      /\ i > 1 => d > 0
  BY <1>0 DEF SearchOk, SchedulePlace
<1>2. ev \in Event /\ d \in Nat /\ i \in Nat /\ ev.at \in Nat
  BY <1>0 DEF Search, Event
<1>3. UNCHANGED <<schedule_time, phase, running>> /\ call' = NoCall
  BY DEF SchedulePlace
<1>4. sched_list \in Seq(Cell) /\ sched_list # << >> /\ 1 \in 1..Len(sched_list)
      /\ Len(sched_list) \in Nat
      /\ \A k \in 1..Len(sched_list) :
           sched_list[k] \in Cell /\ sched_list[k].delay \in Nat /\ sched_list[k].at \in Nat
  <2>1. sched_list \in Seq(Cell) /\ Len(sched_list) \in Nat
    BY <1>0, LenProperties DEF ListInv
  <2>2. \A k \in 1..Len(sched_list) : sched_list[k] \in Cell
    BY <2>1, ElementOfSeq
  <2> QED BY <1>1, <2>1, <2>2, EmptySeq DEF Cell
<1>5. SearchOk'
  BY <1>3 DEF SearchOk
<1>6. SUFFICES ListInv' /\ sched_list' # << >> /\ sched_list'[1].delay = sched_list[1].delay
  BY <1>0, <1>3, <1>5 DEF InCurrentCell
<1> HIDE DEF i, d, ev
<1>7. CASE sched_list[i].delay > d /\ sched_list' = InsertBefore(i, CellWith(d, ev))
  <2> DEFINE c == CellWith(d, ev)
  <2>1. c \in Cell /\ c.delay = d /\ c.at = ev.at /\ Due(c)
    BY <1>1, <1>2, CellWithOk
  <2> HIDE DEF c
  <2>2. i > 1
    BY <1>1, <1>2, <1>4, <1>7
  <2>3. c.delay < sched_list[i].delay /\ c.delay <= sched_list[i].delay
        /\ c.at = sched_list[i].at - sched_list[i].delay + c.delay
    BY <1>1, <1>2, <1>4, <1>7, <2>1
  <2>4. sched_list' = InsertBefore(i, c)
    BY <1>7 DEF c
  <2>5. ListInv' /\ sched_list' # << >> /\ (i > 1 => sched_list'[1] = sched_list[1])
    BY <1>0, <1>1, <1>2, <1>3, <2>1, <2>3, <2>4, InsertKeeps
  <2> QED BY <2>2, <2>5
<1>8. CASE sched_list[i].delay = d /\ sched_list' = AppendTo(i, ev)
  <2> DEFINE q == sched_list[i].q
             Q == [q EXCEPT ![ev.region] = Append(@, ev)]
  <2>1. q \in [Queues -> Seq(Event)] /\ \A r \in Queues : AllDue(q[r], sched_list[i].at)
    BY <1>0, <1>1, <1>4 DEF ListInv, EventsDue, Due, Cell
  <2>2. ev.at = sched_list[i].at
    BY <1>1, <1>2, <1>4, <1>8
  <2>3. Append(q[ev.region], ev) \in Seq(Event)
        /\ AllDue(Append(q[ev.region], ev), sched_list[i].at)
    <3>1. /\ q[ev.region] \in Seq(Event) /\ sched_list[i].at \in Nat
          /\ AllDue(q[ev.region], sched_list[i].at)
      BY <1>1, <1>4, <2>1
    <3> HIDE DEF q
    <3> QED BY <1>1, <1>2, <2>2, <3>1, AllDueOps
  <2>4. Q \in [Queues -> Seq(Event)] /\ \A r \in Queues : AllDue(Q[r], sched_list[i].at)
    BY <1>1, <2>1, <2>3
  <2>5. sched_list' = [sched_list EXCEPT ![i] = [@ EXCEPT !.q = Q]]
    BY <1>8 DEF AppendTo
  <2> HIDE DEF Q, q
  <2>6. ListInv' /\ Len(sched_list') = Len(sched_list)
        /\ sched_list'[1].delay = sched_list[1].delay
    BY <1>0, <1>1, <1>3, <1>4, <2>4, <2>5, RequeueKeeps
  <2> QED BY <1>4, <2>6, EmptySeq
<1>9. CASE /\ sched_list[i].delay < d /\ i = Len(sched_list)
           /\ sched_list' = Append(sched_list, CellWith(d - sched_list[i].delay, ev))
  <2> DEFINE e == d - sched_list[i].delay
             c == CellWith(e, ev)
  <2>0. e \in Nat /\ e > 0 /\ ev.at = sched_list[i].at + e
    BY <1>1, <1>2, <1>4, <1>9
  <2> HIDE DEF e
  <2>1. c \in Cell /\ c.delay = e /\ c.at = ev.at /\ Due(c)
    BY <1>1, <1>2, <2>0, CellWithOk
  <2>2. sched_list' = Append(sched_list, c)
    BY <1>9 DEF e
  <2> HIDE DEF c
  <2>3. c.delay > 0 /\ c.at = sched_list[Len(sched_list)].at + c.delay
    BY <1>9, <2>0, <2>1
  <2>4. ListInv'
    BY <1>0, <1>3, <1>4, <2>1, <2>2, <2>3, AppendKeeps
  <2>5. Len(sched_list') = Len(sched_list) + 1 /\ sched_list'[1] = sched_list[1]
    BY <1>4, <2>1, <2>2, AppendProperties
  <2> QED BY <1>4, <2>4, <2>5, EmptySeq
<1> QED BY <1>7, <1>8, <1>9 DEF SchedulePlace, i, d, ev

(* The loop takes the first event of queue r of the current cell. *)
LEMMA PopKeeps ==
  ASSUME IInv, call = NoCall, sched_list # << >>, sched_list[1].delay = 0,
         NEW r \in Queues, sched_list[1].q[r] # << >>,
         NEW s \in Queues,
         sched_list' = [sched_list EXCEPT ![1].q = [sched_list[1].q EXCEPT ![r] = << >>,
                                            ![s] = Tail(sched_list[1].q[r])]],
         running' = Head(sched_list[1].q[r]),
         UNCHANGED <<schedule_time, call>>
  PROVE  /\ ListInv' /\ SearchOk' /\ sched_list' # << >> /\ sched_list'[1].delay = 0
         /\ running' \in Event /\ OnTime'
<1> DEFINE q == sched_list[1].q
           Q == [q EXCEPT ![r] = << >>, ![s] = Tail(q[r])]
<1>0. ListInv
  BY IInvParts
<1>1. /\ q \in [Queues -> Seq(Event)] /\ sched_list[1].at \in Nat
      /\ \A x \in Queues : AllDue(q[x], sched_list[1].at)
      /\ sched_list[1].at = schedule_time + sched_list[1].delay
  BY <1>0, CurrentCell
<1>2. /\ Tail(q[r]) \in Seq(Event) /\ AllDue(Tail(q[r]), sched_list[1].at)
      /\ Head(q[r]) \in Event /\ Head(q[r]).at = sched_list[1].at
      /\ << >> \in Seq(Event) /\ AllDue(<< >>, sched_list[1].at)
  BY <1>1, AllDueOps
<1>3. Q \in [Queues -> Seq(Event)] /\ \A x \in Queues : AllDue(Q[x], sched_list[1].at)
  BY <1>1, <1>2
<1>4. sched_list' = [sched_list EXCEPT ![1] = [@ EXCEPT !.q = Q]]
  OBVIOUS
<1> HIDE DEF Q
<1>5. ListInv' /\ sched_list' # << >> /\ sched_list'[1].delay = 0
  BY <1>3, <1>4, RequeueCurrent
<1>6. schedule_time \in Nat
  BY DEF IInv, TypeOK
<1>7. OnTime'
  BY <1>1, <1>2, <1>6 DEF OnTime
<1> QED BY <1>2, <1>5, <1>7 DEF SearchOk

(* Queue r of the current cell loses its first event. *)
LEMMA PopIsPop ==
  ASSUME ListInv, sched_list # << >>, NEW r \in Queues
  PROVE  Pop(r) = [sched_list EXCEPT ![1].q = [sched_list[1].q EXCEPT ![r] = << >>,
                                       ![r] = Tail(sched_list[1].q[r])]]
<1>1. sched_list[1].q \in [Queues -> Seq(Event)]
  BY CurrentCell
<1>2. [sched_list[1].q EXCEPT ![r] = << >>, ![r] = Tail(sched_list[1].q[r])]
        = [sched_list[1].q EXCEPT ![r] = Tail(@)]
  BY <1>1
<1> QED BY <1>2 DEF Pop

-----------------------------------------------------------------------------
(* The invariant holds initially. *)
LEMMA IInvInit == Init => IInv
<1> SUFFICES ASSUME Init PROVE IInv
  OBVIOUS
<1>1. TypeOK
  <2>1. stop_is_finish \in BOOLEAN
    BY DEF Init
  <2>2. /\ sched_list = << >> /\ schedule_init_list = << >> /\ schedule_final_list = << >>
        /\ schedule_time = 0 /\ schedule_runnable = TRUE /\ schedule_stopped_flag = FALSE
        /\ schedule_single_step_flag = FALSE /\ run_finals = FALSE /\ phase = "compile"
        /\ running = NoEvent /\ call = NoCall /\ nsched = 0 /\ nstops = 0
        /\ finished = FALSE /\ lost = {} /\ sched_error = FALSE
    BY DEF Init
  <2>3. << >> \in Seq(Cell) /\ << >> \in Seq(Event)
    OBVIOUS
  <2>4. phase \in Phases
    BY <2>2 DEF Phases
  <2>5. lost \subseteq Event /\ running \in Event \cup {NoEvent} /\ call \in Search \cup {NoCall}
    BY <2>2
  <2>6. /\ sched_list \in Seq(Cell) /\ schedule_init_list \in Seq(Event)
        /\ schedule_final_list \in Seq(Event)
    BY <2>2, <2>3, Zenon
  <2>7. schedule_time \in Nat /\ nsched \in Nat /\ nstops \in Nat
    BY <2>2
  <2>8. /\ schedule_runnable \in BOOLEAN /\ schedule_stopped_flag \in BOOLEAN
        /\ schedule_single_step_flag \in BOOLEAN /\ run_finals \in BOOLEAN
        /\ finished \in BOOLEAN /\ sched_error \in BOOLEAN
    BY <2>2, Zenon
  <2> QED BY <2>1, <2>4, <2>5, <2>6, <2>7, <2>8, Zenon DEF TypeOK
<1>2. Len(sched_list) = 0 /\ Len(schedule_init_list) = 0 /\ Len(schedule_final_list) = 0
  BY DEF Init
<1>3. sched_list = << >> /\ call = NoCall /\ running = NoEvent
  BY DEF Init
<1> QED BY <1>1, <1>2, <1>3 DEF Init, IInv, HeadAt, CellChain, CellOrder, EventsDue,
       ListRegions, SearchOk, InCurrentCell, OnTime

(* Every step of the scheduler and of its callers preserves the invariant. *)
LEMMA IInvNext == IInv /\ [Next]_vars => IInv'
<1> SUFFICES ASSUME IInv, [Next]_vars PROVE IInv'
  OBVIOUS
<1>0. TypeOK /\ ListInv /\ ListRegions /\ SearchOk /\ InCurrentCell /\ OnTime
  BY IInvParts
<1>1. SUFFICES TypeOK' /\ ListInv' /\ ListRegions' /\ SearchOk' /\ InCurrentCell' /\ OnTime'
  BY DEF IInv, ListInv
<1>2. ASSUME NEW r \in Regions, NEW d \in Delays, Schedule(r, d)
      PROVE  TypeOK' /\ ListInv' /\ ListRegions' /\ SearchOk' /\ InCurrentCell' /\ OnTime'
  <2> DEFINE ev == NewEvent(r, d, FALSE)
  <2>1. r \in Queues /\ d \in Nat
    OBVIOUS
  <2>2. ev \in Event /\ ev.at = schedule_time + d /\ ev.region = r
    BY <1>0, <2>1, NewEventType
  <2>3. /\ schedule_event_(ev, d) /\ call = NoCall /\ nsched' = nsched + 1
        /\ UNCHANGED <<schedule_init_list, schedule_final_list, schedule_time, flags,
                       run_finals, phase, running, stops, ghosts>>
    BY <1>2 DEF Schedule, CanSchedule, Executing
  <2> HIDE DEF ev
  <2>4. ListInv' /\ call' \in Search \cup {NoCall} /\ SearchOk' /\ InCurrentCell'
    BY <2>1, <2>2, <2>3, ScheduleEventKeeps
  <2>5. TypeOK' /\ ListRegions' /\ OnTime'
    BY <1>0, <2>3, <2>4 DEF TypeOK, ListInv, ListRegions, OnTime, flags, ghosts
  <2> QED BY <2>4, <2>5
<1>3. CASE SchedulePush
  <2> DEFINE ev == NewEvent("active", 0, TRUE)
  <2>1. "active" \in Queues
    BY DEF Queues
  <2>2. ev \in Event /\ ev.at = schedule_time + 0 /\ ev.region = "active"
    BY <1>0, <2>1, NewEventType
  <2>3. /\ schedule_event_push_(ev) /\ call = NoCall /\ nsched' = nsched + 1
        /\ UNCHANGED <<schedule_init_list, schedule_final_list, schedule_time, flags,
                       run_finals, phase, running, stops, ghosts>>
    BY <1>3 DEF SchedulePush, CanSchedule, Executing
  <2> HIDE DEF ev
  <2>4. ev.at = schedule_time
    BY <1>0, <2>2 DEF TypeOK
  <2>5. ListInv' /\ call' \in Search \cup {NoCall} /\ SearchOk' /\ InCurrentCell'
    BY <2>1, <2>2, <2>3, <2>4, SchedulePushKeeps
  <2>6. TypeOK' /\ ListRegions' /\ OnTime'
    BY <1>0, <2>3, <2>5 DEF TypeOK, ListInv, ListRegions, OnTime, flags, ghosts
  <2> QED BY <2>5, <2>6
<1>4. CASE ScheduleInit
  <2> DEFINE ev == NewEvent("init", 0, FALSE)
  <2>1. "init" \in Lists
    BY DEF Lists
  <2>2. ev \in Event /\ ev.region = "init"
    BY <1>0, <2>1, NewEventType
  <2>3. schedule_init_list' = Append(schedule_init_list, ev) /\ schedule_init_list \in Seq(Event)
    BY <1>0, <1>4 DEF ScheduleInit, TypeOK
  <2> HIDE DEF ev
  <2>4. /\ schedule_init_list' \in Seq(Event)
        /\ \A k \in 1..Len(schedule_init_list') : schedule_init_list'[k].region \in Lists
    <3>1. /\ schedule_init_list' \in Seq(Event) /\ Len(schedule_init_list') = Len(schedule_init_list) + 1
          /\ \A k \in 1..Len(schedule_init_list) : schedule_init_list'[k] = schedule_init_list[k]
          /\ schedule_init_list'[Len(schedule_init_list) + 1] = ev
      BY <2>2, <2>3, AppendProperties
    <3>2. \A k \in 1..Len(schedule_init_list) : schedule_init_list[k].region \in Lists
      BY <1>0 DEF ListRegions
    <3>3. ev.region \in Lists /\ Len(schedule_init_list) \in Nat
      BY <2>1, <2>2, <2>3, LenProperties
    <3> QED BY <3>1, <3>2, <3>3
  <2>5. ListInv' /\ SearchOk'
    BY <1>4, Quiet DEF ScheduleInit
  <2>6. TypeOK'
    <3>1. /\ nsched' = nsched + 1
          /\ UNCHANGED <<sched_list, schedule_time, flags, run_finals, phase, running,
                         call, stops, ghosts, schedule_final_list>>
      BY <1>4 DEF ScheduleInit
    <3> QED BY <1>0, <2>4, <3>1 DEF TypeOK, flags, ghosts
  <2>7. ListRegions' /\ InCurrentCell' /\ OnTime'
    BY <1>0, <1>4, <2>4 DEF ScheduleInit, ListRegions, InCurrentCell, OnTime
  <2> QED BY <2>5, <2>6, <2>7
<1>5. CASE ScheduleFinal
  <2> DEFINE ev == NewEvent("final", 0, FALSE)
  <2>1. "final" \in Lists
    BY DEF Lists
  <2>2. ev \in Event /\ ev.region = "final"
    BY <1>0, <2>1, NewEventType
  <2>3. schedule_final_list' = Append(schedule_final_list, ev) /\ schedule_final_list \in Seq(Event)
    BY <1>0, <1>5 DEF ScheduleFinal, TypeOK
  <2> HIDE DEF ev
  <2>4. /\ schedule_final_list' \in Seq(Event)
        /\ \A k \in 1..Len(schedule_final_list') : schedule_final_list'[k].region \in Lists
    <3>1. /\ schedule_final_list' \in Seq(Event) /\ Len(schedule_final_list') = Len(schedule_final_list) + 1
          /\ \A k \in 1..Len(schedule_final_list) : schedule_final_list'[k] = schedule_final_list[k]
          /\ schedule_final_list'[Len(schedule_final_list) + 1] = ev
      BY <2>2, <2>3, AppendProperties
    <3>2. \A k \in 1..Len(schedule_final_list) : schedule_final_list[k].region \in Lists
      BY <1>0 DEF ListRegions
    <3>3. ev.region \in Lists /\ Len(schedule_final_list) \in Nat
      BY <2>1, <2>2, <2>3, LenProperties
    <3> QED BY <3>1, <3>2, <3>3
  <2>5. ListInv' /\ SearchOk'
    BY <1>5, Quiet DEF ScheduleFinal
  <2>6. TypeOK'
    <3>1. /\ nsched' = nsched + 1
          /\ UNCHANGED <<sched_list, schedule_time, flags, run_finals, phase, running,
                         call, stops, ghosts, schedule_init_list>>
      BY <1>5 DEF ScheduleFinal
    <3> QED BY <1>0, <2>4, <3>1 DEF TypeOK, flags, ghosts
  <2>7. ListRegions' /\ InCurrentCell' /\ OnTime'
    BY <1>0, <1>5, <2>4 DEF ScheduleFinal, ListRegions, InCurrentCell, OnTime
  <2> QED BY <2>5, <2>6, <2>7
<1>6. CASE ScheduleWalk
  <2>1. ListInv' /\ call' \in Search /\ SearchOk'
    BY <1>6, WalkKeeps
  <2>2. TypeOK' /\ ListRegions' /\ InCurrentCell' /\ OnTime'
    BY <1>0, <1>6, <2>1 DEF ScheduleWalk, TypeOK, ListRegions, InCurrentCell, OnTime,
       queues, flags, ghosts
  <2> QED BY <2>1, <2>2
<1>7. CASE SchedulePlace
  <2>1. ListInv' /\ SearchOk' /\ InCurrentCell'
    BY <1>7, PlaceKeeps
  <2>2. TypeOK' /\ ListRegions' /\ OnTime'
    BY <1>0, <1>7, <2>1 DEF SchedulePlace, TypeOK, ListInv, ListRegions, OnTime, flags, ghosts
  <2> QED BY <2>1, <2>2
<1>8. CASE schedule_finish
  <2>1. ListInv' /\ SearchOk'
    BY <1>8, Quiet DEF schedule_finish, queues
  <2>2. TypeOK'
    BY <1>0, <1>8 DEF schedule_finish, TypeOK, Phases, queues, flags, ghosts
  <2>3. ListRegions' /\ InCurrentCell' /\ OnTime'
    BY <1>0, <1>8 DEF schedule_finish, ListRegions, InCurrentCell, OnTime, queues, flags, ghosts
  <2> QED BY <2>1, <2>2, <2>3
<1>9. CASE schedule_stop
  <2>1. ListInv' /\ SearchOk'
    BY <1>9, Quiet DEF schedule_stop, queues
  <2>2. TypeOK'
    BY <1>0, <1>9 DEF schedule_stop, TypeOK, Phases, queues, flags, ghosts
  <2>3. ListRegions' /\ InCurrentCell' /\ OnTime'
    BY <1>0, <1>9 DEF schedule_stop, ListRegions, InCurrentCell, OnTime, queues, flags, ghosts
  <2> QED BY <2>1, <2>2, <2>3
<1>10. ASSUME NEW sig \in {"INT", "TERM"}, signals_handler(sig)
      PROVE  TypeOK' /\ ListInv' /\ ListRegions' /\ SearchOk' /\ InCurrentCell' /\ OnTime'
  <2>1. ListInv' /\ SearchOk'
    BY <1>10, Quiet DEF signals_handler, queues
  <2>2. TypeOK'
    BY <1>0, <1>10 DEF signals_handler, TypeOK, Phases, queues, flags, ghosts
  <2>3. ListRegions' /\ InCurrentCell' /\ OnTime'
    BY <1>0, <1>10 DEF signals_handler, ListRegions, InCurrentCell, OnTime, queues, flags, ghosts
  <2> QED BY <2>1, <2>2, <2>3
<1>11. CASE EndRun
  <2>1. ListInv' /\ SearchOk'
    BY <1>11, Quiet DEF EndRun, queues
  <2>2. TypeOK'
    BY <1>0, <1>11 DEF EndRun, TypeOK, Phases, queues, flags, ghosts
  <2>3. ListRegions' /\ InCurrentCell' /\ OnTime'
    BY <1>0, <1>11 DEF EndRun, ListRegions, InCurrentCell, OnTime, queues, flags, ghosts
  <2> QED BY <2>1, <2>2, <2>3
<1>12. CASE BeginInit
  <2>1. ListInv' /\ SearchOk'
    BY <1>12, Quiet DEF BeginInit, Idle, queues
  <2>2. TypeOK'
    BY <1>0, <1>12 DEF BeginInit, Idle, TypeOK, Phases, queues, flags, ghosts
  <2>3. ListRegions' /\ InCurrentCell' /\ OnTime'
    BY <1>0, <1>12 DEF BeginInit, Idle, ListRegions, InCurrentCell, OnTime, queues, flags, ghosts
  <2> QED BY <2>1, <2>2, <2>3
<1>13. CASE EndInit
  <2>1. ListInv' /\ SearchOk'
    BY <1>13, Quiet DEF EndInit, Idle, queues
  <2>2. TypeOK'
    BY <1>0, <1>13 DEF EndInit, Idle, TypeOK, Phases, queues, flags, ghosts
  <2>3. ListRegions' /\ InCurrentCell' /\ OnTime'
    BY <1>0, <1>13 DEF EndInit, Idle, ListRegions, InCurrentCell, OnTime, queues, flags, ghosts
  <2> QED BY <2>1, <2>2, <2>3
<1>14. CASE BeginLoop
  <2>1. ListInv' /\ SearchOk'
    BY <1>14, Quiet DEF BeginLoop, Idle, queues
  <2>2. TypeOK'
    BY <1>0, <1>14 DEF BeginLoop, Idle, TypeOK, Phases, queues, flags, ghosts
  <2>3. ListRegions' /\ InCurrentCell' /\ OnTime'
    BY <1>0, <1>14 DEF BeginLoop, Idle, ListRegions, InCurrentCell, OnTime, queues, flags, ghosts
  <2> QED BY <2>1, <2>2, <2>3
<1>15. CASE OutOfEvents
  <2>1. ListInv' /\ SearchOk'
    BY <1>15, Quiet DEF OutOfEvents, EnterFinal, Idle, queues
  <2>2. TypeOK'
    BY <1>0, <1>15 DEF OutOfEvents, EnterFinal, Idle, TypeOK, Phases, queues, flags, ghosts
  <2>3. ListRegions' /\ InCurrentCell' /\ OnTime'
    BY <1>0, <1>15 DEF OutOfEvents, EnterFinal, Idle, ListRegions, InCurrentCell, OnTime, queues, flags, ghosts
  <2> QED BY <2>1, <2>2, <2>3
<1>16. CASE ServeStop
  <2>1. ListInv' /\ SearchOk'
    BY <1>16, Quiet DEF ServeStop, AtTop, EnterFinal, Idle, queues
  <2>2. TypeOK'
    BY <1>0, <1>16 DEF ServeStop, AtTop, EnterFinal, Idle, TypeOK, Phases, queues, flags, ghosts
  <2>3. ListRegions' /\ InCurrentCell' /\ OnTime'
    BY <1>0, <1>16 DEF ServeStop, AtTop, EnterFinal, Idle, ListRegions, InCurrentCell, OnTime, queues, flags, ghosts
  <2> QED BY <2>1, <2>2, <2>3
<1>17. ASSUME NEW cmd \in {"cont", "step", "finish"}, LeaveStop(cmd)
      PROVE  TypeOK' /\ ListInv' /\ ListRegions' /\ SearchOk' /\ InCurrentCell' /\ OnTime'
  <2>1. ListInv' /\ SearchOk'
    BY <1>17, Quiet DEF LeaveStop, EnterFinal, Idle, queues
  <2>2. TypeOK'
    BY <1>0, <1>17 DEF LeaveStop, EnterFinal, Idle, TypeOK, Phases, queues, flags, ghosts
  <2>3. ListRegions' /\ InCurrentCell' /\ OnTime'
    BY <1>0, <1>17 DEF LeaveStop, EnterFinal, Idle, ListRegions, InCurrentCell, OnTime, queues, flags, ghosts
  <2> QED BY <2>1, <2>2, <2>3
<1>18. CASE RunInit
  <2>1. /\ schedule_init_list \in Seq(Event) /\ schedule_init_list # << >>
        /\ running' = Head(schedule_init_list) /\ schedule_init_list' = Tail(schedule_init_list)
    BY <1>0, <1>18 DEF RunInit, TypeOK
  <2>2. running' \in Event /\ running'.region \in Lists /\ schedule_init_list' \in Seq(Event)
        /\ \A k \in 1..Len(schedule_init_list') : schedule_init_list'[k].region \in Lists
    BY <1>0, <2>1 DEF ListRegions
  <2>3. ListInv' /\ SearchOk'
    BY <1>18, Quiet DEF RunInit
  <2>4. TypeOK'
    BY <1>0, <1>18, <2>2 DEF RunInit, TypeOK, flags, ghosts
  <2>5. OnTime'
    BY <2>2 DEF OnTime, Queues, Lists
  <2>6. ListRegions' /\ InCurrentCell'
    BY <1>0, <1>18, <2>2 DEF RunInit, ListRegions, InCurrentCell
  <2> QED BY <2>3, <2>4, <2>5, <2>6
<1>19. CASE RunFinal
  <2>1. /\ schedule_final_list \in Seq(Event) /\ schedule_final_list # << >>
        /\ running' = Head(schedule_final_list) /\ schedule_final_list' = Tail(schedule_final_list)
    BY <1>0, <1>19 DEF RunFinal, TypeOK
  <2>2. running' \in Event /\ running'.region \in Lists /\ schedule_final_list' \in Seq(Event)
        /\ \A k \in 1..Len(schedule_final_list') : schedule_final_list'[k].region \in Lists
    BY <1>0, <2>1 DEF ListRegions
  <2>3. ListInv' /\ SearchOk'
    BY <1>19, Quiet DEF RunFinal
  <2>4. TypeOK'
    BY <1>0, <1>19, <2>2 DEF RunFinal, TypeOK, flags, ghosts
  <2>5. OnTime'
    BY <2>2 DEF OnTime, Queues, Lists
  <2>6. ListRegions' /\ InCurrentCell'
    BY <1>0, <1>19, <2>2 DEF RunFinal, ListRegions, InCurrentCell
  <2> QED BY <2>3, <2>4, <2>5, <2>6
<1>20. CASE AdvanceTime
  <2>1. sched_list # << >> /\ running = NoEvent /\ call = NoCall
    BY <1>20 DEF AdvanceTime, AtTop, Idle
  <2>2. CASE ~ schedule_runnable
    <3>1. UNCHANGED <<sched_list, schedule_time, call, running>> /\ EnterFinal
      BY <1>20, <2>2 DEF AdvanceTime
    <3>2. ListInv' /\ SearchOk'
      BY <3>1, Quiet
    <3>3. TypeOK'
      BY <1>0, <1>20, <3>1 DEF AdvanceTime, EnterFinal, TypeOK, Phases, ghosts
    <3>4. ListRegions' /\ InCurrentCell' /\ OnTime'
      BY <1>0, <1>20, <3>1 DEF AdvanceTime, EnterFinal, ListRegions, InCurrentCell, OnTime
    <3> QED BY <3>2, <3>3, <3>4
  <2>3. CASE schedule_runnable
    <3>1. /\ schedule_time' = schedule_time + sched_list[1].delay
          /\ sched_list' = [sched_list EXCEPT ![1].delay = 0]
          /\ phase' = "nextsim" /\ UNCHANGED <<schedule_runnable, running, call>>
      BY <1>20, <2>3 DEF AdvanceTime
    <3>2. /\ ListInv' /\ schedule_time' \in Nat
          /\ sched_list' # << >> /\ sched_list'[1].delay = 0
      BY <1>0, <2>1, <3>1, AdvanceKeeps DEF TypeOK
    <3>3. SearchOk' /\ InCurrentCell' /\ OnTime'
      BY <2>1, <3>1, <3>2 DEF SearchOk, InCurrentCell, OnTime
    <3>4. TypeOK' /\ ListRegions'
      BY <1>0, <1>20, <3>1, <3>2 DEF AdvanceTime, TypeOK, ListInv, Phases, ListRegions, ghosts
    <3> QED BY <3>2, <3>3, <3>4
  <2> QED BY <1>0, <2>2, <2>3 DEF TypeOK
<1>21. CASE EndNextSim
  <2>1. ListInv' /\ SearchOk'
    BY <1>21, Quiet DEF EndNextSim, Idle, queues
  <2>2. TypeOK'
    BY <1>0, <1>21 DEF EndNextSim, Idle, TypeOK, Phases, queues, flags, ghosts
  <2>3. ListRegions' /\ InCurrentCell' /\ OnTime'
    BY <1>0, <1>21 DEF EndNextSim, Idle, ListRegions, InCurrentCell, OnTime, queues, flags, ghosts
  <2> QED BY <2>1, <2>2, <2>3
<1>22. CASE EndStart
  <2>1. ListInv' /\ SearchOk'
    BY <1>22, Quiet DEF EndStart, Idle, queues
  <2>2. TypeOK'
    BY <1>0, <1>22 DEF EndStart, Idle, TypeOK, Phases, queues, flags, ghosts
  <2>3. ListRegions' /\ InCurrentCell' /\ OnTime'
    BY <1>0, <1>22 DEF EndStart, Idle, ListRegions, InCurrentCell, OnTime, queues, flags, ghosts
  <2> QED BY <2>1, <2>2, <2>3
<1>23. CASE BeginRosync
  <2>1. ListInv' /\ SearchOk'
    BY <1>23, Quiet DEF BeginRosync, Selecting, AtTop, Idle, queues
  <2>2. TypeOK'
    BY <1>0, <1>23 DEF BeginRosync, Selecting, AtTop, Idle, TypeOK, Phases, queues, flags, ghosts
  <2>3. ListRegions' /\ InCurrentCell' /\ OnTime'
    BY <1>0, <1>23 DEF BeginRosync, Selecting, AtTop, Idle, ListRegions, InCurrentCell, OnTime, queues, flags, ghosts
  <2> QED BY <2>1, <2>2, <2>3
<1>24. CASE RunStart
  <2>1. "start" \in Queues /\ call = NoCall /\ sched_list # << >> /\ sched_list[1].delay = 0
    BY <1>0, <1>24 DEF RunStart, Idle, InCurrentCell, Queues
  <2>2. /\ sched_list[1].q["start"] # << >>
        /\ running' = Head(sched_list[1].q["start"]) /\ sched_list' = Pop("start")
        /\ UNCHANGED <<schedule_time, call>>
    BY <1>24 DEF RunStart
  <2>3. sched_list' = [sched_list EXCEPT ![1].q = [sched_list[1].q EXCEPT !["start"] = << >>,
                                       !["start"] = Tail(sched_list[1].q["start"])]]
    BY <1>0, <2>1, <2>2, PopIsPop
  <2>4. /\ ListInv' /\ SearchOk' /\ sched_list' # << >> /\ sched_list'[1].delay = 0
        /\ running' \in Event /\ OnTime'
    BY <2>1, <2>2, <2>3, PopKeeps
  <2>5. TypeOK' /\ ListRegions' /\ InCurrentCell'
    BY <1>0, <1>24, <2>4 DEF RunStart, TypeOK, ListInv, ListRegions, InCurrentCell, flags, ghosts
  <2> QED BY <2>4, <2>5
<1>25. CASE RunRosync
  <2>1. "rosync" \in Queues /\ call = NoCall /\ sched_list # << >> /\ sched_list[1].delay = 0
    BY <1>0, <1>25 DEF RunRosync, Idle, InCurrentCell, Queues
  <2>2. /\ sched_list[1].q["rosync"] # << >>
        /\ running' = Head(sched_list[1].q["rosync"]) /\ sched_list' = Pop("rosync")
        /\ UNCHANGED <<schedule_time, call>>
    BY <1>25 DEF RunRosync
  <2>3. sched_list' = [sched_list EXCEPT ![1].q = [sched_list[1].q EXCEPT !["rosync"] = << >>,
                                       !["rosync"] = Tail(sched_list[1].q["rosync"])]]
    BY <1>0, <2>1, <2>2, PopIsPop
  <2>4. /\ ListInv' /\ SearchOk' /\ sched_list' # << >> /\ sched_list'[1].delay = 0
        /\ running' \in Event /\ OnTime'
    BY <2>1, <2>2, <2>3, PopKeeps
  <2>5. TypeOK' /\ ListRegions' /\ InCurrentCell'
    BY <1>0, <1>25, <2>4 DEF RunRosync, TypeOK, ListInv, ListRegions, InCurrentCell, flags, ghosts
  <2> QED BY <2>4, <2>5
<1>26. ASSUME NEW i \in 1..4, RunNext(i)
      PROVE  TypeOK' /\ ListInv' /\ ListRegions' /\ SearchOk' /\ InCurrentCell' /\ OnTime'
  <2> DEFINE r == RWOrder[i]
  <2>1. r \in Queues /\ "active" \in Queues
    BY DEF RWOrder, Queues
  <2>2. call = NoCall /\ sched_list # << >> /\ sched_list[1].delay = 0
    BY <1>0, <1>26 DEF RunNext, Selecting, AtTop, Idle, InCurrentCell
  <2>3. /\ sched_list[1].q[r] # << >> /\ running' = Head(sched_list[1].q[r])
        /\ sched_list' = [sched_list EXCEPT ![1].q = [sched_list[1].q EXCEPT ![r] = << >>,
                                             !["active"] = Tail(sched_list[1].q[r])]]
        /\ UNCHANGED <<schedule_time, call>>
    BY <1>26 DEF RunNext
  <2> HIDE DEF r
  <2>4. /\ ListInv' /\ SearchOk' /\ sched_list' # << >> /\ sched_list'[1].delay = 0
        /\ running' \in Event /\ OnTime'
    BY <2>1, <2>2, <2>3, PopKeeps
  <2>5. phase' = "loop" /\ schedule_stopped_flag' \in BOOLEAN /\ schedule_single_step_flag' \in BOOLEAN
    BY <1>0, <1>26 DEF RunNext, TypeOK
  <2>6. TypeOK' /\ ListRegions' /\ InCurrentCell'
    BY <1>0, <1>26, <2>4, <2>5 DEF RunNext, TypeOK, Phases, ListInv, ListRegions, InCurrentCell, ghosts
  <2> QED BY <2>4, <2>6
<1>27. CASE EndRosync
  <2>1. call = NoCall /\ running = NoEvent /\ sched_list # << >> /\ sched_list[1].delay = 0
    BY <1>0, <1>27 DEF EndRosync, Idle, InCurrentCell
  <2>2. /\ sched_list' = Tail(sched_list) /\ phase' = "loop"
        /\ UNCHANGED <<schedule_time, call, running>>
    BY <1>27 DEF EndRosync
  <2>3. ListInv'
    BY <1>0, <2>1, <2>2, TailKeeps DEF TypeOK
  <2>4. SearchOk' /\ InCurrentCell' /\ OnTime' /\ ListRegions'
    BY <1>0, <1>27, <2>1, <2>2 DEF EndRosync, SearchOk, InCurrentCell, OnTime, ListRegions
  <2>5. LeftIn(sched_list[1]) \subseteq Event
    <3>1. sched_list[1].q \in [Queues -> Seq(Event)]
      BY <1>0, <2>1, CurrentCell
    <3>2. \A r \in Queues : \A k \in 1..Len(sched_list[1].q[r]) : sched_list[1].q[r][k] \in Event
      BY <3>1, ElementOfSeq
    <3> QED BY <3>2 DEF LeftIn
  <2>6. lost' \subseteq Event /\ sched_error' \in BOOLEAN
    BY <1>0, <1>27, <2>5 DEF EndRosync, TypeOK
  <2>7. TypeOK'
    BY <1>0, <1>27, <2>2, <2>3, <2>6 DEF EndRosync, TypeOK, ListInv, Phases, flags
  <2> QED BY <2>3, <2>4, <2>7
<1>28. CASE EndSimulate
  <2>1. ListInv' /\ SearchOk'
    BY <1>28, Quiet DEF EndSimulate, Idle, queues
  <2>2. TypeOK'
    BY <1>0, <1>28 DEF EndSimulate, Idle, TypeOK, Phases, queues, flags, ghosts
  <2>3. ListRegions' /\ InCurrentCell' /\ OnTime'
    BY <1>0, <1>28 DEF EndSimulate, Idle, ListRegions, InCurrentCell, OnTime, queues, flags, ghosts
  <2> QED BY <2>1, <2>2, <2>3
<1>29. CASE UNCHANGED vars
  <2>1. ListInv' /\ SearchOk'
    BY <1>29, Quiet DEF vars
  <2> QED BY <1>0, <1>29, <2>1 DEF vars, TypeOK, ListRegions, InCurrentCell, OnTime
<1> QED BY <1>2, <1>3, <1>4, <1>5, <1>6, <1>7, <1>8, <1>9, <1>10, <1>11, <1>12, <1>13, <1>14, <1>15, <1>16, <1>17, <1>18, <1>19, <1>20, <1>21, <1>22, <1>23, <1>24, <1>25, <1>26, <1>27, <1>28, <1>29
     DEF Next, Request, Simulate, Done

(* The inductive invariant holds in every behaviour of the scheduler. *)
THEOREM InvariantHolds == Spec => []IInv
  BY IInvInit, IInvNext, PTL DEF Spec

(* The state of the scheduler always has its type: no relative delay ever  *)
(* becomes negative, though schedule_event_ subtracts without a test.      *)
THEOREM TypeCorrect == Spec => []TypeOK
<1>1. IInv => TypeOK
  BY DEF IInv
<1> QED BY <1>1, InvariantHolds, PTL

(* Every event selected from the queue runs at exactly the time it was     *)
(* scheduled for, whatever the delays and the number of events.            *)
THEOREM EventsRunOnTime == Spec => []OnTime
<1>1. IInv => OnTime
  BY DEF IInv
<1> QED BY <1>1, InvariantHolds, PTL

(* No event in the queue is overdue, and the cells are in time order. *)
THEOREM QueueInTimeOrder == Spec => []NothingOverdue
<1>1. IInv => NothingOverdue
  <2> SUFFICES ASSUME IInv, NEW i \in 1..Len(sched_list), NEW j \in 1..Len(sched_list),
                      NEW e \in PendingIn(i), NEW f \in PendingIn(j)
               PROVE  e.at >= schedule_time /\ (i < j => e.at < f.at)
    BY DEF NothingOverdue
  <2>1. ListInv /\ schedule_time \in Nat
    BY IInvParts DEF TypeOK
  <2>2. e.at = sched_list[i].at /\ f.at = sched_list[j].at
    <3>1. ASSUME NEW n \in 1..Len(sched_list), NEW g \in PendingIn(n)
          PROVE  g.at = sched_list[n].at
      <4>1. PICK r \in Queues : \E k \in 1..Len(sched_list[n].q[r]) : g = sched_list[n].q[r][k]
        BY <3>1, Zenon DEF PendingIn
      <4>2. AllDue(sched_list[n].q[r], sched_list[n].at)
        BY <2>1, <4>1, Zenon DEF ListInv, EventsDue, Due
      <4>3. QED
        BY <4>1, <4>2, Zenon DEF AllDue
    <3>2. QED
      BY <3>1
  <2>3. Len(sched_list) \in Nat /\ sched_list[i] \in Cell /\ 1 \in 1..Len(sched_list)
        /\ sched_list # << >>
    BY <2>1, LenProperties, ElementOfSeq, EmptySeq DEF ListInv
  <2>4. sched_list[1].at = schedule_time + sched_list[1].delay /\ sched_list[1].delay \in Nat
        /\ sched_list[1].at \in Nat
    BY <2>1, <2>3, CurrentCell
  <2>5. sched_list[i].at \in Nat
    BY <2>3 DEF Cell
  <2>6. i = 1 \/ sched_list[1].at < sched_list[i].at
    BY <2>1, <2>3 DEF ListInv, CellOrder
  <2>7. i < j => sched_list[i].at < sched_list[j].at
    BY <2>1 DEF ListInv, CellOrder
  <2> QED BY <2>1, <2>2, <2>4, <2>5, <2>6, <2>7
<1> QED BY <1>1, InvariantHolds, PTL

-----------------------------------------------------------------------------
(* Finish.                                                                 *)

(* Only EnterFinal makes the simulation runnable again. *)
LEMMA FinishSticksNext == FinishSticks /\ [Next]_vars => FinishSticks'
<1> SUFFICES ASSUME FinishSticks, [Next]_vars PROVE FinishSticks'
  OBVIOUS
<1> USE DEF FinishSticks
<1>1. CASE Request
  BY <1>1 DEF Request, Schedule, SchedulePush, ScheduleInit, ScheduleFinal,
     schedule_finish, schedule_stop, signals_handler, flags, ghosts
<1>2. CASE ScheduleWalk \/ SchedulePlace \/ EndRun
  BY <1>2 DEF ScheduleWalk, SchedulePlace, EndRun, flags, ghosts
<1>3. CASE BeginInit \/ RunInit \/ EndInit \/ BeginLoop
  BY <1>3 DEF BeginInit, RunInit, EndInit, BeginLoop, flags, ghosts
<1>4. CASE OutOfEvents \/ ServeStop \/ AdvanceTime
  BY <1>4 DEF OutOfEvents, ServeStop, AdvanceTime, EnterFinal, AtTop, flags, ghosts
<1>5. ASSUME NEW cmd \in {"cont", "step", "finish"}, LeaveStop(cmd) PROVE FinishSticks'
  BY <1>5 DEF LeaveStop, EnterFinal
<1>6. CASE EndNextSim \/ RunStart \/ EndStart
  BY <1>6 DEF EndNextSim, RunStart, EndStart, flags, ghosts
<1>7. ASSUME NEW i \in 1..4, RunNext(i) PROVE FinishSticks'
  BY <1>7 DEF RunNext, Selecting, AtTop, ghosts
<1>8. CASE BeginRosync \/ RunRosync \/ EndRosync
  BY <1>8 DEF BeginRosync, RunRosync, EndRosync, Selecting, AtTop, flags, ghosts
<1>9. CASE RunFinal \/ EndSimulate
  BY <1>9 DEF RunFinal, EndSimulate, flags, ghosts
<1>10. CASE Done \/ UNCHANGED vars
  BY <1>10 DEF Done, vars
<1> QED BY <1>1, <1>2, <1>3, <1>4, <1>5, <1>6, <1>7, <1>8, <1>9, <1>10 DEF Next, Simulate

(* Once a finish was requested the simulation time never changes again. *)
THEOREM FinishFreezes == Spec => FinishFreezesTime
<1>1. Init => FinishSticks
  BY DEF Init, FinishSticks
<1>2. ASSUME FinishSticks, [Next]_vars, finished
      PROVE  schedule_time' = schedule_time
  <2> USE <1>2
  <2>1. CASE AdvanceTime
    BY <2>1 DEF AdvanceTime, AtTop, FinishSticks
  <2>2. CASE Request
    BY <2>2 DEF Request, Schedule, SchedulePush, ScheduleInit, ScheduleFinal,
       schedule_finish, schedule_stop, signals_handler
  <2>3. CASE \/ ScheduleWalk \/ SchedulePlace \/ EndRun \/ BeginInit \/ RunInit \/ EndInit
             \/ BeginLoop \/ OutOfEvents \/ ServeStop
    BY <2>3 DEF ScheduleWalk, SchedulePlace, EndRun, BeginInit, RunInit, EndInit,
       BeginLoop, OutOfEvents, ServeStop
  <2>4. CASE \/ \E cmd \in {"cont", "step", "finish"} : LeaveStop(cmd)
             \/ \E i \in 1..4 : RunNext(i)
    BY <2>4 DEF LeaveStop, RunNext
  <2>5. CASE \/ EndNextSim \/ RunStart \/ EndStart \/ BeginRosync \/ RunRosync \/ EndRosync
             \/ RunFinal \/ EndSimulate \/ Done \/ UNCHANGED vars
    BY <2>5 DEF EndNextSim, RunStart, EndStart, BeginRosync, RunRosync, EndRosync,
       RunFinal, EndSimulate, Done, vars
  <2> QED BY <2>1, <2>2, <2>3, <2>4, <2>5 DEF Next, Simulate
<1>3. FinishSticks /\ [Next]_vars => [finished => schedule_time' = schedule_time]_vars
  BY <1>2
<1> QED BY <1>1, <1>3, FinishSticksNext, PTL DEF Spec, FinishFreezesTime

-----------------------------------------------------------------------------
(* The order in which the events of one time step run.                     *)
(*                                                                         *)
(* The argument: within a cell the pushed events come first, last pushed   *)
(* first, and the others in the order of the calls (QueueOrder); what is   *)
(* left in the active queue of a region that became active is older than   *)
(* whatever has been scheduled since (ActiveOrder).  Every step that adds  *)
(* an event adds the youngest one, at the end of a queue or in front of    *)
(* the active one.                                                         *)

(* What the changes of a cell's queues do to the order of its events.      *)

QueueSet == [Queues -> Seq(Event)]

Ordered(q) == QueueOrder(q) /\ ActiveOrder(q)

(* The queues of a cell made for ev. *)
Alone(ev) == [r \in Queues |-> IF r = ev.region THEN <<ev>> ELSE << >>]

(* q2 is q with ev put into it. *)
Grows(q, q2, ev) ==
  \/ q2 = q
  \/ ~ ev.push /\ q2 = [q EXCEPT ![ev.region] = Append(@, ev)]
  \/ ev.push /\ q2 = [q EXCEPT !["active"] = <<ev>> \o @]

(* The places of the events when one is put in front. *)
LEMMA FrontPlaces ==
  ASSUME NEW s \in Seq(Event), NEW ev \in Event
  PROVE  /\ <<ev>> \o s \in Seq(Event) /\ Len(<<ev>> \o s) = Len(s) + 1
         /\ (<<ev>> \o s)[1] = ev
         /\ \A k \in 1..Len(s) + 1 : k > 1 => k - 1 \in 1..Len(s) /\ (<<ev>> \o s)[k] = s[k - 1]
<1>1. <<ev>> \in Seq(Event) /\ Len(<<ev>>) = 1 /\ <<ev>>[1] = ev /\ Len(s) \in Nat
  OBVIOUS
<1>2. <<ev>> \o s \in Seq(Event) /\ Len(<<ev>> \o s) = 1 + Len(s)
      /\ \A k \in 1..1 + Len(s) :
           (<<ev>> \o s)[k] = IF k <= 1 THEN <<ev>>[k] ELSE s[k - 1]
  BY <1>1, ConcatProperties
<1> QED BY <1>1, <1>2

(* The places of the events when the first one is taken. *)
LEMMA TailPlaces ==
  ASSUME NEW s \in Seq(Event), s # << >>
  PROVE  /\ Tail(s) \in Seq(Event) /\ Len(Tail(s)) = Len(s) - 1 /\ Len(s) > 0
         /\ \A k \in 1..Len(s) - 1 : Tail(s)[k] = s[k + 1]
         /\ Head(s) = s[1] /\ 1 \in 1..Len(s)
  OBVIOUS

(* The events of a cell. *)
LEMMA QueueTypes ==
  /\ \A q \in QueueSet : \A r \in Queues :
       /\ q[r] \in Seq(Event) /\ Len(q[r]) \in Nat
       /\ \A k \in 1..Len(q[r]) : q[r][k] \in Event /\ q[r][k].id \in Nat
  /\ \A e \in Event : e.id \in Nat
<1>1. \A e \in Event : e.id \in Nat
  BY DEF Event
<1>2. ASSUME NEW q \in QueueSet, NEW r \in Queues
      PROVE  /\ q[r] \in Seq(Event) /\ Len(q[r]) \in Nat
             /\ \A k \in 1..Len(q[r]) : q[r][k] \in Event /\ q[r][k].id \in Nat
  <2>1. q[r] \in Seq(Event)
    BY DEF QueueSet
  <2>2. \A k \in 1..Len(q[r]) : q[r][k] \in Event
    BY <2>1, ElementOfSeq
  <2>3. Len(q[r]) \in Nat
    BY <2>1, LenProperties
  <2> QED BY <1>1, <2>1, <2>2, <2>3
<1> QED BY <1>1, <1>2

(* The youngest event, at the end of its queue or pushed in front of the   *)
(* active ones, leaves the cell in order.                                  *)
LEMMA GrowsOrdered ==
  ASSUME NEW q \in QueueSet, NEW q2, NEW ev \in Event,
         ev.region \in Queues, ev.push => ev.region = "active",
         \A r \in Queues : \A k \in 1..Len(q[r]) : q[r][k].id < ev.id,
         Ordered(q), Grows(q, q2, ev)
  PROVE  /\ Ordered(q2)
         /\ \A r \in Queues : \A k \in 1..Len(q2[r]) :
              \/ r = ev.region /\ q2[r][k] = ev
              \/ \E j \in 1..Len(q[r]) : q2[r][k] = q[r][j]
<1>0. /\ \A r \in Queues : q[r] \in Seq(Event) /\ Len(q[r]) \in Nat
      /\ \A r \in Queues : \A k \in 1..Len(q[r]) : q[r][k] \in Event /\ q[r][k].id \in Nat
      /\ ev.id \in Nat
  BY QueueTypes
<1>a. "active" \in Queues /\ "active" \notin Promoted /\ Promoted \subseteq Queues
  BY DEF Queues, Promoted
<1>1. CASE q2 = q
  BY <1>1
<1>2. CASE ~ ev.push /\ q2 = [q EXCEPT ![ev.region] = Append(@, ev)]
  <2> DEFINE R == ev.region
  <2>1. \A r \in Queues : r # R => q2[r] = q[r]
    BY <1>2 DEF QueueSet
  <2>2. q2[R] = Append(q[R], ev)
    BY <1>2 DEF QueueSet
  <2>3. /\ Len(q2[R]) = Len(q[R]) + 1 /\ q2[R][Len(q[R]) + 1] = ev
        /\ \A k \in 1..Len(q[R]) : q2[R][k] = q[R][k]
    BY <1>0, <2>2, AppendProperties
  <2> HIDE DEF R
  <2>r. R \in Queues /\ R = ev.region
    BY DEF R
  <2>4. \A r \in Queues : \A k \in 1..Len(q2[r]) :
          \/ r = R /\ k = Len(q[R]) + 1 /\ q2[r][k] = ev
          \/ k \in 1..Len(q[r]) /\ q2[r][k] = q[r][k]
    BY <1>0, <2>1, <2>3, <2>r
  <2>5. QueueOrder(q2)
    <3> SUFFICES ASSUME NEW r \in Queues, NEW k \in 1..Len(q2[r])
                 PROVE  /\ q2[r][k].region = r \/ (r = "active" /\ q2[r][k].region \in Promoted)
                        /\ q2[r][k].push => q2[r][k].region = "active"
                        /\ \A j \in 1..Len(q2[r]) : j < k =>
                             IF q2[r][k].push THEN q2[r][j].push /\ q2[r][j].id > q2[r][k].id
                             ELSE q2[r][j].push \/ q2[r][j].id < q2[r][k].id
      BY DEF QueueOrder
    <3>1. CASE r = R /\ k = Len(q[R]) + 1 /\ q2[r][k] = ev
      <4>1. \A j \in 1..Len(q2[r]) : j < k => q2[r][j].id < ev.id
        BY <1>0, <2>3, <2>r, <3>1
      <4> QED BY <1>2, <2>r, <3>1, <4>1
    <3>2. CASE k \in 1..Len(q[r]) /\ q2[r][k] = q[r][k]
      <4>1. \A j \in 1..Len(q2[r]) : j < k => j \in 1..Len(q[r]) /\ q2[r][j] = q[r][j]
        BY <1>0, <2>1, <2>3, <3>2, <2>r
      <4> QED BY <3>2, <4>1 DEF Ordered, QueueOrder
    <3> QED BY <2>4, <3>1, <3>2
  <2>6. ActiveOrder(q2)
    <3> SUFFICES ASSUME NEW k \in 1..Len(q2["active"]), q2["active"][k].region # "active"
                 PROVE  /\ \A j \in 1..Len(q2["active"]) :
                             \/ q2["active"][j].region = q2["active"][k].region
                             \/ q2["active"][j].region = "active"
                                /\ q2["active"][j].id > q2["active"][k].id
                        /\ \A r \in Promoted : Rank[r] <= Rank[q2["active"][k].region] =>
                             \A j \in 1..Len(q2[r]) : q2[r][j].id > q2["active"][k].id
      BY DEF ActiveOrder
    <3>1. k \in 1..Len(q["active"]) /\ q2["active"][k] = q["active"][k]
      BY <1>a, <2>4, <2>r
    <3>2. /\ \A j \in 1..Len(q["active"]) :
                \/ q["active"][j].region = q2["active"][k].region
                \/ q["active"][j].region = "active" /\ q["active"][j].id > q2["active"][k].id
          /\ \A r \in Promoted : Rank[r] <= Rank[q2["active"][k].region] =>
                \A j \in 1..Len(q[r]) : q[r][j].id > q2["active"][k].id
      BY <3>1 DEF Ordered, ActiveOrder
    <3>3. ev.id > q2["active"][k].id
      BY <1>0, <1>a, <3>1
    <3>4. ASSUME NEW j \in 1..Len(q2["active"])
          PROVE  \/ q2["active"][j].region = q2["active"][k].region
                 \/ q2["active"][j].region = "active" /\ q2["active"][j].id > q2["active"][k].id
      BY <1>a, <2>4, <2>r, <3>2, <3>3
    <3>5. ASSUME NEW r \in Promoted, Rank[r] <= Rank[q2["active"][k].region],
                 NEW j \in 1..Len(q2[r])
          PROVE  q2[r][j].id > q2["active"][k].id
      BY <1>a, <2>4, <3>2, <3>3, <3>5
    <3> QED BY <3>4, <3>5
  <2>7. \A r \in Queues : \A k \in 1..Len(q2[r]) :
          \/ r = ev.region /\ q2[r][k] = ev
          \/ \E j \in 1..Len(q[r]) : q2[r][k] = q[r][j]
    BY <2>4, <2>r
  <2> QED BY <2>5, <2>6, <2>7 DEF Ordered
<1>3. CASE ev.push /\ q2 = [q EXCEPT !["active"] = <<ev>> \o @]
  <2> DEFINE s == q["active"]
             t == q2["active"]
  <2>1. \A r \in Queues : r # "active" => q2[r] = q[r]
    BY <1>3 DEF QueueSet
  <2>2. s \in Seq(Event) /\ t = <<ev>> \o s
    BY <1>3, <1>a DEF QueueSet
  <2>3. /\ Len(t) = Len(s) + 1 /\ t[1] = ev
        /\ \A k \in 1..Len(t) : k > 1 => k - 1 \in 1..Len(s) /\ t[k] = s[k - 1]
    BY <2>2, FrontPlaces
  <2>s. Len(s) \in Nat /\ \A k \in 1..Len(s) : s[k].id < ev.id /\ s[k].id \in Nat
    BY <1>0, <1>a
  <2>5. QueueOrder(q2)
    <3> SUFFICES ASSUME NEW r \in Queues, NEW k \in 1..Len(q2[r])
                 PROVE  /\ q2[r][k].region = r \/ (r = "active" /\ q2[r][k].region \in Promoted)
                        /\ q2[r][k].push => q2[r][k].region = "active"
                        /\ \A j \in 1..Len(q2[r]) : j < k =>
                             IF q2[r][k].push THEN q2[r][j].push /\ q2[r][j].id > q2[r][k].id
                             ELSE q2[r][j].push \/ q2[r][j].id < q2[r][k].id
      BY DEF QueueOrder
    <3>1. CASE r # "active"
      BY <2>1, <3>1 DEF Ordered, QueueOrder
    <3>2. CASE r = "active"
      <4>q. \A m \in 1..Len(s) :
              /\ s[m].region = "active" \/ s[m].region \in Promoted
              /\ s[m].push => s[m].region = "active"
              /\ \A j \in 1..Len(s) : j < m =>
                   IF s[m].push THEN s[j].push /\ s[j].id > s[m].id
                   ELSE s[j].push \/ s[j].id < s[m].id
        BY <1>a DEF Ordered, QueueOrder
      <4> HIDE DEF s, t
      <4>t. q2[r] = t
        BY <3>2 DEF t
      <4>1. CASE k = 1
        <5>1. t[k] = ev /\ \A j \in 1..Len(t) : ~ (j < k)
          BY <2>3, <4>1
        <5> QED BY <1>3, <3>2, <4>t, <5>1
      <4>2. CASE k > 1
        <5>1. k - 1 \in 1..Len(s) /\ t[k] = s[k - 1]
          BY <2>3, <4>2, <4>t
        <5>2. ASSUME NEW j \in 1..Len(t), j < k
              PROVE  IF t[k].push THEN t[j].push /\ t[j].id > t[k].id
                     ELSE t[j].push \/ t[j].id < t[k].id
          <6>1. CASE j = 1
            BY <1>3, <2>3, <2>s, <5>1, <6>1
          <6>2. CASE j > 1
            <7>1. j - 1 \in 1..Len(s) /\ t[j] = s[j - 1] /\ j - 1 < k - 1
              BY <2>3, <5>2, <6>2, <4>t, <2>s
            <7> QED BY <4>q, <5>1, <7>1
          <6> QED BY <6>1, <6>2
        <5> QED BY <3>2, <4>q, <4>t, <5>1, <5>2
      <4> QED BY <2>3, <2>s, <4>t, <4>1, <4>2
    <3> QED BY <3>1, <3>2
  <2>6. ActiveOrder(q2)
    <3> SUFFICES ASSUME NEW k \in 1..Len(t), t[k].region # "active"
                 PROVE  /\ \A j \in 1..Len(t) :
                             \/ t[j].region = t[k].region
                             \/ t[j].region = "active" /\ t[j].id > t[k].id
                        /\ \A r \in Promoted : Rank[r] <= Rank[t[k].region] =>
                             \A j \in 1..Len(q2[r]) : q2[r][j].id > t[k].id
      BY DEF ActiveOrder
    <3>q. \A m \in 1..Len(s) : s[m].region # "active" =>
            /\ \A j \in 1..Len(s) : \/ s[j].region = s[m].region
                                    \/ s[j].region = "active" /\ s[j].id > s[m].id
            /\ \A r \in Promoted : Rank[r] <= Rank[s[m].region] =>
                 \A j \in 1..Len(q[r]) : q[r][j].id > s[m].id
      BY DEF Ordered, ActiveOrder
    <3> HIDE DEF s, t
    <3>1. k > 1
      <4>1. t[1].region = "active" /\ k \in Nat /\ k >= 1
        BY <1>3, <2>3, <2>s
      <4> QED BY <4>1
    <3>2. k - 1 \in 1..Len(s) /\ t[k] = s[k - 1]
      BY <2>3, <3>1
    <3>3. ASSUME NEW j \in 1..Len(t)
          PROVE  \/ t[j].region = t[k].region
                 \/ t[j].region = "active" /\ t[j].id > t[k].id
      <4>1. CASE j = 1
        BY <1>3, <2>3, <2>s, <3>2, <4>1
      <4>2. CASE j > 1
        <5>1. j - 1 \in 1..Len(s) /\ t[j] = s[j - 1]
          BY <2>3, <4>2
        <5> QED BY <3>q, <3>2, <5>1
      <4> QED BY <2>3, <2>s, <4>1, <4>2
    <3>4. ASSUME NEW r \in Promoted, Rank[r] <= Rank[t[k].region], NEW j \in 1..Len(q2[r])
          PROVE  q2[r][j].id > t[k].id
      <4>1. q2[r] = q[r]
        BY <1>a, <2>1
      <4> QED BY <3>q, <3>2, <3>4, <4>1
    <3> QED BY <3>3, <3>4
  <2>7. ASSUME NEW r \in Queues, NEW k \in 1..Len(q2[r])
        PROVE  \/ r = ev.region /\ q2[r][k] = ev
               \/ \E j \in 1..Len(q[r]) : q2[r][k] = q[r][j]
    <3>1. CASE r # "active"
      BY <2>1, <3>1
    <3>2. CASE r = "active" /\ k = 1
      BY <1>3, <2>3, <3>2
    <3>3. CASE r = "active" /\ k > 1
      BY <2>3, <3>3
    <3>4. k \in Nat /\ k >= 1
      OBVIOUS
    <3> QED BY <3>1, <3>2, <3>3, <3>4
  <2> QED BY <2>5, <2>6, <2>7 DEF Ordered
<1> QED BY <1>1, <1>2, <1>3 DEF Grows

(* A new cell is in order. *)
LEMMA AloneOrdered ==
  ASSUME NEW ev \in Event, ev.region \in Queues, ev.push => ev.region = "active"
  PROVE  /\ Ordered(Alone(ev))
         /\ \A r \in Queues : \A k \in 1..Len(Alone(ev)[r]) :
              r = ev.region /\ Alone(ev)[r][k] = ev
<1>1. \A r \in Queues : Alone(ev)[r] = IF r = ev.region THEN <<ev>> ELSE << >>
  BY DEF Alone
<1>2. Len(<<ev>>) = 1 /\ <<ev>>[1] = ev /\ Len(<< >>) = 0
  OBVIOUS
<1>3. ASSUME NEW r \in Queues, NEW k \in 1..Len(Alone(ev)[r])
      PROVE  r = ev.region /\ Alone(ev)[r][k] = ev /\ k = 1
  <2>1. CASE r = ev.region
    <3>1. Alone(ev)[r] = <<ev>>
      BY <1>1, <2>1
    <3> QED BY <1>2, <2>1, <3>1
  <2>2. CASE r # ev.region
    <3>1. Alone(ev)[r] = << >>
      BY <1>1, <2>2
    <3> QED BY <1>2, <3>1
  <2> QED BY <2>1, <2>2
<1>4. "active" \in Queues /\ \A r \in Promoted : r \in Queues /\ r # "active"
  BY DEF Queues, Promoted
<1>5. QueueOrder(Alone(ev))
  <2> SUFFICES ASSUME NEW r \in Queues, NEW k \in 1..Len(Alone(ev)[r])
               PROVE  /\ Alone(ev)[r][k].region = r
                      /\ Alone(ev)[r][k].push => Alone(ev)[r][k].region = "active"
                      /\ \A j \in 1..Len(Alone(ev)[r]) : ~ (j < k)
    BY DEF QueueOrder
  <2> QED BY <1>3
<1>6. ActiveOrder(Alone(ev))
  <2> SUFFICES ASSUME NEW k \in 1..Len(Alone(ev)["active"])
               PROVE  Alone(ev)["active"][k].region = "active"
    BY DEF ActiveOrder
  <2> QED BY <1>3, <1>4
<1> QED BY <1>3, <1>5, <1>6 DEF Ordered

(* Event e may wait while run is running. *)
Behind(run, e) ==
  /\ ~ run.push /\ e.region = run.region /\ ~ e.push => e.id > run.id
  /\ Rank[run.region] > 1 /\ Rank[e.region] \in 1..Rank[run.region] - 1 => e.id > run.id \/ e.ro

(* The places of the regions. *)
LEMMA Ranks ==
  /\ Rank["active"] = 1 /\ Rank["inactive"] = 2 /\ Rank["nbassign"] = 3
  /\ Rank["rwsync"] = 4 /\ Rank["rosync"] = 5 /\ Rank["start"] = 0 /\ Rank["del_thr"] = 0
  /\ Rank["init"] = 0 /\ Rank["final"] = 0
<1>1. Queues \cup Lists = {"start", "active", "inactive", "nbassign", "rwsync", "rosync",
                           "del_thr", "init", "final"}
  BY DEF Queues, Lists
<1> QED BY <1>1 DEF Rank

(* The queues without the first event of R. *)
Took(q, R) == [q EXCEPT ![R] = Tail(@)]

(* The queues when R becomes active and its first event is taken. *)
MadeActive(q, R) == [q EXCEPT ![R] = << >>, !["active"] = Tail(q[R])]

(* The first event of a queue leaves the cell in order. *)
LEMMA TakeOrdered ==
  ASSUME NEW q \in QueueSet, NEW q2, NEW R \in Queues, q[R] # << >>,
         q2 = Took(q, R), Ordered(q)
  PROVE  /\ Ordered(q2)
         /\ \A r \in Queues : \A k \in 1..Len(q2[r]) :
              \E j \in 1..Len(q[r]) : q2[r][k] = q[r][j] /\ (r = R => j > 1)
         /\ Head(q[R]) = q[R][1] /\ 1 \in 1..Len(q[R])
<1>0. /\ \A r \in Queues : q[r] \in Seq(Event) /\ Len(q[r]) \in Nat
      /\ \A r \in Queues : \A k \in 1..Len(q[r]) : q[r][k] \in Event /\ q[r][k].id \in Nat
  BY QueueTypes
<1>a. "active" \in Queues /\ "active" \notin Promoted /\ Promoted \subseteq Queues
  BY DEF Queues, Promoted
<1>1. \A r \in Queues : r # R => q2[r] = q[r]
  BY DEF QueueSet, Took
<1>2. q2[R] = Tail(q[R]) /\ q[R] \in Seq(Event)
  BY DEF QueueSet, Took
<1>3. /\ Len(q2[R]) = Len(q[R]) - 1 /\ Len(q[R]) > 0
      /\ \A k \in 1..Len(q[R]) - 1 : q2[R][k] = q[R][k + 1]
      /\ Head(q[R]) = q[R][1] /\ 1 \in 1..Len(q[R])
  BY <1>2, TailPlaces
<1> DEFINE o(r) == IF r = R THEN 1 ELSE 0
<1>4. ASSUME NEW r \in Queues, NEW k \in 1..Len(q2[r])
      PROVE  k + o(r) \in 1..Len(q[r]) /\ q2[r][k] = q[r][k + o(r)]
  <2>1. CASE r = R
    <3>1. k \in 1..Len(q[R]) - 1 /\ k + 1 \in 1..Len(q[R])
      BY <1>0, <1>3, <2>1
    <3> QED BY <1>3, <2>1, <3>1
  <2>2. CASE r # R
    <3>1. k \in 1..Len(q[r]) /\ k + 0 = k /\ q2[r] = q[r]
      BY <1>0, <1>1, <2>2
    <3> QED BY <2>2, <3>1
  <2> QED BY <2>1, <2>2
<1>5. \A r \in Queues : o(r) \in Nat
  OBVIOUS
<1>8. \A r \in Queues : \A k \in 1..Len(q2[r]) : r = R => k + o(r) > 1
  OBVIOUS
<1> HIDE DEF o
<1>6. QueueOrder(q2)
  <2> SUFFICES ASSUME NEW r \in Queues, NEW k \in 1..Len(q2[r])
               PROVE  /\ q2[r][k].region = r \/ (r = "active" /\ q2[r][k].region \in Promoted)
                      /\ q2[r][k].push => q2[r][k].region = "active"
                      /\ \A j \in 1..Len(q2[r]) : j < k =>
                           IF q2[r][k].push THEN q2[r][j].push /\ q2[r][j].id > q2[r][k].id
                           ELSE q2[r][j].push \/ q2[r][j].id < q2[r][k].id
    BY DEF QueueOrder
  <2>1. k + o(r) \in 1..Len(q[r]) /\ q2[r][k] = q[r][k + o(r)]
    BY <1>4
  <2>2. ASSUME NEW j \in 1..Len(q2[r]), j < k
        PROVE  IF q2[r][k].push THEN q2[r][j].push /\ q2[r][j].id > q2[r][k].id
               ELSE q2[r][j].push \/ q2[r][j].id < q2[r][k].id
    <3>1. j + o(r) \in 1..Len(q[r]) /\ q2[r][j] = q[r][j + o(r)]
      BY <1>4
    <3>2. j + o(r) < k + o(r)
      BY <1>5, <2>2
    <3> QED BY <2>1, <3>1, <3>2 DEF Ordered, QueueOrder
  <2> QED BY <2>1, <2>2 DEF Ordered, QueueOrder
<1>7. ActiveOrder(q2)
  <2> SUFFICES ASSUME NEW k \in 1..Len(q2["active"]), q2["active"][k].region # "active"
               PROVE  /\ \A j \in 1..Len(q2["active"]) :
                           \/ q2["active"][j].region = q2["active"][k].region
                           \/ q2["active"][j].region = "active"
                              /\ q2["active"][j].id > q2["active"][k].id
                      /\ \A r \in Promoted : Rank[r] <= Rank[q2["active"][k].region] =>
                           \A j \in 1..Len(q2[r]) : q2[r][j].id > q2["active"][k].id
    BY DEF ActiveOrder
  <2> DEFINE m == k + o("active")
  <2>1. m \in 1..Len(q["active"]) /\ q2["active"][k] = q["active"][m]
    BY <1>a, <1>4
  <2> HIDE DEF m
  <2>2. /\ \A j \in 1..Len(q["active"]) :
             \/ q["active"][j].region = q2["active"][k].region
             \/ q["active"][j].region = "active" /\ q["active"][j].id > q2["active"][k].id
        /\ \A r \in Promoted : Rank[r] <= Rank[q2["active"][k].region] =>
             \A j \in 1..Len(q[r]) : q[r][j].id > q2["active"][k].id
    BY <2>1 DEF Ordered, ActiveOrder
  <2>3. ASSUME NEW j \in 1..Len(q2["active"])
        PROVE  \/ q2["active"][j].region = q2["active"][k].region
               \/ q2["active"][j].region = "active" /\ q2["active"][j].id > q2["active"][k].id
    <3>1. j + o("active") \in 1..Len(q["active"]) /\ q2["active"][j] = q["active"][j + o("active")]
      BY <1>a, <1>4
    <3> QED BY <2>2, <3>1
  <2>4. ASSUME NEW r \in Promoted, Rank[r] <= Rank[q2["active"][k].region],
               NEW j \in 1..Len(q2[r])
        PROVE  q2[r][j].id > q2["active"][k].id
    <3>1. j + o(r) \in 1..Len(q[r]) /\ q2[r][j] = q[r][j + o(r)]
      BY <1>a, <1>4
    <3> QED BY <2>2, <2>4, <3>1
  <2> QED BY <2>3, <2>4
<1> QED BY <1>3, <1>4, <1>6, <1>7, <1>8 DEF Ordered

(* When the first active event runs, all others may wait, and it was       *)
(* pushed last.                                                            *)
LEMMA FirstActive ==
  ASSUME NEW q \in QueueSet, NEW run, Ordered(q), 1 \in 1..Len(q["active"]),
         run = q["active"][1], NEW r \in Queues, NEW j \in 1..Len(q[r])
  PROVE  /\ r = "active" /\ j > 1 => Behind(run, q[r][j])
         /\ r # "active" => Behind(run, q[r][j])
         /\ q[r][j].push => run.push /\ run.id >= q[r][j].id
         /\ run.region \in {"active"} \cup Promoted
<1>0. /\ \A x \in Queues : \A k \in 1..Len(q[x]) : q[x][k].id \in Nat
  BY QueueTypes
<1>a. "active" \in Queues /\ "active" \notin Promoted /\ Promoted \subseteq Queues
  BY DEF Queues, Promoted
<1>1. run.region = "active" \/ run.region \in Promoted
  BY <1>a DEF Ordered, QueueOrder
<1>2. q[r][j].region = r \/ (r = "active" /\ q[r][j].region \in Promoted)
  BY DEF Ordered, QueueOrder
<1>3. q[r][j].push => r = "active"
  BY <1>2, <1>a DEF Ordered, QueueOrder
<1>4. r = "active" /\ 1 < j =>
        IF q[r][j].push THEN run.push /\ run.id > q[r][j].id
        ELSE run.push \/ run.id < q[r][j].id
  BY DEF Ordered, QueueOrder
<1>5. run.region # "active" =>
        /\ \A i \in 1..Len(q["active"]) :
             \/ q["active"][i].region = run.region
             \/ q["active"][i].region = "active" /\ q["active"][i].id > run.id
        /\ \A x \in Promoted : Rank[x] <= Rank[run.region] =>
             \A i \in 1..Len(q[x]) : q[x][i].id > run.id
  BY DEF Ordered, ActiveOrder
<1>6. run.id \in Nat /\ q[r][j].id \in Nat
  BY <1>0, <1>a
<1>7. Rank[run.region] \in 1..4 /\ (Rank[run.region] > 1 => run.region # "active")
  BY <1>1, Ranks DEF Promoted
<1>8. \A x \in Queues : Rank[x] \in 0..5 /\ (Rank[x] \in 1..4 => x \in {"active"} \cup Promoted)
  BY Ranks DEF Promoted, Queues
<1>9. CASE r = "active" /\ j > 1
  <2>1. ~ run.push /\ q[r][j].region = run.region /\ ~ q[r][j].push => q[r][j].id > run.id
    BY <1>4, <1>6, <1>9
  <2>2. ASSUME Rank[run.region] > 1, Rank[q[r][j].region] \in 1..Rank[run.region] - 1
        PROVE  q[r][j].id > run.id
    <3>1. run.region # "active" /\ q[r][j].region # run.region
      BY <2>2, <1>1, <1>7, Ranks
    <3> QED BY <1>5, <1>9, <3>1
  <2> QED BY <1>3, <1>4, <1>6, <1>1, <1>9, <2>1, <2>2 DEF Behind
<1>10. CASE r = "active" /\ j = 1
  BY <1>1, <1>6, <1>10
<1>11. CASE r # "active"
  <2>1. q[r][j].region = r /\ ~ q[r][j].push
    BY <1>2, <1>3, <1>11
  <2>2. ASSUME r \in Promoted, run.region # "active", Rank[r] <= Rank[run.region]
        PROVE  q[r][j].id > run.id
    BY <1>5, <2>2
  <2>3. ASSUME r = run.region PROVE q[r][j].id > run.id
    <3>1. Rank[r] <= Rank[run.region]
      BY <1>1, <1>7, <2>3
    <3> QED BY <1>1, <1>11, <2>2, <2>3, <3>1
  <2>4. ASSUME Rank[run.region] > 1, Rank[r] \in 1..Rank[run.region] - 1
        PROVE  q[r][j].id > run.id
    <3>1. run.region # "active" /\ Rank[run.region] \in 1..4
      BY <1>1, <1>7, <2>4, Ranks
    <3>2. r \in Promoted /\ Rank[r] <= Rank[run.region]
      BY <1>8, <1>11, <2>4, <3>1
    <3> QED BY <2>2, <3>1, <3>2
  <2> QED BY <1>1, <1>11, <2>1, <2>3, <2>4 DEF Behind
<1>12. j = 1 \/ j > 1
  OBVIOUS
<1> QED BY <1>9, <1>10, <1>11, <1>12

(* When a region becomes active the cell stays in order, its first event   *)
(* runs before all others, and none of them was pushed.                    *)
LEMMA PromoteOrdered ==
  ASSUME NEW q \in QueueSet, NEW q2, NEW run, NEW R \in Promoted, Ordered(q),
         q["active"] = << >>, q[R] # << >>,
         \A x \in Promoted : Rank[x] < Rank[R] => q[x] = << >>,
         q2 = MadeActive(q, R), run = Head(q[R])
  PROVE  /\ Ordered(q2)
         /\ run = q[R][1] /\ 1 \in 1..Len(q[R]) /\ run.region = R
         /\ \A r \in Queues : \A k \in 1..Len(q2[r]) :
              /\ Behind(run, q2[r][k])
              /\ \E x \in Queues : \E j \in 1..Len(q[x]) :
                    q2[r][k] = q[x][j] /\ (r # "active" => x = r)
         /\ \A r \in Queues : \A k \in 1..Len(q[r]) : ~ q[r][k].push
<1> DEFINE s == q[R]
<1>a. "active" \in Queues /\ "active" \notin Promoted /\ R \in Queues /\ R # "active"
  BY DEF Queues, Promoted
<1>0. /\ s \in Seq(Event) /\ Len(s) \in Nat /\ \A k \in 1..Len(s) : s[k].id \in Nat
  BY <1>a, QueueTypes
<1>1. /\ q2["active"] = Tail(s) /\ q2[R] = << >>
      /\ \A r \in Queues : r # R /\ r # "active" => q2[r] = q[r]
  BY <1>a DEF QueueSet, MadeActive
<1>2. /\ Len(Tail(s)) = Len(s) - 1 /\ \A k \in 1..Len(s) - 1 : Tail(s)[k] = s[k + 1]
      /\ Head(s) = s[1] /\ 1 \in 1..Len(s)
  BY <1>0, TailPlaces
<1>3. \A k \in 1..Len(s) : /\ s[k].region = R /\ ~ s[k].push
                           /\ \A j \in 1..Len(s) : j < k => s[j].id < s[k].id
  <2>1. \A k \in 1..Len(s) : s[k].region = R /\ ~ s[k].push
    BY <1>a DEF Ordered, QueueOrder
  <2> QED BY <1>a, <2>1 DEF Ordered, QueueOrder
<1>4. \A r \in Queues : \A k \in 1..Len(q[r]) :
        r # "active" /\ q[r][k].region = r /\ ~ q[r][k].push
  <2>1. Len(q["active"]) = 0
    OBVIOUS
  <2>2. \A r \in Queues : \A k \in 1..Len(q[r]) : r # "active"
    BY <2>1
  <2> QED BY <2>2 DEF Ordered, QueueOrder
<1>s. s = q[R]
  OBVIOUS
<1> HIDE DEF s
<1>5. ASSUME NEW k \in 1..Len(q2["active"])
      PROVE  k + 1 \in 1..Len(s) /\ k + 1 > 1 /\ q2["active"][k] = s[k + 1]
  <2>1. k \in 1..Len(s) - 1
    BY <1>1, <1>2
  <2>2. k + 1 \in 1..Len(s) /\ k + 1 > 1
    BY <1>0, <2>1
  <2>3. Tail(s)[k] = s[k + 1]
    BY <1>2, <2>1, Zenon
  <2> QED BY <1>1, <2>2, <2>3, Zenon
<1>e. Len(<< >>) = 0
  OBVIOUS
<1>6. ASSUME NEW r \in Queues, r # "active", NEW k \in 1..Len(q2[r])
      PROVE  r # R /\ q2[r] = q[r]
  <2>1. r # R
    BY <1>1, <1>6, <1>e
  <2> QED BY <1>1, <1>6, <2>1
<1>7. QueueOrder(q2)
  <2> SUFFICES ASSUME NEW r \in Queues, NEW k \in 1..Len(q2[r])
               PROVE  /\ q2[r][k].region = r \/ (r = "active" /\ q2[r][k].region \in Promoted)
                      /\ q2[r][k].push => q2[r][k].region = "active"
                      /\ \A j \in 1..Len(q2[r]) : j < k =>
                           IF q2[r][k].push THEN q2[r][j].push /\ q2[r][j].id > q2[r][k].id
                           ELSE q2[r][j].push \/ q2[r][j].id < q2[r][k].id
    BY DEF QueueOrder
  <2>1. CASE r = "active"
    <3>1. /\ q2[r][k].region = R /\ ~ q2[r][k].push
          /\ \A j \in 1..Len(q2[r]) : j < k => q2[r][j].id < q2[r][k].id
      <4>1. k + 1 \in 1..Len(s) /\ q2[r][k] = s[k + 1]
        BY <1>5, <2>1
      <4>2. ASSUME NEW j \in 1..Len(q2[r]), j < k PROVE q2[r][j].id < q2[r][k].id
        <5>1. j + 1 \in 1..Len(s) /\ q2[r][j] = s[j + 1]
          BY <1>5, <2>1
        <5>2. j + 1 < k + 1
          BY <4>2
        <5> QED BY <1>3, <4>1, <5>1, <5>2
      <4> QED BY <1>3, <4>1, <4>2
    <3> QED BY <2>1, <3>1
  <2>2. CASE r # "active"
    <3>1. q2[r] = q[r]
      BY <1>6, <2>2
    <3>2. QueueOrder(q)
      BY DEF Ordered
    <3> HIDE DEF QueueOrder
    <3>3. /\ q[r][k].region = r \/ (r = "active" /\ q[r][k].region \in Promoted)
          /\ q[r][k].push => q[r][k].region = "active"
          /\ \A j \in 1..Len(q[r]) : j < k =>
               IF q[r][k].push THEN q[r][j].push /\ q[r][j].id > q[r][k].id
               ELSE q[r][j].push \/ q[r][j].id < q[r][k].id
      BY <3>1, <3>2, Zenon DEF QueueOrder
    <3> QED BY <3>1, <3>3
  <2> QED BY <2>1, <2>2
<1>8. ActiveOrder(q2)
  <2> SUFFICES ASSUME NEW k \in 1..Len(q2["active"])
               PROVE  /\ \A j \in 1..Len(q2["active"]) :
                           q2["active"][j].region = q2["active"][k].region
                      /\ \A r \in Promoted : Rank[r] <= Rank[q2["active"][k].region] =>
                           Len(q2[r]) = 0
    <3>1. \A x : x \notin 1..0
      OBVIOUS
    <3> QED BY <3>1 DEF ActiveOrder
  <2>1. \A j \in 1..Len(q2["active"]) : q2["active"][j].region = R
    BY <1>3, <1>5
  <2>2. ASSUME NEW r \in Promoted, Rank[r] <= Rank[R] PROVE Len(q2[r]) = 0
    <3>1. r = R \/ Rank[r] < Rank[R]
      BY <2>2, Ranks DEF Promoted
    <3>2. r \in Queues /\ r # "active"
      BY DEF Promoted, Queues
    <3>3. q2[r] = << >>
      BY <1>1, <3>1, <3>2
    <3> QED BY <1>e, <3>3
  <2> QED BY <2>1, <2>2
<1>9. ASSUME NEW r \in Queues, NEW k \in 1..Len(q2[r])
      PROVE  /\ Behind(run, q2[r][k])
             /\ \E x \in Queues : \E j \in 1..Len(q[x]) :
                   q2[r][k] = q[x][j] /\ (r # "active" => x = r)
  <2>0. run = s[1] /\ run.region = R /\ run.id \in Nat
    BY <1>0, <1>2, <1>3 DEF s
  <2>1. CASE r = "active"
    <3>1. k + 1 \in 1..Len(s) /\ 1 < k + 1 /\ q2[r][k] = s[k + 1]
      BY <1>5, <2>1
    <3>2. q2[r][k].id > run.id /\ q2[r][k].region = R
      BY <1>0, <1>2, <1>3, <2>0, <3>1
    <3> QED BY <1>a, <2>1, <3>1, <3>2 DEF Behind, s
  <2>2. CASE r # "active"
    <3>1. r # R /\ q2[r] = q[r] /\ q[r][k].region = r
      BY <1>4, <1>6, <2>2
    <3>2. q[r] # << >>
      <4>0. k \in 1..Len(q[r])
        BY <3>1, Zenon
      <4>1. k \notin 1..0
        OBVIOUS
      <4> QED BY <1>e, <4>0, <4>1, Zenon
    <3>3. ~ (Rank[r] \in 1..Rank[R] - 1)
      <4>1. SUFFICES ASSUME Rank[r] \in 1..Rank[R] - 1 PROVE FALSE
        OBVIOUS
      <4>2. r \in Promoted /\ Rank[r] < Rank[R]
        BY <2>2, <4>1, Ranks DEF Queues, Promoted
      <4> QED BY <3>2, <4>2
    <3> QED BY <2>0, <3>1, <3>3 DEF Behind
  <2> QED BY <2>1, <2>2
<1> QED BY <1>2, <1>3, <1>4, <1>7, <1>8, <1>9 DEF Ordered, s

-----------------------------------------------------------------------------
(* The invariant by its parts.                                             *)

(* RunsInOrder and Stratified, place by place. *)
Waits ==
  running # NoEvent =>
    \A i \in 1..Len(sched_list) : \A r \in Queues : \A k \in 1..Len(sched_list[i].q[r]) :
      sched_list[i].q[r][k].at = running.at => Behind(running, sched_list[i].q[r][k])

LEMMA WaitsIs == Waits <=> RunsInOrder /\ Stratified
<1>1. ASSUME Waits PROVE RunsInOrder /\ Stratified
  <2>1. ASSUME running # NoEvent, NEW e \in Pending, e.at = running.at
        PROVE  Behind(running, e)
    <3>1. PICK i \in 1..Len(sched_list) : e \in PendingIn(i)
      BY Zenon DEF Pending
    <3>2. PICK r \in Queues : \E k \in 1..Len(sched_list[i].q[r]) : e = sched_list[i].q[r][k]
      BY <3>1, Zenon DEF PendingIn
    <3>3. PICK k \in 1..Len(sched_list[i].q[r]) : e = sched_list[i].q[r][k]
      BY <3>2
    <3> QED BY <1>1, <2>1, <3>3, Zenon DEF Waits
  <2> QED BY <2>1 DEF RunsInOrder, Stratified, Behind
<1>2. ASSUME RunsInOrder, Stratified PROVE Waits
  <2> SUFFICES ASSUME running # NoEvent, NEW i \in 1..Len(sched_list), NEW r \in Queues,
                      NEW k \in 1..Len(sched_list[i].q[r]),
                      sched_list[i].q[r][k].at = running.at
               PROVE  Behind(running, sched_list[i].q[r][k])
    BY DEF Waits
  <2> DEFINE S(x) == {sched_list[i].q[x][m] : m \in 1..Len(sched_list[i].q[x])}
  <2>0. sched_list[i].q[r][k] \in S(r) /\ S(r) \in {S(x) : x \in Queues}
    OBVIOUS
  <2>1. sched_list[i].q[r][k] \in PendingIn(i)
    BY <2>0, Zenon DEF PendingIn
  <2>2. sched_list[i].q[r][k] \in Pending
    BY <2>1, Zenon DEF Pending
  <2> QED BY <1>2, <2>2 DEF RunsInOrder, Stratified, Behind
<1> QED BY <1>1, <1>2

LEMMA OrderParts ==
  OrderInv <=>
    /\ CellsOrdered /\ Numbered /\ RosyncOnly /\ StartsLate /\ Waits /\ LossExplained
  BY WaitsIs DEF OrderInv

(* What IInv says of the cells' queues, and of the times of the cells. *)
LEMMA CellFacts ==
  IInv =>
    /\ Len(sched_list) \in Nat /\ (sched_list # << >> => 1 \in 1..Len(sched_list))
    /\ \A i \in 1..Len(sched_list) :
         /\ sched_list[i].q \in QueueSet /\ sched_list[i].at \in Nat
         /\ i # 1 => sched_list[1].at < sched_list[i].at
         /\ \A r \in Queues : \A k \in 1..Len(sched_list[i].q[r]) :
              /\ sched_list[i].q[r][k].at = sched_list[i].at
              /\ sched_list[i].q[r][k].region \in Queues
    /\ sched_list # << >> => sched_list[1].at = schedule_time + sched_list[1].delay
<1> HAVE IInv
<1>1. sched_list \in Seq(Cell) /\ CellOrder /\ EventsDue /\ HeadAt
  BY DEF IInv, TypeOK
<1>2. Len(sched_list) \in Nat /\ (sched_list # << >> => 1 \in 1..Len(sched_list))
  BY <1>1, LenProperties, EmptySeq
<1>3. ASSUME NEW i \in 1..Len(sched_list)
      PROVE  /\ sched_list[i].q \in QueueSet /\ sched_list[i].at \in Nat
             /\ i # 1 => sched_list[1].at < sched_list[i].at
             /\ \A r \in Queues : \A k \in 1..Len(sched_list[i].q[r]) :
                  /\ sched_list[i].q[r][k].at = sched_list[i].at
                  /\ sched_list[i].q[r][k].region \in Queues
  <2>1. sched_list[i] \in Cell
    BY <1>1, ElementOfSeq
  <2>2. sched_list[i].q \in QueueSet /\ sched_list[i].at \in Nat
    BY <2>1 DEF Cell, QueueSet
  <2>3. i # 1 => sched_list[1].at < sched_list[i].at
    BY <1>1, <1>2 DEF CellOrder
  <2>4. Due(sched_list[i])
    BY <1>1 DEF EventsDue
  <2> QED BY <2>2, <2>3, <2>4 DEF Due, AllDue
<1> QED BY <1>1, <1>2, <1>3 DEF HeadAt

-----------------------------------------------------------------------------
(* The steps, by what they do to the queue.                                *)

(* A step that moves no event of a cell. *)
LEMMA OrderQuiet ==
  ASSUME FullInv,
         UNCHANGED <<sched_list, call, nsched, schedule_time, lost, sched_error>>,
         \/ running' = running
         \/ running' = NoEvent
         \/ running' # NoEvent /\ running'.region \in Lists,
         \/ phase' = phase
         \/ /\ running' = NoEvent /\ call = NoCall
            /\ phase' = "rosync" => \A r \in {"active"} \cup Promoted : sched_list[1].q[r] = << >>
            /\ phase \in {"nextsim", "start"} /\ phase' \notin {"nextsim", "start"} =>
                 sched_list[1].q["start"] = << >>
  PROVE  OrderInv'
<1>0. IInv /\ OrderInv
  BY DEF FullInv
<1>1. /\ \A i \in 1..Len(sched_list) : Ordered(sched_list[i].q)
      /\ Numbered /\ RosyncOnly /\ StartsLate /\ Waits /\ LossExplained
  BY <1>0, OrderParts DEF CellsOrdered, Ordered
<1>2. \A x : x \notin Lists \/ x \notin Queues
  BY DEF Lists, Queues
<1>e. Len(<< >>) = 0 /\ \A k : k \notin 1..0
  OBVIOUS
<1>3. \A i \in 1..Len(sched_list') : Ordered(sched_list'[i].q)
  BY <1>1
<1>4. Numbered'
  BY <1>1, <1>2 DEF Numbered, Placed, AllUpTo
<1>5. RosyncOnly'
  <2>1. running' # NoEvent /\ running'.region = "rosync" => phase' = "rosync"
    <3>1. "rosync" \notin Lists
      BY DEF Lists
    <3> QED BY <1>1, <3>1 DEF RosyncOnly
  <2>2. ASSUME phase' = "rosync", NEW r \in {"active"} \cup Promoted,
               NEW k \in 1..Len(sched_list[1].q[r])
        PROVE  sched_list[1].q[r][k].ro /\ sched_list[1].q[r][k].delay = 0
    <3>1. CASE phase' = phase
      BY <1>1, <2>2, <3>1 DEF RosyncOnly
    <3>2. CASE sched_list[1].q[r] = << >>
      BY <1>e, <3>2
    <3> QED BY <2>2, <3>1, <3>2
  <2> QED BY <2>1, <2>2 DEF RosyncOnly
<1>6. StartsLate'
  BY <1>1, <1>e DEF StartsLate
<1>7. Waits'
  <2>1. CASE running' = running
    BY <1>1, <2>1 DEF Waits
  <2>2. CASE running' = NoEvent
    BY <2>2 DEF Waits
  <2>3. CASE running' # NoEvent /\ running'.region \in Lists
    <3>1. Rank[running'.region] = 0
      BY <2>3, Ranks DEF Lists
    <3> SUFFICES ASSUME NEW i \in 1..Len(sched_list), NEW r \in Queues,
                        NEW k \in 1..Len(sched_list[i].q[r])
                 PROVE  Behind(running', sched_list[i].q[r][k])
      BY DEF Waits
    <3>2. sched_list[i].q[r][k].region \in Queues
      BY <1>0, CellFacts
    <3> QED BY <1>2, <2>3, <3>1, <3>2 DEF Behind
  <2> QED BY <2>1, <2>2, <2>3
<1>8. LossExplained'
  BY <1>1 DEF LossExplained
<1>9. OrderInv' <=>
    /\ CellsOrdered' /\ Numbered' /\ RosyncOnly' /\ StartsLate' /\ Waits' /\ LossExplained'
  BY OrderParts, PTL
<1>10. CellsOrdered'
  BY <1>3 DEF CellsOrdered, Ordered
<1> QED BY <1>4, <1>5, <1>6, <1>7, <1>8, <1>9, <1>10

(* The step puts event ev into the queue: every cell is an old one, which  *)
(* may have got the event, or a new one for it.                            *)
Added(ev) ==
  /\ \A i \in 1..Len(sched_list') :
       \/ sched_list'[i].q = Alone(ev)
       \/ \E j \in 1..Len(sched_list) : Grows(sched_list[j].q, sched_list'[i].q, ev)
  /\ sched_list' # << >> /\ sched_list'[1].delay = 0 =>
       \/ sched_list'[1].q = Alone(ev)
       \/ /\ sched_list # << >> /\ sched_list[1].delay = 0
          /\ Grows(sched_list[1].q, sched_list'[1].q, ev)

(* The youngest event is put into the queue. *)
LEMMA AddedKeeps ==
  ASSUME FullInv, IInv', NEW ev \in Event, Added(ev), ev.id = nsched',
         ev.region \in Queues, ev.push => ev.region = "active",
         ev.at = schedule_time + ev.delay, ev.ro = (phase = "rosync"),
         Placed < ev.id, call' = NoCall,
         UNCHANGED <<running, phase, schedule_time, lost, sched_error>>
  PROVE  OrderInv'
<1>0. IInv /\ OrderInv
  BY DEF FullInv
<1>1. /\ \A i \in 1..Len(sched_list) : Ordered(sched_list[i].q)
      /\ Numbered /\ RosyncOnly /\ StartsLate /\ Waits /\ LossExplained
  BY <1>0, OrderParts DEF CellsOrdered, Ordered
<1>2. /\ Len(sched_list) \in Nat /\ (sched_list # << >> => 1 \in 1..Len(sched_list))
      /\ \A i \in 1..Len(sched_list) : sched_list[i].q \in QueueSet
  BY <1>0, CellFacts
<1>3. /\ Len(sched_list') \in Nat /\ (sched_list' # << >> => 1 \in 1..Len(sched_list'))
      /\ \A i \in 1..Len(sched_list') :
           /\ sched_list'[i].q \in QueueSet
           /\ \A r \in Queues : \A k \in 1..Len(sched_list'[i].q[r]) :
                sched_list'[i].q[r][k].at = sched_list'[i].at
      /\ sched_list' # << >> => sched_list'[1].at = schedule_time' + sched_list'[1].delay
  <2>1. (IInv =>
    /\ Len(sched_list) \in Nat /\ (sched_list # << >> => 1 \in 1..Len(sched_list))
    /\ \A i \in 1..Len(sched_list) :
         /\ sched_list[i].q \in QueueSet /\ sched_list[i].at \in Nat
         /\ i # 1 => sched_list[1].at < sched_list[i].at
         /\ \A r \in Queues : \A k \in 1..Len(sched_list[i].q[r]) :
              /\ sched_list[i].q[r][k].at = sched_list[i].at
              /\ sched_list[i].q[r][k].region \in Queues
    /\ sched_list # << >> => sched_list[1].at = schedule_time + sched_list[1].delay)'
    BY CellFacts, PTL
  <2> QED BY <2>1
<1>n. /\ nsched \in Nat /\ Placed \in Int /\ ev.id \in Nat /\ Placed' = ev.id
      /\ schedule_time \in Nat /\ ev.delay \in Nat
  BY <1>0 DEF IInv, TypeOK, Placed, Event
<1>4. ASSUME NEW i \in 1..Len(sched_list)
      PROVE  \A r \in Queues : \A k \in 1..Len(sched_list[i].q[r]) :
               sched_list[i].q[r][k].id < ev.id /\ sched_list[i].q[r][k].id \in Nat
  <2>1. \A r \in Queues : \A k \in 1..Len(sched_list[i].q[r]) :
          sched_list[i].q[r][k].id \in Nat
    BY <1>2, QueueTypes
  <2>2. \A r \in Queues : \A k \in 1..Len(sched_list[i].q[r]) :
          sched_list[i].q[r][k].id <= Placed
    BY <1>1 DEF Numbered, AllUpTo
  <2> QED BY <1>n, <2>1, <2>2
<1>5. ASSUME NEW i \in 1..Len(sched_list), NEW q2, Grows(sched_list[i].q, q2, ev)
      PROVE  /\ Ordered(q2)
             /\ \A r \in Queues : \A k \in 1..Len(q2[r]) :
                  \/ r = ev.region /\ q2[r][k] = ev
                  \/ \E j \in 1..Len(sched_list[i].q[r]) : q2[r][k] = sched_list[i].q[r][j]
  <2> DEFINE q == sched_list[i].q
  <2>1. q \in QueueSet /\ Ordered(q) /\ Grows(q, q2, ev)
        /\ \A r \in Queues : \A k \in 1..Len(q[r]) : q[r][k].id < ev.id
    BY <1>1, <1>2, <1>4, <1>5
  <2> HIDE DEF q
  <2>2. /\ Ordered(q2)
        /\ \A r \in Queues : \A k \in 1..Len(q2[r]) :
             \/ r = ev.region /\ q2[r][k] = ev
             \/ \E j \in 1..Len(q[r]) : q2[r][k] = q[r][j]
    BY <2>1, GrowsOrdered
  <2> QED BY <2>2 DEF q
<1>6. /\ Ordered(Alone(ev))
      /\ \A r \in Queues : \A k \in 1..Len(Alone(ev)[r]) :
           r = ev.region /\ Alone(ev)[r][k] = ev
  BY AloneOrdered
<1>7. \A i \in 1..Len(sched_list') : Ordered(sched_list'[i].q)
  BY <1>5, <1>6 DEF Added
<1>8. ASSUME NEW i \in 1..Len(sched_list'), NEW r \in Queues, NEW k \in 1..Len(sched_list'[i].q[r])
      PROVE  \/ r = ev.region /\ sched_list'[i].q[r][k] = ev
             \/ \E j \in 1..Len(sched_list) : \E m \in 1..Len(sched_list[j].q[r]) :
                  sched_list'[i].q[r][k] = sched_list[j].q[r][m]
  <2>1. CASE sched_list'[i].q = Alone(ev)
    BY <1>6, <2>1
  <2>2. ASSUME NEW j \in 1..Len(sched_list), Grows(sched_list[j].q, sched_list'[i].q, ev)
        PROVE  \/ r = ev.region /\ sched_list'[i].q[r][k] = ev
               \/ \E m \in 1..Len(sched_list[j].q[r]) :
                    sched_list'[i].q[r][k] = sched_list[j].q[r][m]
    BY <1>5, <2>2
  <2> QED BY <2>1, <2>2 DEF Added
<1>9. ASSUME sched_list' # << >>, sched_list'[1].delay = 0,
             NEW r \in Queues, NEW k \in 1..Len(sched_list'[1].q[r])
      PROVE  \/ sched_list'[1].q[r][k] = ev /\ ev.delay = 0
             \/ /\ sched_list # << >> /\ sched_list[1].delay = 0
                /\ \E m \in 1..Len(sched_list[1].q[r]) :
                     sched_list'[1].q[r][k] = sched_list[1].q[r][m]
  <2>0. sched_list'[1].q[r][k].at = schedule_time
    BY <1>3, <1>9, <1>n
  <2>1. sched_list'[1].q[r][k] = ev => ev.delay = 0
    BY <1>n, <2>0
  <2>2. CASE sched_list'[1].q = Alone(ev)
    BY <1>6, <2>1, <2>2
  <2>3. CASE /\ sched_list # << >> /\ sched_list[1].delay = 0
             /\ Grows(sched_list[1].q, sched_list'[1].q, ev)
    BY <1>2, <1>5, <2>1, <2>3
  <2> QED BY <1>9, <2>2, <2>3 DEF Added
<1>10. Numbered'
  <2>1. \A i \in 1..Len(sched_list') : \A r \in Queues : AllUpTo(sched_list'[i].q[r], Placed')
    <3> SUFFICES ASSUME NEW i \in 1..Len(sched_list'), NEW r \in Queues,
                        NEW k \in 1..Len(sched_list'[i].q[r])
                 PROVE  sched_list'[i].q[r][k].id <= Placed'
      BY DEF AllUpTo
    <3>1. CASE sched_list'[i].q[r][k] = ev
      BY <1>n, <3>1
    <3>2. ASSUME NEW j \in 1..Len(sched_list), NEW m \in 1..Len(sched_list[j].q[r]),
                 sched_list'[i].q[r][k] = sched_list[j].q[r][m]
          PROVE  sched_list'[i].q[r][k].id <= Placed'
      <4>1. sched_list[j].q[r][m].id < ev.id /\ sched_list[j].q[r][m].id \in Nat
        BY <1>4
      <4> QED BY <1>n, <3>2, <4>1
    <3> QED BY <1>8, <3>1, <3>2
  <2>2. running' # NoEvent /\ running'.region \in Queues => running'.id <= Placed'
    <3> SUFFICES ASSUME running # NoEvent, running.region \in Queues
                 PROVE  running.id <= ev.id
      BY <1>n
    <3>1. running \in Event
      BY <1>0 DEF IInv, TypeOK
    <3>2. running.id \in Nat
      BY <3>1, QueueTypes
    <3>3. running.id <= Placed
      BY <1>1 DEF Numbered
    <3> QED BY <1>n, <3>2, <3>3
  <2> QED BY <2>1, <2>2 DEF Numbered
<1>11. RosyncOnly'
  <2>1. ASSUME phase = "rosync", NEW r \in {"active"} \cup Promoted,
               NEW k \in 1..Len(sched_list'[1].q[r])
        PROVE  sched_list'[1].q[r][k].ro /\ sched_list'[1].q[r][k].delay = 0
    <3>1. r \in Queues
      BY DEF Promoted, Queues
    <3>2. sched_list' # << >> /\ sched_list'[1].delay = 0
      BY <2>1 DEF IInv, InCurrentCell
    <3>3. CASE sched_list'[1].q[r][k] = ev /\ ev.delay = 0
      BY <2>1, <3>3
    <3>4. CASE \E m \in 1..Len(sched_list[1].q[r]) :
                 sched_list'[1].q[r][k] = sched_list[1].q[r][m]
      BY <1>1, <2>1, <3>4 DEF RosyncOnly
    <3> QED BY <1>9, <3>1, <3>2, <3>3, <3>4
  <2> QED BY <1>1, <2>1 DEF RosyncOnly
<1>12. StartsLate'
  <2> SUFFICES ASSUME sched_list' # << >>, sched_list'[1].delay = 0,
                      phase \notin {"nextsim", "start"},
                      NEW k \in 1..Len(sched_list'[1].q["start"])
               PROVE  sched_list'[1].q["start"][k].delay = 0
    BY DEF StartsLate
  <2>1. "start" \in Queues
    BY DEF Queues
  <2> QED BY <1>1, <1>9, <2>1 DEF StartsLate
<1>13. Waits'
  <2> SUFFICES ASSUME running # NoEvent, NEW i \in 1..Len(sched_list'), NEW r \in Queues,
                      NEW k \in 1..Len(sched_list'[i].q[r]),
                      sched_list'[i].q[r][k].at = running.at
               PROVE  Behind(running, sched_list'[i].q[r][k])
    BY DEF Waits
  <2>1. CASE sched_list'[i].q[r][k] = ev
    <3>1. running \in Event
      BY <1>0 DEF IInv, TypeOK
    <3>2. CASE running.region \in Queues
      <4>1. running.id < ev.id
        BY <1>1, <1>n, <3>1, <3>2, QueueTypes DEF Numbered
      <4> QED BY <2>1, <3>1, <4>1, <1>n, QueueTypes DEF Behind
    <3>3. CASE running.region \in Lists
      <4>1. Rank[running.region] = 0
        BY <3>3, Ranks DEF Lists
      <4>2. ev.region # running.region
        BY <3>3 DEF Lists, Queues
      <4> QED BY <2>1, <4>1, <4>2 DEF Behind
    <3>4. running.region \in Queues \cup Lists
      BY <3>1 DEF Event
    <3> QED BY <3>2, <3>3, <3>4
  <2>2. CASE \E j \in 1..Len(sched_list) : \E m \in 1..Len(sched_list[j].q[r]) :
               sched_list'[i].q[r][k] = sched_list[j].q[r][m]
    BY <1>1, <2>2 DEF Waits
  <2> QED BY <1>8, <2>1, <2>2
<1>14. LossExplained'
  BY <1>1 DEF LossExplained
<1>15. OrderInv' <=>
    /\ CellsOrdered' /\ Numbered' /\ RosyncOnly' /\ StartsLate' /\ Waits' /\ LossExplained'
  BY OrderParts, PTL
<1>16. CellsOrdered'
  BY <1>7 DEF CellsOrdered, Ordered
<1> QED BY <1>10, <1>11, <1>12, <1>13, <1>14, <1>15, <1>16

(* The ways in which an event gets into the queue. *)
LEMMA NewCellAdds ==
  ASSUME sched_list \in Seq(Cell), NEW ev \in Event, ev.region \in Queues, NEW d \in Nat,
         \/ sched_list = << >> /\ sched_list' = <<CellWith(d, ev)>>
         \/ \E i \in 1..Len(sched_list) :
              sched_list[i].delay > d /\ sched_list' = InsertBefore(i, CellWith(d, ev))
         \/ sched_list # << >> /\ sched_list' = Append(sched_list, CellWith(d, ev))
  PROVE  Added(ev)
<1> DEFINE c == CellWith(d, ev)
           n == Len(sched_list)
<1>0. n \in Nat /\ \A k \in 1..n : sched_list[k] \in Cell /\ sched_list[k].delay \in Nat
  <2>1. \A k \in 1..n : sched_list[k] \in Cell
    BY ElementOfSeq
  <2> QED BY <2>1, LenProperties DEF Cell
<1>1. c \in Cell /\ c.delay = d /\ c.q = Alone(ev)
  <2>1. c \in Cell /\ c.delay = d
    BY CellWithOk
  <2> QED BY <2>1 DEF CellWith, Alone
<1>n. n = Len(sched_list) /\ c = CellWith(d, ev)
  OBVIOUS
<1> HIDE DEF c, n
<1>2. CASE sched_list = << >> /\ sched_list' = <<c>>
  <2>1. Len(sched_list') = 1 /\ sched_list'[1] = c
    BY <1>2
  <2> QED BY <1>1, <2>1 DEF Added
<1>3. ASSUME NEW i \in 1..n, sched_list[i].delay > d, sched_list' = InsertBefore(i, c)
      PROVE  Added(ev)
  <2>1. c.delay <= sched_list[i].delay
    BY <1>0, <1>1, <1>3
  <2>2. /\ Len(sched_list') = n + 1
        /\ \A k \in 1..n + 1 :
              /\ k < i => sched_list'[k] = sched_list[k]
              /\ k = i => sched_list'[k] = c
              /\ k = i + 1 => sched_list'[k] = [sched_list[i] EXCEPT !.delay = @ - c.delay]
              /\ k > i + 1 => sched_list'[k] = sched_list[k - 1]
    BY <1>1, <1>3, <1>n, <2>1, InsertBeforeOk
  <2>3. [sched_list[i] EXCEPT !.delay = @ - c.delay].q = sched_list[i].q
    BY <1>0 DEF Cell
  <2>4. ASSUME NEW k \in 1..n + 1
        PROVE  \/ sched_list'[k].q = Alone(ev)
               \/ \E j \in 1..n : sched_list'[k].q = sched_list[j].q /\ (k = 1 => j = 1)
                                  /\ (k = 1 => sched_list'[k].delay = sched_list[j].delay)
    <3>1. CASE k < i
      <4>1. k \in 1..n /\ sched_list'[k] = sched_list[k]
        BY <1>0, <2>2, <3>1
      <4> QED BY <4>1
    <3>2. CASE k = i
      BY <1>1, <2>2, <3>2
    <3>3. CASE k = i + 1
      <4>1. sched_list'[k] = [sched_list[i] EXCEPT !.delay = @ - c.delay]
        BY <2>2, <3>3, Zenon
      <4>2. k # 1
        BY <3>3
      <4> QED BY <2>3, <4>1, <4>2
    <3>4. CASE k > i + 1
      <4>1. k - 1 \in 1..n /\ k # 1 /\ sched_list'[k] = sched_list[k - 1]
        BY <1>0, <2>2, <3>4
      <4> QED BY <4>1
    <3> QED BY <1>0, <3>1, <3>2, <3>3, <3>4
  <2>5. 1 \in 1..n + 1 /\ sched_list # << >>
    BY <1>0, <1>3, <1>n
  <2>6. \A k \in 1..n + 1 :
          \/ sched_list'[k].q = Alone(ev)
          \/ \E j \in 1..n : Grows(sched_list[j].q, sched_list'[k].q, ev)
    BY <2>4, Zenon DEF Grows
  <2>7. \/ sched_list'[1].q = Alone(ev)
        \/ sched_list'[1].delay = sched_list[1].delay
           /\ Grows(sched_list[1].q, sched_list'[1].q, ev)
    BY <2>4, <2>5, Zenon DEF Grows
  <2> QED BY <1>n, <2>2, <2>5, <2>6, <2>7 DEF Added
<1>4. CASE sched_list # << >> /\ sched_list' = Append(sched_list, c)
  <2>1. /\ Len(sched_list') = n + 1 /\ sched_list'[n + 1] = c
        /\ \A k \in 1..n : sched_list'[k] = sched_list[k]
    BY <1>1, <1>4, <1>n, AppendProperties
  <2>2. 1 \in 1..n
    BY <1>0, <1>4, <1>n, EmptySeq
  <2>3. ASSUME NEW k \in 1..n + 1
        PROVE  \/ sched_list'[k].q = Alone(ev)
               \/ k \in 1..n /\ sched_list'[k].q = sched_list[k].q
    <3>1. CASE k = n + 1
      <4>1. sched_list'[k] = c
        BY <2>1, <3>1
      <4> QED BY <1>1, <4>1
    <3>2. CASE k # n + 1
      <4>1. k \in 1..n
        BY <1>0, <3>2
      <4> QED BY <2>1, <4>1
    <3> QED BY <3>1, <3>2
  <2> QED BY <1>4, <1>n, <2>1, <2>2, <2>3 DEF Added, Grows
<1> QED BY <1>2, <1>3, <1>4, <1>n

LEMMA OldCellAdds ==
  ASSUME sched_list \in Seq(Cell), NEW ev \in Event, ev.region \in Queues,
         NEW i \in 1..Len(sched_list), NEW Q \in QueueSet, Grows(sched_list[i].q, Q, ev),
         sched_list' = [sched_list EXCEPT ![i] = [@ EXCEPT !.q = Q]]
  PROVE  Added(ev)
<1> DEFINE n == Len(sched_list)
<1>0. n \in Nat /\ \A k \in 1..n : sched_list[k] \in Cell
  BY ElementOfSeq, LenProperties
<1>1. /\ [sched_list[i] EXCEPT !.q = Q] \in Cell
      /\ [sched_list[i] EXCEPT !.q = Q].q = Q
      /\ [sched_list[i] EXCEPT !.q = Q].delay = sched_list[i].delay
  BY <1>0 DEF Cell, QueueSet
<1>2. /\ Len(sched_list') = n
      /\ \A k \in 1..n : k # i => sched_list'[k] = sched_list[k]
      /\ sched_list'[i] = [sched_list[i] EXCEPT !.q = Q]
  BY <1>0, <1>1, ExceptSeq
<1>3. \A k \in 1..n : /\ Grows(sched_list[k].q, sched_list'[k].q, ev)
                      /\ sched_list'[k].delay = sched_list[k].delay
  BY <1>1, <1>2 DEF Grows
<1>4. 1 \in 1..n /\ sched_list # << >>
  BY <1>0, EmptySeq
<1> QED BY <1>2, <1>3, <1>4 DEF Added

(* schedule_event_ and schedule_event_push_ add the event, or begin to     *)
(* search its place.                                                       *)
LEMMA ScheduleAdds ==
  ASSUME IInv, call = NoCall, NEW ev \in Event, ev.region \in Queues, NEW d \in Nat,
         schedule_event_(ev, d)
  PROVE  \/ Added(ev) /\ call' = NoCall
         \/ /\ sched_list # << >> /\ sched_list[1].delay <= d
            /\ call' = [ev |-> ev, delay |-> d, ctim |-> 1]
            /\ UNCHANGED sched_list
<1>1. sched_list \in Seq(Cell) /\ (sched_list # << >> => 1 \in 1..Len(sched_list))
  BY CellFacts DEF IInv, TypeOK
<1>2. CASE sched_list = << >> /\ sched_list' = <<CellWith(d, ev)>> /\ UNCHANGED call
  BY <1>1, <1>2, NewCellAdds
<1>3. CASE /\ sched_list # << >> /\ sched_list[1].delay > d
           /\ sched_list' = InsertBefore(1, CellWith(d, ev)) /\ UNCHANGED call
  BY <1>1, <1>3, NewCellAdds
<1> QED BY <1>2, <1>3 DEF schedule_event_

LEMMA PushAdds ==
  ASSUME IInv, call = NoCall, NEW ev \in Event, ev.region = "active", ev.push,
         schedule_event_push_(ev)
  PROVE  Added(ev) /\ call' = NoCall
<1>a. "active" \in Queues
  BY DEF Queues
<1>1. CASE (sched_list # << >> => sched_list[1].delay > 0) /\ schedule_event_(ev, 0)
  <2>1. sched_list # << >> => ~ (sched_list[1].delay <= 0)
    <3> HAVE sched_list # << >>
    <3>1. sched_list[1].delay \in Nat
      BY IInvParts, CurrentCell
    <3> QED BY <1>1, <3>1
  <2>2. \/ Added(ev) /\ call' = NoCall
        \/ sched_list # << >> /\ sched_list[1].delay <= 0
    BY <1>a, <1>1, ScheduleAdds
  <2> QED BY <2>1, <2>2
<1>2. CASE /\ sched_list # << >> /\ sched_list[1].delay = 0
           /\ sched_list' = [sched_list EXCEPT ![1].q["active"] = <<ev>> \o @]
           /\ UNCHANGED call
  <2> DEFINE q == sched_list[1].q
             Q == [q EXCEPT !["active"] = <<ev>> \o @]
  <2>1. 1 \in 1..Len(sched_list) /\ q \in QueueSet /\ sched_list \in Seq(Cell)
    BY <1>2, CellFacts DEF IInv, TypeOK
  <2>2. <<ev>> \o q["active"] \in Seq(Event)
    <3>1. q["active"] \in Seq(Event)
      BY <1>a, <2>1 DEF QueueSet
    <3> QED BY <3>1, FrontPlaces
  <2>3. Q \in QueueSet
    BY <2>1, <2>2 DEF QueueSet
  <2>4. Grows(q, Q, ev)
    BY DEF Grows
  <2>5. sched_list' = [sched_list EXCEPT ![1] = [@ EXCEPT !.q = Q]]
    BY <1>2
  <2> HIDE DEF Q
  <2>6. Added(ev)
    BY <1>a, <2>1, <2>3, <2>4, <2>5, OldCellAdds
  <2> QED BY <1>2, <2>6
<1> QED BY <1>1, <1>2 DEF schedule_event_push_

LEMMA PlaceAdds ==
  ASSUME IInv, SchedulePlace, ~ call.ev.push
  PROVE  Added(call.ev)
<1> DEFINE i == call.ctim
           d == call.delay
           ev == call.ev
<1>1. /\ call \in Search /\ sched_list \in Seq(Cell) /\ i \in 1..Len(sched_list)
      /\ ev.region \in Queues
  BY DEF IInv, TypeOK, SearchOk, SchedulePlace
<1>2. ev \in Event /\ d \in Nat
  BY <1>1 DEF Search
<1>3. /\ sched_list[i].q \in QueueSet /\ sched_list[i].delay \in Nat /\ sched_list # << >>
  <2>1. sched_list[i] \in Cell /\ sched_list # << >>
    BY <1>1, ElementOfSeq
  <2> QED BY <2>1 DEF Cell, QueueSet
<1> HIDE DEF i, d, ev
<1>4. CASE sched_list[i].delay > d /\ sched_list' = InsertBefore(i, CellWith(d, ev))
  <2>1. \E j \in 1..Len(sched_list) :
          sched_list[j].delay > d /\ sched_list' = InsertBefore(j, CellWith(d, ev))
    BY <1>1, <1>4
  <2>2. Added(ev)
    BY <1>1, <1>2, <2>1, NewCellAdds
  <2> QED BY <2>2 DEF ev
<1>5. CASE sched_list[i].delay = d /\ sched_list' = AppendTo(i, ev)
  <2> DEFINE q == sched_list[i].q
             Q == [q EXCEPT ![ev.region] = Append(@, ev)]
  <2>1. Append(q[ev.region], ev) \in Seq(Event)
    <3>1. q[ev.region] \in Seq(Event)
      BY <1>1, <1>3 DEF QueueSet
    <3> QED BY <1>2, <3>1, AppendProperties
  <2>2. Q \in QueueSet
    BY <1>3, <2>1 DEF QueueSet
  <2>3. Grows(q, Q, ev)
    BY DEF Grows, ev
  <2>4. sched_list' = [sched_list EXCEPT ![i] = [@ EXCEPT !.q = Q]]
    BY <1>5 DEF AppendTo
  <2> HIDE DEF Q
  <2>5. Added(ev)
    BY <1>1, <1>2, <2>2, <2>3, <2>4, OldCellAdds
  <2> QED BY <2>5 DEF ev
<1>6. CASE /\ sched_list[i].delay < d /\ i = Len(sched_list)
           /\ sched_list' = Append(sched_list, CellWith(d - sched_list[i].delay, ev))
  <2>1. d - sched_list[i].delay \in Nat
    BY <1>2, <1>3, <1>6
  <2>2. Added(ev)
    BY <1>1, <1>2, <1>3, <1>6, <2>1, NewCellAdds
  <2> QED BY <2>2 DEF ev
<1> QED BY <1>4, <1>5, <1>6 DEF SchedulePlace, i, d, ev

(* An event is selected from the current cell. *)
LEMMA SelectKeeps ==
  ASSUME FullInv, IInv', call = NoCall, sched_list # << >>, sched_list[1].delay = 0,
         NEW Q \in QueueSet, Ordered(Q),
         sched_list' = [sched_list EXCEPT ![1] = [@ EXCEPT !.q = Q]],
         \A r \in Queues : \A k \in 1..Len(Q[r]) :
           /\ Behind(running', Q[r][k])
           /\ \E x \in Queues : \E j \in 1..Len(sched_list[1].q[x]) :
                Q[r][k] = sched_list[1].q[x][j] /\ (phase' = "rosync" \/ r = "start" => x = r),
         \E x \in Queues : \E j \in 1..Len(sched_list[1].q[x]) : running' = sched_list[1].q[x][j],
         running'.region = "rosync" => phase' = "rosync",
         phase' = phase \/ phase' = "loop",
         phase \in {"nextsim", "start"} => phase' = phase,
         UNCHANGED <<call, nsched, schedule_time, lost, sched_error>>
  PROVE  OrderInv'
<1> DEFINE q == sched_list[1].q
           n == Len(sched_list)
<1>0. IInv /\ OrderInv
  BY DEF FullInv
<1>1. /\ \A i \in 1..n : Ordered(sched_list[i].q)
      /\ Numbered /\ RosyncOnly /\ StartsLate /\ Waits /\ LossExplained
  BY <1>0, OrderParts DEF CellsOrdered, Ordered
<1>2. /\ n \in Nat /\ 1 \in 1..n
      /\ \A i \in 1..n :
           /\ sched_list[i].q \in QueueSet /\ sched_list[i].at \in Nat
           /\ i # 1 => sched_list[1].at < sched_list[i].at
           /\ \A r \in Queues : \A k \in 1..Len(sched_list[i].q[r]) :
                sched_list[i].q[r][k].at = sched_list[i].at
  BY <1>0, CellFacts
<1>3. /\ Len(sched_list') = n
      /\ \A k \in 1..n : k # 1 => sched_list'[k] = sched_list[k]
      /\ sched_list'[1].q = Q /\ sched_list'[1].delay = 0
  <2>1. sched_list \in Seq(Cell) /\ sched_list[1] \in Cell
    BY <1>0, <1>2, ElementOfSeq DEF IInv, TypeOK
  <2>2. /\ [sched_list[1] EXCEPT !.q = Q] \in Cell /\ [sched_list[1] EXCEPT !.q = Q].q = Q
        /\ [sched_list[1] EXCEPT !.q = Q].delay = sched_list[1].delay
    BY <2>1 DEF Cell, QueueSet
  <2> QED BY <1>2, <2>1, <2>2, ExceptSeq
<1>4. \A i \in 1..n : Ordered(sched_list'[i].q)
  BY <1>1, <1>3
<1>5. \A i \in 1..n : \A r \in Queues : \A k \in 1..Len(sched_list[i].q[r]) :
        sched_list[i].q[r][k].id <= nsched
  BY <1>1 DEF Numbered, AllUpTo, Placed
<1>6. Numbered'
  <2>1. \A i \in 1..n : \A r \in Queues : \A k \in 1..Len(sched_list'[i].q[r]) :
          sched_list'[i].q[r][k].id <= nsched
    <3> SUFFICES ASSUME NEW i \in 1..n, NEW r \in Queues, NEW k \in 1..Len(sched_list'[i].q[r])
                 PROVE  sched_list'[i].q[r][k].id <= nsched
      OBVIOUS
    <3>1. CASE i = 1
      <4>1. sched_list'[i].q = Q
        BY <1>3, <3>1
      <4>2. k \in 1..Len(Q[r])
        BY <4>1, Zenon
      <4>3. PICK x \in Queues : \E j \in 1..Len(q[x]) : Q[r][k] = q[x][j]
        BY <4>2, Zenon
      <4>4. PICK j \in 1..Len(q[x]) : Q[r][k] = q[x][j]
        BY <4>3
      <4>5. q[x][j].id <= nsched
        BY <1>2, <1>5, Zenon
      <4> QED BY <4>1, <4>4, <4>5, Zenon
    <3>2. CASE i # 1
      BY <1>3, <1>5, <3>2
    <3> QED BY <3>1, <3>2
  <2>2. running'.id <= nsched
    BY <1>2, <1>5
  <2> QED BY <1>3, <2>1, <2>2 DEF Numbered, AllUpTo, Placed
<1>7. RosyncOnly'
  <2>0. phase = "rosync" => \A r \in {"active"} \cup Promoted : \A j \in 1..Len(q[r]) :
          q[r][j].ro /\ q[r][j].delay = 0
    BY <1>1 DEF RosyncOnly
  <2>1. ASSUME phase' = "rosync", NEW r \in {"active"} \cup Promoted, NEW k \in 1..Len(Q[r])
        PROVE  Q[r][k].ro /\ Q[r][k].delay = 0
    <3>1. r \in Queues /\ phase = "rosync"
      BY <2>1 DEF Promoted, Queues
    <3>2. PICK x \in Queues : \E j \in 1..Len(q[x]) :
            Q[r][k] = q[x][j] /\ (phase' = "rosync" \/ r = "start" => x = r)
      BY <3>1, Zenon
    <3>3. x = r
      BY <2>1, <3>2
    <3>4. PICK j \in 1..Len(q[x]) : Q[r][k] = q[x][j]
      BY <3>2
    <3>5. q[x][j].ro /\ q[x][j].delay = 0
      BY <2>0, <3>1, <3>3, Zenon
    <3> QED BY <3>4, <3>5, Zenon
  <2> QED BY <1>3, <2>1 DEF RosyncOnly
<1>8. StartsLate'
  <2> SUFFICES ASSUME phase' \notin {"nextsim", "start"}, NEW k \in 1..Len(Q["start"])
               PROVE  Q["start"][k].delay = 0
    BY <1>3 DEF StartsLate
  <2>1. "start" \in Queues /\ phase \notin {"nextsim", "start"}
    BY DEF Queues
  <2>2. PICK x \in Queues : \E j \in 1..Len(q[x]) :
          Q["start"][k] = q[x][j] /\ (phase' = "rosync" \/ "start" = "start" => x = "start")
    BY <2>1, Zenon
  <2>3. x = "start"
    BY <2>2
  <2>4. PICK j \in 1..Len(q[x]) : Q["start"][k] = q[x][j]
    BY <2>2
  <2>5. \A m \in 1..Len(q["start"]) : q["start"][m].delay = 0
    BY <1>1, <2>1 DEF StartsLate
  <2>6. q[x][j].delay = 0
    BY <2>3, <2>5, Zenon
  <2> QED BY <2>4, <2>6, Zenon
<1>9. Waits'
  <2> SUFFICES ASSUME NEW i \in 1..n, NEW r \in Queues, NEW k \in 1..Len(sched_list'[i].q[r]),
                      sched_list'[i].q[r][k].at = running'.at
               PROVE  Behind(running', sched_list'[i].q[r][k])
    BY <1>3 DEF Waits
  <2>1. CASE i = 1
    BY <1>3, <2>1
  <2>2. CASE i # 1
    <3>1. running'.at = sched_list[1].at
      BY <1>2
    <3>2. sched_list'[i].q[r][k].at = sched_list[i].at /\ sched_list[1].at < sched_list[i].at
      BY <1>2, <1>3, <2>2
    <3>3. sched_list[1].at \in Nat /\ sched_list[i].at \in Nat
      BY <1>2
    <3> QED BY <3>1, <3>2, <3>3
  <2> QED BY <2>1, <2>2
<1>10. LossExplained'
  BY <1>1 DEF LossExplained
<1>11. CellsOrdered'
  BY <1>3, <1>4 DEF CellsOrdered, Ordered
<1>12. OrderInv' <=>
    /\ CellsOrdered' /\ Numbered' /\ RosyncOnly' /\ StartsLate' /\ Waits' /\ LossExplained'
  BY OrderParts, PTL
<1> QED BY <1>6, <1>7, <1>8, <1>9, <1>10, <1>11, <1>12

(* The two ways of selecting one. *)
LEMMA TakeKeeps ==
  ASSUME FullInv, IInv', call = NoCall, sched_list # << >>, sched_list[1].delay = 0,
         NEW R \in Queues, sched_list[1].q[R] # << >>,
         sched_list' = [sched_list EXCEPT ![1].q[R] = Tail(@)],
         running' = Head(sched_list[1].q[R]),
         \A r \in Queues : \A j \in 1..Len(sched_list[1].q[r]) :
           (r = R => j > 1) => Behind(running', sched_list[1].q[r][j]),
         running'.region = "rosync" => phase' = "rosync",
         phase' = phase \/ phase' = "loop",
         phase \in {"nextsim", "start"} => phase' = phase,
         UNCHANGED <<call, nsched, schedule_time, lost, sched_error>>
  PROVE  OrderInv'
<1> DEFINE q == sched_list[1].q
           Q == Took(q, R)
<1>1. q \in QueueSet /\ Ordered(q)
  <2>1. IInv /\ OrderInv
    BY DEF FullInv
  <2>2. q \in QueueSet /\ 1 \in 1..Len(sched_list)
    BY <2>1, CellFacts
  <2> QED BY <2>1, <2>2 DEF OrderInv, CellsOrdered, Ordered
<1>2. sched_list' = [sched_list EXCEPT ![1] = [@ EXCEPT !.q = Q]]
  BY DEF Took, MadeActive
<1>3. /\ Ordered(Q)
      /\ \A r \in Queues : \A k \in 1..Len(Q[r]) :
           \E j \in 1..Len(q[r]) : Q[r][k] = q[r][j] /\ (r = R => j > 1)
      /\ Head(q[R]) = q[R][1] /\ 1 \in 1..Len(q[R])
  <2> HIDE DEF q
  <2>1. q[R] # << >>
    BY DEF q
  <2> QED BY <1>1, <2>1, TakeOrdered
<1>4. Q \in QueueSet
  <2>1. Tail(q[R]) \in Seq(Event)
    <3>1. q[R] \in Seq(Event) /\ q[R] # << >>
      BY <1>1 DEF QueueSet
    <3> QED BY <3>1, TailPlaces
  <2> QED BY <1>1, <2>1 DEF QueueSet, Took, MadeActive
<1> HIDE DEF Q
<1>5. ASSUME NEW r \in Queues, NEW k \in 1..Len(Q[r])
      PROVE  /\ Behind(running', Q[r][k])
             /\ \E x \in Queues : \E j \in 1..Len(q[x]) :
                  Q[r][k] = q[x][j] /\ (phase' = "rosync" \/ r = "start" => x = r)
  <2>1. PICK j \in 1..Len(q[r]) : Q[r][k] = q[r][j] /\ (r = R => j > 1)
    BY <1>3
  <2> QED BY <2>1
<1>6. \E x \in Queues : \E j \in 1..Len(q[x]) : running' = q[x][j]
  BY <1>3
<1> QED BY <1>1, <1>2, <1>3, <1>4, <1>5, <1>6, SelectKeeps

LEMMA PromoteKeeps ==
  ASSUME FullInv, IInv', call = NoCall, sched_list # << >>, sched_list[1].delay = 0,
         NEW R \in Promoted, sched_list[1].q[R] # << >>, sched_list[1].q["active"] = << >>,
         \A x \in Promoted : Rank[x] < Rank[R] => sched_list[1].q[x] = << >>,
         sched_list' = [sched_list EXCEPT
                          ![1].q = [sched_list[1].q EXCEPT ![R] = << >>,
                                      !["active"] = Tail(sched_list[1].q[R])]],
         running' = Head(sched_list[1].q[R]),
         phase' = "loop", phase \notin {"nextsim", "start"},
         UNCHANGED <<call, nsched, schedule_time, lost, sched_error>>
  PROVE  OrderInv' /\ \A r \in Queues : \A k \in 1..Len(sched_list[1].q[r]) :
                        ~ sched_list[1].q[r][k].push
<1> DEFINE q == sched_list[1].q
           Q == MadeActive(q, R)
<1>a. R \in Queues /\ "active" \in Queues /\ R # "rosync"
  BY DEF Promoted, Queues
<1>1. q \in QueueSet /\ Ordered(q)
  <2>1. IInv /\ OrderInv
    BY DEF FullInv
  <2>2. q \in QueueSet /\ 1 \in 1..Len(sched_list)
    BY <2>1, CellFacts
  <2> QED BY <2>1, <2>2 DEF OrderInv, CellsOrdered, Ordered
<1>2. sched_list' = [sched_list EXCEPT ![1] = [@ EXCEPT !.q = Q]]
  BY DEF Took, MadeActive
<1>3. /\ Ordered(Q)
      /\ running' = q[R][1] /\ 1 \in 1..Len(q[R]) /\ running'.region = R
      /\ \A r \in Queues : \A k \in 1..Len(Q[r]) :
           /\ Behind(running', Q[r][k])
           /\ \E x \in Queues : \E j \in 1..Len(q[x]) :
                 Q[r][k] = q[x][j] /\ (r # "active" => x = r)
      /\ \A r \in Queues : \A k \in 1..Len(q[r]) : ~ q[r][k].push
  <2> HIDE DEF q
  <2>1. /\ q[R] # << >> /\ q["active"] = << >> /\ running' = Head(q[R])
        /\ \A x \in Promoted : Rank[x] < Rank[R] => q[x] = << >>
    BY DEF q
  <2> QED BY <1>1, <2>1, PromoteOrdered
<1>4. Q \in QueueSet
  <2>1. Tail(q[R]) \in Seq(Event) /\ << >> \in Seq(Event)
    <3>1. q[R] \in Seq(Event) /\ q[R] # << >>
      BY <1>1, <1>a DEF QueueSet
    <3> QED BY <3>1, TailPlaces
  <2> QED BY <1>1, <2>1 DEF QueueSet, Took, MadeActive
<1> HIDE DEF Q
<1>5. ASSUME NEW r \in Queues, NEW k \in 1..Len(Q[r])
      PROVE  /\ Behind(running', Q[r][k])
             /\ \E x \in Queues : \E j \in 1..Len(q[x]) :
                  Q[r][k] = q[x][j] /\ (phase' = "rosync" \/ r = "start" => x = r)
  <2> HIDE DEF q
  <2>1. Behind(running', Q[r][k])
    BY <1>3, Zenon
  <2>2. PICK x \in Queues : \E j \in 1..Len(q[x]) : Q[r][k] = q[x][j] /\ (r # "active" => x = r)
    BY <1>3, Zenon
  <2>3. phase' = "rosync" \/ r = "start" => x = r
    BY <2>2
  <2> QED BY <2>1, <2>2, <2>3, Zenon
<1>6. \E x \in Queues : \E j \in 1..Len(q[x]) : running' = q[x][j]
  BY <1>3, <1>a
<1>7. OrderInv'
  BY <1>1, <1>2, <1>3, <1>4, <1>5, <1>6, <1>a, SelectKeeps
<1> QED BY <1>3, <1>7

-----------------------------------------------------------------------------
(* The invariant, step by step.                                            *)

LEMMA FullInvInit == Init => FullInv
<1> SUFFICES ASSUME Init PROVE OrderInv
  BY IInvInit DEF FullInv
<1>1. sched_list = << >> /\ Len(sched_list) = 0 /\ \A i : i \notin 1..0
  BY DEF Init
<1>2. CellsOrdered /\ Numbered /\ RosyncOnly /\ StartsLate /\ Waits /\ LossExplained
  BY <1>1 DEF Init, CellsOrdered, Numbered, RosyncOnly, StartsLate, Waits, LossExplained
<1> QED BY <1>2, OrderParts

(* The event has its number, but no place in a cell yet, or none at all. *)
LEMMA SearchBegins ==
  ASSUME FullInv, NEW ev, call = NoCall, call' # NoCall => call'.ev = ev,
         ev.id = nsched + 1, nsched' = nsched + 1, ~ ev.push,
         ev.at = schedule_time + ev.delay, ev.ro = (phase = "rosync"),
         UNCHANGED <<sched_list, running, phase, schedule_time, lost, sched_error>>
  PROVE  OrderInv'
<1>0. /\ CellsOrdered /\ Numbered /\ RosyncOnly /\ StartsLate /\ Waits /\ LossExplained
      /\ nsched \in Nat
  BY OrderParts DEF FullInv, IInv, TypeOK
<1>1. Placed = nsched /\ Placed' \in {nsched, nsched + 1}
  BY <1>0 DEF Placed
<1>2. Numbered'
  <2>1. ASSUME NEW i \in 1..Len(sched_list), NEW r \in Queues, NEW k \in 1..Len(sched_list[i].q[r])
        PROVE  sched_list[i].q[r][k].id <= Placed'
    <3>1. sched_list[i].q[r][k].id <= nsched
      BY <1>0, <1>1 DEF Numbered, AllUpTo
    <3>2. sched_list[i].q \in QueueSet
      BY CellFacts DEF FullInv
    <3>3. sched_list[i].q[r][k].id \in Nat
      BY <3>2, QueueTypes
    <3> QED BY <1>0, <1>1, <3>1, <3>3
  <2>2. ASSUME running # NoEvent, running.region \in Queues
        PROVE  running.id <= Placed'
    <3>1. running.id <= nsched
      BY <1>0, <1>1, <2>2 DEF Numbered
    <3>2. running.id \in Nat
      BY <2>2, QueueTypes DEF FullInv, IInv, TypeOK
    <3> QED BY <1>0, <1>1, <3>1, <3>2
  <2> QED BY <2>1, <2>2 DEF Numbered, AllUpTo
<1>3. CellsOrdered' /\ RosyncOnly' /\ StartsLate' /\ LossExplained'
  BY <1>0 DEF CellsOrdered, RosyncOnly, StartsLate, LossExplained
<1>4. Waits'
  BY <1>0 DEF Waits
<1>5. OrderInv' <=>
    /\ CellsOrdered' /\ Numbered' /\ RosyncOnly' /\ StartsLate' /\ Waits' /\ LossExplained'
  BY OrderParts, PTL
<1> QED BY <1>2, <1>3, <1>4, <1>5

LEMMA ScheduleOrder ==
  ASSUME FullInv, IInv', NEW r \in Regions, NEW d \in Delays, Schedule(r, d)
  PROVE  OrderInv'
<1> DEFINE ev == NewEvent(r, d, FALSE)
<1>1. /\ call = NoCall /\ nsched' = nsched + 1
      /\ schedule_event_(ev, d)
      /\ UNCHANGED <<running, phase, schedule_time, lost, sched_error>>
  BY DEF Schedule, CanSchedule, Executing, ghosts
<1>2. IInv /\ TypeOK /\ d \in Nat /\ r \in Queues /\ nsched \in Nat
  BY DEF FullInv, IInv, TypeOK
<1>3. /\ ev \in Event /\ ev.region = r /\ ev.at = schedule_time + d
  BY <1>2, NewEventType
<1>4. ev.id = nsched + 1 /\ ev.push = FALSE /\ ev.delay = d /\ ev.ro = (phase = "rosync")
  BY DEF NewEvent
<1> HIDE DEF ev
<1>5. \/ Added(ev) /\ call' = NoCall
      \/ /\ call' = [ev |-> ev, delay |-> d, ctim |-> 1]
         /\ UNCHANGED sched_list
  BY <1>1, <1>2, <1>3, ScheduleAdds
<1>6. CASE Added(ev) /\ call' = NoCall
  <2>1. Placed < ev.id
    BY <1>1, <1>2, <1>4 DEF Placed
  <2> QED BY <1>1, <1>2, <1>3, <1>4, <1>6, <2>1, AddedKeeps
<1>7. CASE call' = [ev |-> ev, delay |-> d, ctim |-> 1] /\ UNCHANGED sched_list
  BY <1>1, <1>3, <1>4, <1>7, SearchBegins
<1> QED BY <1>5, <1>6, <1>7

LEMMA PushOrder ==
  ASSUME FullInv, IInv', SchedulePush
  PROVE  OrderInv'
<1> DEFINE ev == NewEvent("active", 0, TRUE)
<1>1. /\ call = NoCall /\ nsched' = nsched + 1
      /\ schedule_event_push_(ev)
      /\ UNCHANGED <<running, phase, schedule_time, lost, sched_error>>
  BY DEF SchedulePush, CanSchedule, Executing, ghosts
<1>2. IInv /\ TypeOK /\ nsched \in Nat /\ "active" \in Queues
  BY DEF FullInv, IInv, TypeOK, Queues
<1>3. /\ ev \in Event /\ ev.region = "active" /\ ev.at = schedule_time + 0
  BY <1>2, NewEventType
<1>4. ev.id = nsched + 1 /\ ev.push = TRUE /\ ev.delay = 0 /\ ev.ro = (phase = "rosync")
  BY DEF NewEvent
<1> HIDE DEF ev
<1>5. Added(ev) /\ call' = NoCall
  BY <1>1, <1>2, <1>3, <1>4, PushAdds
<1>6. Placed < ev.id
  BY <1>1, <1>2, <1>4 DEF Placed
<1> QED BY <1>1, <1>2, <1>3, <1>4, <1>5, <1>6, AddedKeeps

LEMMA PlaceOrder ==
  ASSUME FullInv, IInv', SchedulePlace
  PROVE  OrderInv'
<1>1. /\ IInv /\ Numbered /\ call # NoCall /\ call' = NoCall
      /\ UNCHANGED <<running, phase, schedule_time, lost, sched_error, nsched>>
  BY DEF FullInv, OrderInv, SchedulePlace, ghosts
<1>2. call \in Search /\ nsched \in Nat /\ call.ev.region \in Queues
  BY <1>1 DEF IInv, TypeOK, SearchOk
<1>3. call.ev \in Event
  BY <1>2 DEF Search
<1>4. /\ call.ev.id = nsched /\ ~ call.ev.push /\ call.ev.at = schedule_time + call.ev.delay
      /\ call.ev.ro = (phase = "rosync")
  BY <1>1 DEF Numbered
<1>5. Added(call.ev)
  BY <1>1, <1>4, PlaceAdds
<1>6. Placed < call.ev.id
  BY <1>1, <1>2, <1>4 DEF Placed
<1> DEFINE ev == call.ev
<1> HIDE DEF ev
<1>7. /\ ev \in Event /\ ev.region \in Queues /\ ev.id = nsched' /\ ~ ev.push /\ Added(ev)
      /\ ev.at = schedule_time + ev.delay /\ ev.ro = (phase = "rosync") /\ Placed < ev.id
  BY <1>1, <1>2, <1>3, <1>4, <1>5, <1>6 DEF ev
<1> QED BY <1>1, <1>7, AddedKeeps

LEMMA WalkOrder ==
  ASSUME FullInv, ScheduleWalk
  PROVE  OrderInv'
<1>0. /\ CellsOrdered /\ Numbered /\ RosyncOnly /\ StartsLate /\ Waits /\ LossExplained
      /\ call \in Search /\ call # NoCall
  BY OrderParts DEF FullInv, IInv, TypeOK, ScheduleWalk
<1>1. UNCHANGED <<sched_list, running, phase, schedule_time, lost, sched_error, nsched>>
  BY DEF ScheduleWalk, queues, ghosts
<1>2. call'.ev = call.ev
  BY <1>0 DEF ScheduleWalk, Search
<1>3. CellsOrdered' /\ RosyncOnly' /\ StartsLate' /\ LossExplained'
  BY <1>0, <1>1 DEF CellsOrdered, RosyncOnly, StartsLate, LossExplained
<1>4. Waits'
  BY <1>0, <1>1 DEF Waits
<1>5. Numbered'
  <2>1. nsched \in Nat /\ Placed = nsched - 1 /\ Placed' \in {nsched, nsched - 1}
    BY <1>0, <1>1 DEF FullInv, IInv, TypeOK, Placed
  <2>2. ASSUME NEW i \in 1..Len(sched_list), NEW r \in Queues, NEW k \in 1..Len(sched_list[i].q[r])
        PROVE  sched_list[i].q[r][k].id <= Placed'
    <3>1. sched_list[i].q[r][k].id <= nsched - 1
      BY <1>0, <2>1 DEF Numbered, AllUpTo
    <3>2. sched_list[i].q \in QueueSet
      BY CellFacts DEF FullInv
    <3>3. sched_list[i].q[r][k].id \in Nat
      BY <3>2, QueueTypes
    <3> QED BY <2>1, <3>1, <3>3
  <2>3. ASSUME running # NoEvent, running.region \in Queues
        PROVE  running.id <= Placed'
    <3>1. running.id <= nsched - 1
      BY <1>0, <2>1, <2>3 DEF Numbered
    <3>2. running.id \in Nat
      BY <2>3, QueueTypes DEF FullInv, IInv, TypeOK
    <3> QED BY <2>1, <3>1, <3>2
  <2> QED BY <1>0, <1>1, <1>2, <2>2, <2>3 DEF Numbered, AllUpTo
<1>6. OrderInv' <=>
    /\ CellsOrdered' /\ Numbered' /\ RosyncOnly' /\ StartsLate' /\ Waits' /\ LossExplained'
  BY OrderParts, PTL
<1> QED BY <1>3, <1>4, <1>5, <1>6

LEMMA EndRosyncOrder ==
  ASSUME FullInv, IInv', EndRosync
  PROVE  OrderInv'
<1> DEFINE n == Len(sched_list)
<1>0. /\ \A i \in 1..n : Ordered(sched_list[i].q)
      /\ Numbered /\ RosyncOnly /\ StartsLate /\ Waits /\ LossExplained /\ IInv
  BY OrderParts DEF FullInv, CellsOrdered, Ordered
<1>1. /\ phase = "rosync" /\ running = NoEvent /\ call = NoCall
      /\ sched_list[1].q["rosync"] = << >>
      /\ sched_list' = Tail(sched_list) /\ phase' = "loop"
      /\ lost' = lost \cup LeftIn(sched_list[1])
      /\ sched_error' = (sched_error \/ \E j \in 1..4 : sched_list[1].q[RWOrder[j]] # << >>)
      /\ UNCHANGED <<schedule_time, running, call, nsched>>
  BY DEF EndRosync, Idle
<1>2. sched_list # << >> /\ sched_list[1].delay = 0 /\ sched_list \in Seq(Cell)
  BY <1>0, <1>1 DEF IInv, InCurrentCell, TypeOK
<1>3. /\ n \in Nat /\ n > 0 /\ Len(sched_list') = n - 1
      /\ \A k \in 1..n - 1 : k + 1 \in 1..n /\ sched_list'[k] = sched_list[k + 1]
  BY <1>1, <1>2, EmptySeq, LenProperties, HeadTailProperties
<1>4. CellsOrdered'
  <2>1. \A k \in 1..n - 1 : Ordered(sched_list'[k].q)
    BY <1>0, <1>3
  <2> QED BY <1>3, <2>1 DEF CellsOrdered, Ordered
<1>5. Numbered'
  <2>1. \A i \in 1..n : \A r \in Queues : \A k \in 1..Len(sched_list[i].q[r]) :
          sched_list[i].q[r][k].id <= nsched
    BY <1>0, <1>1 DEF Numbered, AllUpTo, Placed
  <2>2. \A i \in 1..n - 1 : \A r \in Queues : \A k \in 1..Len(sched_list'[i].q[r]) :
          sched_list'[i].q[r][k].id <= nsched
    BY <1>3, <2>1
  <2> QED BY <1>1, <1>3, <2>2 DEF Numbered, AllUpTo, Placed
<1>6. RosyncOnly' /\ Waits'
  BY <1>1 DEF RosyncOnly, Waits
<1>7. StartsLate'
  <2>1. ASSUME sched_list' # << >>, sched_list'[1].delay = 0 PROVE FALSE
    <3>1. 1 \in 1..n - 1 /\ 1 + 1 = 2
      <4>1. sched_list' \in Seq(Cell)
        BY <1>1, <1>2, HeadTailProperties
      <4> QED BY <1>3, <2>1, <4>1, EmptySeq
    <3>2. sched_list'[1] = sched_list[2] /\ sched_list[2].delay > 0
      BY <1>0, <1>3, <3>1 DEF IInv, CellChain
    <3> QED BY <2>1, <3>2
  <2> QED BY <2>1 DEF StartsLate
<1>8. LossExplained'
  <2> SUFFICES ASSUME NEW e \in lost'
               PROVE  e.delay = 0 /\ (e.region = "start" \/ (e.ro /\ sched_error'))
    BY DEF LossExplained
  <2>1. CASE e \in lost
    BY <1>0, <1>1, <2>1 DEF LossExplained
  <2>2. CASE e \in LeftIn(sched_list[1])
    <3>1. PICK r \in Queues \ {"del_thr"} : \E k \in 1..Len(sched_list[1].q[r]) :
             e = sched_list[1].q[r][k]
      BY <2>2, Zenon DEF LeftIn
    <3>2. PICK k \in 1..Len(sched_list[1].q[r]) : e = sched_list[1].q[r][k]
      BY <3>1
    <3>3. sched_list[1].q[r] # << >>
      <4>1. Len(<< >>) = 0 /\ k \notin 1..0
        OBVIOUS
      <4> QED BY <4>1, Zenon
    <3>4. CASE r = "start"
      <4>1. e.region = "start"
        <5>1. 1 \in 1..n
          BY <1>3
        <5>2. Ordered(sched_list[1].q)
          BY <1>0, <5>1
        <5> QED BY <3>2, <3>4, <5>2 DEF Ordered, QueueOrder
      <4>2. e.delay = 0
        BY <1>0, <1>1, <1>2, <3>2, <3>4 DEF StartsLate
      <4> QED BY <4>1, <4>2
    <3>5. CASE r \in {"active"} \cup Promoted
      <4>1. e.ro /\ e.delay = 0
        BY <1>0, <1>1, <3>2, <3>5 DEF RosyncOnly
      <4>2. \E j \in 1..4 : RWOrder[j] = r
        <5>1. /\ RWOrder[1] = "active" /\ RWOrder[2] = "inactive"
              /\ RWOrder[3] = "nbassign" /\ RWOrder[4] = "rwsync"
          BY DEF RWOrder
        <5> QED BY <3>5, <5>1 DEF Promoted
      <4>3. sched_error'
        BY <1>1, <3>3, <4>2
      <4> QED BY <4>1, <4>3
    <3>6. r # "rosync"
      BY <1>1, <3>3
    <3> QED BY <3>4, <3>5, <3>6 DEF Queues, Promoted
  <2> QED BY <1>1, <2>1, <2>2
<1>9. OrderInv' <=>
    /\ CellsOrdered' /\ Numbered' /\ RosyncOnly' /\ StartsLate' /\ Waits' /\ LossExplained'
  BY OrderParts, PTL
<1> QED BY <1>4, <1>5, <1>6, <1>7, <1>8, <1>9

(* What is known when the loop selects an event. *)
LEMMA Selected ==
  ASSUME FullInv, Selecting
  PROVE  /\ call = NoCall /\ running = NoEvent /\ phase \in {"loop", "select"}
         /\ sched_list # << >> /\ sched_list[1].delay = 0
         /\ sched_list[1].q \in QueueSet /\ Ordered(sched_list[1].q)
<1>1. IInv /\ CellsOrdered
  BY DEF FullInv, OrderInv
<1>2. /\ call = NoCall /\ running = NoEvent /\ phase \in {"loop", "select"}
      /\ sched_list # << >> /\ sched_list[1].delay = 0
  BY <1>1 DEF Selecting, AtTop, Idle, IInv, InCurrentCell
<1>3. 1 \in 1..Len(sched_list) /\ sched_list[1].q \in QueueSet
  BY <1>1, <1>2, CellFacts
<1> QED BY <1>1, <1>2, <1>3 DEF CellsOrdered, Ordered

(* The selection of an event, and that the last pushed one goes first. *)
LEMMA RunNextOrder ==
  ASSUME FullInv, IInv', NEW i \in 1..4, RunNext(i)
  PROVE  /\ OrderInv'
         /\ \A r \in Queues : \A k \in 1..Len(sched_list[1].q[r]) :
              sched_list[1].q[r][k].push =>
                running'.push /\ running'.id >= sched_list[1].q[r][k].id
<1> DEFINE q == sched_list[1].q
           R == RWOrder[i]
<1>1. /\ call = NoCall /\ running = NoEvent /\ phase \in {"loop", "select"}
      /\ sched_list # << >> /\ sched_list[1].delay = 0
      /\ q \in QueueSet /\ Ordered(q)
  BY Selected DEF RunNext
<1>2. /\ \A j \in 1..i-1 : q[RWOrder[j]] = << >>
      /\ q[R] # << >> /\ running' = Head(q[R])
      /\ sched_list' = [sched_list EXCEPT ![1].q = [q EXCEPT ![R] = << >>,
                                                     !["active"] = Tail(q[R])]]
      /\ phase' = "loop"
      /\ UNCHANGED <<call, nsched, schedule_time, lost, sched_error>>
  BY DEF RunNext, ghosts
<1>3. /\ RWOrder[1] = "active" /\ RWOrder[2] = "inactive"
      /\ RWOrder[3] = "nbassign" /\ RWOrder[4] = "rwsync"
  BY DEF RWOrder
<1>a. "active" \in Queues /\ "rosync" \notin {"active"} \cup Promoted
  BY DEF Queues, Promoted
<1>4. CASE i = 1
  <2>1. R = "active"
    BY <1>3, <1>4
  <2>2. sched_list' = [sched_list EXCEPT ![1].q["active"] = Tail(@)]
    <3>1. [q EXCEPT !["active"] = << >>, !["active"] = Tail(q["active"])]
            = [q EXCEPT !["active"] = Tail(@)]
      BY <1>1 DEF QueueSet
    <3>2. [sched_list EXCEPT ![1].q["active"] = Tail(@)]
            = [sched_list EXCEPT ![1].q = [q EXCEPT !["active"] = Tail(@)]]
      OBVIOUS
    <3>3. sched_list' = [sched_list EXCEPT ![1].q = [q EXCEPT !["active"] = << >>,
                                                     !["active"] = Tail(q["active"])]]
      BY <1>2, <2>1
    <3> QED BY <3>1, <3>2, <3>3
  <2>3. q["active"] \in Seq(Event) /\ q["active"] # << >>
    BY <1>1, <1>2, <1>a, <2>1 DEF QueueSet
  <2>4. 1 \in 1..Len(q["active"]) /\ running' = q["active"][1]
    BY <1>2, <2>1, <2>3, TailPlaces
  <2>5. ASSUME NEW r \in Queues, NEW j \in 1..Len(q[r])
        PROVE  /\ (r = "active" => j > 1) => Behind(running', q[r][j])
               /\ q[r][j].push => running'.push /\ running'.id >= q[r][j].id
               /\ running'.region \in {"active"} \cup Promoted
    <3> HIDE DEF q
    <3> QED BY <1>1, <2>4, FirstActive
  <2>6. running'.region # "rosync"
    <3>1. running'.region \in {"active"} \cup Promoted
      BY <1>a, <2>4, <2>5
    <3> QED BY <1>a, <3>1
  <2>7. OrderInv'
    <3>1. q["active"] # << >> /\ running' = Head(q["active"])
      BY <1>2, <2>1
    <3>2. \A r \in Queues : \A j \in 1..Len(q[r]) :
            (r = "active" => j > 1) => Behind(running', q[r][j])
      BY <2>5
    <3>3. phase \notin {"nextsim", "start"}
      BY <1>1
    <3> HIDE DEF R
    <3> QED BY <1>1, <1>2, <1>a, <2>2, <2>6, <3>1, <3>2, <3>3, TakeKeeps
  <2> QED BY <2>5, <2>7
<1>5. CASE i # 1
  <2>1. R \in Promoted
    BY <1>3, <1>5 DEF Promoted
  <2>2. q["active"] = << >>
    BY <1>2, <1>3, <1>5
  <2>3. ASSUME NEW x \in Promoted, Rank[x] < Rank[R] PROVE q[x] = << >>
    <3>1. \E j \in 1..i-1 : RWOrder[j] = x
      BY <1>3, <1>5, <2>3, Ranks DEF Promoted
    <3> QED BY <1>2, <3>1
  <2> HIDE DEF R
  <2>4. OrderInv' /\ \A r \in Queues : \A k \in 1..Len(q[r]) : ~ q[r][k].push
    BY <1>1, <1>2, <2>1, <2>2, <2>3, PromoteKeeps
  <2> QED BY <2>4
<1> QED BY <1>4, <1>5

LEMMA RunStartOrder ==
  ASSUME FullInv, IInv', RunStart
  PROVE  OrderInv'
<1> DEFINE q == sched_list[1].q
<1>1. /\ call = NoCall /\ q["start"] # << >> /\ running' = Head(q["start"])
      /\ sched_list' = [sched_list EXCEPT ![1].q["start"] = Tail(@)]
      /\ phase = "start" /\ phase' = "start"
      /\ UNCHANGED <<call, nsched, schedule_time, lost, sched_error>>
  BY DEF RunStart, Idle, Pop, ghosts
<1>2. sched_list # << >> /\ sched_list[1].delay = 0 /\ "start" \in Queues
  BY <1>1 DEF FullInv, IInv, InCurrentCell, Queues
<1>3. 1 \in 1..Len(sched_list) /\ q \in QueueSet
  BY <1>2, CellFacts DEF FullInv
<1>4. QueueOrder(q)
  BY <1>3 DEF FullInv, OrderInv, CellsOrdered
<1>5. q["start"] \in Seq(Event) /\ 1 \in 1..Len(q["start"]) /\ running' = q["start"][1]
  <2>1. q["start"] \in Seq(Event)
    BY <1>2, <1>3 DEF QueueSet
  <2> QED BY <1>1, <2>1, TailPlaces
<1>6. running'.region = "start" /\ ~ running'.push
  BY <1>2, <1>4, <1>5 DEF QueueOrder
<1>7. ASSUME NEW r \in Queues, NEW j \in 1..Len(q[r]), r = "start" => j > 1
      PROVE  Behind(running', q[r][j])
  <2>1. q[r][j].region = "start" => r = "start"
    BY <1>4 DEF QueueOrder, Promoted
  <2>2. r = "start" /\ ~ q[r][j].push => q[r][j].id > running'.id
    <3> SUFFICES ASSUME r = "start", ~ q[r][j].push PROVE q[r][j].id > running'.id
      OBVIOUS
    <3>1. running'.id < q[r][j].id
      BY <1>4, <1>5, <1>6, <1>7 DEF QueueOrder
    <3>2. running'.id \in Nat /\ q[r][j].id \in Nat
      BY <1>2, <1>3, <1>5, QueueTypes
    <3> QED BY <3>1, <3>2
  <2> QED BY <1>6, <2>1, <2>2, Ranks DEF Behind
<1> QED BY <1>1, <1>2, <1>6, <1>7, TakeKeeps

LEMMA RunRosyncOrder ==
  ASSUME FullInv, IInv', RunRosync
  PROVE  OrderInv'
<1> DEFINE q == sched_list[1].q
<1>1. /\ call = NoCall /\ q["rosync"] # << >> /\ running' = Head(q["rosync"])
      /\ sched_list' = [sched_list EXCEPT ![1].q["rosync"] = Tail(@)]
      /\ phase = "rosync" /\ phase' = "rosync"
      /\ UNCHANGED <<call, nsched, schedule_time, lost, sched_error>>
  BY DEF RunRosync, Idle, Pop, ghosts
<1>2. sched_list # << >> /\ sched_list[1].delay = 0 /\ "rosync" \in Queues
  BY <1>1 DEF FullInv, IInv, InCurrentCell, Queues
<1>3. 1 \in 1..Len(sched_list) /\ q \in QueueSet
  BY <1>2, CellFacts DEF FullInv
<1>4. QueueOrder(q) /\ RosyncOnly
  BY <1>3 DEF FullInv, OrderInv, CellsOrdered
<1>5. q["rosync"] \in Seq(Event) /\ 1 \in 1..Len(q["rosync"]) /\ running' = q["rosync"][1]
  <2>1. q["rosync"] \in Seq(Event)
    BY <1>2, <1>3 DEF QueueSet
  <2> QED BY <1>1, <2>1, TailPlaces
<1>6. running'.region = "rosync" /\ ~ running'.push
  BY <1>2, <1>4, <1>5 DEF QueueOrder
<1>7. ASSUME NEW r \in Queues, NEW j \in 1..Len(q[r]), r = "rosync" => j > 1
      PROVE  Behind(running', q[r][j])
  <2>1. q[r][j].region = "rosync" => r = "rosync"
    BY <1>4 DEF QueueOrder, Promoted
  <2>2. r = "rosync" /\ ~ q[r][j].push => q[r][j].id > running'.id
    <3> SUFFICES ASSUME r = "rosync", ~ q[r][j].push PROVE q[r][j].id > running'.id
      OBVIOUS
    <3>1. running'.id < q[r][j].id
      BY <1>4, <1>5, <1>6, <1>7 DEF QueueOrder
    <3>2. running'.id \in Nat /\ q[r][j].id \in Nat
      BY <1>2, <1>3, <1>5, QueueTypes
    <3> QED BY <3>1, <3>2
  <2>3. ASSUME Rank[q[r][j].region] \in 1..Rank["rosync"] - 1 PROVE q[r][j].ro
    <3>1. q[r][j].region \in Queues /\ (q[r][j].region = r \/ r = "active")
      <4>1. q[r][j].region = r \/ (r = "active" /\ q[r][j].region \in Promoted)
        BY <1>4 DEF QueueOrder
      <4> QED BY <4>1 DEF Promoted, Queues
    <3>2. q[r][j].region \in {"active"} \cup Promoted
      BY <2>3, <3>1, Ranks DEF Promoted, Queues
    <3>3. r \in {"active"} \cup Promoted
      BY <3>1, <3>2
    <3> QED BY <1>1, <1>4, <3>3 DEF RosyncOnly
  <2> QED BY <1>6, <2>1, <2>2, <2>3 DEF Behind
<1> QED BY <1>1, <1>2, <1>6, <1>7, TakeKeeps

LEMMA OrderNext ==
  ASSUME FullInv, IInv', [Next]_vars
  PROVE  OrderInv'
<1>0. TypeOK /\ nsched \in Nat /\ IInv
  BY DEF FullInv, IInv, TypeOK
<1>1. ASSUME NEW r \in Regions, NEW d \in Delays, Schedule(r, d) PROVE OrderInv'
  BY <1>1, ScheduleOrder
<1>2. CASE SchedulePush
  BY <1>2, PushOrder
<1>3. CASE ScheduleInit \/ ScheduleFinal
  <2> DEFINE ev == NewEvent("init", 0, FALSE)
  <2>1. /\ call = NoCall /\ nsched' = nsched + 1
        /\ UNCHANGED <<sched_list, call, running, phase, schedule_time, lost, sched_error>>
    BY <1>3 DEF ScheduleInit, ScheduleFinal, CanSchedule, Executing, ghosts
  <2>2. ev.at = schedule_time + 0 /\ ev.id = nsched + 1 /\ ev.push = FALSE /\ ev.delay = 0
        /\ ev.ro = (phase = "rosync")
    BY DEF NewEvent
  <2> HIDE DEF ev
  <2> QED BY <2>1, <2>2, SearchBegins
<1>4. CASE schedule_finish \/ schedule_stop
  BY <1>4, OrderQuiet DEF schedule_finish, schedule_stop, queues, ghosts
<1>5. ASSUME NEW sig \in {"INT", "TERM"}, signals_handler(sig) PROVE OrderInv'
  BY <1>5, OrderQuiet DEF signals_handler, queues, ghosts
<1>6. CASE ScheduleWalk
  BY <1>6, WalkOrder
<1>7. CASE SchedulePlace
  BY <1>7, PlaceOrder
<1>8. CASE EndRun
  BY <1>8, OrderQuiet DEF EndRun, queues, ghosts
<1>9. CASE BeginInit \/ EndInit \/ BeginLoop
  BY <1>9, OrderQuiet DEF BeginInit, EndInit, BeginLoop, Idle, queues, ghosts
<1>10. CASE RunInit
  <2>1. running'.region \in Lists
    <3>1. schedule_init_list \in Seq(Event) /\ schedule_init_list # << >> /\ ListRegions
          /\ running' = Head(schedule_init_list)
      BY <1>0, <1>10 DEF RunInit, TypeOK, IInv
    <3>2. 1 \in 1..Len(schedule_init_list) /\ running' = schedule_init_list[1]
      BY <3>1, TailPlaces
    <3> QED BY <3>1, <3>2 DEF ListRegions
  <2> QED BY <1>10, <2>1, OrderQuiet DEF RunInit, ghosts
<1>11. CASE RunFinal
  <2>1. running'.region \in Lists
    <3>1. schedule_final_list \in Seq(Event) /\ schedule_final_list # << >> /\ ListRegions
          /\ running' = Head(schedule_final_list)
      BY <1>0, <1>11 DEF RunFinal, TypeOK, IInv
    <3>2. 1 \in 1..Len(schedule_final_list) /\ running' = schedule_final_list[1]
      BY <3>1, TailPlaces
    <3> QED BY <3>1, <3>2 DEF ListRegions
  <2> QED BY <1>11, <2>1, OrderQuiet DEF RunFinal, ghosts
<1>12. CASE OutOfEvents \/ ServeStop
  BY <1>12, OrderQuiet DEF OutOfEvents, ServeStop, EnterFinal, AtTop, Idle, queues, ghosts
<1>13. ASSUME NEW cmd \in {"cont", "step", "finish"}, LeaveStop(cmd) PROVE OrderInv'
  BY <1>13, OrderQuiet DEF LeaveStop, EnterFinal, Idle, queues
<1>14. CASE AdvanceTime
  <2>1. CASE UNCHANGED <<sched_list, schedule_time>> /\ EnterFinal
    BY <1>14, <2>1, OrderQuiet DEF AdvanceTime, EnterFinal, AtTop, Idle, ghosts
  <2>2. CASE sched_list' = [sched_list EXCEPT ![1].delay = 0] /\ phase' = "nextsim"
    <3>1. /\ CellsOrdered /\ Numbered /\ LossExplained
          /\ running' = NoEvent /\ call = NoCall
          /\ UNCHANGED <<call, nsched, lost, sched_error>>
      BY <1>14 DEF FullInv, OrderInv, AdvanceTime, AtTop, Idle, ghosts
    <3>2. /\ sched_list \in Seq(Cell) /\ sched_list # << >> /\ 1 \in 1..Len(sched_list)
          /\ sched_list[1] \in Cell
      BY <1>0, <1>14, CellFacts, ElementOfSeq DEF TypeOK, AdvanceTime, AtTop
    <3>3. /\ [sched_list[1] EXCEPT !.delay = 0] \in Cell
          /\ [sched_list[1] EXCEPT !.delay = 0].q = sched_list[1].q
      BY <3>2 DEF Cell
    <3>4. sched_list' = [sched_list EXCEPT ![1] = [sched_list[1] EXCEPT !.delay = 0]]
      BY <2>2
    <3>5. /\ Len(sched_list') = Len(sched_list)
          /\ \A k \in 1..Len(sched_list) : sched_list'[k].q = sched_list[k].q
      BY <3>2, <3>3, <3>4, ExceptSeq
    <3>6. CellsOrdered'
      BY <3>1, <3>5 DEF CellsOrdered
    <3>7. Numbered'
      BY <3>1, <3>5 DEF Numbered, AllUpTo, Placed
    <3>8. RosyncOnly' /\ StartsLate' /\ Waits' /\ LossExplained'
      BY <2>2, <3>1 DEF RosyncOnly, StartsLate, Waits, LossExplained
    <3>9. OrderInv' <=>
        /\ CellsOrdered' /\ Numbered' /\ RosyncOnly' /\ StartsLate' /\ Waits' /\ LossExplained'
      BY OrderParts, PTL
    <3> QED BY <3>6, <3>7, <3>8, <3>9
  <2> QED BY <1>14, <2>1, <2>2 DEF AdvanceTime
<1>15. CASE EndNextSim \/ EndStart
  BY <1>15, OrderQuiet DEF EndNextSim, EndStart, Idle, queues, ghosts
<1>16. CASE RunStart
  BY <1>16, RunStartOrder
<1>17. ASSUME NEW i \in 1..4, RunNext(i) PROVE OrderInv'
  BY <1>17, RunNextOrder
<1>18. CASE BeginRosync
  <2>1. \A r \in {"active"} \cup Promoted : sched_list[1].q[r] = << >>
    <3>1. /\ RWOrder[1] = "active" /\ RWOrder[2] = "inactive"
          /\ RWOrder[3] = "nbassign" /\ RWOrder[4] = "rwsync"
      BY DEF RWOrder
    <3> QED BY <1>18, <3>1 DEF BeginRosync, Promoted
  <2>2. call = NoCall /\ running = NoEvent /\ phase \in {"loop", "select"}
    BY <1>18, Selected DEF BeginRosync
  <2> QED BY <1>18, <2>1, <2>2, OrderQuiet DEF BeginRosync, queues, ghosts
<1>19. CASE RunRosync
  BY <1>19, RunRosyncOrder
<1>20. CASE EndRosync
  BY <1>20, EndRosyncOrder
<1>21. CASE EndSimulate
  BY <1>21, OrderQuiet DEF EndSimulate, Idle, queues, ghosts
<1>22. CASE UNCHANGED vars
  BY <1>22, OrderQuiet DEF vars
<1> QED BY <1>1, <1>2, <1>3, <1>4, <1>5, <1>6, <1>7, <1>8, <1>9, <1>10, <1>11, <1>12, <1>13,
       <1>14, <1>15, <1>16, <1>17, <1>18, <1>19, <1>20, <1>21, <1>22
     DEF Next, Request, Simulate, Done

(* Both invariants together hold in every behaviour of the scheduler. *)
THEOREM FullInvariantHolds == Spec => []FullInv
<1>1. FullInv /\ [Next]_vars => FullInv'
  <2> SUFFICES ASSUME FullInv, [Next]_vars PROVE FullInv'
    OBVIOUS
  <2>1. IInv'
    BY IInvNext DEF FullInv
  <2>2. OrderInv'
    BY <2>1, OrderNext
  <2> QED BY <2>1, <2>2 DEF FullInv
<1> QED BY <1>1, FullInvInit, PTL DEF Spec

(* Events scheduled into one region for one time run in the order of the   *)
(* schedule calls, however they got there and whatever was scheduled in    *)
(* between.                                                                *)
THEOREM EventsRunInOrder == Spec => []RunsInOrder
<1>1. FullInv => RunsInOrder
  BY DEF FullInv, OrderInv
<1> QED BY <1>1, FullInvariantHolds, PTL

(* No event overtakes an older one of an earlier region of its time step,  *)
(* though a region that became active shares its queue with new events.    *)
THEOREM RegionsAreStratified == Spec => []Stratified
<1>1. FullInv => Stratified
  BY DEF FullInv, OrderInv
<1> QED BY <1>1, FullInvariantHolds, PTL

(* Freeing a cell loses an event only if it came for the current time from *)
(* a read-only callback, which is reported, or is a start-of-time event.   *)
THEOREM LossesAreExplained == Spec => []LossExplained
<1>1. FullInv => LossExplained
  BY DEF FullInv, OrderInv
<1> QED BY <1>1, FullInvariantHolds, PTL

(* An event that the loop selects was pushed after all the pushed events   *)
(* that wait for this time, if there are any.                              *)
THEOREM PushedFirst == Spec => PushedRunFirst
<1>1. ASSUME FullInv, IInv', Next, running' # running, running' # NoEvent, phase' = "loop",
             NEW e \in PendingIn(1), e.push
      PROVE  running'.push /\ running'.id >= e.id
  <2>1. \E i \in 1..4 : RunNext(i)
    <3>1. CASE Request
      BY <1>1, <3>1 DEF Request, Schedule, SchedulePush, ScheduleInit, ScheduleFinal,
         schedule_finish, schedule_stop, signals_handler
    <3>2. CASE \/ ScheduleWalk \/ SchedulePlace \/ BeginInit \/ EndInit \/ BeginLoop
               \/ OutOfEvents \/ ServeStop \/ AdvanceTime \/ EndNextSim \/ EndStart
               \/ BeginRosync \/ EndRosync \/ EndSimulate \/ Done
      BY <1>1, <3>2 DEF ScheduleWalk, SchedulePlace, BeginInit, EndInit, BeginLoop,
         OutOfEvents, ServeStop, AdvanceTime, EndNextSim, EndStart, BeginRosync, EndRosync,
         EndSimulate, Done, vars
    <3>3. CASE EndRun \/ \E cmd \in {"cont", "step", "finish"} : LeaveStop(cmd)
      BY <1>1, <3>3 DEF EndRun, LeaveStop
    <3>4. CASE RunInit \/ RunStart \/ RunRosync \/ RunFinal
      BY <1>1, <3>4 DEF RunInit, RunStart, RunRosync, RunFinal
    <3> QED BY <1>1, <3>1, <3>2, <3>3, <3>4 DEF Next, Simulate
  <2>2. PICK r \in Queues : \E k \in 1..Len(sched_list[1].q[r]) : e = sched_list[1].q[r][k]
    BY <1>1, Zenon DEF PendingIn
  <2>3. \A x \in Queues : \A k \in 1..Len(sched_list[1].q[x]) :
          sched_list[1].q[x][k].push =>
            running'.push /\ running'.id >= sched_list[1].q[x][k].id
    BY <1>1, <2>1, RunNextOrder
  <2> QED BY <1>1, <2>2, <2>3
<1>2. FullInv /\ FullInv' /\ [Next]_vars =>
        [running' # running /\ running' # NoEvent /\ phase' = "loop" =>
           \A e \in PendingIn(1) : e.push => running'.push /\ running'.id >= e.id]_vars
  BY <1>1 DEF FullInv
<1> QED BY <1>2, FullInvariantHolds, PTL DEF Spec, PushedRunFirst

-----------------------------------------------------------------------------
(* Stops.                                                                  *)
(*                                                                         *)
(* The argument: a step that leaves a request pending does not pass the    *)
(* head of the loop (StopWaits), so the loop only goes on with what it     *)
(* had already entered when the request came (StopInv).                    *)

(* The ways of the loop while a stop is pending, except for the steps that *)
(* begin an event.                                                         *)
PendingMove ==
  \/ phase' = phase
  \/ phase \in Entering /\ phase' \in Entering \cup {"rosync"}
  \/ phase' \notin Entering \cup {"rosync"}

(* A step that leaves a stop pending keeps the time, and begins an event   *)
(* only inside of the time step that is entered or of run_rosync.          *)
StopWaits ==
  /\ schedule_time' = schedule_time
  /\ \/ PendingMove /\ asked' = asked
     \/ phase \in {"start", "rosync"} /\ phase' = phase /\ asked' = Begin(phase, running')
     \/ phase = "select" /\ phase' = "loop" /\ asked' = Begin("loop", running')

(* What a step does to the history of the stop. *)
StopStep ==
  /\ schedule_stopped_flag /\ schedule_stopped_flag' => StopWaits
  /\ ~ schedule_stopped_flag /\ schedule_stopped_flag' =>
       asked' = [time |-> schedule_time', phase |-> phase', begun |-> {}]
  /\ ~ schedule_stopped_flag' => asked' \in {asked, NoStop}

LEMMA StopSteps == [Next]_vars => StopStep
<1> SUFFICES ASSUME [Next]_vars PROVE StopStep
  OBVIOUS
<1> USE DEF StopStep, StopWaits, PendingMove, Entering, flags
<1>1. CASE \/ \E r \in Regions, d \in Delays : Schedule(r, d)
           \/ SchedulePush \/ ScheduleInit \/ ScheduleFinal \/ schedule_finish
  <2>1. UNCHANGED <<schedule_time, schedule_stopped_flag, phase, asked>>
    BY <1>1 DEF Schedule, SchedulePush, ScheduleInit, ScheduleFinal, schedule_finish
  <2> QED BY <2>1
<1>2. CASE schedule_stop \/ \E sig \in {"INT", "TERM"} : signals_handler(sig)
  BY <1>2 DEF schedule_stop, signals_handler, AskStop
<1>3. CASE ScheduleWalk \/ SchedulePlace \/ EndRun
  BY <1>3 DEF ScheduleWalk, SchedulePlace, EndRun
<1>4. CASE BeginInit \/ RunInit \/ EndInit \/ BeginLoop
  BY <1>4 DEF BeginInit, RunInit, EndInit, BeginLoop
<1>5. CASE OutOfEvents \/ ServeStop \/ AdvanceTime
  BY <1>5 DEF OutOfEvents, ServeStop, AdvanceTime, EnterFinal
<1>6. ASSUME NEW cmd \in {"cont", "step", "finish"}, LeaveStop(cmd) PROVE StopStep
  BY <1>6 DEF LeaveStop, EnterFinal
<1>7. CASE EndNextSim \/ EndStart
  BY <1>7 DEF EndNextSim, EndStart
<1>8. CASE RunStart
  BY <1>8 DEF RunStart, Begin
<1>9. ASSUME NEW i \in 1..4, RunNext(i) PROVE StopStep
  BY <1>9 DEF RunNext, Selecting, AskStop, Begin
<1>10. CASE BeginRosync \/ EndRosync
  BY <1>10 DEF BeginRosync, EndRosync, Selecting
<1>11. CASE RunRosync
  BY <1>11 DEF RunRosync, Begin
<1>12. CASE RunFinal \/ EndSimulate
  BY <1>12 DEF RunFinal, EndSimulate
<1>13. CASE Done \/ UNCHANGED vars
  BY <1>13 DEF Done, vars
<1> QED BY <1>1, <1>2, <1>3, <1>4, <1>5, <1>6, <1>7, <1>8, <1>9, <1>10, <1>11, <1>12, <1>13
        DEF Next, Request, Simulate

(* A step keeps the history of the stop in its type. *)
LEMMA StopTypeNext ==
  ASSUME TypeOK, TypeOK', asked \in Stop, StopStep
  PROVE  asked' \in Stop
<1>1. schedule_time' \in Nat /\ phase \in Phases /\ phase' \in Phases
      /\ running' \in Event \cup {NoEvent} /\ "loop" \in Phases /\ "compile" \in Phases
  BY DEF TypeOK, Phases
<1>2. \A p \in Phases : Begin(p, running') \in Stop
  BY <1>1 DEF Begin, Stop
<1>3. NoStop \in Stop /\ [time |-> schedule_time', phase |-> phase', begun |-> {}] \in Stop
  BY <1>1 DEF NoStop, Stop
<1> QED BY <1>1, <1>2, <1>3 DEF StopStep, StopWaits, TypeOK

(* The history only grows while the request is pending. *)
LEMMA StopInvNext == TypeOK /\ TypeOK' /\ StopInv /\ [Next]_vars => StopInv'
<1> SUFFICES ASSUME TypeOK, TypeOK', StopInv, [Next]_vars PROVE StopInv'
  OBVIOUS
<1>0. StopStep /\ asked' \in Stop
  BY StopSteps, StopTypeNext DEF StopInv
<1>1. CASE ~ schedule_stopped_flag'
  BY <1>0, <1>1 DEF StopInv, StopServedFirst
<1>2. CASE schedule_stopped_flag' /\ ~ schedule_stopped_flag
  <2>1. asked' = [time |-> schedule_time', phase |-> phase', begun |-> {}]
    BY <1>0, <1>2 DEF StopStep
  <2>2. asked'.time = schedule_time' /\ asked'.phase = phase' /\ asked'.begun = {}
    BY <2>1
  <2> QED BY <1>0, <2>2 DEF StopInv, StopServedFirst, FromActive, Entering
<1>3. CASE schedule_stopped_flag' /\ schedule_stopped_flag
  <2>1. StopWaits
    BY <1>0, <1>3 DEF StopStep
  <2>2. CASE PendingMove /\ asked' = asked
    BY <1>0, <1>3, <2>1, <2>2 DEF StopWaits, StopInv, StopServedFirst, FromActive, Entering,
       PendingMove
  <2>3. CASE phase \in {"start", "rosync"} /\ phase' = phase /\ asked' = Begin(phase, running')
    <3>1. /\ asked'.time = asked.time /\ asked'.phase = asked.phase
          /\ asked'.begun = asked.begun \cup {[in |-> phase, event |-> running']}
      BY <1>3, <2>3 DEF Begin
    <3>2. \A b \in asked'.begun : b \in asked.begun \/ b.in = phase
      BY <3>1
    <3>3. FromActive' = FromActive
      BY <2>3, <3>1 DEF FromActive
    <3> QED BY <1>0, <1>3, <2>1, <2>3, <3>1, <3>2, <3>3
            DEF StopWaits, StopInv, StopServedFirst, FromActive, Entering
  <2>4. CASE phase = "select" /\ phase' = "loop" /\ asked' = Begin("loop", running')
    <3>1. /\ asked'.time = asked.time /\ asked'.phase = asked.phase
          /\ asked'.begun = asked.begun \cup {[in |-> "loop", event |-> running']}
      BY <1>3, <2>4 DEF Begin
    <3>2. \A b \in asked.begun : b.in = "start"
      BY <1>3, <2>4 DEF StopInv, Entering
    <3>3. \A b \in asked'.begun : b.in # "rosync"
      BY <3>1, <3>2
    <3>4. FromActive' \subseteq {[in |-> "loop", event |-> running']}
      BY <3>1, <3>2 DEF FromActive
    <3> QED BY <1>0, <1>3, <2>1, <2>4, <3>1, <3>3, <3>4
            DEF StopWaits, StopInv, StopServedFirst, Entering
  <2> QED BY <2>1, <2>2, <2>3, <2>4 DEF StopWaits
<1> QED BY <1>1, <1>2, <1>3

(* While a stop waits the time stands and no further event is begun, apart *)
(* from what the time step or run_rosync had already entered owes.         *)
THEOREM StopsComeFirst == Spec => []StopServedFirst
<1>1. Init => StopInv
  BY DEF Init, NoStop, Stop, Phases, StopInv, StopServedFirst
<1>2. StopInv => StopServedFirst
  BY DEF StopInv
<1> QED BY <1>1, <1>2, StopInvNext, TypeCorrect, PTL DEF Spec

=============================================================================
