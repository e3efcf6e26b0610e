--------------------------- MODULE MailboxProofs ---------------------------
(***************************************************************************)
(* Proofs about Mailbox, for any number of threads, any capacity and any   *)
(* number of items.                                                        *)
(***************************************************************************)
EXTENDS Mailbox, SequenceTheorems, FiniteSetTheorems, TLAPS

-----------------------------------------------------------------------------
(* Facts about sequences. *)

LEMMA ConcatAssoc ==
  ASSUME NEW S, NEW r \in Seq(S), NEW s \in Seq(S), NEW t \in Seq(S)
  PROVE  (r \o s) \o t = r \o (s \o t)
  OBVIOUS

LEMMA HeadTail ==
  ASSUME NEW S, NEW s \in Seq(S), s # << >>
  PROVE  /\ Head(s) \in S /\ Tail(s) \in Seq(S)
         /\ s = <<Head(s)>> \o Tail(s)
  OBVIOUS

LEMMA HeadTailConcat ==
  ASSUME NEW S, NEW s \in Seq(S), NEW t \in Seq(S), s # << >>
  PROVE  /\ s \o t # << >>
         /\ Head(s \o t) = Head(s)
         /\ Tail(s \o t) = Tail(s) \o t
  OBVIOUS

LEMMA AppendPair ==
  ASSUME NEW S, NEW a \in S, NEW b \in S
  PROVE  Append(<<a>>, b) = <<a, b>>
<1>1. /\ <<a>> \in Seq(S) /\ Append(<<a>>, b) \in Seq(S) /\ <<a, b>> \in Seq(S)
      /\ Len(Append(<<a>>, b)) = 2 /\ Len(<<a, b>>) = 2
  OBVIOUS
<1>2. Append(<<a>>, b)[1] = a /\ Append(<<a>>, b)[2] = b
  <2>1. /\ Len(<<a>>) = 1 /\ <<a>>[1] = a
    OBVIOUS
  <2>2. QED
    BY <1>1, <2>1, AppendProperties
<1>3. <<a, b>>[1] = a /\ <<a, b>>[2] = b
  OBVIOUS
<1>4. \A i \in 1..Len(Append(<<a>>, b)) : Append(<<a>>, b)[i] = <<a, b>>[i]
  <2>1. \A i \in 1..Len(Append(<<a>>, b)) : i = 1 \/ i = 2
    BY <1>1
  <2>2. QED
    BY <1>2, <1>3, <2>1, Zenon
<1>5. Len(Append(<<a>>, b)) = Len(<<a, b>>)
  BY <1>1, Zenon
<1>6. QED
  BY <1>1, <1>4, <1>5, SeqEqual, Zenon

LEMMA FunctionIsSequence ==
  ASSUME NEW S, NEW n \in Nat, NEW f \in [1..n -> S]
  PROVE  f \in Seq(S) /\ Len(f) = n
<1>1. f \in Seq(S)
  BY SeqDef
<1>2. 1..n = 1..Len(f) /\ Len(f) \in Nat
  BY <1>1, LenProperties
<1>3. QED
  BY <1>1, <1>2

LEMMA CountUp ==
  ASSUME NEW n \in Nat
  PROVE  [i \in 1..(n + 1) |-> i] = Append([i \in 1..n |-> i], n + 1)
  OBVIOUS

-----------------------------------------------------------------------------
(* The items that wait with their threads. *)

ItemsOf(w) == [i \in DOMAIN w |-> w[i].item]

LEMMA BlockedItems == Blocked = ItemsOf(put_waiters_)
  BY DEF Blocked, ItemsOf

LEMMA ItemsOfNone == ItemsOf(<< >>) = << >>
  BY DEF ItemsOf

LEMMA ItemsOfType ==
  ASSUME NEW w \in Seq(PutWaiter)
  PROVE  ItemsOf(w) \in Seq(1..MaxPuts) /\ Len(ItemsOf(w)) = Len(w)
<1>1. \A i \in DOMAIN w : w[i].item \in 1..MaxPuts
  <2>1. \A x \in PutWaiter : x.item \in 1..MaxPuts
    BY DEF PutWaiter
  <2>2. QED
    BY <2>1
<1>2. Len(w) \in Nat /\ DOMAIN w = 1..Len(w)
  OBVIOUS
<1>3. ItemsOf(w) \in [1..Len(w) -> 1..MaxPuts]
  BY <1>1, <1>2 DEF ItemsOf
<1>4. QED
  BY <1>2, <1>3, FunctionIsSequence

LEMMA ItemsOfAppend ==
  ASSUME NEW w \in Seq(PutWaiter), NEW t \in Threads, NEW e \in 1..MaxPuts
  PROVE  ItemsOf(Append(w, [thr |-> t, item |-> e])) = Append(ItemsOf(w), e)
<1> DEFINE x == [thr |-> t, item |-> e]
<1>1. x \in PutWaiter /\ x.item = e
  BY DEF PutWaiter
<1> HIDE DEF x
<1>2. /\ Append(w, x) \in Seq(PutWaiter) /\ Len(Append(w, x)) = Len(w) + 1
      /\ \A i \in 1..Len(w) : Append(w, x)[i] = w[i]
      /\ Append(w, x)[Len(w) + 1] = x
  BY <1>1
<1>3. ItemsOf(Append(w, x)) = Append(ItemsOf(w), e)
  BY <1>1, <1>2, ItemsOfType DEF ItemsOf
<1>4. QED
  BY <1>3 DEF x

LEMMA ItemsOfTail ==
  ASSUME NEW w \in Seq(PutWaiter), w # << >>
  PROVE  /\ Head(w).item \in 1..MaxPuts
         /\ ItemsOf(Tail(w)) \in Seq(1..MaxPuts)
         /\ ItemsOf(w) = <<Head(w).item>> \o ItemsOf(Tail(w))
<1>1. /\ Tail(w) \in Seq(PutWaiter) /\ Len(Tail(w)) = Len(w) - 1 /\ Len(w) \in Nat \ {0}
      /\ \A i \in 1..(Len(w) - 1) : Tail(w)[i] = w[i + 1]
      /\ Head(w) = w[1] /\ w[1] \in PutWaiter
  OBVIOUS
<1>2. Head(w).item \in 1..MaxPuts
  BY <1>1 DEF PutWaiter
<1>3. /\ ItemsOf(w) \in Seq(1..MaxPuts) /\ Len(ItemsOf(w)) = Len(w)
      /\ ItemsOf(Tail(w)) \in Seq(1..MaxPuts) /\ Len(ItemsOf(Tail(w))) = Len(w) - 1
  BY <1>1, ItemsOfType
<1>4. /\ \A i \in 1..Len(w) : ItemsOf(w)[i] = w[i].item
      /\ \A i \in 1..(Len(w) - 1) : ItemsOf(Tail(w))[i] = w[i + 1].item
  BY <1>1 DEF ItemsOf
<1>5. ItemsOf(w) = <<Head(w).item>> \o ItemsOf(Tail(w))
  BY <1>1, <1>2, <1>3, <1>4
<1>6. QED
  BY <1>2, <1>3, <1>5

-----------------------------------------------------------------------------
(* The steps, first what they do to the items. *)

(* An item is accepted when no put waits for room. *)
LEMMA AcceptStep ==
  ASSUME IInv, Accept, stack = << >>, UNCHANGED <<put_waiters_, taken>>
  PROVE  /\ put_waiters_ = << >> /\ Blocked = << >> /\ Blocked' = << >>
         /\ puts' \in 1..MaxPuts /\ puts' = puts + 1
         /\ items_' \in Seq(1..MaxPuts)
         /\ items_' = Append(items_, puts')
         /\ InOrder'
<1>1. stack # <<resume_get_waiters_>> /\ stack \notin Resuming /\ stack \notin MakingRoom
  BY DEF Resuming, MakingRoom
<1>2. NoMissedWakeup
  BY <1>1 DEF IInv, StackOk
<1>3. put_waiters_ = << >> /\ put_waiters_' = << >>
  BY <1>2 DEF NoMissedWakeup, Accept
<1>4. Blocked = << >> /\ Blocked' = << >>
  BY <1>3 DEF Blocked
<1>5. /\ items_ \in Seq(1..MaxPuts) /\ taken \in Seq(1..MaxPuts) /\ puts \in Nat
      /\ puts + 1 \in 1..MaxPuts
  BY MailboxAssumption DEF IInv, TypeOK, Accept
<1>6. puts' = puts + 1 /\ items_' = Append(items_, puts + 1) /\ taken' = taken
  BY DEF Accept
<1>7. taken \o items_ = [i \in 1..puts |-> i]
  BY <1>4, <1>5 DEF IInv, InOrder
<1>8. taken \o Append(items_, puts + 1) = Append(taken \o items_, puts + 1)
  BY <1>5
<1>9. taken' \o items_' = [i \in 1..puts' |-> i]
  BY <1>5, <1>6, <1>7, <1>8, CountUp
<1>10. items_' \in Seq(1..MaxPuts) /\ taken' \in Seq(1..MaxPuts)
  BY <1>5, <1>6
<1>11. (taken' \o items_') \o << >> = taken' \o items_'
  BY <1>10
<1>12. InOrder'
  BY <1>4, <1>9, <1>11 DEF InOrder
<1>13. QED
  BY <1>3, <1>4, <1>5, <1>6, <1>10, <1>12

(* An item is taken from the front. *)
LEMMA TakeStep ==
  ASSUME IInv, ~ empty, UNCHANGED <<put_waiters_, puts>>,
         taken' = Append(taken, Head(items_)), items_' = Tail(items_)
  PROVE  /\ items_' \in Seq(1..MaxPuts) /\ taken' \in Seq(1..MaxPuts)
         /\ Head(items_) \in 1..MaxPuts
         /\ items_ \o Blocked # << >>
         /\ Head(items_ \o Blocked) = Head(items_)
         /\ items_' \o Blocked' = Tail(items_ \o Blocked)
         /\ InOrder'
<1>1. /\ items_ \in Seq(1..MaxPuts) /\ taken \in Seq(1..MaxPuts) /\ items_ # << >>
      /\ put_waiters_ \in Seq(PutWaiter)
  BY DEF IInv, TypeOK, empty
<1>2. Blocked \in Seq(1..MaxPuts) /\ Blocked' = Blocked
  BY <1>1, BlockedItems, ItemsOfType DEF Blocked
<1>3. Head(items_) \in 1..MaxPuts /\ Tail(items_) \in Seq(1..MaxPuts)
  BY <1>1, HeadTail
<1>4. Append(taken, Head(items_)) \o Tail(items_) = taken \o items_
  BY <1>1, <1>3
<1>5. InOrder'
  BY <1>2, <1>4 DEF IInv, InOrder
<1>6. /\ items_ \o Blocked # << >>
      /\ Head(items_ \o Blocked) = Head(items_)
      /\ Tail(items_ \o Blocked) = Tail(items_) \o Blocked
  BY <1>1, <1>2, HeadTailConcat
<1>7. taken' \in Seq(1..MaxPuts)
  BY <1>1, <1>3
<1>8. QED
  BY <1>2, <1>3, <1>5, <1>6, <1>7

-----------------------------------------------------------------------------
(* The shapes of the stack. *)

Holding(w) == [fn |-> "get", waiter |-> w]

LEMMA FrameTypes ==
  /\ resume_get_waiters_ \in Frame /\ resume_put_waiters_ \in Frame
  /\ \A w \in Threads : Holding(w) \in Frame
  /\ resume_get_waiters_.fn = "get" /\ resume_get_waiters_.waiter = None
  /\ resume_put_waiters_.fn = "put" /\ resume_put_waiters_.waiter = None
  /\ \A w \in Threads : Holding(w).fn = "get" /\ Holding(w).waiter = w /\ w # None
  BY MailboxAssumption
  DEF Frame, resume_get_waiters_, resume_put_waiters_, Holding

LEMMA TopBelow ==
  /\ \A f \in Frame : stack = <<f>> => Top = f /\ Below = << >>
  /\ \A f, g \in Frame : stack = <<f, g>> => Top = g /\ Below = <<f>>
<1>1. ASSUME NEW f \in Frame, stack = <<f>> PROVE Top = f /\ Below = << >>
  <2>1. <<f>> \in Seq(Frame) /\ Len(<<f>>) = 1
    OBVIOUS
  <2>2. SubSeq(<<f>>, 1, 0) = << >>
    BY <2>1
  <2>3. QED
    BY <1>1, <2>1, <2>2 DEF Top, Below
<1>2. ASSUME NEW f \in Frame, NEW g \in Frame, stack = <<f, g>>
      PROVE  Top = g /\ Below = <<f>>
  <2>1. <<f, g>> \in Seq(Frame) /\ Len(<<f, g>>) = 2
    OBVIOUS
  <2>2. SubSeq(<<f, g>>, 1, 1) = <<f>>
    <3>1. /\ SubSeq(<<f, g>>, 1, 1) \in Seq(Frame)
          /\ Len(SubSeq(<<f, g>>, 1, 1)) = 1
          /\ SubSeq(<<f, g>>, 1, 1)[1] = f
      BY <2>1, SubSeqProperties
    <3>2. <<f>> \in Seq(Frame) /\ Len(<<f>>) = 1 /\ <<f>>[1] = f
      OBVIOUS
    <3>3. \A i \in 1..1 : SubSeq(<<f, g>>, 1, 1)[i] = <<f>>[i]
      BY <3>1, <3>2
    <3>4. QED
      BY <3>1, <3>2, <3>3, SeqEqual
  <2>3. Len(stack) = 2 /\ Len(stack) - 1 = 1 /\ stack[2] = g
    BY <1>2, <2>1
  <2>4. QED
    BY <1>2, <2>2, <2>3 DEF Top, Below
<1>3. QED
  BY <1>1, <1>2

LEMMA Shapes ==
  ASSUME IInv, stack # << >>
  PROVE  \/ /\ put_waiters_ = << >>
            /\ stack = <<resume_get_waiters_>>
            /\ Top = resume_get_waiters_ /\ Below = << >>
         \/ /\ put_waiters_ = << >>
            /\ \E w \in Threads : stack = <<Holding(w)>> /\ Top = Holding(w) /\ Below = << >>
         \/ /\ put_waiters_ = << >>
            /\ \E w \in Threads : /\ stack = <<Holding(w), resume_put_waiters_>>
                                  /\ Top = resume_put_waiters_ /\ Below = <<Holding(w)>>
         \/ /\ get_waiters_ = << >>
            /\ stack = <<resume_put_waiters_>>
            /\ Top = resume_put_waiters_ /\ Below = << >>
         \/ /\ get_waiters_ = << >>
            /\ stack = <<resume_put_waiters_, resume_get_waiters_>>
            /\ Top = resume_get_waiters_ /\ Below = <<resume_put_waiters_>>
<1>1. \/ stack \in Resuming /\ put_waiters_ = << >>
      \/ stack \in MakingRoom /\ get_waiters_ = << >>
  BY DEF IInv, StackOk
<1>2. CASE stack \in Resuming /\ put_waiters_ = << >>
  <2>1. \/ stack = <<resume_get_waiters_>>
        \/ \E w \in Threads : stack = <<Holding(w)>>
        \/ \E w \in Threads : stack = <<Holding(w), resume_put_waiters_>>
    BY <1>2 DEF Resuming, Holding
  <2>2. QED
    BY <1>2, <2>1, TopBelow, FrameTypes
<1>3. CASE stack \in MakingRoom /\ get_waiters_ = << >>
  BY <1>3, TopBelow, FrameTypes DEF MakingRoom
<1>4. QED
  BY <1>1, <1>2, <1>3

(* What a thread finds when it calls. *)
LEMMA AtRest ==
  ASSUME IInv, stack = << >>
  PROVE  /\ NoMissedWakeup
         /\ empty => ~ full /\ put_waiters_ = << >>
         /\ ~ empty => get_waiters_ = << >>
         /\ full => get_waiters_ = << >>
<1>1. stack \notin Resuming /\ stack \notin MakingRoom
  BY DEF Resuming, MakingRoom
<1>2. NoMissedWakeup
  BY <1>1 DEF IInv, StackOk
<1>3. empty => ~ full
  BY MailboxAssumption DEF empty, full
<1>4. QED
  BY <1>2, <1>3 DEF NoMissedWakeup

(* The stacks that the steps leave. *)
LEMMA StackTypes ==
  /\ <<resume_get_waiters_>> \in Seq(Frame) /\ <<resume_put_waiters_>> \in Seq(Frame)
  /\ <<resume_put_waiters_, resume_get_waiters_>> \in Seq(Frame)
  /\ \A w \in Threads : /\ <<Holding(w)>> \in Seq(Frame)
                        /\ <<Holding(w), resume_put_waiters_>> \in Seq(Frame)
  /\ <<resume_get_waiters_>> \in Resuming /\ <<resume_put_waiters_>> \in MakingRoom
  /\ <<resume_put_waiters_, resume_get_waiters_>> \in MakingRoom
  /\ \A w \in Threads : /\ <<Holding(w)>> \in Resuming
                        /\ <<Holding(w), resume_put_waiters_>> \in Resuming
<1>1. /\ <<resume_get_waiters_>> \in Seq(Frame) /\ <<resume_put_waiters_>> \in Seq(Frame)
      /\ <<resume_put_waiters_, resume_get_waiters_>> \in Seq(Frame)
      /\ \A w \in Threads : /\ <<Holding(w)>> \in Seq(Frame)
                            /\ <<Holding(w), resume_put_waiters_>> \in Seq(Frame)
  BY FrameTypes
<1>2. QED
  BY <1>1 DEF Resuming, MakingRoom, Holding

-----------------------------------------------------------------------------
(* The invariant. *)

LEMMA InitIInv == Init => IInv
<1> SUFFICES ASSUME Init PROVE IInv
  OBVIOUS
<1>1. Cardinality(Threads) \in Nat
  BY MailboxAssumption, FS_CardinalityType
<1>2. ready \in [1..Cardinality(Threads) -> Threads]
  BY DEF Init, SetToSeqs
<1>3. ready \in Seq(Threads)
  BY <1>1, <1>2, FunctionIsSequence
<1>4. got \in [Threads -> 0..MaxPuts \cup {None}] /\ puts \in 0..MaxPuts
  BY MailboxAssumption DEF Init
<1>5. TypeOK
  BY <1>3, <1>4 DEF Init, TypeOK
<1>6. InOrder
  BY ItemsOfNone, BlockedItems DEF Init, InOrder
<1>7. StackOk
  BY DEF Init, StackOk, NoMissedWakeup
<1>8. QED
  BY <1>5, <1>6, <1>7 DEF IInv

(* put and try_put. *)
LEMMA PutStep ==
  ASSUME IInv, NEW t \in Threads, put(t) \/ try_put(t)
  PROVE  IInv'
<1>1. stack = << >> /\ UNCHANGED <<get_waiters_, ready, got, taken>>
  BY DEF put, try_put, Calls
<1>2. CASE Accept /\ UNCHANGED <<put_waiters_, running>>
  <2>1. /\ put_waiters_' = << >> /\ puts' \in 0..MaxPuts
        /\ items_' \in Seq(1..MaxPuts) /\ InOrder'
    BY <1>1, <1>2, AcceptStep, MailboxAssumption
  <2>2. stack' \in Seq(Frame) /\ stack' \in Resuming
    BY <1>2, StackTypes DEF Accept
  <2>3. TypeOK'
    BY <1>1, <1>2, <2>1, <2>2 DEF IInv, TypeOK
  <2>4. QED
    BY <2>1, <2>2, <2>3 DEF IInv, StackOk
<1>3. CASE /\ full
           /\ puts < MaxPuts
           /\ puts' = puts + 1
           /\ put_waiters_' = Append(put_waiters_, [thr |-> t, item |-> puts + 1])
           /\ running' = None
           /\ UNCHANGED <<items_, stack>>
  <2>1. puts + 1 \in 1..MaxPuts /\ puts' \in 0..MaxPuts /\ puts \in Nat
    BY <1>3, MailboxAssumption DEF IInv, TypeOK
  <2>2. /\ put_waiters_ \in Seq(PutWaiter) /\ put_waiters_' \in Seq(PutWaiter)
    BY <1>3, <2>1 DEF IInv, TypeOK, PutWaiter
  <2>3. TypeOK'
    BY <1>1, <1>3, <2>1, <2>2 DEF IInv, TypeOK
  <2>4. Blocked' = Append(Blocked, puts + 1) /\ Blocked \in Seq(1..MaxPuts)
    <3>1. Blocked' = ItemsOf(put_waiters_')
      BY DEF Blocked, ItemsOf
    <3>2. QED
      BY <1>3, <2>1, <2>2, <3>1, BlockedItems, ItemsOfAppend, ItemsOfType
  <2>5. InOrder'
    <3>1. items_ \in Seq(1..MaxPuts) /\ taken \in Seq(1..MaxPuts)
      BY DEF IInv, TypeOK
    <3>2. (taken \o items_) \o Append(Blocked, puts + 1)
            = Append((taken \o items_) \o Blocked, puts + 1)
      BY <2>1, <2>4, <3>1
    <3>3. QED
      BY <1>1, <1>3, <2>1, <2>4, <3>2, CountUp DEF IInv, InOrder
  <2>6. StackOk'
    <3>1. get_waiters_ = << >> /\ get_waiters_' = << >>
      BY <1>1, <1>3, AtRest
    <3>2. full'
      BY <1>3 DEF full
    <3>3. NoMissedWakeup' /\ stack' = << >>
      BY <1>1, <1>3, <3>1, <3>2 DEF NoMissedWakeup
    <3>4. QED
      BY <3>3 DEF StackOk
  <2>7. QED
    BY <2>3, <2>5, <2>6 DEF IInv
<1>4. QED
  BY <1>2, <1>3 DEF put, try_put

(* get and try_get when there is an item. *)
LEMMA GetNowStep ==
  ASSUME IInv, NEW t \in Threads, Calls(t), Take(t),
         UNCHANGED <<get_waiters_, put_waiters_, running, ready, puts>>
  PROVE  IInv'
<1>1. stack = << >> /\ ~ empty /\ get_waiters_ = << >> /\ get_waiters_' = << >>
  BY AtRest DEF Calls, Take
<1>2. /\ items_' \in Seq(1..MaxPuts) /\ taken' \in Seq(1..MaxPuts) /\ InOrder'
      /\ Head(items_) \in 0..MaxPuts
  BY <1>1, TakeStep, MailboxAssumption DEF Take
<1>3. stack' \in Seq(Frame) /\ stack' \in MakingRoom
  BY StackTypes DEF Take
<1>4. TypeOK'
  BY <1>2, <1>3 DEF IInv, TypeOK, Take
<1>5. QED
  BY <1>1, <1>2, <1>3, <1>4 DEF IInv, StackOk

(* get and peek when there is none. *)
LEMMA WaitStep ==
  ASSUME IInv, NEW t \in Threads, Calls(t), NEW is_peek \in BOOLEAN, Wait(t, is_peek),
         UNCHANGED <<items_, put_waiters_, stack, ready, puts, taken>>
  PROVE  IInv'
<1>1. stack = << >> /\ stack' = << >> /\ put_waiters_ = << >> /\ put_waiters_' = << >>
  BY AtRest DEF Calls, Wait
<1>2. [thr |-> t, is_peek |-> is_peek] \in Waiter
  BY DEF Waiter
<1>3. get_waiters_' \in Seq(Waiter)
  BY <1>2 DEF IInv, TypeOK, Wait
<1>4. TypeOK'
  BY <1>3 DEF IInv, TypeOK, Wait
<1>5. InOrder'
  BY DEF IInv, InOrder, Blocked
<1>6. NoMissedWakeup'
  BY <1>1 DEF NoMissedWakeup, Wait, empty
<1>7. QED
  BY <1>1, <1>4, <1>5, <1>6 DEF IInv, StackOk

(* peek and try_peek when there is an item. *)
LEMMA PeekNowStep ==
  ASSUME IInv, NEW t \in Threads, ~ empty,
         got' = [got EXCEPT ![t] = Head(items_)],
         UNCHANGED <<items_, get_waiters_, put_waiters_, stack, running, ready, puts, taken>>
  PROVE  IInv'
<1>1. items_ \in Seq(1..MaxPuts) /\ items_ # << >>
  BY DEF IInv, TypeOK, empty
<1>2. Head(items_) \in 0..MaxPuts
  BY <1>1, HeadTail, MailboxAssumption
<1>3. TypeOK'
  BY <1>2 DEF IInv, TypeOK
<1>4. QED
  BY <1>3 DEF IInv, InOrder, Blocked, StackOk, NoMissedWakeup, empty, full

(* GetTurn runs in the outermost resume_get_waiters_ only. *)
LEMMA GetTurnStack ==
  ASSUME IInv, GetTurn
  PROVE  stack = <<resume_get_waiters_>> /\ Below = << >> /\ put_waiters_ = << >>
<1>1. stack # << >> /\ get_waiters_ # << >> /\ Top = resume_get_waiters_
  BY DEF GetTurn
<1>2. QED
  BY <1>1, Shapes, FrameTypes

LEMMA GetTurnStep ==
  ASSUME IInv, GetTurn
  PROVE  IInv'
<1> DEFINE w == Head(get_waiters_)
<1>1. stack = <<resume_get_waiters_>> /\ Below = << >> /\ put_waiters_ = << >>
  BY GetTurnStack
<1>2. /\ get_waiters_ \in Seq(Waiter) /\ get_waiters_ # << >>
      /\ items_ \in Seq(1..MaxPuts) /\ items_ # << >> /\ ~ empty
  BY DEF IInv, TypeOK, GetTurn, empty
<1>3. w \in Waiter /\ Tail(get_waiters_) \in Seq(Waiter)
  BY <1>2, HeadTail
<1>4. w.thr \in Threads
  BY <1>3 DEF Waiter
<1>5. Head(items_) \in 0..MaxPuts
  BY <1>2, HeadTail, MailboxAssumption
<1>6. /\ got' = [got EXCEPT ![w.thr] = Head(items_)]
      /\ get_waiters_' = Tail(get_waiters_)
      /\ UNCHANGED <<put_waiters_, running, puts>>
  BY DEF GetTurn
<1>7. got' \in [Threads -> 0..MaxPuts \cup {None}]
  BY <1>4, <1>5, <1>6 DEF IInv, TypeOK
<1>8. CASE w.is_peek
  <2>1. ready' = <<w.thr>> \o ready /\ UNCHANGED <<items_, taken, stack>>
    BY <1>8 DEF GetTurn
  <2>2. ready' \in Seq(Threads)
    BY <1>4, <2>1 DEF IInv, TypeOK
  <2>3. TypeOK'
    BY <1>3, <1>6, <1>7, <2>1, <2>2 DEF IInv, TypeOK
  <2>4. InOrder'
    BY <1>6, <2>1 DEF IInv, InOrder, Blocked
  <2>5. StackOk'
    BY <1>1, <1>6, <2>1, StackTypes DEF StackOk
  <2>6. QED
    BY <2>3, <2>4, <2>5 DEF IInv
<1>9. CASE ~ w.is_peek
  <2>1. /\ items_' = Tail(items_) /\ taken' = Append(taken, Head(items_))
        /\ stack' = Below \o <<[fn |-> "get", waiter |-> w.thr], resume_put_waiters_>>
        /\ UNCHANGED ready
    BY <1>9 DEF GetTurn
  <2>2. stack' = <<Holding(w.thr), resume_put_waiters_>>
    BY <1>1, <1>4, <2>1, StackTypes DEF Holding
  <2>3. stack' \in Seq(Frame) /\ stack' \in Resuming
    BY <1>4, <2>2, StackTypes
  <2>4. items_' \in Seq(1..MaxPuts) /\ taken' \in Seq(1..MaxPuts) /\ InOrder'
    BY <1>2, <1>6, <2>1, TakeStep
  <2>5. TypeOK'
    BY <1>3, <1>6, <1>7, <2>1, <2>3, <2>4 DEF IInv, TypeOK
  <2>6. StackOk'
    BY <1>1, <1>6, <2>3 DEF StackOk
  <2>7. QED
    BY <2>4, <2>5, <2>6 DEF IInv
<1>10. QED
  BY <1>8, <1>9

LEMMA GetScheduledStep ==
  ASSUME IInv, GetScheduled
  PROVE  IInv'
<1>1. /\ ready' = <<Top.waiter>> \o ready /\ stack # << >> /\ Top.waiter # None
      /\ stack' = Append(Below, resume_get_waiters_)
      /\ UNCHANGED <<items_, get_waiters_, put_waiters_, running, got, puts, taken>>
  BY DEF GetScheduled
<1>2. Top.waiter \in Threads /\ Below = << >> /\ put_waiters_ = << >>
  BY <1>1, Shapes, FrameTypes
<1>3. stack' = <<resume_get_waiters_>>
  BY <1>1, <1>2, FrameTypes
<1>4. ready' \in Seq(Threads)
  BY <1>1, <1>2 DEF IInv, TypeOK
<1>5. TypeOK'
  BY <1>1, <1>3, <1>4, StackTypes DEF IInv, TypeOK
<1>6. QED
  BY <1>1, <1>2, <1>3, <1>5, StackTypes DEF IInv, InOrder, Blocked, StackOk

(* PutTurn runs in the outermost resume_put_waiters_ only; the item moves  *)
(* from the first waiter to the end of the mailbox.                        *)
LEMMA PutTurnItems ==
  ASSUME IInv, PutTurn
  PROVE  /\ stack = <<resume_put_waiters_>> /\ get_waiters_ = << >>
         /\ items_' \in Seq(1..MaxPuts) /\ Head(put_waiters_).thr \in Threads
         /\ put_waiters_' \in Seq(PutWaiter)
         /\ items_' \o Blocked' = items_ \o Blocked
         /\ taken \o items_' \o Blocked' = taken \o items_ \o Blocked
<1>1. /\ stack # << >> /\ Top.fn = "put" /\ put_waiters_ # << >>
      /\ items_' = Append(items_, Head(put_waiters_).item)
      /\ put_waiters_' = Tail(put_waiters_)
  BY DEF PutTurn
<1>2. stack = <<resume_put_waiters_>> /\ get_waiters_ = << >>
  BY <1>1, Shapes, FrameTypes
<1>3. /\ items_ \in Seq(1..MaxPuts) /\ taken \in Seq(1..MaxPuts)
      /\ put_waiters_ \in Seq(PutWaiter)
  BY DEF IInv, TypeOK
<1> DEFINE e == Head(put_waiters_).item
           rest == ItemsOf(Tail(put_waiters_))
<1>4. e \in 1..MaxPuts /\ rest \in Seq(1..MaxPuts) /\ Blocked = <<e>> \o rest
  BY <1>1, <1>3, ItemsOfTail, BlockedItems
<1>5. Head(put_waiters_) \in PutWaiter /\ Tail(put_waiters_) \in Seq(PutWaiter)
  BY <1>1, <1>3, HeadTail
<1>6. Blocked' = rest
  BY <1>1 DEF Blocked, ItemsOf
<1> HIDE DEF e, rest
<1>7. /\ Append(items_, e) \in Seq(1..MaxPuts)
      /\ Append(items_, e) \o rest = items_ \o (<<e>> \o rest)
      /\ (taken \o Append(items_, e)) \o rest = (taken \o items_) \o (<<e>> \o rest)
  <2> DEFINE Items == 1..MaxPuts
  <2>1. /\ items_ \in Seq(Items) /\ taken \in Seq(Items)
        /\ e \in Items /\ rest \in Seq(Items)
    BY <1>3, <1>4
  <2> HIDE DEF Items
  <2>2. /\ Append(items_, e) \in Seq(Items)
        /\ Append(items_, e) \o rest = items_ \o (<<e>> \o rest)
        /\ (taken \o Append(items_, e)) \o rest = (taken \o items_) \o (<<e>> \o rest)
    <3>1. /\ <<e>> \in Seq(Items) /\ Append(items_, e) \in Seq(Items)
          /\ <<e>> \o rest \in Seq(Items)
      BY <2>1
    <3>2. Append(items_, e) = items_ \o <<e>>
      BY <2>1, AppendIsConcat
    <3>3. (items_ \o <<e>>) \o rest = items_ \o (<<e>> \o rest)
      BY <2>1, <3>1, ConcatAssoc
    <3>4. \A m \in Seq(Items) : (taken \o m) \o rest = taken \o (m \o rest)
      BY <2>1, ConcatAssoc
    <3>5. (taken \o Append(items_, e)) \o rest = taken \o (Append(items_, e) \o rest)
      BY <3>1, <3>4, Zenon
    <3>6. taken \o (items_ \o (<<e>> \o rest)) = (taken \o items_) \o (<<e>> \o rest)
      BY <2>1, <3>1, ConcatAssoc
    <3>7. QED
      BY <3>1, <3>2, <3>3, <3>5, <3>6
  <2>3. QED
    BY <2>2, Zenon DEF Items
<1>8. items_' = Append(items_, e) /\ Head(put_waiters_).thr \in Threads
  BY <1>1, <1>5 DEF e, PutWaiter
<1>9. QED
  BY <1>1, <1>2, <1>4, <1>5, <1>6, <1>7, <1>8

LEMMA PutTurnStep ==
  ASSUME IInv, PutTurn
  PROVE  IInv'
<1>1. /\ ready' = <<Head(put_waiters_).thr>> \o ready
      /\ stack' = Append(stack, resume_get_waiters_)
      /\ UNCHANGED <<get_waiters_, running, got, puts, taken>>
  BY DEF PutTurn
<1>2. stack' = <<resume_put_waiters_, resume_get_waiters_>>
  BY <1>1, PutTurnItems, FrameTypes, AppendPair
<1>3. ready' \in Seq(Threads)
  BY <1>1, PutTurnItems DEF IInv, TypeOK
<1>4. TypeOK'
  BY <1>1, <1>2, <1>3, StackTypes, PutTurnItems DEF IInv, TypeOK
<1>5. InOrder'
  BY <1>1, PutTurnItems DEF IInv, InOrder
<1>6. StackOk'
  BY <1>1, <1>2, StackTypes, PutTurnItems DEF StackOk
<1>7. QED
  BY <1>4, <1>5, <1>6 DEF IInv

(* A resume function returns to its caller. *)
LEMMA ReturnStep ==
  ASSUME IInv, Return
  PROVE  IInv'
<1>1. /\ stack # << >> /\ Top.waiter = None /\ stack' = Below
      /\ UNCHANGED <<items_, get_waiters_, put_waiters_, running, ready, got, puts, taken>>
  BY DEF Return
<1>2. /\ Top.fn = "get" => get_waiters_ = << >> \/ empty
      /\ Top.fn = "put" => put_waiters_ = << >> \/ full
  BY DEF Return
<1>3. empty' = empty /\ full' = full
  BY <1>1 DEF empty, full
<1>4. stack' \in Seq(Frame) /\ StackOk'
  <2>1. CASE /\ put_waiters_ = << >>
             /\ stack = <<resume_get_waiters_>>
             /\ Top = resume_get_waiters_ /\ Below = << >>
    BY <1>1, <1>2, <1>3, <2>1, FrameTypes DEF StackOk, NoMissedWakeup
  <2>2. CASE /\ put_waiters_ = << >>
             /\ \E w \in Threads : /\ stack = <<Holding(w), resume_put_waiters_>>
                                   /\ Top = resume_put_waiters_ /\ Below = <<Holding(w)>>
    BY <1>1, <2>2, StackTypes DEF StackOk
  <2>3. CASE /\ get_waiters_ = << >>
             /\ stack = <<resume_put_waiters_>>
             /\ Top = resume_put_waiters_ /\ Below = << >>
    BY <1>1, <1>2, <1>3, <2>3, FrameTypes DEF StackOk, NoMissedWakeup
  <2>4. CASE /\ get_waiters_ = << >>
             /\ stack = <<resume_put_waiters_, resume_get_waiters_>>
             /\ Top = resume_get_waiters_ /\ Below = <<resume_put_waiters_>>
    BY <1>1, <2>4, StackTypes DEF StackOk
  <2>5. QED
    BY <1>1, <2>1, <2>2, <2>3, <2>4, Shapes, FrameTypes
<1>5. TypeOK'
  BY <1>1, <1>4 DEF IInv, TypeOK
<1>6. QED
  BY <1>1, <1>4, <1>5 DEF IInv, InOrder, Blocked

(* The scheduler. *)
LEMMA SchedulerStep ==
  ASSUME IInv, Dispatch \/ \E t \in Threads : Pause(t)
  PROVE  IInv'
<1>1. UNCHANGED <<items_, get_waiters_, put_waiters_, stack, got, puts, taken>>
  BY DEF Dispatch, Pause
<1>2. running' \in Threads \cup {None} /\ ready' \in Seq(Threads)
  <2>1. ready \in Seq(Threads)
    BY DEF IInv, TypeOK
  <2>2. CASE Dispatch
    BY <2>1, <2>2, HeadTail DEF Dispatch
  <2>3. CASE \E t \in Threads : Pause(t)
    BY <2>1, <2>3 DEF Pause
  <2>4. QED
    BY <2>2, <2>3
<1>3. TypeOK'
  BY <1>1, <1>2 DEF IInv, TypeOK
<1>4. QED
  BY <1>1, <1>3 DEF IInv, InOrder, Blocked, StackOk, NoMissedWakeup, empty, full

LEMMA NextIInv == IInv /\ [Next]_vars => IInv'
<1> SUFFICES ASSUME IInv, [Next]_vars PROVE IInv'
  OBVIOUS
<1>1. ASSUME NEW t \in Threads, get(t) \/ try_get(t)
      PROVE  IInv'
  <2>1. CASE /\ Calls(t) /\ Take(t)
             /\ UNCHANGED <<get_waiters_, put_waiters_, running, ready, puts>>
    BY <2>1, GetNowStep
  <2>2. CASE /\ Calls(t) /\ Wait(t, FALSE)
             /\ UNCHANGED <<items_, put_waiters_, stack, ready, puts, taken>>
    BY <2>2, WaitStep
  <2>3. QED
    BY <1>1, <2>1, <2>2 DEF get, try_get
<1>2. ASSUME NEW t \in Threads, peek(t) \/ try_peek(t)
      PROVE  IInv'
  <2>1. CASE /\ ~ empty /\ got' = [got EXCEPT ![t] = Head(items_)]
             /\ UNCHANGED <<items_, get_waiters_, put_waiters_, stack, running, ready,
                            puts, taken>>
    BY <2>1, PeekNowStep
  <2>2. CASE /\ Calls(t) /\ Wait(t, TRUE)
             /\ UNCHANGED <<items_, put_waiters_, stack, ready, puts, taken>>
    BY <2>2, WaitStep
  <2>3. QED
    BY <1>2, <2>1, <2>2 DEF peek, try_peek
<1>3. CASE UNCHANGED vars
  BY <1>3 DEF vars, IInv, TypeOK, InOrder, Blocked, StackOk, NoMissedWakeup, empty, full
<1>4. QED
  BY <1>1, <1>2, <1>3, PutStep, GetTurnStep, GetScheduledStep, PutTurnStep, ReturnStep,
     SchedulerStep
  DEF Next

(* The invariant holds for any number of threads and any capacity. *)
THEOREM MailboxInvariant == Spec => []IInv
  BY InitIInv, NextIInv, PTL DEF Spec

(* The lists of vvp_mailbox keep their types, and resume_get_waiters_      *)
(* schedules threads only.                                                 *)
THEOREM TypeCorrect == Spec => []TypeOK
<1>1. IInv => TypeOK
  BY DEF IInv
<1>2. QED
  BY <1>1, MailboxInvariant, PTL

(* Whatever calls are made, items leave the mailbox in the order of the    *)
(* put() calls and none is lost or given twice.                            *)
THEOREM ItemsInOrder == Spec => []InOrder
<1>1. IInv => InOrder
  BY DEF IInv
<1>2. QED
  BY <1>1, MailboxInvariant, PTL

(* resume_get_waiters_ and resume_put_waiters_ never nest deeper than two. *)
THEOREM RecursionStaysFlat == Spec => []RecursionBounded
<1>1. IInv => RecursionBounded
  <2> SUFFICES ASSUME IInv PROVE RecursionBounded
    OBVIOUS
  <2>1. CASE stack = << >>
    BY <2>1 DEF RecursionBounded
  <2>2. CASE stack # << >>
    <3>1. \A f, g \in Frame : Len(<<f>>) = 1 /\ Len(<<f, g>>) = 2
      OBVIOUS
    <3>2. \/ \E f \in Frame : stack = <<f>>
          \/ \E f, g \in Frame : stack = <<f, g>>
      BY <2>2, Shapes, FrameTypes, Zenon
    <3>3. Len(stack) = 1 \/ Len(stack) = 2
      BY <3>1, <3>2, Zenon
    <3>4. \A n : n = 1 \/ n = 2 => n <= 2
      OBVIOUS
    <3>5. QED
      BY <3>3, <3>4, Zenon DEF RecursionBounded
  <2>3. QED
    BY <2>1, <2>2
<1>2. QED
  BY <1>1, MailboxInvariant, PTL

(* When a mailbox call has returned, no thread waits for an item or for    *)
(* room that is there.                                                     *)
THEOREM WakeupsComplete == Spec => []NoMissedWakeup
<1>1. IInv => NoMissedWakeup
  BY AtRest DEF NoMissedWakeup
<1>2. QED
  BY <1>1, MailboxInvariant, PTL

-----------------------------------------------------------------------------
(* The mailbox implements the channel: queue is items_ \o Blocked.         *)

LEMMA ChannelInit == Init => Promise!Init
<1> SUFFICES ASSUME Init PROVE Promise!Init
  OBVIOUS
<1>1. items_ \o Blocked = << >>
  BY BlockedItems, ItemsOfNone DEF Init
<1>2. got \in [Threads -> 0..MaxPuts]
  BY MailboxAssumption DEF Init
<1>3. QED
  BY <1>1, <1>2 DEF Promise!Init

LEMMA ChannelNext == IInv /\ [Next]_vars => [Promise!Next]_(Promise!vars)
<1> SUFFICES ASSUME IInv, [Next]_vars PROVE [Promise!Next]_(Promise!vars)
  OBVIOUS
<1>0. /\ items_ \in Seq(1..MaxPuts) /\ put_waiters_ \in Seq(PutWaiter)
      /\ Blocked \in Seq(1..MaxPuts)
  BY BlockedItems, ItemsOfType DEF IInv, TypeOK
<1>1. ASSUME NEW t \in Threads, put(t) \/ try_put(t)
      PROVE  Promise!Next
  <2>1. got' = got /\ stack = << >> /\ taken' = taken
    BY <1>1 DEF put, try_put, Calls
  <2>2. puts + 1 \in 0..MaxPuts /\ puts + 1 \in 1..MaxPuts
    BY <1>1, MailboxAssumption DEF IInv, TypeOK, put, try_put, Accept
  <2>3. items_' \o Blocked' = Append(items_ \o Blocked, puts + 1)
    <3>1. CASE Accept /\ UNCHANGED put_waiters_
      <4>1. Blocked = << >> /\ Blocked' = << >> /\ items_' = Append(items_, puts + 1)
        BY <3>1, <2>1, AcceptStep
      <4>2. items_ \o << >> = items_ /\ Append(items_, puts + 1) \o << >> = Append(items_, puts + 1)
        BY <1>0, <2>2
      <4>3. QED
        BY <4>1, <4>2
    <3>2. CASE /\ put_waiters_' = Append(put_waiters_, [thr |-> t, item |-> puts + 1])
               /\ UNCHANGED items_
      <4>1. Blocked' = ItemsOf(put_waiters_')
        BY DEF Blocked, ItemsOf
      <4>2. Blocked' = Append(Blocked, puts + 1)
        BY <1>0, <2>2, <3>2, <4>1, BlockedItems, ItemsOfAppend
      <4>3. items_ \o Append(Blocked, puts + 1) = Append(items_ \o Blocked, puts + 1)
        BY <1>0, <2>2
      <4>4. QED
        BY <3>2, <4>2, <4>3
    <3>3. QED
      BY <1>1, <3>1, <3>2 DEF put, try_put
  <2>4. Promise!Put(puts + 1)
    BY <2>1, <2>3 DEF Promise!Put
  <2>5. QED
    BY <2>2, <2>4 DEF Promise!Next
<1>2. ASSUME NEW t \in Threads, ~ empty, UNCHANGED <<put_waiters_, puts>>,
             got' = [got EXCEPT ![t] = Head(items_)],
             taken' = Append(taken, Head(items_)), items_' = Tail(items_)
      PROVE  Promise!Next
  <2>1. /\ items_ \o Blocked # << >> /\ Head(items_ \o Blocked) = Head(items_)
        /\ items_' \o Blocked' = Tail(items_ \o Blocked)
    BY <1>2, TakeStep
  <2>2. Promise!Get(t)
    BY <1>2, <2>1 DEF Promise!Get, Promise!Give
  <2>3. QED
    BY <2>2 DEF Promise!Next
<1>3. ASSUME NEW t \in Threads, ~ empty, UNCHANGED <<items_, put_waiters_>>,
             got' = [got EXCEPT ![t] = Head(items_)]
      PROVE  Promise!Next
  <2>1. items_ \o Blocked # << >> /\ Head(items_ \o Blocked) = Head(items_)
    BY <1>0, <1>3, HeadTailConcat DEF empty
  <2>2. items_' \o Blocked' = items_ \o Blocked
    BY <1>3 DEF Blocked
  <2>3. Promise!Peek(t)
    BY <1>3, <2>1, <2>2 DEF Promise!Peek, Promise!Give
  <2>4. QED
    BY <2>3 DEF Promise!Next
<1>4. ASSUME NEW t \in Threads, NEW is_peek, Wait(t, is_peek),
             UNCHANGED <<items_, put_waiters_>>
      PROVE  Promise!Next
  <2>1. items_' \o Blocked' = items_ \o Blocked
    BY <1>4 DEF Blocked
  <2>2. Promise!Ask(t)
    BY <1>4, <2>1 DEF Promise!Ask, Wait
  <2>3. QED
    BY <2>2 DEF Promise!Next
<1>5. ASSUME NEW t \in Threads, get(t) \/ try_get(t)
      PROVE  Promise!Next
  <2>1. CASE Take(t) /\ UNCHANGED <<put_waiters_, puts>>
    BY <2>1, <1>2 DEF Take
  <2>2. CASE Wait(t, FALSE) /\ UNCHANGED <<items_, put_waiters_>>
    BY <2>2, <1>4
  <2>3. QED
    BY <1>5, <2>1, <2>2 DEF get, try_get
<1>6. ASSUME NEW t \in Threads, peek(t) \/ try_peek(t)
      PROVE  Promise!Next
  <2>1. UNCHANGED <<items_, put_waiters_>>
    BY <1>6 DEF peek, try_peek
  <2>2. CASE ~ empty /\ got' = [got EXCEPT ![t] = Head(items_)]
    BY <2>1, <2>2, <1>3
  <2>3. CASE Wait(t, TRUE)
    BY <2>1, <2>3, <1>4
  <2>4. QED
    BY <1>6, <2>2, <2>3 DEF peek, try_peek
<1>7. CASE GetTurn
  <2> DEFINE w == Head(get_waiters_)
  <2>1. get_waiters_ \in Seq(Waiter) /\ get_waiters_ # << >>
    BY <1>7 DEF IInv, TypeOK, GetTurn
  <2>2. w \in Waiter
    BY <2>1, HeadTail
  <2>3. w.thr \in Threads
    BY <2>2 DEF Waiter
  <2>4. /\ ~ empty /\ got' = [got EXCEPT ![w.thr] = Head(items_)]
        /\ UNCHANGED <<put_waiters_, puts>>
    BY <1>7 DEF GetTurn
  <2>5. CASE w.is_peek
    BY <1>7, <2>3, <2>4, <2>5, <1>3 DEF GetTurn
  <2>6. CASE ~ w.is_peek
    <3>1. items_' = Tail(items_) /\ taken' = Append(taken, Head(items_))
      BY <1>7, <2>6 DEF GetTurn
    <3>2. QED
      BY <2>3, <2>4, <3>1, <1>2
  <2>7. QED
    BY <2>5, <2>6
<1>8. CASE PutTurn
  BY <1>8, PutTurnItems DEF PutTurn, Promise!vars
<1>9. CASE \/ GetScheduled \/ Return \/ Dispatch
           \/ \E t \in Threads : Pause(t)
           \/ UNCHANGED vars
  <2>1. UNCHANGED <<items_, put_waiters_, got>>
    BY <1>9 DEF GetScheduled, Return, Dispatch, Pause, vars
  <2>2. QED
    BY <2>1 DEF Blocked, Promise!vars
<1>10. QED
  BY <1>1, <1>5, <1>6, <1>7, <1>8, <1>9 DEF Next

(* vvp_mailbox with its two lists of waiters and its nested resume         *)
(* functions implements a FIFO channel, whatever its bound.                *)
THEOREM MailboxIsAChannel == Spec => IsAChannel
  BY ChannelInit, ChannelNext, MailboxInvariant, PTL DEF Spec, IsAChannel, Promise!Spec

-----------------------------------------------------------------------------
(* How often a thread is in a list.                                        *)

At(s, t) == {i \in DOMAIN s : s[i] = t}

Times(s, t) == Cardinality(At(s, t))

LEMMA TimesType ==
  ASSUME NEW S, NEW s \in Seq(S), NEW t
  PROVE  /\ IsFiniteSet(At(s, t)) /\ Times(s, t) \in Nat
         /\ Times(s, t) = 0 <=> \A i \in DOMAIN s : s[i] # t
<1>1. Len(s) \in Nat /\ DOMAIN s = 1..Len(s)
  OBVIOUS
<1>2. IsFiniteSet(1..Len(s))
  BY <1>1, FS_Interval
<1>3. At(s, t) \in SUBSET (1..Len(s))
  BY <1>1 DEF At
<1>4. IsFiniteSet(At(s, t))
  BY <1>2, <1>3, FS_Subset
<1>5. Times(s, t) \in Nat
  BY <1>4, FS_CardinalityType DEF Times
<1>6. Times(s, t) = 0 <=> At(s, t) = {}
  BY <1>4, FS_EmptySet DEF Times
<1>7. At(s, t) = {} <=> \A i \in DOMAIN s : s[i] # t
  BY DEF At
<1>8. QED
  BY <1>4, <1>5, <1>6, <1>7

LEMMA TimesOne ==
  ASSUME NEW x, NEW t
  PROVE  Times(<<x>>, t) = IF x = t THEN 1 ELSE 0
<1>1. DOMAIN <<x>> = {1} /\ <<x>>[1] = x
  OBVIOUS
<1>2. At(<<x>>, t) = IF x = t THEN {1} ELSE {}
  BY <1>1 DEF At
<1>3. Cardinality({1}) = 1 /\ Cardinality({}) = 0
  BY FS_Singleton, FS_EmptySet
<1>4. QED
  BY <1>2, <1>3 DEF Times

LEMMA TimesNone ==
  ASSUME NEW t
  PROVE  Times(<< >>, t) = 0
<1>1. At(<< >>, t) = {}
  BY DEF At
<1>2. QED
  BY <1>1, FS_EmptySet DEF Times

LEMMA TimesConcat ==
  ASSUME NEW S, NEW r \in Seq(S), NEW s \in Seq(S), NEW t
  PROVE  Times(r \o s, t) = Times(r, t) + Times(s, t)
<1> DEFINE n == Len(r)
           A == At(r, t)
           B == At(s, t)
           f == [i \in B |-> i + n]
           C == {i + n : i \in B}
<1>1. /\ n \in Nat /\ Len(s) \in Nat /\ DOMAIN r = 1..n /\ DOMAIN s = 1..Len(s)
      /\ r \o s \in Seq(S) /\ DOMAIN (r \o s) = 1..(n + Len(s))
      /\ \A i \in 1..n : (r \o s)[i] = r[i]
      /\ \A i \in 1..Len(s) : (r \o s)[i + n] = s[i]
  <2>1. /\ n \in Nat /\ Len(s) \in Nat /\ DOMAIN r = 1..n /\ DOMAIN s = 1..Len(s)
        /\ r \o s \in Seq(S) /\ Len(r \o s) = n + Len(s)
    OBVIOUS
  <2>2. /\ \A i \in 1..n : (r \o s)[i] = r[i]
        /\ \A i \in 1..Len(s) : (r \o s)[i + n] = s[i]
    OBVIOUS
  <2>3. QED
    BY <2>1, <2>2
<1>2. A \subseteq 1..n /\ B \subseteq 1..Len(s)
  BY <1>1 DEF At
<1>3. At(r \o s, t) = A \cup C
  <2>1. ASSUME NEW i \in At(r \o s, t) PROVE i \in A \cup C
    <3>1. i \in 1..(n + Len(s)) /\ (r \o s)[i] = t
      BY <1>1 DEF At
    <3>2. CASE i <= n
      BY <1>1, <3>1, <3>2 DEF At
    <3>3. CASE i > n
      <4>1. i - n \in 1..Len(s) /\ (i - n) + n = i
        BY <1>1, <3>1, <3>3
      <4>2. s[i - n] = t
        BY <1>1, <3>1, <4>1
      <4>3. i - n \in B
        BY <1>1, <4>1, <4>2 DEF At
      <4>4. QED
        BY <4>1, <4>3
    <3>4. QED
      BY <1>1, <3>1, <3>2, <3>3
  <2>2. A \subseteq At(r \o s, t)
    BY <1>1 DEF At
  <2>3. ASSUME NEW i \in B PROVE i + n \in At(r \o s, t)
    <3>1. i \in 1..Len(s) /\ s[i] = t
      BY <1>1 DEF At
    <3>2. i + n \in 1..(n + Len(s)) /\ (r \o s)[i + n] = t
      BY <1>1, <3>1
    <3>3. QED
      BY <1>1, <3>2 DEF At
  <2>4. QED
    BY <2>1, <2>2, <2>3
<1>4. A \cap C = {}
  BY <1>1, <1>2
<1>5. /\ IsFiniteSet(A) /\ IsFiniteSet(B) /\ Cardinality(A) = Times(r, t)
      /\ Cardinality(B) = Times(s, t) /\ Times(r, t) \in Nat /\ Times(s, t) \in Nat
  BY TimesType DEF Times
<1>6. f \in Bijection(B, C)
  <2>1. \A i \in B : i \in Int
    BY <1>2
  <2>2. f \in [B -> C]
    OBVIOUS
  <2>3. \A i, j \in B : f[i] = f[j] => i = j
    BY <1>1, <2>1
  <2>4. \A c \in C : \E i \in B : f[i] = c
    OBVIOUS
  <2>5. QED
    BY <2>2, <2>3, <2>4 DEF Bijection, Injection, Surjection, IsInjective
<1>7. IsFiniteSet(C) /\ Cardinality(C) = Cardinality(B)
  <2>1. ExistsBijection(B, C)
    BY <1>6 DEF ExistsBijection
  <2> HIDE DEF B, C
  <2>2. QED
    BY <1>5, <2>1, FS_Bijection
<1> HIDE DEF A, B, C
<1>8. Cardinality(A \cup C) = Cardinality(A) + Cardinality(C) - 0
  BY <1>4, <1>5, <1>7, FS_Union, FS_EmptySet
<1>9. QED
  BY <1>3, <1>5, <1>7, <1>8 DEF Times

LEMMA TimesAppend ==
  ASSUME NEW S, NEW s \in Seq(S), NEW x \in S, NEW t
  PROVE  Times(Append(s, x), t) = Times(s, t) + IF x = t THEN 1 ELSE 0
<1>1. <<x>> \in Seq(S) /\ Append(s, x) = s \o <<x>>
  BY AppendIsConcat
<1>2. Times(s \o <<x>>, t) = Times(s, t) + Times(<<x>>, t)
  BY <1>1, TimesConcat
<1>3. Times(<<x>>, t) = IF x = t THEN 1 ELSE 0
  BY TimesOne
<1>4. QED
  BY <1>1, <1>2, <1>3

LEMMA TimesFront ==
  ASSUME NEW S, NEW s \in Seq(S), NEW x \in S, NEW t
  PROVE  Times(<<x>> \o s, t) = Times(s, t) + IF x = t THEN 1 ELSE 0
<1>1. <<x>> \in Seq(S)
  OBVIOUS
<1>2. Times(<<x>> \o s, t) = Times(<<x>>, t) + Times(s, t)
  BY <1>1, TimesConcat
<1>3. QED
  BY <1>2, TimesOne, TimesType

LEMMA TimesTail ==
  ASSUME NEW S, NEW s \in Seq(S), s # << >>, NEW t
  PROVE  Times(s, t) = Times(Tail(s), t) + IF Head(s) = t THEN 1 ELSE 0
<1>1. Head(s) \in S /\ Tail(s) \in Seq(S) /\ s = <<Head(s)>> \o Tail(s)
  BY HeadTail
<1> DEFINE h == Head(s)
           r == Tail(s)
<1> HIDE DEF h, r
<1>2. h \in S /\ r \in Seq(S) /\ s = <<h>> \o r
  BY <1>1 DEF h, r
<1>3. Times(s, t) = Times(r, t) + IF h = t THEN 1 ELSE 0
  BY <1>2, TimesFront
<1>4. QED
  BY <1>3 DEF h, r

-----------------------------------------------------------------------------
(* Each thread is in one place.                                            *)

ThrOf(w) == [i \in DOMAIN w |-> w[i].thr]

HeldBy(s) == [i \in DOMAIN s |-> s[i].waiter]

Owner == Threads \cup {None}

(* The places of t. *)
Places(t) ==
  Times(<<running>>, t) + Times(ready, t) + Times(ThrOf(get_waiters_), t)
    + Times(ThrOf(put_waiters_), t) + Times(HeldBy(stack), t)

LEMMA ThrOfType ==
  ASSUME NEW W, \A x \in W : x.thr \in Threads, NEW w \in Seq(W)
  PROVE  ThrOf(w) \in Seq(Threads) /\ Len(ThrOf(w)) = Len(w)
<1>1. Len(w) \in Nat /\ DOMAIN w = 1..Len(w) /\ \A i \in DOMAIN w : w[i] \in W
  OBVIOUS
<1>2. ThrOf(w) \in [1..Len(w) -> Threads]
  BY <1>1 DEF ThrOf
<1>3. QED
  BY <1>1, <1>2, FunctionIsSequence

LEMMA ThrOfAppend ==
  ASSUME NEW W, \A x \in W : x.thr \in Threads, NEW w \in Seq(W), NEW x \in W
  PROVE  ThrOf(Append(w, x)) = Append(ThrOf(w), x.thr)
<1>1. /\ Append(w, x) \in Seq(W) /\ Len(Append(w, x)) = Len(w) + 1 /\ Len(w) \in Nat
      /\ \A i \in 1..Len(w) : Append(w, x)[i] = w[i]
      /\ Append(w, x)[Len(w) + 1] = x
  OBVIOUS
<1>2. QED
  BY <1>1, ThrOfType DEF ThrOf

LEMMA ThrOfTail ==
  ASSUME NEW W, \A x \in W : x.thr \in Threads, NEW w \in Seq(W), w # << >>
  PROVE  /\ Head(w).thr \in Threads /\ ThrOf(Tail(w)) \in Seq(Threads)
         /\ ThrOf(w) = <<Head(w).thr>> \o ThrOf(Tail(w))
<1>1. /\ Tail(w) \in Seq(W) /\ Len(Tail(w)) = Len(w) - 1 /\ Len(w) \in Nat \ {0}
      /\ \A i \in 1..(Len(w) - 1) : Tail(w)[i] = w[i + 1]
      /\ Head(w) = w[1] /\ w[1] \in W
  OBVIOUS
<1>2. /\ ThrOf(w) \in Seq(Threads) /\ Len(ThrOf(w)) = Len(w)
      /\ ThrOf(Tail(w)) \in Seq(Threads) /\ Len(ThrOf(Tail(w))) = Len(w) - 1
  BY <1>1, ThrOfType
<1>3. /\ \A i \in 1..Len(w) : ThrOf(w)[i] = w[i].thr
      /\ \A i \in 1..(Len(w) - 1) : ThrOf(Tail(w))[i] = w[i + 1].thr
  BY <1>1 DEF ThrOf
<1>4. Head(w).thr \in Threads
  BY <1>1
<1>5. ThrOf(w) = <<Head(w).thr>> \o ThrOf(Tail(w))
  <2>1. PICK a \in Seq(Threads), b \in Seq(Threads), h \in Threads :
          a = ThrOf(w) /\ b = ThrOf(Tail(w)) /\ h = Head(w).thr
    BY <1>2, <1>4
  <2>2. Len(w) \in Nat \ {0} /\ Len(a) = Len(w) /\ Len(b) = Len(w) - 1
    BY <1>1, <1>2, <2>1, Zenon
  <2>3. \A i \in 2..Len(w) : a[i] = b[i - 1]
    <3> SUFFICES ASSUME NEW i \in 2..Len(w) PROVE a[i] = b[i - 1]
      OBVIOUS
    <3>1. i - 1 \in 1..(Len(w) - 1) /\ i - 1 + 1 = i /\ i \in 1..Len(w)
      BY <2>2
    <3>2. b[i - 1] = w[i - 1 + 1].thr
      BY <1>3, <2>1, <3>1, Zenon
    <3>3. a[i] = w[i].thr
      BY <1>3, <2>1, <3>1, Zenon
    <3>4. QED
      BY <3>1, <3>2, <3>3
  <2>4. PICK c : c = <<h>> \o b
    OBVIOUS
  <2>5. /\ c \in Seq(Threads) /\ Len(c) = Len(w) /\ c[1] = h
        /\ \A i \in 2..Len(w) : c[i] = b[i - 1]
    BY <2>2, <2>4
  <2>6. a = c
    <3>0. a[1] = h
      <4>1. 1 \in 1..Len(w)
        BY <2>2
      <4>2. QED
        BY <1>1, <1>3, <2>1, <4>1, Zenon
    <3>1. \A i \in 1..Len(w) : a[i] = c[i]
      BY <2>2, <2>3, <2>5, <3>0
    <3>2. QED
      BY <2>2, <2>5, <3>1, SeqEqual
  <2>7. QED
    BY <2>1, <2>4, <2>6
<1>6. QED
  BY <1>2, <1>4, <1>5

LEMMA HeldByType ==
  ASSUME NEW s \in Seq(Frame)
  PROVE  HeldBy(s) \in Seq(Owner)
<1>1. \A x \in Frame : x.waiter \in Owner
  BY DEF Frame, Owner
<1>2. Len(s) \in Nat /\ DOMAIN s = 1..Len(s) /\ \A i \in DOMAIN s : s[i] \in Frame
  OBVIOUS
<1>3. HeldBy(s) \in [1..Len(s) -> Owner]
  BY <1>1, <1>2 DEF HeldBy
<1>4. QED
  BY <1>2, <1>3, FunctionIsSequence

(* What the shapes of the stack hold. *)
LEMMA HeldShapes ==
  ASSUME NEW t \in Threads
  PROVE  /\ Times(HeldBy(<< >>), t) = 0
         /\ \A f \in Frame : Times(HeldBy(<<f>>), t) = IF f.waiter = t THEN 1 ELSE 0
         /\ \A f, g \in Frame :
              Times(HeldBy(<<f, g>>), t)
                = (IF f.waiter = t THEN 1 ELSE 0) + (IF g.waiter = t THEN 1 ELSE 0)
<1>1. Times(HeldBy(<< >>), t) = 0
  <2>1. HeldBy(<< >>) = << >>
    BY DEF HeldBy
  <2>2. QED
    BY <2>1, TimesNone
<1>2. ASSUME NEW f \in Frame
      PROVE  HeldBy(<<f>>) = <<f.waiter>>
  BY DEF HeldBy
<1>3. ASSUME NEW f \in Frame, NEW g \in Frame
      PROVE  HeldBy(<<f, g>>) = <<f.waiter, g.waiter>>
  BY DEF HeldBy
<1>4. ASSUME NEW f \in Frame
      PROVE  Times(HeldBy(<<f>>), t) = IF f.waiter = t THEN 1 ELSE 0
  <2>1. Times(<<f.waiter>>, t) = IF f.waiter = t THEN 1 ELSE 0
    BY TimesOne
  <2>2. QED
    BY <1>2, <2>1, Zenon
<1>5. ASSUME NEW f \in Frame, NEW g \in Frame
      PROVE  Times(HeldBy(<<f, g>>), t)
                = (IF f.waiter = t THEN 1 ELSE 0) + (IF g.waiter = t THEN 1 ELSE 0)
  <2> DEFINE x == f.waiter
             y == g.waiter
  <2>1. x \in Owner /\ y \in Owner
    BY DEF Frame, Owner
  <2>2. HeldBy(<<f, g>>) = <<x, y>>
    BY <1>3
  <2> HIDE DEF x, y
  <2>3. <<x, y>> = Append(<<x>>, y) /\ <<x>> \in Seq(Owner)
    BY <2>1, AppendPair
  <2>4. Times(Append(<<x>>, y), t) = Times(<<x>>, t) + IF y = t THEN 1 ELSE 0
    <3>1. \A s \in Seq(Owner) : Times(Append(s, y), t) = Times(s, t) + IF y = t THEN 1 ELSE 0
      BY <2>1, TimesAppend
    <3>2. QED
      BY <2>3, <3>1
  <2>5. Times(<<x>>, t) = IF x = t THEN 1 ELSE 0
    BY TimesOne
  <2>6. Times(HeldBy(<<f, g>>), t) = (IF x = t THEN 1 ELSE 0) + (IF y = t THEN 1 ELSE 0)
    BY <2>2, <2>3, <2>4, <2>5
  <2>7. QED
    BY <2>6 DEF x, y
<1>6. QED
  BY <1>1, <1>4, <1>5

LEMMA ListTypes ==
  ASSUME TypeOK
  PROVE  /\ <<running>> \in Seq(Owner) /\ ready \in Seq(Threads) /\ ready \in Seq(Owner)
         /\ get_waiters_ \in Seq(Waiter) /\ put_waiters_ \in Seq(PutWaiter)
         /\ ThrOf(get_waiters_) \in Seq(Threads) /\ ThrOf(get_waiters_) \in Seq(Owner)
         /\ ThrOf(put_waiters_) \in Seq(Threads) /\ ThrOf(put_waiters_) \in Seq(Owner)
         /\ HeldBy(stack) \in Seq(Owner)
         /\ \A x \in Waiter : x.thr \in Threads
         /\ \A x \in PutWaiter : x.thr \in Threads
<1>1. /\ \A x \in Waiter : x.thr \in Threads
      /\ \A x \in PutWaiter : x.thr \in Threads
  BY DEF Waiter, PutWaiter
<1>2. /\ get_waiters_ \in Seq(Waiter) /\ put_waiters_ \in Seq(PutWaiter)
      /\ stack \in Seq(Frame) /\ ready \in Seq(Threads) /\ running \in Owner
  BY DEF TypeOK, Owner
<1>3. /\ ThrOf(get_waiters_) \in Seq(Threads) /\ ThrOf(put_waiters_) \in Seq(Threads)
      /\ HeldBy(stack) \in Seq(Owner)
  BY <1>1, <1>2, ThrOfType, HeldByType
<1>4. \A s \in Seq(Threads) : s \in Seq(Owner)
  BY DEF Owner
<1>5. QED
  BY <1>1, <1>2, <1>3, <1>4

LEMMA PlacesTypes ==
  ASSUME TypeOK, NEW t
  PROVE  /\ Times(<<running>>, t) \in Nat /\ Times(ready, t) \in Nat
         /\ Times(ThrOf(get_waiters_), t) \in Nat /\ Times(ThrOf(put_waiters_), t) \in Nat
         /\ Times(HeldBy(stack), t) \in Nat
  BY ListTypes, TimesType

LEMMA OnePlaceIsPlaces ==
  ASSUME TypeOK
  PROVE  OnePlace <=> \A t \in Threads : Places(t) = 1
<1> DEFINE a == <<running>>
           g == ThrOf(get_waiters_)
           p == ThrOf(put_waiters_)
           h == HeldBy(stack)
           all == a \o ready \o g \o p \o h
<1>1. /\ a \in Seq(Owner) /\ ready \in Seq(Owner) /\ g \in Seq(Owner)
      /\ p \in Seq(Owner) /\ h \in Seq(Owner)
  BY ListTypes
<1>2. OnePlace <=> \A t \in Threads : Times(all, t) = 1
  BY DEF OnePlace, Times, At, ThrOf, HeldBy
<1>3. ASSUME NEW t \in Threads PROVE Times(all, t) = Places(t)
  <2> HIDE DEF a, g, p, h
  <2>1. /\ a \o ready \in Seq(Owner) /\ a \o ready \o g \in Seq(Owner)
        /\ a \o ready \o g \o p \in Seq(Owner)
    BY <1>1
  <2>2. /\ Times(a \o ready, t) = Times(a, t) + Times(ready, t)
        /\ Times((a \o ready) \o g, t) = Times(a \o ready, t) + Times(g, t)
        /\ Times((a \o ready \o g) \o p, t) = Times(a \o ready \o g, t) + Times(p, t)
        /\ Times((a \o ready \o g \o p) \o h, t)
             = Times(a \o ready \o g \o p, t) + Times(h, t)
    BY <1>1, <2>1, TimesConcat
  <2>3. Times(all, t) = Times(a, t) + Times(ready, t) + Times(g, t) + Times(p, t) + Times(h, t)
    BY <2>2
  <2>4. QED
    BY <2>3 DEF Places, a, g, p, h
<1> HIDE DEF all
<1>4. QED
  BY <1>2, <1>3

(* A waiter of get_waiters_ in terms of the count. *)
LEMMA AnsweredIsCounted ==
  ASSUME TypeOK
  PROVE  Answered <=> \A t \in Threads : got[t] = None <=> Times(ThrOf(get_waiters_), t) # 0
<1>1. ASSUME NEW t \in Threads
      PROVE  Times(ThrOf(get_waiters_), t) # 0
               <=> \E i \in DOMAIN get_waiters_ : get_waiters_[i].thr = t
  <2>1. Times(ThrOf(get_waiters_), t) = 0
          <=> \A i \in DOMAIN ThrOf(get_waiters_) : ThrOf(get_waiters_)[i] # t
    BY ListTypes, TimesType
  <2>2. DOMAIN ThrOf(get_waiters_) = DOMAIN get_waiters_
    BY DEF ThrOf
  <2>3. \A i \in DOMAIN get_waiters_ : ThrOf(get_waiters_)[i] = get_waiters_[i].thr
    BY DEF ThrOf
  <2>4. QED
    BY <2>1, <2>2, <2>3
<1>2. QED
  BY <1>1 DEF Answered

-----------------------------------------------------------------------------
(* The steps, what they do to the places of a thread.                      *)

PlacedInv == IInv /\ OnePlace /\ Answered

LEMMA InitPlaced == Init => OnePlace /\ Answered
<1> SUFFICES ASSUME Init PROVE OnePlace /\ Answered
  OBVIOUS
<1>1. TypeOK
  BY InitIInv DEF IInv
<1> DEFINE n == Cardinality(Threads)
<1>2. IsFiniteSet(Threads) /\ n \in Nat
  BY MailboxAssumption, FS_CardinalityType
<1>3. ready \in [1..n -> Threads] /\ \A i, j \in 1..n : i # j => ready[i] # ready[j]
  BY DEF Init, SetToSeqs
<1>4. ready \in Injection(1..n, Threads)
  BY <1>3 DEF Injection, IsInjective
<1>5. Cardinality(1..n) = n
  BY <1>2, FS_Interval
<1>6. ready \in Surjection(1..n, Threads)
  BY <1>2, <1>4, <1>5, FS_Injection
<1>7. ASSUME NEW t \in Threads PROVE Places(t) = 1 /\ Times(ThrOf(get_waiters_), t) = 0
  <2>1. PICK k \in 1..n : ready[k] = t
    BY <1>6 DEF Surjection
  <2>2. At(ready, t) = {k}
    BY <1>3, <2>1 DEF At
  <2>3. Times(ready, t) = 1
    BY <2>2, FS_Singleton DEF Times
  <2>4. t # None /\ running = None
    BY MailboxAssumption DEF Init
  <2>5. Times(<<running>>, t) = 0
    <3>1. Times(<<None>>, t) = IF None = t THEN 1 ELSE 0
      BY TimesOne
    <3>2. QED
      BY <2>4, <3>1
  <2>6. /\ ThrOf(get_waiters_) = << >> /\ ThrOf(put_waiters_) = << >>
        /\ HeldBy(stack) = << >>
    BY DEF Init, ThrOf, HeldBy
  <2>7. QED
    BY <2>3, <2>5, <2>6, TimesNone DEF Places
<1>8. OnePlace
  BY <1>1, <1>7, OnePlaceIsPlaces
<1>9. \A t \in Threads : got[t] # None
  BY MailboxAssumption DEF Init
<1>10. Answered
  BY <1>1, <1>7, <1>9, AnsweredIsCounted
<1>11. QED
  BY <1>8, <1>10

(* The steps keep both properties when no thread changes its number of     *)
(* places and got follows get_waiters_.                                    *)
LEMMA PlacedFrame ==
  ASSUME TypeOK, TypeOK', OnePlace, Answered,
         \A t \in Threads : Places(t)' = Places(t),
         \A t \in Threads :
           \/ /\ got'[t] = None <=> got[t] = None
              /\ Times(ThrOf(get_waiters_), t)' = Times(ThrOf(get_waiters_), t)
           \/ /\ got'[t] = None
              /\ Times(ThrOf(get_waiters_), t)' # 0
           \/ /\ got'[t] # None
              /\ Times(ThrOf(get_waiters_), t)' = 0
  PROVE  OnePlace' /\ Answered'
<1>1. TypeOK' => (OnePlace' <=> (\A t \in Threads : Places(t) = 1)')
  BY OnePlaceIsPlaces, PTL
<1>2. TypeOK' => (Answered' <=> (\A t \in Threads : got[t] = None
                                   <=> Times(ThrOf(get_waiters_), t) # 0)')
  BY AnsweredIsCounted, PTL
<1>3. \A t \in Threads : Places(t) = 1
  BY OnePlaceIsPlaces
<1>4. \A t \in Threads : got[t] = None <=> Times(ThrOf(get_waiters_), t) # 0
  BY AnsweredIsCounted
<1>5. OnePlace'
  BY <1>1, <1>3
<1>6. Answered'
  BY <1>2, <1>4
<1>7. QED
  BY <1>5, <1>6

(* The places that are counted one by one. *)
LEMMA Counts ==
  ASSUME NEW t \in Threads
  PROVE  /\ Times(<<running>>, t) = IF running = t THEN 1 ELSE 0
         /\ Times(<<running>>, t)' = IF running' = t THEN 1 ELSE 0
         /\ \A s \in Seq(Threads), x \in Threads :
              /\ Times(Append(s, x), t) = Times(s, t) + IF x = t THEN 1 ELSE 0
              /\ Times(<<x>> \o s, t) = Times(s, t) + IF x = t THEN 1 ELSE 0
         /\ \A s \in Seq(Threads) :
              s # << >> => Times(s, t) = Times(Tail(s), t) + IF Head(s) = t THEN 1 ELSE 0
<1>1. /\ Times(<<running>>, t) = IF running = t THEN 1 ELSE 0
      /\ Times(<<running'>>, t) = IF running' = t THEN 1 ELSE 0
  BY TimesOne
<1>2. Times(<<running>>, t)' = Times(<<running'>>, t)
  BY DEF Times, At
<1>3. QED
  BY <1>1, <1>2, TimesAppend, TimesFront, TimesTail

(* The stacks, and the thread that each of them holds. *)
LEMMA HeldCounts ==
  ASSUME NEW t \in Threads
  PROVE  /\ Times(HeldBy(<< >>), t) = 0
         /\ Times(HeldBy(<<resume_get_waiters_>>), t) = 0
         /\ Times(HeldBy(<<resume_put_waiters_>>), t) = 0
         /\ Times(HeldBy(<<resume_put_waiters_, resume_get_waiters_>>), t) = 0
         /\ \A w \in Threads :
              /\ Times(HeldBy(<<Holding(w)>>), t) = IF w = t THEN 1 ELSE 0
              /\ Times(HeldBy(<<Holding(w), resume_put_waiters_>>), t) = IF w = t THEN 1 ELSE 0
<1>1. t # None
  BY MailboxAssumption
<1>2. ASSUME NEW w \in Threads
      PROVE  /\ Times(HeldBy(<<Holding(w)>>), t) = IF w = t THEN 1 ELSE 0
             /\ Times(HeldBy(<<Holding(w), resume_put_waiters_>>), t) = IF w = t THEN 1 ELSE 0
  <2>1. Holding(w) \in Frame /\ Holding(w).waiter = w /\ resume_put_waiters_ \in Frame
    BY FrameTypes
  <2>2. /\ Times(HeldBy(<<Holding(w)>>), t) = IF Holding(w).waiter = t THEN 1 ELSE 0
        /\ Times(HeldBy(<<Holding(w), resume_put_waiters_>>), t)
             = (IF Holding(w).waiter = t THEN 1 ELSE 0)
                 + (IF resume_put_waiters_.waiter = t THEN 1 ELSE 0)
    BY <2>1, HeldShapes
  <2>3. QED
    BY <1>1, <2>1, <2>2, FrameTypes
<1>3. /\ Times(HeldBy(<<resume_get_waiters_>>), t)
           = IF resume_get_waiters_.waiter = t THEN 1 ELSE 0
      /\ Times(HeldBy(<<resume_put_waiters_>>), t)
           = IF resume_put_waiters_.waiter = t THEN 1 ELSE 0
      /\ Times(HeldBy(<<resume_put_waiters_, resume_get_waiters_>>), t)
           = (IF resume_put_waiters_.waiter = t THEN 1 ELSE 0)
               + (IF resume_get_waiters_.waiter = t THEN 1 ELSE 0)
  BY FrameTypes, HeldShapes
<1>4. QED
  BY <1>1, <1>2, <1>3, FrameTypes, HeldShapes

(* A running thread is nowhere else. *)
LEMMA RunningOnly ==
  ASSUME TypeOK, OnePlace, NEW t \in Threads, running = t
  PROVE  /\ Times(ready, t) = 0 /\ Times(ThrOf(get_waiters_), t) = 0
         /\ Times(ThrOf(put_waiters_), t) = 0
<1>1. Places(t) = 1
  BY OnePlaceIsPlaces
<1>2. Times(<<running>>, t) = 1
  BY Counts
<1>3. QED
  BY <1>1, <1>2, PlacesTypes DEF Places

(* A call that returns at once, and the resume function it starts. *)
LEMMA NowPlaced ==
  ASSUME PlacedInv, IInv', NEW t \in Threads, Calls(t),
         stack' \in {<< >>, <<resume_get_waiters_>>, <<resume_put_waiters_>>},
         UNCHANGED <<get_waiters_, put_waiters_, running, ready>>,
         \/ UNCHANGED got
         \/ ~ empty /\ got' = [got EXCEPT ![t] = Head(items_)]
  PROVE  OnePlace' /\ Answered'
<1>1. TypeOK /\ TypeOK' /\ OnePlace /\ Answered
  BY DEF PlacedInv, IInv
<1>2. stack = << >> /\ running = t
  BY DEF Calls
<1>3. ASSUME NEW u \in Threads
      PROVE  Places(u)' = Places(u)
                /\ Times(ThrOf(get_waiters_), u)' = Times(ThrOf(get_waiters_), u)
  <2>1. Times(HeldBy(stack'), u) = 0 /\ Times(HeldBy(stack), u) = 0
    BY <1>2, HeldCounts
  <2>2. /\ Times(<<running>>, u)' = Times(<<running>>, u)
        /\ Times(ready, u)' = Times(ready, u)
        /\ Times(ThrOf(get_waiters_), u)' = Times(ThrOf(get_waiters_), u)
        /\ Times(ThrOf(put_waiters_), u)' = Times(ThrOf(put_waiters_), u)
        /\ Times(HeldBy(stack), u)' = Times(HeldBy(stack'), u)
    BY DEF Times, At, ThrOf, HeldBy
  <2>3. QED
    BY <2>1, <2>2 DEF Places
<1>4. CASE UNCHANGED got
  BY <1>1, <1>3, <1>4, PlacedFrame
<1>5. CASE ~ empty /\ got' = [got EXCEPT ![t] = Head(items_)]
  <2>1. items_ \in Seq(1..MaxPuts) /\ items_ # << >> /\ got \in [Threads -> 0..MaxPuts \cup {None}]
    BY <1>1, <1>5 DEF TypeOK, empty
  <2>2. Head(items_) \in Nat /\ Head(items_) # None
    BY <2>1, HeadTail, MailboxAssumption
  <2>3. got'[t] # None /\ \A u \in Threads : u # t => got'[u] = got[u]
    BY <1>5, <2>1, <2>2
  <2>4. Times(ThrOf(get_waiters_), t)' = 0
    BY <1>1, <1>2, <1>3, RunningOnly
  <2>5. QED
    BY <1>1, <1>3, <2>3, <2>4, PlacedFrame
<1>6. QED
  BY <1>4, <1>5

(* What a step leaves alone. *)
LEMMA SamePlaces ==
  ASSUME NEW t
  PROVE  /\ ready' = ready => Times(ready, t)' = Times(ready, t)
         /\ running' = running => Times(<<running>>, t)' = Times(<<running>>, t)
         /\ get_waiters_' = get_waiters_
              => Times(ThrOf(get_waiters_), t)' = Times(ThrOf(get_waiters_), t)
         /\ put_waiters_' = put_waiters_
              => Times(ThrOf(put_waiters_), t)' = Times(ThrOf(put_waiters_), t)
         /\ stack' = stack => Times(HeldBy(stack), t)' = Times(HeldBy(stack), t)
         /\ Times(ready, t)' = Times(ready', t)
         /\ Times(ThrOf(get_waiters_), t)' = Times(ThrOf(get_waiters_'), t)
         /\ Times(ThrOf(put_waiters_), t)' = Times(ThrOf(put_waiters_'), t)
         /\ Times(HeldBy(stack), t)' = Times(HeldBy(stack'), t)
  BY DEF Times, At, ThrOf, HeldBy

(* put() on a full mailbox. *)
LEMMA BlockPlaced ==
  ASSUME PlacedInv, IInv', NEW t \in Threads, Calls(t), NEW e \in 1..MaxPuts,
         put_waiters_' = Append(put_waiters_, [thr |-> t, item |-> e]),
         running' = None, UNCHANGED <<get_waiters_, stack, ready, got>>
  PROVE  OnePlace' /\ Answered'
<1>1. TypeOK /\ TypeOK' /\ OnePlace /\ Answered
  BY DEF PlacedInv, IInv
<1> DEFINE x == [thr |-> t, item |-> e]
<1>2. x \in PutWaiter /\ x.thr = t
  BY DEF PutWaiter
<1> HIDE DEF x
<1>3. ThrOf(put_waiters_') = Append(ThrOf(put_waiters_), t)
  <2>1. put_waiters_' = Append(put_waiters_, x)
    BY DEF x
  <2>2. ThrOf(Append(put_waiters_, x)) = Append(ThrOf(put_waiters_), x.thr)
    BY <1>1, <1>2, ListTypes, ThrOfAppend
  <2>3. QED
    BY <1>2, <2>1, <2>2
<1>4. ASSUME NEW u \in Threads
      PROVE  Places(u)' = Places(u)
  <2>1. Times(ThrOf(put_waiters_'), u)
          = Times(ThrOf(put_waiters_), u) + IF t = u THEN 1 ELSE 0
    <3>1. ThrOf(put_waiters_) \in Seq(Threads)
      BY <1>1, ListTypes
    <3>2. \A s \in Seq(Threads) : Times(Append(s, t), u) = Times(s, u) + IF t = u THEN 1 ELSE 0
      BY Counts
    <3>3. QED
      BY <1>3, <3>1, <3>2, Zenon
  <2>2. /\ Times(<<running>>, u) = IF t = u THEN 1 ELSE 0
        /\ Times(<<running>>, u)' = 0
    BY Counts, MailboxAssumption DEF Calls
  <2>3. QED
    BY <1>1, <2>1, <2>2, SamePlaces, PlacesTypes DEF Places
<1>5. QED
  BY <1>1, <1>4, SamePlaces, PlacedFrame

(* get() and peek() on an empty mailbox. *)
LEMMA WaitPlaced ==
  ASSUME PlacedInv, IInv', NEW t \in Threads, Calls(t), NEW is_peek \in BOOLEAN,
         Wait(t, is_peek), UNCHANGED <<put_waiters_, stack, ready>>
  PROVE  OnePlace' /\ Answered'
<1>1. TypeOK /\ TypeOK' /\ OnePlace /\ Answered
  BY DEF PlacedInv, IInv
<1> DEFINE x == [thr |-> t, is_peek |-> is_peek]
<1>2. x \in Waiter /\ x.thr = t
  BY DEF Waiter
<1>3. /\ get_waiters_' = Append(get_waiters_, x) /\ running' = None
      /\ got' = [got EXCEPT ![t] = None]
  BY DEF Wait
<1> HIDE DEF x
<1>4. ThrOf(get_waiters_') = Append(ThrOf(get_waiters_), t)
  <2>1. ThrOf(Append(get_waiters_, x)) = Append(ThrOf(get_waiters_), x.thr)
    BY <1>1, <1>2, ListTypes, ThrOfAppend
  <2>2. QED
    BY <1>2, <1>3, <2>1
<1>5. ASSUME NEW u \in Threads
      PROVE  /\ Places(u)' = Places(u)
             /\ Times(ThrOf(get_waiters_), u)'
                  = Times(ThrOf(get_waiters_), u) + IF t = u THEN 1 ELSE 0
  <2>1. Times(ThrOf(get_waiters_'), u)
          = Times(ThrOf(get_waiters_), u) + IF t = u THEN 1 ELSE 0
    <3>1. ThrOf(get_waiters_) \in Seq(Threads)
      BY <1>1, ListTypes
    <3>2. \A s \in Seq(Threads) : Times(Append(s, t), u) = Times(s, u) + IF t = u THEN 1 ELSE 0
      BY Counts
    <3>3. QED
      BY <1>4, <3>1, <3>2, Zenon
  <2>2. /\ Times(<<running>>, u) = IF t = u THEN 1 ELSE 0
        /\ Times(<<running>>, u)' = 0
    BY <1>3, Counts, MailboxAssumption DEF Calls
  <2>3. QED
    BY <1>1, <2>1, <2>2, SamePlaces, PlacesTypes DEF Places
<1>6. got'[t] = None /\ \A u \in Threads : u # t => got'[u] = got[u]
  BY <1>1, <1>3 DEF TypeOK
<1>7. Times(ThrOf(get_waiters_), t)' # 0
  BY <1>1, <1>5, PlacesTypes
<1>8. \A u \in Threads : u # t =>
        Times(ThrOf(get_waiters_), u)' = Times(ThrOf(get_waiters_), u)
  BY <1>1, <1>5, PlacesTypes
<1>9. QED
  BY <1>1, <1>5, <1>6, <1>7, <1>8, PlacedFrame

LEMMA GetTurnPlaced ==
  ASSUME PlacedInv, IInv', GetTurn
  PROVE  OnePlace' /\ Answered'
<1>1. TypeOK /\ TypeOK' /\ OnePlace /\ Answered /\ IInv
  BY DEF PlacedInv, IInv
<1> DEFINE w == Head(get_waiters_)
<1>2. stack = <<resume_get_waiters_>> /\ Below = << >>
  BY <1>1, GetTurnStack
<1>0. PICK t : t = w.thr
  OBVIOUS
<1>3. /\ get_waiters_ # << >> /\ ~ empty
      /\ got' = [got EXCEPT ![t] = Head(items_)]
      /\ get_waiters_' = Tail(get_waiters_)
      /\ UNCHANGED <<put_waiters_, running, puts>>
      /\ w.is_peek => ready' = <<t>> \o ready /\ stack' = stack
      /\ ~ w.is_peek => /\ stack' = Below \o <<[fn |-> "get", waiter |-> t], resume_put_waiters_>>
                        /\ ready' = ready
  BY <1>0 DEF GetTurn
<1>4. /\ t \in Threads
      /\ ThrOf(get_waiters_') \in Seq(Threads)
      /\ ThrOf(get_waiters_) = <<t>> \o ThrOf(get_waiters_')
  BY <1>0, <1>1, <1>3, ListTypes, ThrOfTail
<1>5. ~ w.is_peek => stack' = <<Holding(t), resume_put_waiters_>>
  BY <1>2, <1>3, <1>4, StackTypes DEF Holding
<1>6. ASSUME NEW u \in Threads
      PROVE  /\ Places(u)' = Places(u)
             /\ Times(ThrOf(get_waiters_), u)
                  = Times(ThrOf(get_waiters_'), u) + IF t = u THEN 1 ELSE 0
  <2>1. Times(ThrOf(get_waiters_), u)
          = Times(ThrOf(get_waiters_'), u) + IF t = u THEN 1 ELSE 0
    BY <1>4, Counts
  <2>2. Times(HeldBy(stack), u) = 0
    BY <1>2, HeldCounts
  <2>3. Times(ready', u) + Times(HeldBy(stack'), u)
          = Times(ready, u) + IF t = u THEN 1 ELSE 0
    <3>1. CASE w.is_peek
      <4>1. ready \in Seq(Threads) /\ Times(ready, u) \in Nat
        BY <1>1, ListTypes, PlacesTypes
      <4>2. Times(<<t>> \o ready, u) = Times(ready, u) + IF t = u THEN 1 ELSE 0
        BY <1>4, <4>1, Counts
      <4>3. Times(ready', u) = Times(ready, u) + IF t = u THEN 1 ELSE 0
        BY <1>3, <3>1, <4>2
      <4>4. Times(HeldBy(stack'), u) = 0
        BY <1>3, <2>2, <3>1
      <4>5. QED
        BY <4>1, <4>3, <4>4
    <3>2. CASE ~ w.is_peek
      BY <1>1, <1>3, <1>4, <1>5, <3>2, HeldCounts, PlacesTypes
    <3>3. QED
      BY <3>1, <3>2
  <2>4. /\ Times(ThrOf(get_waiters_'), u) \in Nat /\ Times(ready', u) \in Nat
        /\ Times(HeldBy(stack'), u) \in Nat
    <3>1. ready' \in Seq(Threads) /\ stack' \in Seq(Frame)
      BY <1>1 DEF TypeOK
    <3>2. QED
      BY <1>4, <3>1, TimesType, HeldByType
  <2>5. /\ Times(<<running>>, u)' = Times(<<running>>, u)
        /\ Times(ThrOf(put_waiters_), u)' = Times(ThrOf(put_waiters_), u)
    BY <1>3, SamePlaces
  <2>6. QED
    BY <1>1, <2>1, <2>2, <2>3, <2>4, <2>5, SamePlaces, PlacesTypes DEF Places
<1>7. got'[t] # None /\ \A u \in Threads : u # t => got'[u] = got[u]
  <2>1. items_ \in Seq(1..MaxPuts) /\ items_ # << >> /\ got \in [Threads -> 0..MaxPuts \cup {None}]
    BY <1>1, <1>3 DEF TypeOK, empty
  <2>2. Head(items_) \in Nat /\ Head(items_) # None
    BY <2>1, HeadTail, MailboxAssumption
  <2>3. QED
    BY <1>3, <1>4, <2>1, <2>2
<1>8. Times(ThrOf(get_waiters_), t)' = 0
  <2>1. Places(t) = 1
    BY <1>1, <1>4, OnePlaceIsPlaces
  <2>2. Times(ThrOf(get_waiters_'), t) \in Nat
    BY <1>4, TimesType
  <2>3. Times(ThrOf(get_waiters_), t) <= 1
    BY <1>1, <2>1, PlacesTypes DEF Places
  <2>4. QED
    BY <1>4, <1>6, <2>2, <2>3, SamePlaces
<1>9. ASSUME NEW u \in Threads, u # t
      PROVE  Times(ThrOf(get_waiters_), u)' = Times(ThrOf(get_waiters_), u)
  <2>1. Times(ThrOf(get_waiters_'), u) \in Nat
    BY <1>4, TimesType
  <2>2. QED
    BY <1>6, <1>9, <2>1, SamePlaces
<1>10. ASSUME NEW u \in Threads
       PROVE  \/ /\ got'[u] = None <=> got[u] = None
                 /\ Times(ThrOf(get_waiters_), u)' = Times(ThrOf(get_waiters_), u)
              \/ /\ got'[u] # None
                 /\ Times(ThrOf(get_waiters_), u)' = 0
  <2>1. CASE u = t
    BY <1>7, <1>8, <2>1, Zenon
  <2>2. CASE u # t
    BY <1>7, <1>9, <2>2, Zenon
  <2>3. QED
    BY <2>1, <2>2
<1>11. QED
  BY <1>1, <1>6, <1>10, PlacedFrame

(* The steps that leave get_waiters_ and got alone. *)
LEMMA GetScheduledPlaced ==
  ASSUME PlacedInv, IInv', GetScheduled
  PROVE  OnePlace' /\ Answered'
<1>1. TypeOK /\ TypeOK' /\ OnePlace /\ Answered /\ IInv
  BY DEF PlacedInv, IInv
<1>2. /\ ready' = <<Top.waiter>> \o ready /\ stack # << >> /\ Top.waiter # None
      /\ stack' = Append(Below, resume_get_waiters_)
      /\ UNCHANGED <<get_waiters_, put_waiters_, running, got>>
  BY DEF GetScheduled
<1>3. PICK w \in Threads : stack = <<Holding(w)>> /\ Top = Holding(w) /\ Below = << >>
  BY <1>1, <1>2, Shapes, FrameTypes
<1>4. stack' = <<resume_get_waiters_>> /\ ready' = <<w>> \o ready
  BY <1>2, <1>3, FrameTypes
<1>5. ASSUME NEW u \in Threads
      PROVE  Places(u)' = Places(u)
  <2>1. Times(HeldBy(stack), u) = (IF w = u THEN 1 ELSE 0) /\ Times(HeldBy(stack'), u) = 0
    BY <1>3, <1>4, HeldCounts
  <2>2. Times(ready', u) = Times(ready, u) + IF w = u THEN 1 ELSE 0
    BY <1>1, <1>4, ListTypes, Counts
  <2>3. QED
    BY <1>1, <1>2, <2>1, <2>2, SamePlaces, PlacesTypes DEF Places
<1>6. QED
  BY <1>1, <1>2, <1>5, SamePlaces, PlacedFrame

LEMMA PutTurnPlaced ==
  ASSUME PlacedInv, IInv', PutTurn
  PROVE  OnePlace' /\ Answered'
<1>1. TypeOK /\ TypeOK' /\ OnePlace /\ Answered /\ IInv
  BY DEF PlacedInv, IInv
<1> DEFINE w == Head(put_waiters_).thr
<1>2. /\ ready' = <<w>> \o ready /\ put_waiters_ # << >>
      /\ put_waiters_' = Tail(put_waiters_)
      /\ stack' = Append(stack, resume_get_waiters_)
      /\ UNCHANGED <<get_waiters_, running, got>>
  BY DEF PutTurn
<1>3. /\ stack = <<resume_put_waiters_>>
      /\ stack' = <<resume_put_waiters_, resume_get_waiters_>>
  BY <1>1, <1>2, PutTurnItems, FrameTypes, AppendPair
<1>4. /\ w \in Threads /\ ThrOf(put_waiters_') \in Seq(Threads)
      /\ ThrOf(put_waiters_) = <<w>> \o ThrOf(put_waiters_')
  BY <1>1, <1>2, ListTypes, ThrOfTail
<1> HIDE DEF w
<1>5. ASSUME NEW u \in Threads
      PROVE  Places(u)' = Places(u)
  <2>1. Times(HeldBy(stack), u) = 0 /\ Times(HeldBy(stack'), u) = 0
    BY <1>3, HeldCounts
  <2>2. Times(ready', u) = Times(ready, u) + IF w = u THEN 1 ELSE 0
    BY <1>1, <1>2, <1>4, ListTypes, Counts
  <2>3. Times(ThrOf(put_waiters_), u)
          = Times(ThrOf(put_waiters_'), u) + IF w = u THEN 1 ELSE 0
    BY <1>4, Counts
  <2>4. Times(ThrOf(put_waiters_'), u) \in Nat
    BY <1>4, TimesType
  <2>5. /\ Times(<<running>>, u)' = Times(<<running>>, u)
        /\ Times(ThrOf(get_waiters_), u)' = Times(ThrOf(get_waiters_), u)
        /\ Times(ready, u)' = Times(ready', u)
        /\ Times(ThrOf(put_waiters_), u)' = Times(ThrOf(put_waiters_'), u)
        /\ Times(HeldBy(stack), u)' = Times(HeldBy(stack'), u)
    BY <1>2, SamePlaces
  <2>6. QED
    BY <1>1, <2>1, <2>2, <2>3, <2>4, <2>5, PlacesTypes DEF Places
<1>6. QED
  BY <1>1, <1>2, <1>5, SamePlaces, PlacedFrame

LEMMA ReturnPlaced ==
  ASSUME PlacedInv, IInv', Return
  PROVE  OnePlace' /\ Answered'
<1>1. TypeOK /\ TypeOK' /\ OnePlace /\ Answered /\ IInv
  BY DEF PlacedInv, IInv
<1>2. /\ stack # << >> /\ Top.waiter = None /\ stack' = Below
      /\ UNCHANGED <<get_waiters_, put_waiters_, running, ready, got>>
  BY DEF Return
<1>3. \/ /\ stack \in {<<resume_get_waiters_>>, <<resume_put_waiters_>>}
         /\ stack' = << >>
      \/ /\ stack = <<resume_put_waiters_, resume_get_waiters_>>
         /\ stack' = <<resume_put_waiters_>>
      \/ \E w \in Threads : /\ stack = <<Holding(w), resume_put_waiters_>>
                            /\ stack' = <<Holding(w)>>
  BY <1>1, <1>2, Shapes, FrameTypes
<1>4. ASSUME NEW u \in Threads
      PROVE  Places(u)' = Places(u)
  <2>1. Times(HeldBy(stack'), u) = Times(HeldBy(stack), u)
    BY <1>3, HeldCounts
  <2>2. QED
    BY <1>1, <1>2, <2>1, SamePlaces DEF Places
<1>5. QED
  BY <1>1, <1>2, <1>4, SamePlaces, PlacedFrame

LEMMA SchedulerPlaced ==
  ASSUME PlacedInv, IInv', Dispatch \/ \E t \in Threads : Pause(t)
  PROVE  OnePlace' /\ Answered'
<1>1. TypeOK /\ TypeOK' /\ OnePlace /\ Answered
  BY DEF PlacedInv, IInv
<1>2. UNCHANGED <<get_waiters_, put_waiters_, stack, got>>
  BY DEF Dispatch, Pause
<1>3. ASSUME NEW u \in Threads
      PROVE  Places(u)' = Places(u)
  <2>1. Times(ready', u) + Times(<<running>>, u)' = Times(ready, u) + Times(<<running>>, u)
    <3>1. CASE Dispatch
      <4>1. /\ running = None /\ ready # << >> /\ running' = Head(ready) /\ ready' = Tail(ready)
        BY <3>1 DEF Dispatch
      <4>2. Times(ready, u) = Times(ready', u) + IF running' = u THEN 1 ELSE 0
        BY <1>1, <4>1, ListTypes, Counts
      <4>3. u # None
        BY MailboxAssumption
      <4>4. ready' \in Seq(Threads)
        BY <1>1 DEF TypeOK
      <4>5. Times(ready', u) \in Nat
        BY <4>4, TimesType
      <4>6. QED
        BY <4>1, <4>2, <4>3, <4>5, Counts
    <3>2. CASE \E t \in Threads : Pause(t)
      <4>1. PICK t \in Threads : Pause(t)
        BY <3>2
      <4>2. running = t /\ running' = None /\ ready' = Append(ready, t)
        BY <4>1 DEF Pause, Calls
      <4>3. Times(ready', u) = Times(ready, u) + IF t = u THEN 1 ELSE 0
        BY <1>1, <4>2, ListTypes, Counts
      <4>4. u # None
        BY MailboxAssumption
      <4>5. Times(ready, u) \in Nat
        BY <1>1, PlacesTypes
      <4>6. QED
        BY <4>2, <4>3, <4>4, <4>5, Counts
    <3>3. QED
      BY <3>1, <3>2
  <2>2. Times(ready', u) \in Nat /\ Times(<<running>>, u)' \in Nat
    <3>1. ready' \in Seq(Threads)
      BY <1>1 DEF TypeOK
    <3>2. QED
      BY <3>1, TimesType, Counts
  <2>3. QED
    BY <1>1, <1>2, <2>1, <2>2, SamePlaces, PlacesTypes DEF Places
<1>4. QED
  BY <1>1, <1>2, <1>3, SamePlaces, PlacedFrame

LEMMA NextPlaced == PlacedInv /\ [Next]_vars => PlacedInv'
<1> SUFFICES ASSUME PlacedInv, [Next]_vars PROVE OnePlace' /\ Answered'
  BY NextIInv DEF PlacedInv
<1>1. IInv /\ IInv'
  BY NextIInv DEF PlacedInv
<1>2. ASSUME NEW t \in Threads, put(t) \/ try_put(t) \/ get(t) \/ peek(t) \/ try_get(t) \/ try_peek(t)
      PROVE  OnePlace' /\ Answered'
  <2>1. Calls(t)
    BY <1>2 DEF put, try_put, get, peek, try_get, try_peek
  <2>2. CASE /\ Accept
             /\ UNCHANGED <<get_waiters_, put_waiters_, running, ready, got>>
    BY <1>1, <2>1, <2>2, NowPlaced DEF Accept
  <2>3. CASE /\ Take(t)
             /\ UNCHANGED <<get_waiters_, put_waiters_, running, ready>>
    BY <1>1, <2>1, <2>3, NowPlaced DEF Take
  <2>4. CASE /\ ~ empty /\ got' = [got EXCEPT ![t] = Head(items_)]
             /\ UNCHANGED <<get_waiters_, put_waiters_, stack, running, ready>>
    BY <1>1, <2>1, <2>4, NowPlaced DEF Calls
  <2>5. CASE \E is_peek \in BOOLEAN : /\ Wait(t, is_peek)
                                      /\ UNCHANGED <<put_waiters_, stack, ready>>
    BY <1>1, <2>1, <2>5, WaitPlaced
  <2>6. CASE /\ put_waiters_' = Append(put_waiters_, [thr |-> t, item |-> puts + 1])
             /\ puts < MaxPuts
             /\ running' = None /\ UNCHANGED <<get_waiters_, stack, ready, got>>
    <3>1. puts + 1 \in 1..MaxPuts
      BY <1>1, <2>6, MailboxAssumption DEF IInv, TypeOK
    <3>2. QED
      BY <1>1, <2>1, <2>6, <3>1, BlockPlaced
  <2>7. QED
    BY <1>2, <2>2, <2>3, <2>4, <2>5, <2>6 DEF put, try_put, get, peek, try_get, try_peek
<1>3. CASE UNCHANGED vars
  <2>1. UNCHANGED <<get_waiters_, put_waiters_, stack, running, ready, got>>
    BY <1>3 DEF vars
  <2>2. \A u \in Threads : Places(u)' = Places(u)
    BY <2>1, SamePlaces DEF Places
  <2>3. QED
    BY <1>1, <2>1, <2>2, SamePlaces, PlacedFrame DEF PlacedInv, IInv
<1>4. QED
  BY <1>1, <1>2, <1>3, GetTurnPlaced, GetScheduledPlaced, PutTurnPlaced, ReturnPlaced,
     SchedulerPlaced
  DEF Next

LEMMA PlacedInvariant == Spec => []PlacedInv
<1>1. Init => PlacedInv
  BY InitIInv, InitPlaced DEF PlacedInv
<1>2. QED
  BY <1>1, NextPlaced, PTL DEF Spec

(* However the resume functions nest, a thread runs, is scheduled or waits *)
(* in exactly one list: none is scheduled twice or forgotten.              *)
THEOREM ThreadsInOnePlace == Spec => []OnePlace
<1>1. PlacedInv => OnePlace
  BY DEF PlacedInv
<1>2. QED
  BY <1>1, PlacedInvariant, PTL

(* A thread that get or peek suspended has no item exactly as long as it   *)
(* is in get_waiters_, so that it finds one when it resumes.               *)
THEOREM WaitersAreAnswered == Spec => []Answered
<1>1. PlacedInv => Answered
  BY DEF PlacedInv
<1>2. QED
  BY <1>1, PlacedInvariant, PTL

=============================================================================
