------------------------------ MODULE Mailbox ------------------------------
(***************************************************************************)
(* The SystemVerilog mailbox of vvp, vvp_mailbox.cc, and the opcodes of    *)
(* vthread.cc that call it.                                                *)
(*                                                                         *)
(* resume_get_waiters_ and resume_put_waiters_ call each other; stack      *)
(* holds their activations, so that every turn of their loops is a step.   *)
(* No thread runs before the stack is empty again.  Items are numbered in  *)
(* the order of the put() calls.                                           *)
(***************************************************************************)
EXTENDS Integers, Sequences, FiniteSets, SequencesExt

CONSTANTS
  Threads,   (* the threads that use the mailbox *)
  bound_,    (* the capacity, 0 if there is none *)
  MaxPuts,   (* bound on the calls that put an item *)
  None

ASSUME MailboxAssumption ==
  IsFiniteSet(Threads) /\ bound_ \in Nat /\ MaxPuts \in Nat /\ None \notin Threads \cup Nat

VARIABLES
  items_,
  get_waiters_,   \* [thr, is_peek]
  put_waiters_,   \* [thr, item]
  stack,          \* the resume functions being executed, the innermost last
  running,        \* the thread that executes, or None
  ready,          \* the threads that are scheduled, next one first
  got,            \* the last item on the object stack of each thread
  puts,           \* the calls that put an item so far
  taken           \* the items taken out, in this order

vars == <<items_, get_waiters_, put_waiters_, stack, running, ready, got, puts, taken>>

Waiter == [thr: Threads, is_peek: BOOLEAN]

PutWaiter == [thr: Threads, item: 1..MaxPuts]

(* An activation: of which function, and for resume_get_waiters_ the thread *)
(* it schedules once the nested call has returned.                          *)
Frame == [fn: {"get", "put"}, waiter: Threads \cup {None}]

resume_get_waiters_ == [fn |-> "get", waiter |-> None]

resume_put_waiters_ == [fn |-> "put", waiter |-> None]

full == bound_ # 0 /\ Len(items_) >= bound_

empty == items_ = << >>

Init ==
  /\ items_ = << >> /\ get_waiters_ = << >> /\ put_waiters_ = << >>
  /\ stack = << >> /\ running = None
  /\ ready \in SetToSeqs(Threads)
  /\ got = [t \in Threads |-> 0]
  /\ puts = 0 /\ taken = << >>

-----------------------------------------------------------------------------
(* The thread t executes a mailbox opcode. *)
Calls(t) == running = t /\ stack = << >>

(* The body put and try_put share: there is room for the item. *)
Accept ==
  /\ ~ full
  /\ puts < MaxPuts
  /\ puts' = puts + 1
  /\ items_' = Append(items_, puts + 1)
  /\ stack' = <<resume_get_waiters_>>

put(t) ==
  /\ Calls(t)
  /\ \/ Accept /\ UNCHANGED <<put_waiters_, running>>
     \/ /\ full
        /\ puts < MaxPuts
        /\ puts' = puts + 1
        /\ put_waiters_' = Append(put_waiters_, [thr |-> t, item |-> puts + 1])
        /\ running' = None
        /\ UNCHANGED <<items_, stack>>
  /\ UNCHANGED <<get_waiters_, ready, got, taken>>

(* try_put; it has no effect when the mailbox is full. *)
try_put(t) ==
  /\ Calls(t)
  /\ Accept
  /\ UNCHANGED <<get_waiters_, put_waiters_, running, ready, got, taken>>

(* Mutant: the threads that wait for room are forgotten. *)
Take_NoResume(t) ==
  /\ ~ empty
  /\ got' = [got EXCEPT ![t] = Head(items_)]
  /\ taken' = Append(taken, Head(items_))
  /\ items_' = Tail(items_)
  /\ UNCHANGED stack

(* The body get and try_get share: there is an item. *)
Take(t) ==
  /\ ~ empty
  /\ got' = [got EXCEPT ![t] = Head(items_)]
  /\ taken' = Append(taken, Head(items_))
  /\ items_' = Tail(items_)
  /\ stack' = <<resume_put_waiters_>>

(* t waits for an item. *)
Wait(t, is_peek) ==
  /\ empty
  /\ got' = [got EXCEPT ![t] = None]
  /\ get_waiters_' = Append(get_waiters_, [thr |-> t, is_peek |-> is_peek])
  /\ running' = None

get(t) ==
  /\ Calls(t)
  /\ \/ Take(t) /\ UNCHANGED <<get_waiters_, running>>
     \/ Wait(t, FALSE) /\ UNCHANGED <<items_, stack, taken>>
  /\ UNCHANGED <<put_waiters_, ready, puts>>

peek(t) ==
  /\ Calls(t)
  /\ \/ /\ ~ empty
        /\ got' = [got EXCEPT ![t] = Head(items_)]
        /\ UNCHANGED <<get_waiters_, running>>
     \/ Wait(t, TRUE)
  /\ UNCHANGED <<items_, put_waiters_, stack, ready, puts, taken>>

(* try_get and try_peek; they push a null object when there is no item. *)
try_get(t) ==
  /\ Calls(t)
  /\ Take(t)
  /\ UNCHANGED <<get_waiters_, put_waiters_, running, ready, puts>>

try_peek(t) ==
  /\ Calls(t)
  /\ ~ empty
  /\ got' = [got EXCEPT ![t] = Head(items_)]
  /\ UNCHANGED <<items_, get_waiters_, put_waiters_, stack, running, ready, puts, taken>>

-----------------------------------------------------------------------------
(* The loops of the resume functions.  A scheduled thread goes in front.   *)
Top == stack[Len(stack)]

Below == SubSeq(stack, 1, Len(stack) - 1)

(* Mutant: the item does not reach the object stack of the waiter. *)
GetTurn_NoItem ==
  /\ stack # << >>
  /\ Top = resume_get_waiters_
  /\ get_waiters_ # << >> /\ ~ empty
  /\ LET w == Head(get_waiters_)
     IN  IF w.is_peek
         THEN /\ ready' = <<w.thr>> \o ready
              /\ UNCHANGED <<items_, taken, stack>>
         ELSE /\ items_' = Tail(items_)
              /\ taken' = Append(taken, Head(items_))
              /\ stack' = Below \o <<[fn |-> "get", waiter |-> w.thr], resume_put_waiters_>>
              /\ UNCHANGED ready
  /\ get_waiters_' = Tail(get_waiters_)
  /\ UNCHANGED <<got, put_waiters_, running, puts>>

(* In resume_get_waiters_: the first waiter has its item. *)
GetTurn ==
  /\ stack # << >>
  /\ Top = resume_get_waiters_
  /\ get_waiters_ # << >> /\ ~ empty
  /\ LET w == Head(get_waiters_)
     IN  /\ got' = [got EXCEPT ![w.thr] = Head(items_)]
         /\ IF w.is_peek
            THEN /\ ready' = <<w.thr>> \o ready
                 /\ UNCHANGED <<items_, taken, stack>>
            ELSE /\ items_' = Tail(items_)
                 /\ taken' = Append(taken, Head(items_))
                 /\ stack' = Below \o <<[fn |-> "get", waiter |-> w.thr], resume_put_waiters_>>
                 /\ UNCHANGED ready
  /\ get_waiters_' = Tail(get_waiters_)
  /\ UNCHANGED <<put_waiters_, running, puts>>

(* Mutant: the waiting thread is forgotten. *)
GetScheduled_Forgets ==
  /\ stack # << >>
  /\ Top.waiter # None
  /\ stack' = Append(Below, resume_get_waiters_)
  /\ UNCHANGED <<ready, items_, get_waiters_, put_waiters_, running, got, puts, taken>>

(* ... and is scheduled after the nested call. *)
GetScheduled ==
  /\ stack # << >>
  /\ Top.waiter # None
  /\ ready' = <<Top.waiter>> \o ready
  /\ stack' = Append(Below, resume_get_waiters_)
  /\ UNCHANGED <<items_, get_waiters_, put_waiters_, running, got, puts, taken>>

(* Mutant: the item overtakes the ones in the mailbox. *)
PutTurn_InFront ==
  /\ stack # << >>
  /\ Top.fn = "put"
  /\ put_waiters_ # << >> /\ ~ full
  /\ items_' = <<Head(put_waiters_).item>> \o items_
  /\ ready' = <<Head(put_waiters_).thr>> \o ready
  /\ put_waiters_' = Tail(put_waiters_)
  /\ stack' = Append(stack, resume_get_waiters_)
  /\ UNCHANGED <<get_waiters_, running, got, puts, taken>>

(* In resume_put_waiters_: the item of the first waiter is put. *)
PutTurn ==
  /\ stack # << >>
  /\ Top.fn = "put"
  /\ put_waiters_ # << >> /\ ~ full
  /\ items_' = Append(items_, Head(put_waiters_).item)
  /\ ready' = <<Head(put_waiters_).thr>> \o ready
  /\ put_waiters_' = Tail(put_waiters_)
  /\ stack' = Append(stack, resume_get_waiters_)
  /\ UNCHANGED <<get_waiters_, running, got, puts, taken>>

(* The condition of the loop fails. *)
Return ==
  /\ stack # << >>
  /\ Top.waiter = None
  /\ CASE Top.fn = "get" -> get_waiters_ = << >> \/ empty
       [] Top.fn = "put" -> put_waiters_ = << >> \/ full
  /\ stack' = Below
  /\ UNCHANGED <<items_, get_waiters_, put_waiters_, running, ready, got, puts, taken>>

-----------------------------------------------------------------------------
(* The scheduler runs the next thread; a thread pauses for a delay. *)
Dispatch ==
  /\ running = None
  /\ ready # << >>
  /\ running' = Head(ready)
  /\ ready' = Tail(ready)
  /\ UNCHANGED <<items_, get_waiters_, put_waiters_, stack, got, puts, taken>>

Pause(t) ==
  /\ Calls(t)
  /\ running' = None
  /\ ready' = Append(ready, t)
  /\ UNCHANGED <<items_, get_waiters_, put_waiters_, stack, got, puts, taken>>

Next ==
  \/ \E t \in Threads :
       \/ put(t) \/ try_put(t) \/ get(t) \/ peek(t) \/ try_get(t) \/ try_peek(t)
       \/ Pause(t)
  \/ GetTurn \/ GetScheduled \/ PutTurn \/ Return
  \/ Dispatch

Spec == Init /\ [][Next]_vars

-----------------------------------------------------------------------------
TypeOK ==
  /\ items_ \in Seq(1..MaxPuts)
  /\ get_waiters_ \in Seq(Waiter)
  /\ put_waiters_ \in Seq(PutWaiter)
  /\ stack \in Seq(Frame)
  /\ running \in Threads \cup {None}
  /\ ready \in Seq(Threads)
  /\ got \in [Threads -> 0..MaxPuts \cup {None}]
  /\ puts \in 0..MaxPuts
  /\ taken \in Seq(1..MaxPuts)

(* The items that wait with their threads for room. *)
Blocked == [i \in DOMAIN put_waiters_ |-> put_waiters_[i].item]

(* Items leave in the order of the calls that put them, none is lost and   *)
(* none is given twice, even while the resume functions are half way       *)
(* through.                                                                *)
InOrder == taken \o items_ \o Blocked = [i \in 1..puts |-> i]

(* When a call has returned, nobody waits for what is there: a waiting get *)
(* means that the mailbox is empty, a waiting put that it is full, and     *)
(* gets and puts never wait for each other.                                *)
NoMissedWakeup ==
  stack = << >> =>
    /\ get_waiters_ # << >> => empty
    /\ put_waiters_ # << >> => full
    /\ get_waiters_ = << >> \/ put_waiters_ = << >>

(* Each thread runs, is scheduled once, waits once, or is the waiter that  *)
(* an activation of resume_get_waiters_ is about to schedule: never two of *)
(* these, which schedule_vthread asserts, and never none.                  *)
OnePlace ==
  LET thr(s) == [i \in DOMAIN s |-> s[i].thr]
      held == [i \in DOMAIN stack |-> stack[i].waiter]
      all == <<running>> \o ready \o thr(get_waiters_) \o thr(put_waiters_) \o held
  IN  \A t \in Threads : Cardinality({i \in DOMAIN all : all[i] = t}) = 1

(* A thread that resumes from get or peek finds an item on its object      *)
(* stack: exactly the threads in get_waiters_ have none.                   *)
Answered ==
  \A t \in Threads :
    got[t] = None <=> \E i \in DOMAIN get_waiters_ : get_waiters_[i].thr = t

(* The mutual recursion of the resume functions is at most two deep,       *)
(* however many threads wait: it cannot overflow the C stack.              *)
RecursionBounded == Len(stack) <= 2

(* The mailbox is a FIFO channel: what the threads observe are the items   *)
(* in the order of the put calls, blocked ones included.                   *)
Promise == INSTANCE Channel WITH Items <- 0..MaxPuts, queue <- items_ \o Blocked

IsAChannel == Promise!Spec

-----------------------------------------------------------------------------
(* The inductive invariant of MailboxProofs.  A put that finds a waiting   *)
(* get finds no waiting put, and a get that finds a waiting put finds no   *)
(* waiting get: the nested call of a resume function has nothing to do.    *)
Resuming == {<<resume_get_waiters_>>} \cup
  {<<[fn |-> "get", waiter |-> w]>> : w \in Threads} \cup
  {<<[fn |-> "get", waiter |-> w], resume_put_waiters_>> : w \in Threads}

MakingRoom == {<<resume_put_waiters_>>, <<resume_put_waiters_, resume_get_waiters_>>}

StackOk ==
  \/ stack = << >> /\ NoMissedWakeup
  \/ stack \in Resuming /\ put_waiters_ = << >>
  \/ stack \in MakingRoom /\ get_waiters_ = << >>

IInv == TypeOK /\ InOrder /\ StackOk

=============================================================================
