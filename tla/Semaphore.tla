----------------------------- MODULE Semaphore -----------------------------
(***************************************************************************)
(* The SystemVerilog semaphore of vvp, vvp_mailbox.cc, and the opcodes of  *)
(* vthread.cc that call it.  A turn of the loop in resume_waiters_ is a    *)
(* step; no thread runs before the loop has ended.                         *)
(***************************************************************************)
EXTENDS Integers, Sequences, FiniteSets, SequencesExt

CONSTANTS
  Threads,         (* the threads that use the semaphore *)
  initial_count,   (* the keys of a new semaphore *)
  MaxN,            (* bound on the keys of one call *)
  MaxPut,          (* bound on the keys put into the semaphore *)
  None

ASSUME SemaphoreAssumption ==
  /\ IsFiniteSet(Threads) /\ None \notin Threads
  /\ initial_count \in Nat /\ MaxN \in Nat \ {0} /\ MaxPut \in Nat

VARIABLES
  count_,
  waiters_,   \* [thr, n]
  resuming,   \* resume_waiters_ is being executed
  running,    \* the thread that executes, or None
  ready,      \* the threads that are scheduled, next one first
  given,      \* the keys put so far
  granted     \* the keys obtained so far

vars == <<count_, waiters_, resuming, running, ready, given, granted>>

waiter_t == [thr: Threads, n: 1..MaxN]

Init ==
  /\ count_ = initial_count
  /\ waiters_ = << >> /\ resuming = FALSE
  /\ running = None /\ ready \in SetToSeqs(Threads)
  /\ given = 0 /\ granted = 0

Calls(t) == running = t /\ ~ resuming

(* The opcodes ask for one key when the program says zero. *)
Keys(nval) == IF nval = 0 THEN 1 ELSE nval

(* n keys are there and are taken. *)
Obtain(n) ==
  /\ count_ >= n
  /\ count_' = count_ - n
  /\ granted' = granted + n

get(t, nval) ==
  LET n == Keys(nval)
  IN  /\ Calls(t)
      /\ \/ /\ Obtain(n)
            /\ UNCHANGED <<waiters_, running>>
         \/ /\ count_ < n
            /\ waiters_' = Append(waiters_, [thr |-> t, n |-> n])
            /\ running' = None
            /\ UNCHANGED <<count_, granted>>
      /\ UNCHANGED <<resuming, ready, given>>

(* try_get; it has no effect when there are too few keys. *)
try_get(t, nval) ==
  /\ Calls(t)
  /\ Obtain(Keys(nval))
  /\ UNCHANGED <<waiters_, resuming, running, ready, given>>

put(t, nval) ==
  LET n == Keys(nval)
  IN  /\ Calls(t)
      /\ given + n <= MaxPut
      /\ count_' = count_ + n
      /\ given' = given + n
      /\ resuming' = TRUE
      /\ UNCHANGED <<waiters_, running, ready, granted>>

(* The waiters that have enough keys. *)
Served == {i \in DOMAIN waiters_ : count_ >= waiters_[i].n}

(* Mutants: the last waiter is served first; the keys are not taken. *)
ResumeOne_Last ==
  /\ resuming
  /\ \E i \in Served :
       /\ \A j \in Served : j <= i
       /\ Obtain(waiters_[i].n)
       /\ ready' = <<waiters_[i].thr>> \o ready
       /\ waiters_' = RemoveAt(waiters_, i)
  /\ UNCHANGED <<resuming, running, given>>

ResumeOne_Free ==
  /\ resuming
  /\ \E i \in Served :
       /\ \A j \in Served : i <= j
       /\ granted' = granted + waiters_[i].n
       /\ ready' = <<waiters_[i].thr>> \o ready
       /\ waiters_' = RemoveAt(waiters_, i)
  /\ UNCHANGED <<count_, resuming, running, given>>

(* A turn of the loop of resume_waiters_ finds the first waiter that has   *)
(* enough keys; the scheduled thread goes in front.                        *)
ResumeOne ==
  /\ resuming
  /\ \E i \in Served :
       /\ \A j \in Served : i <= j
       /\ Obtain(waiters_[i].n)
       /\ ready' = <<waiters_[i].thr>> \o ready
       /\ waiters_' = RemoveAt(waiters_, i)
  /\ UNCHANGED <<resuming, running, given>>

(* Mutant: the search stops at the first waiter. *)
ResumeEnd_First ==
  /\ resuming
  /\ 1 \notin Served
  /\ resuming' = FALSE
  /\ UNCHANGED <<count_, waiters_, running, ready, given, granted>>

ResumeEnd ==
  /\ resuming
  /\ Served = {}
  /\ resuming' = FALSE
  /\ UNCHANGED <<count_, waiters_, running, ready, given, granted>>

-----------------------------------------------------------------------------
(* The scheduler runs the next thread; a thread pauses for a delay. *)
Dispatch ==
  /\ running = None
  /\ ready # << >>
  /\ running' = Head(ready)
  /\ ready' = Tail(ready)
  /\ UNCHANGED <<count_, waiters_, resuming, given, granted>>

Pause(t) ==
  /\ Calls(t)
  /\ running' = None
  /\ ready' = Append(ready, t)
  /\ UNCHANGED <<count_, waiters_, resuming, given, granted>>

Next ==
  \/ \E t \in Threads, nval \in 0..MaxN :
       get(t, nval) \/ try_get(t, nval) \/ put(t, nval)
  \/ ResumeOne
  \/ ResumeEnd
  \/ Dispatch
  \/ \E t \in Threads : Pause(t)

Spec == Init /\ [][Next]_vars

-----------------------------------------------------------------------------
TypeOK ==
  /\ count_ \in Nat /\ given \in Nat /\ granted \in Nat
  /\ waiters_ \in Seq(waiter_t)
  /\ resuming \in BOOLEAN
  /\ running \in Threads \cup {None}
  /\ ready \in Seq(Threads)

(* Keys are neither made nor lost: what was put is there or was obtained,  *)
(* also in the middle of resume_waiters_.                                  *)
Conserved == count_ + granted = initial_count + given

(* When a call has returned, every waiting thread waits for more keys than *)
(* there are.                                                              *)
NoMissedWakeup ==
  ~ resuming => \A i \in DOMAIN waiters_ : waiters_[i].n > count_

(* A waiting thread is overtaken only by one that asks for fewer keys:     *)
(* whenever keys are obtained, by get, try_get or resume_waiters_, the     *)
(* threads that were waiting before want more than that.                   *)
OvertakenBySmaller ==
  [][granted' # granted =>
       \A j \in DOMAIN waiters_ \cap DOMAIN waiters_' :
         waiters_'[j] = waiters_[j] => waiters_[j].n > granted' - granted]_vars

-----------------------------------------------------------------------------
(* The inductive invariant of SemaphoreProofs: at most one place for each  *)
(* thread, stated pair by pair.                                            *)
Apart ==
  /\ \A i, j \in DOMAIN ready : i # j => ready[i] # ready[j]
  /\ \A i, j \in DOMAIN waiters_ : i # j => waiters_[i].thr # waiters_[j].thr
  /\ \A i \in DOMAIN ready, j \in DOMAIN waiters_ : ready[i] # waiters_[j].thr
  /\ \A i \in DOMAIN ready : ready[i] # running
  /\ \A j \in DOMAIN waiters_ : waiters_[j].thr # running

IInv == TypeOK /\ Conserved /\ NoMissedWakeup /\ Apart

=============================================================================
