------------------------------ MODULE Channel ------------------------------
(***************************************************************************)
(* What a mailbox promises to the threads that use it: the items come out  *)
(* in the order of the calls that put them in, each of them once.  How     *)
(* many items the mailbox holds, and who waits when, is left open.         *)
(***************************************************************************)
EXTENDS Sequences

CONSTANTS Threads, Items, None

VARIABLES
  queue,   \* what has been put and not yet been taken
  got      \* the last item given to each thread; None while it waits for one

vars == <<queue, got>>

Init ==
  /\ queue = << >>
  /\ got \in [Threads -> Items]

Put(item) ==
  /\ queue' = Append(queue, item)
  /\ UNCHANGED got

Ask(t) ==
  /\ got' = [got EXCEPT ![t] = None]
  /\ UNCHANGED queue

Give(t) ==
  /\ queue # << >>
  /\ got' = [got EXCEPT ![t] = Head(queue)]

Get(t) == Give(t) /\ queue' = Tail(queue)

Peek(t) == Give(t) /\ UNCHANGED queue

Next ==
  \/ \E item \in Items : Put(item)
  \/ \E t \in Threads : Ask(t) \/ Get(t) \/ Peek(t)

Spec == Init /\ [][Next]_vars

=============================================================================
