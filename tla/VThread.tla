------------------------------ MODULE VThread ------------------------------
(***************************************************************************)
(* The life of the threads of a simulation, vvp/vthread.cc: fork, join,    *)
(* detach, wait, disable, end and the reaping of dead threads.             *)
(*                                                                         *)
(* Instructions of one thread run without interruption until the thread    *)
(* pauses; each is a step here.  What a thread executes is free, except    *)
(* that fork blocks have the shape the code generator gives them           *)
(* (show_stmt_fork in tgt-vvp): n forks, then n joins (join), one join and *)
(* n-1 detached (join_any), or n detached (join_none).                     *)
(*                                                                         *)
(* Of the scheduler only the queue of the active events is kept; a thread  *)
(* in a delay wakes at some later time, with nothing left in that queue.   *)
(* A failing assert() of the code sets aborted, which ends the behaviour.  *)
(***************************************************************************)
EXTENDS Integers, Sequences, FiniteSets, SequencesExt

CONSTANTS
  Threads,   (* the vthread_s objects of a behaviour; none is used twice *)
  Scopes,    (* the scopes threads belong to *)
  MaxFork,   (* bound on the size of a fork block *)
  Programs,  (* the kinds of program, see below *)
  None

(* A kind of program: the threads of its initial and always statements,    *)
(* the threads it may have at all, and the instructions that occur in it.  *)
Kinds == [roots: SUBSET Threads, pool: SUBSET Threads,
          opcodes: SUBSET {"join", "join_any", "join_none", "delay", "wait", "waitfork",
                           "mbx", "disable", "flow", "disfork"}]

(* The combinations of instructions that the code copes with: a detached   *)
(* thread that is disabled leaves a parent in %wait/fork asleep and is     *)
(* counted by %join/detach, a suspended one leaves a pointer in the        *)
(* mailbox.                                                                *)
Sound(k) ==
  /\ {"disable", "flow"} \cap k.opcodes # {} => {"join_any", "join_none"} \cap k.opcodes = {}
  /\ "mbx" \in k.opcodes => {"disable", "flow", "disfork"} \cap k.opcodes = {}

ASSUME ThreadsAssumption ==
  /\ IsFiniteSet(Threads) /\ None \notin Threads /\ Threads \cap Scopes = {}
  /\ Programs \subseteq Kinds /\ \A k \in Programs : k.roots \subseteq k.pool
  /\ Scopes # {} /\ None \notin Scopes /\ MaxFork \in Nat

VARIABLES
  program,      \* the kind of program that runs, never changed
  thr,          \* the vthread_s objects
  todo,         \* per thread, what is left of the fork block it executes
  active,       \* the active events: lists of threads linked by wait_next
  later,        \* the threads in a delay
  event_list,   \* the threads waiting for the event, last one first
  suspended,    \* the threads suspended in a mailbox or a semaphore
  running,      \* running_thread
  rest,         \* the threads vthread_run runs after this one
  disabling,    \* the scope that %disable is emptying, or the thread in %disable/fork
  aborted       \* an assert() has failed

vars == <<program, thr, todo, active, later, event_list, suspended, running, rest,
          disabling, aborted>>

Opcodes == program.opcodes

vthread_s ==
  [exists: BOOLEAN,              \* created and not deleted
   freed: BOOLEAN,               \* deleted
   zombie: BOOLEAN,              \* pc = codespace_null()
   scope: Scopes,                \* parent_scope
   in_scope: BOOLEAN,            \* a member of parent_scope->threads
   parent: Threads \cup {None},
   children: SUBSET Threads,
   detached_children: SUBSET Threads,
   i_am_joining: BOOLEAN, i_am_detached: BOOLEAN, i_am_waiting: BOOLEAN,
   i_have_ended: BOOLEAN, waiting_for_event: BOOLEAN, is_scheduled: BOOLEAN]

(* A fork block: forks, joins and detachments still to do. *)
Block == [fork: 0..MaxFork, join: 0..MaxFork, detach: 0..MaxFork, scope: Scopes]

AScope == CHOOSE s \in Scopes : TRUE

NoBlock == [fork |-> 0, join |-> 0, detach |-> 0, scope |-> AScope]

vthread_new(p, s) ==
  [exists |-> TRUE, freed |-> FALSE, zombie |-> FALSE, scope |-> s,
   in_scope |-> TRUE, parent |-> p, children |-> {}, detached_children |-> {},
   i_am_joining |-> FALSE, i_am_detached |-> FALSE, i_am_waiting |-> FALSE,
   i_have_ended |-> FALSE, waiting_for_event |-> FALSE, is_scheduled |-> FALSE]

NoThread == [vthread_new(None, AScope) EXCEPT !.exists = FALSE, !.in_scope = FALSE]

-----------------------------------------------------------------------------
(* The helpers of vthread.cc, as functions from thread tables to thread    *)
(* tables.                                                                 *)

(* Mutant: the thread is queued and not marked. *)
Scheduled_Unmarked(f, ts) == f

Scheduled(f, ts) ==
  [x \in Threads |-> IF x \in ts THEN [f[x] EXCEPT !.is_scheduled = TRUE] ELSE f[x]]

(* The memory of a deleted thread holds nothing more. *)
Deleted == [NoThread EXCEPT !.freed = TRUE, !.zombie = TRUE]

(* Mutant: the wait lists are forgotten. *)
Deletable_Unlisted(f, t) == ~ f[t].is_scheduled

(* t is deleted at once unless an event or a wait list still refers to it. *)
Deletable(f, t) == ~ f[t].is_scheduled /\ ~ f[t].waiting_for_event

vthread_reap(f, t) ==
  LET p == f[t].parent
      me == [f[t] EXCEPT !.parent = None, !.in_scope = FALSE, !.zombie = TRUE]
  IN  [x \in Threads |->
         CASE x = t -> IF Deletable(f, t) THEN Deleted ELSE me
           [] x \in f[t].children -> [f[x] EXCEPT !.parent = p]
           [] x \in f[t].detached_children ->
                [f[x] EXCEPT !.parent = None, !.i_am_detached = FALSE]
           [] x = p /\ f[t].i_am_detached -> [f[x] EXCEPT !.detached_children = @ \ {t}]
           [] x = p /\ ~ f[t].i_am_detached -> [f[x] EXCEPT !.children = @ \ {t}]
           [] OTHER -> f[x]]

(* The assert()s of vthread_reap. *)
ReapOk(f, t) ==
  LET p == f[t].parent
  IN  /\ \A c \in f[t].children \cup f[t].detached_children : f[c].parent = t
      /\ \A c \in f[t].detached_children : f[c].i_am_detached
      /\ p # None => t \in IF f[t].i_am_detached THEN f[p].detached_children
                                                 ELSE f[p].children
      /\ Deletable(f, t) => f[t].children = {}

(* The children of t, their children and so on: what is in every set that  *)
(* holds the children of t and of its own members.                         *)
Descendants(f, t) ==
  {x \in Threads : \A S \in SUBSET Threads :
     f[t].children \subseteq S /\ (\A y \in S : f[y].children \subseteq S) => x \in S}

(* The loop of do_disable: t is turned off, and so are its descendants,    *)
(* which are reaped.                                                       *)
TurnedOff(f, t) ==
  LET D == Descendants(f, t)
      off(x) == [f[x] EXCEPT !.in_scope = FALSE, !.zombie = TRUE,
                             !.i_have_ended = TRUE, !.children = {},
                             !.i_am_joining = @ /\ f[x].children = {}]
      dead(x) == [off(x) EXCEPT !.parent = None]
  IN  [x \in Threads |->
         CASE x = t -> off(x)
           [] x \in D -> IF Deletable(f, x) THEN Deleted ELSE dead(x)
           [] \E d \in D : x \in f[d].detached_children ->
                [f[x] EXCEPT !.parent = None, !.i_am_detached = FALSE]
           [] OTHER -> f[x]]

(* Mutant: looks at %wait/fork instead. *)
Joined_WaitFork(f, t) == f[t].parent # None /\ f[f[t].parent].i_am_waiting

(* do_disable finds the parent waiting in a %join. *)
Joined(f, t) == f[t].parent # None /\ f[f[t].parent].i_am_joining

(* Mutant: the parent is woken and stays in its %join. *)
do_disable_StillJoining(f, t) ==
  LET g == TurnedOff(f, t)
      p == g[t].parent
  IN  IF Joined(g, t)
      THEN vthread_reap([g EXCEPT ![p].is_scheduled = @ \/ ~ g[p].i_have_ended], t)
      ELSE IF p # None THEN g ELSE vthread_reap(g, t)

do_disable(f, t) ==
  LET g == TurnedOff(f, t)
      p == g[t].parent
  IN  IF Joined(g, t)
      THEN vthread_reap([g EXCEPT ![p].i_am_joining = FALSE,
                                  ![p].is_scheduled = @ \/ ~ g[p].i_have_ended], t)
      ELSE IF p # None THEN g ELSE vthread_reap(g, t)

(* do_disable schedules the parent. *)
Wakes(f, t) == Joined(TurnedOff(f, t), t) /\ ~ f[f[t].parent].i_have_ended

(* The assert()s of do_disable, of its reaps and of schedule_vthread. *)
DisableOk(f, t) ==
  LET g == TurnedOff(f, t)
  IN  /\ \A d \in Descendants(f, t) : ReapOk([f EXCEPT ![d].children = {}], d)
      /\ Wakes(f, t) => ~ f[f[t].parent].is_scheduled
      /\ Joined(g, t) \/ g[t].parent = None => ReapOk(g, t)

-----------------------------------------------------------------------------
(* The running thread executes an instruction. *)
At(t) == ~ aborted /\ running = t /\ disabling = None /\ ~ thr[t].zombie

(* ... outside of a fork block. *)
InBody(t) == At(t) /\ todo[t].fork + todo[t].join + todo[t].detach = 0

Check(ok) == aborted' = ~ ok

(* schedule_vthread with push_flag. *)
Push(q, t) == <<<<t>>>> \o q

(* The kinds of fork block, with their joins and detachments. *)
Blocks(n) ==
  {[join |-> n, detach |-> 0, kind |-> "join"],
   [join |-> IF n < 2 THEN n ELSE 1, detach |-> IF n < 2 THEN 0 ELSE n - 1,
    kind |-> "join_any"],
   [join |-> 0, detach |-> n, kind |-> "join_none"]}

(* The number of threads of a behaviour is bounded. *)
Unused(x) == x \in program.pool /\ ~ thr[x].exists /\ ~ thr[x].freed

BeginFork(t, n, b, s) ==
  /\ InBody(t)
  /\ b.kind \in Opcodes
  /\ n <= Cardinality({x \in Threads : Unused(x)})
  /\ todo' = [todo EXCEPT ![t] = [fork |-> n, join |-> b.join,
                                  detach |-> b.detach, scope |-> s]]
  /\ UNCHANGED <<thr, active, later, event_list, suspended, running, rest,
                 disabling, aborted>>

of_FORK(t, child) ==
  /\ At(t)
  /\ todo[t].fork > 0
  /\ Unused(child)
  /\ thr' = Scheduled([thr EXCEPT ![t].children = @ \cup {child},
                                  ![child] = vthread_new(t, todo[t].scope)], {child})
  /\ active' = Push(active, child)
  /\ todo' = [todo EXCEPT ![t].fork = @ - 1]
  /\ UNCHANGED <<later, event_list, suspended, running, rest, disabling, aborted>>

(* A child that has ended is joined at once, otherwise the thread pauses. *)
of_JOIN(t) ==
  /\ At(t)
  /\ todo[t].fork = 0 /\ todo[t].join > 0
  /\ todo' = [todo EXCEPT ![t].join = @ - 1]
  /\ LET dead == {c \in thr[t].children : thr[c].i_have_ended}
         ok == ~ thr[t].i_am_joining /\ thr[t].children # {}
     IN  \/ \E c \in dead :
              /\ thr' = vthread_reap(thr, c)
              /\ Check(ok /\ ReapOk(thr, c))
              /\ UNCHANGED running
         \/ /\ dead = {}
            /\ thr' = [thr EXCEPT ![t].i_am_joining = TRUE]
            /\ Check(ok)
            /\ running' = None
  /\ UNCHANGED <<active, later, event_list, suspended, rest, disabling>>

(* The loop of %join/detach: ended children are reaped, the others moved.  *)
of_JOIN_DETACH(t) ==
  LET dead == {c \in thr[t].children : thr[c].i_have_ended}
      kept == thr[t].children \ dead
  IN  /\ At(t)
      /\ todo[t].fork = 0 /\ todo[t].join = 0 /\ todo[t].detach > 0
      /\ Check(/\ todo[t].detach = Cardinality(thr[t].children)
               /\ \A c \in thr[t].children : thr[c].parent = t
               /\ \A c \in dead : ReapOk(thr, c))
      /\ thr' = [x \in Threads |->
                   CASE x = t -> [thr[t] EXCEPT !.children = {},
                                                !.detached_children = @ \cup kept]
                     [] x \in kept -> [thr[x] EXCEPT !.i_am_detached = TRUE]
                     [] x \in dead -> vthread_reap(thr, x)[x]
                     [] \E c \in dead : x \in thr[c].detached_children ->
                          [thr[x] EXCEPT !.parent = None, !.i_am_detached = FALSE]
                     [] OTHER -> thr[x]]
      /\ todo' = [todo EXCEPT ![t].detach = 0]
      /\ UNCHANGED <<active, later, event_list, suspended, running, rest, disabling>>

of_DELAY(t) ==
  /\ InBody(t)
  /\ "delay" \in Opcodes
  /\ thr' = Scheduled(thr, {t})
  /\ later' = later \cup {t}
  /\ Check(~ thr[t].is_scheduled)
  /\ running' = None
  /\ UNCHANGED <<todo, active, event_list, suspended, rest, disabling>>

of_WAIT(t) ==
  /\ InBody(t)
  /\ "wait" \in Opcodes
  /\ thr' = [thr EXCEPT ![t].waiting_for_event = TRUE]
  /\ event_list' = <<t>> \o event_list
  /\ Check(~ thr[t].waiting_for_event)
  /\ running' = None
  /\ UNCHANGED <<todo, active, later, suspended, rest, disabling>>

(* The event is triggered: by a thread, or by the event of a net. *)
vthread_schedule_list ==
  /\ ~ aborted
  /\ event_list # << >>
  /\ disabling = None
  /\ IF running = None THEN rest = << >> ELSE InBody(running)
  /\ LET ts == Range(event_list)
     IN  /\ thr' = [x \in Threads |->
                      IF x \in ts
                      THEN [thr[x] EXCEPT !.waiting_for_event = FALSE, !.is_scheduled = TRUE]
                      ELSE thr[x]]
         /\ Check(\A x \in ts : thr[x].waiting_for_event /\ ~ thr[x].is_scheduled)
  /\ active' = Append(active, event_list)
  /\ event_list' = << >>
  /\ UNCHANGED <<todo, later, suspended, running, rest, disabling>>

(* %wait/fork *)
of_WAIT_FORK(t) ==
  /\ InBody(t)
  /\ "waitfork" \in Opcodes
  /\ thr[t].detached_children # {}
  /\ thr' = [thr EXCEPT ![t].i_am_waiting = TRUE]
  /\ Check(/\ ~ thr[t].i_am_joining /\ ~ thr[t].i_am_waiting /\ thr[t].children = {})
  /\ running' = None
  /\ UNCHANGED <<todo, active, later, event_list, suspended, rest, disabling>>

(* A get or put of a mailbox or a semaphore that must wait, and the        *)
(* operation of another thread that lets the first one go on.              *)
Suspend(t) ==
  /\ InBody(t)
  /\ "mbx" \in Opcodes
  /\ suspended' = Append(suspended, t)
  /\ running' = None
  /\ UNCHANGED <<thr, todo, active, later, event_list, rest, disabling, aborted>>

(* Mutant: the waiter stays in the list. *)
Resume_KeepsWaiter(t) ==
  /\ InBody(t)
  /\ suspended # << >>
  /\ LET w == Head(suspended)
     IN  /\ thr' = Scheduled(thr, {w})
         /\ Check(~ thr[w].is_scheduled)
         /\ active' = Push(active, w)
  /\ UNCHANGED <<todo, later, event_list, suspended, running, rest, disabling>>

Resume(t) ==
  /\ InBody(t)
  /\ suspended # << >>
  /\ LET w == Head(suspended)
     IN  /\ thr' = Scheduled(thr, {w})
         /\ Check(~ thr[w].is_scheduled)
         /\ active' = Push(active, w)
  /\ suspended' = Tail(suspended)
  /\ UNCHANGED <<todo, later, event_list, running, rest, disabling>>

(* Mutant: a detached thread ends the %join of its parent too. *)
EndsJoin_Detached(t) ==
  LET p == thr[t].parent IN IF p = None THEN FALSE ELSE thr[p].i_am_joining

(* The parent of the ending thread waits for it in %join. *)
EndsJoin(t) ==
  LET p == thr[t].parent
  IN  IF thr[t].i_am_detached \/ p = None THEN FALSE ELSE thr[p].i_am_joining

(* Mutant: the test is made before the thread is erased. *)
EndsWaitFork_Early(t) ==
  /\ thr[t].i_am_detached
  /\ LET p == thr[t].parent IN thr[p].i_am_waiting /\ thr[p].detached_children = {}

(* The ending thread is the last detached child of a parent in %wait/fork. *)
EndsWaitFork(t) ==
  /\ thr[t].i_am_detached
  /\ LET p == thr[t].parent IN thr[p].i_am_waiting /\ thr[p].detached_children = {t}

(* The thread has ended, and its detached children are on their own. *)
Ended(t) ==
  [x \in Threads |->
     CASE x = t -> [thr[t] EXCEPT !.i_have_ended = TRUE, !.zombie = TRUE,
                                  !.detached_children = {}]
       [] x \in thr[t].detached_children ->
            [thr[x] EXCEPT !.parent = None, !.i_am_detached = FALSE]
       [] OTHER -> thr[x]]

(* If it is detached itself it leaves its parent. *)
Left(t) ==
  LET p == thr[t].parent
      last == EndsWaitFork(t)
  IN  IF ~ thr[t].i_am_detached THEN Ended(t)
      ELSE [Ended(t) EXCEPT ![t].i_am_detached = FALSE, ![t].parent = None,
                            ![p].detached_children = @ \ {t},
                            ![p].i_am_waiting = @ /\ ~ last,
                            ![p].is_scheduled = @ \/ last]

of_END(t) ==
  LET f == Ended(t)
      g == Left(t)
      p == thr[t].parent
      last == EndsWaitFork(t)
      ok == /\ thr[t].children = {} /\ ~ thr[t].waiting_for_event
            /\ \A c \in thr[t].detached_children :
                 thr[c].parent = t /\ thr[c].i_am_detached
  IN  /\ InBody(t)
      /\ \/ /\ EndsJoin(t)
            /\ thr' = vthread_reap(Scheduled([f EXCEPT ![p].i_am_joining = FALSE], {p}), t)
            /\ active' = Push(active, p)
            /\ Check(ok /\ ~ thr[p].is_scheduled /\ ReapOk(f, t))
         \/ /\ ~ EndsJoin(t)
            /\ thr' = IF g[t].parent = None THEN vthread_reap(g, t) ELSE g
            /\ active' = IF last THEN Push(active, p) ELSE active
            /\ Check(/\ ok
                     /\ thr[t].i_am_detached =>
                          /\ p # None /\ t \in thr[p].detached_children
                          /\ last => ~ thr[p].is_scheduled
                     /\ g[t].parent = None => ReapOk(g, t))
      /\ running' = None
      /\ UNCHANGED <<todo, later, event_list, suspended, rest, disabling>>

(* %disable <scope> begins, and turns off the threads of the scope one by  *)
(* one.  The thread goes on unless it was one of them.                     *)
of_DISABLE(t, s) ==
  /\ InBody(t)
  /\ "disable" \in Opcodes
  /\ disabling' = s
  /\ UNCHANGED <<thr, todo, active, later, event_list, suspended, running, rest, aborted>>

Disables(t) ==
  /\ thr' = do_disable(thr, t)
  /\ active' = IF Wakes(thr, t) THEN Push(active, thr[t].parent) ELSE active
  /\ Check(DisableOk(thr, t))

DisableStep ==
  /\ ~ aborted
  /\ disabling \in Scopes
  /\ \E t \in {x \in Threads : thr[x].in_scope /\ thr[x].scope = disabling} : Disables(t)
  /\ UNCHANGED <<todo, later, event_list, suspended, running, rest, disabling>>

DisableEnd ==
  /\ ~ aborted
  /\ disabling \in Scopes
  /\ ~ \E x \in Threads : thr[x].in_scope /\ thr[x].scope = disabling
  /\ disabling' = None
  /\ running' = IF thr[running].zombie THEN None ELSE running
  /\ UNCHANGED <<thr, todo, active, later, event_list, suspended, rest, aborted>>

(* t, its parent, the parent of that, and so on. *)
Ancestors(t) ==
  {x \in Threads : \A S \in SUBSET Threads :
     t \in S /\ (\A y \in S : thr[y].parent \in S \cup {None}) => x \in S}

(* The closest of them in the scope, or t itself if there is none. *)
Closest(t, s) ==
  LET in == {x \in Ancestors(t) : thr[x].scope = s}
  IN  IF in = {} THEN {t} ELSE {x \in in : in \subseteq Ancestors(x)}

(* %disable/flow turns that thread off. *)
of_DISABLE_FLOW(t, s) ==
  /\ InBody(t)
  /\ "flow" \in Opcodes
  /\ \E cur \in Closest(t, s) :
       /\ Disables(cur)
       /\ running' = IF t = cur \/ t \in Descendants(thr, cur) THEN None ELSE running
  /\ UNCHANGED <<todo, later, event_list, suspended, rest, disabling>>

(* %disable/fork begins, and turns off and reaps the detached children one *)
(* after the other.                                                        *)
of_DISABLE_FORK(t) ==
  /\ InBody(t)
  /\ "disfork" \in Opcodes
  /\ thr[t].detached_children # {}
  /\ disabling' = t
  /\ Check(~ thr[t].i_am_joining /\ thr[t].children = {})
  /\ UNCHANGED <<thr, todo, active, later, event_list, suspended, running, rest>>

DisableForkStep ==
  /\ ~ aborted
  /\ disabling \in Threads
  /\ \E c \in thr[disabling].detached_children :
       LET f == do_disable(thr, c)
       IN  /\ thr' = vthread_reap(f, c)
           /\ active' = IF Wakes(thr, c) THEN Push(active, thr[c].parent) ELSE active
           /\ Check(/\ thr[c].parent = disabling /\ DisableOk(thr, c) /\ ReapOk(f, c)
                    /\ running # c /\ running \notin Descendants(thr, c))
  /\ UNCHANGED <<todo, later, event_list, suspended, running, rest, disabling>>

DisableForkEnd ==
  /\ ~ aborted
  /\ disabling \in Threads
  /\ thr[disabling].detached_children = {}
  /\ disabling' = None
  /\ UNCHANGED <<thr, todo, active, later, event_list, suspended, running, rest, aborted>>

(* What the scheduler runs when a disabled or reaped thread has its turn.  *)
of_ZOMBIE(t) ==
  /\ ~ aborted
  /\ running = t /\ disabling = None /\ thr[t].zombie
  /\ thr' = IF thr[t].parent = None /\ thr[t].children = {}
            THEN [thr EXCEPT ![t] = Deleted] ELSE thr
  /\ running' = None
  /\ UNCHANGED <<todo, active, later, event_list, suspended, rest, disabling, aborted>>

-----------------------------------------------------------------------------
(* vthread_run: the first thread of a list of the active events starts,    *)
(* and, once it has paused, the next one.                                  *)
RunThread(t) ==
  /\ running' = t
  /\ thr' = [thr EXCEPT ![t].is_scheduled = FALSE]
  /\ Check(thr[t].is_scheduled)
  /\ UNCHANGED <<todo, later, event_list, suspended, disabling>>

vthread_run ==
  /\ ~ aborted
  /\ running = None
  /\ rest = << >> /\ active # << >>
  /\ RunThread(Head(Head(active)))
  /\ rest' = Tail(Head(active))
  /\ active' = Tail(active)

vthread_run_next ==
  /\ ~ aborted
  /\ running = None
  /\ rest # << >>
  /\ RunThread(Head(rest))
  /\ rest' = Tail(rest)
  /\ UNCHANGED active

(* The delay of a thread is over: one thread at a time, since it makes no  *)
(* difference to the others whether a thread is due now or later.          *)
AdvanceTime(t) ==
  /\ ~ aborted
  /\ running = None /\ rest = << >> /\ active = << >>
  /\ t \in later
  /\ later' = later \ {t}
  /\ active' = <<<<t>>>>
  /\ UNCHANGED <<thr, todo, event_list, suspended, running, rest, disabling, aborted>>

(* Nothing is left to run: the simulation is over, or waits for an event   *)
(* that never comes.                                                       *)
Quiet == running = None /\ rest = << >> /\ active = << >> /\ later = {}

Init ==
  /\ program \in Programs
  /\ \E s \in [program.roots -> Scopes] :
       thr = [t \in Threads |->
                IF t \in program.roots THEN [vthread_new(None, s[t]) EXCEPT !.is_scheduled = TRUE]
                ELSE NoThread]
  /\ todo = [t \in Threads |-> NoBlock]
  /\ active \in {[i \in DOMAIN q |-> <<q[i]>>] : q \in SetToSeqs(program.roots)}
  /\ later = {} /\ event_list = << >> /\ suspended = << >>
  /\ running = None /\ rest = << >> /\ disabling = None /\ aborted = FALSE

Instruction(t) ==
  \/ \E n \in 1..MaxFork, s \in Scopes : \E b \in Blocks(n) : BeginFork(t, n, b, s)
  \/ \E child \in Threads : of_FORK(t, child)
  \/ of_JOIN(t)
  \/ of_JOIN_DETACH(t)
  \/ of_DELAY(t)
  \/ of_WAIT(t)
  \/ of_WAIT_FORK(t)
  \/ Suspend(t)
  \/ Resume(t)
  \/ of_END(t)
  \/ \E s \in Scopes : of_DISABLE(t, s)
  \/ \E s \in Scopes : of_DISABLE_FLOW(t, s)
  \/ of_DISABLE_FORK(t)
  \/ of_ZOMBIE(t)

Finished == ~ aborted /\ Quiet /\ event_list = << >> /\ UNCHANGED vars

Next ==
  \/ \E t \in Threads : Instruction(t)
  \/ vthread_schedule_list
  \/ DisableStep
  \/ DisableEnd
  \/ DisableForkStep
  \/ DisableForkEnd
  \/ vthread_run
  \/ vthread_run_next
  \/ \E t \in Threads : AdvanceTime(t)
  \/ Finished

Spec == Init /\ [][Next /\ UNCHANGED program]_vars

-----------------------------------------------------------------------------
TypeOK ==
  /\ program \in Programs
  /\ thr \in [Threads -> vthread_s]
  /\ todo \in [Threads -> Block]
  /\ active \in Seq(Seq(Threads) \ {<< >>})
  /\ later \subseteq Threads
  /\ event_list \in Seq(Threads) /\ suspended \in Seq(Threads) /\ rest \in Seq(Threads)
  /\ running \in Threads \cup {None}
  /\ disabling \in Scopes \cup Threads \cup {None}
  /\ aborted \in BOOLEAN

Live(t) == thr[t].exists /\ ~ thr[t].zombie

(* No assert() of the thread code fails: the sets of children and detached *)
(* children agree with the parent pointers and the flags whatever is       *)
(* disabled when, a thread is never scheduled twice, and what ends has no  *)
(* children left.                                                          *)
NoAssertFails == ~ aborted

(* The threads of the active events, and what the queues of vvp hold. *)
Members(lists) == UNION {Range(lists[i]) : i \in DOMAIN lists}

Queued == Members(active) \cup Range(rest) \cup Range(event_list) \cup Range(suspended) \cup later

(* How often t is in a queue, and in the active events. *)
Occurrences(queue, t) == Cardinality({i \in DOMAIN queue : queue[i] = t})

Events(lists, t) ==
  Cardinality(UNION {{i} \X {j \in DOMAIN lists[i] : lists[i][j] = t} : i \in DOMAIN lists})

(* No thread is referred to after it is deleted: not from a queue, from a  *)
(* wait list, from a parent or child that is still in the tree; and every  *)
(* variable has its type.                                                  *)
NoDangling ==
  TypeOK /\ \A t \in Threads : thr[t].freed =>
    /\ t \notin Queued
    /\ disabling = None => running # t
    /\ \A x \in Threads :
         thr[x].exists /\ ~ (thr[x].zombie /\ thr[x].parent = None) =>
           t \notin thr[x].children \cup thr[x].detached_children \cup {thr[x].parent}

(* A thread that lives is in one place only: it runs, or is in one queue,  *)
(* or waits in %join or %wait/fork.  A disabled one is in at most one, and *)
(* one that is in none and has no parent has been deleted.                 *)
OnePlace ==
  LET count(here) == IF here THEN 1 ELSE 0
  IN  \A t \in Threads : thr[t].exists =>
    LET n == Events(active, t) + Occurrences(rest, t) + Occurrences(event_list, t)
               + Occurrences(suspended, t) + count(t \in later) + count(running = t)
    IN  IF thr[t].zombie
        THEN n \in (IF thr[t].parent = None THEN {1} ELSE {0, 1})
        ELSE n + count(thr[t].i_am_joining) + count(thr[t].i_am_waiting) = 1

(* A thread in %wait/fork has a detached child that has not ended.         *)
WaitForkWakes ==
  \A t \in Threads : Live(t) /\ thr[t].i_am_waiting =>
    \E c \in thr[t].detached_children : ~ thr[c].i_have_ended

(* When nothing is left to run and nobody waits for an event, every thread *)
(* has ended and has been deleted: no join is stuck and nothing leaks.     *)
NobodyStuck ==
  Quiet /\ event_list = << >> /\ suspended = << >> =>
    \A t \in Threads : ~ thr[t].exists

=============================================================================
