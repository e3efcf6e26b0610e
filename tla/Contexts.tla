------------------------------ MODULE Contexts ------------------------------
(***************************************************************************)
(* The contexts of automatic tasks and functions, vvp/vthread.cc: %alloc,  *)
(* %fork and %callf, %join, %free and the user functions of continuous     *)
(* assignments (%exec_ufunc).                                              *)
(*                                                                         *)
(* A thread writes variables of the context wt_context and reads those of  *)
(* rd_context.  %alloc pushes the callee's context on the stack of write   *)
(* contexts, so that the arguments go there while they are still computed  *)
(* from the caller's variables; the %join moves it to the stack of read    *)
(* contexts, so that the outputs come from there and go to the caller's    *)
(* variables; %free pops it.  Both stacks share the one link in a context. *)
(* Calls nest in argument and output expressions, tasks are recursive,     *)
(* and several threads may be inside of one task.                          *)
(*                                                                         *)
(* Programs have the shape the code generator gives them: arguments, call, *)
(* outputs, %free, and no statement in between.                            *)
(***************************************************************************)
EXTENDS Integers, Sequences, FiniteSets, SequencesExt

CONSTANTS
  Threads, Roots,  (* all threads and those of initial and always statements *)
  UfuncRoots,      (* the roots that evaluate a continuous assignment *)
  Scopes,          (* the automatic tasks and functions *)
  Contexts,        (* memory for contexts *)
  Null,
  MaxCalls,        (* bound on the number of calls *)
  MaxNest          (* bound on the calls open in one thread *)

ASSUME ContextAssumption ==
  /\ Roots \subseteq Threads /\ UfuncRoots \subseteq Roots
  /\ Null \notin Contexts \cup Threads /\ MaxCalls \in Nat /\ MaxNest \in Nat

VARIABLES
  wt_context, rd_context,  \* per thread
  stacked,        \* per context, the link of the stacks
  live_contexts,  \* per scope
  free_contexts,  \* per scope
  port,           \* per context, the argument last stored: the number of its call
  status,         \* per thread: "unused", "running", "joining", "ended", "reaped"
  parent,         \* per thread
  calls,          \* per thread, the calls it has open, innermost first
  todo,           \* per thread, the joins left of its fork block
  n,              \* calls so far
  abandoned       \* the contexts of calls whose thread was disabled

vars == <<wt_context, rd_context, stacked, live_contexts, free_contexts, port,
          status, parent, calls, todo, n, abandoned>>

(* An open call: its context and number, and whether its arguments are     *)
(* being computed, it is under way or its outputs are being copied.  kind  *)
(* tells calls by a thread from those of a continuous assignment.          *)
CallRecord == [ctx: Contexts, no: 1..MaxCalls, scope: Scopes, kind: {"call", "ufunc"},
               at: {"args", "ready", "body", "outputs"}]

Top(t) == calls[t][1]
Runs(t) == status[t] = "running"
Statement(t) == calls[t] = << >> /\ todo[t] = 0
Children(t) == {c \in Threads : parent[c] = t /\ status[c] # "reaped"}

(* The contexts that a scope has, live or free. *)
Memory(s) == Range(live_contexts[s]) \cup Range(free_contexts[s])

-----------------------------------------------------------------------------
(* Mutant: a context on the free list is given out and left there. *)
alloc_Keeps(s, c) ==
  /\ IF free_contexts[s] # << >>
     THEN /\ c = Head(free_contexts[s])
          /\ UNCHANGED free_contexts
     ELSE /\ \A x \in Scopes : c \notin Memory(x)
          /\ UNCHANGED free_contexts
  /\ live_contexts' = [live_contexts EXCEPT ![s] = <<c>> \o @]

(* vthread_alloc_context: the last freed context of the scope, or a new    *)
(* one.                                                                    *)
vthread_alloc_context(s, c) ==
  /\ IF free_contexts[s] # << >>
     THEN /\ c = Head(free_contexts[s])
          /\ free_contexts' = [free_contexts EXCEPT ![s] = Tail(@)]
     ELSE /\ \A x \in Scopes : c \notin Memory(x)
          /\ UNCHANGED free_contexts
  /\ live_contexts' = [live_contexts EXCEPT ![s] = <<c>> \o @]

(* vthread_free_context: the list of live contexts is searched for c. *)
vthread_free_context(c, s) ==
  LET k == CHOOSE i \in DOMAIN live_contexts[s] : live_contexts[s][i] = c
  IN  /\ live_contexts' = [live_contexts EXCEPT ![s] = RemoveAt(@, k)]
      /\ free_contexts' = [free_contexts EXCEPT ![s] = <<c>> \o @]

(* %alloc *)
of_ALLOC(t, s, c) ==
  /\ Runs(t) /\ todo[t] = 0 /\ t \notin UfuncRoots
  /\ calls[t] # << >> => Top(t).at \in {"args", "outputs"}
  /\ n < MaxCalls /\ Len(calls[t]) < MaxNest
  /\ vthread_alloc_context(s, c)
  /\ stacked' = [stacked EXCEPT ![c] = wt_context[t]]
  /\ wt_context' = [wt_context EXCEPT ![t] = c]
  /\ port' = [port EXCEPT ![c] = 0]
  /\ n' = n + 1
  /\ calls' = [calls EXCEPT ![t] =
       <<[ctx |-> c, no |-> n + 1, scope |-> s, kind |-> "call", at |-> "args"]>> \o @]
  /\ UNCHANGED <<rd_context, status, parent, todo, abandoned>>

(* Mutant: the arguments go to the context that is read. *)
StoreArguments_Read(t) ==
  /\ Runs(t) /\ calls[t] # << >> /\ Top(t).at = "args"
  /\ port' = [c \in Contexts |-> IF c = rd_context[t] THEN Top(t).no ELSE port[c]]
  /\ calls' = [calls EXCEPT ![t][1].at = "ready"]
  /\ UNCHANGED <<wt_context, rd_context, stacked, live_contexts, free_contexts, status,
                 parent, todo, n, abandoned>>

(* %store of the arguments. *)
StoreArguments(t) ==
  /\ Runs(t) /\ calls[t] # << >> /\ Top(t).at = "args"
  /\ port' = [port EXCEPT ![wt_context[t]] = Top(t).no]
  /\ calls' = [calls EXCEPT ![t][1].at = "ready"]
  /\ UNCHANGED <<wt_context, rd_context, stacked, live_contexts, free_contexts, status,
                 parent, todo, n, abandoned>>

(* A child that runs in the context on top of the write stack. *)
NewChild(t, c) ==
  /\ status[c] = "unused"
  /\ parent' = [parent EXCEPT ![c] = t]
  /\ wt_context' = [wt_context EXCEPT ![c] = wt_context[t]]
  /\ rd_context' = [rd_context EXCEPT ![c] = wt_context[t]]

(* %fork and %callf of the task or function, and the %join that follows. *)
of_FORK_call(t, c) ==
  /\ Runs(t) /\ calls[t] # << >> /\ Top(t).at = "ready"
  /\ NewChild(t, c)
  /\ status' = [status EXCEPT ![c] = "running", ![t] = "joining"]
  /\ calls' = [calls EXCEPT ![t][1].at = "body"]
  /\ UNCHANGED <<stacked, live_contexts, free_contexts, port, todo, n, abandoned>>

(* A fork block of two statements. *)
of_FORK_block(t, c, d) ==
  /\ Runs(t) /\ Statement(t) /\ t \notin UfuncRoots /\ c # d
  /\ status[c] = "unused" /\ status[d] = "unused"
  /\ parent' = [parent EXCEPT ![c] = t, ![d] = t]
  /\ wt_context' = [wt_context EXCEPT ![c] = wt_context[t], ![d] = wt_context[t]]
  /\ rd_context' = [rd_context EXCEPT ![c] = wt_context[t], ![d] = wt_context[t]]
  /\ status' = [status EXCEPT ![c] = "running", ![d] = "running"]
  /\ todo' = [todo EXCEPT ![t] = 2]
  /\ UNCHANGED <<stacked, live_contexts, free_contexts, port, calls, n, abandoned>>

(* Mutant: the link still leads down the write stack. *)
do_join_Unlinked(t, c) ==
  IF wt_context[c] # Null /\ wt_context[t] # rd_context[t]
  THEN LET x == wt_context[t]
       IN  /\ wt_context' = [wt_context EXCEPT ![t] = stacked[x]]
           /\ UNCHANGED stacked
           /\ rd_context' = [rd_context EXCEPT ![t] = x]
  ELSE UNCHANGED <<wt_context, rd_context, stacked>>

(* do_join: what becomes of the contexts of t. *)
do_join(t, c) ==
  IF wt_context[c] # Null /\ wt_context[t] # rd_context[t]
  THEN LET x == wt_context[t]
       IN  /\ wt_context' = [wt_context EXCEPT ![t] = stacked[x]]
           /\ stacked' = [stacked EXCEPT ![x] = rd_context[t]]
           /\ rd_context' = [rd_context EXCEPT ![t] = x]
  ELSE UNCHANGED <<wt_context, rd_context, stacked>>

(* What the joined thread goes on with. *)
Joined(t) ==
  IF todo[t] > 0
  THEN todo' = [todo EXCEPT ![t] = @ - 1] /\ UNCHANGED calls
  ELSE calls' = [calls EXCEPT ![t][1].at = "outputs"] /\ UNCHANGED todo

(* %join in a fork block. *)
of_JOIN(t) ==
  /\ Runs(t) /\ todo[t] > 0
  /\ IF \E c \in Children(t) : status[c] = "ended"
     THEN \E c \in Children(t) :
            /\ status[c] = "ended"
            /\ do_join(t, c)
            /\ status' = [status EXCEPT ![c] = "reaped"]
            /\ Joined(t)
     ELSE /\ status' = [status EXCEPT ![t] = "joining"]
          /\ UNCHANGED <<wt_context, rd_context, stacked, calls, todo>>
  /\ UNCHANGED <<live_contexts, free_contexts, port, parent, n, abandoned>>

(* The thread c is over: a parent in %join goes on. *)
Ends(c, gone) ==
  LET t == parent[c]
  IN  IF t # Null /\ status[t] = "joining"
      THEN /\ status' = [x \in Threads |-> IF x = t THEN "running"
                                           ELSE IF x \in gone \cup {c} THEN "reaped"
                                           ELSE status[x]]
           /\ do_join(t, c)
           /\ Joined(t)
      ELSE /\ status' = [x \in Threads |-> IF x \in gone \/ (x = c /\ t = Null) THEN "reaped"
                                           ELSE IF x = c THEN "ended"
                                           ELSE status[x]]
           /\ UNCHANGED <<wt_context, rd_context, stacked, calls, todo>>

of_END(c) ==
  /\ Runs(c) /\ Statement(c) /\ c \notin UfuncRoots
  /\ Ends(c, {})
  /\ UNCHANGED <<live_contexts, free_contexts, port, parent, n, abandoned>>

(* The descendants of c: what is in every set that holds the children of c *)
(* and those of its members.                                               *)
Closed(S) == \A x \in S : Children(x) \subseteq S

Below(c) ==
  {x \in Threads : \A S \in SUBSET Threads : Children(c) \subseteq S /\ Closed(S) => x \in S}

(* The contexts of the calls that t has open. *)
Taken(t) == {calls[t][k].ctx : k \in DOMAIN calls[t]}

(* %disable: the thread c and its descendants end wherever they are. *)
do_disable(c) ==
  LET gone == Below(c)
  IN  /\ status[c] \in {"running", "joining"} /\ c \notin UfuncRoots
      /\ \A t \in UfuncRoots : parent[c] # t
      /\ Ends(c, gone)
      /\ abandoned' = abandoned \cup UNION {Taken(x) : x \in gone \cup {c}}
      /\ UNCHANGED <<live_contexts, free_contexts, port, parent, n>>

(* %free *)
of_FREE(t) ==
  LET c == rd_context[t]
  IN  /\ Runs(t) /\ calls[t] # << >> /\ Top(t).at = "outputs" /\ Top(t).kind = "call"
      /\ rd_context' = [rd_context EXCEPT ![t] = stacked[c]]
      /\ vthread_free_context(c, Top(t).scope)
      /\ calls' = [calls EXCEPT ![t] = Tail(@)]
      /\ UNCHANGED <<wt_context, stacked, port, status, parent, todo, n, abandoned>>

-----------------------------------------------------------------------------
(* %exec_ufunc: the thread of a continuous assignment calls a function. *)
do_exec_ufunc(t, s, c, x) ==
  /\ Runs(t) /\ t \in UfuncRoots /\ Statement(t)
  /\ n < MaxCalls
  /\ status[c] = "unused"
  /\ vthread_alloc_context(s, x)
  /\ wt_context' = [wt_context EXCEPT ![t] = x, ![c] = x]
  /\ rd_context' = [rd_context EXCEPT ![t] = x, ![c] = x]
  /\ n' = n + 1
  /\ port' = [port EXCEPT ![x] = n + 1]
  /\ parent' = [parent EXCEPT ![c] = t]
  /\ status' = [status EXCEPT ![c] = "running", ![t] = "joining"]
  /\ calls' = [calls EXCEPT ![t] =
       <<[ctx |-> x, no |-> n + 1, scope |-> s, kind |-> "ufunc", at |-> "body"]>>]
  /\ UNCHANGED <<stacked, todo, abandoned>>

(* %reap_ufunc *)
of_REAP_UFUNC(t) ==
  /\ Runs(t) /\ calls[t] # << >> /\ Top(t).at = "outputs" /\ Top(t).kind = "ufunc"
  /\ vthread_free_context(rd_context[t], Top(t).scope)
  /\ wt_context' = [wt_context EXCEPT ![t] = Null]
  /\ rd_context' = [rd_context EXCEPT ![t] = Null]
  /\ calls' = [calls EXCEPT ![t] = << >>]
  /\ UNCHANGED <<stacked, port, status, parent, todo, n, abandoned>>

Init ==
  /\ wt_context = [t \in Threads |-> Null] /\ rd_context = [t \in Threads |-> Null]
  /\ stacked = [c \in Contexts |-> Null] /\ port = [c \in Contexts |-> 0]
  /\ live_contexts = [s \in Scopes |-> << >>] /\ free_contexts = [s \in Scopes |-> << >>]
  /\ status = [t \in Threads |-> IF t \in Roots THEN "running" ELSE "unused"]
  /\ parent = [t \in Threads |-> Null]
  /\ calls = [t \in Threads |-> << >>] /\ todo = [t \in Threads |-> 0]
  /\ n = 0 /\ abandoned = {}

Next ==
  \E t \in Threads :
    \/ \E s \in Scopes, x \in Contexts : of_ALLOC(t, s, x)
    \/ StoreArguments(t)
    \/ \E c \in Threads : of_FORK_call(t, c)
    \/ \E c, d \in Threads : of_FORK_block(t, c, d)
    \/ of_JOIN(t)
    \/ of_END(t)
    \/ do_disable(t)
    \/ of_FREE(t)
    \/ \E s \in Scopes, c \in Threads, x \in Contexts : do_exec_ufunc(t, s, c, x)
    \/ of_REAP_UFUNC(t)

Spec == Init /\ [][Next]_vars

-----------------------------------------------------------------------------
TypeOK ==
  /\ wt_context \in [Threads -> Contexts \cup {Null}]
  /\ rd_context \in [Threads -> Contexts \cup {Null}]
  /\ stacked \in [Contexts -> Contexts \cup {Null}]
  /\ live_contexts \in [Scopes -> Seq(Contexts)] /\ free_contexts \in [Scopes -> Seq(Contexts)]
  /\ port \in [Contexts -> 0..MaxCalls]
  /\ status \in [Threads -> {"unused", "running", "joining", "ended", "reaped"}]
  /\ parent \in [Threads -> Threads \cup {Null}]
  /\ calls \in [Threads -> Seq(CallRecord)]
  /\ todo \in [Threads -> 0..2] /\ n \in 0..MaxCalls /\ abandoned \subseteq Contexts

Alive(t) == status[t] \in {"running", "joining"}

(* The context that a thread's own statements use: that of its call. *)
Own(t) ==
  LET p == parent[t]
  IN  IF p = Null THEN Null
      ELSE IF calls[p] # << >> THEN Top(p).ctx ELSE wt_context[p]

(* Of the calls cs without the m innermost ones, x is the context of the   *)
(* first that is at one of the places ats, and other if there is none.     *)
FirstAt(cs, m, ats, other, x) ==
  \/ x = other /\ \A k \in DOMAIN cs : k > m => cs[k].at \notin ats
  \/ \E k \in DOMAIN cs :
       /\ k > m /\ cs[k].at \in ats /\ x = cs[k].ctx
       /\ \A j \in DOMAIN cs : m < j /\ j < k => cs[j].at \notin ats

Writing == {"args", "ready", "body"}
Reading == {"outputs"}

(* Arguments are written to the context of the innermost call that is not  *)
(* made yet, and outputs read from that of the innermost call that has     *)
(* returned; everything else is read from and written to the thread's own. *)
ContextsRight ==
  \A t \in Threads : Alive(t) /\ t \notin UfuncRoots =>
    /\ FirstAt(calls[t], 0, Writing, Own(t), wt_context[t])
    /\ FirstAt(calls[t], 0, Reading, Own(t), rd_context[t])

(* What a call was given is not overwritten, by a nested or recursive call *)
(* or by another thread in the same task, until its outputs are read.      *)
ArgumentsKept ==
  \A t \in Threads : Alive(t) => \A k \in DOMAIN calls[t] :
    calls[t][k].at \in {"ready", "body", "outputs"} => port[calls[t][k].ctx] = calls[t][k].no

Open(s) ==
  {x \in Contexts : \E t \in Threads : Alive(t) /\
     \E k \in DOMAIN calls[t] : calls[t][k].ctx = x /\ calls[t][k].scope = s}

Unshared ==
  \A t, u \in Threads : Alive(t) /\ Alive(u) =>
    \A j \in DOMAIN calls[t], k \in DOMAIN calls[u] :
      calls[t][j].ctx = calls[u][k].ctx => t = u /\ j = k

Disjoint(s) ==
  /\ IsInjective(live_contexts[s]) /\ IsInjective(free_contexts[s])
  /\ Range(live_contexts[s]) \cap Range(free_contexts[s]) = {}

(* A context belongs to one open call, is live while the call is open and  *)
(* free again afterwards: only a call whose thread is disabled loses it.   *)
(* Every variable has its type.                                            *)
OneCall ==
  /\ TypeOK /\ Unshared
  /\ \A s \in Scopes : Disjoint(s) /\ Open(s) = Range(live_contexts[s]) \ abandoned

-----------------------------------------------------------------------------
(* The inductive invariant of ContextsProofs. *)

(* The children of a thread are those its statement waits for, and a       *)
(* thread that is over has none.  Only the innermost call can be under way. *)
KidsOk(t) ==
  /\ status[t] = "unused" => parent[t] = Null /\ calls[t] = << >> /\ todo[t] = 0
  /\ t \in Roots => status[t] # "unused" /\ parent[t] = Null
  /\ ~ Alive(t) => Children(t) = {}
  /\ Alive(t) /\ calls[t] = << >> =>
       /\ todo[t] = 0 => Children(t) = {} /\ status[t] = "running"
       /\ todo[t] = 1 => \E c \in Threads : Children(t) = {c}
       /\ todo[t] = 2 => \E c, d \in Threads : c # d /\ Children(t) = {c, d}
  /\ Alive(t) /\ calls[t] # << >> =>
       /\ todo[t] = 0
       /\ IF Top(t).at = "body"
          THEN status[t] = "joining" /\ \E c \in Threads : Children(t) = {c}
          ELSE status[t] = "running" /\ Children(t) = {}
       /\ \A k \in DOMAIN calls[t] : k > 1 => calls[t][k].at \in {"args", "outputs"}

TreeOk == \A t \in Threads : KidsOk(t)

(* Nobody is among its own descendants. *)
Ordered(rank) == \A t \in Threads : \A c \in Children(t) : rank[t] < rank[c]

(* The stacks of contexts.  Each link leads to the next call that is on    *)
(* the same stack, and at last to the thread's own context.                *)
Side(at) == IF at \in Writing THEN Writing ELSE Reading

StacksOk(t) ==
  /\ FirstAt(calls[t], 0, Writing, Own(t), wt_context[t])
  /\ FirstAt(calls[t], 0, Reading, Own(t), rd_context[t])
  /\ \A k \in DOMAIN calls[t] :
       /\ calls[t][k].kind = "call"
       /\ FirstAt(calls[t], k, Side(calls[t][k].at), Own(t), stacked[calls[t][k].ctx])

UfuncOk(t) ==
  /\ todo[t] = 0
  /\ calls[t] # << >> =>
       /\ Len(calls[t]) = 1 /\ Top(t).kind = "ufunc" /\ Top(t).at \in {"body", "outputs"}
       /\ wt_context[t] = Top(t).ctx /\ rd_context[t] = Top(t).ctx

ThreadsOk ==
  \A t \in Threads : Alive(t) => IF t \in UfuncRoots THEN UfuncOk(t) ELSE StacksOk(t)

(* A thread's own context is that of a call that is under way, and is used *)
(* by the thread that was forked for the call and by its descendants only. *)
InBody(t) == Alive(t) /\ calls[t] # << >> /\ Top(t).at = "body"

OwnsOk ==
  /\ \A t \in Threads : Alive(t) /\ Own(t) # Null =>
       \E q \in Threads : InBody(q) /\ Top(q).ctx = Own(t)
  /\ \A q, t, c \in Threads : InBody(q) /\ c \in Children(q) /\ Alive(t) /\ Own(t) = Top(q).ctx =>
       t \in Below(c) \cup {c}

(* The lists of the scopes. *)
ListsOk ==
  /\ \A r, s \in Scopes : r # s => Memory(r) \cap Memory(s) = {}
  /\ \A x \in abandoned : \E s \in Scopes : x \in Range(live_contexts[s])
  /\ \A t \in Threads : ~ Alive(t) => Taken(t) \subseteq abandoned

IInv ==
  /\ OneCall /\ ArgumentsKept /\ TreeOk /\ ThreadsOk /\ OwnsOk /\ ListsOk
  /\ \E rank \in [Threads -> Nat] : Ordered(rank)

=============================================================================
