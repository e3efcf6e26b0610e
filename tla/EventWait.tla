----------------------------- MODULE EventWait -----------------------------
(***************************************************************************)
(* Events, vvp/event.cc: functors that watch signals for edges, named      *)
(* events and combinations of events, the threads that wait for them, and  *)
(* the non-blocking assignments with an event control                      *)
(* (q <= repeat (n) @(e) v) that they hold as evctl objects.               *)
(*                                                                         *)
(* A new value goes depth first through everything that watches a signal:  *)
(* an evctl whose count is used up assigns its value at once, from inside  *)
(* the walk over the event_ctls of its event, and so starts further walks. *)
(* The calls in progress are kept in stack; threads run only when it is    *)
(* empty.                                                                  *)
(*                                                                         *)
(* Functors of an automatic scope keep waiting threads and old values per  *)
(* context; a value of a static signal is shown to each live context.      *)
(***************************************************************************)
EXTENDS Integers, Sequences, FiniteSets, SequencesExt

CONSTANTS
  Signals,   (* static one-bit variables *)
  Functors,  (* the event functors *)
  Kind,      (* of each functor: "posedge", "negedge", "edge", "anyedge", "named", "or" *)
  Sig,       (* the signal an edge functor watches *)
  Ors,       (* the "or" functors that each functor feeds *)
  Automatic,      (* the functors of the automatic scope *)
  Threads, Contexts, Static,
  Bits,      (* the values that are assigned *)
  Ctls,      (* the program's q <= repeat (n) @(e) v: records on, n, to, val *)
  MaxOps     (* bound on the operations of the threads *)

Bit4 == {"0", "1", "X", "Z"}

ASSUME EventAssumption ==
  /\ IsFiniteSet(Functors) /\ Automatic \subseteq Functors
  /\ Static \notin Contexts /\ Bits \subseteq Bit4 /\ MaxOps \in Nat
  /\ Kind \in [Functors -> {"posedge", "negedge", "edge", "anyedge", "named", "or"}]
  /\ Ors \in [Functors -> SUBSET {e \in Functors : Kind[e] = "or"}]
  /\ Ctls \subseteq [on: Functors \ Automatic, n: Nat \ {0}, to: Signals, val: Bits]
  /\ \A e \in Functors : \A o \in Ors[e] : Ors[o] = {} /\ (e \in Automatic <=> o \in Automatic)
  /\ \A e \in Automatic : Kind[e] # "named"

Edges == {"posedge", "negedge", "edge", "anyedge"}

Watchers(s) == {e \in Functors : Kind[e] \in Edges /\ Sig[e] = s}

VARIABLES
  value,      \* the values of the signals
  bits_,      \* per functor, the last value seen
  bits,       \* the same per context, for functors of the automatic scope
  threads,    \* per functor and context, the threads that wait
  event_ctls, \* per functor, the list of evctl objects
  last,       \* per functor, how many objects lie before the pointer last
  live,       \* live_contexts, a list of which only the members matter
  ctx,        \* the context of each thread
  stack,      \* the calls in progress, innermost first
  ops,        \* operations so far
  aborted,    \* an assert() has failed
  hits,       \* history: the events since the thread began to wait
  fired,      \* history: the evctl objects that have assigned their value
  cyclic      \* history: an evctl has caused the event, or changed the signal, whose
              \* walk it was run from

vars == <<value, bits_, bits, threads, event_ctls, last, live, ctx, stack, ops,
          aborted, hits, fired, cyclic>>

evctl == [id: Nat, ecount: Nat, to: Signals, val: Bits, n: Nat, seen: Nat]

-----------------------------------------------------------------------------
(* Edges *)

(* Mutant: a change from an unknown value is no edge. *)
Triggers_Known(k, from, to) ==
  \/ k = "posedge" /\ from = "0" /\ to \in {"1", "X", "Z"}
  \/ k = "negedge" /\ from = "1" /\ to \in {"0", "X", "Z"}
  \/ k = "edge" /\ from \in {"0", "1"} /\ from # to
  \/ k = "anyedge" /\ from # to

(* Mutant: every change is a negedge, a posedge does not look at the old value. *)
Triggers_Wide(k, from, to) ==
  \/ k = "posedge" /\ from # to /\ to # "0"
  \/ k = "negedge" /\ from # to
  \/ k \in {"edge", "anyedge"} /\ from # to

(* The masks vvp_edge_posedge, vvp_edge_negedge, vvp_edge_edge, and the    *)
(* comparison of anyedge_vec4_value.                                       *)
Triggers(k, from, to) ==
  \/ k = "posedge" /\ <<from, to>> \in
       {<<"0", "1">>, <<"0", "X">>, <<"0", "Z">>, <<"X", "1">>, <<"Z", "1">>}
  \/ k = "negedge" /\ <<from, to>> \in
       {<<"1", "0">>, <<"1", "X">>, <<"1", "Z">>, <<"X", "0">>, <<"Z", "0">>}
  \/ k = "edge" /\ <<from, to>> \in
       {<<"0", "1">>, <<"1", "0">>, <<"0", "X">>, <<"X", "0">>, <<"0", "Z">>,
        <<"Z", "0">>, <<"X", "1">>, <<"1", "X">>, <<"Z", "1">>, <<"1", "Z">>}
  \/ k = "anyedge" /\ from # to

(* What an edge is, IEEE 1364: 0 lies below the unknown values and these   *)
(* below 1; a posedge goes up, a negedge down.                             *)
Level(b) == CASE b = "0" -> 0 [] b = "1" -> 2 [] OTHER -> 1

IsEdge(k, from, to) ==
  CASE k = "posedge" -> Level(to) > Level(from)
    [] k = "negedge" -> Level(to) < Level(from)
    [] k = "edge" -> Level(to) # Level(from)
    [] k = "anyedge" -> from # to
    [] OTHER -> FALSE

-----------------------------------------------------------------------------
(* The calls in progress *)

Walk(e, c) == [op |-> "walk", at |-> e, ctx |-> c, todo |-> {}, fired |-> FALSE]
Call(op, x, c, todo) == [op |-> op, at |-> x, ctx |-> c, todo |-> todo, fired |-> FALSE]

Top == Head(stack)
Running(op) == ~ aborted /\ stack # << >> /\ Top.op = op
Idle == ~ aborted /\ stack = << >>

(* run_waiting_threads_ begins: last = &event_ctls. *)
Enter(e, c, rest) ==
  /\ stack' = <<Walk(e, c)>> \o rest
  /\ last' = [last EXCEPT ![e] = 0]
  /\ cyclic' = (cyclic \/ \E i \in DOMAIN rest : rest[i].op = "walk" /\ rest[i].at = e)

(* History: the events es happen, with the event controls ctls.  Walks(es, *)
(* e) are those of them that make the functor e run its walk.              *)
Walks(es, e) == {x \in es : x = e \/ e \in Ors[x]}

Happens(es, ctls) ==
  /\ hits' = [t \in Threads |->
                IF \E e \in Functors, c \in Contexts \cup {Static} :
                     t \in threads[e][c] /\ Walks(es, e) # {}
                THEN hits[t] + 1 ELSE hits[t]]
  /\ event_ctls' = [e \in Functors |->
       [i \in DOMAIN ctls[e] |-> [ctls[e][i] EXCEPT !.seen = @ + Cardinality(Walks(es, e))]]]

(* The signal s gets a value: nothing happens unless it is a new one. *)
Send(s, v, rest, ctls) ==
  IF value[s] = v
  THEN /\ stack' = rest
       /\ event_ctls' = ctls
       /\ UNCHANGED <<value, hits>>
  ELSE /\ value' = [value EXCEPT ![s] = v]
       /\ stack' = <<Call("send", s, Static, Watchers(s))>> \o rest
       /\ Happens({e \in Watchers(s) : IsEdge(Kind[e], value[s], v)}, ctls)

Return ==
  /\ \E op \in {"send", "ors"} : Running(op)
  /\ Top.todo = {}
  /\ stack' = Tail(stack)
  /\ UNCHANGED <<value, bits_, bits, threads, event_ctls, last, live, ctx, ops,
                 aborted, hits, fired, cyclic>>

Rest(e) == <<[Top EXCEPT !.todo = @ \ {e}]>> \o Tail(stack)

(* vvp_fun_edge_sa, vvp_fun_anyedge_sa *)
recv_vec4_sa(e) ==
  /\ Running("send")
  /\ e \in Top.todo \ Automatic
  /\ bits_' = [bits_ EXCEPT ![e] = value[Sig[e]]]
  /\ IF Triggers(Kind[e], bits_[e], value[Sig[e]])
     THEN Enter(e, Static, Rest(e))
     ELSE stack' = Rest(e) /\ UNCHANGED <<last, cyclic>>
  /\ UNCHANGED <<value, bits, threads, event_ctls, live, ctx, ops, aborted, hits,
                 fired>>

(* vvp_fun_edge_aa, vvp_fun_anyedge_aa: each live context in turn ... *)
recv_vec4_aa(e) ==
  /\ Running("send")
  /\ e \in Top.todo \cap Automatic
  /\ stack' = <<Call("live", e, Static, live)>> \o Rest(e)
  /\ UNCHANGED <<value, bits_, bits, threads, event_ctls, last, live, ctx, ops,
                 aborted, hits, fired, cyclic>>

recv_context(c) ==
  LET e == Top.at
  IN  /\ Running("live")
      /\ c \in Top.todo
      /\ bits' = [bits EXCEPT ![e][c] = value[Sig[e]]]
      /\ IF Triggers(Kind[e], bits[e][c], value[Sig[e]])
         THEN Enter(e, c, Rest(c))
         ELSE stack' = Rest(c) /\ UNCHANGED <<last, cyclic>>
      /\ UNCHANGED <<value, bits_, threads, event_ctls, live, ctx, ops, aborted,
                     hits, fired>>

(* ... and then the value for the contexts to come. *)
recv_static ==
  /\ Running("live")
  /\ Top.todo = {}
  /\ bits_' = [bits_ EXCEPT ![Top.at] = value[Sig[Top.at]]]
  /\ stack' = Tail(stack)
  /\ UNCHANGED <<value, bits, threads, event_ctls, last, live, ctx, ops, aborted,
                 hits, fired, cyclic>>

(* A value of the signal is still on its way. *)
InProgress(s) == \E i \in DOMAIN stack : stack[i].op = "send" /\ stack[i].at = s

(* The loop of run_waiting_threads_ calls dec_and_run of the next evctl;   *)
(* when its count is used up, run_run assigns the value.                   *)
dec_and_run ==
  LET e == Top.at
      k == last[e] + 1
      cur == event_ctls[e][k]
      calls == <<[Top EXCEPT !.fired = TRUE]>> \o Tail(stack)
  IN  /\ Running("walk")
      /\ ~ Top.fired
      /\ last[e] < Len(event_ctls[e])
      /\ \/ /\ cur.ecount = 0
            /\ aborted' = TRUE
            /\ UNCHANGED <<value, event_ctls, last, stack, hits, fired, cyclic>>
         \/ /\ cur.ecount > 1
            /\ event_ctls' = [event_ctls EXCEPT ![e][k].ecount = @ - 1]
            /\ last' = [last EXCEPT ![e] = k]
            /\ UNCHANGED <<value, stack, aborted, hits, fired, cyclic>>
         \/ /\ cur.ecount = 1
            /\ Send(cur.to, cur.val, calls, [event_ctls EXCEPT ![e][k].ecount = 0])
            /\ fired' = fired \cup {cur}
            /\ cyclic' = (cyclic \/ (value[cur.to] # cur.val /\ InProgress(cur.to)))
            /\ UNCHANGED <<last, aborted>>
      /\ UNCHANGED <<bits_, bits, threads, live, ctx, ops>>

(* Mutant: the rest of the list is cut off with the object. *)
delete_evctl_Cuts ==
  LET e == Top.at
  IN  /\ Running("walk")
      /\ Top.fired
      /\ event_ctls' = [event_ctls EXCEPT ![e] = SubSeq(@, 1, last[e])]
      /\ stack' = <<Walk(e, Top.ctx)>> \o Tail(stack)
      /\ UNCHANGED <<value, bits_, bits, threads, last, live, ctx, ops, aborted, hits,
                     fired, cyclic>>

(* Mutant: the object stays in the list. *)
delete_evctl_Keeps ==
  /\ Running("walk")
  /\ Top.fired
  /\ stack' = <<Walk(Top.at, Top.ctx)>> \o Tail(stack)
  /\ UNCHANGED <<value, bits_, bits, threads, event_ctls, last, live, ctx, ops, aborted,
                 hits, fired, cyclic>>

(* Back from run_run the object is taken out of the list and deleted. *)
delete_evctl ==
  LET e == Top.at
  IN  /\ Running("walk")
      /\ Top.fired
      /\ event_ctls' = [event_ctls EXCEPT ![e] = RemoveAt(@, last[e] + 1)]
      /\ stack' = <<Walk(e, Top.ctx)>> \o Tail(stack)
      /\ UNCHANGED <<value, bits_, bits, threads, last, live, ctx, ops, aborted, hits,
                     fired, cyclic>>

(* All are done: the waiting threads are scheduled, and the event goes on  *)
(* to the functors it feeds.                                               *)
wake_threads ==
  LET e == Top.at
  IN  /\ Running("walk")
      /\ ~ Top.fired /\ last[e] = Len(event_ctls[e])
      /\ threads' = [threads EXCEPT ![e][Top.ctx] = {}]
      /\ stack' = <<Call("ors", e, Top.ctx, Ors[e])>> \o Tail(stack)
      /\ UNCHANGED <<value, bits_, bits, event_ctls, last, live, ctx, ops, aborted,
                     hits, fired, cyclic>>

(* vvp_fun_event_or *)
recv_vec4_or(e) ==
  /\ Running("ors")
  /\ e \in Top.todo
  /\ Enter(e, Top.ctx, Rest(e))
  /\ UNCHANGED <<value, bits_, bits, threads, event_ctls, live, ctx, ops, aborted,
                 hits, fired>>

-----------------------------------------------------------------------------
(* What threads do. *)
Waits(t) == \E e \in Functors, c \in Contexts \cup {Static} : t \in threads[e][c]

Runs(t) == Idle /\ ~ cyclic /\ ~ Waits(t)

(* Some thread's next instruction, where it does not matter which one's. *)
Operation == ops < MaxOps /\ ops' = ops + 1
SomeRuns == (\E t \in Threads : Runs(t)) /\ Operation

(* %wait *)
add_waiting_thread(t, e) ==
  /\ Runs(t) /\ Operation
  /\ e \in Automatic => ctx[t] # Static
  /\ threads' = [threads EXCEPT ![e][IF e \in Automatic THEN ctx[t] ELSE Static] = @ \cup {t}]
  /\ hits' = [hits EXCEPT ![t] = 0]
  /\ UNCHANGED <<value, bits_, bits, event_ctls, last, live, ctx, stack, aborted,
                 fired, cyclic>>

(* A blocking assignment. *)
assign(s, v) ==
  /\ SomeRuns
  /\ value[s] # v
  /\ Send(s, v, << >>, event_ctls)
  /\ UNCHANGED <<bits_, bits, threads, last, live, ctx, aborted, fired, cyclic>>

(* -> e, for a named event. *)
trigger(e) ==
  /\ SomeRuns
  /\ Kind[e] = "named"
  /\ Enter(e, Static, << >>)
  /\ Happens({e}, event_ctls)
  /\ UNCHANGED <<value, bits_, bits, threads, live, ctx, aborted, fired>>

NewCtl(x) ==
  [id |-> ops, ecount |-> x.n, to |-> x.to, val |-> x.val, n |-> x.n, seen |-> 0]

(* Mutant: the pointer to the end of the list stays. *)
schedule_evctl_Stays(x) ==
  /\ SomeRuns
  /\ event_ctls' = [event_ctls EXCEPT ![x.on] = SubSeq(@, 1, last[x.on]) \o <<NewCtl(x)>>]
  /\ UNCHANGED <<last, value, bits_, bits, threads, live, ctx, stack, aborted, hits, fired, cyclic>>

(* A non-blocking assignment with event control: *(ep->last) = new evctl. *)
schedule_evctl(x) ==
  /\ SomeRuns
  /\ event_ctls' = [event_ctls EXCEPT ![x.on] = SubSeq(@, 1, last[x.on]) \o <<NewCtl(x)>>]
  /\ last' = [last EXCEPT ![x.on] = @ + 1]
  /\ UNCHANGED <<value, bits_, bits, threads, live, ctx, stack, aborted, hits, fired, cyclic>>

(* The thread enters the automatic scope, with reset_instance of every     *)
(* functor of it, and leaves it.                                           *)
alloc_context(t, c) ==
  /\ Runs(t) /\ Operation
  /\ ctx[t] = Static
  /\ c \notin live
  /\ ctx' = [ctx EXCEPT ![t] = c]
  /\ live' = live \cup {c}
  /\ bits' = [e \in Functors |-> [bits[e] EXCEPT ![c] = IF e \in Automatic THEN bits_[e] ELSE @]]
  /\ threads' = [e \in Functors |-> [threads[e] EXCEPT ![c] = {}]]
  /\ UNCHANGED <<value, bits_, event_ctls, last, stack, aborted, hits, fired, cyclic>>

free_context(t) ==
  /\ Runs(t)
  /\ ctx[t] # Static
  /\ live' = live \ {ctx[t]}
  /\ ctx' = [ctx EXCEPT ![t] = Static]
  /\ UNCHANGED <<value, bits_, bits, threads, event_ctls, last, stack, ops, aborted,
                 hits, fired, cyclic>>

Init ==
  /\ value = [s \in Signals |-> "X"]
  /\ bits_ = [e \in Functors |-> "X"]
  /\ bits = [e \in Functors |-> [c \in Contexts |-> "X"]]
  /\ threads = [e \in Functors |-> [c \in Contexts \cup {Static} |-> {}]]
  /\ event_ctls = [e \in Functors |-> << >>] /\ last = [e \in Functors |-> 0]
  /\ live = {} /\ ctx = [t \in Threads |-> Static]
  /\ stack = << >> /\ ops = 0 /\ aborted = FALSE
  /\ hits = [t \in Threads |-> 0] /\ fired = {} /\ cyclic = FALSE

Propagation ==
  \/ Return
  \/ \E e \in Functors : recv_vec4_sa(e) \/ recv_vec4_aa(e) \/ recv_vec4_or(e)
  \/ \E c \in Contexts : recv_context(c)
  \/ recv_static
  \/ dec_and_run
  \/ delete_evctl
  \/ wake_threads

Instruction(t) ==
  \/ \E e \in Functors : add_waiting_thread(t, e)
  \/ \E c \in Contexts : alloc_context(t, c)
  \/ free_context(t)

Next ==
  \/ Propagation
  \/ \E t \in Threads : Instruction(t)
  \/ \E s \in Signals, v \in Bits : assign(s, v)
  \/ \E e \in Functors : trigger(e)
  \/ \E x \in Ctls : schedule_evctl(x)

Spec == Init /\ [][Next]_vars

-----------------------------------------------------------------------------
TypeOK ==
  /\ value \in [Signals -> Bit4] /\ bits_ \in [Functors -> Bit4]
  /\ bits \in [Functors -> [Contexts -> Bit4]]
  /\ threads \in [Functors -> [Contexts \cup {Static} -> SUBSET Threads]]
  /\ event_ctls \in [Functors -> Seq(evctl)] /\ last \in [Functors -> Nat]
  /\ \A e \in Functors : last[e] <= Len(event_ctls[e])
  /\ live \subseteq Contexts /\ ctx \in [Threads -> Contexts \cup {Static}]
  /\ ops \in 0..MaxOps /\ hits \in [Threads -> Nat] /\ fired \subseteq evctl
  /\ aborted \in BOOLEAN /\ cyclic \in BOOLEAN

Settled == Idle /\ ~ cyclic

(* No event is missed: once a value has gone everywhere, a thread that     *)
(* still waits has had no event since it began, by the definition of the   *)
(* standard, whatever other walks, contexts and assignments came between.  *)
NoMissedEvent ==
  Settled => \A t \in Threads : Waits(t) => hits[t] = 0

(* A thread is woken by an event it waits for and by nothing else. *)
WokenByEvent ==
  [][\A t \in Threads : ~ cyclic' /\ Waits(t) /\ ~ Waits(t)' => hits[t] > 0]_vars

(* A non-blocking assignment with event control is carried out at exactly  *)
(* the event its count names, and none is lost from the list or cut off    *)
(* from it, however the walks over the lists nest.  The assert() of        *)
(* dec_and_run fails only when an event control causes the event whose     *)
(* walk it is run from, as in q <= @(q) v: the inner walk then meets the   *)
(* object that is being run.                                               *)
CountsExact ==
  /\ TypeOK
  /\ aborted => cyclic
  /\ Settled =>
       /\ \A e \in Functors : \A i \in DOMAIN event_ctls[e] :
            LET x == event_ctls[e][i] IN x.ecount = x.n - x.seen /\ x.ecount > 0
       /\ \A x \in fired : x.seen >= x.n
       /\ \A e \in Functors : last[e] = Len(event_ctls[e])

(* None is lost: each one scheduled is still there or has fired. *)
NoneLost ==
  [][\A e \in Functors : \A i \in DOMAIN event_ctls[e] :
       ~ cyclic' =>
         LET id == event_ctls[e][i].id
         IN  \/ \E j \in DOMAIN event_ctls'[e] : event_ctls'[e][j].id = id
             \/ \E x \in fired : x.id = id]_vars

-----------------------------------------------------------------------------
(* The inductive invariant of EventWaitProofs, on the set F of the calls   *)
(* in progress.                                                            *)
Calls == Range(stack)

(* The contexts in which threads may wait for e. *)
Places(e) == IF e \in Automatic THEN live ELSE {Static}

Frame == [op: {"send", "live", "walk", "ors"}, at: Signals \cup Functors,
          ctx: Contexts \cup {Static}, todo: SUBSET (Functors \cup Contexts), fired: BOOLEAN]

FrameOk(f) ==
  /\ f.op = "send" => f.at \in Signals /\ f.todo \subseteq Watchers(f.at)
  /\ f.op = "live" => /\ f.at \in Automatic /\ f.todo \subseteq live
                      /\ \E s \in Signals : f.at \in Watchers(s)
  /\ f.op \in {"walk", "ors"} =>
       f.at \in Functors /\ f.ctx \in Places(f.at) /\ (Kind[f.at] = "or" => Ors[f.at] = {})
  /\ f.op = "ors" => f.todo \subseteq Ors[f.at]

FramesOk == stack \in Seq(Frame) /\ \A f \in Calls : FrameOk(f)

(* What is under way for the functor e in the context c: a value that it   *)
(* has not seen, a walk, and the walks that are owed to it.                *)
Unseen(F, e) ==
  \E f \in F : \/ f.op = "send" /\ e \in f.todo
               \/ f.op = "live" /\ f.at = e

ToCome(F, e, c) ==
  \E f \in F : \/ f.op = "send" /\ e \in f.todo
               \/ f.op = "live" /\ f.at = e /\ c \in f.todo

Walking(F, e, c) == \E f \in F : f.op = "walk" /\ f.at = e /\ f.ctx = c

Feeding(F, x, e, c) ==
  \E f \in F : f.op = "ors" /\ f.at = x /\ f.ctx = c /\ e \in f.todo

Firing(F, e) == \E f \in F : f.op = "walk" /\ f.at = e /\ f.fired

Seen(e, c) == IF e \in Automatic THEN bits[e][c] ELSE bits_[e]

Edge(e, c) == ToCome(Calls, e, c) /\ Triggers(Kind[e], Seen(e, c), value[Sig[e]])

Owes(x, e, c) ==
  \/ x = e /\ Edge(x, c)
  \/ e \in Ors[x] /\ (Edge(x, c) \/ Walking(Calls, x, c) \/ Feeding(Calls, x, e, c))

Coming(e, c) == {x \in Functors : Owes(x, e, c)}

(* No signal and no event is under way twice. *)
Clash(f, g) ==
  /\ f.at = g.at
  /\ \/ f.op = g.op /\ f.op \in {"send", "live", "walk"}
     \/ f.op \in {"walk", "ors"} /\ g.op \in {"walk", "ors"} /\ Kind[f.at] # "or"

OnceEach(s) == \A i, j \in DOMAIN s : i # j => ~ Clash(s[i], s[j])

(* A call for an edge is made from that of its signal. *)
Sent(F, e) == \E g \in F : g.op = "send" /\ g.at = Sig[e] /\ e \notin g.todo

Supported(f, F) ==
  /\ f.op = "live" => Sent(F, f.at)
  /\ f.op \in {"walk", "ors"} /\ Kind[f.at] \in Edges =>
       IF f.at \in Automatic
       THEN \E g \in F : g.op = "live" /\ g.at = f.at /\ f.ctx \notin g.todo
       ELSE Sent(F, f.at)

Outside(s, i) == {s[j] : j \in {k \in DOMAIN s : k > i}}

Chained(s) == \A i \in DOMAIN s : Supported(s[i], Outside(s, i))

(* The functors have seen the values of their signals. *)
SeenOk ==
  \A s \in Signals : \A e \in Watchers(s) :
    /\ ~ Unseen(Calls, e) => bits_[e] = value[s]
    /\ \A c \in Places(e) : ~ ToCome(Calls, e, c) => Seen(e, c) = value[s]

(* The threads that wait: one that has had an event is about to be woken. *)
ContextsOk ==
  \A t \in Threads : ctx[t] # Static =>
    /\ ctx[t] \in live
    /\ \A u \in Threads : ctx[u] = ctx[t] => u = t

WaitsOk ==
  \A e \in Functors, c \in Contexts \cup {Static} : \A t \in threads[e][c] :
    /\ c \in Places(e) /\ (c # Static => ctx[t] = c)
    /\ \A f \in Functors, d \in Contexts \cup {Static} : t \in threads[f][d] => f = e /\ d = c
    /\ hits[t] > 0 <=> Walking(Calls, e, c) \/ Coming(e, c) # {}

(* The event controls: the count is behind the events that have happened   *)
(* by the walks that have not reached the object.                          *)
CtlOk(e, i) ==
  LET x == event_ctls[e][i]
  IN  IF Firing(Calls, e) /\ i = last[e] + 1
      THEN \E y \in fired : y.id = x.id
      ELSE /\ x.ecount > 0
           /\ x.ecount = x.n - x.seen + Cardinality(Coming(e, Static))
                         + (IF Walking(Calls, e, Static) /\ i > last[e] THEN 1 ELSE 0)

ListOk(e) ==
  /\ e \in Automatic => event_ctls[e] = << >>
  /\ Firing(Calls, e) => last[e] < Len(event_ctls[e])
  /\ ~ Walking(Calls, e, Static) => last[e] = Len(event_ctls[e])
  /\ \A i \in DOMAIN event_ctls[e] : CtlOk(e, i)

CtlsOk == (\A e \in Functors : ListOk(e)) /\ \A x \in fired : x.seen >= x.n

Good == OnceEach(stack) /\ Chained(stack) /\ SeenOk /\ ContextsOk /\ WaitsOk /\ CtlsOk

IInv == TypeOK /\ FramesOk /\ (aborted => cyclic) /\ (~ cyclic => Good)

=============================================================================
