# A TLA+ model of the Icarus Verilog runtime

Icarus Verilog is a Verilog/SystemVerilog compiler (`ivl`) and a simulator
(`vvp`) that executes the compiler's output. This project models the part of
the system in which the order of steps decides what is right: the `vvp`
runtime. All paths below are relative to `src/`.

## 1. The system

### 1.1 Parts, their state and their operations

| part | source | state | operations |
|---|---|---|---|
| scheduler | `vvp/schedule.cc`, `vvp/stop.cc` | the list of time cells with seven queues each, the init and final lists, the simulation time, the finish/stop/step flags | the `schedule_*` calls, the event loop `schedule_simulate`, `run_rosync`, signal handlers, the interactive prompt |
| threads | `vvp/vthread.cc` | per thread: parent, children, detached children, the flags `i_am_joining`, `i_am_detached`, `i_am_waiting`, `i_have_ended`, `i_was_disabled`, `waiting_for_event`, `is_scheduled`, `delay_delete` | `%fork`, `%join`, `%join/detach`, `%wait`, `%wait/fork`, `%delay`, `%disable`, `%disable/fork`, `%end`, reaping and deletion |
| mailboxes and semaphores | `vvp/vvp_mailbox.cc`, opcodes in `vvp/vthread.cc` | message queue and bound, tokens, lists of suspended threads | put, get, peek, their try_ forms, the loops that resume waiters |
| events | `vvp/event.cc` | per functor, and per context in automatic scopes: the last value of each input and the waiting threads; the list of `evctl` objects | edge detection, named events, `%wait`, event controls with a count |
| delays | `vvp/delay.cc` | rise/fall/decay delays and the cached smallest, the current output, the pending output events | inertial delays of nets and gates, delays that change; specify paths |
| VPI callbacks | `vvp/vpi_callback.cc` | a callback list per signal, lists by phase, objects owned by scheduled events, `vpi_mode_flag` | registration, removal, execution |
| automatic contexts | `vvp/vthread.cc` | per thread the stacks of write and read contexts, per scope the live and the free contexts | `%alloc`, `%fork`, `%callf`, `%join`, `%free`, `%exec_ufunc` |
| resolution | `vvp/resolv.cc`, `vvp/vvp_net.h`, `vvp/vvp_net.cc` | an array with the values of the drivers and of a tree of branches over them | a new value of a driver, `$countdrivers` |
| nets and functors | `vvp/vvp_net.cc`, `vvp/vvp_net_sig.cc`, `vvp/logic.cc`, `vvp/arith.cc`, `vvp/part.cc`, `vvp/island_tran.cc`, ... | one vector per net, force masks | value propagation, force and release |
| object, string, queue, array data | `vvp/vvp_cobject.cc`, `vvp/vvp_darray.cc`, `vvp/vvp_aarray.cc`, ... | values | pure operations |
| compile to the runtime structures | `vvp/parse.y`, `vvp/compile.cc`, `vvp/codes.cc`, `vvp/symbols.cc` | symbol tables, code space | parsing and linking |
| compiler | the top directory, `ivlpp`, `vhdlpp`, `tgt-*`, `driver` | parse forms, netlists | parsing, elaboration, synthesis, code generation |
| system tasks | `vpi` | open files, dump state, random state | `$display`, `$dumpvars`, ... |

### 1.2 How the parts interact

* The scheduler is the only place where control starts: `schedule_simulate`
  takes an event from the current time cell and calls its `run_run`. An event
  is a thread (`vthread_event_s`), an assignment, a net propagation or a
  callback. Whatever runs may call any `schedule_*` function.
* A thread runs opcodes until one returns false. Opcodes schedule threads
  (`%fork`, `%join`, `%end`, `%disable`, `%delay`), assign to nets and call
  mailboxes and semaphores. A scheduled thread is pushed in front of the
  active events when another thread wakes it (`push_flag`).
* A mailbox or semaphore holds pointers to suspended threads and schedules
  them; an event functor holds a list of threads linked by `wait_next` and
  schedules the list as one event (`vthread_schedule_list`).
* System tasks and signal handlers set the flags that the event loop tests.
* A value that is assigned goes depth first through everything that depends on
  the net, in nested calls: event functors run their `evctl` objects, which
  assign further values, and signals call the routines of VPI callbacks, which
  may do anything. Delayed nets put the value aside and ask the scheduler for a
  call.
* There is one operating-system thread; the only asynchronous steps are the
  signal handlers. All other concurrency is between simulated threads, which
  change over at the opcodes that pause.

### 1.3 What is hard, and what makes each part correct

`PROJECT.json` lists the hazards with their lines. In short:

* *scheduler*: delays in the queue are relative and are split by every
  insertion; five regions of a time step feed each other while they are being
  drained; flags change between any two steps. Correct means: every event runs
  once, at its time, in the order of the regions and of the calls; a stop is
  served before further events and time; time stands still after a finish; the
  run ends.
* *threads*: a tree of threads that end, are disabled, join and detach in any
  order, with pointers from queues and wait lists. Correct means: the sets and
  flags agree (the many `assert`s of the code), nothing points to a deleted
  thread, a thread is in one place, and no join waits for ever.
* *mailboxes and semaphores*: loops that resume waiters and call each other
  while a waiter is in no list. Correct means: FIFO order, nothing lost, and no
  thread waiting for what is there.
* *events*: lists that are walked while what they run changes signals and starts
  further walks. Correct means: threads wake at the events the standard
  defines and at no others, and a counted event control fires at its event.
* *delays*: events of cancelled values stay in the queue. Correct means: the
  output follows the input exactly by the delay of the change, short pulses are
  not seen, and the last value arrives.
* *callbacks*: routines remove and add callbacks and write the signal in whose
  walk they are called. Correct means: nothing freed is read, everybody is told
  the latest value, one-shot callbacks run once at their time.
* *contexts*: two stacks through one link field. Correct means: every statement
  reads and writes the call it belongs to, and a context has one owner.
* *resolution*: an incremental evaluation. Correct means: the result does not
  depend on the order in which drivers changed.

## 2. Plan

| | modules | what for | state |
|---|---|---|---|
| 1 | `Scheduler`, `SchedulerProofs` | the event queue and loop | done |
| 2 | `VThread`, `VThreadProofs` | the life of threads | done |
| 3 | `Channel`, `Mailbox`, `MailboxProofs` | mailboxes, as an implementation of a FIFO channel | done |
| 4 | `Semaphore`, `SemaphoreProofs` | semaphores | done |
| 5 | `Delay`, `DelayProofs` | delayed nets: cancelled values against events already in the queue | done, without specify paths |
| 6 | `EventWait`, `EventWaitProofs` | edge and named events, `evctl`, static and automatic wait lists | done |
| 7 | `VpiCallbacks`, `VpiCallbacksProofs` | callback lists, removal during execution, re-entrant walks | done |
| 8 | `Contexts`, `ContextsProofs` | automatic contexts handed over by `%fork`, `%join`, `%callf` and freed by `%free` | done |
| 9 | `Resolver` | drivers' resolution, against a reference definition | done, without switches |
| 10 | `Force` | force and release against drivers and continuous assignments (`vvp_net_sig.cc`) | open |
| 11 | `EventQueue` | an abstract queue (a set of events with absolute times) that `Scheduler` implements | open |

Theorems still worth proving: `DriversCounted` of the resolvers; the refinement of
item 11; the event waits with event-ors of event-ors.

## 3. The modules and the code

The names of variables and actions are those of the code wherever it has a name
for the thing. `PROJECT.json` maps every definition to its lines. A definition
introduced by a comment "Mutant" is a wrong variant of the one that follows
it; it is not used by the specifications.

### 3.1 Scheduler

State: `sched_list` is the list of `event_time_s` cells, each with its relative
`delay` and its seven queues (`start`, `active`, `inactive`, `nbassign`,
`rwsync`, `rosync`, `del_thr`); then the init and final lists, `schedule_time`
and the flags, under their names. `phase` is the place in `schedule_simulate`;
`call` is an insertion that is walking the list, so that each turn of its loop
is a step. `at` of a cell and of an event is the absolute time, which the code
does not store: it is there for the properties and the proofs, and no action
reads it.

Actions: `Schedule`/`SchedulePush`/`ScheduleInit`/`ScheduleFinal` are the
`schedule_*` functions, which go through `schedule_event_` (`ScheduleWalk`,
`SchedulePlace`); the others are the steps of `schedule_simulate` and
`run_rosync` in their order, plus `schedule_finish`, `schedule_stop`, the signal
handler and the prompt. A running event may make any number of calls before it
returns.

`asked` is the history of the stop that is pending: when and where it was asked
for, and which events were begun since. No guard reads it. The test of a flag
and what it lets through are one step of the model; a signal between the two
counts as coming right after, which leaves the same state.

### 3.2 VThread

State: `thr` is the table of `vthread_s` objects with their sets and flags;
`zombie` says that `pc` is `codespace_null()`, `in_scope` that the thread is
in `parent_scope->threads`, `freed` that it was deleted. `active`, `later`,
`event_list` and `suspended` are the places outside of the table that hold a
pointer to a thread. An `assert` of the code that fails sets `aborted`.

Actions: one per opcode. The loops of `%disable` over the threads of a scope and of
`%disable/fork` over the detached children are taken a thread at a time
(`DisableStep`, `DisableForkStep`), in every order, because the code iterates over
sets of pointers; `disabling` is the scope or the thread whose loop is under way.
The recursion inside `do_disable` is one step, since nothing can run in between:
`TurnedOff` is the table after the loop over the descendants, and `do_disable`
what happens to the thread itself, which is reaped if its parent is in a `%join`
(`Joined`, which `Wakes` the parent unless it has ended) or it has none. `%end` is
the table with the thread ended (`Ended`), then with the thread out of its parent's
detached children (`Left`), then reaped or left for its parent's `%join`. What a thread executes is free except for the
shape of fork blocks, which comes from `show_stmt_fork` in
`tgt-vvp/vvp_process.c`, and except that a behaviour is of one of the kinds in
`Programs`: the threads it may have and the instructions that occur in it. Left
out: functions (their threads run inside `%callf`), `delay_delete`; automatic
contexts have a module of their own.

### 3.3 Mailbox and Channel

`stack` holds the activations of `resume_get_waiters_` and
`resume_put_waiters_`, so every turn of their loops and every nested call is a
step. `running` and `ready` are the scheduler as far as it matters: a resumed
thread goes in front. Items are numbered by the put calls. `Channel` is the
promise: a queue into which puts go at the end, at the time of the call even if
the caller blocks, and from which gets take the first item. `Mailbox` is mapped
to it by `queue <- items_ \o Blocked`, where `Blocked` are the items of the
waiting puts. Operations on null handles, `num()` and `duplicate()` do not change a
mailbox and are left out.

### 3.4 Semaphore

A turn of the loop of `resume_waiters_` is a step: it serves the first waiter
that has enough keys (`ResumeOne`) or ends (`ResumeEnd`). The opcodes turn a
request for 0 keys into one for 1 (`Keys`). The key count is a natural number;
`size_t` overflow is left out.

### 3.5 Delay

`delay_` is `vvp_delay_t`, `list_` the pending values, `cur_` the output of
whatever type. `events` is the scheduler as this functor sees it: how many calls
of `run_run` it has at each time. `recv` is the arrival of a value on port 0
(three functions of the code that differ in the comparison and in how the delay
is computed: `Unchanged`, `use_delay`), `recv_delay` a value on the delay ports,
`run_run` the call by the scheduler. `in`, `changed`, `delayThen` and `raced` are
history: the last value received, when the input took it, the delays then, and
whether a value ever came in the step in which an older one was due and not yet
sent. Left out: partial values, scaling of delays, `vvp_fun_modpath`.

### 3.6 EventWait

`stack` holds the calls in progress, from a signal's value down to the evctl that
assigns the next one; `event_ctls` and `last` are the list of a functor and its
tail pointer, which every walk moves. `hits`, `fired`, `seen` and `cyclic` are
history. The reference for edges is `IsEdge`, from the order of values in the
standard, and not the masks of the code. Signals have one bit; vectors are
compared as a whole by the code. `live` is the set of the members of
`live_contexts`: a value is shown to all of them, in an order that the model leaves
open.

### 3.7 VpiCallbacks

`head` and `next` are the linked lists, so that a walk (a frame of `stack` with
the locals `nxt`, `prev` and `cur`) may hold a pointer to an object that an inner
walk deletes; reading a deleted object sets `uaf`. `Client` is what a routine or
a system task may do, at any depth. `mode` is `vpi_mode_flag`. One-shot callbacks
are owned by their scheduled event; `Due` and `Advance` are the scheduler as
callbacks see it. `told`, `changes`, `calls` and `reaped` are history. `From` is
what can be reached along the links, defined as the least set closed under them
and not by recursion, so that theorems can speak of it.

### 3.8 Contexts

`wt_context`, `rd_context` and `stacked` are the two stacks that share one link;
`port` stands for the variables of a context. `calls` is history of a kind: the
open calls of a thread with their contexts, against which the stacks are
compared. The instructions come in the order in which the code generator emits
them (arguments, call, join, outputs, `%free`), which is a guard on `at`.

### 3.9 Resolver

`val_` is the array of drivers, branches and output; `Turn` is one turn of the
loop down the tree and `Loop` all of them up to the early return. A strength
value is the pair of nibbles of the byte in the code. The reference is
`Resolved`: the set of levels that the drivers may have together, taken over all
drivers at once and not in pairs.

## 4. What is checked

| run | instance | shows |
|---|---|---|
| `sched_queue` | 4 events, delays 0 to 2, five regions | events run on time; `FullInv`, both invariants of the proofs; order within and between regions, pushed events first |
| `sched_control` | 2 events, 2 stops, all regions, flags and signals | which events may be lost; time frozen after finish; no event and no time while a stop is pending, except what the time step or `run_rosync` entered before owes; the run ends |
| `threads` | three kinds of program, 1 or 2 processes, 3 forked threads, 2 scopes | `%disable` and `%disable/flow` against fork-join, delay and wait; `join_any`, `join_none`, `%wait/fork`, `%disable/fork`; suspension in mailboxes |
| `mailbox` | 4 threads, capacity 2, 4 puts | order, wakeups, one place per thread, answers, depth of the mutual recursion, refinement of `Channel` |
| `semaphore` | 4 threads, up to 3 keys a call, 4 keys put | conservation, wakeups, overtaking |
| `delay` | 2 bits, 3 values, 2 strengths, delays 1 and 3, 3 inputs, times to 6 | cached delay; no value lost or revived; output on time |
| `events` | 2 threads, 2 signals, 6 functors, 2 contexts, 4 event controls, 5 operations | no event missed or invented; event controls exact under nesting |
| `callbacks` | 3 callbacks of ten reasons, a signal of 2 bits, 5 calls, 2 time steps | walks, whom they call and with which value, one-shot callbacks, deletion |
| `contexts` | 2 roots and 4 threads, 2 scopes, 3 contexts, 3 calls | the context stacks and the free lists |
| `resolver` | all types with 1 and 3 drivers, two with 5; 7 driver values | incremental resolution against the reference; driver counts |

Bounds. Splitting of relative delays needs three cells and an insertion between
two of them: four events with three delays, scheduled before the loop and by
running events, reach every case of `schedule_event_` at the front, inside and at
the end of the list. Four events in five regions put two events in one region
while two others run or wait in others; the start-of-time callbacks and
`del_thr`, which only frees threads, are in `sched_control`, where two events are
enough for the ways to lose one, and for an event that is begun while a stop is
pending and one that must not be. Three forked threads with blocks of two allow a nested fork, two siblings
and a detached thread with a child. Four mailbox threads give two waiters of each
kind, and a put and a get that meet them; the bound 0 (no bound) is in the
theorems, which hold for every capacity. Three inputs with two delays give a
pending value, one that replaces it and one that returns to the first, with an
event of a cancelled value before, at and after the new one; the theorems have
no bound. Five operations set up a chain of two event controls and trigger it,
or enter and leave a context around an edge. Three callbacks are the least that
give a walk a previous, a current and a next one. Three calls over three
contexts nest in arguments and outputs, recurse and reuse a freed context. Five
drivers are the least with two levels of groups, the last one short. In the runs of `VThread` the forked
threads are symmetric; the roots are not, since they differ in `active`.

Fairness. `sched_control` assumes weak fairness of the steps of
`schedule_simulate` (`FairSpec`): it is a loop in one operating-system thread, so
it goes on as long as the process does, and its events return. The number of
events and of stop requests is bounded; without that a simulation
need not end.

Deadlock is checked for the scheduler and the threads, which stutter only in the
state that ends a simulation. It is not checked for the mailbox and the
semaphore, where all threads may wait: that is a program's error, not vvp's. What
would be vvp's is `NoMissedWakeup`. Nor is it checked for delays, events,
callbacks and contexts, which stop when the bounds are used up.

Some properties name the case in which the code does not keep them, and hold
everywhere else: `Settled` and `OnTime` (until a value races with a due one),
`WalksSafe` (a deleted callback is read only after an inner walk of the same
signal has deleted it), `ResolvedRight` (not where a driver that is off or on
meets weaker drivers), `DriversCounted` (not with one driver and a pull).
`CountsExact` says when an assert of the code fails.

Type invariants. Those of the scheduler, the mailbox, the semaphore and the
delay are theorems; each of the other modules has its `TypeOK` as a conjunct of
one invariant of its run (`NoDangling`, `CountsExact`, `Held`, `OneCall`,
`DriversCounted`). Of these all but the last are theorems.

Each property has a mutant, in the module it is about, that violates it.

### 4.1 Where the code disagrees with what it says

Two runs refute a statement of the repository; `PROJECT.json` quotes the lines.

* `threads_join_detached`: disabling a detached child ends its parent's `%join`
  for another child. `of_END` tests `i_am_detached` there, `do_disable` does not.
* `delay_race`: the comment says that a new value is compared with the most recent
  pending event; the code compares with the oldest.

Other defects that the models have too and that the passing runs step around:

* a thread in `%wait/fork` is not woken when its last detached child is disabled
  (`vthread.cc:2993`), and disabling a thread that is suspended in a mailbox or
  semaphore deletes it while the waiting list points to it (`vvp_mailbox.cc:94`):
  the kinds of program in `SoundKinds` keep `%disable` apart from both;
* a start-of-time event asked for in a step that has started is freed and never
  runs (`schedule.cc:1210`), one of the two losses in `LossExplained`; `schedule.h`
  says that a finish abandons the remaining events, but those of the current
  step still run (`schedule.cc:1197`);
* a walk over value change callbacks may hold a callback that an inner walk has
  freed (`vpi_callback.cc:895`), see `WalksSafe`;
* `q <= @(q) v` fails an assert (`event.cc:63`), see `CountsExact`;
* a thread disabled inside of a call leaks the contexts (`vthread.cc:2965`), see
  `OneCall`;
* with one driver a tri0 or tri1 net counts its pull value in place of the
  driver's (`resolv.cc:172`), see `DriversCounted`.

## 5. What is proved

For every value of the constants, by TLAPS:

* `SchedulerProofs`: `InvariantHolds`, `TypeCorrect`, `EventsRunOnTime`,
  `QueueInTimeOrder`, `FinishFreezes`, `StopsComeFirst`. `OnTime` is not inductive: an event runs on
  time because the cell it is in is due at the event's time (`EventsDue`), the
  first cell is due at the simulation time plus its delay (`HeadAt`), every
  other at the time of the cell before plus its delay (`CellChain`), and an
  insertion that is under way keeps the rest of its delay relative to the cell
  it has reached (`SearchOk`). `FinishFreezes` rests on `FinishSticks`: until the
  final events the flag `schedule_runnable` stays off after a finish.
  `StopsComeFirst` rests on `StopInv`, which ties the place where the stop was
  asked for to the places the loop can still reach without passing its head,
  where the stop is served.
* `SchedulerProofs`, second part: `FullInvariantHolds`, `EventsRunInOrder`,
  `RegionsAreStratified`, `LossesAreExplained`, `PushedFirst`. The order in which
  events run follows from the order inside of every queue: pushed events in
  front, the last one first, then the others in the order of the calls
  (`QueueOrder`). When a region becomes active its events share the active queue
  with new ones, so what is left of it must be older than all that has come
  since for this region and the ones before (`ActiveOrder`); and an insertion
  under way brings an event younger than all that are placed. The rest compares
  what has run with what waits: everything that waits in the current cell is
  younger than what has run of its region, and a cell is freed only when all its
  queues are empty or hold what `LossExplained` names.
* `SemaphoreProofs`: `TypeCorrect`, `KeysConserved`, `WakeupsComplete`, `OvertakingBounded`,
  from `TypeOK /\ Conserved /\ NoMissedWakeup /\ Apart`. `Apart` (no thread
  in two places) is needed for the overtaking: what leaves the list cannot be
  taken for what stays.
* `MailboxProofs`: `TypeCorrect`, `ItemsInOrder`, `WakeupsComplete`, `RecursionStaysFlat`,
  `MailboxIsAChannel`. The invariant `StackOk` says that the resume functions
  meet in two shapes only: while gets are being served there is no waiting put,
  while puts are being served there is no waiting get. So a nested call finds
  nothing to do beyond its own item, which gives the depth of two, the order and
  the wakeups. The refinement proof maps `put`, `get` and the steps of the
  loops to steps of `Channel` or to stuttering. `ThreadsInOnePlace` and
  `WaitersAreAnswered` add that no thread is twice in one list or in two, where
  the thread that `resume_get_waiters_` holds in its local `waiter`, in no list
  at all, counts as a place.
* `DelayProofs`: `TypeCorrect`, `MinDelayAlwaysRight`, `AlwaysSettled`,
  `AlwaysOnTime`, for any width, delays and number of values. The invariant says
  that until the first race the list holds at most one value, the one of the
  input, due at the time its change asks for, with an event at that time
  (`AwaitsInput`), and that with an empty list the output is the input. Events
  of cancelled values need no mention: whenever one comes, the value in the list
  is due then or not, and `AwaitsInput` says when. The proof that `get_delay` of
  a new value is computed from the right reference needs that an initial output
  has equal bits.
* `VpiCallbacksProofs`: `CallbackInvariant`, `WalksAreSafe`, `ShotsRunOnce`,
  `TellingInvariant`, `LatestIsTold`, `ChangesAreCalled`, `HomesInvariant`,
  `NothingLost`, for any number of callbacks and signals and any nesting of
  routines, in three layers. A walk stands
  between two callbacks; the invariant says that the links join what it has
  behind and before it, unless one of the two is deleted (`Joined`). As long as no
  inner walk has deleted anything under an outer one, the lists have no loops
  and share nothing (`InLinks`, and a rank that falls along every link): then the
  object that a walk takes out is the one it stands on and no other walk of the
  stack holds it. One-shot callbacks are in one list at most, with the time they
  are due, or are being served by the outermost frame (`SimOk`, `ShotsOk`).
  Whom the walks tell (`LInv`): each change of a signal starts a walk of its own,
  so that a callback may be ahead of several walks at once. The invariant counts
  them (`Owed`): a callback on a whole signal has been called for every change but
  those whose walk still has it ahead, and one that has not been told the latest
  value is ahead of some walk (`ToldOk`). `Owed` falls by one when the innermost
  walk passes the callback, and a walk that ends has nobody ahead. That needs
  the lists to hold every callback that listens, and no loops, also after a walk was
  disturbed (`Chains`): taking an object out changes what is reachable by that
  object alone (`FromReaped`), which follows from the links being injective. A
  walk that holds a deleted callback (`Doomed`) can only go on to read it, after
  which nothing is claimed.
  Where one-shot callbacks are (`HInv`): in the list of their phase, in the list
  taken away by `vpiNextSimTime`, at work in the outermost frame, or due in a region
  of a time step that is not over (`InTime`). `Held` only says that the time is
  not past; the induction needs the region, because a step ends with its read-only
  callbacks, and a callback for an earlier region of the same step would then
  be left behind: `Legal`, which is what the scheduler grants, excludes it.
* `ContextsProofs`: `ContextInvariant`, `ContextsAreRight`, `ArgumentsStay`,
  `OneCallEach`, for any number of threads, scopes and contexts and any depth of
  nesting. `ContextsRight` speaks of the tops of the two stacks; the invariant
  says of every open call where its link leads (`StacksOk`): to the next call
  further out that is on the same stack. Since both stacks use the one link of a
  context, the `%join` is right only because the call that returns is the
  innermost one and all others wait in their arguments or outputs (`KidsOk`). `%join`
  compares `wt_context` with `rd_context`; they differ because the thread's own
  context is not that of a call it makes itself: a context that is some thread's
  own is that of a call under way, and only descendants of the thread forked for
  the call use it (`OwnsOk`). That nobody is his own descendant is a rank on the
  tree (`Ordered`). `%disable` ends a whole subtree; its calls stay on the lists of
  their scopes (`abandoned`) and nobody else is concerned.

* `EventWaitProofs`: `EventInvariant`, `NoEventIsMissed`, `CountsAreExact`,
  `WokenOnlyByEvents`, `NoneIsLost`, for any number of signals, functors, threads
  and contexts and any nesting of the walks, as long as no event control causes
  the event, or changes the signal, whose walk it is run from (`~ cyclic`). The
  properties speak of the moments when nothing is under way; in between, an event
  has happened and the walk it asks for is still to come. `Coming` is the set of
  walks owed to a functor in a context, by a value that it has not seen and that
  is an edge against the value it keeps (`Edge`), or by an event that feeds it
  (`Feeding`). A waiting thread has had an event exactly if a walk is owed or under
  way (`WaitsOk`); a count is behind by the number of walks owed, and by one more
  for an object that the walk under way has not reached (`CtlOk`). Both need
  that nothing is under way twice (`OnceEach`) and that every call is made from
  that of its signal (`Chained`): so a new value of a signal meets no older one of
  the same signal, and every functor compares with the value before it (`SeenOk`).
  The masks of the code are compared with the order of values in the standard
  in `EdgeRight`.

* `VThreadProofs`: `ThreadInvariant`, `NoAssertFailsHolds`, `NoDanglingHolds`,
  `OnePlaceHolds`, `WaitForkWakesHolds`, `JoinsAreForked`, `NobodyStuckHolds`, for
  any number of threads and scopes and any size and nesting of fork blocks. None
  of the properties is inductive: each of them rests on what the code keeps in
  another place. `IInv` says that the flags of a thread go together (`Rows`); that
  the pointers up and down agree, that parents live (`Linked`), and that a rank
  falls from parent to child (`Acyclic`); that a thread has exactly the children
  its fork block has still to join or detach, none of them ended while it is in
  `%join` (`Counts`); and that it is in the one queue its flags tell, once
  (`Places`, `Queues`), while it runs and while it disables others (`RunOk`). Every
  step that removes threads (`%end`, `%join`, the three that disable) is shown to be
  a cut: a set of threads leaves the tree, some stay as zombies to be joined, some
  wake up, the detached children of all of these lose their parent, and nothing
  else changes (`Cut`). One lemma for each part of the invariant shows that a cut
  keeps it, and what is left for an opcode is to say which threads are in which
  set. The descendants of a thread are the least set closed under `children`, and
  its ancestors the least one closed under `parent`; that these leave out what they
  should (a thread is not its own descendant, the running thread is not a
  descendant of what `%disable/fork` turns off) comes from the rank. `NobodyStuck`
  needs `AllForked` besides, that a thread in `%join` has done all its forks
  (`JoinsAreForked`): then every live thread, when nothing is left to run, waits for
  a child that lives, and the one of the lowest rank has none.

  These theorems have the hypothesis `SoundPrograms`: a kind of program with
  `%disable` or `%disable/flow` detaches no threads, and one that suspends threads in
  mailboxes disables none. It is what the code needs and not what the proof needs.
  Without the first half `NoAssertFails` is refuted by `threads_join_detached`, and
  `WaitForkWakes` fails at `vthread.cc:2993`; without the second `NoDangling` fails at
  `vvp_mailbox.cc:94` (section 4.1). Within it the instructions mix freely:
  `%disable/fork` and `%wait/fork` with all three kinds of join, `%disable` and
  `%disable/flow` with joins, delays and waits. TLC evaluates it for the kinds of
  the run (`KindsAreSound` in `MCVThread`).

Assumptions: those named `...Assumption` in the modules, which say that the
sets of threads are finite, that bounds are natural numbers and that the
values for "none" are not threads. That of `EventWait` also excludes what its
model leaves out: an event-or that feeds another one or has inputs of another
scope (tgt-vvp emits both, as in `@(ev or posedge a or b)` with a named event
`ev`), and named events and event controls of automatic scopes.

Only model-checked: liveness of the scheduler; all of `Resolver`, whose operators
on the tree are recursive functions, with a value for every number of ports that
would need induction over data.

## 6. What is not modelled

The compiler, the code generators and the system tasks, which translate or
print: large sequential programs over trees and text, of which a small instance
says little. They are most of the repository's lines. The functors and data types
of vvp, whose operations are functions of values; loading of programs. Force and
release, switches (islands) and specify path delays, which would each be a
module of their own. Of the modelled parts: `i_am_in_function` and
`delay_delete` of threads, `%join/detach` in automatic tasks, event controls and
named events of automatic scopes, event-ors of event-ors and across scopes,
callbacks on array words, operations on null
handles, copying of mailboxes and semaphores, overflow of 64-bit times and of
key counts.
