---------------------------- MODULE VpiCallbacks ----------------------------
(***************************************************************************)
(* VPI callbacks, vvp/vpi_callback.cc: value change callbacks, kept in a   *)
(* linked list at each signal that run_vpi_callbacks walks when the signal *)
(* changes, one-shot callbacks that the scheduler runs at their time, and  *)
(* the lists of the phases of a simulation.                                *)
(*                                                                         *)
(* A callback routine, and a system task, may register callbacks, remove   *)
(* any callback whose handle it has, and put a value to a signal, which    *)
(* walks the callbacks of that signal from inside the routine.  The calls  *)
(* in progress are the frames of stack, innermost first.                   *)
(***************************************************************************)
EXTENDS Integers, Sequences, FiniteSets, SequencesExt

CONSTANTS
  Ids,      (* addresses of callback objects, each used once *)
  Null,
  Signals,
  Reasons,  (* the callbacks that the design's tasks register *)
  MaxTime,  (* bound on the simulation time *)
  MaxOps    (* bound on the calls of the routines *)

Simulator == {"EndOfCompile", "StartOfSimulation", "NextSimTime", "EndOfSimulation"}
Sync == {"ReadOnlySynch", "ReadWriteSynch", "AfterDelay", "AtStartOfSimTime",
         "AtEndOfSimTime"}

ASSUME CallbackAssumption ==
  /\ Null \notin Ids /\ MaxTime \in Nat /\ MaxOps \in Nat
  /\ Reasons \subseteq Simulator \cup Sync \cup {"ValueChange"}

VARIABLES
  cb,       \* the callback objects
  head,     \* per signal, vpi_callbacks_
  next,     \* the link of each object
  sim,      \* the lists of the simulator callbacks
  value,    \* per signal, a vector of two bits
  stack,    \* the calls in progress
  mode,     \* vpi_mode_flag
  phase,    \* where schedule_simulate is
  now,      \* the simulation time
  ops,      \* calls of the routines so far
  aborted,  \* an assert() has failed
  uaf,      \* a deleted object has been read
  reaped    \* history: a walk has deleted an object of a list that an outer walk is in

vars == <<cb, head, next, sim, value, stack, mode, phase, now, ops, aborted, uaf, reaped>>

Region(why) ==
  CASE why = "AtStartOfSimTime" -> "start"
    [] why = "AfterDelay" -> "active"
    [] why \in {"ReadWriteSynch", "AtEndOfSimTime"} -> "rw"
    [] why = "ReadOnlySynch" -> "ro"
    [] OTHER -> "none"

(* The bits of v that a callback looks at: part 0 is the whole vector. *)
Part(v, p) == IF p = 0 THEN v ELSE <<v[p]>>

(* told and changes are history: the value the routine was last given, and *)
(* how often the signal has changed since the callback was registered.     *)
Callback(why, sig, part, due) ==
  LET v == IF why = "ValueChange" THEN Part(value[sig], part) ELSE << >>
  IN  [st |-> "live", rtn |-> TRUE, why |-> why, sig |-> sig, part |-> part, due |-> due,
       value_bits_ |-> v, told |-> v, calls |-> 0, changes |-> 0]

Unused == [st |-> "unused", rtn |-> FALSE, why |-> "", sig |-> Null, part |-> 0, due |-> 0,
           value_bits_ |-> << >>, told |-> << >>, calls |-> 0, changes |-> 0]

Delete(i) == cb' = [cb EXCEPT ![i].st = "dead"]

-----------------------------------------------------------------------------
(* Frames: fn is the function, cur the object at hand, run whether its     *)
(* routine is executing, save the mode to restore.  rest, sig, nxt and     *)
(* prev are the function's local variables.                                *)

Frame(fn, why, rest, sig, first) ==
  [fn |-> fn, why |-> why, rest |-> rest, sig |-> sig, nxt |-> first, prev |-> Null,
   cur |-> Null, run |-> FALSE, save |-> mode]

OK == ~ aborted /\ ~ uaf
Top == Head(stack)
Idle == OK /\ stack = << >>
In(fn) == OK /\ stack # << >> /\ Top.fn = fn
WithTop(f) == <<f>> \o Tail(stack)

(* A routine has control: of a callback, or a system task's calltf. *)
Routine == OK /\ stack # << >> /\ Top.run

(* The callbacks from x on, along the links n: what is in every set that   *)
(* holds x and what its own members link to.                               *)
From(n, x) ==
  {y \in Ids : \A S \in SUBSET Ids :
     (x # Null => x \in S) /\ (\A z \in S : n[z] # Null => n[z] \in S) => y \in S}

(* The list of the callbacks of a signal, as linked. *)
List(s) == From(next, head[s])

-----------------------------------------------------------------------------
(* What a routine may do. *)
Call == ops < MaxOps /\ ops' = ops + 1

(* A ReadOnlySynch routine may not create events for the time step that is *)
(* ending, and AtStartOfSimTime is of use only for a step to come: module  *)
(* Scheduler has what becomes of such events.                              *)
Legal(why, due) ==
  /\ due >= now
  /\ phase = "ro" => why = "ReadOnlySynch" \/ Region(why) = "none" \/ due > now
  /\ why = "AtStartOfSimTime" => due > now

(* make_sync, make_afterdelay, make_at_start_of_sim_time,                  *)
(* make_at_end_of_sim_time: the event is scheduled for its time.           *)
make_sync(i, why, due) ==
  /\ Routine /\ Call
  /\ cb[i] = Unused
  /\ why \in Sync /\ Legal(why, due)
  /\ cb' = [cb EXCEPT ![i] = Callback(why, Null, 0, due)]
  /\ UNCHANGED <<head, next, sim, value, stack, mode, phase, now, aborted, uaf, reaped>>

(* Mutant: the callback joins the list that is being worked off. *)
make_prepost_Joins(i, why) ==
  /\ Routine /\ Call
  /\ cb[i] = Unused
  /\ why \in Simulator
  /\ cb' = [cb EXCEPT ![i] = Callback(why, Null, 0, now)]
  /\ IF Top.fn = "list" /\ Top.why = why /\ why = "NextSimTime"
     THEN stack' = WithTop([Top EXCEPT !.rest = <<i>> \o @]) /\ UNCHANGED sim
     ELSE sim' = [sim EXCEPT ![why] = <<i>> \o @] /\ UNCHANGED stack
  /\ UNCHANGED <<head, next, value, mode, phase, now, aborted, uaf, reaped>>

make_prepost(i, why) ==
  /\ Routine /\ Call
  /\ cb[i] = Unused
  /\ why \in Simulator
  /\ cb' = [cb EXCEPT ![i] = Callback(why, Null, 0, now)]
  /\ sim' = [sim EXCEPT ![why] = <<i>> \o @]
  /\ UNCHANGED <<head, next, value, stack, mode, phase, now, aborted, uaf, reaped>>

(* Mutant: the new callback comes last in the list. *)
make_value_change_Last(i, s, p) ==
  /\ Routine /\ Call
  /\ cb[i] = Unused
  /\ cb' = [cb EXCEPT ![i] = Callback("ValueChange", s, p, 0)]
  /\ IF head[s] = Null
     THEN head' = [head EXCEPT ![s] = i] /\ UNCHANGED next
     ELSE /\ next' = [j \in Ids |-> IF j \in List(s) /\ next[j] = Null THEN i ELSE next[j]]
          /\ UNCHANGED head
  /\ UNCHANGED <<sim, value, stack, mode, phase, now, aborted, uaf, reaped>>

(* make_value_change and add_vpi_callback *)
make_value_change(i, s, p) ==
  /\ Routine /\ Call
  /\ cb[i] = Unused
  /\ cb' = [cb EXCEPT ![i] = Callback("ValueChange", s, p, 0)]
  /\ next' = [next EXCEPT ![i] = head[s]]
  /\ head' = [head EXCEPT ![s] = i]
  /\ UNCHANGED <<sim, value, stack, mode, phase, now, aborted, uaf, reaped>>

(* Mutant: a value change callback that is not at work is deleted at once. *)
vpi_remove_cb_Now(i) ==
  LET now_ == cb[i].why = "ValueChange" /\ \A k \in DOMAIN stack : stack[k].cur # i
  IN  /\ Routine /\ Call
      /\ cb[i].st = "live" /\ cb[i].rtn
      /\ cb' = [cb EXCEPT ![i].rtn = FALSE, ![i].st = IF now_ THEN "dead" ELSE @]
      /\ head' = [s \in Signals |-> IF now_ /\ head[s] = i THEN next[i] ELSE head[s]]
      /\ next' = [j \in Ids |-> IF now_ /\ next[j] = i THEN next[i] ELSE next[j]]
      /\ UNCHANGED <<sim, value, stack, mode, phase, now, aborted, uaf, reaped>>

(* The handle of a one-shot callback is valid until its routine returns. *)
vpi_remove_cb(i) ==
  /\ Routine /\ Call
  /\ cb[i].st = "live" /\ cb[i].rtn
  /\ cb' = [cb EXCEPT ![i].rtn = FALSE]
  /\ UNCHANGED <<head, next, sim, value, stack, mode, phase, now, aborted, uaf, reaped>>

(* The value of a signal changes, by a thread or from a routine, and       *)
(* run_vpi_callbacks starts.                                               *)
Change(s, b) ==
  /\ value' = [value EXCEPT ![s][b] = 1 - @]
  /\ stack' = <<Frame("run_vpi_callbacks", "", << >>, s, head[s])>> \o stack
  /\ cb' = [i \in Ids |-> IF i \in List(s) THEN [cb[i] EXCEPT !.changes = @ + 1] ELSE cb[i]]
  /\ UNCHANGED <<head, next, sim, mode, phase, now, aborted, uaf, reaped>>

vpi_put_value(s, b) ==
  /\ Routine /\ Call
  /\ phase # "ro"
  /\ Change(s, b)

-----------------------------------------------------------------------------
(* run_vpi_callbacks *)

(* callback_execute, on the frame f *)
Execute(f) ==
  /\ stack' = WithTop([f EXCEPT !.run = TRUE, !.save = mode])
  /\ mode' = "RWSYNC"
  /\ cb' = [cb EXCEPT ![f.cur].value_bits_ = Part(value[f.sig], cb[f.cur].part),
                      ![f.cur].told = Part(value[f.sig], cb[f.cur].part),
                      ![f.cur].calls = @ + 1]
  /\ UNCHANGED <<head, next, aborted, reaped>>

(* Mutant: a part select callback does not see its bits return to 0. *)
test_value_callback_ready_Rises(i, s) ==
  cb[i].part = 0 \/ (cb[i].value_bits_ = <<0>> /\ Part(value[s], cb[i].part) = <<1>>)

test_value_callback_ready(i, s) ==
  cb[i].part = 0 \/ cb[i].value_bits_ # Part(value[s], cb[i].part)

(* Mutant: the object is deleted and not unlinked. *)
Reap_Linked(f) ==
  /\ Delete(f.cur)
  /\ stack' = WithTop([f EXCEPT !.cur = Null])
  /\ UNCHANGED <<head, next, mode, aborted, reaped>>

(* The object cur is taken out of the list and deleted. *)
Reap(f) ==
  /\ IF f.prev = Null
     THEN /\ head' = [head EXCEPT ![f.sig] = f.nxt]
          /\ next' = [next EXCEPT ![f.cur] = Null]
     ELSE /\ next' = [next EXCEPT ![f.prev] = f.nxt, ![f.cur] = Null]
          /\ UNCHANGED head
  /\ Delete(f.cur)
  /\ stack' = WithTop([f EXCEPT !.cur = Null])
  /\ reaped' = (reaped \/ \E k \in 2..Len(stack) : stack[k].sig = f.sig)
  /\ UNCHANGED <<mode, aborted>>

(* What the walk finds when it has to unlink cur from prev. *)
Link(f) ==
  IF f.prev = Null THEN "linked"
  ELSE IF cb[f.prev].st = "dead" THEN "dead"
  ELSE IF next[f.prev] = f.cur THEN "linked" ELSE "broken"

(* One turn of the loop, up to a routine that is called. *)
NextCallback ==
  LET i == Top.nxt
      f == [Top EXCEPT !.cur = i, !.nxt = next[i]]
  IN  /\ In("run_vpi_callbacks") /\ ~ Top.run
      /\ i # Null
      /\ \/ /\ cb[i].st = "dead" \/ (~ cb[i].rtn /\ Link(f) = "dead")
            /\ uaf' = TRUE
            /\ UNCHANGED <<cb, head, next, stack, mode, aborted, reaped>>
         \/ /\ cb[i].st = "live" /\ cb[i].rtn
            /\ IF test_value_callback_ready(i, f.sig)
               THEN Execute(f)
               ELSE /\ stack' = WithTop([f EXCEPT !.prev = i, !.cur = Null])
                    /\ UNCHANGED <<cb, head, next, mode, aborted, reaped>>
            /\ UNCHANGED uaf
         \/ /\ cb[i].st = "live" /\ ~ cb[i].rtn /\ Link(f) # "dead"
            /\ IF Link(f) = "linked"
               THEN Reap(f)
               ELSE aborted' = TRUE /\ UNCHANGED <<cb, head, next, stack, mode, reaped>>
            /\ UNCHANGED uaf
      /\ UNCHANGED <<sim, value, phase, now, ops>>

(* The routine returns to callback_execute. *)
CallbackReturns ==
  /\ In("run_vpi_callbacks") /\ Top.run
  /\ mode' = Top.save
  /\ stack' = WithTop([Top EXCEPT !.run = FALSE, !.prev = Top.cur, !.cur = Null])
  /\ UNCHANGED <<cb, head, next, sim, value, phase, now, ops, aborted, uaf, reaped>>

WalkEnds ==
  /\ In("run_vpi_callbacks") /\ ~ Top.run
  /\ Top.nxt = Null
  /\ stack' = Tail(stack)
  /\ UNCHANGED <<cb, head, next, sim, value, mode, phase, now, ops, aborted, uaf, reaped>>

-----------------------------------------------------------------------------
(* Threads: a change of a signal, a system task. *)
Assign(s, b) == Idle /\ Call /\ phase = "run" /\ Change(s, b)

(* Entry to a function that asserts vpi_mode_flag == VPI_MODE_NONE. *)
Enter(f, m) ==
  IF mode # "NONE"
  THEN aborted' = TRUE /\ UNCHANGED <<stack, mode>>
  ELSE stack' = <<f>> \o stack /\ mode' = m /\ UNCHANGED aborted

(* vpip_execute_vpi_call; tasks are also called before the simulation, by  *)
(* compiletf, and register their callbacks then.                           *)
CallTask ==
  /\ Idle
  /\ ops < MaxOps
  /\ phase \in {"load", "run"}
  /\ Enter([Frame("calltf", "", << >>, Null, Null) EXCEPT !.run = TRUE],
           IF phase = "load" THEN "COMPILETF" ELSE "CALLTF")
  /\ UNCHANGED <<cb, head, next, sim, value, phase, now, ops, uaf, reaped>>

TaskReturns ==
  /\ In("calltf")
  /\ stack' = Tail(stack)
  /\ mode' = "NONE"
  /\ UNCHANGED <<cb, head, next, sim, value, phase, now, ops, aborted, uaf, reaped>>

-----------------------------------------------------------------------------
(* One-shot callbacks *)
Due(r) == {i \in Ids : cb[i].st = "live" /\ Region(cb[i].why) = r /\ cb[i].due = now}

(* The scheduler runs a sync_cb: sync_cb::run_run up to its routine. *)
RunSync(i) ==
  LET r == Region(cb[i].why)
  IN  /\ Idle
      /\ i \in Due(r)
      /\ \/ phase = "start" /\ r = "start"
         \/ phase = "run" /\ (r = "active" \/ (r = "rw" /\ Due("active") = {}))
         \/ phase = "ro" /\ r = "ro"
      /\ IF cb[i].rtn
         THEN /\ Enter([Frame("sync_cb", "", << >>, Null, Null) EXCEPT !.cur = i, !.run = TRUE],
                       IF r = "ro" THEN "ROSYNC" ELSE "RWSYNC")
              /\ cb' = [cb EXCEPT ![i].calls = @ + 1]
         ELSE Delete(i) /\ UNCHANGED <<stack, mode, aborted>>
      /\ UNCHANGED <<head, next, sim, value, phase, now, ops, uaf, reaped>>

(* Mutant: the callback stays scheduled. *)
SyncReturns_Again ==
  /\ In("sync_cb")
  /\ stack' = Tail(stack)
  /\ mode' = "NONE"
  /\ cb' = [cb EXCEPT ![Top.cur].due = IF now < MaxTime THEN now + 1 ELSE now]
  /\ UNCHANGED <<head, next, sim, value, phase, now, ops, aborted, uaf, reaped>>

SyncReturns ==
  /\ In("sync_cb")
  /\ stack' = Tail(stack)
  /\ mode' = "NONE"
  /\ Delete(Top.cur)
  /\ UNCHANGED <<head, next, sim, value, phase, now, ops, aborted, uaf, reaped>>

-----------------------------------------------------------------------------
(* The callbacks of a phase: vpiEndOfCompile, vpiStartOfSim,               *)
(* vpiNextSimTime, which takes the list away first, and vpiPostsim.        *)
Begins(why) ==
  \/ phase = "endofcompile" /\ why = "EndOfCompile"
  \/ phase = "startofsim" /\ why = "StartOfSimulation"
  \/ phase = "nextsim" /\ why = "NextSimTime"
  \/ phase = "postsim" /\ why = "EndOfSimulation"

After(p) ==
  CASE p = "endofcompile" -> "startofsim"
    [] p = "startofsim" -> "run"
    [] p = "nextsim" -> "start"
    [] p = "postsim" -> "done"

RunList(why) ==
  /\ Idle
  /\ Begins(why)
  /\ Enter(Frame("list", why, IF why = "NextSimTime" THEN sim[why] ELSE << >>, Null, Null),
           IF why = "EndOfSimulation" THEN "ROSYNC" ELSE "RWSYNC")
  /\ sim' = IF why = "NextSimTime" THEN [sim EXCEPT ![why] = << >>] ELSE sim
  /\ UNCHANGED <<cb, head, next, value, phase, now, ops, uaf, reaped>>

Left == IF Top.why = "NextSimTime" THEN Top.rest ELSE sim[Top.why]

NextOfList ==
  LET i == Head(Left)
      f == IF Top.why = "NextSimTime" THEN [Top EXCEPT !.rest = Tail(@)] ELSE Top
  IN  /\ In("list") /\ ~ Top.run
      /\ Left # << >>
      /\ sim' = IF Top.why = "NextSimTime" THEN sim ELSE [sim EXCEPT ![Top.why] = Tail(@)]
      /\ IF cb[i].rtn
         THEN /\ stack' = WithTop([f EXCEPT !.cur = i, !.run = TRUE])
              /\ cb' = [cb EXCEPT ![i].calls = @ + 1]
         ELSE stack' = WithTop(f) /\ Delete(i)
      /\ UNCHANGED <<head, next, value, mode, phase, now, ops, aborted, uaf, reaped>>

ListRoutineReturns ==
  /\ In("list") /\ Top.run
  /\ stack' = WithTop([Top EXCEPT !.run = FALSE, !.cur = Null])
  /\ Delete(Top.cur)
  /\ UNCHANGED <<head, next, sim, value, mode, phase, now, ops, aborted, uaf, reaped>>

ListEnds ==
  /\ In("list") /\ ~ Top.run
  /\ Left = << >>
  /\ stack' = Tail(stack)
  /\ mode' = "NONE"
  /\ phase' = After(phase)
  /\ UNCHANGED <<cb, head, next, sim, value, now, ops, aborted, uaf, reaped>>

(* schedule_simulate, as far as callbacks see it. *)
Advance ==
  /\ Idle
  /\ \/ phase = "load" /\ phase' = "endofcompile" /\ UNCHANGED now
     \/ phase = "start" /\ Due("start") = {} /\ phase' = "run" /\ UNCHANGED now
     \/ phase = "run" /\ Due("active") = {} /\ Due("rw") = {} /\ phase' = "ro" /\ UNCHANGED now
     \/ phase = "ro" /\ Due("ro") = {} /\ now < MaxTime /\ phase' = "nextsim" /\ now' = now + 1
     \/ phase = "ro" /\ Due("ro") = {} /\ phase' = "postsim" /\ UNCHANGED now
  /\ UNCHANGED <<cb, head, next, sim, value, stack, mode, ops, aborted, uaf, reaped>>

Init ==
  /\ cb = [i \in Ids |-> Unused]
  /\ head = [s \in Signals |-> Null] /\ next = [i \in Ids |-> Null]
  /\ sim = [r \in Simulator |-> << >>]
  /\ value = [s \in Signals |-> <<0, 0>>]
  /\ stack = << >> /\ mode = "NONE" /\ phase = "load" /\ now = 0 /\ ops = 0
  /\ aborted = FALSE /\ uaf = FALSE /\ reaped = FALSE

Client ==
  \/ \E i \in Ids, r \in Reasons, d \in 0..MaxTime : make_sync(i, r, d)
  \/ \E i \in Ids, r \in Reasons : make_prepost(i, r)
  \/ \E i \in Ids, s \in Signals, p \in 0..1 : make_value_change(i, s, p)
  \/ \E i \in Ids : vpi_remove_cb(i)
  \/ \E s \in Signals, b \in 1..2 : vpi_put_value(s, b)

Next ==
  \/ Client
  \/ NextCallback \/ CallbackReturns \/ WalkEnds
  \/ \E s \in Signals, b \in 1..2 : Assign(s, b)
  \/ CallTask \/ TaskReturns
  \/ \E i \in Ids : RunSync(i)
  \/ SyncReturns
  \/ \E r \in Simulator : RunList(r)
  \/ NextOfList \/ ListRoutineReturns \/ ListEnds
  \/ Advance

Spec == Init /\ [][Next]_vars

-----------------------------------------------------------------------------
TypeOK ==
  /\ \A i \in Ids : cb[i].st \in {"unused", "live", "dead"} /\ cb[i].rtn \in BOOLEAN
  /\ head \in [Signals -> Ids \cup {Null}] /\ next \in [Ids -> Ids \cup {Null}]
  /\ \A r \in Simulator : sim[r] \in Seq(Ids)
  /\ value \in [Signals -> [1..2 -> {0, 1}]]
  /\ mode \in {"NONE", "COMPILETF", "CALLTF", "RWSYNC", "ROSYNC"}
  /\ now \in 0..MaxTime /\ ops \in 0..MaxOps
  /\ aborted \in BOOLEAN /\ uaf \in BOOLEAN /\ reaped \in BOOLEAN

(* The walk over the callbacks of a signal reads no deleted object, though *)
(* routines remove callbacks and start further walks, unless an inner walk *)
(* over the same list deletes a removed callback: then the outer walk may  *)
(* hold it in next or prev.  The asserts, on the link to the object that   *)
(* is taken out of a list and on vpi_mode_flag, hold however calls nest.   *)
WalksSafe == ~ aborted /\ (uaf => reaped)

(* The routine of every callback has been given the latest value of its    *)
(* signal, or of its part of it, once all walks are over.                  *)
ToldLatest ==
  Idle => \A s \in Signals : \A i \in List(s) :
            cb[i].rtn => cb[i].told = Part(value[s], cb[i].part)

(* A callback on a whole signal is called exactly once for each change     *)
(* since it was registered, also where changes nest and where callbacks    *)
(* next to it are registered and removed; one on a part is called at most  *)
(* as often, and not for changes of other parts only.                      *)
CalledPerChange ==
  Idle => \A s \in Signals : \A i \in List(s) :
            cb[i].rtn =>
              IF cb[i].part = 0 THEN cb[i].calls = cb[i].changes
              ELSE cb[i].calls <= cb[i].changes

(* No callback is lost or kept: an object that is not deleted is in the    *)
(* list of its signal or phase, in the list a phase is working off, at     *)
(* work, or scheduled for a time to come, and a deleted one is in none;    *)
(* and every variable has its type.                                        *)
Held ==
  LET listed == (UNION {List(s) : s \in Signals}) \cup (UNION {Range(sim[r]) : r \in Simulator})
                  \cup (UNION {Range(stack[k].rest) : k \in DOMAIN stack})
      atwork == {stack[k].cur : k \in DOMAIN stack} \ {Null}
      pending == {i \in Ids : cb[i].why \in Sync /\ cb[i].st = "live" /\ cb[i].due >= now}
  IN  /\ TypeOK
      /\ OK /\ ~ reaped =>
           \A i \in Ids : cb[i].st = "live" <=> i \in listed \cup atwork \cup pending

ShotOnce(i) ==
  /\ cb'[i].calls # cb[i].calls =>
       /\ cb[i].calls = 0
       /\ cb[i].why \in Sync => now = cb[i].due
       /\ cb[i].why = "NextSimTime" => now = cb[i].due + 1
  /\ cb'[i].st = "dead" => cb'[i].calls = 1 \/ ~ cb[i].rtn

ShotStep == \A i \in Ids : cb[i].why \in Simulator \cup Sync => ShotOnce(i)

(* A one-shot callback is called once, at the time it was registered for,  *)
(* one for the next time step in the step after its registration, also if  *)
(* it is registered by the routine of another such callback; and its       *)
(* object is not freed before, unless the callback was removed.            *)
OneShot == [][ShotStep]_vars

-----------------------------------------------------------------------------
(* The inductive invariant of VpiCallbacksProofs.  Its parts are stated of *)
(* any callbacks c, links h and n, and frame f.                            *)

Kinds == Simulator \cup Sync \cup {"ValueChange"}
Modes == {"NONE", "COMPILETF", "CALLTF", "RWSYNC", "ROSYNC"}
Phases == {"load", "endofcompile", "startofsim", "nextsim", "start", "run", "ro",
           "postsim", "done"}
OrNull == Ids \cup {Null}

CallbackType ==
  [st: {"unused", "live", "dead"}, rtn: BOOLEAN, why: Kinds \cup {""},
   sig: Signals \cup {Null}, part: 0..1, due: 0..MaxTime, value_bits_: Seq({0, 1}),
   told: Seq({0, 1}), calls: Nat, changes: Nat]

FrameType ==
  [fn: {"run_vpi_callbacks", "calltf", "sync_cb", "list"}, why: Kinds \cup {""},
   rest: Seq(Ids), sig: Signals \cup {Null}, nxt: OrNull, prev: OrNull, cur: OrNull,
   run: BOOLEAN, save: Modes]

Types ==
  /\ cb \in [Ids -> CallbackType]
  /\ head \in [Signals -> OrNull] /\ next \in [Ids -> OrNull]
  /\ sim \in [Simulator -> Seq(Ids)]
  /\ value \in [Signals -> [1..2 -> {0, 1}]]
  /\ stack \in Seq(FrameType) /\ mode \in Modes /\ phase \in Phases
  /\ now \in 0..MaxTime /\ ops \in 0..MaxOps
  /\ aborted \in BOOLEAN /\ uaf \in BOOLEAN /\ reaped \in BOOLEAN

(* x is or was a callback on the signal s. *)
Of(c, x, s) == c[x].st # "unused" /\ c[x].why = "ValueChange" /\ c[x].sig = s

(* The lists hold callbacks of their own signal.  While no walk has been   *)
(* disturbed, all of them are live, nothing is linked twice, and links     *)
(* lead to callbacks that were registered before.                          *)
ListsOk ==
  /\ \A s \in Signals : head[s] # Null => Of(cb, head[s], s)
  /\ \A i \in Ids : next[i] # Null =>
       cb[i].st = "live" /\ cb[i].why = "ValueChange" /\ Of(cb, next[i], cb[i].sig)

InLinks ==
  /\ \A s \in Signals : head[s] # Null => cb[head[s]].st = "live"
  /\ \A i \in Ids : next[i] # Null =>
       /\ cb[next[i]].st = "live"
       /\ \A j \in Ids : next[j] = next[i] => j = i
       /\ \A s \in Signals : head[s] # next[i]

Ranked(rank, n, m) == \A i \in Ids : rank[i] <= m /\ (n[i] # Null => rank[n[i]] < rank[i])

(* The walks.  What a walk holds in next is what follows the callback that *)
(* it has, or will have, in prev, unless one of the two is deleted.        *)
IsWalk(f) == f.fn = "run_vpi_callbacks"

Behind(f) == IF f.run THEN f.cur ELSE f.prev

Joined(c, h, n, f) ==
  IF Behind(f) = Null THEN f.nxt = h[f.sig]
  ELSE \/ c[Behind(f)].st = "dead"
       \/ f.nxt # Null /\ c[f.nxt].st = "dead"
       \/ n[Behind(f)] = f.nxt

WalkOk(c, h, n, f) ==
  /\ f.sig \in Signals
  /\ \A x \in {f.nxt, f.prev, f.cur} : x # Null => Of(c, x, f.sig)
  /\ f.run <=> f.cur # Null
  /\ Joined(c, h, n, f)

WalkLive(c, f) == \A x \in {f.nxt, f.prev, f.cur} : x # Null => c[x].st = "live"

(* The scheduler's calls: q are the callbacks of the next time step. *)
Waits(c, x, why) == c[x].why = why /\ c[x].st = "live" /\ c[x].calls = 0

ListOk(c, q, t, f) ==
  /\ f.why \in Simulator
  /\ IsInjective(f.rest) /\ (f.why # "NextSimTime" => f.rest = << >>)
  /\ \A x \in Range(f.rest) :
       Waits(c, x, "NextSimTime") /\ c[x].due = t - 1 /\ x \notin Range(q)
  /\ f.run => f.cur \in Ids /\ c[f.cur].why \in Simulator /\ c[f.cur].calls = 1

SyncOk(c, f) == f.cur \in Ids /\ c[f.cur].why \in Sync /\ c[f.cur].calls = 1

OuterOk(c, q, t, p, f) ==
  /\ f.fn = "list" => p \in {"endofcompile", "startofsim", "nextsim", "postsim"}
  /\ p = "nextsim" => f.fn = "list"
  /\ f.fn = "list" => ListOk(c, q, t, f)
  /\ f.fn = "sync_cb" => SyncOk(c, f)

(* All frames but the innermost are in a routine, and all but the          *)
(* outermost are walks.                                                    *)
Walks == \A k \in DOMAIN stack : IsWalk(stack[k]) => WalkOk(cb, head, next, stack[k])

Nested ==
  \A k \in DOMAIN stack :
    /\ k > 1 => stack[k].run
    /\ k < Len(stack) => IsWalk(stack[k])

Outermost ==
  stack # << >> => OuterOk(cb, sim["NextSimTime"], now, phase, stack[Len(stack)])

WalksLive == \A k \in DOMAIN stack : IsWalk(stack[k]) => WalkLive(cb, stack[k])

ModeOk ==
  IF stack = << >> THEN mode = "NONE"
  ELSE IsWalk(stack[Len(stack)]) =>
         IF stack[Len(stack)].run THEN stack[Len(stack)].save = "NONE" ELSE mode = "NONE"

(* The one-shot callbacks. *)
SimOk ==
  \A r \in Simulator :
    /\ IsInjective(sim[r])
    /\ \A x \in Range(sim[r]) :
         /\ Waits(cb, x, r)
         /\ r = "NextSimTime" =>
              cb[x].due = IF phase = "nextsim" /\ stack = << >> THEN now - 1 ELSE now

Serves(s, i) == s # << >> /\ s[Len(s)].fn = "sync_cb" /\ s[Len(s)].cur = i

ShotsOk ==
  \A i \in Ids :
    /\ cb[i].why \in Sync /\ cb[i].st = "live" => cb[i].calls = 0 \/ Serves(stack, i)
    /\ cb[i].why \in Simulator \cup Sync /\ cb[i].st = "dead" => cb[i].calls = 1 \/ ~ cb[i].rtn
    /\ cb[i].st = "unused" => cb[i].calls = 0

Undisturbed ==
  /\ InLinks /\ WalksLive /\ ~ uaf
  /\ \E rank \in [Ids -> Nat] : Ranked(rank, next, ops)

IInv ==
  /\ Types /\ ListsOk /\ Walks /\ Nested /\ Outermost /\ ModeOk /\ SimOk /\ ShotsOk
  /\ ~ aborted
  /\ ~ reaped => Undisturbed

=============================================================================
