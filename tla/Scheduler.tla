------------------------------ MODULE Scheduler ------------------------------
(***************************************************************************)
(* The stratified event queue of the vvp runtime, vvp/schedule.cc.         *)
(*                                                                         *)
(* The queue is a list of time cells (event_time_s).  A cell holds its     *)
(* delay RELATIVE to the cell before it and one FIFO per region.  The C++  *)
(* circular lists, addressed by their last element, are sequences here.    *)
(*                                                                         *)
(* What an event does when it runs (run_run) is not fixed: while an event, *)
(* or a group of VPI callbacks, is executing, it may make any calls of the *)
(* scheduling interface.  schedule_event_ searches the cell list in a      *)
(* loop; each iteration is a step (ScheduleWalk), and nothing but a signal *)
(* can intervene before the event is placed.                               *)
(*                                                                         *)
(* Fields and variables marked (history) do not exist in the code.  They   *)
(* record when an event is due and what became of it, and no guard reads   *)
(* them, apart from the bound on the number of events.                     *)
(***************************************************************************)
EXTENDS Integers, Sequences, FiniteSets

CONSTANTS
  Delays,      (* the delays that schedule_* calls may pass *)
  MaxEvents,   (* bound on the events of one behaviour *)
  MaxStops,    (* bound on the stop requests, of tasks and of signals *)
  Regions,     (* the queues that schedule_* calls may choose *)
  Controls,    (* which of "finish", "stop", "step", "INT", "TERM", "-n" occur *)
  NoEvent,     (* running = NoEvent: no event is executing *)
  NoCall       (* call = NoCall: schedule_event_ is not searching *)

ASSUME DelaysAssumption == Delays \subseteq Nat
ASSUME BoundsAssumption == MaxEvents \in Nat /\ MaxStops \in Nat

(* The queues of an event_time_s, in event_queue_t order. *)
Queues == {"start", "active", "inactive", "nbassign", "rwsync", "rosync",
           "del_thr"}

ASSUME RegionsAssumption == Regions \subseteq Queues

(* The two lists outside the event_time_s cells. *)
Lists == {"init", "final"}

(* The points of schedule_simulate at which control can be found.          *)
Phases == {"compile",    \* before the init list is run: compilation, vpiEndOfCompile
           "init",       \* draining schedule_init_list
           "startsim",   \* vpiStartOfSim callbacks
           "loop",       \* top of the event loop
           "stop",       \* the interactive prompt of stop_handler
           "nextsim",    \* vpiNextSimTime callbacks
           "start",      \* draining ctim->start
           "select",     \* past the time advance of this iteration
           "rosync",     \* inside run_rosync
           "final",      \* draining schedule_final_list
           "done"}       \* schedule_simulate has returned

VARIABLES
  sched_list,                 \* the cells, nearest time first
  schedule_init_list,
  schedule_final_list,
  schedule_time,
  schedule_runnable,
  schedule_stopped_flag,
  schedule_single_step_flag,
  stop_is_finish,
  run_finals,
  phase,                      \* where schedule_simulate is
  running,                    \* the event in run_run, or NoEvent
  call,                       \* the search of schedule_event_, or NoCall
  nsched,                     \* (history) number of events scheduled so far
  nstops,                     \* (history) number of stop requests so far
  asked,                      \* (history) the stop request that is pending
  finished,                   \* (history) schedule_finish has been called
  lost,                       \* (history) events freed with their cell, not run
  sched_error                 \* (history) "SCHEDULER ERROR" was printed

flags == <<schedule_runnable, schedule_stopped_flag,
           schedule_single_step_flag, stop_is_finish>>
queues == <<sched_list, schedule_init_list, schedule_final_list>>
stops == <<nstops, asked>>
ghosts == <<finished, lost, sched_error>>
vars == <<sched_list, schedule_init_list, schedule_final_list, schedule_time,
          schedule_runnable, schedule_stopped_flag, schedule_single_step_flag,
          stop_is_finish, run_finals, phase, running, call, nsched, stops,
          finished, lost, sched_error>>

Event == [id: Nat,                       \* (history) order of the schedule call
          region: Queues \cup Lists,     \* the queue it was scheduled into
          delay: Nat,                    \* (history) the delay asked for
          at: Nat,                       \* (history) when it is due
          push: BOOLEAN,                 \* scheduled by schedule_event_push_
          ro: BOOLEAN]                   \* (history) scheduled during run_rosync

Cell == [delay: Nat, at: Nat, q: [Queues -> Seq(Event)]]   \* at: (history)

Search == [ev: Event, delay: Nat, ctim: Nat]

(* (history) When and where a stop was asked for, and the events of the    *)
(* queue that were begun since, each with the place it was taken at.       *)
Stop == [time: Nat, phase: Phases,
         begun: SUBSET [in: Phases, event: Event \cup {NoEvent}]]

NoStop == [time |-> 0, phase |-> "compile", begun |-> {}]

sim_started == phase \notin {"compile", "init"}

-----------------------------------------------------------------------------
(* Building blocks. *)

NewEvent(r, d, p) ==
  [id |-> nsched + 1, region |-> r, delay |-> d, at |-> schedule_time + d,
   push |-> p, ro |-> phase = "rosync"]

(* A new event_time_s that holds one event. *)
CellWith(d, ev) ==
  [delay |-> d, at |-> ev.at,
   q |-> [r \in Queues |-> IF r = ev.region THEN <<ev>> ELSE << >>]]

(* Mutant: the following cell keeps its delay. *)
InsertBeforeNoShrink(i, c) ==
  [k \in 1..Len(sched_list) + 1 |->
     IF k < i THEN sched_list[k] ELSE IF k = i THEN c ELSE sched_list[k - 1]]

(* The list with cell c put in front of cell i, whose relative delay       *)
(* shrinks by c's.                                                         *)
InsertBefore(i, c) ==
  [k \in 1..Len(sched_list) + 1 |->
     IF k < i THEN sched_list[k]
     ELSE IF k = i THEN c
     ELSE IF k = i + 1 THEN [sched_list[i] EXCEPT !.delay = @ - c.delay]
     ELSE sched_list[k - 1]]

(* Mutant: the event becomes the first of its queue. *)
AppendToFront(i, ev) ==
  [sched_list EXCEPT ![i].q[ev.region] = <<ev>> \o @]

(* The event at the end of its queue in cell i. *)
AppendTo(i, ev) ==
  [sched_list EXCEPT ![i].q[ev.region] = Append(@, ev)]

-----------------------------------------------------------------------------
(* The scheduling interface.                                               *)

(* Mutant: a cell of the same time does not stop the event from getting a  *)
(* cell of its own.                                                        *)
schedule_event_dup(ev, d) ==
  \/ /\ sched_list = << >>
     /\ sched_list' = <<CellWith(d, ev)>>
     /\ UNCHANGED call
  \/ /\ sched_list # << >>
     /\ sched_list[1].delay >= d
     /\ sched_list' = InsertBefore(1, CellWith(d, ev))
     /\ UNCHANGED call
  \/ /\ sched_list # << >>
     /\ sched_list[1].delay < d
     /\ call' = [ev |-> ev, delay |-> d, ctim |-> 1]
     /\ UNCHANGED sched_list

(* schedule_event_: an empty list, or a first cell that lies later, is     *)
(* settled at once; otherwise the search starts at the first cell.         *)
schedule_event_(ev, d) ==
  \/ /\ sched_list = << >>
     /\ sched_list' = <<CellWith(d, ev)>>
     /\ UNCHANGED call
  \/ /\ sched_list # << >>
     /\ sched_list[1].delay > d
     /\ sched_list' = InsertBefore(1, CellWith(d, ev))
     /\ UNCHANGED call
  \/ /\ sched_list # << >>
     /\ sched_list[1].delay <= d
     /\ call' = [ev |-> ev, delay |-> d, ctim |-> 1]
     /\ UNCHANGED sched_list

(* Mutant: the event is queued behind the active events. *)
schedule_event_push_back(ev) == schedule_event_(ev, 0)

(* schedule_event_push_: in front of the active events of the current      *)
(* time, if there is a cell for it.                                        *)
schedule_event_push_(ev) ==
  \/ /\ sched_list # << >> => sched_list[1].delay > 0
     /\ schedule_event_(ev, 0)
  \/ /\ sched_list # << >>
     /\ sched_list[1].delay = 0
     /\ sched_list' = [sched_list EXCEPT ![1].q["active"] = <<ev>> \o @]
     /\ UNCHANGED call

(* An event, or a callback routine, is executing and may make calls.       *)
Executing ==
  /\ call = NoCall
  /\ running # NoEvent \/ phase \in {"compile", "startsim", "stop", "nextsim"}

CanSchedule == Executing /\ nsched < MaxEvents

(* The schedule_* calls that end in schedule_event_.  Only delay 0 is ever *)
(* asked for with SEQ_INACTIVE and DEL_THREAD.                             *)
Schedule(r, d) ==
  /\ CanSchedule
  /\ r \in {"inactive", "del_thr"} => d = 0
  /\ schedule_event_(NewEvent(r, d, FALSE), d)
  /\ nsched' = nsched + 1
  /\ UNCHANGED <<schedule_init_list, schedule_final_list, schedule_time, flags,
                 run_finals, phase, running, stops, ghosts>>

(* schedule_vthread with push_flag and no delay. *)
SchedulePush ==
  /\ CanSchedule
  /\ schedule_event_push_(NewEvent("active", 0, TRUE))
  /\ nsched' = nsched + 1
  /\ UNCHANGED <<schedule_init_list, schedule_final_list, schedule_time, flags,
                 run_finals, phase, running, stops, ghosts>>

(* schedule_init_event: the calls of the compiler, and of schedule_functor *)
(* until the simulation has started.                                       *)
ScheduleInit ==
  /\ CanSchedule
  /\ ~ sim_started
  /\ schedule_init_list' = Append(schedule_init_list, NewEvent("init", 0, FALSE))
  /\ nsched' = nsched + 1
  /\ UNCHANGED <<sched_list, schedule_final_list, schedule_time, flags,
                 run_finals, phase, running, call, stops, ghosts>>

(* schedule_final_event: final blocks are scheduled by the compiler.       *)
ScheduleFinal ==
  /\ CanSchedule
  /\ phase = "compile"
  /\ schedule_final_list' = Append(schedule_final_list, NewEvent("final", 0, FALSE))
  /\ nsched' = nsched + 1
  /\ UNCHANGED <<sched_list, schedule_init_list, schedule_time, flags,
                 run_finals, phase, running, call, stops, ghosts>>

(* Mutant: the delay is not made relative to the next cell. *)
ScheduleWalkAbsolute ==
  /\ call # NoCall
  /\ call.ctim < Len(sched_list)
  /\ sched_list[call.ctim].delay < call.delay
  /\ call' = [call EXCEPT !.ctim = @ + 1]
  /\ UNCHANGED <<queues, schedule_time, flags, run_finals, phase, running,
                 nsched, stops, ghosts>>

(* One iteration of the search loop of schedule_event_. *)
ScheduleWalk ==
  /\ call # NoCall
  /\ call.ctim < Len(sched_list)
  /\ sched_list[call.ctim].delay < call.delay
  /\ call' = [call EXCEPT !.delay = @ - sched_list[call.ctim].delay,
                          !.ctim = @ + 1]
  /\ UNCHANGED <<queues, schedule_time, flags, run_finals, phase, running,
                 nsched, stops, ghosts>>

(* The search loop is left: the event goes into a new cell in front of     *)
(* ctim, into ctim, or into a new cell at the end of the list.             *)
SchedulePlace ==
  /\ call # NoCall
  /\ LET ctim == sched_list[call.ctim]
     IN  \/ /\ ctim.delay > call.delay
            /\ sched_list' = InsertBefore(call.ctim, CellWith(call.delay, call.ev))
         \/ /\ ctim.delay = call.delay
            /\ sched_list' = AppendTo(call.ctim, call.ev)
         \/ /\ ctim.delay < call.delay
            /\ call.ctim = Len(sched_list)
            /\ sched_list' = Append(sched_list,
                                    CellWith(call.delay - ctim.delay, call.ev))
  /\ call' = NoCall
  /\ UNCHANGED <<schedule_init_list, schedule_final_list, schedule_time, flags,
                 run_finals, phase, running, nsched, stops, ghosts>>

(* Of several requests the first one counts until it is served.  A signal  *)
(* that comes between a look at the flag and what the look allows counts   *)
(* as coming right after that, which gives the same state.                 *)
AskStop(p) ==
  IF schedule_stopped_flag THEN asked
  ELSE [time |-> schedule_time, phase |-> p, begun |-> {}]

(* Event ev is taken from a cell. *)
Begin(p, ev) ==
  IF schedule_stopped_flag
  THEN [time |-> asked.time, phase |-> asked.phase,
        begun |-> asked.begun \cup {[in |-> p, event |-> ev]}]
  ELSE asked

(* schedule_finish ($finish) and schedule_stop ($stop, vpi_control).       *)
schedule_finish ==
  /\ "finish" \in Controls
  /\ Executing
  /\ schedule_runnable' = FALSE
  /\ finished' = TRUE
  /\ UNCHANGED <<queues, schedule_time, schedule_stopped_flag,
                 schedule_single_step_flag, stop_is_finish, run_finals, phase,
                 running, call, nsched, stops, lost, sched_error>>

schedule_stop ==
  /\ "stop" \in Controls
  /\ Executing
  /\ nstops < MaxStops
  /\ nstops' = nstops + 1
  /\ asked' = AskStop(phase)
  /\ schedule_stopped_flag' = TRUE
  /\ UNCHANGED <<queues, schedule_time, schedule_runnable,
                 schedule_single_step_flag, stop_is_finish, run_finals, phase,
                 running, call, nsched, ghosts>>

(* signals_handler runs between any two instructions while the handlers    *)
(* are installed (signals_capture .. signals_revert).                      *)
signals_handler(sig) ==
  /\ sig \in Controls
  /\ nstops < MaxStops
  /\ phase \notin {"compile", "init", "startsim", "done"}
  /\ nstops' = nstops + 1
  /\ asked' = AskStop(phase)
  /\ stop_is_finish' = (stop_is_finish \/ sig # "INT")
  /\ schedule_stopped_flag' = TRUE
  /\ UNCHANGED <<queues, schedule_time, schedule_runnable,
                 schedule_single_step_flag, run_finals, phase, running, call,
                 nsched, ghosts>>

-----------------------------------------------------------------------------
(* schedule_simulate.                                                      *)

(* The loop itself is in control: no event, callback or search is under way. *)
Idle == running = NoEvent /\ call = NoCall

(* The event, or the group of callbacks, returns. *)
EndRun ==
  /\ running # NoEvent
  /\ call = NoCall
  /\ running' = NoEvent
  /\ UNCHANGED <<queues, schedule_time, flags, run_finals, phase, call, nsched,
                 stops, ghosts>>

(* Compilation and the EndOfCompile callbacks are over. *)
BeginInit ==
  /\ phase = "compile"
  /\ Idle
  /\ phase' = "init"
  /\ UNCHANGED <<queues, schedule_time, flags, run_finals, running, call,
                 nsched, stops, ghosts>>

RunInit ==
  /\ phase = "init"
  /\ Idle
  /\ schedule_init_list # << >>
  /\ running' = Head(schedule_init_list)
  /\ schedule_init_list' = Tail(schedule_init_list)
  /\ UNCHANGED <<sched_list, schedule_final_list, schedule_time, flags,
                 run_finals, phase, call, nsched, stops, ghosts>>

EndInit ==
  /\ phase = "init"
  /\ Idle
  /\ schedule_init_list = << >>
  /\ phase' = "startsim"
  /\ UNCHANGED <<queues, schedule_time, flags, run_finals, running, call,
                 nsched, stops, ghosts>>

(* The loop is skipped if something finished the simulation before it began. *)
BeginLoop ==
  /\ phase = "startsim"
  /\ Idle
  /\ run_finals' = schedule_runnable
  /\ phase' = IF schedule_runnable THEN "loop" ELSE "final"
  /\ UNCHANGED <<queues, schedule_time, flags, running, call, nsched, stops,
                 ghosts>>

(* Leaving the loop for the final events makes the simulation runnable again. *)
EnterFinal ==
  /\ phase' = "final"
  /\ schedule_runnable' = run_finals

(* The head of an iteration, with something left to do. *)
AtTop == phase = "loop" /\ Idle /\ sched_list # << >>

OutOfEvents ==
  /\ phase = "loop"
  /\ Idle
  /\ sched_list = << >>
  /\ EnterFinal
  /\ UNCHANGED <<queues, schedule_time, schedule_stopped_flag,
                 schedule_single_step_flag, stop_is_finish, run_finals, running,
                 call, nsched, stops, ghosts>>

(* A pending stop is served before anything else: stop_handler turns it    *)
(* into a finish, which leaves the loop at once, or prompts the user.      *)
ServeStop ==
  /\ AtTop
  /\ schedule_stopped_flag
  /\ schedule_stopped_flag' = FALSE
  /\ asked' = NoStop
  /\ finished' = (finished \/ stop_is_finish)
  /\ \/ stop_is_finish /\ EnterFinal
     \/ ~ stop_is_finish /\ phase' = "stop" /\ UNCHANGED schedule_runnable
  /\ UNCHANGED <<queues, schedule_time, schedule_single_step_flag,
                 stop_is_finish, run_finals, running, call, nsched, nstops,
                 lost, sched_error>>

(* The prompt is left by cont (or end of input), step or finish.  A finish *)
(* given at the prompt, here or by an earlier command, ends the loop.      *)
LeaveStop(cmd) ==
  /\ phase = "stop"
  /\ Idle
  /\ cmd \in {"cont"} \cup (Controls \cap {"step", "finish"})
  /\ schedule_single_step_flag' = (schedule_single_step_flag \/ cmd = "step")
  /\ finished' = (finished \/ cmd = "finish")
  /\ \/ /\ schedule_runnable /\ cmd # "finish"
        /\ phase' = "loop"
        /\ UNCHANGED schedule_runnable
     \/ /\ ~ (schedule_runnable /\ cmd # "finish")
        /\ EnterFinal
  /\ UNCHANGED <<queues, schedule_time, schedule_stopped_flag, stop_is_finish,
                 run_finals, running, call, nsched, stops, lost, sched_error>>

(* Mutant: $finish is only noticed when the events run out. *)
AdvanceTimeAlways ==
  /\ AtTop
  /\ ~ schedule_stopped_flag
  /\ sched_list[1].delay > 0
  /\ schedule_time' = schedule_time + sched_list[1].delay
  /\ sched_list' = [sched_list EXCEPT ![1].delay = 0]
  /\ phase' = "nextsim"
  /\ UNCHANGED <<schedule_init_list, schedule_final_list, flags, run_finals,
                 running, call, nsched, stops, ghosts>>

(* The next cell lies in the future.  After a finish it is never entered.  *)
AdvanceTime ==
  /\ AtTop
  /\ ~ schedule_stopped_flag
  /\ sched_list[1].delay > 0
  /\ \/ /\ ~ schedule_runnable
        /\ EnterFinal
        /\ UNCHANGED <<sched_list, schedule_time>>
     \/ /\ schedule_runnable
        /\ schedule_time' = schedule_time + sched_list[1].delay
        /\ sched_list' = [sched_list EXCEPT ![1].delay = 0]
        /\ phase' = "nextsim"
        /\ UNCHANGED schedule_runnable
  /\ UNCHANGED <<schedule_init_list, schedule_final_list,
                 schedule_stopped_flag, schedule_single_step_flag,
                 stop_is_finish, run_finals, running, call, nsched, stops,
                 ghosts>>

EndNextSim ==
  /\ phase = "nextsim"
  /\ Idle
  /\ phase' = "start"
  /\ UNCHANGED <<queues, schedule_time, flags, run_finals, running, call,
                 nsched, stops, ghosts>>

(* The current cell without the first event of queue r. *)
Pop(r) == [sched_list EXCEPT ![1].q[r] = Tail(@)]

RunStart ==
  /\ phase = "start"
  /\ Idle
  /\ sched_list[1].q["start"] # << >>
  /\ running' = Head(sched_list[1].q["start"])
  /\ sched_list' = Pop("start")
  /\ asked' = Begin(phase, running')
  /\ UNCHANGED <<schedule_init_list, schedule_final_list, schedule_time, flags,
                 run_finals, phase, call, nsched, nstops, ghosts>>

(* Mutant: at most one start-of-time event is run. *)
EndStartEarly ==
  /\ phase = "start"
  /\ Idle
  /\ phase' = "select"
  /\ UNCHANGED <<queues, schedule_time, flags, run_finals, running, call,
                 nsched, stops, ghosts>>

EndStart ==
  /\ phase = "start"
  /\ Idle
  /\ sched_list[1].q["start"] = << >>
  /\ phase' = "select"
  /\ UNCHANGED <<queues, schedule_time, flags, run_finals, running, call,
                 nsched, stops, ghosts>>

(* Mutant: a stop is looked for only when the time is about to advance. *)
Selecting_NoStop ==
  \/ AtTop /\ sched_list[1].delay = 0
  \/ phase = "select" /\ Idle

(* Control is at the selection of an event of the current time: after the  *)
(* tests at the head of the loop, or right after a time advance.           *)
Selecting ==
  \/ AtTop /\ ~ schedule_stopped_flag /\ sched_list[1].delay = 0
  \/ phase = "select" /\ Idle

(* Mutant: nonblocking assignments before #0 delays. *)
RWOrderSwapped == <<"active", "nbassign", "inactive", "rwsync">>

(* The regions an event of the current time is selected from, in order.    *)
RWOrder == <<"active", "inactive", "nbassign", "rwsync">>

(* The i-th region is selected when all those before it are empty.  It     *)
(* becomes the active queue, whose first event is run.                     *)
RunNext(i) ==
  LET q == sched_list[1].q
  IN  /\ Selecting
      /\ \A j \in 1..i-1 : q[RWOrder[j]] = << >>
      /\ q[RWOrder[i]] # << >>
      /\ running' = Head(q[RWOrder[i]])
      /\ sched_list' =
           [sched_list EXCEPT
              ![1].q = [q EXCEPT ![RWOrder[i]] = << >>,
                                 !["active"] = Tail(q[RWOrder[i]])]]
      /\ schedule_stopped_flag' = (schedule_stopped_flag \/ schedule_single_step_flag)
      /\ schedule_single_step_flag' = FALSE
      /\ asked' = IF ~ schedule_stopped_flag /\ schedule_single_step_flag
                  THEN AskStop("loop") ELSE Begin("loop", running')
      /\ phase' = "loop"
      /\ UNCHANGED <<schedule_init_list, schedule_final_list, schedule_time,
                     schedule_runnable, stop_is_finish, run_finals, call,
                     nsched, nstops, ghosts>>

BeginRosync ==
  /\ Selecting
  /\ \A j \in 1..4 : sched_list[1].q[RWOrder[j]] = << >>
  /\ phase' = "rosync"
  /\ UNCHANGED <<queues, schedule_time, flags, run_finals, running, call,
                 nsched, stops, ghosts>>

RunRosync ==
  /\ phase = "rosync"
  /\ Idle
  /\ sched_list[1].q["rosync"] # << >>
  /\ running' = Head(sched_list[1].q["rosync"])
  /\ sched_list' = Pop("rosync")
  /\ asked' = Begin(phase, running')
  /\ UNCHANGED <<schedule_init_list, schedule_final_list, schedule_time, flags,
                 run_finals, phase, call, nsched, nstops, ghosts>>

(* Events that are still in a cell when it is freed. *)
LeftIn(c) ==
  UNION {{c.q[r][k] : k \in 1..Len(c.q[r])} : r \in Queues \ {"del_thr"}}

(* Mutant: the finished cell stays in the list. *)
EndRosyncKeepsCell ==
  /\ phase = "rosync"
  /\ Idle
  /\ sched_list[1].q["rosync"] = << >>
  /\ phase' = "loop"
  /\ UNCHANGED <<queues, schedule_time, flags, run_finals, running, call,
                 nsched, stops, ghosts>>

(* The end of run_rosync: the finished threads are deleted (that runs no   *)
(* simulation code), left-over read-write events are reported, and the     *)
(* cell is freed.                                                          *)
EndRosync ==
  /\ phase = "rosync"
  /\ Idle
  /\ sched_list[1].q["rosync"] = << >>
  /\ sched_error' = (sched_error \/
                      \E j \in 1..4 : sched_list[1].q[RWOrder[j]] # << >>)
  /\ UNCHANGED finished
  /\ lost' = lost \cup LeftIn(sched_list[1])
  /\ sched_list' = Tail(sched_list)
  /\ phase' = "loop"
  /\ UNCHANGED <<schedule_init_list, schedule_final_list, schedule_time, flags,
                 run_finals, running, call, nsched, stops>>

RunFinal ==
  /\ phase = "final"
  /\ Idle
  /\ schedule_runnable
  /\ schedule_final_list # << >>
  /\ running' = Head(schedule_final_list)
  /\ schedule_final_list' = Tail(schedule_final_list)
  /\ UNCHANGED <<sched_list, schedule_init_list, schedule_time, flags,
                 run_finals, phase, call, nsched, stops, ghosts>>

EndSimulate ==
  /\ phase = "final"
  /\ Idle
  /\ ~ schedule_runnable \/ schedule_final_list = << >>
  /\ phase' = "done"
  /\ UNCHANGED <<queues, schedule_time, flags, run_finals, running, call,
                 nsched, stops, ghosts>>

Done == phase = "done" /\ UNCHANGED vars

-----------------------------------------------------------------------------
Init ==
  /\ sched_list = << >>
  /\ schedule_init_list = << >>
  /\ schedule_final_list = << >>
  /\ schedule_time = 0
  /\ schedule_runnable = TRUE
  /\ schedule_stopped_flag = FALSE
  /\ schedule_single_step_flag = FALSE
  /\ stop_is_finish \in BOOLEAN
  /\ stop_is_finish => "-n" \in Controls
  /\ run_finals = FALSE
  /\ phase = "compile"
  /\ running = NoEvent
  /\ call = NoCall
  /\ nsched = 0
  /\ nstops = 0
  /\ asked = NoStop
  /\ finished = FALSE
  /\ lost = {}
  /\ sched_error = FALSE

(* What simulation code, the user and the operating system ask for. *)
Request ==
  \/ \E r \in Regions, d \in Delays : Schedule(r, d)
  \/ SchedulePush
  \/ ScheduleInit
  \/ ScheduleFinal
  \/ schedule_finish
  \/ schedule_stop
  \/ \E sig \in {"INT", "TERM"} : signals_handler(sig)

(* What schedule.cc does by itself. *)
Simulate ==
  \/ ScheduleWalk \/ SchedulePlace \/ EndRun
  \/ BeginInit \/ RunInit \/ EndInit \/ BeginLoop
  \/ OutOfEvents \/ ServeStop
  \/ \E cmd \in {"cont", "step", "finish"} : LeaveStop(cmd)
  \/ AdvanceTime \/ EndNextSim \/ RunStart \/ EndStart
  \/ \E i \in 1..4 : RunNext(i)
  \/ BeginRosync \/ RunRosync \/ EndRosync
  \/ RunFinal \/ EndSimulate

Next == Request \/ Simulate \/ Done

Spec == Init /\ [][Next]_vars

(* Every event body and every callback returns, the user leaves the prompt *)
(* and the loop never idles while it has something to do.                  *)
FairSpec == Spec /\ WF_vars(Simulate)

-----------------------------------------------------------------------------
(* Properties.                                                             *)

TypeOK ==
  /\ sched_list \in Seq(Cell)
  /\ schedule_init_list \in Seq(Event)
  /\ schedule_final_list \in Seq(Event)
  /\ schedule_time \in Nat
  /\ schedule_runnable \in BOOLEAN
  /\ schedule_stopped_flag \in BOOLEAN
  /\ schedule_single_step_flag \in BOOLEAN
  /\ stop_is_finish \in BOOLEAN
  /\ run_finals \in BOOLEAN
  /\ phase \in Phases
  /\ running \in Event \cup {NoEvent}
  /\ call \in Search \cup {NoCall}
  /\ nsched \in Nat
  /\ nstops \in Nat
  /\ finished \in BOOLEAN
  /\ lost \subseteq Event
  /\ sched_error \in BOOLEAN

(* The events of cell i. *)
PendingIn(i) ==
  UNION {{sched_list[i].q[r][k] : k \in 1..Len(sched_list[i].q[r])} : r \in Queues}

(* All events waiting in the queue. *)
Pending == UNION {PendingIn(i) : i \in 1..Len(sched_list)}

(* An event selected from the queue runs at exactly the simulation time it *)
(* was scheduled for, however the relative delays of the cells were split  *)
(* by the insertions made in between.                                      *)
OnTime ==
  running # NoEvent /\ running.region \in Queues => running.at = schedule_time

(* The nearer cell is really the earlier one: no event that waits in the   *)
(* queue is overdue, and none is due before an event in a nearer cell.     *)
NothingOverdue ==
  \A i, j \in 1..Len(sched_list) : \A e \in PendingIn(i), f \in PendingIn(j) :
    /\ e.at >= schedule_time
    /\ i < j => e.at < f.at

(* Events for one region of one time step run in the order of the schedule *)
(* calls (the LRM requires it of nonblocking assignments).                 *)
RunsInOrder ==
  running # NoEvent /\ ~ running.push =>
    \A e \in Pending :
      e.region = running.region /\ e.at = running.at /\ ~ e.push => e.id > running.id

(* The place of a region in the time step. *)
Rank == [r \in Queues \cup Lists |->
           CASE r = "inactive" -> 2 [] r = "nbassign" -> 3 [] r = "rwsync" -> 4
             [] r = "rosync" -> 5 [] r = "active" -> 1 [] OTHER -> 0]

(* An event of a later region does not overtake one of an earlier region:  *)
(* when it runs, every event of an earlier region still pending for this   *)
(* time was scheduled after it (or illegally, by a read-only callback).    *)
Stratified ==
  running # NoEvent /\ Rank[running.region] > 1 =>
    \A e \in Pending :
      /\ e.at = running.at
      /\ Rank[e.region] \in 1..Rank[running.region] - 1
      => e.id > running.id \/ e.ro

(* schedule.cc: "the push_flag means I can push this event in front of     *)
(* everything": of the events waiting for this time, the loop runs the     *)
(* last pushed one first.                                                  *)
PushedRunFirst ==
  [][running' # running /\ running' # NoEvent /\ phase' = "loop" =>
       \A e \in PendingIn(1) :
         e.push => running'.push /\ running'.id >= e.id]_vars

(* An event disappears without having run only if a read-only callback     *)
(* scheduled it for the step that is ending, which is reported as a        *)
(* scheduler error, or if it is a start-of-time event asked for when the   *)
(* step had already started.                                               *)
LossExplained ==
  \A e \in lost :
    e.delay = 0 /\ (e.region = "start" \/ (e.ro /\ sched_error))

(* Once a finish is requested, by a task, at the prompt or by a signal, no *)
(* later time step is entered any more, although schedule_simulate makes   *)
(* the simulation runnable again for the final events.                     *)
FinishFreezesTime ==
  [][finished => schedule_time' = schedule_time]_vars

(* The loop has passed the test of schedule_stopped_flag at its head and   *)
(* has not yet come to an event.                                           *)
Entering == {"nextsim", "start", "select"}

(* The events that were taken from the active queue. *)
FromActive == {b \in asked.begun : b.in = "loop"}

(* While a stop waits to be served, asked for by a task, a signal or a     *)
(* single step, the time does not change and no event of the queue is      *)
(* begun.  Two exceptions, as schedule_simulate looks for the request at   *)
(* the head of its loop only.  If it comes while a time step is entered,   *)
(* the callbacks of the start of the step still run, and one event or else *)
(* the read-only callbacks of the step.  If it comes while these run, the  *)
(* others of them still do.                                                *)
StopServedFirst ==
  schedule_stopped_flag =>
    /\ schedule_time = asked.time
    /\ asked.phase \notin Entering \cup {"rosync"} => asked.begun = {}
    /\ asked.phase = "rosync" => \A b \in asked.begun : b.in = "rosync"
    /\ \A b, c \in FromActive : b = c
    /\ FromActive # {} => \A b \in asked.begun : b.in # "rosync"

(* The simulation ends when the events and the stop requests do. *)
Terminates == <>(phase = "done")

-----------------------------------------------------------------------------
(* The inductive invariant behind OnTime and NothingOverdue.               *)

(* The first cell's delay is relative to the simulation time. *)
HeadAt ==
  sched_list # << >> =>
    sched_list[1].at = schedule_time + sched_list[1].delay

(* Every other cell's delay is relative to the cell before it. *)
CellChain ==
  \A i \in 1..Len(sched_list) - 1 :
    /\ sched_list[i + 1].delay > 0
    /\ sched_list[i + 1].at = sched_list[i].at + sched_list[i + 1].delay

(* The cells are in the order of their times. *)
CellOrder ==
  \A i, j \in 1..Len(sched_list) : i < j => sched_list[i].at < sched_list[j].at

(* A cell only holds events that are due at its time. *)
AllDue(evs, t) == \A k \in 1..Len(evs) : evs[k].at = t /\ evs[k].region \in Queues

Due(c) == \A r \in Queues : AllDue(c.q[r], c.at)

EventsDue == \A i \in 1..Len(sched_list) : Due(sched_list[i])

(* The events outside of the cells keep out of OnTime. *)
ListRegions ==
  /\ \A k \in 1..Len(schedule_init_list) : schedule_init_list[k].region \in Lists
  /\ \A k \in 1..Len(schedule_final_list) : schedule_final_list[k].region \in Lists

(* What is left of the delay is relative to the cell before ctim. *)
SearchOk ==
  call # NoCall =>
    /\ call.ev.region \in Queues
    /\ call.ctim \in 1..Len(sched_list)
    /\ sched_list[call.ctim].at - sched_list[call.ctim].delay + call.delay = call.ev.at
    /\ call.ctim = 1 => sched_list[1].delay <= call.delay
    /\ call.ctim > 1 => call.delay > 0

(* While a time step is under way its cell is the first of the list. *)
InCurrentCell ==
  phase \in {"nextsim", "start", "select", "rosync"} \/ (phase = "loop" /\ running # NoEvent) =>
    sched_list # << >> /\ sched_list[1].delay = 0

(* Until the final events, a finish leaves the simulation not runnable. *)
FinishSticks == finished /\ phase \notin {"final", "done"} => ~ schedule_runnable

(* The inductive invariant behind StopServedFirst: until the request is    *)
(* served the loop does not come past its head again, and what it had      *)
(* passed when the request came bounds what it can still do.               *)
StopInv ==
  /\ asked \in Stop
  /\ StopServedFirst
  /\ schedule_stopped_flag =>
       /\ asked.phase \notin Entering \cup {"rosync"} => phase \notin Entering \cup {"rosync"}
       /\ asked.phase = "rosync" => phase \notin Entering
       /\ phase \in Entering => \A b \in asked.begun : b.in = "start"
       /\ phase = "rosync" => FromActive = {}

(* The invariant of the times. *)
IInv ==
  TypeOK /\ HeadAt /\ CellChain /\ CellOrder /\ EventsDue /\ ListRegions
  /\ SearchOk /\ InCurrentCell /\ OnTime

-----------------------------------------------------------------------------
(* The inductive invariant behind RunsInOrder, Stratified, PushedRunFirst  *)
(* and LossExplained: the order of the events inside of a cell.            *)

(* The regions that become the active queue when their turn comes. *)
Promoted == {"inactive", "nbassign", "rwsync"}

(* A queue holds the events of its region, the active one also what is     *)
(* left of a region that became active.  Pushed events are in front, the   *)
(* last one first, and the others follow in the order of the calls.        *)
QueueOrder(q) ==
  \A r \in Queues : \A k \in 1..Len(q[r]) :
    /\ q[r][k].region = r \/ (r = "active" /\ q[r][k].region \in Promoted)
    /\ q[r][k].push => q[r][k].region = "active"
    /\ \A j \in 1..Len(q[r]) : j < k =>
         IF q[r][k].push THEN q[r][j].push /\ q[r][j].id > q[r][k].id
         ELSE q[r][j].push \/ q[r][j].id < q[r][k].id

(* What is left of a region in the active queue is older than all that has *)
(* come since for this region and the ones before it.                      *)
ActiveOrder(q) ==
  \A k \in 1..Len(q["active"]) :
    LET e == q["active"][k]
    IN  e.region # "active" =>
          /\ \A j \in 1..Len(q["active"]) :
               \/ q["active"][j].region = e.region
               \/ q["active"][j].region = "active" /\ q["active"][j].id > e.id
          /\ \A r \in Promoted : Rank[r] <= Rank[e.region] =>
               \A j \in 1..Len(q[r]) : q[r][j].id > e.id

CellsOrdered ==
  \A i \in 1..Len(sched_list) : QueueOrder(sched_list[i].q) /\ ActiveOrder(sched_list[i].q)

(* The number of events that have reached their queue. *)
Placed == IF call = NoCall THEN nsched ELSE nsched - 1

AllUpTo(evs, m) == \A k \in 1..Len(evs) : evs[k].id <= m

(* Events are numbered in the order of the calls, the one that is being    *)
(* placed last.                                                            *)
Numbered ==
  /\ \A i \in 1..Len(sched_list) : \A r \in Queues : AllUpTo(sched_list[i].q[r], Placed)
  /\ running # NoEvent /\ running.region \in Queues => running.id <= Placed
  /\ call # NoCall => /\ call.ev.id = nsched /\ ~ call.ev.push
                      /\ call.ev.at = schedule_time + call.ev.delay
                      /\ call.ev.ro = (phase = "rosync")

(* During run_rosync the read-write queues of the current cell hold only   *)
(* what its callbacks have scheduled.                                      *)
RosyncOnly ==
  /\ running # NoEvent /\ running.region = "rosync" => phase = "rosync"
  /\ phase = "rosync" => \A r \in {"active"} \cup Promoted :
       \A k \in 1..Len(sched_list[1].q[r]) :
         sched_list[1].q[r][k].ro /\ sched_list[1].q[r][k].delay = 0

(* Once the start-of-time events have been run, or at a time that is not   *)
(* begun by an advance, those of the current cell came for this very time. *)
StartsLate ==
  sched_list # << >> /\ sched_list[1].delay = 0 /\ phase \notin {"nextsim", "start"} =>
    \A k \in 1..Len(sched_list[1].q["start"]) : sched_list[1].q["start"][k].delay = 0

OrderInv ==
  CellsOrdered /\ Numbered /\ RosyncOnly /\ StartsLate
  /\ RunsInOrder /\ Stratified /\ LossExplained

FullInv == IInv /\ OrderInv

=============================================================================
