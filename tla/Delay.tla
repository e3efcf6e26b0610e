------------------------------- MODULE Delay -------------------------------
(***************************************************************************)
(* The delay of a net or of a gate: vvp_delay_t and vvp_fun_delay of       *)
(* vvp/delay.cc.  The functor receives values on port 0 and sends each one *)
(* on after its delay, unless another value comes first; ports 1 to 3      *)
(* change the delays.  It keeps the values to come in list_ and asks the   *)
(* scheduler for one call of run_run per value.  A value that is cancelled *)
(* leaves list_, but its event stays with the scheduler and must then do   *)
(* nothing.                                                                *)
(*                                                                         *)
(* The scheduler is kept as the number of events of this functor at each   *)
(* time; within a time step they run in any order with the inputs.         *)
(***************************************************************************)
EXTENDS Integers, Sequences, SequencesExt

CONSTANTS
  Width,      (* the width of the vector *)
  InBits,     (* the bits of the values received, a subset of Bit4 *)
  Strengths,  (* drive strengths of vvp_vector8_t values *)
  Strong,     (* the strength of the initial value *)
  DelayVals,  (* the delays *)
  Types,      (* the kinds of values: VEC4, VEC8, REAL *)
  Times,      (* the simulation times *)
  MaxRecv     (* bound on the values received *)

Bit4 == {"0", "1", "X", "Z"}

ASSUME DelayAssumption ==
  /\ Width \in Nat \ {0} /\ InBits \subseteq Bit4 /\ Strong \in Strengths
  /\ DelayVals \subseteq Nat /\ Times \subseteq Nat /\ 0 \in Times
  /\ Types \subseteq {"VEC4", "VEC8", "REAL"} /\ MaxRecv \in Nat

VARIABLES
  type_,      \* the kind of values
  fixed,      \* the delays are constants: ports 1 to 3 are not connected
  delay_,     \* vvp_delay_t
  initial_,   \* no value has been sent yet
  cur_,       \* cur_vec4_, cur_vec8_ or cur_real_: the value of the output
  list_,      \* the values to come, oldest first
  now,        \* schedule_simtime()
  events,     \* per time, the events schedule_generic has for this functor
  recvs,      \* the values received so far
  in,         \* history: the last value received
  changed,    \* history: when the input took that value
  delayThen,  \* history: the delays at that time
  raced       \* history: a value came while an older one was due

vars == <<type_, fixed, delay_, initial_, cur_, list_, now, events, recvs, in, changed, delayThen, raced>>

(* A real is a value of two-state bits, for its identity only. *)
Value == [bits: [1..Width -> Bit4], strength: Strengths]
vvp_delay_t == [rise: Nat, fall: Nat, decay: Nat, min: Nat, ignore: BOOLEAN]
event_ == [time: Nat, val: Value]

-----------------------------------------------------------------------------
(* vvp_delay_t *)

Min2(a, b) == IF b < a THEN b ELSE a
Max2(a, b) == IF b > a THEN b ELSE a

calculate_min_delay_(d) ==
  LET m == Min2(d.rise, d.fall)
  IN  IF d.ignore THEN [d EXCEPT !.decay = m, !.min = m]
      ELSE [d EXCEPT !.min = Min2(m, d.decay)]

(* The delays a functor starts with: two or three constants, or zeros to   *)
(* be set on the ports, where the decay may follow the other two.          *)
TwoDelays(r, f) == [rise |-> r, fall |-> f, decay |-> Min2(r, f), min |-> Min2(r, f), ignore |-> FALSE]
ThreeDelays(r, f, z) ==
  calculate_min_delay_([rise |-> r, fall |-> f, decay |-> z, min |-> 0, ignore |-> FALSE])
set_ignore_decay(d) == calculate_min_delay_([d EXCEPT !.ignore = TRUE])

InitialDelays(constant) ==
  IF constant
  THEN {TwoDelays(r, f) : r \in DelayVals, f \in DelayVals}
         \cup {ThreeDelays(r, f, z) : r \in DelayVals, f \in DelayVals, z \in DelayVals}
  ELSE {ThreeDelays(0, 0, 0), set_ignore_decay(ThreeDelays(0, 0, 0))}

(* Mutant: the smallest delay only ever falls. *)
set_delay_Falls(d, k, val) ==
  [d EXCEPT ![k] = val, !.min = Min2(d.min, val), !.decay = IF d.ignore THEN Min2(d.min, val) ELSE @]

(* set_rise, set_fall and set_decay: the smallest delay is kept up to date *)
(* at once, or computed again when it may have grown.                      *)
set_delay(d, k, val) ==
  LET e == [d EXCEPT ![k] = val]
  IN  IF val < d.min
      THEN [e EXCEPT !.min = val, !.decay = IF d.ignore THEN val ELSE @]
      ELSE calculate_min_delay_(e)

(* Which of the delays get_delay takes for a change of a bit. *)
Kind(from, to) ==
  CASE from = to -> "none"
    [] from # to /\ to = "1" -> "rise"
    [] from # to /\ to = "0" -> "fall"
    [] from # to /\ to = "Z" -> "decay"
    [] from # to /\ to = "X" -> "min"

(* The longest delay of the bits that change. *)
get_delay(d, from, to) ==
  LET of(k) == IF \E i \in 1..Width : Kind(from[i], to[i]) = k THEN d[k] ELSE 0
  IN  Max2(Max2(of("rise"), of("fall")), Max2(of("decay"), of("min")))

-----------------------------------------------------------------------------
(* vvp_fun_delay *)

Initial(t) == [bits |-> [i \in 1..Width |-> IF t = "REAL" THEN "0" ELSE "X"], strength |-> Strong]

Inputs(t) ==
  [bits: [1..Width -> IF t = "REAL" THEN InBits \cap {"0", "1"} ELSE InBits],
   strength: IF t = "VEC8" THEN Strengths ELSE {Strong}]

(* Mutant: an event of the scheduler always stands for the oldest value. *)
Due_Always == list_ # << >>

(* The oldest value is due. *)
Due == list_ # << >> /\ Head(list_).time <= now

(* The value the delay is computed from: the output, or what it is about   *)
(* to become at this very time; before the first value, one bit stands for *)
(* all.                                                                    *)
Reference ==
  IF initial_ THEN [i \in 1..Width |-> cur_.bits[1]]
  ELSE IF list_ # << >> /\ Head(list_).time = now THEN Head(list_).val.bits
  ELSE cur_.bits

use_delay(v) ==
  IF type_ = "REAL" THEN delay_.min ELSE get_delay(delay_, Reference, v.bits)

(* The events that are not due yet are cancelled, from the oldest on, up   *)
(* to the first that is due.                                               *)
clean_pulse_events_(list) ==
  LET due == {i \in DOMAIN list : list[i].time <= now}
  IN  IF due = {} THEN << >>
      ELSE SubSeq(list, CHOOSE i \in due : \A j \in due : i <= j, Len(list))

(* Mutant: vectors are compared too, but without their strengths. *)
Unchanged_Bits(v) == cur_.bits = v.bits

(* recv_real ignores the value of the output; the others send it again. *)
Unchanged(v) == type_ = "REAL" /\ cur_ = v

(* A value comes on port 0 (recv_vec4, recv_vec8, recv_real). *)
recv(v) ==
  LET same == list_ # << >> /\ Head(list_).val = v
      list == clean_pulse_events_(list_)
      d == use_delay(v)
  IN  /\ recvs < MaxRecv
      /\ now + d \in Times
      /\ recvs' = recvs + 1
      /\ in' = v
      /\ raced' = (raced \/ (list_ # << >> /\ Head(list_).time <= now))
      /\ IF v = in THEN UNCHANGED <<changed, delayThen>>
                   ELSE changed' = now /\ delayThen' = delay_
      /\ \/ /\ same
            /\ UNCHANGED <<cur_, initial_, list_, events>>
         \/ /\ ~ same /\ Unchanged(v)
            /\ list_' = list
            /\ UNCHANGED <<cur_, initial_, events>>
         \/ /\ ~ same /\ ~ Unchanged(v)
            /\ d = 0 /\ list = << >>
            /\ cur_' = v /\ initial_' = FALSE /\ list_' = list
            /\ UNCHANGED events
         \/ /\ ~ same /\ ~ Unchanged(v)
            /\ ~ (d = 0 /\ list = << >>)
            /\ list_' = Append(list, [time |-> now + d, val |-> v])
            /\ events' = [events EXCEPT ![now + d] = @ + 1]
            /\ UNCHANGED <<cur_, initial_>>
      /\ UNCHANGED <<type_, fixed, delay_, now>>

(* A delay comes on port 1, 2 or 3. *)
recv_delay(k, val) ==
  /\ recvs < MaxRecv
  /\ ~ fixed
  /\ k = "decay" => ~ delay_.ignore
  /\ delay_' = set_delay(delay_, k, val)
  /\ recvs' = recvs + 1
  /\ UNCHANGED <<type_, fixed, initial_, cur_, list_, now, events, in, changed, delayThen, raced>>

(* The scheduler calls the functor. *)
run_run ==
  /\ events[now] > 0
  /\ events' = [events EXCEPT ![now] = @ - 1]
  /\ \/ /\ Due
        /\ cur_' = Head(list_).val /\ initial_' = FALSE /\ list_' = Tail(list_)
     \/ /\ ~ Due
        /\ UNCHANGED <<cur_, initial_, list_>>
  /\ UNCHANGED <<type_, fixed, delay_, now, recvs, in, changed, delayThen, raced>>

(* Time advances once the time step is over. *)
advance_time ==
  /\ events[now] = 0
  /\ now + 1 \in Times
  /\ now' = now + 1
  /\ UNCHANGED <<type_, fixed, delay_, initial_, cur_, list_, events, recvs, in, changed, delayThen, raced>>

Init ==
  /\ type_ \in Types /\ fixed \in BOOLEAN /\ delay_ \in InitialDelays(fixed)
  /\ initial_ = TRUE /\ cur_ = Initial(type_) /\ list_ = << >>
  /\ now = 0 /\ events = [t \in Times |-> 0] /\ recvs = 0
  /\ in = cur_ /\ changed = 0 /\ delayThen = delay_
  /\ raced = FALSE

Next ==
  \/ \E v \in Inputs(type_) : recv(v)
  \/ \E k \in {"rise", "fall", "decay"}, val \in DelayVals : recv_delay(k, val)
  \/ run_run
  \/ advance_time

Spec == Init /\ [][Next]_vars

-----------------------------------------------------------------------------
TypeOK ==
  /\ type_ \in Types /\ fixed \in BOOLEAN /\ delay_ \in vvp_delay_t /\ delayThen \in vvp_delay_t
  /\ initial_ \in BOOLEAN /\ cur_ \in Value /\ in \in Value
  /\ list_ \in Seq(event_) /\ now \in Times /\ changed \in Nat
  /\ events \in [Times -> Nat] /\ recvs \in 0..MaxRecv /\ raced \in BOOLEAN

(* The cached smallest delay is the smallest one, in whatever order the    *)
(* delays are set; where the decay is not given it is the smallest too.    *)
MinDelayRight ==
  /\ delay_.min = Min2(Min2(delay_.rise, delay_.fall), delay_.decay)
  /\ delay_.ignore => delay_.decay = Min2(delay_.rise, delay_.fall)

(* No value is lost and no cancelled one survives: a value that is still   *)
(* to come has an event at its time, and when no event is left the output  *)
(* is what was last received.  This and OnTime hold until a value comes in *)
(* the time step in which an older one is due, and before it is sent.      *)
Settled ==
  ~ raced =>
    /\ \A i \in DOMAIN list_ : list_[i].time \in Times /\ events[list_[i].time] > 0
    /\ (\A t \in Times : events[t] = 0) => cur_ = in

(* The delay is inertial and exact: the output changes only to the value   *)
(* the input has, and exactly the delay of that change after the input     *)
(* took it, by the delays of that time.  A pulse shorter than its delay is *)
(* not seen, nor does the event of a cancelled value cut a delay short.    *)
OnTime ==
  [][(cur_' # cur_ /\ ~ raced') =>
       /\ cur_' = in'
       /\ now = changed' + IF type_ = "REAL" THEN delayThen'.min
                           ELSE get_delay(delayThen', cur_.bits, cur_'.bits)]_vars

(* What makes Settled and OnTime inductive.  Until a value races with a    *)
(* due one, at most one value is to come: that of the input, at the time   *)
(* its change asks for, which is not past and has an event.                *)
Asked(d, v) == IF type_ = "REAL" THEN d.min ELSE get_delay(d, cur_.bits, v.bits)

AwaitsInput ==
  /\ Head(list_).val = in
  /\ Head(list_).time \in Times /\ Head(list_).time >= now
  /\ events[Head(list_).time] > 0
  /\ Head(list_).time = changed + Asked(delayThen, in)

IInv ==
  /\ TypeOK /\ MinDelayRight
  /\ initial_ => cur_ = Initial(type_)
  /\ ~ raced => \/ list_ = << >> /\ cur_ = in
                \/ Len(list_) = 1 /\ AwaitsInput

(* What clean_pulse_events_ says of the value it skips: the most recent    *)
(* event of the list always is for the last value received.                *)
NewestIsInput == list_ # << >> => Last(list_).val = in

=============================================================================
