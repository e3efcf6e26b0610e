---------------------------- MODULE DelayProofs ----------------------------
(***************************************************************************)
(* Proofs about Delay, for vectors of any width, any delays and any        *)
(* number of values received.                                              *)
(***************************************************************************)
EXTENDS Delay, SequenceTheorems, WellFoundedInduction, TLAPS

-----------------------------------------------------------------------------
(* vvp_delay_t *)

(* The shape of MinDelayRight, for any delays. *)
MinRight(d) ==
  /\ d.min = Min2(Min2(d.rise, d.fall), d.decay)
  /\ d.ignore => d.decay = Min2(d.rise, d.fall)

LEMMA CalculateMinRight ==
  ASSUME NEW d \in vvp_delay_t
  PROVE  calculate_min_delay_(d) \in vvp_delay_t /\ MinRight(calculate_min_delay_(d))
<1> DEFINE m == Min2(d.rise, d.fall)
<1>1. /\ d.rise \in Nat /\ d.fall \in Nat /\ d.decay \in Nat /\ d.min \in Nat
      /\ d.ignore \in BOOLEAN
      /\ d = [rise |-> d.rise, fall |-> d.fall, decay |-> d.decay, min |-> d.min, ignore |-> d.ignore]
  BY DEF vvp_delay_t
<1>2. m \in Nat /\ Min2(m, d.decay) \in Nat /\ Min2(m, m) = m
  BY <1>1 DEF Min2
<1>3. CASE d.ignore
  <2> DEFINE x == [d EXCEPT !.decay = m]
  <2>1. calculate_min_delay_(d) = [x EXCEPT !.min = m]
    BY <1>3, Zenon DEF calculate_min_delay_
  <2>2. x = [rise |-> d.rise, fall |-> d.fall, decay |-> m, min |-> d.min, ignore |-> d.ignore]
    BY <1>1
  <2> HIDE DEF x
  <2>5. [x EXCEPT !.min = m]
          = [rise |-> d.rise, fall |-> d.fall, decay |-> m, min |-> m, ignore |-> d.ignore]
    BY <2>2
  <2> DEFINE r == calculate_min_delay_(d)
  <2>3. /\ r.rise = d.rise /\ r.fall = d.fall /\ r.decay = m /\ r.min = m /\ r \in vvp_delay_t
    BY <2>1, <2>5, <1>1, <1>2 DEF vvp_delay_t
  <2>4. QED
    BY <2>3, <1>2 DEF MinRight
<1>4. CASE ~ d.ignore
  <2>1. calculate_min_delay_(d) = [d EXCEPT !.min = Min2(m, d.decay)]
    BY <1>4 DEF calculate_min_delay_
  <2>2. [d EXCEPT !.min = Min2(m, d.decay)]
          = [rise |-> d.rise, fall |-> d.fall, decay |-> d.decay, min |-> Min2(m, d.decay),
             ignore |-> d.ignore]
    BY <1>1
  <2>3. QED
    BY <2>1, <2>2, <1>1, <1>2, <1>4 DEF MinRight, vvp_delay_t
<1>5. QED
  BY <1>3, <1>4

(* A delay that is set keeps the cached smallest one right. *)
LEMMA SetDelayRight ==
  ASSUME NEW d \in vvp_delay_t, MinRight(d), NEW val \in Nat,
         NEW k \in {"rise", "fall", "decay"}, k = "decay" => ~ d.ignore
  PROVE  set_delay(d, k, val) \in vvp_delay_t /\ MinRight(set_delay(d, k, val))
<1> DEFINE e == [d EXCEPT ![k] = val]
<1>1. /\ d.rise \in Nat /\ d.fall \in Nat /\ d.decay \in Nat /\ d.min \in Nat
      /\ d.ignore \in BOOLEAN
      /\ d = [rise |-> d.rise, fall |-> d.fall, decay |-> d.decay, min |-> d.min, ignore |-> d.ignore]
  BY DEF vvp_delay_t
<1>2. e = [rise |-> IF k = "rise" THEN val ELSE d.rise, fall |-> IF k = "fall" THEN val ELSE d.fall,
           decay |-> IF k = "decay" THEN val ELSE d.decay, min |-> d.min, ignore |-> d.ignore]
  <2>1. CASE k = "rise"
    <3>1. e = [d EXCEPT !.rise = val]
      BY <2>1
    <3>2. [d EXCEPT !.rise = val]
            = [rise |-> val, fall |-> d.fall, decay |-> d.decay,
               min |-> d.min, ignore |-> d.ignore]
      BY <1>1
    <3>3. QED
      BY <2>1, <3>1, <3>2
  <2>2. CASE k = "fall"
    <3>1. e = [d EXCEPT !.fall = val]
      BY <2>2
    <3>2. [d EXCEPT !.fall = val]
            = [rise |-> d.rise, fall |-> val, decay |-> d.decay,
               min |-> d.min, ignore |-> d.ignore]
      BY <1>1
    <3>3. QED
      BY <2>2, <3>1, <3>2
  <2>3. CASE k = "decay"
    <3>1. e = [d EXCEPT !.decay = val]
      BY <2>3
    <3>2. [d EXCEPT !.decay = val]
            = [rise |-> d.rise, fall |-> d.fall, decay |-> val,
               min |-> d.min, ignore |-> d.ignore]
      BY <1>1
    <3>3. QED
      BY <2>3, <3>1, <3>2
  <2>4. QED
    BY <2>1, <2>2, <2>3
<1>3. e \in vvp_delay_t
  BY <1>1, <1>2 DEF vvp_delay_t
<1> HIDE DEF e
<1>4. CASE val < d.min
  <2> DEFINE y == IF d.ignore THEN val ELSE e.decay
             g == [e EXCEPT !.min = val]
             f == [g EXCEPT !.decay = y]
  <2>1. set_delay(d, k, val) = f
    BY <1>4, Zenon DEF set_delay, e
  <2>9. g = [rise |-> e.rise, fall |-> e.fall, decay |-> e.decay, min |-> val, ignore |-> e.ignore]
    BY <1>2, <1>1
  <2> HIDE DEF g
  <2>2. f = [rise |-> e.rise, fall |-> e.fall, decay |-> y, min |-> val, ignore |-> e.ignore]
    BY <2>9
  <2> HIDE DEF f
  <2>3. /\ f.rise = e.rise /\ f.fall = e.fall /\ f.min = val /\ f.ignore = d.ignore
        /\ f.decay = IF d.ignore THEN val ELSE e.decay
    BY <1>2, <2>2
  <2>4. /\ e.rise = IF k = "rise" THEN val ELSE d.rise
        /\ e.fall = IF k = "fall" THEN val ELSE d.fall
        /\ e.decay = IF k = "decay" THEN val ELSE d.decay
    BY <1>2
  <2>5. val < d.rise /\ val < d.fall /\ val < d.decay
    BY <1>1, <1>4 DEF MinRight, Min2
  <2>6. MinRight(f)
    BY <2>3, <2>4, <2>5, <1>1 DEF MinRight, Min2
  <2>7. f \in vvp_delay_t
    BY <2>2, <1>1, <1>2 DEF vvp_delay_t
  <2>8. QED
    BY <2>1, <2>6, <2>7
<1>5. CASE ~ (val < d.min)
  <2>1. set_delay(d, k, val) = calculate_min_delay_(e)
    BY <1>5 DEF set_delay, e
  <2>2. QED
    BY <2>1, <1>3, CalculateMinRight
<1>6. QED
  BY <1>4, <1>5

(* The delays a functor starts with are right. *)
LEMMA InitialDelaysRight ==
  ASSUME NEW c, NEW d \in InitialDelays(c)
  PROVE  d \in vvp_delay_t /\ MinRight(d)
<1>1. \A r, f, z \in Nat : ThreeDelays(r, f, z) \in vvp_delay_t /\ MinRight(ThreeDelays(r, f, z))
  <2> TAKE r, f, z \in Nat
  <2>1. [rise |-> r, fall |-> f, decay |-> z, min |-> 0, ignore |-> FALSE] \in vvp_delay_t
    BY DEF vvp_delay_t
  <2>2. QED
    BY <2>1, CalculateMinRight DEF ThreeDelays
<1>2. \A r, f \in Nat : TwoDelays(r, f) \in vvp_delay_t /\ MinRight(TwoDelays(r, f))
  BY DEF TwoDelays, MinRight, Min2, vvp_delay_t
<1>3. \A e \in vvp_delay_t : set_ignore_decay(e) \in vvp_delay_t /\ MinRight(set_ignore_decay(e))
  <2> TAKE e \in vvp_delay_t
  <2>1. [e EXCEPT !.ignore = TRUE] \in vvp_delay_t
    BY DEF vvp_delay_t
  <2>2. QED
    BY <2>1, CalculateMinRight DEF set_ignore_decay
<1>4. CASE c
  <2>1. \/ \E r, f \in DelayVals : d = TwoDelays(r, f)
        \/ \E r, f, z \in DelayVals : d = ThreeDelays(r, f, z)
    BY <1>4 DEF InitialDelays
  <2>2. QED
    BY <2>1, <1>1, <1>2, DelayAssumption
<1>5. CASE ~ c
  <2>1. d = ThreeDelays(0, 0, 0) \/ d = set_ignore_decay(ThreeDelays(0, 0, 0))
    BY <1>5 DEF InitialDelays
  <2>2. QED
    BY <2>1, <1>1, <1>3
<1>6. QED
  BY <1>4, <1>5

(* A delay is a number, and a vector that does not change has none. *)
LEMMA GetDelayType ==
  ASSUME NEW d \in vvp_delay_t, NEW from, NEW to
  PROVE  get_delay(d, from, to) \in Nat
<1>1. d["rise"] \in Nat /\ d["fall"] \in Nat /\ d["decay"] \in Nat /\ d["min"] \in Nat
  BY DEF vvp_delay_t
<1>2. QED
  BY <1>1 DEF get_delay, Max2

LEMMA NoChangeNoDelay ==
  ASSUME NEW d, NEW b
  PROVE  get_delay(d, b, b) = 0
<1>1. \A i \in 1..Width : Kind(b[i], b[i]) = "none"
  BY DEF Kind
<1>2. QED
  BY <1>1 DEF get_delay, Max2

-----------------------------------------------------------------------------
(* The values and the list of values to come. *)

LEMMA InputsType ==
  ASSUME NEW t, NEW v \in Inputs(t)
  PROVE  v \in Value
  BY DelayAssumption DEF Inputs, Value

LEMMA InitialType ==
  ASSUME NEW t
  PROVE  Initial(t) \in Value
  BY DelayAssumption DEF Initial, Value, Bit4

(* A set of numbers has a smallest one. *)
LEMMA SmallestExists ==
  ASSUME NEW S \in SUBSET Nat, S # {}
  PROVE  \E n \in S : \A j \in S : n <= j
<1>1. PICK n \in S : \A j \in S : ~ (<<j, n>> \in OpToRel(<, Nat))
  BY NatLessThanWellFounded, WFMin, Zenon
<1>2. \A j \in S : ~ (j < n)
  BY <1>1 DEF OpToRel
<1>3. QED
  BY <1>2

(* Cancelling leaves a list of values. *)
LEMMA CleanType ==
  ASSUME NEW list \in Seq(event_)
  PROVE  clean_pulse_events_(list) \in Seq(event_)
<1> DEFINE due == {i \in DOMAIN list : list[i].time <= now}
<1>1. CASE due = {}
  BY <1>1 DEF clean_pulse_events_
<1>2. CASE due # {}
  <2> DEFINE i == CHOOSE i \in due : \A j \in due : i <= j
  <2>1. clean_pulse_events_(list) = SubSeq(list, i, Len(list))
    BY <1>2 DEF clean_pulse_events_
  <2>2. \E n \in due : \A j \in due : n <= j
    <3>2. due \subseteq Nat
      BY DEF due
    <3>3. QED
      BY <1>2, <3>2, SmallestExists
  <2>3. i \in due
    BY <2>2
  <2>4. i \in 1..Len(list)
    <3>1. i \in DOMAIN list
      BY <2>3
    <3>2. QED
      BY <3>1
  <2> HIDE DEF i
  <2>5. i \in 1..Len(list) + 1 /\ Len(list) \in i - 1 .. Len(list)
    BY <2>4
  <2>6. SubSeq(list, i, Len(list)) \in Seq(event_)
    BY <2>5, SubSeqProperties
  <2>7. QED
    BY <2>1, <2>6
<1>3. QED
  BY <1>1, <1>2

(* A list whose only value is not due is cancelled whole. *)
LEMMA CleanOne ==
  ASSUME NEW list \in Seq(event_), now \in Nat,
         list = << >> \/ (Len(list) = 1 /\ ~ (Head(list).time <= now))
  PROVE  clean_pulse_events_(list) = << >>
<1>1. {i \in DOMAIN list : list[i].time <= now} = {}
  OBVIOUS
<1>2. QED
  BY <1>1 DEF clean_pulse_events_

(* The delay that recv computes is the one the change asks for. *)
LEMMA UseDelayType ==
  ASSUME TypeOK, NEW v
  PROVE  use_delay(v) \in Nat
<1>1. delay_ \in vvp_delay_t
  BY DEF TypeOK
<1>2. delay_.min \in Nat
  BY <1>1 DEF vvp_delay_t
<1>3. QED
  BY <1>1, <1>2, GetDelayType DEF use_delay

LEMMA UseDelayAsked ==
  ASSUME IInv, NEW v, list_ = << >> \/ ~ (Head(list_).time <= now)
  PROVE  use_delay(v) = Asked(delay_, v)
<1>1. Reference = cur_.bits
  <2>1. cur_.bits \in [1..Width -> Bit4] /\ now \in Nat
    BY DelayAssumption DEF IInv, TypeOK, Value
  <2>2. CASE initial_
    <3>1. cur_.bits = [i \in 1..Width |-> IF type_ = "REAL" THEN "0" ELSE "X"]
      BY <2>2 DEF IInv, Initial
    <3>2. 1 \in 1..Width
      BY DelayAssumption
    <3>3. QED
      BY <2>2, <3>1, <3>2 DEF Reference
  <2>3. CASE ~ initial_
    <3>1. CASE list_ = << >>
      BY <2>3, <3>1 DEF Reference
    <3>2. CASE list_ # << >>
      <4>1. Head(list_).time \in Nat
        <5>1. Head(list_) \in event_
          BY <3>2 DEF IInv, TypeOK
        <5>2. QED
          BY <5>1 DEF event_
      <4>2. Head(list_).time # now
        BY <2>1, <3>2, <4>1
      <4>3. QED
        BY <2>3, <4>2 DEF Reference
    <3>3. QED
      BY <3>1, <3>2
  <2>4. QED
    BY <2>2, <2>3
<1>2. QED
  BY <1>1 DEF use_delay, Asked

-----------------------------------------------------------------------------
LEMMA InitIInv == Init => IInv
<1> SUFFICES ASSUME Init PROVE IInv
  OBVIOUS
<1>1. delay_ \in vvp_delay_t /\ MinRight(delay_)
  BY InitialDelaysRight DEF Init
<1>2. TypeOK
  <2>1. cur_ \in Value
    BY InitialType DEF Init
  <2>2. fixed \in BOOLEAN /\ initial_ \in BOOLEAN /\ raced \in BOOLEAN
    BY Zenon DEF Init
  <2>3. events \in [Times -> Nat] /\ list_ \in Seq(event_) /\ recvs \in 0..MaxRecv
    BY DelayAssumption DEF Init
  <2>4. QED
    BY <1>1, <2>1, <2>2, <2>3, DelayAssumption DEF Init, TypeOK
<1>3. QED
  BY <1>1, <1>2 DEF Init, IInv, MinDelayRight, MinRight

(* What recv does, with the delay named. *)
LEMMA RecvIInv ==
  ASSUME IInv, NEW v \in Inputs(type_), recv(v)
  PROVE  IInv'
<1> DEFINE list == clean_pulse_events_(list_)
           d == use_delay(v)
           e == [time |-> now + d, val |-> v]
           same == list_ # << >> /\ Head(list_).val = v
<1>1. TypeOK /\ MinDelayRight /\ v \in Value /\ now \in Nat /\ Times \subseteq Nat
  BY InputsType, DelayAssumption DEF IInv, TypeOK
<1>2. d \in Nat /\ now + d \in Times /\ list \in Seq(event_) /\ e \in event_
  <2>1. d \in Nat
    BY <1>1, UseDelayType
  <2>2. list \in Seq(event_)
    BY <1>1, CleanType DEF TypeOK
  <2>3. QED
    BY <1>1, <2>1, <2>2 DEF recv, event_
<1>3. /\ \/ same /\ UNCHANGED <<cur_, initial_, list_, events>>
         \/ ~ same /\ Unchanged(v) /\ list_' = list /\ UNCHANGED <<cur_, initial_, events>>
         \/ /\ ~ same /\ ~ Unchanged(v) /\ d = 0 /\ list = << >>
            /\ cur_' = v /\ initial_' = FALSE /\ list_' = list /\ UNCHANGED events
         \/ /\ ~ same /\ ~ Unchanged(v) /\ ~ (d = 0 /\ list = << >>)
            /\ list_' = Append(list, e)
            /\ events' = [events EXCEPT ![now + d] = @ + 1] /\ UNCHANGED <<cur_, initial_>>
      /\ in' = v /\ recvs' = recvs + 1 /\ recvs < MaxRecv
      /\ IF v = in THEN UNCHANGED <<changed, delayThen>> ELSE changed' = now /\ delayThen' = delay_
      /\ UNCHANGED <<type_, fixed, delay_, now>>
  BY DEF recv
<1>4. raced' \in BOOLEAN /\ (raced' <=> (raced \/ (list_ # << >> /\ Head(list_).time <= now)))
  BY Zenon DEF recv
<1> HIDE DEF list, d, e, same
<1>5. TypeOK'
  <2>1. list_' \in Seq(event_)
    <3>1. Append(list, e) \in Seq(event_)
      BY <1>2
    <3>2. list_ \in Seq(event_)
      BY <1>1 DEF TypeOK
    <3>3. QED
      BY <1>2, <1>3, <3>1, <3>2
  <2>2. events' \in [Times -> Nat]
    <3>1. events \in [Times -> Nat]
      BY <1>1 DEF TypeOK
    <3>2. QED
      BY <1>2, <1>3, <3>1
  <2>3. cur_' \in Value /\ in' \in Value
    BY <1>1, <1>3 DEF TypeOK
  <2>4. initial_' \in BOOLEAN
    BY <1>1, <1>3, Zenon DEF TypeOK
  <2>5. recvs' \in 0..MaxRecv
    BY <1>1, <1>3, DelayAssumption DEF TypeOK
  <2>6. changed' \in Nat /\ delayThen' \in vvp_delay_t
    BY <1>1, <1>3 DEF TypeOK
  <2>7. type_' \in Types /\ fixed' \in BOOLEAN /\ delay_' \in vvp_delay_t /\ now' \in Times
    BY <1>1, <1>3, Zenon DEF TypeOK
  <2>8. QED
    BY <1>4, <2>1, <2>2, <2>3, <2>4, <2>5, <2>6, <2>7 DEF TypeOK
<1>6. MinDelayRight'
  BY <1>1, <1>3 DEF MinDelayRight
<1>7. initial_' => cur_' = Initial(type_')
  BY <1>3 DEF IInv
<1>8. ASSUME ~ raced'
      PROVE  \/ list_' = << >> /\ cur_' = in'
             \/ Len(list_') = 1 /\ AwaitsInput'
  <2>1. /\ ~ raced
        /\ list_ = << >> \/ ~ (Head(list_).time <= now)
    BY <1>4, <1>8
  <2>2. \/ list_ = << >> /\ cur_ = in
        \/ Len(list_) = 1 /\ AwaitsInput
    BY <2>1 DEF IInv
  <2>3. list = << >>
    BY <2>1, <2>2, <1>1, CleanOne DEF TypeOK, list
  <2>4. d = Asked(delay_, v)
    BY <2>1, UseDelayAsked DEF d
  <2>5. CASE v = in
    <3>1. CASE list_ = << >>
      <4>1. cur_ = v
        BY <2>2, <2>5, <3>1
      <4>2. Unchanged(v) \/ d = 0
        BY <2>4, <4>1, NoChangeNoDelay DEF Unchanged, Asked
      <4>3. list_' = << >> /\ cur_' = v
        BY <1>3, <2>3, <3>1, <4>1, <4>2 DEF same
      <4>4. QED
        BY <1>3, <4>3
    <3>2. CASE list_ # << >>
      <4>1. Len(list_) = 1 /\ AwaitsInput
        BY <2>2, <3>2
      <4>2. same
        BY <2>5, <3>2, <4>1 DEF same, AwaitsInput
      <4>3. /\ UNCHANGED <<cur_, list_, events, in, changed, delayThen, type_, now>>
        BY <1>3, <2>5, <4>2
      <4>4. QED
        BY <4>1, <4>3 DEF AwaitsInput, Asked
    <3>3. QED
      BY <3>1, <3>2
  <2>6. CASE v # in
    <3>1. ~ same
      BY <2>2, <2>6 DEF same, AwaitsInput
    <3>2. changed' = now /\ delayThen' = delay_
      BY <1>3, <2>6
    <3>3. CASE Unchanged(v)
      BY <1>3, <2>3, <3>1, <3>3 DEF Unchanged
    <3>4. CASE ~ Unchanged(v) /\ d = 0
      BY <1>3, <2>3, <3>1, <3>4
    <3>5. CASE ~ Unchanged(v) /\ d # 0
      <4>1. /\ list_' = Append(<< >>, e) /\ UNCHANGED <<cur_, type_, now>>
            /\ events' = [events EXCEPT ![now + d] = @ + 1] /\ in' = v
        BY <1>3, <2>3, <3>1, <3>5
      <4>2. Len(list_') = 1 /\ Head(list_') = e
        BY <4>1
      <4>3. e.val = v /\ e.time = now + d
        BY DEF e
      <4>4. events'[now + d] > 0
        BY <1>1, <1>2, <4>1 DEF TypeOK
      <4>5. Asked(delay_, v)' = d /\ Asked(delayThen, in)' = Asked(delay_, v)'
        BY <2>4, <3>2, <4>1, <1>3 DEF Asked
      <4>6. now + d >= now
        BY <1>1, <1>2
      <4>7. QED
        BY <4>1, <4>2, <4>3, <4>4, <4>5, <4>6, <3>2, <1>2 DEF AwaitsInput
    <3>6. QED
      BY <3>3, <3>4, <3>5
  <2>7. QED
    BY <2>5, <2>6
<1>9. QED
  BY <1>5, <1>6, <1>7, <1>8 DEF IInv

LEMMA RecvDelayIInv ==
  ASSUME IInv, NEW k \in {"rise", "fall", "decay"}, NEW val \in DelayVals, recv_delay(k, val)
  PROVE  IInv'
<1>1. /\ delay_' = set_delay(delay_, k, val) /\ recvs' = recvs + 1 /\ recvs < MaxRecv
      /\ k = "decay" => ~ delay_.ignore
      /\ UNCHANGED <<type_, fixed, initial_, cur_, list_, now, events, in, changed, delayThen, raced>>
  BY DEF recv_delay
<1>2. delay_' \in vvp_delay_t /\ MinRight(delay_')
  <2>1. delay_ \in vvp_delay_t /\ MinRight(delay_) /\ val \in Nat
    BY DelayAssumption DEF IInv, TypeOK, MinDelayRight, MinRight
  <2>2. QED
    BY <1>1, <2>1, SetDelayRight
<1>3. TypeOK'
  <2>1. recvs' \in 0..MaxRecv
    BY <1>1, DelayAssumption DEF IInv, TypeOK
  <2>2. QED
    BY <1>1, <1>2, <2>1, Zenon DEF IInv, TypeOK
<1>4. MinDelayRight'
  BY <1>2 DEF MinDelayRight, MinRight
<1>5. (AwaitsInput => AwaitsInput') /\ (raced' <=> raced)
  BY <1>1 DEF AwaitsInput, Asked
<1>6. QED
  BY <1>1, <1>3, <1>4, <1>5 DEF IInv

LEMMA RunIInv ==
  ASSUME IInv, run_run
  PROVE  IInv'
<1>1. /\ events[now] > 0 /\ events' = [events EXCEPT ![now] = @ - 1]
      /\ \/ Due /\ cur_' = Head(list_).val /\ initial_' = FALSE /\ list_' = Tail(list_)
         \/ ~ Due /\ UNCHANGED <<cur_, initial_, list_>>
      /\ UNCHANGED <<type_, fixed, delay_, now, recvs, in, changed, delayThen, raced>>
  BY DEF run_run
<1>2. TypeOK /\ MinDelayRight /\ now \in Times /\ now \in Nat /\ Times \subseteq Nat
  BY DelayAssumption DEF IInv, TypeOK
<1>3. TypeOK'
  <2>1. events' \in [Times -> Nat]
    BY <1>1, <1>2 DEF TypeOK
  <2>2. list_' \in Seq(event_) /\ cur_' \in Value
    <3>1. CASE Due
      <4>1. list_ # << >> /\ list_ \in Seq(event_)
        BY <1>2, <3>1 DEF Due, TypeOK
      <4>2. Head(list_) \in event_ /\ Tail(list_) \in Seq(event_)
        BY <4>1
      <4>3. QED
        BY <1>1, <3>1, <4>2 DEF event_
    <3>2. CASE ~ Due
      BY <1>1, <1>2, <3>2 DEF TypeOK
    <3>3. QED
      BY <3>1, <3>2
  <2>3. initial_' \in BOOLEAN
    BY <1>1, <1>2, Zenon DEF TypeOK
  <2>4. QED
    BY <1>1, <1>2, <2>1, <2>2, <2>3, Zenon DEF TypeOK
<1>4. MinDelayRight'
  BY <1>1, <1>2 DEF MinDelayRight
<1>5. initial_' => cur_' = Initial(type_')
  BY <1>1 DEF IInv
<1>6. ASSUME ~ raced'
      PROVE  \/ list_' = << >> /\ cur_' = in'
             \/ Len(list_') = 1 /\ AwaitsInput'
  <2>1. \/ list_ = << >> /\ cur_ = in
        \/ Len(list_) = 1 /\ AwaitsInput
    BY <1>1, <1>6 DEF IInv
  <2>2. CASE list_ = << >>
    BY <1>1, <2>1, <2>2 DEF Due
  <2>3. CASE Len(list_) = 1 /\ AwaitsInput /\ Due
    <3>1. Tail(list_) = << >>
      <4>1. list_ \in Seq(event_) /\ list_ # << >> /\ Len(list_) = 1
        BY <1>2, <2>3 DEF TypeOK, Due
      <4>2. Tail(list_) \in Seq(event_) /\ Len(Tail(list_)) = 0
        BY <4>1
      <4>3. QED
        BY <4>2, EmptySeq
    <3>2. QED
      BY <1>1, <2>3, <3>1 DEF AwaitsInput
  <2>4. CASE Len(list_) = 1 /\ AwaitsInput /\ ~ Due
    <3>1. list_ # << >>
      BY <2>4
    <3>2. Head(list_).time \in Times /\ Head(list_).time # now
      BY <2>4, <3>1, <1>2 DEF Due, AwaitsInput
    <3>3. events'[Head(list_).time] = events[Head(list_).time]
      BY <1>1, <1>2, <3>2 DEF TypeOK
    <3>4. QED
      BY <1>1, <2>4, <3>3 DEF AwaitsInput, Asked
  <2>5. QED
    BY <2>1, <2>2, <2>3, <2>4
<1>7. QED
  BY <1>3, <1>4, <1>5, <1>6 DEF IInv

LEMMA AdvanceIInv ==
  ASSUME IInv, advance_time
  PROVE  IInv'
<1>1. /\ events[now] = 0 /\ now + 1 \in Times /\ now' = now + 1
      /\ UNCHANGED <<type_, fixed, delay_, initial_, cur_, list_, events, recvs, in, changed, delayThen, raced>>
  BY DEF advance_time
<1>2. TypeOK /\ MinDelayRight /\ now \in Nat /\ Times \subseteq Nat
  BY DelayAssumption DEF IInv, TypeOK
<1>3. TypeOK' /\ MinDelayRight'
  <2>1. now' \in Times
    BY <1>1
  <2>2. QED
    BY <1>1, <1>2, <2>1, Zenon DEF TypeOK, MinDelayRight
<1>4. AwaitsInput => AwaitsInput'
  <2> SUFFICES ASSUME AwaitsInput PROVE AwaitsInput'
    OBVIOUS
  <2>1. Head(list_).time \in Nat /\ Head(list_).time # now
    <3>1. Head(list_).time \in Nat /\ events[Head(list_).time] > 0
      BY <1>2 DEF AwaitsInput
    <3>2. CASE Head(list_).time = now
      BY <1>1, <3>1, <3>2
    <3>3. QED
      BY <3>1, <3>2
  <2>2. Head(list_).time >= now + 1
    BY <1>2, <2>1 DEF AwaitsInput
  <2>3. QED
    BY <1>1, <2>2 DEF AwaitsInput, Asked
<1>5. QED
  BY <1>1, <1>3, <1>4 DEF IInv

LEMMA NextIInv == IInv /\ [Next]_vars => IInv'
<1> SUFFICES ASSUME IInv, [Next]_vars PROVE IInv'
  OBVIOUS
<1>1. ASSUME NEW v \in Inputs(type_), recv(v) PROVE IInv'
  BY <1>1, RecvIInv
<1>2. ASSUME NEW k \in {"rise", "fall", "decay"}, NEW val \in DelayVals, recv_delay(k, val) PROVE IInv'
  BY <1>2, RecvDelayIInv
<1>3. CASE run_run
  BY <1>3, RunIInv
<1>4. CASE advance_time
  BY <1>4, AdvanceIInv
<1>5. CASE UNCHANGED vars
  BY <1>5 DEF vars, IInv, TypeOK, MinDelayRight, AwaitsInput, Asked
<1>6. QED
  BY <1>1, <1>2, <1>3, <1>4, <1>5, Zenon DEF Next

-----------------------------------------------------------------------------
(* IInv holds in every state. *)
THEOREM IInvHolds == Spec => []IInv
  BY InitIInv, NextIInv, PTL DEF Spec

(* The functor's data keep their types. *)
THEOREM TypeCorrect == Spec => []TypeOK
<1>1. IInv => TypeOK
  BY DEF IInv
<1>2. QED
  BY <1>1, IInvHolds, PTL

(* However set_rise, set_fall and set_decay are called, the smallest delay *)
(* that vvp_delay_t caches is the smallest.                                *)
THEOREM MinDelayAlwaysRight == Spec => []MinDelayRight
<1>1. IInv => MinDelayRight
  BY DEF IInv
<1>2. QED
  BY <1>1, IInvHolds, PTL

(* No value is lost: what is to come has its event, and once the events    *)
(* are done the output of vvp_fun_delay is its input.                      *)
THEOREM AlwaysSettled == Spec => []Settled
<1>1. IInv => Settled
  <2> SUFFICES ASSUME IInv, ~ raced
               PROVE  /\ \A i \in DOMAIN list_ : list_[i].time \in Times /\ events[list_[i].time] > 0
                      /\ (\A t \in Times : events[t] = 0) => cur_ = in
    BY DEF Settled
  <2>1. list_ \in Seq(event_) /\ events \in [Times -> Nat]
    BY DEF IInv, TypeOK
  <2>2. \/ list_ = << >> /\ cur_ = in
        \/ Len(list_) = 1 /\ AwaitsInput
    BY DEF IInv
  <2>3. CASE list_ = << >> /\ cur_ = in
    BY <2>3
  <2>4. CASE Len(list_) = 1 /\ AwaitsInput
    <3>1. DOMAIN list_ = {1} /\ list_[1] = Head(list_)
      BY <2>1, <2>4
    <3>2. Head(list_).time \in Times /\ events[Head(list_).time] > 0
      BY <2>4 DEF AwaitsInput
    <3>3. \A i \in DOMAIN list_ : list_[i].time \in Times /\ events[list_[i].time] > 0
      BY <3>1, <3>2
    <3>4. ~ \A t \in Times : events[t] = 0
      <4>1. events[Head(list_).time] # 0
        BY <3>2, <2>1
      <4>2. QED
        BY <3>2, <4>1, Zenon
    <3>5. QED
      BY <3>3, <3>4
  <2>5. QED
    BY <2>2, <2>3, <2>4
<1>2. QED
  BY <1>1, IInvHolds, PTL

(* The output of vvp_fun_delay changes only to its input, and exactly the  *)
(* delay of that change after the input changed.                           *)
THEOREM AlwaysOnTime == Spec => OnTime
<1> DEFINE Timely ==
      (cur_' # cur_ /\ ~ raced') =>
        /\ cur_' = in'
        /\ now = changed' + IF type_ = "REAL" THEN delayThen'.min
                            ELSE get_delay(delayThen', cur_.bits, cur_'.bits)
<1>1. IInv /\ [Next]_vars => [Timely]_vars
  <2> SUFFICES ASSUME IInv, Next, cur_' # cur_, ~ raced'
               PROVE  /\ cur_' = in'
                      /\ now = changed' + IF type_ = "REAL" THEN delayThen'.min
                                          ELSE get_delay(delayThen', cur_.bits, cur_'.bits)
    OBVIOUS
  <2>1. now \in Nat
    BY DelayAssumption DEF IInv, TypeOK
  <2>2. ASSUME NEW v \in Inputs(type_), recv(v)
        PROVE  /\ cur_' = v /\ in' = v /\ use_delay(v) = 0
               /\ changed' = now /\ delayThen' = delay_
               /\ list_ = << >> \/ ~ (Head(list_).time <= now)
    <3>1. raced' <=> (raced \/ (list_ # << >> /\ Head(list_).time <= now))
      BY <2>2, Zenon DEF recv
    <3>2. ~ raced /\ (list_ = << >> \/ ~ (Head(list_).time <= now))
      BY <3>1
    <3>3. cur_' = v /\ in' = v /\ use_delay(v) = 0 /\ ~ (list_ # << >> /\ Head(list_).val = v)
      BY <2>2 DEF recv
    <3>4. v # in
      BY <3>2, <3>3 DEF IInv, AwaitsInput
    <3>5. changed' = now /\ delayThen' = delay_
      BY <2>2, <3>4 DEF recv
    <3>6. QED
      BY <3>2, <3>3, <3>5
  <2>3. CASE \E v \in Inputs(type_) : recv(v)
    <3>1. PICK v \in Inputs(type_) : recv(v)
      BY <2>3
    <3>2. Asked(delay_, v) = 0
      BY <2>2, <3>1, UseDelayAsked
    <3>3. QED
      BY <2>1, <2>2, <3>1, <3>2 DEF Asked
  <2>4. CASE run_run
    <3>1. /\ Due /\ cur_' = Head(list_).val
          /\ UNCHANGED <<in, changed, delayThen, raced>>
      BY <2>4 DEF run_run
    <3>2. Len(list_) = 1 /\ AwaitsInput
      BY <3>1 DEF IInv, Due
    <3>3. Head(list_).time = now
      <4>1. Head(list_).time \in Nat
        BY <3>2, DelayAssumption DEF AwaitsInput
      <4>2. QED
        BY <2>1, <3>1, <3>2, <4>1 DEF AwaitsInput, Due
    <3>4. QED
      BY <3>1, <3>2, <3>3 DEF AwaitsInput, Asked
  <2>5. ASSUME NEW k, NEW val, recv_delay(k, val) PROVE FALSE
    BY <2>5 DEF recv_delay
  <2>6. CASE advance_time
    BY <2>6 DEF advance_time
  <2>7. QED
    BY <2>3, <2>4, <2>5, <2>6 DEF Next
<1>2. QED
  BY <1>1, IInvHolds, PTL DEF Spec, OnTime

=============================================================================
