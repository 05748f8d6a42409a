-------------------------- MODULE Heartbeat_proofs --------------------------
(***************************************************************************)
(* Proofs about Heartbeat, for any timeouts, poll interval and lateness.   *)
(***************************************************************************)
EXTENDS Heartbeat, TLAPS

(* The thread is late by at most half of any timeout the vendor may        *)
(* advertise.                                                              *)
Prompt == \A t \in Timeouts : t > 0 => 2 * MaxLate <= t

(* What the publishes that raised have cost so far.                        *)
Cost == missed * (period + MaxLate)

(* Phase 2 runs with half the timeout of the advert, as long as there is   *)
(* no other advert, and the vendor has been silent for no longer than the  *)
(* publishes that raised have cost, the part of the pause that is over and *)
(* the time the thread is late.  A vendor that waits for its first         *)
(* heartbeat has advertised while the thread was in phase 1, and then it   *)
(* has waited for what is over of a poll interval too, or in phase 2.      *)
PulseInv ==
  ~stop =>
    /\ place \in {"publishing", "pausing"} /\ ~changed =>
         /\ Timeout(advert) > 0
         /\ 2 * period = Timeout(advert)
    /\ place \in {"polling", "idle", "crashed"} => period = 0 /\ ~armed
    /\ place # "ended"
    /\ armed /\ place = "pausing" =>
         silent <= Cost + (period - left) + late
    /\ armed /\ place = "publishing" => silent <= Cost + period + late
    /\ place = "pausing" => left <= period
    /\ place = "idle" => left <= PollInterval
    /\ place \in {"idle", "pausing"} /\ left > 0 => late = 0
    /\ ~armed /\ Timeout(advert) > 0 =>
         /\ place = "polling" => silent <= PollInterval + late
         /\ place = "idle" => silent <= (PollInterval - left) + late
         /\ place = "publishing" =>
              \/ silent <= PollInterval + Cost + late
              \/ silent <= Cost + period + late
         /\ place = "pausing" =>
              \/ silent <= PollInterval + Cost - left + late
              \/ silent <= Cost + (period - left) + late

(* A thread with something to publish has let its stop pass only once.     *)
StopInv ==
  /\ ~stop => beats = 0
  /\ beats <= 1
  /\ place = "publishing" => beats = 0

Inv == TypeOK /\ PulseInv /\ StopInv

LEMMA PeriodType == TypeOK => period \in Nat
  BY HeartbeatAssumption DEF TypeOK

LEMMA CostType == TypeOK => Cost \in Nat
<1> SUFFICES ASSUME TypeOK PROVE missed * (period + MaxLate) \in Nat
  BY DEF Cost
<1>1. missed \in Nat /\ period + MaxLate \in Nat
  BY HeartbeatAssumption, PeriodType DEF TypeOK
<1> QED BY <1>1

LEMMA CostSteps ==
  ASSUME TypeOK
  PROVE  /\ missed' = missed /\ period' = period => Cost' = Cost
         /\ missed' = 0 /\ period' = period => Cost' = 0
         /\ missed' = missed + 1 /\ period' = period =>
              Cost' = Cost + period + MaxLate
<1>1. missed \in Nat /\ period \in Nat /\ MaxLate \in Nat
  BY HeartbeatAssumption, PeriodType DEF TypeOK
<1>2. (missed + 1) * (period + MaxLate)
        = missed * (period + MaxLate) + period + MaxLate
  BY <1>1
<1>3. 0 * (period + MaxLate) = 0
  BY <1>1
<1> QED BY <1>2, <1>3 DEF Cost

LEMMA InitInv == Init => Inv
<1> USE HeartbeatAssumption DEF Init
<1>1. Init => TypeOK
  <2> SUFFICES ASSUME Init PROVE TypeOK
    OBVIOUS
  <2>1. period \in {0} \cup {t \div 2 : t \in Timeouts}
    BY Zenon
  <2>2. late \in 0 .. MaxLate /\ missed \in 0 .. MaxMissed
    OBVIOUS
  <2>3. /\ advert \in Timeouts \cup {None, NoObject}
        /\ place \in Places
        /\ left \in Nat /\ beats \in Nat /\ silent \in Nat
        /\ stop \in BOOLEAN /\ armed \in BOOLEAN /\ changed \in BOOLEAN
    BY DEF Places
  <2> QED BY <2>1, <2>2, <2>3 DEF TypeOK
<1>2. Init => PulseInv /\ StopInv
  BY DEF PulseInv, StopInv
<1> QED BY <1>1, <1>2 DEF Inv

LEMMA ThreadInv == ASSUME Inv, Thread PROVE Inv'
<1> USE HeartbeatAssumption, CostType, CostSteps, PeriodType
    DEF Inv, TypeOK, Places, PulseInv, StopInv, Timeout, Wait, Proceed
<1>1. CASE Poll
  <2>1. TypeOK'
    BY <1>1 DEF Poll
  <2>2. CASE Timeout(advert) = 0
    <3>1. /\ place' = "idle" /\ left' = PollInterval /\ late' = 0
          /\ UNCHANGED <<advert, stop, armed, beats, changed, period>>
      BY <2>2, <1>1 DEF Poll
    <3>2. ~stop /\ place = "polling"
      BY <1>1 DEF Poll
    <3>3. (PulseInv /\ StopInv)'
      BY <3>1, <3>2, <2>2
    <3> QED BY <2>1, <3>3
  <2>3. CASE Timeout(advert) > 0
    <3>1. /\ missed' = missed /\ silent' = silent /\ late' = late
          /\ place' = "publishing" /\ period' = Timeout(advert) \div 2
          /\ UNCHANGED <<advert, stop, armed, beats, changed, left>>
      BY <2>3, <1>1 DEF Poll
    <3>2. ~stop /\ place = "polling" /\ ~armed
      BY <1>1 DEF Poll
    <3>3. Cost' \in Nat
      <4>1. Cost' = missed * (Timeout(advert) \div 2 + MaxLate)
        BY <3>1 DEF Cost
      <4>2. missed \in Nat /\ Timeout(advert) \div 2 + MaxLate \in Nat
        BY <2>3
      <4> QED BY <4>1, <4>2
    <3>4. silent <= PollInterval + late
      BY <3>2, <2>3
    <3>5. silent' <= PollInterval + Cost' + late'
      <4>1. silent \in Nat /\ late \in Nat /\ PollInterval \in Nat
        OBVIOUS
      <4> HIDE DEF Inv, TypeOK, PulseInv, StopInv, Timeout
      <4>2. silent' = silent /\ late' = late
        BY <3>1
      <4>3. \A c \in Nat : silent <= PollInterval + c + late
        BY <4>1, <3>4
      <4> QED BY <4>2, <4>3, <3>3
    <3>6. 2 * period' = Timeout(advert)'
      BY <3>1, <2>3
    <3>7. PulseInv'
      BY <3>1, <3>2, <3>5, <3>6, <2>3
    <3>8. StopInv'
      BY <3>1, <3>2
    <3> QED BY <2>1, <3>7, <3>8
  <2> QED BY <2>2, <2>3, <1>1 DEF Poll
<1>2. CASE PollCrashes \/ PollAgain
  BY <1>2 DEF PollCrashes, PollAgain
<1>3. CASE Beat
  <2>1. TypeOK'
    BY <1>3 DEF Beat
  <2>2. (PulseInv /\ StopInv)'
    BY <1>3 DEF Beat
  <2> QED BY <2>1, <2>2
<1>6. CASE BeatRaises
  <2>1. TypeOK'
    BY <1>6 DEF BeatRaises
  <2>2. (PulseInv /\ StopInv)'
    BY <1>6 DEF BeatRaises
  <2> QED BY <2>1, <2>2
<1>4. CASE BeatAgain
  BY <1>4 DEF BeatAgain
<1>5. CASE End
  BY <1>5 DEF End
<1> QED BY <1>1, <1>2, <1>3, <1>4, <1>5, <1>6 DEF Thread

LEMMA OtherInv ==
  ASSUME Inv,
         \/ Stop
         \/ \E a \in Timeouts \cup {NoObject} : VendorAdvertise(a)
         \/ Tick
         \/ UNCHANGED vars
  PROVE  Inv'
<1> USE HeartbeatAssumption, CostType, CostSteps, PeriodType
    DEF Inv, TypeOK, Places, PulseInv, StopInv, Timeout, threadVars
<1>1. CASE Stop
  BY <1>1 DEF Stop
<1>2. ASSUME NEW a \in Timeouts \cup {NoObject}, VendorAdvertise(a) PROVE Inv'
  <2>1. TypeOK'
    BY <1>2 DEF VendorAdvertise
  <2>2. (PulseInv /\ StopInv)'
    BY <1>2 DEF VendorAdvertise
  <2> QED BY <2>1, <2>2
<1>3. CASE Tick
  <2>1. TypeOK'
    BY <1>3 DEF Tick
  <2>2. (PulseInv /\ StopInv)'
    BY <1>3 DEF Tick, Due, Gone, Waiting
  <2> QED BY <2>1, <2>2
<1>4. CASE UNCHANGED vars
  BY <1>4 DEF vars
<1> QED BY <1>1, <1>2, <1>3, <1>4

THEOREM Invariance == Spec => []Inv
<1>1. Inv /\ [Next]_vars => Inv'
  BY ThreadInv, OtherInv DEF Next
<1> QED BY InitInv, <1>1, PTL DEF Spec

(* The types of the state; the period is always half of a timeout.         *)
THEOREM TypeCorrect == Spec => []TypeOK
<1>1. Inv => TypeOK
  BY DEF Inv
<1> QED BY <1>1, Invariance, PTL

(* A thread that is late by at most half the timeout keeps the deadman     *)
(* from firing, whatever the timeout is.                                   *)
THEOREM DeadmanStaysQuiet == ASSUME Prompt PROVE Spec => []DeadmanQuiet
<1>1. Inv => DeadmanQuiet
  <2> SUFFICES ASSUME Inv, ~stop, ~changed, missed = 0, armed,
                      Timeout(advert) > 0
               PROVE  silent <= Timeout(advert)
    BY HeartbeatAssumption
    DEF DeadmanQuiet, Fired, Inv, TypeOK, Timeout
  <2>1. Cost = 0
    BY HeartbeatAssumption, PeriodType DEF Inv, Cost
  <2> QED
    BY <2>1, HeartbeatAssumption, PeriodType
    DEF Prompt, Inv, TypeOK, Places, PulseInv, Timeout
<1> QED BY <1>1, Invariance, PTL

(* A publish that raises costs one pause and its delay, and no more.       *)
THEOREM SilenceIsBounded == Spec => []SilenceBounded
<1>1. Inv => SilenceBounded
  <2> SUFFICES ASSUME Inv, ~stop, armed
               PROVE  silent <= (missed + 1) * (period + MaxLate)
    BY DEF SilenceBounded
  <2>1. /\ missed \in Nat /\ period \in Nat /\ MaxLate \in Nat
        /\ silent \in Nat /\ left \in Nat /\ late \in 0 .. MaxLate
        /\ Cost \in Nat
    BY HeartbeatAssumption, PeriodType, CostType DEF Inv, TypeOK
  <2>2. (missed + 1) * (period + MaxLate) = Cost + period + MaxLate
    BY <2>1 DEF Cost
  <2>3. silent <= Cost + period + MaxLate
    BY <2>1 DEF Inv, TypeOK, Places, PulseInv
  <2> QED BY <2>2, <2>3
<1> QED BY <1>1, Invariance, PTL

(* The first heartbeat after an advert comes within one wait of phase 1 or *)
(* one pause of phase 2, and the thread's delays: the bound that honouring *)
(* the advert has.                                                         *)
THEOREM FirstBeatIsInTime == Spec => []FirstBeatInTime
<1>1. Inv => FirstBeatInTime
  <2> SUFFICES ASSUME Inv, ~stop, ~armed, Timeout(advert) > 0,
                      place # "crashed"
               PROVE  \/ silent <= PollInterval + MaxLate
                                     + missed * (period + MaxLate)
                      \/ silent <= (missed + 1) * (period + MaxLate)
    BY DEF FirstBeatInTime
  <2>1. /\ missed \in Nat /\ period \in Nat /\ MaxLate \in Nat
        /\ silent \in Nat /\ left \in Nat /\ late \in 0 .. MaxLate
        /\ PollInterval \in Nat /\ Cost \in Nat
    BY HeartbeatAssumption, PeriodType, CostType DEF Inv, TypeOK
  <2>2. /\ missed * (period + MaxLate) = Cost
        /\ (missed + 1) * (period + MaxLate) = Cost + period + MaxLate
    BY <2>1 DEF Cost
  <2>3. \/ silent <= PollInterval + MaxLate + Cost
        \/ silent <= Cost + period + MaxLate
    BY <2>1 DEF Inv, TypeOK, Places, PulseInv
  <2> QED BY <2>2, <2>3
<1> QED BY <1>1, Invariance, PTL

(* stop() lets at most the publish that was under way go out.              *)
THEOREM AtMostOneBeatAfterStop == Spec => []OneBeatAfterStop
<1>1. Inv => OneBeatAfterStop
  BY DEF Inv, StopInv, OneBeatAfterStop
<1> QED BY <1>1, Invariance, PTL

=============================================================================
