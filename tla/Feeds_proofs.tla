---------------------------- MODULE Feeds_proofs ----------------------------
(***************************************************************************)
(* Proofs about Feeds, for any size of the ring, any threshold, any number *)
(* of payloads and vendor restarts and any losses on the way.              *)
(***************************************************************************)
EXTENDS Feeds, TLAPS

AnyEvent == [seq : Nat \cup {Odd}, boot : Nat, n : Nat]

AnyAnswer == UNION {[I -> Nat] : I \in SUBSET Nat}

(* The part of the types that the proofs use.                              *)
EventTypes ==
  /\ events \in Seq(AnyEvent)
  /\ eventQ \in Seq(AnyEvent)
  /\ log \in Seq(AnyEvent)
  /\ emitted \in [{"state", "safety_event"} -> Nat]
  /\ boot \in Nat
  /\ seq \in Nat
  /\ cursor \in Nat

AnswerTypes == got \in Seq(AnyAnswer)

(* The events that a poll returns now.                                     *)
Returned == {e \in InRing : e.seq > cursor}

(* A poll adds the events it returns to those octos has, and puts the      *)
(* cursor on the highest of their numbers.                                 *)
LEMMA PollReturns ==
  ASSUME EventTypes, AnswerTypes, GetRecentSafetyEvents
  PROVE  /\ UNCHANGED <<events, eventQ, log, emitted, boot, seq>>
         /\ AnswerTypes'
         /\ Seen' = Seen \cup {e.n : e \in Returned}
         /\ cursor' \in {e.seq : e \in Returned} \cup {cursor}
         /\ \A e \in Returned : cursor' >= e.seq
<1> DEFINE A == EventsSince(cursor)
           B == [i \in DOMAIN A |-> A[i].n]
<1>1. UNCHANGED <<events, eventQ, log, emitted, boot, seq>>
  BY DEF GetRecentSafetyEvents, cacheVars, vendorVars
<1>2. /\ {A[i] : i \in DOMAIN A} = Returned
      /\ DOMAIN A \subseteq DOMAIN events
      /\ \A i \in DOMAIN A : A[i] = events[i]
  BY DEF EventsSince, Returned, InRing
<1>3. got' = IF DOMAIN A = {} THEN got ELSE Append(got, B)
  BY DEF GetRecentSafetyEvents
<1>4. /\ cursor' \in {A[i].seq : i \in DOMAIN A} \cup {cursor}
      /\ \A t \in {A[i].seq : i \in DOMAIN A} : cursor' >= t
  BY DEF GetRecentSafetyEvents
<1>5. \A i \in DOMAIN events : i \in Nat /\ events[i].n \in Nat
  <2>1. \A i \in DOMAIN events : i \in Nat /\ events[i] \in AnyEvent
    BY DEF EventTypes
  <2> QED BY <2>1 DEF AnyEvent
<1> HIDE DEF A
<1>6. B \in AnyAnswer
  <2>1. DOMAIN A \in SUBSET Nat /\ B \in [DOMAIN A -> Nat]
    BY <1>2, <1>5
  <2> QED BY <2>1 DEF AnyAnswer
<1>7. {B[i] : i \in DOMAIN B} = {e.n : e \in Returned}
  BY <1>2
<1> HIDE DEF B
<1>8. AnswerTypes'
  BY <1>3, <1>6 DEF AnswerTypes
<1>9. Seen' = Seen \cup {e.n : e \in Returned}
  <2>1. CASE DOMAIN A = {}
    <3>1. Returned = {} /\ got' = got
      BY <1>2, <1>3, <2>1
    <3> QED BY <3>1 DEF Seen
  <2>2. CASE DOMAIN A # {}
    <3>1. got' = Append(got, B) /\ got \in Seq(AnyAnswer)
      BY <1>3, <2>2 DEF AnswerTypes
    <3>2. /\ \A m \in DOMAIN got : m \in DOMAIN got' /\ got'[m] = got[m]
          /\ Len(got) + 1 \in DOMAIN got' /\ got'[Len(got) + 1] = B
          /\ \A m \in DOMAIN got' : m \in DOMAIN got \/ m = Len(got) + 1
      BY <1>6, <3>1
    <3>3. ASSUME NEW k
          PROVE  k \in Seen' <=> (k \in Seen \/ k \in {B[i] : i \in DOMAIN B})
      <4>1. k \in Seen' <=> \E m \in DOMAIN got' : \E i \in DOMAIN got'[m] : k = got'[m][i]
        BY DEF Seen
      <4>2. k \in Seen <=> \E m \in DOMAIN got : \E i \in DOMAIN got[m] : k = got[m][i]
        BY DEF Seen
      <4> QED BY <3>2, <4>1, <4>2
    <3> QED BY <1>7, <3>3
  <2> QED BY <2>1, <2>2
<1> QED BY <1>1, <1>2, <1>4, <1>8, <1>9

RingInv == EventTypes /\ AnswerTypes /\ RingIsTail

(* The actions that only concern robot.state, or that concern nothing but  *)
(* time, leave the safety events alone.                                    *)
LEMMA OtherSteps ==
  ASSUME EventTypes,
         \/ Tick
         \/ \E v \in {[sampled |-> now], None, Odd} : EmitState(v)
         \/ DispatchState \/ StateSettled
         \/ GetNoState \/ GetState \/ GetStateReturns
         \/ UNCHANGED vars
  PROVE  /\ UNCHANGED <<events, eventQ, log, boot, seq, cursor, Seen>>
         /\ emitted' \in [{"state", "safety_event"} -> Nat]
         /\ UNCHANGED got
<1>1. UNCHANGED <<events, eventQ, log, boot, seq, cursor, got>>
  <2>1. CASE Tick \/ UNCHANGED vars
    BY <2>1 DEF Tick, vars, cacheVars, vendorVars, clientVars
  <2>2. CASE \E v \in {[sampled |-> now], None, Odd} : EmitState(v)
    BY <2>2 DEF EmitState, cacheVars, clientVars
  <2>3. CASE DispatchState \/ StateSettled
    BY <2>3 DEF DispatchState, SetState, StateSettled, SetStateTs, vendorVars,
                clientVars
  <2>4. CASE GetNoState \/ GetState \/ GetStateReturns
    BY <2>4 DEF GetNoState, NoSnapshot, GetState, SnapshotAge, GetStateReturns,
                SnapshotCopy, cacheVars, vendorVars, clientVars
  <2> QED BY <2>1, <2>2, <2>3, <2>4
<1>2. ASSUME \E v \in {[sampled |-> now], None, Odd} : EmitState(v)
      PROVE  emitted' \in [{"state", "safety_event"} -> Nat]
  <2>1. emitted' = [emitted EXCEPT !["state"] = @ + 1]
    BY <1>2 DEF EmitState
  <2> QED BY <2>1 DEF EventTypes
<1>3. ASSUME \/ Tick \/ DispatchState \/ StateSettled
             \/ GetNoState \/ GetState \/ GetStateReturns
             \/ UNCHANGED vars
      PROVE  UNCHANGED emitted
  BY <1>3 DEF Tick, DispatchState, StateSettled, GetNoState, GetState,
              GetStateReturns, vars, vendorVars
<1> QED BY <1>1, <1>2, <1>3 DEF EventTypes, Seen

LEMMA InitRing == Init => RingInv
<1> USE StateCacheAssumption DEF Init, CacheInit
<1>1. Init => EventTypes /\ AnswerTypes
  BY DEF EventTypes, AnswerTypes
<1>2. Init => RingIsTail
  BY DEF RingIsTail
<1> QED BY <1>1, <1>2 DEF RingInv

(* Appending to a full ring drops its oldest event, which keeps the ring   *)
(* the tail of a log that grows by the same event.                         *)
LEMMA AppendKeepsTail ==
  ASSUME RingInv, DispatchSafetyEvent
  PROVE  RingInv'
<1> USE StateCacheAssumption DEF RingInv, EventTypes, RingIsTail
<1> DEFINE e == Head(eventQ)
<1>1. e \in AnyEvent /\ Tail(eventQ) \in Seq(AnyEvent)
  BY DEF DispatchSafetyEvent
<1>2. log' = Append(log, e) /\ AnswerTypes'
  BY DEF DispatchSafetyEvent, clientVars, AnswerTypes
<1>3. CASE Len(events) < RingSize
  <2>1. events' = Append(events, e)
    BY <1>3 DEF DispatchSafetyEvent, AppendSafetyEvent
  <2>2. EventTypes'
    BY <1>1, <1>2, <2>1 DEF DispatchSafetyEvent, clientVars
  <2>3. Len(events') = Len(events) + 1 /\ Len(log') = Len(log) + 1
    BY <1>1, <1>2, <2>1
  <2>4. Len(events) = Len(log)
    BY <1>3
  <2>5. ASSUME NEW i \in 1 .. Len(events) + 1
        PROVE  events'[i] = log'[i]
    <3>1. CASE i = Len(events) + 1
      BY <3>1, <1>1, <1>2, <2>1, <2>4
    <3>2. CASE i \in 1 .. Len(events)
      <4>1. events'[i] = events[i] /\ log'[i] = log[i]
        BY <3>2, <1>1, <1>2, <2>1, <2>4
      <4>2. events[i] = log[i]
        BY <3>2, <2>4
      <4> QED BY <4>1, <4>2
    <3> QED BY <3>1, <3>2
  <2>6. RingIsTail'
    <3>1. DOMAIN events' = 1 .. Len(events) + 1 /\ Len(log') = Len(events')
      BY <2>2, <2>3, <2>4
    <3>2. ASSUME NEW i \in DOMAIN events'
          PROVE  events'[i] = log'[Len(log') - Len(events') + i]
      <4>1. i \in Nat /\ Len(log') \in Nat
        <5>1. log' \in Seq(AnyEvent) /\ events' \in Seq(AnyEvent)
          BY <2>2
        <5> HIDE DEF RingInv, EventTypes, RingIsTail
        <5> QED BY <5>1
      <4>2. Len(log') - Len(events') + i = i
        BY <3>1, <4>1
      <4> QED BY <2>5, <3>1, <4>2
    <3>3. Len(events') = IF Len(log') < RingSize THEN Len(log') ELSE RingSize
      BY <1>3, <2>3, <2>4, <3>1
    <3> QED BY <3>2, <3>3
  <2> QED BY <1>2, <2>2, <2>6
<1>4. CASE Len(events) >= RingSize
  <2>1. events' = Append(Tail(events), e)
    BY <1>4 DEF DispatchSafetyEvent, AppendSafetyEvent
  <2>2. Len(events) = RingSize /\ Len(log) >= RingSize /\ events # <<>>
    BY <1>4
  <2>3. Tail(events) \in Seq(AnyEvent) /\ Len(Tail(events)) = RingSize - 1
    BY <2>2
  <2>4. EventTypes'
    BY <1>1, <1>2, <2>1, <2>3 DEF DispatchSafetyEvent, clientVars
  <2>5. Len(events') = RingSize /\ Len(log') = Len(log) + 1
    BY <1>1, <1>2, <2>1, <2>3
  <2>6. ASSUME NEW i \in 1 .. RingSize
        PROVE  events'[i] = log'[Len(log) + 1 - RingSize + i]
    <3>1. CASE i = RingSize
      BY <3>1, <1>1, <1>2, <2>1, <2>3
    <3>2. CASE i < RingSize
      <4>1. events'[i] = events[i + 1]
        BY <3>2, <2>1, <2>2, <2>3, <1>1
      <4>2. events[i + 1] = log[Len(log) - RingSize + i + 1]
        <5>1. i + 1 \in DOMAIN events
          BY <3>2, <2>2
        <5>2. events[i + 1] = log[Len(log) - Len(events) + (i + 1)]
          BY <5>1
        <5>3. Len(log) \in Nat /\ RingSize \in Nat /\ i \in Nat
          OBVIOUS
        <5> HIDE DEF RingInv, EventTypes, RingIsTail
        <5>4. Len(log) - Len(events) + (i + 1) = Len(log) - RingSize + i + 1
          BY <2>2, <5>3
        <5> QED BY <5>2, <5>4
      <4>3. log'[Len(log) + 1 - RingSize + i] = log[Len(log) + 1 - RingSize + i]
        <5>1. Len(log) + 1 - RingSize + i \in 1 .. Len(log)
          <6>1. Len(log) \in Nat /\ RingSize \in Nat /\ i \in Nat /\ i >= 1
            OBVIOUS
          <6>2. RingSize <= Len(log)
            BY <2>2
          <6> HIDE DEF RingInv, EventTypes, RingIsTail
          <6> QED BY <3>2, <6>1, <6>2
        <5>2. log \in Seq(AnyEvent) /\ log' = Append(log, Head(eventQ))
          BY <1>1, <1>2
        <5> HIDE DEF RingInv, EventTypes, RingIsTail
        <5> QED BY <5>1, <5>2
      <4> QED BY <4>1, <4>2, <4>3, <2>2
    <3> QED BY <3>1, <3>2
  <2>7. RingIsTail'
    <3>1. DOMAIN events' = 1 .. RingSize /\ Len(log') - Len(events') = Len(log) + 1 - RingSize
      BY <2>2, <2>4, <2>5
    <3>2. Len(events') = IF Len(log') < RingSize THEN Len(log') ELSE RingSize
      <4>1. Len(log) \in Nat /\ RingSize \in Nat
        OBVIOUS
      <4> HIDE DEF RingInv, EventTypes, RingIsTail
      <4> QED BY <2>2, <2>5, <4>1
    <3> HIDE DEF RingInv, EventTypes
    <3> QED BY <2>6, <3>1, <3>2
  <2> QED BY <1>2, <2>4, <2>7
<1> QED BY <1>3, <1>4

LEMMA RingStep == ASSUME RingInv, [Next]_vars PROVE RingInv'
<1>1. CASE DispatchSafetyEvent
  BY <1>1, AppendKeepsTail
<1>2. ASSUME \/ Tick
             \/ \E v \in {[sampled |-> now], None, Odd} : EmitState(v)
             \/ DispatchState \/ StateSettled
             \/ GetNoState \/ GetState \/ GetStateReturns
             \/ UNCHANGED vars
      PROVE  RingInv'
  BY <1>2, OtherSteps DEF RingInv, EventTypes, AnswerTypes, RingIsTail
<1>3. ASSUME NEW s \in {seq + 1, 0, Odd}, EmitEvent(s) PROVE RingInv'
  <2>1. [seq |-> s, boot |-> boot, n |-> emitted["safety_event"] + 1] \in AnyEvent
    BY DEF RingInv, EventTypes, AnyEvent
  <2>2. eventQ' \in Seq(AnyEvent)
    BY <1>3, <2>1 DEF EmitEvent, RingInv, EventTypes
  <2>3. seq' \in Nat /\ emitted' \in [{"state", "safety_event"} -> Nat]
    BY <1>3 DEF EmitEvent, RingInv, EventTypes
  <2>4. UNCHANGED <<events, log, boot, cursor, got>>
    BY <1>3 DEF EmitEvent, cacheVars, clientVars
  <2> QED BY <2>2, <2>3, <2>4 DEF RingInv, EventTypes, AnswerTypes, RingIsTail
<1>4. CASE VendorRestart \/ Drop
  <2>1. eventQ' \in Seq(AnyEvent)
    <3>1. eventQ \in Seq(AnyEvent)
      BY DEF RingInv, EventTypes
    <3>2. eventQ' = eventQ \/ (eventQ # <<>> /\ eventQ' = Tail(eventQ))
      BY <1>4 DEF VendorRestart, Drop
    <3> QED BY <3>1, <3>2
  <2>2. /\ boot' \in Nat /\ seq' \in Nat
        /\ UNCHANGED <<events, log, emitted, cursor, got>>
    BY <1>4 DEF VendorRestart, Drop, RingInv, EventTypes, cacheVars, clientVars
  <2> QED BY <2>1, <2>2 DEF RingInv, EventTypes, AnswerTypes, RingIsTail
<1>5. CASE GetRecentSafetyEvents
  <2>1. \A e \in InRing : e \in AnyEvent
    BY DEF InRing, RingInv, EventTypes
  <2>2. \A e \in InRing : e.seq # Odd
    BY <1>5 DEF GetRecentSafetyEvents, EventsSinceRaises
  <2>3. \A e \in Returned : e.seq \in Nat
    BY <2>1, <2>2 DEF Returned, AnyEvent
  <2> QED BY <1>5, <2>3, PollReturns DEF RingInv, EventTypes, RingIsTail
<1> QED BY <1>1, <1>2, <1>3, <1>4, <1>5 DEF Next

LEMMA RingInvariance == Spec => []RingInv
  BY InitRing, RingStep, PTL DEF Spec

(* The ring is always the newest RingSize events it was given, in order    *)
(* and without a gap.                                                      *)
THEOREM RingAlwaysTail == Spec => []RingIsTail
<1>1. RingInv => RingIsTail
  BY DEF RingInv
<1> QED BY <1>1, RingInvariance, PTL

-----------------------------------------------------------------------------
(* What a cursor can hide.                                                 *)

Numbered(e) == e.seq # 0 /\ e.seq # Odd

(* Two numbered events in the order in which they were emitted.            *)
Precedes(e, f) ==
  Numbered(e) /\ Numbered(f) =>
    e.boot <= f.boot /\ (e.boot = f.boot => e.seq < f.seq)

(* An event that was emitted before whatever the vendor emits next.        *)
Emitted(e) == Numbered(e) => e.boot <= boot /\ (e.boot = boot => e.seq <= seq)

(* dora delivers in order: what the ring was given precedes what is on its *)
(* way, which is itself in order.                                          *)
OrderInv ==
  /\ \A i \in DOMAIN log : Emitted(log[i])
  /\ \A j \in DOMAIN eventQ : Emitted(eventQ[j])
  /\ \A i \in DOMAIN log, j \in DOMAIN eventQ : Precedes(log[i], eventQ[j])
  /\ \A i, j \in DOMAIN eventQ : i < j => Precedes(eventQ[i], eventQ[j])

(* The cursor is the number of an event the ring was given.                *)
CursorInv == cursor # 0 => \E i \in DOMAIN log : log[i].seq = cursor

HiddenInv == RingInv /\ OrderInv /\ CursorInv /\ HiddenOnlyByRestart

LEMMA RingEvents == ASSUME RingInv PROVE InRing \subseteq AnyEvent
  BY DEF InRing, RingInv, EventTypes

(* Every event of the ring is in the log.                                  *)
LEMMA RingInLog ==
  ASSUME RingInv, NEW e \in InRing
  PROVE  \E i \in DOMAIN log : log[i] = e
<1> USE StateCacheAssumption DEF RingInv, EventTypes
<1>1. PICK i \in DOMAIN events : events[i] = e
  BY DEF InRing
<1>2. Len(events) \in Nat /\ Len(log) \in Nat /\ Len(events) <= Len(log)
  BY DEF RingIsTail
<1>3. i \in 1 .. Len(events) /\ events[i] = log[Len(log) - Len(events) + i]
  BY <1>1 DEF RingIsTail
<1>4. Len(log) - Len(events) + i \in 1 .. Len(log)
  BY <1>2, <1>3
<1> QED BY <1>1, <1>3, <1>4

LEMMA OtherStepsOrder ==
  ASSUME HiddenInv, RingInv',
         UNCHANGED <<events, eventQ, log, boot, seq, cursor, Seen>>
  PROVE  (OrderInv /\ CursorInv /\ HiddenOnlyByRestart)'
  BY DEF HiddenInv, OrderInv, CursorInv, HiddenOnlyByRestart, Emitted, Precedes,
         Numbered, InRing

(* A new event is numbered above all of this run, or not numbered.         *)
LEMMA EmitOrder ==
  ASSUME HiddenInv, NEW s \in {seq + 1, 0, Odd}, EmitEvent(s)
  PROVE  (OrderInv /\ CursorInv /\ HiddenOnlyByRestart)'
<1> USE FeedsAssumption DEF HiddenInv, RingInv, EventTypes
<1> DEFINE e == [seq |-> s, boot |-> boot, n |-> emitted["safety_event"] + 1]
<1>1. /\ eventQ' = Append(eventQ, e)
      /\ UNCHANGED <<events, log, boot, cursor, Seen>>
  BY DEF EmitEvent, cacheVars, clientVars, Seen
<1>2. s = seq + 1 => seq' = s
  BY DEF EmitEvent
<1>3. s # seq + 1 => seq' = seq
  BY DEF EmitEvent
<1>4. seq' \in Nat /\ seq <= seq'
  BY <1>2, <1>3
<1>5. ASSUME NEW f \in AnyEvent, Emitted(f)
      PROVE  Emitted(f)' /\ Precedes(f, e)
  <2>1. boot' = boot /\ e.boot = boot /\ e.seq = s
    BY <1>1
  <2>2. Numbered(f) => f.boot <= boot /\ (f.boot = boot => f.seq <= seq)
    BY <1>5 DEF Emitted
  <2>3. Numbered(f) => f.seq \in Nat
    BY DEF AnyEvent, Numbered
  <2>4. Emitted(f)'
    <3>1. seq \in Nat /\ seq' \in Nat /\ seq <= seq'
      BY <1>4
    <3> HIDE DEF HiddenInv, RingInv, EventTypes, e
    <3> QED BY <2>1, <2>2, <2>3, <3>1 DEF Emitted, Numbered
  <2>5. Numbered(e) => s = seq + 1
    BY <2>1 DEF Numbered
  <2>6. Precedes(f, e)
    <3>1. seq \in Nat
      OBVIOUS
    <3> HIDE DEF HiddenInv, RingInv, EventTypes, e
    <3> QED BY <2>1, <2>2, <2>3, <2>5, <3>1 DEF Precedes
  <2> QED BY <2>4, <2>6
<1>6. Numbered(e) => e.boot <= boot' /\ (e.boot = boot' => e.seq <= seq')
  BY <1>1, <1>2, <1>3 DEF Numbered
<1>7. \A j \in DOMAIN eventQ' : (j \in DOMAIN eventQ /\ eventQ'[j] = eventQ[j])
                                \/ (j = Len(eventQ) + 1 /\ eventQ'[j] = e)
  <2>1. eventQ \in Seq(AnyEvent)
    OBVIOUS
  <2> HIDE DEF HiddenInv, RingInv, EventTypes, e
  <2> QED BY <1>1, <2>1
<1>8. OrderInv'
  <2>1. /\ \A i \in DOMAIN log : log[i] \in AnyEvent
        /\ \A j \in DOMAIN eventQ : eventQ[j] \in AnyEvent
    OBVIOUS
  <2>2. DOMAIN log' = DOMAIN log /\ log' = log
    BY <1>1
  <2> HIDE DEF e
  <2>3. \A i \in DOMAIN log' : Emitted(log[i])'
    BY <1>5, <2>1, <2>2 DEF OrderInv
  <2>4. ASSUME NEW j \in DOMAIN eventQ' PROVE Emitted(eventQ[j])'
    <3>1. CASE j \in DOMAIN eventQ /\ eventQ'[j] = eventQ[j]
      BY <3>1, <1>5, <2>1 DEF OrderInv, Emitted
    <3>2. CASE eventQ'[j] = e
      BY <3>2, <1>6 DEF Emitted, Numbered
    <3> QED BY <3>1, <3>2, <1>7
  <2>5. \A i \in DOMAIN log', j \in DOMAIN eventQ' : Precedes(log[i], eventQ[j])'
    <3>1. \A i \in DOMAIN log, j \in DOMAIN eventQ : Precedes(log[i], eventQ[j])
      BY DEF OrderInv
    <3>2. \A i \in DOMAIN log : Precedes(log[i], e)
      BY <1>5, <2>1 DEF OrderInv
    <3>3. \A i \in DOMAIN log', j \in DOMAIN eventQ' :
            log'[i] = log[i] /\ i \in DOMAIN log /\ Precedes(log[i], eventQ'[j])
      BY <1>7, <2>2, <3>1, <3>2
    <3> HIDE DEF HiddenInv, RingInv, EventTypes
    <3> QED BY <3>3 DEF Precedes, Numbered
  <2>6. ASSUME NEW i \in DOMAIN eventQ', NEW j \in DOMAIN eventQ', i < j
        PROVE  Precedes(eventQ[i], eventQ[j])'
    <3>1. i \in DOMAIN eventQ /\ eventQ'[i] = eventQ[i]
      <4>1. eventQ \in Seq(AnyEvent)
        OBVIOUS
      <4> HIDE DEF HiddenInv, RingInv, EventTypes
      <4>2. Len(eventQ) \in Nat /\ DOMAIN eventQ = 1 .. Len(eventQ)
        BY <4>1
      <4>3. i \in Nat /\ j \in Nat /\ j <= Len(eventQ) + 1
        BY <1>7, <4>2
      <4> QED BY <1>7, <2>6, <4>2, <4>3
    <3> QED BY <1>5, <1>7, <2>1, <2>6, <3>1 DEF OrderInv, Precedes, Numbered
  <2> QED BY <2>3, <2>4, <2>5, <2>6 DEF OrderInv
<1>9. (CursorInv /\ HiddenOnlyByRestart)'
  BY <1>1 DEF CursorInv, HiddenOnlyByRestart, InRing
<1> QED BY <1>8, <1>9

(* Whatever leaves the head of the queue, the rest stays in order.         *)
LEMMA TailOrder ==
  ASSUME HiddenInv, eventQ # <<>>, eventQ' = Tail(eventQ), UNCHANGED <<boot, seq>>
  PROVE  /\ \A j \in DOMAIN eventQ' : Emitted(eventQ'[j]) /\ Precedes(Head(eventQ), eventQ'[j])
         /\ \A j \in DOMAIN eventQ' : \A i \in DOMAIN log : Precedes(log[i], eventQ'[j])
         /\ \A i, j \in DOMAIN eventQ' : i < j => Precedes(eventQ'[i], eventQ'[j])
<1>1. eventQ \in Seq(AnyEvent) /\ OrderInv
  BY DEF HiddenInv, RingInv, EventTypes
<1>2. \A j \in DOMAIN eventQ' : j \in Nat /\ j + 1 \in DOMAIN eventQ /\ eventQ'[j] = eventQ[j + 1]
  BY <1>1
<1>3. 1 \in DOMAIN eventQ /\ Head(eventQ) = eventQ[1]
  BY <1>1
<1>4. ASSUME NEW j \in DOMAIN eventQ'
      PROVE  Emitted(eventQ'[j]) /\ Precedes(Head(eventQ), eventQ'[j])
  <2>1. j > 0
    BY <1>1
  <2> QED BY <1>1, <1>2, <1>3, <2>1 DEF OrderInv
<1>5. ASSUME NEW j \in DOMAIN eventQ', NEW i \in DOMAIN log
      PROVE  Precedes(log[i], eventQ'[j])
  BY <1>1, <1>2 DEF OrderInv
<1>6. ASSUME NEW i \in DOMAIN eventQ', NEW j \in DOMAIN eventQ', i < j
      PROVE  Precedes(eventQ'[i], eventQ'[j])
  BY <1>1, <1>2, <1>6 DEF OrderInv
<1> QED BY <1>4, <1>5, <1>6

LEMMA DropOrder ==
  ASSUME HiddenInv, Drop
  PROVE  (OrderInv /\ CursorInv /\ HiddenOnlyByRestart)'
<1>1. UNCHANGED <<events, log, boot, seq, cursor, Seen>>
  BY DEF Drop, cacheVars, clientVars, Seen
<1>2. CASE eventQ # <<>> /\ eventQ' = Tail(eventQ)
  BY <1>1, <1>2, TailOrder
  DEF HiddenInv, OrderInv, CursorInv, HiddenOnlyByRestart, Emitted, InRing,
      Precedes, Numbered
<1>3. CASE UNCHANGED eventQ
  BY <1>1, <1>3
  DEF HiddenInv, OrderInv, CursorInv, HiddenOnlyByRestart, Emitted, InRing,
      Precedes, Numbered
<1> QED BY <1>2, <1>3 DEF Drop

(* A restart puts every event that was emitted into an earlier run.        *)
LEMMA RestartOrder ==
  ASSUME HiddenInv, VendorRestart
  PROVE  (OrderInv /\ CursorInv /\ HiddenOnlyByRestart)'
<1>1. UNCHANGED <<events, eventQ, log, cursor, Seen>> /\ boot' = boot + 1
  BY DEF VendorRestart, cacheVars, clientVars, Seen
<1>2. \A f \in AnyEvent : Emitted(f) => Emitted(f)'
  BY <1>1 DEF Emitted, AnyEvent, HiddenInv, RingInv, EventTypes
<1>3. /\ \A i \in DOMAIN log : log[i] \in AnyEvent
      /\ \A j \in DOMAIN eventQ : eventQ[j] \in AnyEvent
  BY DEF HiddenInv, RingInv, EventTypes
<1>4. /\ \A i \in DOMAIN log' : Emitted(log[i])'
      /\ \A j \in DOMAIN eventQ' : Emitted(eventQ[j])'
  <2>1. /\ \A i \in DOMAIN log : Emitted(log[i])
        /\ \A j \in DOMAIN eventQ : Emitted(eventQ[j])
    BY DEF HiddenInv, OrderInv
  <2>2. /\ \A i \in DOMAIN log : Emitted(log[i])'
        /\ \A j \in DOMAIN eventQ : Emitted(eventQ[j])'
    BY <1>1, <1>2, <1>3, <2>1 DEF Emitted
  <2> QED BY <1>1, <2>2
<1>5. OrderInv'
  BY <1>1, <1>4 DEF HiddenInv, OrderInv, Precedes, Numbered
<1> QED BY <1>1, <1>5 DEF HiddenInv, CursorInv, HiddenOnlyByRestart, InRing

(* The event that comes into the ring follows that of the cursor: either   *)
(* its number is higher, or the cursor is of an earlier run.               *)
LEMMA DispatchOrder ==
  ASSUME HiddenInv, DispatchSafetyEvent
  PROVE  (OrderInv /\ CursorInv /\ HiddenOnlyByRestart)'
<1> USE FeedsAssumption, StateCacheAssumption
<1> DEFINE e == Head(eventQ)
<1>1. /\ eventQ # <<>> /\ eventQ' = Tail(eventQ)
      /\ log' = Append(log, e)
      /\ UNCHANGED <<boot, seq, cursor, Seen>>
  BY DEF DispatchSafetyEvent, clientVars, Seen
<1>2. log \in Seq(AnyEvent) /\ eventQ \in Seq(AnyEvent) /\ events \in Seq(AnyEvent)
  BY DEF HiddenInv, RingInv, EventTypes
<1>3. e \in AnyEvent /\ e = eventQ[1] /\ 1 \in DOMAIN eventQ
  BY <1>1, <1>2
<1>4. Emitted(e) /\ \A i \in DOMAIN log : Precedes(log[i], e)
  BY <1>3 DEF HiddenInv, OrderInv
<1>5. /\ \A i \in DOMAIN log : i \in DOMAIN log' /\ log'[i] = log[i]
      /\ \A i \in DOMAIN log' : i \in DOMAIN log \/ log'[i] = e
      /\ Len(log) + 1 \in DOMAIN log' /\ log'[Len(log) + 1] = e
  BY <1>1, <1>2
<1>6. OrderInv'
  <2>1. \A i \in DOMAIN log' : Emitted(log'[i])
    BY <1>4, <1>5 DEF HiddenInv, OrderInv
  <2>2. \A i \in DOMAIN log', j \in DOMAIN eventQ' : Precedes(log'[i], eventQ'[j])
    BY <1>1, <1>5, TailOrder
  <2>3. /\ \A j \in DOMAIN eventQ' : Emitted(eventQ'[j])
        /\ \A i, j \in DOMAIN eventQ' : i < j => Precedes(eventQ'[i], eventQ'[j])
    BY <1>1, TailOrder
  <2> QED BY <1>1, <2>1, <2>2, <2>3 DEF OrderInv, Emitted, Precedes, Numbered
<1>7. CursorInv'
  BY <1>1, <1>5 DEF HiddenInv, CursorInv
<1>8. \A f \in InRing' : f \in InRing \/ f = e
  <2> HIDE DEF e
  <2>1. events' = Append(events, e) \/ (events # <<>> /\ events' = Append(Tail(events), e))
    <3>1. Len(events) >= RingSize => events # <<>>
      BY <1>2
    <3>2. Len(events) \in Nat /\ RingSize \in Nat
      BY <1>2
    <3> QED BY <3>1, <3>2 DEF DispatchSafetyEvent, AppendSafetyEvent, e
  <2>2. CASE events' = Append(events, e)
    BY <1>2, <1>3, <2>2 DEF InRing
  <2>3. CASE events # <<>> /\ events' = Append(Tail(events), e)
    <3>1. Tail(events) \in Seq(AnyEvent)
      BY <1>2, <2>3
    <3>2. \A i \in DOMAIN Tail(events) : i + 1 \in DOMAIN events /\ Tail(events)[i] = events[i + 1]
      BY <1>2, <2>3
    <3>3. \A i \in DOMAIN events' :
            events'[i] = e \/ (i \in DOMAIN Tail(events) /\ events'[i] = Tail(events)[i])
      BY <1>3, <2>3, <3>1
    <3> QED BY <3>2, <3>3 DEF InRing
  <2> QED BY <2>1, <2>2, <2>3
<1>9. ASSUME NEW f \in InRing', f.n \notin Seen, f.seq \notin {0, Odd}, ~(f.seq > cursor)
      PROVE  \E i \in DOMAIN log' :
               log'[i].boot < f.boot /\ log'[i].seq # Odd /\ log'[i].seq >= f.seq
  <2>1. CASE f \in InRing
    <3>1. PICK i \in DOMAIN log :
            log[i].boot < f.boot /\ log[i].seq # Odd /\ log[i].seq >= f.seq
      BY <1>9, <2>1 DEF HiddenInv, HiddenOnlyByRestart
    <3> QED BY <1>5, <3>1
  <2>2. CASE f = e
    <3>1. f.seq \in Nat /\ f.seq > 0 /\ cursor \in Nat /\ cursor # 0
      <4>1. cursor \in Nat
        BY DEF HiddenInv, RingInv, EventTypes
      <4>2. f.seq \in Nat /\ f.seq # 0
        BY <1>3, <1>9, <2>2 DEF AnyEvent
      <4>3. f.seq <= cursor
        BY <1>9, <4>1, <4>2
      <4> QED BY <4>1, <4>2, <4>3
    <3>2. PICK i \in DOMAIN log : log[i].seq = cursor
      BY <3>1 DEF HiddenInv, CursorInv
    <3>3. log[i] \in AnyEvent
      BY <1>2
    <3>4. log[i].boot <= f.boot /\ (log[i].boot = f.boot => cursor < f.seq)
      BY <1>4, <1>9, <2>2, <3>1, <3>2 DEF Precedes, Numbered
    <3>5. log[i].boot < f.boot
      BY <1>3, <1>9, <2>2, <3>1, <3>3, <3>4 DEF AnyEvent
    <3> QED BY <1>5, <1>9, <3>1, <3>2, <3>5
  <2> QED BY <1>8, <2>1, <2>2
<1>10. HiddenOnlyByRestart'
  BY <1>1, <1>9 DEF HiddenOnlyByRestart
<1> QED BY <1>6, <1>7, <1>10

(* What a poll leaves unread was below the cursor before it.               *)
LEMMA PollOrder ==
  ASSUME HiddenInv, GetRecentSafetyEvents
  PROVE  (OrderInv /\ CursorInv /\ HiddenOnlyByRestart)'
<1>1. /\ UNCHANGED <<events, eventQ, log, boot, seq>>
      /\ Seen' = Seen \cup {e.n : e \in Returned}
      /\ cursor' \in {e.seq : e \in Returned} \cup {cursor}
  BY PollReturns DEF HiddenInv, RingInv
<1>2. OrderInv'
  BY <1>1 DEF HiddenInv, OrderInv, Emitted, Precedes, Numbered
<1>3. CursorInv'
  <2>1. CASE cursor' = cursor
    BY <1>1, <2>1 DEF HiddenInv, CursorInv
  <2>2. CASE cursor' \in {e.seq : e \in Returned}
    <3>1. PICK e \in InRing : e.seq = cursor'
      BY <2>2 DEF Returned
    <3>2. \E i \in DOMAIN log : log[i] = e
      BY RingInLog DEF HiddenInv
    <3> QED BY <1>1, <3>1, <3>2 DEF CursorInv
  <2> QED BY <1>1, <2>1, <2>2
<1>4. HiddenOnlyByRestart'
  <2> SUFFICES ASSUME NEW f \in InRing, f.n \notin Seen', f.seq \notin {0, Odd}
               PROVE  \E i \in DOMAIN log :
                        log[i].boot < f.boot /\ log[i].seq # Odd /\ log[i].seq >= f.seq
    BY <1>1 DEF HiddenOnlyByRestart, InRing
  <2>1. f \notin Returned /\ f.n \notin Seen
    BY <1>1
  <2>2. ~(f.seq > cursor)
    BY <2>1 DEF Returned
  <2> QED BY <2>1, <2>2 DEF HiddenInv, HiddenOnlyByRestart
<1> QED BY <1>2, <1>3, <1>4

LEMMA HiddenStep == ASSUME HiddenInv, [Next]_vars PROVE HiddenInv'
<1>1. RingInv'
  BY RingStep DEF HiddenInv
<1>2. ASSUME \/ Tick
             \/ \E v \in {[sampled |-> now], None, Odd} : EmitState(v)
             \/ DispatchState \/ StateSettled
             \/ GetNoState \/ GetState \/ GetStateReturns
             \/ UNCHANGED vars
      PROVE  (OrderInv /\ CursorInv /\ HiddenOnlyByRestart)'
  <2>1. UNCHANGED <<events, eventQ, log, boot, seq, cursor, Seen>>
    BY <1>2, OtherSteps DEF HiddenInv, RingInv
  <2> QED BY <1>1, <2>1, OtherStepsOrder
<1> QED BY <1>1, <1>2, EmitOrder, DropOrder, RestartOrder, DispatchOrder,
           PollOrder DEF Next, HiddenInv

(* Whatever dora drops, however often polls fail and the ring overruns, an *)
(* unread event of the ring is hidden from the cursor only by a number     *)
(* that an earlier run of the vendor gave.                                 *)
THEOREM NothingElseHides == Spec => []HiddenOnlyByRestart
<1>1. Init => HiddenInv
  <2>1. Init => OrderInv /\ CursorInv /\ HiddenOnlyByRestart
    BY DEF Init, CacheInit, OrderInv, CursorInv, HiddenOnlyByRestart, InRing
  <2> QED BY <2>1, InitRing DEF HiddenInv
<1>2. HiddenInv => HiddenOnlyByRestart
  BY DEF HiddenInv
<1> QED BY <1>1, <1>2, HiddenStep, PTL DEF Spec

-----------------------------------------------------------------------------
(* Types.                                                                  *)

(* The bound on the events bounds the numbers they carry.                  *)
TypeInv ==
  /\ RingInv
  /\ TypeOK
  /\ seq <= emitted["safety_event"]
  /\ emitted["safety_event"] <= MaxEvents
  /\ stateTs <= now

LEMMA InitType == Init => TypeInv
<1> SUFFICES ASSUME Init PROVE TypeInv
  OBVIOUS
<1> USE StateCacheAssumption, FeedsAssumption DEF Init, CacheInit
<1>1. MaxBoots \in Nat /\ MaxEvents \in Nat /\ MaxTime \in Nat /\ MaxQueue \in Nat
  OBVIOUS
<1>2. got \in Seq(Answers) /\ events \in Seq(Events) /\ log \in Seq(Events)
  OBVIOUS
<1>3. /\ state \in States /\ stateQ \in Seq(States) /\ eventQ \in Seq(Events)
      /\ Len(stateQ) <= MaxQueue /\ Len(eventQ) <= MaxQueue
      /\ Len(events) <= RingSize
  BY <1>1 DEF States
<1>4. /\ lock \in {None, "loop", "handler"} /\ writing \in BOOLEAN
      /\ reading \in [age : 0 .. MaxTime, at : 0 .. MaxTime] \cup {None}
      /\ emitted \in [{"state", "safety_event"} -> Nat]
  OBVIOUS
<1>5. TypeOK
  BY <1>1, <1>2, <1>3, <1>4 DEF TypeOK
<1> QED BY <1>1, <1>5, InitRing DEF TypeInv

LEMMA HeadAndTail ==
  ASSUME NEW S, NEW q \in Seq(S), q # <<>>
  PROVE  /\ Head(q) \in S
         /\ Tail(q) \in Seq(S)
         /\ Len(q) \in Nat
         /\ Len(Tail(q)) = Len(q) - 1
OBVIOUS

LEMMA TypeStep == ASSUME TypeInv, [Next]_vars PROVE TypeInv'
<1> DEFINE n == emitted["safety_event"]
<1>1. RingInv' /\ Len(events)' <= RingSize
  <2>1. RingInv'
    BY RingStep DEF TypeInv
  <2> QED BY <2>1, StateCacheAssumption DEF RingInv, EventTypes, RingIsTail
<1>2. MaxBoots \in Nat /\ MaxEvents \in Nat /\ MaxTime \in Nat /\ MaxQueue \in Nat
  BY FeedsAssumption
<1>3. emitted \in [{"state", "safety_event"} -> Nat] /\ n \in Nat
  BY DEF TypeInv, TypeOK
<1> USE StateCacheAssumption, FeedsAssumption DEF TypeInv, TypeOK
<1>4. CASE Tick
  <2>1. now' \in 0 .. MaxTime /\ now <= now'
    BY <1>2, <1>4 DEF Tick
  <2>2. UNCHANGED <<state, stateTs, events, lock, writing, reading, stateQ,
                    eventQ, emitted, boot, seq, log, receivedAt, settledAt,
                    cursor, got>>
    <3> HIDE DEF TypeInv, TypeOK
    <3> QED BY <1>4 DEF Tick, stampVars, cacheVars, vendorVars, timeVars, clientVars
  <2>3. stateTs' <= now'
    <3>1. stateTs \in Nat /\ now \in Nat /\ now' \in Nat /\ stateTs <= now
      BY <1>2, <2>1
    <3> HIDE DEF TypeInv, TypeOK
    <3> QED BY <2>1, <2>2, <3>1
  <2> QED BY <1>1, <2>1, <2>2, <2>3
<1>5. ASSUME NEW v \in {[sampled |-> now], None, Odd}, EmitState(v) PROVE TypeInv'
  <2>1. v \in States
    <3>1. now \in 0 .. MaxTime
      OBVIOUS
    <3> HIDE DEF TypeInv, TypeOK
    <3> QED BY <3>1 DEF States
  <2>2. stateQ' \in Seq(States) /\ Len(stateQ') <= MaxQueue
    BY <1>2, <1>5, <2>1 DEF EmitState
  <2>3. emitted' \in [{"state", "safety_event"} -> Nat] /\ n' = n
    <3> HIDE DEF TypeInv, TypeOK
    <3> QED BY <1>3, <1>5 DEF EmitState
  <2> QED BY <1>1, <1>5, <2>2, <2>3
          DEF EmitState, stampVars, cacheVars, timeVars, clientVars
<1>6. ASSUME NEW s \in {seq + 1, 0, Odd}, EmitEvent(s) PROVE TypeInv'
  <2>0. seq \in 0 .. MaxEvents /\ seq <= n
    OBVIOUS
  <2>1. n < MaxEvents /\ n + 1 \in 1 .. MaxEvents
    <3>1. n < MaxEvents
      BY <1>6 DEF EmitEvent
    <3> HIDE DEF TypeInv, TypeOK, n
    <3> QED BY <1>2, <1>3, <3>1
  <2>2. seq + 1 \in 0 .. MaxEvents /\ s \in (0 .. MaxEvents) \cup {Odd}
    <3> HIDE DEF TypeInv, TypeOK, n
    <3>1. seq + 1 \in 0 .. MaxEvents /\ 0 \in 0 .. MaxEvents
      BY <1>2, <1>3, <2>0, <2>1
    <3> QED BY <3>1
  <2>3. [seq |-> s, boot |-> boot, n |-> n + 1] \in Events
    BY <2>1, <2>2 DEF Events
  <2>4. eventQ' \in Seq(Events) /\ Len(eventQ') <= MaxQueue
    BY <1>2, <1>6, <2>3 DEF EmitEvent
  <2>5. emitted' \in [{"state", "safety_event"} -> Nat] /\ n' = n + 1
    <3> HIDE DEF TypeInv, TypeOK
    <3> QED BY <1>3, <1>6 DEF EmitEvent
  <2>6. seq' \in 0 .. MaxEvents /\ seq' <= n'
    <3> HIDE DEF TypeInv, TypeOK, n
    <3>1. seq' = seq + 1 \/ seq' = seq
      BY <1>6 DEF EmitEvent
    <3>2. seq' \in 0 .. MaxEvents
      BY <2>0, <2>2, <3>1
    <3> QED BY <1>3, <2>0, <2>5, <3>1, <3>2
  <2> QED BY <1>1, <1>2, <1>6, <2>1, <2>4, <2>5, <2>6
          DEF EmitEvent, stampVars, cacheVars, timeVars, clientVars
<1>7. CASE VendorRestart
  BY <1>1, <1>2, <1>3, <1>7
  DEF VendorRestart, stampVars, cacheVars, timeVars, clientVars
<1>8. CASE Drop
  <2>1. /\ stateQ \in Seq(States) /\ Len(stateQ) <= MaxQueue
        /\ eventQ \in Seq(Events) /\ Len(eventQ) <= MaxQueue
    OBVIOUS
  <2>2. /\ stateQ' = stateQ \/ (stateQ # <<>> /\ stateQ' = Tail(stateQ))
        /\ eventQ' = eventQ \/ (eventQ # <<>> /\ eventQ' = Tail(eventQ))
    BY <1>8 DEF Drop
  <2>3. stateQ' \in Seq(States) /\ Len(stateQ') <= MaxQueue
    <3> HIDE DEF TypeInv, TypeOK
    <3>1. stateQ # <<>> =>
            /\ Tail(stateQ) \in Seq(States)
            /\ Len(stateQ) \in Nat /\ Len(Tail(stateQ)) = Len(stateQ) - 1
      BY <2>1, HeadAndTail
    <3>2. stateQ # <<>> => Len(Tail(stateQ)) <= MaxQueue
      BY <1>2, <2>1, <3>1
    <3> QED BY <2>1, <2>2, <3>1, <3>2
  <2>4. eventQ' \in Seq(Events) /\ Len(eventQ') <= MaxQueue
    <3> HIDE DEF TypeInv, TypeOK
    <3>1. eventQ # <<>> =>
            /\ Tail(eventQ) \in Seq(Events)
            /\ Len(eventQ) \in Nat /\ Len(Tail(eventQ)) = Len(eventQ) - 1
      BY <2>1, HeadAndTail
    <3>2. eventQ # <<>> => Len(Tail(eventQ)) <= MaxQueue
      BY <1>2, <2>1, <3>1
    <3> QED BY <2>1, <2>2, <3>1, <3>2
  <2> QED BY <1>1, <1>8, <2>3, <2>4
          DEF Drop, stampVars, cacheVars, timeVars, clientVars
<1>9. CASE DispatchState
  <2>1. stateQ # <<>> /\ stateQ \in Seq(States) /\ Len(stateQ) <= MaxQueue
    BY <1>9 DEF DispatchState
  <2>2. /\ Head(stateQ) \in States
        /\ Tail(stateQ) \in Seq(States) /\ Len(Tail(stateQ)) <= MaxQueue
    <3> HIDE DEF TypeInv, TypeOK
    <3> QED BY <1>2, <2>1, HeadAndTail
  <2> QED BY <1>1, <1>9, <2>1, <2>2
          DEF DispatchState, SetState, Acquire, clientVars
<1>10. CASE DispatchSafetyEvent
  <2>1. /\ eventQ # <<>> /\ eventQ \in Seq(Events) /\ Len(eventQ) <= MaxQueue
        /\ events \in Seq(Events) /\ log \in Seq(Events)
    BY <1>10 DEF DispatchSafetyEvent
  <2>2. /\ Head(eventQ) \in Events
        /\ Tail(eventQ) \in Seq(Events) /\ Len(Tail(eventQ)) <= MaxQueue
    <3> HIDE DEF TypeInv, TypeOK
    <3> QED BY <1>2, <2>1, HeadAndTail
  <2>3. log' \in Seq(Events)
    <3> HIDE DEF TypeInv, TypeOK
    <3> QED BY <1>10, <2>1, <2>2 DEF DispatchSafetyEvent
  <2>4. events' \in Seq(Events)
    <3> HIDE DEF TypeInv, TypeOK
    <3>1. Len(events) < RingSize \/ events # <<>>
      BY <2>1, StateCacheAssumption
    <3>2. events # <<>> => Tail(events) \in Seq(Events)
      BY <2>1, HeadAndTail
    <3>3. \/ events' = Append(events, Head(eventQ))
          \/ events # <<>> /\ events' = Append(Tail(events), Head(eventQ))
      BY <1>10, <3>1 DEF DispatchSafetyEvent, AppendSafetyEvent
    <3>4. CASE events' = Append(events, Head(eventQ))
      BY <2>1, <2>2, <3>4
    <3>5. CASE events # <<>> /\ events' = Append(Tail(events), Head(eventQ))
      BY <2>2, <3>2, <3>5
    <3> QED BY <3>3, <3>4, <3>5
  <2> QED BY <1>1, <1>10, <2>2, <2>3, <2>4
          DEF DispatchSafetyEvent, AppendSafetyEvent, stampVars, timeVars,
              clientVars
<1>11. CASE GetState
  <2>1. now - stateTs \in 0 .. MaxTime
    BY <1>2
  <2>2. reading' \in [age : 0 .. MaxTime, at : 0 .. MaxTime]
    BY <1>11, <2>1 DEF GetState, SnapshotAge
  <2> QED BY <1>1, <1>11, <2>2
          DEF GetState, SnapshotAge, Acquire, vendorVars, timeVars, clientVars
<1>12. CASE GetRecentSafetyEvents
  <2> DEFINE A == EventsSince(cursor)
             B == [i \in DOMAIN A |-> A[i].n]
  <2>1. \A i \in DOMAIN events :
          /\ i \in 1 .. RingSize
          /\ events[i].seq \in 0 .. MaxEvents /\ events[i].n \in 1 .. MaxEvents
    <3>1. \A i \in DOMAIN events : i \in 1 .. RingSize /\ events[i] \in Events
      <4>1. events \in Seq(Events) /\ Len(events) <= RingSize /\ RingSize \in Nat
        OBVIOUS
      <4> HIDE DEF TypeInv, TypeOK
      <4> QED BY <4>1
    <3>2. \A i \in DOMAIN events : events[i].seq # Odd
      BY <1>12 DEF GetRecentSafetyEvents, EventsSinceRaises, InRing
    <3> HIDE DEF TypeInv, TypeOK
    <3> QED BY <3>1, <3>2 DEF Events
  <2>2. DOMAIN A \subseteq DOMAIN events /\ \A i \in DOMAIN A : A[i] = events[i]
    BY DEF EventsSince
  <2>3. cursor' \in {A[i].seq : i \in DOMAIN A} \cup {cursor}
    BY <1>12 DEF GetRecentSafetyEvents
  <2>4. got' = IF DOMAIN A = {} THEN got ELSE Append(got, B)
    BY <1>12 DEF GetRecentSafetyEvents
  <2> HIDE DEF A
  <2>5. cursor' \in 0 .. MaxEvents
    BY <2>1, <2>2, <2>3
  <2>6. B \in Answers
    <3>1. DOMAIN A \in SUBSET (1 .. RingSize) /\ B \in [DOMAIN A -> 1 .. MaxEvents]
      <4> HIDE DEF TypeInv, TypeOK
      <4> QED BY <2>1, <2>2
    <3> QED BY <3>1 DEF Answers
  <2> HIDE DEF B
  <2>7. got' \in Seq(Answers)
    BY <2>4, <2>6
  <2> QED BY <1>1, <1>12, <2>5, <2>7
          DEF GetRecentSafetyEvents, stampVars, cacheVars, vendorVars, timeVars
<1>13. CASE UNCHANGED vars
  BY <1>1, <1>13 DEF vars, stampVars, cacheVars, vendorVars, timeVars, clientVars
<1>14. CASE StateSettled
  <2>1. /\ stateTs' = now /\ settledAt' = now /\ lock' = None /\ writing' = FALSE
        /\ UNCHANGED <<now, state, events, reading, stateQ, eventQ, emitted,
                       boot, seq, log, receivedAt, cursor, got>>
    <3> HIDE DEF TypeInv, TypeOK
    <3> QED BY <1>14 DEF StateSettled, SetStateTs, vendorVars, clientVars
  <2>2. stateTs' \in 0 .. MaxTime /\ settledAt' \in 0 .. MaxTime /\ stateTs' <= now'
    BY <1>2, <2>1
  <2> QED BY <1>1, <2>1, <2>2
<1>15. CASE GetNoState
  BY <1>1, <1>15
  DEF GetNoState, NoSnapshot, stampVars, cacheVars, vendorVars, timeVars
<1>16. CASE GetStateReturns
  BY <1>1, <1>16 DEF GetStateReturns, SnapshotCopy, vendorVars, timeVars
<1> QED BY <1>4, <1>5, <1>6, <1>7, <1>8, <1>9, <1>10, <1>11, <1>12, <1>13,
           <1>14, <1>15, <1>16 DEF Next

LEMMA TypeInvariance == Spec => []TypeInv
  BY InitType, TypeStep, PTL DEF Spec

(* The types of the state, and the sizes of the ring and the queues.       *)
THEOREM TypeCorrect == Spec => []TypeOK
<1>1. TypeInv => TypeOK
  BY DEF TypeInv
<1> QED BY <1>1, TypeInvariance, PTL

-----------------------------------------------------------------------------
(* get_state.                                                              *)

(* The lock is that of the method that is halfway; outside set_state the   *)
(* time that the cache keeps is that of the payload it keeps, and the age  *)
(* that snapshot has taken is still that of the payload it will copy.      *)
StampInv ==
  /\ writing <=> lock = "loop"
  /\ reading # None <=> lock = "handler"
  /\ stateTs = settledAt
  /\ receivedAt <= now
  /\ ~writing => receivedAt <= settledAt
  /\ reading # None => reading.age = reading.at - settledAt
  /\ SnapshotConsistent

LEMMA StampStep == ASSUME TypeInv, StampInv, [Next]_vars PROVE StampInv'
<1> USE StateCacheAssumption, FeedsAssumption
<1>1. /\ now \in Nat /\ stateTs \in Nat /\ settledAt \in Nat /\ receivedAt \in Nat
      /\ stateTs <= now /\ StaleAfter \in Nat
  BY DEF TypeInv, TypeOK
<1>2. CASE GetState
  <2>1. /\ reading' = [age |-> now - stateTs, at |-> now]
        /\ lock = None /\ lock' = "handler"
        /\ UNCHANGED <<now, stateTs, settledAt, receivedAt, writing, served>>
    BY <1>2 DEF GetState, SnapshotAge, Acquire, timeVars, clientVars
  <2>2. reading' # None /\ reading'.age = reading'.at - settledAt
    BY <1>1, <2>1 DEF StampInv
  <2> QED BY <1>1, <2>1, <2>2 DEF StampInv, SnapshotConsistent, StateServed
<1>3. CASE GetStateReturns
  <2>1. /\ reading # None /\ reading' = None /\ lock' = None
        /\ UNCHANGED <<now, stateTs, settledAt, receivedAt, writing>>
    BY <1>3 DEF GetStateReturns, SnapshotCopy, timeVars
  <2>2. ~writing /\ receivedAt <= settledAt /\ reading.age = reading.at - settledAt
    BY <2>1 DEF StampInv
  <2>3. reading.age \in Nat /\ reading.at \in Nat
    <3>1. /\ reading \in [age : 0 .. MaxTime, at : 0 .. MaxTime] \cup {None}
          /\ reading # None
      BY <2>1 DEF TypeInv, TypeOK
    <3> QED BY <3>1
  <2>4. SnapshotConsistent'
    <3>1. CASE SnapshotRaises
      BY <1>3, <3>1 DEF GetStateReturns, SnapshotConsistent, StateServed
    <3>2. CASE ~SnapshotRaises
      <4>1. /\ served'.data.age = reading.age
            /\ served'.data.stale = (reading.age > StaleAfter)
            /\ served'.at = reading.at
            /\ served'.received = receivedAt /\ served'.settled = settledAt
        BY <1>3, <3>2 DEF GetStateReturns, Snapshot
      <4>2. /\ reading.age \in reading.at - settledAt .. reading.at - receivedAt
            /\ reading.age > StaleAfter => reading.at - receivedAt > StaleAfter
            /\ ~(reading.age > StaleAfter) => reading.at - settledAt <= StaleAfter
        BY <1>1, <2>2, <2>3
      <4> QED BY <4>1, <4>2 DEF SnapshotConsistent
    <3> QED BY <3>1, <3>2
  <2> QED BY <1>1, <2>1, <2>2, <2>4 DEF StampInv
<1>4. CASE DispatchState
  BY <1>1, <1>4
  DEF DispatchState, SetState, Acquire, clientVars, StampInv,
      SnapshotConsistent, StateServed
<1>5. CASE StateSettled
  BY <1>1, <1>5
  DEF StateSettled, SetStateTs, clientVars, StampInv, SnapshotConsistent,
      StateServed
<1>6. CASE GetNoState
  BY <1>1, <1>6
  DEF GetNoState, NoSnapshot, stampVars, cacheVars, timeVars, StampInv,
      SnapshotConsistent, StateServed
<1>7. CASE Tick
  BY <1>1, <1>7
  DEF Tick, stampVars, cacheVars, timeVars, clientVars, StampInv,
      SnapshotConsistent, StateServed
<1>8. ASSUME \/ \E v \in {[sampled |-> now], None, Odd} : EmitState(v)
             \/ \E s \in {seq + 1, 0, Odd} : EmitEvent(s)
             \/ VendorRestart \/ Drop \/ DispatchSafetyEvent
             \/ GetRecentSafetyEvents \/ UNCHANGED vars
      PROVE  UNCHANGED <<now, stampVars, lock, timeVars, served>>
  BY <1>8 DEF EmitState, EmitEvent, VendorRestart, Drop, DispatchSafetyEvent,
              AppendSafetyEvent, GetRecentSafetyEvents, vars, cacheVars,
              clientVars
<1>9. ASSUME UNCHANGED <<now, stampVars, lock, timeVars, served>>
      PROVE  StampInv'
  BY <1>9 DEF stampVars, timeVars, StampInv, SnapshotConsistent, StateServed
<1> QED BY <1>2, <1>3, <1>4, <1>5, <1>6, <1>7, <1>8, <1>9 DEF Next

(* The age and the flag that get_state returns are those of the payload it *)
(* returns, and not of the one before or after it: the lock keeps the loop *)
(* thread from replacing a payload whose age a handler has taken, and the  *)
(* handler from reading a payload that has not got its time.               *)
THEOREM SnapshotAlwaysConsistent == Spec => []SnapshotConsistent
<1>1. Init => StampInv
  BY StateCacheAssumption
  DEF Init, CacheInit, StampInv, SnapshotConsistent, StateServed
<1>2. StampInv => SnapshotConsistent
  BY DEF StampInv
<1> QED BY <1>1, <1>2, TypeInvariance, StampStep, PTL DEF Spec

-----------------------------------------------------------------------------
(* Polls.                                                                  *)

(* No two events are the same, wherever they are.                          *)
NumberInv ==
  /\ \A i \in DOMAIN log : log[i].n <= emitted["safety_event"]
  /\ \A j \in DOMAIN eventQ : eventQ[j].n <= emitted["safety_event"]
  /\ \A i, j \in DOMAIN log : i # j => log[i].n # log[j].n
  /\ \A i \in DOMAIN log, j \in DOMAIN eventQ : log[i].n # eventQ[j].n
  /\ \A i, j \in DOMAIN eventQ : i # j => eventQ[i].n # eventQ[j].n

(* What octos has got has come through the ring, and is not above its      *)
(* cursor.                                                                 *)
SeenInv ==
  /\ \A i \in DOMAIN log :
       log[i].n \in Seen => log[i].seq # Odd /\ log[i].seq <= cursor
  /\ \A k \in Seen : \E i \in DOMAIN log : log[i].n = k

PollInv == NumberInv /\ SeenInv

LEMMA EmitPoll ==
  ASSUME RingInv, PollInv, NEW s \in {seq + 1, 0, Odd}, EmitEvent(s)
  PROVE  PollInv'
<1> DEFINE m == emitted["safety_event"]
<1> DEFINE e == [seq |-> s, boot |-> boot, n |-> m + 1]
<1>1. /\ eventQ' = Append(eventQ, e)
      /\ UNCHANGED <<log, cursor, Seen>>
  BY DEF EmitEvent, clientVars, Seen
<1>2. m \in Nat /\ m' = m + 1 /\ e.n = m + 1
  BY DEF EmitEvent, RingInv, EventTypes
<1>3. /\ \A i \in DOMAIN log : log[i].n \in Nat
      /\ \A j \in DOMAIN eventQ : eventQ[j].n \in Nat
  <2>1. /\ \A i \in DOMAIN log : log[i] \in AnyEvent
        /\ \A j \in DOMAIN eventQ : eventQ[j] \in AnyEvent
    BY DEF RingInv, EventTypes
  <2> QED BY <2>1 DEF AnyEvent
<1> HIDE DEF m, e
<1>4. \A j \in DOMAIN eventQ' :
        \/ j \in DOMAIN eventQ /\ eventQ'[j] = eventQ[j]
        \/ j = Len(eventQ) + 1 /\ j \notin DOMAIN eventQ /\ eventQ'[j] = e
  BY <1>1 DEF RingInv, EventTypes
<1>5. /\ \A i \in DOMAIN log : log[i].n <= m
      /\ \A j \in DOMAIN eventQ : eventQ[j].n <= m
  BY DEF PollInv, NumberInv, m
<1>6. /\ \A i \in DOMAIN log : log[i].n <= m' /\ log[i].n # e.n
      /\ \A j \in DOMAIN eventQ : eventQ[j].n <= m' /\ eventQ[j].n # e.n
  BY <1>2, <1>3, <1>5
<1>7. /\ \A i \in DOMAIN log' : log'[i].n <= m'
      /\ \A j \in DOMAIN eventQ' : eventQ'[j].n <= m'
  BY <1>1, <1>2, <1>4, <1>6
<1>8. \A i \in DOMAIN log', j \in DOMAIN eventQ' : log'[i].n # eventQ'[j].n
  BY <1>1, <1>4, <1>6 DEF PollInv, NumberInv
<1>9. \A i, j \in DOMAIN eventQ' : i # j => eventQ'[i].n # eventQ'[j].n
  BY <1>4, <1>6 DEF PollInv, NumberInv
<1>10. NumberInv'
  BY <1>1, <1>7, <1>8, <1>9 DEF PollInv, NumberInv, m
<1> QED BY <1>1, <1>10 DEF PollInv, SeenInv

LEMMA DropPoll == ASSUME RingInv, PollInv, Drop PROVE PollInv'
<1>1. UNCHANGED <<log, emitted, cursor, Seen>>
  BY DEF Drop, clientVars, Seen
<1>2. CASE eventQ # <<>> /\ eventQ' = Tail(eventQ)
  <2>1. \A j \in DOMAIN eventQ' :
          j \in Nat /\ j + 1 \in DOMAIN eventQ /\ eventQ'[j] = eventQ[j + 1]
    BY <1>2 DEF RingInv, EventTypes
  <2>2. \A i, j \in DOMAIN eventQ' : i # j => i + 1 # j + 1
    BY <2>1
  <2> QED BY <1>1, <2>1, <2>2 DEF PollInv, NumberInv, SeenInv
<1>3. CASE UNCHANGED eventQ
  BY <1>1, <1>3 DEF PollInv, NumberInv, SeenInv
<1> QED BY <1>2, <1>3 DEF Drop

(* An event that comes into the ring has not been seen.                    *)
LEMMA DispatchPoll == ASSUME RingInv, PollInv, DispatchSafetyEvent PROVE PollInv'
<1> DEFINE e == Head(eventQ)
<1>1. /\ eventQ # <<>> /\ eventQ' = Tail(eventQ)
      /\ log' = Append(log, e)
      /\ UNCHANGED <<emitted, cursor, Seen>>
  BY DEF DispatchSafetyEvent, clientVars, Seen
<1>2. log \in Seq(AnyEvent) /\ eventQ \in Seq(AnyEvent)
  BY DEF RingInv, EventTypes
<1>3. /\ \A j \in DOMAIN eventQ' :
           /\ j \in Nat /\ j # 0
           /\ j + 1 \in DOMAIN eventQ /\ eventQ'[j] = eventQ[j + 1]
      /\ 1 \in DOMAIN eventQ /\ e = eventQ[1]
  BY <1>1, <1>2
<1>4. e \in AnyEvent
  BY <1>2, <1>3
<1> HIDE DEF e
<1>5. \A i \in DOMAIN log' :
        \/ i \in DOMAIN log /\ log'[i] = log[i]
        \/ i = Len(log) + 1 /\ i \notin DOMAIN log /\ log'[i] = e
  BY <1>1, <1>2, <1>4
<1>6. /\ \A j \in DOMAIN eventQ' : eventQ'[j].n # e.n
      /\ \A i \in DOMAIN log : log[i].n # e.n
  <2>1. \A j \in DOMAIN eventQ' : j + 1 # 1
    BY <1>3
  <2> QED BY <1>3, <2>1 DEF PollInv, NumberInv
<1>7. \A i, j \in DOMAIN eventQ' : i # j => i + 1 # j + 1
  BY <1>3
<1>8. NumberInv'
  BY <1>1, <1>3, <1>5, <1>6, <1>7 DEF PollInv, NumberInv
<1>9. e.n \notin Seen
  BY <1>6 DEF PollInv, SeenInv
<1>10. \A i \in DOMAIN log : i \in DOMAIN log' /\ log'[i] = log[i]
  BY <1>1, <1>2, <1>4
<1>11. SeenInv'
  BY <1>1, <1>5, <1>9, <1>10 DEF PollInv, SeenInv
<1> QED BY <1>8, <1>11 DEF PollInv

(* A poll raises the cursor to the highest number that it returns.         *)
LEMMA PollPoll ==
  ASSUME RingInv, PollInv, GetRecentSafetyEvents
  PROVE  PollInv'
<1>1. /\ UNCHANGED <<events, eventQ, log, emitted>>
      /\ Seen' = Seen \cup {e.n : e \in Returned}
      /\ cursor' \in {e.seq : e \in Returned} \cup {cursor}
      /\ \A e \in Returned : cursor' >= e.seq
  BY PollReturns DEF RingInv
<1>2. \A e \in Returned :
        /\ e \in AnyEvent /\ e.seq \in Nat
        /\ e.seq # Odd /\ e.seq > cursor
        /\ \E i \in DOMAIN log : log[i] = e
  BY RingEvents, RingInLog
  DEF Returned, GetRecentSafetyEvents, EventsSinceRaises, AnyEvent
<1>3. cursor \in Nat /\ cursor' \in Nat /\ cursor <= cursor'
  BY <1>1, <1>2 DEF RingInv, EventTypes
<1>4. \A e \in Returned : e.seq <= cursor'
  BY <1>1, <1>2, <1>3
<1>6. ASSUME NEW i \in DOMAIN log, log[i].n \in Seen'
      PROVE  log[i].seq # Odd /\ log[i].seq <= cursor'
  <2>1. CASE log[i].n \in Seen
    <3>1. log[i] \in AnyEvent /\ log[i].seq # Odd /\ log[i].seq <= cursor
      BY <2>1 DEF PollInv, SeenInv, RingInv, EventTypes
    <3> QED BY <1>3, <3>1 DEF AnyEvent
  <2>2. CASE \E e \in Returned : log[i].n = e.n
    <3>1. PICK e \in Returned : log[i].n = e.n
      BY <2>2
    <3>2. log[i] = e
      BY <1>2, <3>1 DEF PollInv, NumberInv
    <3> QED BY <1>2, <1>4, <3>1, <3>2
  <2> QED BY <1>1, <1>6, <2>1, <2>2
<1>7. \A k \in Seen' : \E i \in DOMAIN log : log[i].n = k
  BY <1>1, <1>2 DEF PollInv, SeenInv
<1>8. NumberInv' /\ SeenInv'
  BY <1>1, <1>6, <1>7 DEF PollInv, NumberInv, SeenInv
<1> QED BY <1>8 DEF PollInv

LEMMA PollStep == ASSUME RingInv, PollInv, [Next]_vars PROVE PollInv'
<1>1. ASSUME \/ Tick
             \/ \E v \in {[sampled |-> now], None, Odd} : EmitState(v)
             \/ DispatchState \/ StateSettled
             \/ GetNoState \/ GetState \/ GetStateReturns
             \/ VendorRestart \/ UNCHANGED vars
      PROVE  /\ UNCHANGED <<log, eventQ, cursor, got>>
             /\ emitted'["safety_event"] = emitted["safety_event"]
  BY <1>1 DEF Tick, EmitState, DispatchState, StateSettled, GetNoState,
              GetState, GetStateReturns, VendorRestart, vars, vendorVars,
              clientVars, RingInv, EventTypes
<1>2. ASSUME UNCHANGED <<log, eventQ, cursor, got>>,
             emitted'["safety_event"] = emitted["safety_event"]
      PROVE  PollInv'
  BY <1>2 DEF PollInv, NumberInv, SeenInv, Seen
<1> QED BY <1>1, <1>2, EmitPoll, DropPoll, DispatchPoll, PollPoll DEF Next

-----------------------------------------------------------------------------
(* All polls together.                                                     *)

(* dora and the loop thread keep the order of the events, and what octos   *)
(* has got has left nothing behind it in the ring: an event that is still  *)
(* there and was emitted no later than one octos has got is not above the  *)
(* cursor.                                                                 *)
RiseInv ==
  /\ \A i \in DOMAIN log, j \in DOMAIN eventQ : log[i].n < eventQ[j].n
  /\ \A i, j \in DOMAIN eventQ : i < j => eventQ[i].n < eventQ[j].n
  /\ \A i, j \in DOMAIN log : i < j => log[i].n < log[j].n

BehindInv ==
  \A e \in InRing, k \in Seen : e.n <= k => e.seq # Odd /\ e.seq <= cursor

StreamInv == RiseInv /\ BehindInv

(* The ring is in the order in which its events were emitted.              *)
LEMMA RingRises ==
  ASSUME RingInv, StreamInv, NEW i \in DOMAIN events, NEW j \in DOMAIN events,
         i < j
  PROVE  events[i].n < events[j].n
<1> DEFINE d == Len(log) - Len(events)
<1>1. /\ Len(events) \in Nat /\ Len(log) \in Nat /\ Len(events) <= Len(log)
      /\ DOMAIN events = 1 .. Len(events) /\ DOMAIN log = 1 .. Len(log)
  BY StateCacheAssumption DEF RingInv, EventTypes, RingIsTail
<1>2. d \in Nat /\ d + i \in DOMAIN log /\ d + j \in DOMAIN log /\ d + i < d + j
  BY <1>1
<1>3. events[i] = log[d + i] /\ events[j] = log[d + j]
  BY DEF RingInv, RingIsTail
<1> HIDE DEF d
<1> QED BY <1>2, <1>3 DEF StreamInv, RiseInv

LEMMA EmitStream ==
  ASSUME RingInv, PollInv, StreamInv, NEW s \in {seq + 1, 0, Odd}, EmitEvent(s)
  PROVE  StreamInv'
<1> DEFINE m == emitted["safety_event"]
<1> DEFINE e == [seq |-> s, boot |-> boot, n |-> m + 1]
<1>1. /\ eventQ' = Append(eventQ, e)
      /\ UNCHANGED <<events, log, cursor, Seen>>
  BY DEF EmitEvent, cacheVars, clientVars, Seen
<1>2. m \in Nat /\ e.n = m + 1
  BY DEF RingInv, EventTypes
<1>3. /\ \A i \in DOMAIN log : log[i].n \in Nat
      /\ \A j \in DOMAIN eventQ : eventQ[j].n \in Nat /\ j <= Len(eventQ)
  <2>1. /\ \A i \in DOMAIN log : log[i] \in AnyEvent
        /\ \A j \in DOMAIN eventQ : eventQ[j] \in AnyEvent /\ j <= Len(eventQ)
    BY DEF RingInv, EventTypes
  <2> QED BY <2>1 DEF AnyEvent
<1> HIDE DEF m, e
<1>4. \A j \in DOMAIN eventQ' :
        \/ j \in DOMAIN eventQ /\ eventQ'[j] = eventQ[j]
        \/ j = Len(eventQ) + 1 /\ eventQ'[j] = e
  BY <1>1 DEF RingInv, EventTypes
<1>5. /\ \A i \in DOMAIN log : log[i].n < e.n
      /\ \A j \in DOMAIN eventQ : eventQ[j].n < e.n
  BY <1>2, <1>3 DEF PollInv, NumberInv, m
<1>6. Len(eventQ) \in Nat /\ DOMAIN eventQ' \subseteq Nat
  BY <1>1 DEF RingInv, EventTypes
<1>7. RiseInv'
  <2>1. \A i \in DOMAIN log', j \in DOMAIN eventQ' : log'[i].n < eventQ'[j].n
    BY <1>1, <1>4, <1>5 DEF StreamInv, RiseInv
  <2>2. ASSUME NEW i \in DOMAIN eventQ', NEW j \in DOMAIN eventQ', i < j
        PROVE  eventQ'[i].n < eventQ'[j].n
    <3>1. i \in DOMAIN eventQ /\ eventQ'[i] = eventQ[i]
      BY <1>3, <1>4, <1>6, <2>2
    <3> QED BY <1>4, <1>5, <2>2, <3>1 DEF StreamInv, RiseInv
  <2> QED BY <1>1, <2>1, <2>2 DEF StreamInv, RiseInv
<1>8. BehindInv'
  BY <1>1 DEF StreamInv, BehindInv, InRing
<1> QED BY <1>7, <1>8 DEF StreamInv

LEMMA DropStream == ASSUME RingInv, StreamInv, Drop PROVE StreamInv'
<1>1. UNCHANGED <<events, log, cursor, Seen>>
  BY DEF Drop, cacheVars, clientVars, Seen
<1>2. CASE eventQ # <<>> /\ eventQ' = Tail(eventQ)
  <2>1. \A j \in DOMAIN eventQ' :
          j \in Nat /\ j + 1 \in DOMAIN eventQ /\ eventQ'[j] = eventQ[j + 1]
    BY <1>2 DEF RingInv, EventTypes
  <2>2. \A i, j \in DOMAIN eventQ' : i < j => i + 1 < j + 1
    BY <2>1
  <2> QED BY <1>1, <2>1, <2>2 DEF StreamInv, RiseInv, BehindInv, InRing
<1>3. CASE UNCHANGED eventQ
  BY <1>1, <1>3 DEF StreamInv, RiseInv, BehindInv, InRing
<1> QED BY <1>2, <1>3 DEF Drop

(* What comes into the ring is later than all octos has got.               *)
LEMMA DispatchStream ==
  ASSUME RingInv, PollInv, StreamInv, DispatchSafetyEvent
  PROVE  StreamInv'
<1> DEFINE e == Head(eventQ)
<1>1. /\ eventQ # <<>> /\ eventQ' = Tail(eventQ)
      /\ log' = Append(log, e)
      /\ UNCHANGED <<cursor, Seen>>
  BY DEF DispatchSafetyEvent, clientVars, Seen
<1>2. log \in Seq(AnyEvent) /\ eventQ \in Seq(AnyEvent) /\ events \in Seq(AnyEvent)
  BY DEF RingInv, EventTypes
<1>3. /\ \A j \in DOMAIN eventQ' :
           /\ j \in Nat /\ j # 0
           /\ j + 1 \in DOMAIN eventQ /\ eventQ'[j] = eventQ[j + 1]
      /\ 1 \in DOMAIN eventQ /\ e = eventQ[1]
  BY <1>1, <1>2
<1>4. e \in AnyEvent /\ e.n \in Nat
  <2>1. e \in AnyEvent
    BY <1>2, <1>3
  <2> HIDE DEF e
  <2> QED BY <2>1 DEF AnyEvent
<1> HIDE DEF e
<1>5. \A i \in DOMAIN log' :
        \/ i \in DOMAIN log /\ log'[i] = log[i]
        \/ i = Len(log) + 1 /\ log'[i] = e
  BY <1>1, <1>2, <1>4
<1>6. /\ \A j \in DOMAIN eventQ' : e.n < eventQ'[j].n
      /\ \A i \in DOMAIN log : log[i].n < e.n
  <2>1. \A j \in DOMAIN eventQ' : 1 < j + 1
    BY <1>3
  <2> QED BY <1>3, <2>1 DEF StreamInv, RiseInv
<1>7. \A i, j \in DOMAIN eventQ' : i < j => i + 1 < j + 1
  BY <1>3
<1>8. RiseInv'
  <2>1. /\ \A i \in DOMAIN log', j \in DOMAIN eventQ' : log'[i].n < eventQ'[j].n
        /\ \A i, j \in DOMAIN eventQ' : i < j => eventQ'[i].n < eventQ'[j].n
    BY <1>3, <1>5, <1>6, <1>7 DEF StreamInv, RiseInv
  <2>2. ASSUME NEW i \in DOMAIN log', NEW j \in DOMAIN log', i < j
        PROVE  log'[i].n < log'[j].n
    <3>1. i \in DOMAIN log /\ log'[i] = log[i]
      BY <1>1, <1>2, <1>4, <2>2
    <3> QED BY <1>5, <1>6, <2>2, <3>1 DEF StreamInv, RiseInv
  <2> QED BY <2>1, <2>2 DEF RiseInv
<1>9. \A f \in InRing' : f \in InRing \/ f = e
  <2>1. \/ events' = Append(events, e)
        \/ events # <<>> /\ events' = Append(Tail(events), e)
    <3>1. Len(events) < RingSize \/ events # <<>>
      BY <1>2, StateCacheAssumption
    <3> QED BY <3>1 DEF DispatchSafetyEvent, AppendSafetyEvent, e
  <2>2. \A i \in DOMAIN events' :
          \/ \E j \in DOMAIN events : events'[i] = events[j]
          \/ events'[i] = e
    <3>1. CASE events' = Append(events, e)
      BY <1>2, <1>4, <3>1
    <3>2. CASE events # <<>> /\ events' = Append(Tail(events), e)
      <4>1. /\ Tail(events) \in Seq(AnyEvent)
            /\ \A i \in DOMAIN Tail(events) :
                 i + 1 \in DOMAIN events /\ Tail(events)[i] = events[i + 1]
        BY <1>2, <3>2
      <4>2. \A i \in DOMAIN events' :
              \/ i \in DOMAIN Tail(events) /\ events'[i] = Tail(events)[i]
              \/ events'[i] = e
        BY <1>4, <3>2, <4>1
      <4> QED BY <4>1, <4>2
    <3> QED BY <2>1, <3>1, <3>2
  <2> QED BY <2>2 DEF InRing
<1>10. \A k \in Seen : ~(e.n <= k)
  <2>1. \A i \in DOMAIN log : log[i] \in AnyEvent
    BY <1>2
  <2>2. \A i \in DOMAIN log : log[i].n \in Nat
    BY <2>1 DEF AnyEvent
  <2> QED BY <1>4, <1>6, <2>2 DEF PollInv, SeenInv
<1>11. BehindInv'
  BY <1>1, <1>9, <1>10 DEF StreamInv, BehindInv
<1> QED BY <1>8, <1>11 DEF StreamInv

(* A poll returns what is above the cursor, so nothing that is behind what *)
(* octos has got, and puts the cursor above all that it leaves.            *)
LEMMA PollStream ==
  ASSUME TypeOK, RingInv, PollInv, StreamInv, GetRecentSafetyEvents
  PROVE  StreamInv' /\ [AbstractStream!Next]_AbstractStream!vars
<1> DEFINE m == emitted["safety_event"]
           A == EventsSince(cursor)
           B == [i \in DOMAIN A |-> A[i].n]
<1>1. /\ UNCHANGED <<events, eventQ, log, emitted>>
      /\ Seen' = Seen \cup {e.n : e \in Returned}
      /\ cursor' \in {e.seq : e \in Returned} \cup {cursor}
      /\ \A e \in Returned : cursor' >= e.seq
  BY PollReturns DEF RingInv
<1>2. \A e \in InRing :
        /\ e \in AnyEvent /\ e.seq \in Nat /\ e.seq # Odd
        /\ e.n \in 1 .. m
  <2>1. ASSUME NEW e \in InRing
        PROVE  e \in AnyEvent /\ e.seq # Odd /\ e \in Events /\ e.n <= m
    <3>1. e \in AnyEvent /\ e.seq # Odd
      BY RingEvents DEF GetRecentSafetyEvents, EventsSinceRaises
    <3>2. e \in Events
      BY DEF TypeOK, InRing
    <3>3. PICK i \in DOMAIN log : log[i] = e
      BY RingInLog
    <3> QED BY <3>1, <3>2, <3>3 DEF PollInv, NumberInv
  <2>2. m \in Nat
    BY DEF RingInv, EventTypes
  <2> HIDE DEF m
  <2> QED BY <2>1, <2>2, FeedsAssumption DEF AnyEvent, Events
<1>3. \A e \in Returned : e \in InRing /\ e.seq > cursor
  BY DEF Returned
<1>4. cursor \in Nat /\ cursor' \in Nat /\ cursor <= cursor'
  BY <1>1, <1>2, <1>3 DEF RingInv, EventTypes
<1>5. \A e \in InRing : e.seq <= cursor'
  <2>1. ASSUME NEW e \in InRing, e.seq > cursor PROVE e.seq <= cursor'
    BY <1>1, <1>2, <1>4, <2>1 DEF Returned
  <2> QED BY <1>2, <1>4, <2>1
<1>6. StreamInv'
  <2>1. \A e \in InRing' : e.seq # Odd /\ e.seq <= cursor'
    BY <1>1, <1>2, <1>5 DEF InRing
  <2>2. RiseInv'
    BY <1>1 DEF StreamInv, RiseInv
  <2> QED BY <2>1, <2>2 DEF StreamInv, BehindInv
<1>7. /\ DOMAIN A \subseteq DOMAIN events
      /\ \A i \in DOMAIN A : A[i] = events[i] /\ A[i] \in Returned
  BY DEF EventsSince, Returned, InRing
<1>8. got' = IF DOMAIN A = {} THEN got ELSE Append(got, B)
  BY DEF GetRecentSafetyEvents
<1> HIDE DEF A, m
<1>9. \A i \in DOMAIN B : B[i] = events[i].n /\ B[i] \in 1 .. m
  BY <1>2, <1>3, <1>7
<1>10. \A i, j \in DOMAIN B : i < j => B[i] < B[j]
  BY <1>7, <1>9, RingRises
<1>11. \A k \in DOMAIN got : \A j \in DOMAIN got[k], i \in DOMAIN B : got[k][j] < B[i]
  <2>1. ASSUME NEW k \in DOMAIN got, NEW j \in DOMAIN got[k], NEW i \in DOMAIN B
        PROVE  got[k][j] < B[i]
    <3>1. got[k][j] \in Seen /\ got[k][j] \in Nat
      <4>1. PICK I \in SUBSET Nat : got[k] \in [I -> Nat]
        BY DEF RingInv, AnswerTypes, AnyAnswer
      <4>2. got[k][j] \in Nat
        <5>1. j \in I
          BY <4>1
        <5> QED BY <4>1, <5>1
      <4> QED BY <4>2 DEF Seen
    <3>2. A[i] \in Returned /\ B[i] = A[i].n /\ A[i].n \in Nat
      BY <1>2, <1>3, <1>7 DEF AnyEvent
    <3>3. ~(A[i].n <= got[k][j])
      BY <1>2, <1>3, <1>4, <3>1, <3>2 DEF StreamInv, BehindInv
    <3> QED BY <3>1, <3>2, <3>3
  <2> QED BY <2>1
<1> HIDE DEF B
<1>12. CASE DOMAIN A = {}
  BY <1>1, <1>6, <1>8, <1>12 DEF AbstractStream!vars
<1>13. CASE DOMAIN A # {}
  <2>1. got' = Append(got, B) /\ got \in Seq(AnyAnswer)
    BY <1>8, <1>13 DEF RingInv, AnswerTypes
  <2>2. got' # <<>> /\ got'[Len(got')] = B
    <3>1. B \in AnyAnswer
      <4>1. DOMAIN A \in SUBSET Nat /\ B \in [DOMAIN A -> Nat]
        <5>1. DOMAIN events \subseteq Nat
          BY DEF RingInv, EventTypes
        <5>2. \A i \in DOMAIN A : B[i] \in Nat
          BY <1>2, <1>3, <1>7 DEF B, AnyEvent
        <5>3. B = [i \in DOMAIN A |-> B[i]]
          BY DEF B
        <5> QED BY <1>7, <5>1, <5>2, <5>3
      <4> QED BY <4>1 DEF AnyAnswer
    <3> QED BY <2>1, <3>1
  <2>3. AbstractStream!Poll(B)
    BY <1>1, <1>9, <1>10, <1>11, <2>1 DEF AbstractStream!Poll, m
  <2> QED BY <1>6, <2>2, <2>3 DEF AbstractStream!Next
<1> QED BY <1>12, <1>13

LEMMA StreamStep ==
  ASSUME TypeOK, RingInv, PollInv, StreamInv, [Next]_vars
  PROVE  /\ StreamInv'
         /\ [AbstractStream!Next]_AbstractStream!vars
<1>1. ASSUME \/ Tick
             \/ \E v \in {[sampled |-> now], None, Odd} : EmitState(v)
             \/ DispatchState \/ StateSettled
             \/ GetNoState \/ GetState \/ GetStateReturns
             \/ VendorRestart \/ UNCHANGED vars
      PROVE  /\ UNCHANGED <<events, log, eventQ, cursor, got>>
             /\ emitted'["safety_event"] = emitted["safety_event"]
  BY <1>1 DEF Tick, EmitState, DispatchState, SetState, StateSettled,
              SetStateTs, GetNoState, NoSnapshot, GetState, SnapshotAge,
              GetStateReturns, SnapshotCopy, VendorRestart, vars, cacheVars,
              vendorVars, clientVars, RingInv, EventTypes
<1>2. ASSUME UNCHANGED <<events, log, eventQ, cursor, got>>,
             emitted'["safety_event"] = emitted["safety_event"]
      PROVE  StreamInv' /\ UNCHANGED AbstractStream!vars
  BY <1>2 DEF StreamInv, RiseInv, BehindInv, InRing, Seen, AbstractStream!vars
<1>3. ASSUME Drop \/ DispatchSafetyEvent
      PROVE  UNCHANGED AbstractStream!vars
  BY <1>3 DEF Drop, DispatchSafetyEvent, vendorVars, clientVars,
              AbstractStream!vars
<1>4. ASSUME NEW s \in {seq + 1, 0, Odd}, EmitEvent(s)
      PROVE  AbstractStream!Emit
  BY <1>4 DEF EmitEvent, clientVars, AbstractStream!Emit, RingInv, EventTypes
<1> QED BY <1>1, <1>2, <1>3, <1>4, EmitStream, DropStream, DispatchStream,
           PollStream DEF Next, AbstractStream!Next

(* The polls, whatever is dropped, restarted, misnumbered or refused, give *)
(* octos the events in their order and none of them twice.                 *)
THEOREM PollsAreAStream == Spec => EventStreamSpec
<1>1. Init => PollInv /\ StreamInv
  <2>1. Init => log = <<>> /\ eventQ = <<>> /\ events = <<>> /\ got = <<>>
    BY DEF Init, CacheInit
  <2>2. Init => InRing = {} /\ Seen = {}
    BY <2>1 DEF InRing, Seen
  <2> QED BY <2>1, <2>2 DEF PollInv, NumberInv, SeenInv, StreamInv, RiseInv,
             BehindInv
<1>2. Init => AbstractStream!Init
  BY DEF Init, AbstractStream!Init
<1>3. TypeOK /\ RingInv /\ PollInv /\ StreamInv /\ [Next]_vars =>
        /\ PollInv' /\ StreamInv'
        /\ [AbstractStream!Next]_AbstractStream!vars
  BY PollStep, StreamStep
<1>4. TypeInv => TypeOK
  BY DEF TypeInv
<1> QED BY <1>1, <1>2, <1>3, <1>4, RingInvariance, TypeInvariance, PTL
        DEF Spec, EventStreamSpec, AbstractStream!Spec

-----------------------------------------------------------------------------
(* Answers of get_state one after the other.                               *)

Sample(v) == v \notin {None, Odd}

Older(v, w) == Sample(v) /\ Sample(w) => v.sampled <= w.sampled

(* The payloads are in the order of their times: what was served, what the *)
(* cache has, what is on its way, now.                                     *)
TimeInv ==
  /\ \A i \in DOMAIN stateQ : Older(state, stateQ[i])
  /\ \A i, j \in DOMAIN stateQ : i < j => Older(stateQ[i], stateQ[j])
  /\ \A v \in {state} \cup {stateQ[i] : i \in DOMAIN stateQ} :
       Sample(v) => v.sampled <= now
  /\ StateServed =>
       /\ served.data.stream \in States /\ Sample(served.data.stream)
       /\ Older(served.data.stream, state)
       /\ \A i \in DOMAIN stateQ : Older(served.data.stream, stateQ[i])
       /\ served.data.stream.sampled <= now

LEMMA SampledType ==
  ASSUME NEW v \in States, Sample(v) PROVE v.sampled \in 0 .. MaxTime
  BY DEF States, Sample

LEMMA EmitStateTime ==
  ASSUME TypeOK, TimeInv, NEW v \in {[sampled |-> now], None, Odd}, EmitState(v)
  PROVE  TimeInv'
<1>1. /\ stateQ' = Append(stateQ, v) /\ stateQ \in Seq(States)
      /\ UNCHANGED <<now, state, served>>
  BY DEF EmitState, TypeOK, cacheVars, stampVars, clientVars
<1>2. now \in 0 .. MaxTime /\ now \in Nat /\ state \in States
  BY FeedsAssumption DEF TypeOK
<1>3. v \in States /\ (Sample(v) => v.sampled = now)
  BY <1>2 DEF States, Sample
<1>4. \A i \in DOMAIN stateQ' :
        \/ i \in DOMAIN stateQ /\ stateQ'[i] = stateQ[i]
        \/ i = Len(stateQ) + 1 /\ stateQ'[i] = v
  BY <1>1, <1>3
<1>5. \A i \in DOMAIN stateQ : i <= Len(stateQ) /\ i \in Nat
  BY <1>1
<1>6. Sample(v) => v.sampled <= now
  BY <1>2, <1>3
<1>7. /\ Older(state, v)
      /\ \A i \in DOMAIN stateQ : Older(stateQ[i], v)
      /\ StateServed => Older(served.data.stream, v)
  <2> SUFFICES ASSUME Sample(v)
               PROVE  /\ Sample(state) => state.sampled <= now
                      /\ \A i \in DOMAIN stateQ :
                           Sample(stateQ[i]) => stateQ[i].sampled <= now
                      /\ StateServed => served.data.stream.sampled <= now
    BY <1>3 DEF Older
  <2> QED BY DEF TimeInv
<1>8. \A i \in DOMAIN stateQ' : Older(state, stateQ'[i])
  BY <1>4, <1>7 DEF TimeInv
<1>9. ASSUME NEW i \in DOMAIN stateQ', NEW j \in DOMAIN stateQ', i < j
      PROVE  Older(stateQ'[i], stateQ'[j])
  <2>1. i \in DOMAIN stateQ /\ stateQ'[i] = stateQ[i]
    <3>1. Len(stateQ) \in Nat
      BY <1>1
    <3> QED BY <1>4, <1>5, <1>9, <3>1
  <2> QED BY <1>4, <1>7, <1>9, <2>1 DEF TimeInv
<1>10. \A w \in {state} \cup {stateQ'[i] : i \in DOMAIN stateQ'} :
         Sample(w) => w.sampled <= now
  BY <1>4, <1>6 DEF TimeInv
<1>11. StateServed => \A i \in DOMAIN stateQ' : Older(served.data.stream, stateQ'[i])
  BY <1>4, <1>7 DEF TimeInv
<1> QED BY <1>1, <1>8, <1>9, <1>10, <1>11 DEF TimeInv, StateServed, Older, Sample

(* Whatever leaves the head of the queue, the rest stays in order, and the *)
(* cache may take its place.                                               *)
LEMMA TakeStateTime ==
  ASSUME TypeOK, TimeInv, stateQ # <<>>, stateQ' = Tail(stateQ),
         UNCHANGED <<now, served>>, state' \in {state, Head(stateQ)}
  PROVE  TimeInv'
<1>1. /\ 1 \in DOMAIN stateQ /\ Head(stateQ) = stateQ[1]
      /\ \A i \in DOMAIN stateQ' :
           i \in Nat /\ 1 < i + 1 /\ i + 1 \in DOMAIN stateQ
           /\ stateQ'[i] = stateQ[i + 1]
  <2>1. stateQ \in Seq(States)
    BY DEF TypeOK
  <2>2. /\ 1 \in DOMAIN stateQ /\ Head(stateQ) = stateQ[1]
        /\ \A i \in DOMAIN Tail(stateQ) :
             i \in Nat /\ 1 < i + 1 /\ i + 1 \in DOMAIN stateQ
             /\ Tail(stateQ)[i] = stateQ[i + 1]
    <3>1. Len(stateQ) \in Nat \ {0} /\ DOMAIN stateQ = 1 .. Len(stateQ)
      BY <2>1
    <3>2. /\ Tail(stateQ) \in Seq(States)
          /\ Len(Tail(stateQ)) = Len(stateQ) - 1
          /\ \A i \in 1 .. Len(stateQ) - 1 : Tail(stateQ)[i] = stateQ[i + 1]
      BY <2>1
    <3>3. DOMAIN Tail(stateQ) = 1 .. Len(stateQ) - 1
      BY <3>2
    <3>4. Head(stateQ) = stateQ[1]
      BY <2>1
    <3> QED BY <3>1, <3>2, <3>3, <3>4
  <2> QED BY <2>2
<1>2. \A i, j \in DOMAIN stateQ' : i < j => i + 1 < j + 1
  BY <1>1
<1>3. state' = state \/ state' = stateQ[1]
  BY <1>1
<1>4. \A i \in DOMAIN stateQ' : Older(state', stateQ'[i])
  BY <1>1, <1>3 DEF TimeInv
<1>5. \A i, j \in DOMAIN stateQ' : i < j => Older(stateQ'[i], stateQ'[j])
  BY <1>1, <1>2 DEF TimeInv
<1>6. \A v \in {state'} \cup {stateQ'[i] : i \in DOMAIN stateQ'} :
        Sample(v) => v.sampled <= now
  BY <1>1, <1>3 DEF TimeInv
<1>7. StateServed =>
        /\ Older(served.data.stream, state')
        /\ \A i \in DOMAIN stateQ' : Older(served.data.stream, stateQ'[i])
  BY <1>1, <1>3 DEF TimeInv
<1> QED BY <1>4, <1>5, <1>6, <1>7 DEF TimeInv, StateServed, Older, Sample

(* What is served is what the cache has, and that is not older than what   *)
(* was served before.                                                      *)
LEMMA GetStateTime ==
  ASSUME TypeOK, TimeInv, GetStateReturns
  PROVE  /\ TimeInv'
         /\ StateServed /\ StateServed' =>
              served.data.stream.sampled <= served'.data.stream.sampled
<1>1. UNCHANGED <<now, state, stateQ>>
  BY DEF GetStateReturns, SnapshotCopy, vendorVars
<1>2. StateServed' => /\ served'.data.stream = state
                      /\ state \in States /\ Sample(state)
  <2>1. CASE SnapshotRaises
    <3>1. served' = [code |-> "ERROR"]
      BY <2>1 DEF GetStateReturns
    <3> QED BY <3>1 DEF StateServed
  <2>2. CASE ~SnapshotRaises
    <3>1. served'.data.stream = state
      BY <2>2 DEF GetStateReturns, Snapshot
    <3>2. StateServed' => state # None
      BY <3>1 DEF StateServed
    <3> QED BY <2>2, <3>1, <3>2 DEF SnapshotRaises, Sample, TypeOK
  <2> QED BY <2>1, <2>2
<1>3. TimeInv'
  <2>1. /\ \A i \in DOMAIN stateQ' : Older(state', stateQ'[i])
        /\ \A i, j \in DOMAIN stateQ' : i < j => Older(stateQ'[i], stateQ'[j])
        /\ \A v \in {state'} \cup {stateQ'[i] : i \in DOMAIN stateQ'} :
             Sample(v) => v.sampled <= now'
    BY <1>1 DEF TimeInv
  <2>2. Sample(state) => state.sampled <= state.sampled
    <3>1. Sample(state) => state.sampled \in 0 .. MaxTime
      BY SampledType DEF TypeOK
    <3> QED BY <3>1
  <2>3. StateServed' =>
          /\ served'.data.stream \in States /\ Sample(served'.data.stream)
          /\ Older(served'.data.stream, state')
          /\ \A i \in DOMAIN stateQ' : Older(served'.data.stream, stateQ'[i])
          /\ served'.data.stream.sampled <= now'
    BY <1>1, <1>2, <2>1, <2>2 DEF Older
  <2> QED BY <2>1, <2>3 DEF TimeInv, Older, Sample
<1>4. StateServed /\ StateServed' =>
        served.data.stream.sampled <= served'.data.stream.sampled
  BY <1>2 DEF TimeInv, Older
<1> QED BY <1>3, <1>4

LEMMA TimeStep ==
  ASSUME TypeOK, TimeInv, [Next]_vars
  PROVE  /\ TimeInv'
         /\ StateServed /\ StateServed' =>
              served.data.stream.sampled <= served'.data.stream.sampled
<1>1. ASSUME UNCHANGED <<served>>, StateServed
      PROVE  served.data.stream.sampled <= served'.data.stream.sampled
  <2>1. served.data.stream.sampled \in 0 .. MaxTime
    BY <1>1, SampledType DEF TimeInv
  <2> QED BY <1>1, <2>1
<1>2. CASE Tick
  <2>1. now' = now + 1 /\ now \in Nat /\ UNCHANGED <<state, stateQ, served>>
    BY <1>2 DEF Tick, TypeOK, cacheVars, stampVars, vendorVars, clientVars
  <2>2. ASSUME NEW v \in States, Sample(v), v.sampled <= now
        PROVE  v.sampled <= now'
    BY <2>1, <2>2, SampledType
  <2>3. state \in States /\ \A i \in DOMAIN stateQ : stateQ[i] \in States
    BY DEF TypeOK
  <2>4. TimeInv'
    BY <2>1, <2>2, <2>3 DEF TimeInv, StateServed, Older, Sample
  <2> QED BY <2>1, <2>4, <1>1
<1>3. ASSUME NEW v \in {[sampled |-> now], None, Odd}, EmitState(v)
      PROVE  TimeInv' /\ UNCHANGED <<served>>
  BY <1>3, EmitStateTime DEF EmitState, clientVars
<1>4. CASE DispatchState
  <2>1. /\ stateQ # <<>> /\ stateQ' = Tail(stateQ) /\ state' = Head(stateQ)
        /\ UNCHANGED <<now, served>>
    BY <1>4 DEF DispatchState, SetState, clientVars
  <2> QED BY <2>1, <1>1, TakeStateTime
<1>5. CASE stateQ # <<>> /\ stateQ' = Tail(stateQ) /\ Drop
  <2>1. UNCHANGED <<now, state, served>>
    BY <1>5 DEF Drop, cacheVars, stampVars, clientVars
  <2> QED BY <1>5, <2>1, <1>1, TakeStateTime
<1>6. ASSUME \/ Drop /\ UNCHANGED stateQ
             \/ \E s \in {seq + 1, 0, Odd} : EmitEvent(s)
             \/ VendorRestart \/ DispatchSafetyEvent
             \/ StateSettled \/ GetState
             \/ GetRecentSafetyEvents \/ UNCHANGED vars
      PROVE  UNCHANGED <<now, state, stateQ, served>>
  <2>1. CASE \E s \in {seq + 1, 0, Odd} : EmitEvent(s)
    BY <2>1 DEF EmitEvent, cacheVars, stampVars, clientVars
  <2>2. CASE (Drop /\ UNCHANGED stateQ) \/ VendorRestart
    BY <2>2 DEF Drop, VendorRestart, cacheVars, stampVars, clientVars
  <2>3. CASE StateSettled \/ GetState
    BY <2>3 DEF StateSettled, SetStateTs, GetState, SnapshotAge, vendorVars,
                clientVars
  <2>4. CASE DispatchSafetyEvent
    BY <2>4 DEF DispatchSafetyEvent, AppendSafetyEvent, stampVars, clientVars
  <2>5. CASE GetRecentSafetyEvents \/ UNCHANGED vars
    BY <2>5 DEF GetRecentSafetyEvents, vars, cacheVars, stampVars, vendorVars,
                clientVars
  <2> QED BY <1>6, <2>1, <2>2, <2>3, <2>4, <2>5
<1>7. ASSUME UNCHANGED <<now, state, stateQ, served>>
      PROVE  TimeInv' /\ UNCHANGED <<served>>
  BY <1>7 DEF TimeInv, StateServed, Older, Sample
<1>8. CASE GetStateReturns
  BY <1>8, GetStateTime
<1>10. CASE GetNoState
  <2>1. ~StateServed' /\ UNCHANGED <<now, state, stateQ>>
    BY <1>10 DEF GetNoState, NoSnapshot, cacheVars, stampVars, vendorVars,
                 StateServed
  <2>2. TimeInv'
    BY <2>1 DEF TimeInv, Older, Sample
  <2> QED BY <2>1, <2>2
<1>9. Drop => UNCHANGED stateQ \/ (stateQ # <<>> /\ stateQ' = Tail(stateQ))
  BY DEF Drop
<1> QED BY <1>1, <1>2, <1>3, <1>4, <1>5, <1>6, <1>7, <1>8, <1>9,
           <1>10 DEF Next

(* octos is never told of an older state after a newer one, because dora   *)
(* and the loop thread keep the order and the cache only ever goes on.     *)
THEOREM StatesComeInOrder == Spec => StatesInOrder
<1>1. Init => TimeInv
  BY DEF Init, CacheInit, TimeInv, StateServed, Sample, Older
<1>2. TypeOK /\ TimeInv /\ [Next]_vars => TimeInv'
  BY TimeStep
<1>3. TypeOK /\ TimeInv /\ [Next]_vars =>
        [StateServed /\ StateServed' =>
           served.data.stream.sampled <= served'.data.stream.sampled]_vars
  BY TimeStep
<1>4. TypeInv => TypeOK
  BY DEF TypeInv
<1> QED BY <1>1, <1>2, <1>3, <1>4, TypeInvariance, PTL DEF Spec, StatesInOrder

=============================================================================
