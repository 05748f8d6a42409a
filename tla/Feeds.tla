------------------------------- MODULE Feeds -------------------------------
(***************************************************************************)
(* The two vendor streams octos can only poll: robot.state and the safety  *)
(* events.  The vendor emits on dora outputs, dora delivers each of them   *)
(* in order or not at all, the loop thread (dora_loop.py, _dispatch) puts  *)
(* them into the StateCache, and the synthetic tools get_state and         *)
(* get_recent_safety_events (http_api.py, invoke_tool) read it.            *)
(*                                                                         *)
(* A safety event carries the seq its vendor numbers it with: 0 stands for *)
(* none, Odd for one that is not a number.  A restarted vendor numbers     *)
(* from 1 again.  boot and n are history: which run of the vendor emitted  *)
(* it, and as what number of all.                                          *)
(*                                                                         *)
(* octos is a client that polls with "since" at the highest seq it got.    *)
(***************************************************************************)
EXTENDS StateCache

CONSTANTS
  MaxTime,    \* bound on the clock
  MaxEvents,  \* bound on the safety events emitted
  MaxBoots,   \* bound on the runs of the vendor
  MaxStates,  \* bound on the state payloads emitted
  MaxQueue    \* bound on the payloads of one output on their way

ASSUME FeedsAssumption ==
  /\ None \notin Int /\ Odd \notin Int
  /\ \A b \in {MaxTime, MaxEvents, MaxBoots, MaxStates, MaxQueue} : b \in Nat
  /\ MaxBoots # 0

VARIABLES
  stateQ,      \* robot.state payloads on their way
  eventQ,      \* safety events on their way
  emitted,     \* how many payloads the vendor has emitted on each output
  boot,        \* how often the vendor was started
  seq,         \* the last seq this run of the vendor gave
  log,         \* history: all events the ring was ever given
  receivedAt,  \* history: when the loop thread received the current state
  settledAt,   \* history: when the last set_state was done
  cursor,      \* the highest seq octos has got
  got,         \* the answers of its polls that had events, one after the
               \* other, each event by its n
  served       \* the last answer of get_state, and what was true of it then

vendorVars == <<stateQ, eventQ, emitted, boot, seq>>
timeVars == <<receivedAt, settledAt>>
clientVars == <<cursor, got, served>>
vars == <<now, cacheVars, vendorVars, log, timeVars, clientVars>>

(* A state payload: an object with the time the vendor sampled it, JSON    *)
(* null, or other JSON.                                                    *)
States == [sampled : 0 .. MaxTime] \cup {None, Odd}

Events ==
  [seq : (0 .. MaxEvents) \cup {Odd}, boot : 1 .. MaxBoots, n : 1 .. MaxEvents]

(* What a poll can be answered with, see EventsSince.                      *)
Answers == UNION {[I -> 1 .. MaxEvents] : I \in SUBSET (1 .. RingSize)}

(* The events octos has got.                                               *)
Seen == UNION {{got[m][i] : i \in DOMAIN got[m]} : m \in DOMAIN got}

TypeOK ==
  /\ now \in 0 .. MaxTime
  /\ state \in States
  /\ stateTs \in 0 .. MaxTime
  /\ events \in Seq(Events) /\ Len(events) <= RingSize
  /\ lock \in {None, "loop", "handler"}
  /\ writing \in BOOLEAN
  /\ reading \in [age : 0 .. MaxTime, at : 0 .. MaxTime] \cup {None}
  /\ stateQ \in Seq(States) /\ Len(stateQ) <= MaxQueue
  /\ eventQ \in Seq(Events) /\ Len(eventQ) <= MaxQueue
  /\ emitted \in [{"state", "safety_event"} -> Nat]
  /\ boot \in 1 .. MaxBoots
  /\ seq \in 0 .. MaxEvents
  /\ log \in Seq(Events)
  /\ receivedAt \in 0 .. MaxTime /\ settledAt \in 0 .. MaxTime
  /\ cursor \in 0 .. MaxEvents
  /\ got \in Seq(Answers)

Init ==
  /\ now = 0
  /\ CacheInit
  /\ stateQ = <<>>
  /\ eventQ = <<>>
  /\ emitted = [o \in {"state", "safety_event"} |-> 0]
  /\ boot = 1
  /\ seq = 0
  /\ log = <<>>
  /\ receivedAt = 0
  /\ settledAt = 0
  /\ cursor = 0
  /\ got = <<>>
  /\ served = None

-----------------------------------------------------------------------------
(* Time, the vendor node and dora.                                         *)

Tick ==
  /\ now < MaxTime
  /\ now' = now + 1
  /\ UNCHANGED <<cacheVars, vendorVars, log, timeVars, clientVars>>

EmitState(v) ==
  /\ emitted["state"] < MaxStates
  /\ Len(stateQ) < MaxQueue
  /\ stateQ' = Append(stateQ, v)
  /\ emitted' = [emitted EXCEPT !["state"] = @ + 1]
  /\ UNCHANGED <<now, cacheVars, eventQ, boot, seq, log, timeVars,
                 clientVars>>

(* s is the seq it carries: the next number, none, or not a number.        *)
EmitEvent(s) ==
  /\ emitted["safety_event"] < MaxEvents
  /\ Len(eventQ) < MaxQueue
  /\ eventQ' = Append(eventQ, [seq |-> s, boot |-> boot,
                               n |-> emitted["safety_event"] + 1])
  /\ seq' = IF s = seq + 1 THEN s ELSE seq
  /\ emitted' = [emitted EXCEPT !["safety_event"] = @ + 1]
  /\ UNCHANGED <<now, cacheVars, stateQ, boot, log, timeVars, clientVars>>

VendorRestart ==
  /\ boot < MaxBoots
  /\ boot' = boot + 1
  /\ seq' = 0
  /\ UNCHANGED <<now, cacheVars, stateQ, eventQ, emitted, log, timeVars,
                 clientVars>>

(* dora drops the oldest payload of an input that is not read in time.     *)
Drop ==
  /\ \/ stateQ # <<>> /\ stateQ' = Tail(stateQ) /\ UNCHANGED eventQ
     \/ eventQ # <<>> /\ eventQ' = Tail(eventQ) /\ UNCHANGED stateQ
  /\ UNCHANGED <<now, cacheVars, emitted, boot, seq, log, timeVars,
                 clientVars>>

-----------------------------------------------------------------------------
(* The loop thread: _dispatch of one input.                                *)

(* Mutant: the newest payload on its way goes first.                       *)
DispatchNewestState ==
  /\ stateQ # <<>>
  /\ SetState(stateQ[Len(stateQ)])
  /\ stateQ' = SubSeq(stateQ, 1, Len(stateQ) - 1)
  /\ receivedAt' = now
  /\ UNCHANGED <<now, eventQ, emitted, boot, seq, log, settledAt, clientVars>>

DispatchState ==
  /\ stateQ # <<>>
  /\ SetState(Head(stateQ))
  /\ stateQ' = Tail(stateQ)
  /\ receivedAt' = now
  /\ UNCHANGED <<now, eventQ, emitted, boot, seq, log, settledAt, clientVars>>

StateSettled ==
  /\ SetStateTs
  /\ settledAt' = now
  /\ UNCHANGED <<now, vendorVars, log, receivedAt, clientVars>>

DispatchSafetyEvent ==
  /\ eventQ # <<>>
  /\ AppendSafetyEvent(Head(eventQ))
  /\ eventQ' = Tail(eventQ)
  /\ log' = Append(log, Head(eventQ))
  /\ UNCHANGED <<now, stateQ, emitted, boot, seq, timeVars, clientVars>>

-----------------------------------------------------------------------------
(* The synthetic tools.                                                    *)

(* get_state before there is a state.                                      *)
GetNoState ==
  /\ NoSnapshot
  /\ served' = [code |-> "OK",
                data |-> [stream |-> None, stale |-> TRUE, age |-> None]]
  /\ UNCHANGED <<now, vendorVars, log, timeVars, cursor, got>>

GetState ==
  /\ SnapshotAge
  /\ UNCHANGED <<now, vendorVars, log, timeVars, clientVars>>

(* Its answer, with the time the age was taken and the times between which *)
(* the payload came to the cache.                                          *)
GetStateReturns ==
  /\ SnapshotCopy
  /\ served' = IF SnapshotRaises THEN [code |-> "ERROR"]
               ELSE [code |-> "OK", data |-> Snapshot, at |-> reading.at,
                     received |-> receivedAt, settled |-> settledAt]
  /\ UNCHANGED <<now, vendorVars, log, timeVars, cursor, got>>

(* A poll that raises is a 500, from which octos learns nothing.           *)
GetRecentSafetyEvents ==
  /\ lock = None
  /\ ~EventsSinceRaises
  /\ LET answer == EventsSince(cursor)
         Numbers == {answer[i].seq : i \in DOMAIN answer} IN
       /\ got' = IF DOMAIN answer = {} THEN got
                 ELSE Append(got, [i \in DOMAIN answer |-> answer[i].n])
       /\ \E s \in Numbers \cup {cursor} :
            /\ \A t \in Numbers : s >= t
            /\ cursor' = s
  /\ UNCHANGED <<now, cacheVars, vendorVars, log, timeVars, served>>

Next ==
  \/ Tick
  \/ \E v \in {[sampled |-> now], None, Odd} : EmitState(v)
  \/ \E s \in {seq + 1, 0, Odd} : EmitEvent(s)
  \/ VendorRestart
  \/ Drop
  \/ DispatchState
  \/ StateSettled
  \/ DispatchSafetyEvent
  \/ GetNoState
  \/ GetState
  \/ GetStateReturns
  \/ GetRecentSafetyEvents

Spec == Init /\ [][Next]_vars

-----------------------------------------------------------------------------
(* Properties.                                                             *)

(* The ring is the newest part of all it was given, in order and without a *)
(* gap: "the last 128 events".                                             *)
RingIsTail ==
  /\ Len(events) = IF Len(log) < RingSize THEN Len(log) ELSE RingSize
  /\ \A i \in DOMAIN events : events[i] = log[Len(log) - Len(events) + i]

(* An event of the ring that octos has not got is returned by its next     *)
(* poll, unless it has no number, or an earlier run of the vendor had      *)
(* reached its number: dropped inputs, polls that fail on an odd event and *)
(* overrun rings hide nothing that is still there.                         *)
HiddenOnlyByRestart ==
  \A e \in InRing :
    e.n \notin Seen /\ e.seq \notin {0, Odd} =>
      \/ e.seq > cursor
      \/ \E i \in DOMAIN log :
           log[i].boot < e.boot /\ log[i].seq # Odd /\ log[i].seq >= e.seq

(* All of its polls together are an EventStream: the events in their       *)
(* order, none of them twice, whatever was overrun, dropped, misnumbered   *)
(* or numbered anew in between.                                            *)
AbstractStream == INSTANCE EventStream WITH emitted <- emitted["safety_event"]

EventStreamSpec == AbstractStream!Spec

(* The last get_state was answered with a payload.                         *)
StateServed ==
  served # None /\ served.code = "OK" /\ served.data.stream # None

(* The age and the stale flag that octos gets are those of the very        *)
(* payload it gets, although the cache writes the payload before its time  *)
(* and reads the time before the payload: the age counts from a moment     *)
(* between the receipt of that payload and the end of its set_state.  A    *)
(* new payload is never called stale for the age of the one before it, nor *)
(* an old one fresh.                                                       *)
SnapshotConsistent ==
  StateServed =>
    /\ served.data.age \in served.at - served.settled .. served.at - served.received
    /\ served.data.stale => served.at - served.received > StaleAfter
    /\ ~served.data.stale => served.at - served.settled <= StaleAfter

(* Of two answers in a row that have a payload the later one never has the *)
(* older payload, whatever was dropped, replaced or refused in between.    *)
StatesInOrder ==
  [][StateServed /\ StateServed' =>
       served.data.stream.sampled <= served'.data.stream.sampled]_vars

(* What the description of get_state says: the state it returns "may be    *)
(* stale by up to 5 s", so no older payload is returned.                   *)
StateWithinStaleAfter ==
  StateServed => served.at - served.data.stream.sampled <= StaleAfter

=============================================================================
