----------------------------- MODULE StateCache -----------------------------
(***************************************************************************)
(* The cache between the dora loop, which writes it, and the HTTP          *)
(* handlers, which read it (bridge/octos_spec_bridge/state_cache.py): the  *)
(* last robot.state payload with the time it came, and a ring of the last  *)
(* safety events.  Every method body is one region under self._lock.  The  *)
(* two that touch the payload and its time are two steps each, between     *)
(* which other threads and the clock may run: what keeps them apart is the *)
(* lock.  The other two are one access to the ring, and one step.          *)
(***************************************************************************)
EXTENDS Integers, Sequences

CONSTANTS
  StaleAfter,  \* stale_after_s: a state older than this is reported stale
  RingSize,    \* safety_ring_size: the deque's maxlen
  None,        \* no state, or a JSON null stored as one
  Odd          \* where the code needs an object or a number: another value

ASSUME StateCacheAssumption ==
  /\ StaleAfter \in Nat
  /\ RingSize \in Nat \ {0}
  /\ None # Odd
  /\ None \notin {"loop", "handler"}
  /\ None \notin [age : Int, at : Int]

VARIABLES
  now,      \* time.monotonic()
  state,    \* _state
  stateTs,  \* _state_ts
  events,   \* _events, the oldest first
  lock,     \* who holds _lock: "loop", "handler" or None
  writing,  \* the loop thread is in set_state, between its two statements
  reading   \* what snapshot has read so far: None, or the age, and when

stampVars == <<state, stateTs, writing, reading>>
cacheVars == <<stampVars, events, lock>>

CacheInit ==
  /\ state = None
  /\ stateTs = 0
  /\ events = <<>>
  /\ lock = None
  /\ writing = FALSE
  /\ reading = None

-----------------------------------------------------------------------------
(* Mutant: a lock that excludes nobody.                                    *)
AcquireAnyway(t) == lock' = t

(* "with self._lock", on entry.                                            *)
Acquire(t) ==
  /\ lock = None
  /\ lock' = t

(* set_state: whatever came replaces the state ...                         *)
SetState(v) ==
  /\ ~writing
  /\ Acquire("loop")
  /\ state' = v
  /\ writing' = TRUE
  /\ UNCHANGED <<stateTs, events, reading>>

(* ... and gets its time.                                                  *)
SetStateTs ==
  /\ writing
  /\ stateTs' = now
  /\ lock' = None
  /\ writing' = FALSE
  /\ UNCHANGED <<state, events, reading>>

(* Mutant: a full ring refuses what is new.                                *)
AppendIfRoom(e) ==
  /\ ~writing /\ lock = None
  /\ events' = IF Len(events) < RingSize THEN Append(events, e) ELSE events
  /\ UNCHANGED <<stampVars, lock>>

(* Mutant: a deque without maxlen.                                         *)
AppendUnbounded(e) ==
  /\ ~writing /\ lock = None
  /\ events' = Append(events, e)
  /\ UNCHANGED <<stampVars, lock>>

(* deque(maxlen).append: a full ring drops its oldest event.               *)
AppendSafetyEvent(e) ==
  /\ ~writing /\ lock = None
  /\ LET kept == IF Len(events) < RingSize THEN events ELSE Tail(events) IN
       events' = Append(kept, e)
  /\ UNCHANGED <<stampVars, lock>>

(* snapshot without a state is an answer at once ...                       *)
NoSnapshot ==
  /\ lock = None
  /\ state = None
  /\ UNCHANGED cacheVars

(* ... and with one, it first takes its age ...                            *)
SnapshotAge ==
  /\ reading = None
  /\ Acquire("handler")
  /\ state # None
  /\ reading' = [age |-> now - stateTs, at |-> now]
  /\ UNCHANGED <<state, stateTs, events, writing>>

(* ... and then copies it.                                                 *)
SnapshotCopy ==
  /\ reading # None
  /\ reading' = None
  /\ lock' = None
  /\ UNCHANGED <<state, stateTs, events, writing>>

(* dict(self._state) raises for a payload that is not an object.           *)
SnapshotRaises == state = Odd

Snapshot ==
  [stream |-> state, stale |-> reading.age > StaleAfter, age |-> reading.age]

InRing == {events[i] : i \in DOMAIN events}

(* e.get("seq", 0) > since_seq raises for a seq that is not a number: one  *)
(* such event in the ring fails every read.                                *)
EventsSinceRaises == \E e \in InRing : e.seq = Odd

(* Mutant: the answer is cut to the newest event.                          *)
NewestSince(since) ==
  [i \in {j \in DOMAIN events : events[j].seq > since /\ j = Len(events)} |->
     events[i]]

(* Mutant: >= for >.                                                       *)
EventsFrom(since) ==
  [i \in {j \in DOMAIN events : events[j].seq >= since} |-> events[i]]

(* The list that events_since returns, its events at the places they have  *)
(* in the ring, which are in the order of the list.                        *)
EventsSince(since) ==
  [i \in {j \in DOMAIN events : events[j].seq > since} |-> events[i]]

=============================================================================
