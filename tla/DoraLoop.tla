------------------------------ MODULE DoraLoop ------------------------------
(***************************************************************************)
(* The bridge's dora node (bridge/octos_spec_bridge/dora_loop.py): the     *)
(* cached capabilities advert, the table of pending futures, the publish   *)
(* lock, and the loop thread that dispatches dora inputs.  Each action is  *)
(* one region that the code runs under one lock, or one call into the dora *)
(* node.  The HTTP handlers that call these methods are in HttpApi.        *)
(*                                                                         *)
(* A call is an HTTP tool invocation.  It makes one Future, so a future is *)
(* named by the call that made it.                                         *)
(***************************************************************************)
EXTENDS Naturals, FiniteSets

CONSTANTS
  Calls,       \* the HTTP tool invocations
  Heart,       \* the heartbeat thread
  RequestIds,  \* the values a request_id can take
  Verbs,       \* the verbs octos may name
  Adverts,     \* the advertised verb sets; each one is a subset of Verbs
  None,        \* Python's None: no advert, no future, no request_id
  BadAdvert,   \* a capabilities payload that is JSON but not an object
  UniqueIds    \* TRUE when uuid4 never repeats, FALSE when it may collide

VARIABLES
  advert,       \* _advert: None, an advertised verb set, or BadAdvert
  pending,      \* _pending: request_id -> the call whose future waits for it
  future,       \* future[c]: "none" (not made yet), "unset" or "set"
  result,       \* result[c]: the reply that resolved future[c]
  rid,          \* rid[c]: the request_id in the envelope of c
  publishLock,  \* the call that holds _publish_lock, or Heart, or None
  beat,         \* the heartbeat thread: "waiting" or "sending"
  loop,         \* the loop thread: "running", "returned" or "crashed"
  hand,         \* the future the loop popped and has yet to resolve, or None
  handReply,    \* the reply it will resolve that future with
  requests,     \* cmd_request envelopes on their way to the vendor node
  inbox         \* dora inputs on their way to the loop thread

lockVars == <<publishLock, beat>>
loopVars == <<loop, hand, handReply>>
tableVars == <<pending, future, result, rid>>
dlVars == <<advert, tableVars, lockVars, loopVars, requests, inbox>>

-----------------------------------------------------------------------------
(* The messages.  "of" is history: the call whose envelope this is, or     *)
(* whose envelope the vendor answers.  The code has only "id".             *)

Request == [id : RequestIds, of : Calls]

Reply == [input : {"cmd_response"}, id : RequestIds, of : Calls]

Capabilities ==
  [input : {"capabilities"}, adv : Adverts \cup {None, BadAdvert}]

(* Payloads that are no reply to a call: not decodable as a JSON string,   *)
(* an object without a request_id, the reply to a heartbeat (whose         *)
(* request_id nobody registers), or JSON that is not an object.            *)
Stray == [input : {"stray"},
          kind : {"undecodable", "no_request_id", "heartbeat", "not_object"}]

Inputs == Reply \cup Capabilities \cup Stray

ASSUME DoraLoopAssumption ==
  /\ Adverts \subseteq SUBSET Verbs
  /\ None \notin Calls
  /\ Heart \notin Calls /\ Heart # None
  /\ None \notin RequestIds
  /\ None \notin Adverts
  /\ None \notin Reply
  /\ BadAdvert \notin Adverts
  /\ BadAdvert # None
  /\ UniqueIds \in BOOLEAN

DLTypeOK ==
  /\ advert \in Adverts \cup {None, BadAdvert}
  /\ pending \in [RequestIds -> Calls \cup {None}]
  /\ future \in [Calls -> {"none", "unset", "set"}]
  /\ result \in [Calls -> Reply \cup {None}]
  /\ rid \in [Calls -> RequestIds \cup {None}]
  /\ publishLock \in Calls \cup {Heart, None}
  /\ beat \in {"waiting", "sending"}
  /\ loop \in {"running", "returned", "crashed"}
  /\ hand \in Calls \cup {None}
  /\ handReply \in Reply \cup {None}
  /\ requests \subseteq Request
  /\ inbox \subseteq Inputs

DLInit ==
  /\ advert = None
  /\ pending = [r \in RequestIds |-> None]
  /\ future = [c \in Calls |-> "none"]
  /\ result = [c \in Calls |-> None]
  /\ rid = [c \in Calls |-> None]
  /\ publishLock = None
  /\ beat = "waiting"
  /\ loop = "running"
  /\ hand = None
  /\ handReply = None
  /\ requests = {}
  /\ inbox = {}

-----------------------------------------------------------------------------
(* Methods the HTTP handlers call.                                         *)

(* The ids str(uuid.uuid4()) can return now.                               *)
NewRequestIds ==
  IF UniqueIds THEN {r \in RequestIds : \A c \in Calls : rid[c] # r}
               ELSE RequestIds

(* register_pending: a new future replaces whatever the table has for the  *)
(* id that c has chosen.                                                   *)
RegisterPending(c) ==
  /\ future' = [future EXCEPT ![c] = "unset"]
  /\ pending' = [pending EXCEPT ![rid[c]] = c]
  /\ UNCHANGED <<result, rid>>

(* cancel_pending: whatever the table has for r is dropped.                *)
CancelPending(r) ==
  /\ pending' = [pending EXCEPT ![r] = None]
  /\ UNCHANGED <<future, result, rid>>

(* Mutant: publish_cmd_request without its lock.                           *)
EnterUnlocked(c) == publishLock' = c

(* publish_cmd_request, on entry to "with self._publish_lock".             *)
AcquirePublishLock(c) ==
  /\ publishLock = None
  /\ publishLock' = c

(* send_output has handed the envelope to dora: from now on the vendor may *)
(* run it and answer it, while the sender is still inside send_output.     *)
SendOutput(c) ==
  /\ publishLock = c
  /\ requests' = requests \cup {[id |-> rid[c], of |-> c]}
  /\ UNCHANGED publishLock

(* The end of the with block, whether send_output returned or raised.      *)
ReleasePublishLock(c) ==
  /\ publishLock = c
  /\ publishLock' = None

(* A heartbeat is published by its own thread, under the same lock; an     *)
(* exception is logged, and the thread waits for its next period.  What    *)
(* comes of the envelope is one of the Stray payloads.                     *)
HeartAcquires ==
  /\ beat = "waiting"
  /\ AcquirePublishLock(Heart)
  /\ beat' = "sending"
  /\ UNCHANGED <<advert, tableVars, loopVars, requests, inbox>>

HeartReleases ==
  /\ beat = "sending"
  /\ ReleasePublishLock(Heart)
  /\ beat' = "waiting"
  /\ UNCHANGED <<advert, tableVars, loopVars, requests, inbox>>

-----------------------------------------------------------------------------
(* The loop thread: one input at a time, until it returns or crashes.      *)

NextInput(e) ==
  /\ loop = "running"
  /\ hand = None
  /\ e \in inbox
  /\ inbox' = inbox \ {e}

(* _dispatch stores a capabilities payload as it comes, JSON null and      *)
(* non-objects included.                                                   *)
DispatchCapabilities(e) ==
  /\ e \in Capabilities
  /\ NextInput(e)
  /\ advert' = e.adv
  /\ UNCHANGED <<tableVars, lockVars, loopVars, requests>>

(* Mutant: replies are taken to come in the order of the calls, and go to  *)
(* whichever future is waiting.                                            *)
DispatchToAnyone(e) ==
  /\ e \in Reply
  /\ NextInput(e)
  /\ \E r \in RequestIds :
       /\ pending[r] # None
       /\ hand' = pending[r]
       /\ pending' = [pending EXCEPT ![r] = None]
  /\ handReply' = e
  /\ UNCHANGED <<advert, future, result, rid, lockVars, loop, requests>>

(* Mutant: get for pop.                                                    *)
DispatchWithoutPop(e) ==
  /\ e \in Reply
  /\ NextInput(e)
  /\ hand' = pending[e.id]
  /\ handReply' = IF pending[e.id] = None THEN None ELSE e
  /\ UNCHANGED <<advert, tableVars, lockVars, loop, requests>>

(* _dispatch of a reply: the future is popped under _pending_lock.  A reply *)
(* nobody waits for (late, or an orphan) only disappears from the inbox.   *)
DispatchReply(e) ==
  /\ e \in Reply
  /\ NextInput(e)
  /\ hand' = pending[e.id]
  /\ handReply' = IF pending[e.id] = None THEN None ELSE e
  /\ pending' = [pending EXCEPT ![e.id] = None]
  /\ UNCHANGED <<advert, future, result, rid, lockVars, loop, requests>>

(* "if not fut.done(): fut.set_result(envelope)", after the lock is gone.  *)
ResolveFuture ==
  /\ hand # None
  /\ future' = [future EXCEPT ![hand] = "set"]
  /\ result' = IF future[hand] = "set" THEN result
               ELSE [result EXCEPT ![hand] = handReply]
  /\ hand' = None
  /\ handReply' = None
  /\ UNCHANGED <<advert, pending, rid, lockVars, loop, requests, inbox>>

(* A payload that does not decode, or whose request_id is missing or in no *)
(* entry, is dropped.                                                      *)
DispatchDropped(e) ==
  /\ e \in Stray
  /\ e.kind # "not_object"
  /\ NextInput(e)
  /\ UNCHANGED <<advert, tableVars, lockVars, loopVars, requests>>

(* JSON that is not an object has no .get: the exception leaves _dispatch, *)
(* _run logs it and re-raises, and the thread is gone.                     *)
DispatchCrashes(e) ==
  /\ e \in Stray
  /\ e.kind = "not_object"
  /\ NextInput(e)
  /\ loop' = "crashed"
  /\ UNCHANGED <<advert, tableVars, lockVars, hand, handReply, requests>>

(* A STOP event, the end of the node's iterator, or an event that finds    *)
(* _stop set: _run returns.  Nothing is done about the pending table.      *)
LoopReturns ==
  /\ loop = "running"
  /\ hand = None
  /\ loop' = "returned"
  /\ UNCHANGED <<advert, tableVars, lockVars, hand, handReply,
                 requests, inbox>>

LoopStep ==
  \/ \E e \in inbox : \/ DispatchCapabilities(e)
                      \/ DispatchReply(e)
                      \/ DispatchDropped(e)
                      \/ DispatchCrashes(e)
  \/ ResolveFuture

=============================================================================
