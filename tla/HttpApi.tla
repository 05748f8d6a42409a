------------------------------ MODULE HttpApi ------------------------------
(***************************************************************************)
(* The HTTP endpoints (bridge/octos_spec_bridge/http_api.py) on top of the *)
(* dora loop, with the vendor node as the environment: POST /tools/<name>  *)
(* for the verbs of the capabilities advert, and what the bridge answers   *)
(* by itself (Reads).  What get_state and get_recent_safety_events return  *)
(* is in Feeds.                                                            *)
(*                                                                         *)
(* The handlers are plain "def" functions, so each call runs in a thread   *)
(* of the server's worker pool, and several calls, the loop thread and the *)
(* vendor interleave.  pc[c] is where the handler of call c is:            *)
(*   new          octos has not sent it                                    *)
(*   queued       it waits for a thread of the pool                        *)
(*   checking     its handler has started; before dora_loop.advert()       *)
(*   registering  it has chosen its request_id, before register_pending    *)
(*   publishing   registered, before the publish lock is its own           *)
(*   sending      inside send_output, with the publish lock                *)
(*   sent         still inside, but dora has the envelope                  *)
(*   waiting      in fut.result(timeout=cmd_timeout_s)                     *)
(*   expired      TimeoutError raised, before cancel_pending               *)
(*   failed       publishing or answering raised, before the outer         *)
(*                cancel_pending                                           *)
(*   answered     the HTTP response is on its way; answer[c] says which    *)
(***************************************************************************)
EXTENDS DoraLoop

CONSTANTS
  PoolSize,    \* threads in the server's worker pool
  Unasked,     \* what the vendor may emit that answers no request
  MaxUnasked   \* bound: how many such payloads are on their way at once

(* OK stands for the 200 that carries the vendor's reply, SERVED for the   *)
(* 200 of a read, ERROR for the 500 of an exception that leaves the        *)
(* handler.                                                                *)
Codes == {"OK", "SERVED", "ADVERT_PENDING", "VERB_UNKNOWN", "BRIDGE_TIMEOUT",
          "ERROR"}

(* GET /healthz, GET /tools and the synthetic tools.  A vendor verb with   *)
(* the name of a synthetic tool is never sent: the name is taken.          *)
Synthetic == {"get_state", "get_recent_safety_events"}
Reads == {"healthz", "tools"} \cup Synthetic

ASSUME HttpApiAssumption ==
  /\ PoolSize \in Nat \ {0}
  /\ Unasked \subseteq Capabilities \cup Stray
  /\ MaxUnasked \in Nat
  /\ None \notin Codes
  /\ Verbs \cap Reads = {}

VARIABLES
  pc,      \* pc[c]: where the handler of c is
  verb,    \* verb[c]: the tool that c names, or the read it is
  answer,  \* answer[c]: the code of the HTTP answer, or None
  runs     \* runs[c]: how often the vendor has run the command of c

callVars == <<pc, verb, answer>>
vars == <<dlVars, callVars, runs>>

Places == {"new", "queued", "checking", "registering", "publishing",
           "sending", "sent", "waiting", "expired", "failed", "answered"}

(* The calls a thread of the pool is busy with.                            *)
Busy == {c \in Calls : pc[c] \notin {"new", "queued", "answered"}}

(* What holds of the variables in every state, as to their types.          *)
TypeOK ==
  /\ DLTypeOK
  /\ pc \in [Calls -> Places]
  /\ verb \in [Calls -> Verbs \cup Reads \cup {None}]
  /\ answer \in [Calls -> Codes \cup {None}]
  /\ runs \in [Calls -> 0 .. 1]

Init ==
  /\ DLInit
  /\ pc = [c \in Calls |-> "new"]
  /\ verb = [c \in Calls |-> None]
  /\ answer = [c \in Calls |-> None]
  /\ runs = [c \in Calls |-> 0]

-----------------------------------------------------------------------------
(* The handler.                                                            *)

GoTo(c, place) == pc' = [pc EXCEPT ![c] = place]

Return(c, code) ==
  /\ GoTo(c, "answered")
  /\ answer' = [answer EXCEPT ![c] = code]

Arrive(c, v) ==
  /\ pc[c] = "new"
  /\ GoTo(c, "queued")
  /\ verb' = [verb EXCEPT ![c] = v]
  /\ UNCHANGED <<dlVars, answer, runs>>

Start(c) ==
  /\ pc[c] = "queued"
  /\ Cardinality(Busy) < PoolSize
  /\ GoTo(c, "checking")
  /\ UNCHANGED <<dlVars, verb, answer, runs>>

(* A read takes a thread of the pool as any call does, and nothing else.   *)
(* healthz only asks whether there is an advert; list_tools raises on one  *)
(* that is not an object; the cache's methods, or int(since), may raise.   *)
Read(c) ==
  /\ pc[c] = "checking"
  /\ \/ /\ verb[c] \in {"healthz", "tools"}
        /\ advert = None
        /\ Return(c, "ADVERT_PENDING")
     \/ verb[c] = "healthz" /\ advert # None /\ Return(c, "SERVED")
     \/ verb[c] = "tools" /\ advert \in Adverts /\ Return(c, "SERVED")
     \/ verb[c] = "tools" /\ advert = BadAdvert /\ Return(c, "ERROR")
     \/ /\ verb[c] \in Synthetic
        /\ \E code \in {"SERVED", "ERROR"} : Return(c, code)
  /\ UNCHANGED <<dlVars, verb, runs>>

(* Mutant: the envelope is published before its future is registered.      *)
ThenPublishFirst(place) ==
  CASE place = "checking" -> "publishing"
    [] place = "sent" -> "registering"
    [] place = "registering" -> "waiting"

(* The order of invoke_tool: register, publish, wait.                      *)
Then(place) ==
  CASE place = "checking" -> "registering"
    [] place = "registering" -> "publishing"
    [] place = "sent" -> "waiting"

(* The advert is read once.  One that is not an object makes _known_verbs  *)
(* raise, outside the try.  tool_call_to_cmd_request chooses the id.       *)
CheckAdvert(c) ==
  /\ pc[c] = "checking"
  /\ verb[c] \in Verbs
  /\ \/ advert = None /\ Return(c, "ADVERT_PENDING") /\ UNCHANGED rid
     \/ advert = BadAdvert /\ Return(c, "ERROR") /\ UNCHANGED rid
     \/ /\ advert \in Adverts
        /\ verb[c] \notin advert
        /\ Return(c, "VERB_UNKNOWN")
        /\ UNCHANGED rid
     \/ /\ advert \in Adverts
        /\ verb[c] \in advert
        /\ \E r \in NewRequestIds : rid' = [rid EXCEPT ![c] = r]
        /\ GoTo(c, Then("checking"))
        /\ UNCHANGED answer
  /\ UNCHANGED <<advert, pending, future, result, lockVars, loopVars, requests,
                 inbox, verb, runs>>

Register(c) ==
  /\ pc[c] = "registering"
  /\ RegisterPending(c)
  /\ GoTo(c, Then("registering"))
  /\ UNCHANGED <<advert, lockVars, loopVars, requests, inbox,
                 verb, answer, runs>>

AcquirePublish(c) ==
  /\ pc[c] = "publishing"
  /\ AcquirePublishLock(c)
  /\ GoTo(c, "sending")
  /\ UNCHANGED <<advert, beat, tableVars, loopVars, requests, inbox,
                 verb, answer, runs>>

Send(c) ==
  /\ pc[c] = "sending"
  /\ SendOutput(c)
  /\ GoTo(c, "sent")
  /\ UNCHANGED <<advert, beat, tableVars, loopVars, inbox, verb, answer, runs>>

(* Mutant: a retry of what has already been sent.                          *)
ReturnAndRetry(c) ==
  /\ pc[c] = "sent"
  /\ ReleasePublishLock(c)
  /\ GoTo(c, "publishing")
  /\ UNCHANGED <<advert, beat, tableVars, loopVars, requests, inbox,
                 verb, answer, runs>>

SendReturns(c) ==
  /\ pc[c] = "sent"
  /\ ReleasePublishLock(c)
  /\ GoTo(c, Then("sent"))
  /\ UNCHANGED <<advert, beat, tableVars, loopVars, requests, inbox,
                 verb, answer, runs>>

(* Mutant: acquire() and release() for "with", so that an exception leaves *)
(* the lock held.                                                          *)
RaiseHoldingLock(c) ==
  /\ pc[c] \in {"sending", "sent"}
  /\ GoTo(c, "failed")
  /\ UNCHANGED <<dlVars, verb, answer, runs>>

(* send_output raises, before dora has the envelope or after: the robot    *)
(* may run a call that octos is told has failed.                           *)
SendRaises(c) ==
  /\ pc[c] \in {"sending", "sent"}
  /\ ReleasePublishLock(c)
  /\ GoTo(c, "failed")
  /\ UNCHANGED <<advert, beat, tableVars, loopVars, requests, inbox,
                 verb, answer, runs>>

TakeResult(c) ==
  /\ pc[c] = "waiting"
  /\ future[c] = "set"
  /\ Return(c, "OK")
  /\ UNCHANGED <<dlVars, verb, runs>>

(* The reply has a number that JSON has not (NaN): json.loads takes it,    *)
(* and JSONResponse raises.                                                *)
TakeResultRaises(c) ==
  /\ pc[c] = "waiting"
  /\ future[c] = "set"
  /\ GoTo(c, "failed")
  /\ UNCHANGED <<dlVars, verb, answer, runs>>

(* The wait ends without a result.  Future.result looks once more under    *)
(* the future's own lock before it raises.                                 *)
Expire(c) ==
  /\ pc[c] = "waiting"
  /\ future[c] = "unset"
  /\ GoTo(c, "expired")
  /\ UNCHANGED <<dlVars, verb, answer, runs>>

(* Mutant: the timeout answer is returned without cancel_pending.          *)
ExpireWithoutCancel(c) ==
  /\ pc[c] = "expired"
  /\ Return(c, "BRIDGE_TIMEOUT")
  /\ UNCHANGED <<dlVars, verb, runs>>

CancelExpired(c) ==
  /\ pc[c] = "expired"
  /\ CancelPending(rid[c])
  /\ Return(c, "BRIDGE_TIMEOUT")
  /\ UNCHANGED <<advert, lockVars, loopVars, requests, inbox, verb, runs>>

CancelFailed(c) ==
  /\ pc[c] = "failed"
  /\ CancelPending(rid[c])
  /\ Return(c, "ERROR")
  /\ UNCHANGED <<advert, lockVars, loopVars, requests, inbox, verb, runs>>

-----------------------------------------------------------------------------
(* The vendor node.  A message that stays in requests or inbox for ever is *)
(* a lost one, and the sets are in no order.                               *)

VendorRun(q) ==
  /\ q \in requests
  /\ requests' = requests \ {q}
  /\ runs' = [runs EXCEPT ![q.of] = @ + 1]
  /\ UNCHANGED <<advert, tableVars, lockVars, loopVars, inbox, callVars>>

(* It answers a command it has run, now or much later, once or again.      *)
VendorReply(c) ==
  /\ runs[c] > 0
  /\ inbox' = inbox \cup {[input |-> "cmd_response", id |-> rid[c], of |-> c]}
  /\ UNCHANGED <<advert, tableVars, lockVars, loopVars, requests,
                 callVars, runs>>

VendorEmit(e) ==
  /\ e \in Unasked
  /\ Cardinality(inbox \cap Unasked) < MaxUnasked
  /\ inbox' = inbox \cup {e}
  /\ UNCHANGED <<advert, tableVars, lockVars, loopVars, requests,
                 callVars, runs>>

-----------------------------------------------------------------------------
Handler(c) ==
  \/ Start(c)
  \/ Read(c)
  \/ CheckAdvert(c)
  \/ Register(c)
  \/ AcquirePublish(c)
  \/ Send(c)
  \/ SendReturns(c)
  \/ SendRaises(c)
  \/ TakeResult(c)
  \/ TakeResultRaises(c)
  \/ Expire(c)
  \/ CancelExpired(c)
  \/ CancelFailed(c)

Vendor ==
  \/ \E q \in requests : VendorRun(q)
  \/ \E c \in Calls : VendorReply(c)
  \/ \E e \in Unasked : VendorEmit(e)

(* The bridge's other threads.                                             *)
Background == LoopStep \/ LoopReturns \/ HeartAcquires \/ HeartReleases

Next ==
  \/ \E c \in Calls, v \in Verbs \cup Reads : Arrive(c, v)
  \/ \E c \in Calls : Handler(c)
  \/ Background /\ UNCHANGED <<callVars, runs>>
  \/ Vendor

Spec == Init /\ [][Next]_vars

(* A thread that can run is run, fut.result gives up after cmd_timeout_s,  *)
(* and send_output returns or raises.  The heartbeat thread may take the   *)
(* publish lock again and again, but waits half a timeout in between, so   *)
(* that a handler that wants the lock gets it.  Nothing is assumed of the  *)
(* vendor, of dora or of the loop thread.                                  *)
Fairness ==
  /\ \A c \in Calls : WF_vars(Handler(c)) /\ SF_vars(AcquirePublish(c))
  /\ WF_vars(HeartReleases /\ UNCHANGED <<callVars, runs>>)

FairSpec == Spec /\ Fairness

-----------------------------------------------------------------------------
(* Properties.                                                             *)

(* A future only ever receives the reply to its own command, and only      *)
(* after the robot ran that command: concurrent calls, late replies of     *)
(* calls that timed out and repeated replies never mix (_dispatch).        *)
OwnReply ==
  \A c \in Calls : result[c] # None => result[c].of = c /\ runs[c] = 1

(* The vendor has the envelope of c, or dora has it for the vendor.        *)
RequestOut(c) == runs[c] > 0 \/ \E q \in requests : q.of = c

(* A reply can come as soon as the request is out, even while the handler  *)
(* is still inside send_output.  From that moment until the handler gives  *)
(* up or has its result, its future is in the table under its id, or in    *)
(* the loop's hand: register comes before publish, and cancel_pending of   *)
(* another call does not remove it.                                        *)
WaiterReachable ==
  \A c \in Calls :
    /\ RequestOut(c)
    /\ pc[c] \notin {"expired", "failed", "answered"}
    /\ future[c] # "set"
    => pending[rid[c]] = c \/ hand = c

(* No entry outlives its handler: every way out of invoke_tool (an answer, *)
(* a timeout, an exception while publishing) leaves the table without it.  *)
NoStrandedEntry ==
  \A r \in RequestIds :
    pending[r] # None =>
      /\ rid[pending[r]] = r
      /\ pending[r] \in Busy

(* The loop never has a future in hand that is already resolved: the       *)
(* done() test of _dispatch never saves it, because the pop hands a future *)
(* out once, even if the vendor repeats a reply or the caller gave up.     *)
HandUnresolved == hand # None => future[hand] = "unset"

(* send_output is never entered by two threads at once, handlers or the    *)
(* heartbeat.                                                              *)
OneSender ==
  \A c \in Calls :
    pc[c] \in {"sending", "sent"} =>
      /\ beat = "waiting"
      /\ \A d \in Calls : pc[d] \in {"sending", "sent"} => c = d

(* The handler of c has a step that waits for no other thread: nobody is   *)
(* in its way, and fut.result gives up by itself.                          *)
CanGoOn(c) ==
  \/ pc[c] = "queued" /\ Cardinality(Busy) < PoolSize
  \/ pc[c] = "checking" /\ verb[c] \in Reads
  \/ pc[c] = "checking" /\ verb[c] \in Verbs /\ NewRequestIds # {}
  \/ pc[c] = "registering"
  \/ pc[c] = "publishing" /\ publishLock = None
  \/ pc[c] \in {"sending", "sent"} /\ publishLock = c
  \/ pc[c] = "waiting" /\ future[c] # "none"
  \/ pc[c] \in {"expired", "failed"}

(* The calls never all wait for each other, for the publish lock or for    *)
(* threads of the pool: when one cannot go on, the heartbeat thread is     *)
(* about to release the lock, or a call that holds a thread can go on.     *)
(* This is the safety part of EveryCallAnswered.                           *)
NeverStuck ==
  \A c \in Calls :
    pc[c] \notin {"new", "answered"} =>
      \/ CanGoOn(c)
      \/ publishLock = Heart /\ beat = "sending"
      \/ \E d \in Busy : CanGoOn(d)

(* What the SKILL tables promise with the code BRIDGE_DOWN: a call that    *)
(* ends while the bridge has lost its dora session is not told that the    *)
(* robot was too slow.                                                     *)
NoTimeoutWhenDown ==
  [][\A c \in Calls :
       answer[c] # "BRIDGE_TIMEOUT" /\ answer'[c] = "BRIDGE_TIMEOUT" =>
         loop = "running"]_vars

(* Every endpoint keeps the promise of ToolCall.                           *)
Status(c) ==
  CASE answer[c] = "OK" -> "answered"
    [] answer[c] = "SERVED" -> "served"
    [] answer[c] \notin {"OK", "SERVED", None} /\ rid[c] = None -> "refused"
    [] answer[c] \notin {"OK", "SERVED", None} /\ rid[c] # None -> "given_up"
    [] answer[c] = None /\ pc[c] = "new" -> "new"
    [] answer[c] = None /\ pc[c] # "new" -> "open"

AbstractCall == INSTANCE ToolCall WITH status <- [c \in Calls |-> Status(c)]

ToolCallSpec == AbstractCall!Spec

(* Every call octos makes is answered, whatever becomes of the vendor, of  *)
(* dora and of the loop thread: the wait is bounded, the publish lock is   *)
(* always released, and a thread of the pool becomes free, also for a      *)
(* healthz behind calls that hold them all.                                *)
EveryCallAnswered ==
  \A c \in Calls : pc[c] = "queued" ~> pc[c] = "answered"

=============================================================================
