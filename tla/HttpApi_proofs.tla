--------------------------- MODULE HttpApi_proofs ---------------------------
(***************************************************************************)
(* Proofs about HttpApi, for any sets of calls, ids and verbs, any size of *)
(* the worker pool and anything the vendor may emit.                       *)
(*                                                                         *)
(* TypeOK and the table facts (PlaceInv to SentInv) hold whatever uuid4    *)
(* returns.  They do not give OwnReply or WaiterReachable: with one id for *)
(* two calls the loop resolves the wrong future and a timeout cancels the  *)
(* wrong entry.  DistinctIds is what makes those hold, and it is an        *)
(* invariant only when UniqueIds is TRUE.                                  *)
(***************************************************************************)
EXTENDS HttpApi, FiniteSetTheorems, TLAPS

(* Where the handler is decides whether it has a future, an id, an answer. *)
PlaceInv ==
  \A c \in Calls :
    /\ pc[c] \in {"new", "queued", "checking"} =>
         future[c] = "none" /\ rid[c] = None
    /\ pc[c] = "registering" => future[c] = "none" /\ rid[c] # None
    /\ pc[c] \in {"publishing", "sending", "sent", "waiting", "expired",
         "failed"} =>
         future[c] # "none" /\ rid[c] # None
    /\ future[c] # "none" => rid[c] # None
    /\ answer[c] # None <=> pc[c] = "answered"
    /\ answer[c] = "OK" => future[c] = "set"
    /\ answer[c] = "SERVED" => rid[c] = None
    /\ future[c] = "set" <=> result[c] # None
    /\ pc[c] # "new" => verb[c] \in Verbs \cup Reads

(* An entry of the table is that of a live handler that has not been       *)
(* served, under the handler's own id.                                     *)
TableInv ==
  \A r \in RequestIds :
    pending[r] # None =>
      /\ rid[pending[r]] = r
      /\ future[pending[r]] = "unset"
      /\ pc[pending[r]] \in {"publishing", "sending", "sent", "waiting",
           "expired", "failed"}

(* The future in the loop's hand is unresolved and in no entry.            *)
HandInv ==
  hand # None =>
    /\ future[hand] = "unset"
    /\ handReply # None
    /\ \A r \in RequestIds : pending[r] # hand

LockInv ==
  /\ \A c \in Calls : pc[c] \in {"sending", "sent"} <=> publishLock = c
  /\ beat = "sending" <=> publishLock = Heart

Sent == {"sent", "waiting", "expired", "failed", "answered"}

(* An envelope is on its way, or was run, only after its handler sent it   *)
(* and under the handler's id.                                             *)
SentInv ==
  /\ \A q \in requests :
       /\ q.id = rid[q.of]
       /\ runs[q.of] = 0
       /\ pc[q.of] \in Sent
  /\ \A c \in Calls :
       runs[c] # 0 => rid[c] # None /\ pc[c] \in Sent
  /\ \A e \in inbox \cap Reply : e.id = rid[e.of] /\ runs[e.of] = 1
  /\ handReply # None => handReply.id = rid[handReply.of] /\ runs[handReply.of] = 1

Inv == TypeOK /\ PlaceInv /\ TableInv /\ HandInv /\ LockInv /\ SentInv

(* What UniqueIds adds.                                                    *)
DistinctIds ==
  \A c, d \in Calls : rid[c] # None /\ rid[c] = rid[d] => c = d

HandOwn == hand # None => handReply.of = hand

(* From register_pending to the end of its wait a handler's future is in   *)
(* the table, or in the loop's hand, or resolved.                          *)
Registered ==
  \A c \in Calls :
    /\ pc[c] \in {"publishing", "sending", "sent", "waiting"}
    /\ future[c] = "unset"
    => pending[rid[c]] = c \/ hand = c

UInv == Inv /\ DistinctIds /\ HandOwn /\ OwnReply /\ Registered

-----------------------------------------------------------------------------
(* Invariance of Inv, one step per action.                                 *)

LEMMA InitInv == Init => Inv
<1> USE DoraLoopAssumption, HttpApiAssumption DEF Init, DLInit
<1>1. Init => TypeOK
  BY DEF TypeOK, DLTypeOK, Places
<1>2. Init => PlaceInv
  BY DEF PlaceInv, Codes
<1>3. Init => TableInv /\ HandInv /\ LockInv
  BY DEF TableInv, HandInv, LockInv
<1>4. Init => SentInv
  BY DEF SentInv
<1> QED BY <1>1, <1>2, <1>3, <1>4 DEF Inv

(* The handler of one call: whatever it does, entries stay those of live   *)
(* handlers and the lock that of the one sender.                           *)
LEMMA HandlerInv ==
  ASSUME Inv, NEW c \in Calls,
         (\E v \in Verbs \cup Reads : Arrive(c, v)) \/ Handler(c)
  PROVE  Inv'
<1> USE DoraLoopAssumption, HttpApiAssumption
    DEF Inv, TypeOK, DLTypeOK, dlVars, lockVars, loopVars, tableVars, callVars,
        Places, Codes,
        Request, Reply, Inputs, Capabilities, Stray, Sent
<1>1. ASSUME NEW v \in Verbs \cup Reads, Arrive(c, v) PROVE Inv'
  <2>1. TypeOK'
    BY <1>1 DEF Arrive, GoTo
  <2>2. (PlaceInv /\ TableInv /\ HandInv)'
    BY <1>1 DEF Arrive, GoTo, PlaceInv, TableInv, HandInv
  <2>3. (LockInv /\ SentInv)'
    BY <1>1 DEF Arrive, GoTo, LockInv, SentInv
  <2> QED BY <2>1, <2>2, <2>3
<1>2. ASSUME Start(c) PROVE Inv'
  <2>1. TypeOK'
    BY <1>2 DEF Start, GoTo
  <2>2. (PlaceInv /\ TableInv /\ HandInv)'
    BY <1>2 DEF Start, GoTo, PlaceInv, TableInv, HandInv
  <2>3. (LockInv /\ SentInv)'
    BY <1>2 DEF Start, GoTo, LockInv, SentInv
  <2> QED BY <2>1, <2>2, <2>3
<1>3. ASSUME Read(c) \/ CheckAdvert(c) PROVE Inv'
  <2>1. TypeOK'
    BY <1>3 DEF Read, CheckAdvert, Then, NewRequestIds, Return, GoTo
  <2>2. (PlaceInv /\ TableInv /\ HandInv)'
    BY <1>3 DEF Read, CheckAdvert, Then, NewRequestIds, Return, GoTo, PlaceInv,
                TableInv, HandInv
  <2>3. (LockInv /\ SentInv)'
    BY <1>3 DEF Read, CheckAdvert, Then, NewRequestIds, Return, GoTo, LockInv,
                SentInv, PlaceInv
  <2> QED BY <2>1, <2>2, <2>3
<1>4. ASSUME Register(c) PROVE Inv'
  <2>1. TypeOK'
    BY <1>4 DEF Register, RegisterPending, Then, GoTo, PlaceInv
  <2>2. (PlaceInv /\ TableInv /\ HandInv)'
    BY <1>4 DEF Register, RegisterPending, Then, GoTo, PlaceInv, TableInv,
                HandInv
  <2>3. (LockInv /\ SentInv)'
    BY <1>4 DEF Register, RegisterPending, Then, GoTo, LockInv, SentInv
  <2> QED BY <2>1, <2>2, <2>3
<1>5. ASSUME AcquirePublish(c) PROVE Inv'
  <2>1. TypeOK'
    BY <1>5 DEF AcquirePublish, AcquirePublishLock, GoTo
  <2>2. (PlaceInv /\ TableInv /\ HandInv)'
    BY <1>5 DEF AcquirePublish, AcquirePublishLock, GoTo, PlaceInv, TableInv,
                HandInv
  <2>3. (LockInv /\ SentInv)'
    BY <1>5 DEF AcquirePublish, AcquirePublishLock, GoTo, LockInv, SentInv
  <2> QED BY <2>1, <2>2, <2>3
<1>6. ASSUME Send(c) PROVE Inv'
  <2>1. TypeOK'
    BY <1>6 DEF Send, SendOutput, GoTo, PlaceInv
  <2>2. (PlaceInv /\ TableInv /\ HandInv)'
    BY <1>6 DEF Send, SendOutput, GoTo, PlaceInv, TableInv, HandInv
  <2>3. (LockInv /\ SentInv)'
    BY <1>6 DEF Send, SendOutput, GoTo, LockInv, SentInv
  <2> QED BY <2>1, <2>2, <2>3
<1>7. ASSUME SendRaises(c) PROVE Inv'
  <2>1. TypeOK'
    BY <1>7 DEF SendRaises, ReleasePublishLock, GoTo
  <2>2. (PlaceInv /\ TableInv /\ HandInv)'
    BY <1>7 DEF SendRaises, ReleasePublishLock, GoTo, PlaceInv, TableInv,
                HandInv
  <2>3. (LockInv /\ SentInv)'
    BY <1>7 DEF SendRaises, ReleasePublishLock, GoTo, LockInv, SentInv
  <2> QED BY <2>1, <2>2, <2>3
<1>8. ASSUME TakeResult(c) PROVE Inv'
  <2>1. TypeOK'
    BY <1>8 DEF TakeResult, Return, GoTo
  <2>2. (PlaceInv /\ TableInv /\ HandInv)'
    BY <1>8 DEF TakeResult, Return, GoTo, PlaceInv, TableInv, HandInv
  <2>3. (LockInv /\ SentInv)'
    BY <1>8 DEF TakeResult, Return, GoTo, LockInv, SentInv
  <2> QED BY <2>1, <2>2, <2>3
<1>9. ASSUME Expire(c) PROVE Inv'
  <2>1. TypeOK'
    BY <1>9 DEF Expire, GoTo
  <2>2. (PlaceInv /\ TableInv /\ HandInv)'
    BY <1>9 DEF Expire, GoTo, PlaceInv, TableInv, HandInv
  <2>3. (LockInv /\ SentInv)'
    BY <1>9 DEF Expire, GoTo, LockInv, SentInv
  <2> QED BY <2>1, <2>2, <2>3
<1>10. ASSUME CancelExpired(c) PROVE Inv'
  <2>1. TypeOK'
    BY <1>10 DEF CancelExpired, CancelPending, Return, GoTo
  <2>2. (PlaceInv /\ TableInv /\ HandInv)'
    BY <1>10 DEF CancelExpired, CancelPending, Return, GoTo, PlaceInv,
                 TableInv, HandInv
  <2>3. (LockInv /\ SentInv)'
    BY <1>10 DEF CancelExpired, CancelPending, Return, GoTo, LockInv, SentInv
  <2> QED BY <2>1, <2>2, <2>3
<1>11. ASSUME CancelFailed(c) PROVE Inv'
  <2>1. TypeOK'
    BY <1>11 DEF CancelFailed, CancelPending, Return, GoTo
  <2>2. (PlaceInv /\ TableInv /\ HandInv)'
    BY <1>11 DEF CancelFailed, CancelPending, Return, GoTo, PlaceInv, TableInv,
                 HandInv
  <2>3. (LockInv /\ SentInv)'
    BY <1>11 DEF CancelFailed, CancelPending, Return, GoTo, LockInv, SentInv
  <2> QED BY <2>1, <2>2, <2>3
<1>12. ASSUME TakeResultRaises(c) PROVE Inv'
  <2>1. TypeOK'
    BY <1>12 DEF TakeResultRaises, GoTo
  <2>2. (PlaceInv /\ TableInv /\ HandInv)'
    BY <1>12 DEF TakeResultRaises, GoTo, PlaceInv, TableInv, HandInv
  <2>3. (LockInv /\ SentInv)'
    BY <1>12 DEF TakeResultRaises, GoTo, LockInv, SentInv
  <2> QED BY <2>1, <2>2, <2>3
<1>13. ASSUME SendReturns(c) PROVE Inv'
  <2>1. TypeOK'
    BY <1>13 DEF SendReturns, ReleasePublishLock, Then, GoTo
  <2>2. (PlaceInv /\ TableInv /\ HandInv)'
    BY <1>13 DEF SendReturns, ReleasePublishLock, Then, GoTo, PlaceInv,
                 TableInv, HandInv
  <2>3. (LockInv /\ SentInv)'
    BY <1>13 DEF SendReturns, ReleasePublishLock, Then, GoTo, LockInv, SentInv
  <2> QED BY <2>1, <2>2, <2>3
<1> QED
  BY <1>1, <1>2, <1>3, <1>4, <1>5, <1>6, <1>7, <1>8, <1>9, <1>10, <1>11,
     <1>12, <1>13
  DEF Handler

(* The loop thread: a future it pops leaves the table, one it resolves     *)
(* leaves its hand.  The heartbeat thread: only the lock.                  *)
LEMMA BackgroundInv ==
  ASSUME Inv, Background, UNCHANGED <<callVars, runs>>
  PROVE  Inv'
<1> USE DoraLoopAssumption, HttpApiAssumption
    DEF Inv, TypeOK, DLTypeOK, dlVars, lockVars, loopVars, tableVars, callVars,
        Places, Codes,
        Request, Reply, Inputs, Capabilities, Stray
<1>1. ASSUME NEW e \in inbox, DispatchCapabilities(e) PROVE Inv'
  <2>1. TypeOK'
    BY <1>1 DEF DispatchCapabilities, NextInput
  <2>2. (PlaceInv /\ TableInv /\ HandInv)'
    BY <1>1 DEF DispatchCapabilities, NextInput, PlaceInv, TableInv, HandInv
  <2>3. (LockInv /\ SentInv)'
    BY <1>1 DEF DispatchCapabilities, NextInput, LockInv, SentInv
  <2> QED BY <2>1, <2>2, <2>3
<1>2. ASSUME NEW e \in inbox, DispatchReply(e) PROVE Inv'
  <2>1. TypeOK'
    BY <1>2 DEF DispatchReply, NextInput
  <2>2. (PlaceInv /\ TableInv /\ HandInv)'
    BY <1>2 DEF DispatchReply, NextInput, PlaceInv, TableInv, HandInv
  <2>3. (LockInv /\ SentInv)'
    BY <1>2 DEF DispatchReply, NextInput, LockInv, SentInv
  <2> QED BY <2>1, <2>2, <2>3
<1>3. ASSUME NEW e \in inbox, DispatchDropped(e) PROVE Inv'
  <2>1. TypeOK'
    BY <1>3 DEF DispatchDropped, NextInput
  <2>2. (PlaceInv /\ TableInv /\ HandInv)'
    BY <1>3 DEF DispatchDropped, NextInput, PlaceInv, TableInv, HandInv
  <2>3. (LockInv /\ SentInv)'
    BY <1>3 DEF DispatchDropped, NextInput, LockInv, SentInv
  <2> QED BY <2>1, <2>2, <2>3
<1>4. ASSUME NEW e \in inbox, DispatchCrashes(e) PROVE Inv'
  <2>1. TypeOK'
    BY <1>4 DEF DispatchCrashes, NextInput
  <2>2. (PlaceInv /\ TableInv /\ HandInv)'
    BY <1>4 DEF DispatchCrashes, NextInput, PlaceInv, TableInv, HandInv
  <2>3. (LockInv /\ SentInv)'
    BY <1>4 DEF DispatchCrashes, NextInput, LockInv, SentInv
  <2> QED BY <2>1, <2>2, <2>3
<1>5. ASSUME ResolveFuture PROVE Inv'
  <2>1. TypeOK'
    BY <1>5 DEF ResolveFuture
  <2>2. (PlaceInv /\ TableInv /\ HandInv)'
    BY <1>5 DEF ResolveFuture, PlaceInv, TableInv, HandInv
  <2>3. (LockInv /\ SentInv)'
    BY <1>5 DEF ResolveFuture, LockInv, SentInv
  <2> QED BY <2>1, <2>2, <2>3
<1>6. ASSUME LoopReturns PROVE Inv'
  <2>1. TypeOK'
    BY <1>6 DEF LoopReturns
  <2>2. (PlaceInv /\ TableInv /\ HandInv)'
    BY <1>6 DEF LoopReturns, PlaceInv, TableInv, HandInv
  <2>3. (LockInv /\ SentInv)'
    BY <1>6 DEF LoopReturns, LockInv, SentInv
  <2> QED BY <2>1, <2>2, <2>3
<1>7. ASSUME HeartAcquires \/ HeartReleases PROVE Inv'
  <2>1. TypeOK'
    BY <1>7 DEF HeartAcquires, HeartReleases, AcquirePublishLock,
                ReleasePublishLock
  <2>2. (PlaceInv /\ TableInv /\ HandInv)'
    BY <1>7 DEF HeartAcquires, HeartReleases, PlaceInv, TableInv, HandInv
  <2>3. (LockInv /\ SentInv)'
    BY <1>7 DEF HeartAcquires, HeartReleases, AcquirePublishLock,
                ReleasePublishLock, LockInv, SentInv
  <2> QED BY <2>1, <2>2, <2>3
<1> QED BY <1>1, <1>2, <1>3, <1>4, <1>5, <1>6, <1>7 DEF LoopStep, Background

(* The vendor: it runs an envelope once and replies under its id.          *)
LEMMA VendorInv == ASSUME Inv, Vendor PROVE Inv'
<1> USE DoraLoopAssumption, HttpApiAssumption
    DEF Inv, TypeOK, DLTypeOK, dlVars, lockVars, loopVars, tableVars, callVars,
        Places, Codes,
        Request, Reply, Inputs, Capabilities, Stray
<1>1. ASSUME NEW q \in requests, VendorRun(q) PROVE Inv'
  <2>1. TypeOK'
    BY <1>1 DEF VendorRun, SentInv
  <2>2. (PlaceInv /\ TableInv /\ HandInv)'
    BY <1>1 DEF VendorRun, PlaceInv, TableInv, HandInv
  <2>3. (LockInv /\ SentInv)'
    BY <1>1 DEF VendorRun, LockInv, SentInv
  <2> QED BY <2>1, <2>2, <2>3
<1>2. ASSUME NEW c \in Calls, VendorReply(c) PROVE Inv'
  <2>1. TypeOK'
    BY <1>2 DEF VendorReply, SentInv
  <2>2. (PlaceInv /\ TableInv /\ HandInv)'
    BY <1>2 DEF VendorReply, PlaceInv, TableInv, HandInv
  <2>3. (LockInv /\ SentInv)'
    BY <1>2 DEF VendorReply, LockInv, SentInv
  <2> QED BY <2>1, <2>2, <2>3
<1>3. ASSUME NEW e \in Unasked, VendorEmit(e) PROVE Inv'
  <2>1. TypeOK'
    BY <1>3 DEF VendorEmit
  <2>2. (PlaceInv /\ TableInv /\ HandInv)'
    BY <1>3 DEF VendorEmit, PlaceInv, TableInv, HandInv
  <2>3. (LockInv /\ SentInv)'
    BY <1>3 DEF VendorEmit, LockInv, SentInv
  <2> QED BY <2>1, <2>2, <2>3
<1> QED BY <1>1, <1>2, <1>3 DEF Vendor

LEMMA NextInv == ASSUME Inv, [Next]_vars PROVE Inv'
<1>1. CASE Next
  BY <1>1, HandlerInv, BackgroundInv, VendorInv DEF Next
<1>2. CASE UNCHANGED vars
  <2>1. TypeOK'
    BY <1>2 DEF Inv, TypeOK, DLTypeOK, vars, dlVars, lockVars, loopVars,
                tableVars, callVars
  <2>2. (PlaceInv /\ TableInv /\ HandInv /\ LockInv /\ SentInv)'
    BY <1>2 DEF Inv, PlaceInv, TableInv, HandInv, LockInv, SentInv, vars,
                dlVars,
                lockVars, loopVars, tableVars, callVars
  <2> QED BY <2>1, <2>2 DEF Inv
<1> QED BY <1>1, <1>2

(* Inv holds in every state, whether or not ids are unique.                *)
THEOREM Invariance == Spec => []Inv
  BY InitInv, NextInv, PTL DEF Spec

(* The types of the state, for every value of the constants; that no       *)
(* command is run twice is part of it.                                     *)
THEOREM TypeCorrect == Spec => []TypeOK
<1>1. Inv => TypeOK
  BY DEF Inv
<1> QED BY <1>1, Invariance, PTL

(* No way out of invoke_tool leaves an entry in the table, even when ids   *)
(* collide.                                                                *)
THEOREM NothingStranded == Spec => []NoStrandedEntry
<1>1. Inv => NoStrandedEntry
  BY DoraLoopAssumption
  DEF Inv, TypeOK, DLTypeOK, TableInv, NoStrandedEntry, Busy
<1> QED BY <1>1, Invariance, PTL

(* The loop never holds a future that is already resolved, even when ids   *)
(* collide: the done() test of _dispatch is never what saves it.           *)
THEOREM HandIsUnresolved == Spec => []HandUnresolved
<1>1. Inv => HandUnresolved
  BY DEF Inv, HandInv, HandUnresolved
<1> QED BY <1>1, Invariance, PTL

(* send_output is entered by one thread at a time.                         *)
THEOREM OneSenderAtATime == Spec => []OneSender
<1>1. Inv => OneSender
  BY DoraLoopAssumption DEF Inv, TypeOK, DLTypeOK, LockInv, OneSender
<1> QED BY <1>1, Invariance, PTL

-----------------------------------------------------------------------------
(* Nobody waits for ever.                                                  *)

(* There is an id for every call (there are 2^122 of them).                *)
EnoughIds ==
  \A f \in [Calls -> RequestIds \cup {None}] :
    (\E c \in Calls : f[c] = None) =>
      \E r \in RequestIds : \A c \in Calls : f[c] # r

(* Whoever waits for the publish lock waits for a thread that is in        *)
(* send_output, whoever waits for an id gets one, and no other place of a  *)
(* handler waits for anything.                                             *)
LEMMA BusyGoesOn ==
  ASSUME EnoughIds, Inv, NEW c \in Busy
  PROVE  \/ CanGoOn(c)
         \/ publishLock = Heart /\ beat = "sending"
         \/ \E d \in Busy : CanGoOn(d)
<1> USE DoraLoopAssumption DEF Inv, TypeOK, DLTypeOK, Busy
<1>1. CASE pc[c] = "publishing" /\ publishLock # None
  <2>1. CASE publishLock = Heart
    BY <2>1 DEF LockInv
  <2>2. CASE publishLock \in Calls
    <3>1. pc[publishLock] \in {"sending", "sent"}
      BY <2>2 DEF LockInv
    <3>2. publishLock \in Busy /\ CanGoOn(publishLock)
      BY <3>1, <2>2 DEF CanGoOn
    <3> QED BY <3>2
  <2> QED BY <1>1, <2>1, <2>2
<1>2. CASE pc[c] = "checking"
  <2>1. NewRequestIds # {}
    <3>1. rid[c] = None
      BY <1>2 DEF PlaceInv
    <3>2. PICK r \in RequestIds : \A d \in Calls : rid[d] # r
      BY <3>1 DEF EnoughIds
    <3> QED BY <3>2 DEF NewRequestIds
  <2> QED BY <2>1, <1>2 DEF CanGoOn, PlaceInv
<1>3. CASE ~(pc[c] = "publishing" /\ publishLock # None)
           /\ pc[c] # "checking"
  BY <1>3 DEF CanGoOn, PlaceInv, LockInv, Places
<1> QED BY <1>1, <1>2, <1>3

(* A call that waits for a thread of the pool waits for calls that can go  *)
(* on, or that wait for one that can.                                      *)
THEOREM NobodyStuck == ASSUME EnoughIds PROVE Spec => []NeverStuck
<1>1. Inv => NeverStuck
  <2> SUFFICES ASSUME Inv, NEW c \in Calls, pc[c] \notin {"new", "answered"}
               PROVE  \/ CanGoOn(c)
                      \/ publishLock = Heart /\ beat = "sending"
                      \/ \E d \in Busy : CanGoOn(d)
    BY DEF NeverStuck
  <2>1. CASE pc[c] # "queued"
    BY <2>1, BusyGoesOn DEF Busy
  <2>2. CASE pc[c] = "queued" /\ Busy = {}
    BY <2>2, HttpApiAssumption, FS_EmptySet DEF CanGoOn
  <2>3. CASE pc[c] = "queued" /\ Busy # {}
    <3>1. PICK d \in Busy : TRUE
      BY <2>3
    <3>2. d \in Calls
      BY DEF Busy
    <3> QED BY <3>1, <3>2, BusyGoesOn
  <2> QED BY <2>1, <2>2, <2>3
<1> QED BY <1>1, Invariance, PTL

(* How many steps the handler has left at most, by where it is.            *)
Left(place) ==
  CASE place = "new" -> 10
    [] place = "queued" -> 9
    [] place = "checking" -> 8
    [] place = "registering" -> 7
    [] place = "publishing" -> 6
    [] place = "sending" -> 5
    [] place = "sent" -> 4
    [] place = "waiting" -> 3
    [] place \in {"expired", "failed"} -> 2
    [] place = "answered" -> 1

(* A handler only goes forward: with NobodyStuck, every call has at most   *)
(* nine steps to its answer and never waits for a thread that has none.    *)
THEOREM HandlersAdvance ==
  Spec => [][\A c \in Calls :
              pc'[c] # pc[c] => Left(pc'[c]) < Left(pc[c])]_vars
<1> DEFINE Forward == \A c \in Calls :
                        pc'[c] # pc[c] => Left(pc'[c]) < Left(pc[c])
<1>1. ASSUME Inv, [Next]_vars PROVE [Forward]_vars
  <2> USE DEF Inv, TypeOK, GoTo, Return
  <2>1. ASSUME NEW c \in Calls, NEW v \in Verbs \cup Reads, Arrive(c, v)
        PROVE  Forward
    BY <2>1 DEF Arrive, Left
  <2>2. ASSUME NEW c \in Calls, Handler(c)
        PROVE  Forward
    <3>1. ASSUME NEW place, GoTo(c, place), Left(place) < Left(pc[c])
          PROVE  Forward
      BY <1>1, <3>1
    <3>2. ASSUME Start(c) \/ Read(c) \/ CheckAdvert(c)
          PROVE  \E place : GoTo(c, place) /\ Left(place) < Left(pc[c])
      BY <3>2 DEF Start, Read, CheckAdvert, Then, Left
    <3>3. ASSUME \/ Register(c) \/ AcquirePublish(c) \/ Send(c)
                 \/ SendReturns(c) \/ SendRaises(c)
          PROVE  \E place : GoTo(c, place) /\ Left(place) < Left(pc[c])
      BY <3>3 DEF Register, AcquirePublish, Send, SendReturns, SendRaises,
                  Then, Left
    <3>4. ASSUME \/ TakeResult(c) \/ TakeResultRaises(c) \/ Expire(c)
                 \/ CancelExpired(c) \/ CancelFailed(c)
          PROVE  \E place : GoTo(c, place) /\ Left(place) < Left(pc[c])
      BY <3>4 DEF TakeResult, TakeResultRaises, Expire, CancelExpired,
                  CancelFailed, Left
    <3> QED BY <2>2, <3>1, <3>2, <3>3, <3>4 DEF Handler
  <2>3. ASSUME UNCHANGED callVars PROVE Forward
    BY <2>3 DEF callVars
  <2>4. Vendor => UNCHANGED callVars
    BY DEF Vendor, VendorRun, VendorReply, VendorEmit
  <2> QED BY <1>1, <2>1, <2>2, <2>3, <2>4 DEF Next
<1> QED BY <1>1, Invariance, PTL DEF Spec

-----------------------------------------------------------------------------
(* What holds because uuid4 never repeats.                                 *)

(* Only CheckAdvert gives out ids, and NewRequestIds are no call's yet.    *)
LEMMA DistinctIdsStep ==
  ASSUME UniqueIds, Inv, DistinctIds, [Next]_vars
  PROVE  DistinctIds'
<1> USE DoraLoopAssumption DEF Inv, TypeOK, DLTypeOK, DistinctIds
<1>1. ASSUME NEW c \in Calls, CheckAdvert(c) PROVE DistinctIds'
  BY <1>1 DEF CheckAdvert, NewRequestIds
<1>2. ASSUME NEW c \in Calls,
             \/ \E v \in Verbs \cup Reads : Arrive(c, v)
             \/ Handler(c) /\ ~CheckAdvert(c)
      PROVE  UNCHANGED rid
  BY <1>2 DEF Arrive, Handler, Start, Read, Register, RegisterPending,
              AcquirePublish, Send, SendReturns, SendRaises, TakeResult,
              TakeResultRaises, Expire, CancelExpired, CancelFailed,
              CancelPending, dlVars, tableVars
<1>3. ASSUME Background PROVE UNCHANGED rid
  BY <1>3 DEF Background, HeartAcquires, HeartReleases, LoopStep, LoopReturns,
              DispatchCapabilities, DispatchReply,
              DispatchDropped, DispatchCrashes, ResolveFuture, tableVars
<1>4. ASSUME Vendor \/ UNCHANGED vars PROVE UNCHANGED rid
  BY <1>4 DEF Vendor, VendorRun, VendorReply, VendorEmit, vars, dlVars,
              tableVars
<1>5. ASSUME UNCHANGED rid PROVE DistinctIds'
  BY <1>5
<1> QED BY <1>1, <1>2, <1>3, <1>4, <1>5 DEF Next

(* The loop's hand: the reply it holds was sent under the id of the future *)
(* it popped, and only one call has that id.                               *)
LEMMA HandOwnStep ==
  ASSUME Inv, DistinctIds, HandOwn, [Next]_vars
  PROVE  HandOwn'
<1> USE DoraLoopAssumption DEF Inv, TypeOK, DLTypeOK, HandOwn
<1>1. ASSUME NEW e \in inbox, DispatchReply(e) PROVE HandOwn'
  BY <1>1 DEF DispatchReply, NextInput, DistinctIds, TableInv, SentInv, Reply
<1>2. ASSUME ResolveFuture PROVE HandOwn'
  BY <1>2 DEF ResolveFuture
<1>3. ASSUME NEW c \in Calls,
             (\E v \in Verbs \cup Reads : Arrive(c, v)) \/ Handler(c)
      PROVE  UNCHANGED loopVars
  BY <1>3 DEF Arrive, Handler, Start, Read, CheckAdvert, Register,
              AcquirePublish, Send, SendReturns, SendRaises, TakeResult,
              TakeResultRaises, Expire, CancelExpired, CancelFailed, dlVars
<1>4. ASSUME NEW e \in inbox,
             DispatchCapabilities(e) \/ DispatchDropped(e) \/ DispatchCrashes(e)
      PROVE  UNCHANGED <<hand, handReply>>
  BY <1>4 DEF DispatchCapabilities, DispatchDropped, DispatchCrashes, loopVars
<1>5. ASSUME \/ LoopReturns \/ HeartAcquires \/ HeartReleases
             \/ Vendor \/ UNCHANGED vars
      PROVE  UNCHANGED <<hand, handReply>>
  BY <1>5 DEF LoopReturns, HeartAcquires, HeartReleases, Vendor, VendorRun,
              VendorReply, VendorEmit, vars,
              dlVars, lockVars, loopVars
<1>6. ASSUME UNCHANGED <<hand, handReply>> PROVE HandOwn'
  BY <1>6
<1> QED BY <1>1, <1>2, <1>3, <1>4, <1>5, <1>6 DEF Next, Background, LoopStep,
                                                  loopVars

(* A result is written once, from the hand, and a run is never undone.     *)
LEMMA OwnReplyStep ==
  ASSUME Inv, HandOwn, OwnReply, [Next]_vars
  PROVE  OwnReply'
<1> USE DoraLoopAssumption DEF Inv, TypeOK, DLTypeOK, OwnReply
<1>1. ASSUME ResolveFuture, UNCHANGED runs PROVE OwnReply'
  BY <1>1 DEF ResolveFuture, HandInv, HandOwn, SentInv
<1>2. ASSUME NEW q \in requests, VendorRun(q) PROVE OwnReply'
  BY <1>2 DEF VendorRun, SentInv, tableVars, Request
<1>3. ASSUME NEW c \in Calls,
             (\E v \in Verbs \cup Reads : Arrive(c, v)) \/ Handler(c)
      PROVE  UNCHANGED <<result, runs>>
  BY <1>3 DEF Arrive, Handler, Start, Read, CheckAdvert, Register,
              RegisterPending,
              AcquirePublish, Send, SendReturns, SendRaises, TakeResult,
              TakeResultRaises, Expire, CancelExpired, CancelFailed,
              CancelPending, dlVars, tableVars
<1>4. ASSUME NEW e \in inbox,
             \/ DispatchCapabilities(e)
             \/ DispatchReply(e)
             \/ DispatchDropped(e)
             \/ DispatchCrashes(e)
      PROVE  UNCHANGED result
  BY <1>4 DEF DispatchCapabilities, DispatchReply, DispatchDropped,
              DispatchCrashes, tableVars
<1>5. ASSUME LoopReturns \/ HeartAcquires \/ HeartReleases
      PROVE  UNCHANGED result
  BY <1>5 DEF LoopReturns, HeartAcquires, HeartReleases, tableVars
<1>6. ASSUME NEW c \in Calls, VendorReply(c) PROVE UNCHANGED <<result, runs>>
  BY <1>6 DEF VendorReply, tableVars
<1>7. ASSUME NEW e \in Unasked, VendorEmit(e) PROVE UNCHANGED <<result, runs>>
  BY <1>7 DEF VendorEmit, tableVars
<1>8. ASSUME UNCHANGED vars PROVE UNCHANGED <<result, runs>>
  BY <1>8 DEF vars, dlVars, tableVars
<1>9. ASSUME UNCHANGED <<result, runs>> PROVE OwnReply'
  BY <1>9
<1> QED BY <1>1, <1>2, <1>3, <1>4, <1>5, <1>6, <1>7, <1>8, <1>9
        DEF Next, Background, LoopStep, Vendor

(* The entry of a waiting call is removed by a reply that hands its future *)
(* to the loop, or by its own handler; another handler's cancel or         *)
(* register touches another id.                                            *)
LEMMA RegisteredStep ==
  ASSUME UniqueIds, Inv, DistinctIds, Registered, [Next]_vars
  PROVE  Registered'
<1> USE DoraLoopAssumption DEF Inv, TypeOK, DLTypeOK, Registered
<1>1. ASSUME NEW c \in Calls, Register(c) PROVE Registered'
  BY <1>1 DEF Register, RegisterPending, Then, DistinctIds, PlaceInv, loopVars,
              GoTo
<1>2. ASSUME NEW c \in Calls, CancelExpired(c) \/ CancelFailed(c)
      PROVE  Registered'
  BY <1>2 DEF CancelExpired, CancelFailed, CancelPending, Return, GoTo,
              DistinctIds, PlaceInv, loopVars
<1>3. ASSUME NEW c \in Calls,
             \/ \E v \in Verbs \cup Reads : Arrive(c, v)
             \/ Start(c)
             \/ Read(c)
             \/ CheckAdvert(c)
             \/ AcquirePublish(c)
             \/ Send(c)
             \/ SendReturns(c)
             \/ SendRaises(c)
             \/ TakeResult(c)
             \/ TakeResultRaises(c)
             \/ Expire(c)
      PROVE  Registered'
  BY <1>3 DEF Arrive, Start, Read, CheckAdvert, Then, AcquirePublish, Send,
              SendReturns, SendRaises, TakeResult, TakeResultRaises, Expire, Return, GoTo, PlaceInv,
              dlVars, tableVars,
              loopVars
<1>4. ASSUME NEW e \in inbox, DispatchReply(e), UNCHANGED callVars
      PROVE  Registered'
  BY <1>4 DEF DispatchReply, NextInput, PlaceInv, callVars, Reply
<1>5. ASSUME ResolveFuture, UNCHANGED callVars PROVE Registered'
  BY <1>5 DEF ResolveFuture, callVars
<1>6. ASSUME NEW e \in inbox,
             DispatchCapabilities(e) \/ DispatchDropped(e) \/ DispatchCrashes(e),
             UNCHANGED callVars
      PROVE  Registered'
  BY <1>6 DEF DispatchCapabilities, DispatchDropped, DispatchCrashes, callVars,
              tableVars, loopVars
<1>7. ASSUME \/ LoopReturns /\ UNCHANGED callVars
             \/ (HeartAcquires \/ HeartReleases) /\ UNCHANGED callVars
             \/ Vendor
             \/ UNCHANGED vars
      PROVE  Registered'
  BY <1>7 DEF LoopReturns, HeartAcquires, HeartReleases, Vendor, VendorRun,
              VendorReply, VendorEmit, vars,
              dlVars, callVars, tableVars, loopVars
<1> QED BY <1>1, <1>2, <1>3, <1>4, <1>5, <1>6, <1>7
        DEF Next, Background, Handler, LoopStep, callVars

LEMMA UniqueIdsInvariance == ASSUME UniqueIds PROVE Spec => []UInv
<1>1. Init => UInv
  <2>1. Init => DistinctIds /\ HandOwn /\ OwnReply /\ Registered
    BY DEF Init, DLInit, DistinctIds, HandOwn, OwnReply, Registered
  <2> QED BY <2>1, InitInv DEF UInv
<1>2. UInv /\ [Next]_vars => UInv'
  BY NextInv, DistinctIdsStep, HandOwnStep, OwnReplyStep, RegisteredStep
  DEF UInv
<1> QED BY <1>1, <1>2, PTL DEF Spec

(* When ids are unique, a future only ever receives the reply to its own   *)
(* command, whatever is late, repeated, lost or reordered.                 *)
THEOREM EveryReplyIsOwn == ASSUME UniqueIds PROVE Spec => []OwnReply
<1>1. UInv => OwnReply
  BY DEF UInv
<1> QED BY <1>1, UniqueIdsInvariance, PTL

(* When ids are unique, a reply finds its caller from the moment the       *)
(* request is out, also while the handler is still inside send_output.     *)
THEOREM EveryWaiterReachable == ASSUME UniqueIds PROVE Spec => []WaiterReachable
<1>1. UInv => WaiterReachable
  <2> SUFFICES ASSUME UInv, NEW c \in Calls, RequestOut(c), future[c] # "set",
                      pc[c] \notin {"expired", "failed", "answered"}
               PROVE  pending[rid[c]] = c \/ hand = c
    BY DEF WaiterReachable
  <2>1. pc[c] \in {"sent", "waiting"}
    BY DEF UInv, Inv, SentInv, Sent, RequestOut, TypeOK
  <2>2. future[c] = "unset"
    BY <2>1 DEF UInv, Inv, PlaceInv, TypeOK, DLTypeOK
  <2> QED BY <2>1, <2>2 DEF UInv, Registered
<1> QED BY <1>1, UniqueIdsInvariance, PTL

-----------------------------------------------------------------------------
(* HttpApi implements ToolCall.                                            *)

StatusMap == [c \in Calls |-> Status(c)]

(* A step that changes the status of one call changes the map at one place. *)
LEMMA StatusMoves ==
  ASSUME NEW c \in Calls, NEW s, Status(c)' = s,
         \A d \in Calls : d # c => Status(d)' = Status(d)
  PROVE  StatusMap' = [StatusMap EXCEPT ![c] = s]
  BY DEF StatusMap

(* The steps of a handler that octos sees: it is refused, answered or      *)
(* given up; the others leave every status as it was.                      *)
LEMMA HandlerRefines ==
  ASSUME UInv, UInv', NEW c \in Calls,
         (\E v \in Verbs \cup Reads : Arrive(c, v)) \/ Handler(c)
  PROVE  [AbstractCall!Next]_<<StatusMap, runs>>
<1> USE DoraLoopAssumption, HttpApiAssumption
    DEF UInv, Inv, TypeOK, DLTypeOK, PlaceInv, GoTo, Codes
<1>1. ASSUME NEW v \in Verbs \cup Reads, Arrive(c, v)
      PROVE  AbstractCall!Submit(c)
  <2>1. Status(c) = "new" /\ Status(c)' = "open" /\ UNCHANGED runs
    BY <1>1 DEF Arrive, dlVars, tableVars, Status
  <2>2. \A d \in Calls : d # c => Status(d)' = Status(d)
    BY <1>1 DEF Arrive, dlVars, tableVars, Status
  <2> QED BY <2>1, <2>2, StatusMoves DEF AbstractCall!Submit, StatusMap
<1>2. ASSUME \/ Start(c) \/ Register(c) \/ AcquirePublish(c) \/ Send(c)
             \/ SendReturns(c) \/ SendRaises(c) \/ TakeResultRaises(c)
             \/ Expire(c)
      PROVE  UNCHANGED <<StatusMap, runs>>
  BY <1>2 DEF Start, Register, RegisterPending, Then, AcquirePublish, Send,
              SendReturns, SendRaises, TakeResultRaises, Expire, dlVars,
              tableVars, StatusMap, Status
<1>3. ASSUME CheckAdvert(c), pc'[c] = "registering"
      PROVE  UNCHANGED <<StatusMap, runs>>
  BY <1>3 DEF CheckAdvert, Return, Then, dlVars, tableVars, StatusMap, Status
<1>4. ASSUME CheckAdvert(c), pc'[c] # "registering"
      PROVE  AbstractCall!Refuse(c)
  <2>1. /\ Status(c) = "open" /\ Status(c)' = "refused"
        /\ runs[c] = 0 /\ UNCHANGED runs
    BY <1>4 DEF CheckAdvert, Return, Then, dlVars, tableVars, Status, SentInv
  <2>2. \A d \in Calls : d # c => Status(d)' = Status(d)
    BY <1>4 DEF CheckAdvert, Return, Then, dlVars, tableVars, Status
  <2> QED BY <2>1, <2>2, StatusMoves DEF AbstractCall!Refuse, StatusMap
<1>5. ASSUME Read(c), answer'[c] = "SERVED"
      PROVE  AbstractCall!Serve(c)
  <2>1. /\ Status(c) = "open" /\ Status(c)' = "served"
        /\ runs[c] = 0 /\ UNCHANGED runs
    BY <1>5 DEF Read, Return, dlVars, tableVars, Status, SentInv
  <2>2. \A d \in Calls : d # c => Status(d)' = Status(d)
    BY <1>5 DEF Read, Return, dlVars, tableVars, Status
  <2> QED BY <2>1, <2>2, StatusMoves DEF AbstractCall!Serve, StatusMap
<1>6. ASSUME Read(c), answer'[c] # "SERVED"
      PROVE  AbstractCall!Refuse(c)
  <2>1. /\ Status(c) = "open" /\ Status(c)' = "refused"
        /\ runs[c] = 0 /\ UNCHANGED runs
    BY <1>6 DEF Read, Return, dlVars, tableVars, Status, SentInv
  <2>2. \A d \in Calls : d # c => Status(d)' = Status(d)
    BY <1>6 DEF Read, Return, dlVars, tableVars, Status
  <2> QED BY <2>1, <2>2, StatusMoves DEF AbstractCall!Refuse, StatusMap
<1>7. ASSUME TakeResult(c)
      PROVE  AbstractCall!Answer(c)
  <2>1. /\ Status(c) = "open" /\ Status(c)' = "answered"
        /\ runs[c] = 1 /\ UNCHANGED runs
    BY <1>7 DEF TakeResult, Return, dlVars, tableVars, Status, OwnReply
  <2>2. \A d \in Calls : d # c => Status(d)' = Status(d)
    BY <1>7 DEF TakeResult, Return, dlVars, tableVars, Status
  <2> QED BY <2>1, <2>2, StatusMoves DEF AbstractCall!Answer, StatusMap
<1>8. ASSUME CancelExpired(c) \/ CancelFailed(c)
      PROVE  AbstractCall!GiveUp(c)
  <2>1. Status(c) = "open" /\ Status(c)' = "given_up" /\ UNCHANGED runs
    BY <1>8 DEF CancelExpired, CancelFailed, CancelPending, Return, Status
  <2>2. \A d \in Calls : d # c => Status(d)' = Status(d)
    BY <1>8 DEF CancelExpired, CancelFailed, CancelPending, Return, Status
  <2> QED BY <2>1, <2>2, StatusMoves DEF AbstractCall!GiveUp, StatusMap
<1> QED
  BY <1>1, <1>2, <1>3, <1>4, <1>5, <1>6, <1>7, <1>8
  DEF Handler, AbstractCall!Next

(* Of the others only a run is seen, and only of a call octos still waits  *)
(* for or was told was given up.                                           *)
LEMMA OthersRefine ==
  ASSUME UInv, UInv',
         \/ Background /\ UNCHANGED <<callVars, runs>>
         \/ Vendor
         \/ UNCHANGED vars
  PROVE  [AbstractCall!Next]_<<StatusMap, runs>>
<1> USE DoraLoopAssumption, HttpApiAssumption
    DEF UInv, Inv, TypeOK, DLTypeOK, StatusMap, Status
<1>1. ASSUME NEW q \in requests, VendorRun(q)
      PROVE  AbstractCall!Run(q.of)
  <2>1. q.of \in Calls /\ runs[q.of] = 0
    BY <1>1 DEF VendorRun, SentInv, Request
  <2>2. Status(q.of) \in {"open", "given_up"}
    <3>1. rid[q.of] # None /\ pc[q.of] \in Sent
      BY <1>1 DEF SentInv, Request
    <3>2. answer[q.of] \notin {"OK", "SERVED"}
      BY <2>1, <3>1 DEF PlaceInv, OwnReply
    <3> QED BY <2>1, <3>1, <3>2 DEF PlaceInv, Sent
  <2>3. runs' = [runs EXCEPT ![q.of] = 1] /\ UNCHANGED StatusMap
    BY <1>1, <2>1 DEF VendorRun, callVars, tableVars
  <2> QED BY <2>1, <2>2, <2>3 DEF AbstractCall!Run
<1>2. ASSUME Background /\ UNCHANGED <<callVars, runs>>
      PROVE  UNCHANGED <<StatusMap, runs>>
  BY <1>2 DEF Background, HeartAcquires, HeartReleases, LoopStep, LoopReturns,
              DispatchCapabilities, DispatchReply,
              DispatchDropped, DispatchCrashes, ResolveFuture, callVars,
              tableVars
<1>3. ASSUME \/ \E c \in Calls : VendorReply(c)
             \/ \E e \in Unasked : VendorEmit(e)
             \/ UNCHANGED vars
      PROVE  UNCHANGED <<StatusMap, runs>>
  BY <1>3 DEF VendorReply, VendorEmit, vars, dlVars, callVars, tableVars
<1>4. ASSUME NEW q \in requests, VendorRun(q) PROVE q.of \in Calls
  BY DEF Request
<1> QED BY <1>1, <1>2, <1>3, <1>4 DEF Vendor, AbstractCall!Next

(* When ids are unique, the handler, the loop and the vendor together keep *)
(* what ToolCall says of every call.                                       *)
THEOREM ToolCallImplemented == ASSUME UniqueIds PROVE Spec => ToolCallSpec
<1>1. Init => AbstractCall!Init
  BY DEF Init, DLInit, AbstractCall!Init, Status
<1>2. ASSUME UInv, UInv', [Next]_vars
      PROVE  [AbstractCall!Next]_<<StatusMap, runs>>
  BY <1>2, HandlerRefines, OthersRefine DEF Next
<1>3. UInv /\ UInv' /\ [Next]_vars => [AbstractCall!Next]_AbstractCall!vars
  BY <1>2 DEF AbstractCall!vars, StatusMap
<1> QED BY <1>1, <1>3, UniqueIdsInvariance, PTL
        DEF Spec, ToolCallSpec, AbstractCall!Spec

=============================================================================
