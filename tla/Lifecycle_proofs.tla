-------------------------- MODULE Lifecycle_proofs --------------------------
(***************************************************************************)
(* Proofs about Lifecycle, for any number of signals, that is for stop     *)
(* sequences that interrupt each other to any depth.                       *)
(*                                                                         *)
(* What a frame of the stack has done, the flags remember; a frame that is *)
(* interrupted finds, when it goes on, what the frames above it have left. *)
(* The inductive invariant says both: FrameInv what each frame's place     *)
(* means for the flags, OrderInv which places exclude each other on one    *)
(* stack.                                                                  *)
(***************************************************************************)
EXTENDS Lifecycle, SequenceTheorems, TLAPS

Steps == HeartbeatSteps \cup LoopSteps \cup {"done"}

(* Inside "if self._thread is not None" of the two stop() methods.         *)
HeartbeatJoins == {"hb_join", "hb_alive", "hb_clear"}
LoopJoins == {"dl_join", "dl_alive", "dl_clear"}

(* After the heartbeat's stop().                                           *)
AfterHeartbeat == LoopSteps \cup {"done"}

(* The frame has set _stopped; it has set _stop too.                       *)
LoopStopped == {"dl_set", "dl_mark", "dl_notify", "dl_thread"} \cup LoopJoins
LoopTold == {"dl_notify", "dl_thread"} \cup LoopJoins

(* The frame goes on to tell the loop thread, or another one does.         *)
AboutToTell == {"dl_test", "dl_flag", "dl_set", "dl_mark"}

Frames == 1 .. Len(frames)

(* In the last conjunct the thread was cleared under the frame, by one     *)
(* above it.                                                               *)
FrameInv ==
  \A i \in Frames :
    /\ frames[i] \notin {"hb_set", "hb_mark"} => hbStop
    /\ frames[i] \in AfterHeartbeat => ~hbThread
    /\ frames[i] \in LoopStopped \cup {"done"} => dlStopped
    /\ frames[i] \in LoopTold => dlStop
    /\ frames[i] \in LoopJoins => dlThread
    /\ frames[i] \in HeartbeatJoins /\ ~hbThread =>
         dlStop \/ \E j \in Frames : j > i /\ frames[j] \in AboutToTell

OrderInv ==
  \A i, j \in Frames : i < j =>
    /\ frames[i] \in LoopStopped =>
         frames[j] \notin LoopStopped \cup {"dl_flag"}
    /\ frames[i] \in AfterHeartbeat => frames[j] \notin HeartbeatJoins

FlagInv ==
  dlStopped /\ ~dlStop => \E i \in Frames : frames[i] \in {"dl_set", "dl_mark"}

ExitInv == main = "exited" => frames = <<>> /\ hbStop /\ dlStop

(* Each signal makes one frame at most, and main's finally one.            *)
CountInv ==
  /\ main = "serving" => frames = <<>>
  /\ Len(frames) + captured <= signals + (IF main = "cleanup" THEN 1 ELSE 0)

Inv ==
  /\ TypeOK
  /\ FrameInv
  /\ OrderInv
  /\ FlagInv
  /\ ExitInv
  /\ CountInv
  /\ LoopStopNeverRaises

-----------------------------------------------------------------------------
(* The stack.                                                              *)

(* The running frame, which is the last, goes to another place.            *)
LEMMA FrameMoves ==
  ASSUME NEW f \in Seq(Steps), f # <<>>, NEW s \in Steps,
         NEW g, g = [f EXCEPT ![Len(f)] = s]
  PROVE  /\ g \in Seq(Steps)
         /\ g # <<>>
         /\ Len(g) = Len(f)
         /\ Len(f) \in Nat \ {0}
         /\ g[Len(f)] = s
         /\ \A i \in 1 .. Len(f) : i # Len(f) => g[i] = f[i]
<1>1. Len(f) \in Nat \ {0}
  BY EmptySeq
<1> QED BY <1>1, ExceptSeq, EmptySeq

(* A signal puts a frame on top.                                           *)
LEMMA FramePushed ==
  ASSUME NEW f \in Seq(Steps), NEW g, g = Append(f, "hb_set")
  PROVE  /\ g \in Seq(Steps)
         /\ Len(g) = Len(f) + 1
         /\ Len(f) \in Nat
         /\ g[Len(g)] = "hb_set"
         /\ \A i \in 1 .. Len(f) : g[i] = f[i]
BY AppendProperties DEF Steps, HeartbeatSteps

(* A handler returns to what it interrupted.                               *)
LEMMA FramePopped ==
  ASSUME NEW f \in Seq(Steps), f # <<>>, NEW g, g = SubSeq(f, 1, Len(f) - 1)
  PROVE  /\ g \in Seq(Steps)
         /\ Len(g) = Len(f) - 1
         /\ Len(f) \in Nat \ {0}
         /\ \A i \in 1 .. Len(g) : g[i] = f[i]
<1>1. Len(f) \in Nat \ {0} /\ \A i \in 1 .. Len(f) : f[i] \in Steps
  BY EmptySeq, LenProperties
<1> DEFINE n == Len(f) - 1
<1>2. n \in Nat /\ \A i \in 1 .. n : f[i] \in Steps
  BY <1>1
<1>3. g \in Seq(Steps) /\ Len(g) = n
  <2> HIDE DEF n
  <2>1. SubSeq(f, 1, n) \in Seq(Steps)
    BY <1>2, SubSeqProperties
  <2>2. Len(SubSeq(f, 1, n)) = IF 1 <= n THEN n - 1 + 1 ELSE 0
    BY <1>2, SubSeqProperties
  <2>3. Len(SubSeq(f, 1, n)) = n
    BY <1>2, <2>2
  <2>4. g = SubSeq(f, 1, n)
    BY DEF n
  <2> QED BY <2>1, <2>3, <2>4
<1>4. \A i \in 1 .. n : g[i] = f[i]
  <2> SUFFICES ASSUME NEW i \in 1 .. n PROVE g[i] = f[i]
    OBVIOUS
  <2>1. i \in 1 .. n - 1 + 1 /\ 1 + i - 1 = i
    BY <1>2
  <2>2. SubSeq(f, 1, n)[i] = f[1 + i - 1]
    BY <1>2, <2>1, SubSeqProperties
  <2> QED BY <2>1, <2>2
<1> QED BY <1>1, <1>2, <1>3, <1>4

-----------------------------------------------------------------------------
(* Invariance of Inv, one step per action.                                 *)

LEMMA InitInv == Init => Inv
<1> SUFFICES ASSUME Init PROVE Inv
  OBVIOUS
<1>1. Len(frames) = 0 /\ frames \in Seq(Steps)
  BY EmptySeq DEF Init
<1>2. TypeOK
  <2>1. Len(frames) <= MaxSignals + 1 /\ signals \in 0 .. MaxSignals
        /\ captured \in 0 .. MaxSignals
    BY <1>1, LifecycleAssumption DEF Init
  <2> QED BY <1>1, <2>1, Zenon DEF Init, TypeOK, Steps
<1>3. FrameInv /\ OrderInv /\ FlagInv /\ ExitInv /\ CountInv /\ LoopStopNeverRaises
  BY <1>1
  DEF Init, FrameInv, OrderInv, FlagInv, ExitInv, CountInv,
      LoopStopNeverRaises,
      Frames
<1> QED BY <1>2, <1>3 DEF Inv

(* The statements of HeartbeatRunner.stop.                                 *)
LEMMA HeartbeatStopInv ==
  ASSUME Inv,
         \/ HbSet \/ HbMark \/ HbNotify
         \/ HbTest \/ HbJoin \/ HbAlive \/ HbClear,
         UNCHANGED <<signals, captured, shouldExit, dlAlive>>
  PROVE  Inv'
<1> USE LifecycleAssumption DEF Inv, Frames
<1> DEFINE top == Len(frames)
<1>1. /\ frames \in Seq(Steps) /\ frames # <<>>
      /\ top \in Nat \ {0}
      /\ frames[top] \in HeartbeatSteps
      /\ main # "exited"
  BY EmptySeq
  DEF TypeOK, Steps, ExitInv, HbSet, HbMark, HbNotify, HbTest, HbJoin, HbAlive,
      HbClear, At, HeartbeatSteps
<1>2. ASSUME NEW s \in Steps, GoTo(s)
      PROVE  /\ frames' \in Seq(Steps) /\ frames' # <<>> /\ Len(frames') = top
             /\ frames'[top] = s
             /\ \A i \in 1 .. top : i # top => frames'[i] = frames[i]
  BY <1>1, <1>2, FrameMoves DEF GoTo
<1>3. ASSUME HbSet \/ HbMark \/ HbNotify PROVE Inv'
  <2>1. PICK s \in {"hb_mark", "hb_notify", "hb_test"} :
          /\ s \in Steps /\ GoTo(s)
          /\ s # "hb_mark" => hbStop'
    <3>1. HbNotify => hbStop /\ UNCHANGED hbStop
      BY <1>1 DEF HbNotify, At, stopVars, FrameInv
    <3> QED BY <1>3, <3>1 DEF HbSet, HbMark, HbNotify, Steps, HeartbeatSteps
  <2>2. /\ frames[top] \in {"hb_set", "hb_mark", "hb_notify"}
        /\ hbStop => hbStop'
        /\ hbStop' \in BOOLEAN
        /\ UNCHANGED <<main, raised, hbThread, dlStopped, dlStop, dlThread>>
    BY <1>3 DEF HbSet, HbMark, HbNotify, At, stopVars, TypeOK
  <2>3. TypeOK' /\ ExitInv' /\ CountInv' /\ LoopStopNeverRaises'
    BY <1>1, <1>2, <2>1, <2>2
    DEF TypeOK, ExitInv, CountInv, LoopStopNeverRaises, Steps
  <2>4. /\ frames' \in Seq(Steps) /\ frames' # <<>> /\ Len(frames') = top
        /\ frames'[top] = s
        /\ \A i \in 1 .. top : i # top => frames'[i] = frames[i]
    BY <1>2, <2>1
  <2>5. FrameInv'
    BY <1>1, <2>1, <2>2, <2>4
    DEF FrameInv, AfterHeartbeat, LoopSteps, HeartbeatJoins, LoopStopped,
        LoopTold, LoopJoins, AboutToTell
  <2>6. OrderInv' /\ FlagInv'
    BY <1>1, <2>1, <2>2, <2>4
    DEF OrderInv, FlagInv, AfterHeartbeat, LoopSteps, HeartbeatJoins,
        LoopStopped, LoopJoins
  <2> QED BY <2>3, <2>5, <2>6
<1>4. ASSUME HbTest PROVE Inv'
  <2>1. PICK s \in Steps : GoTo(s) /\ s = IF hbThread THEN "hb_join" ELSE "dl_test"
    BY <1>4 DEF HbTest, Steps, HeartbeatSteps, LoopSteps
  <2>2. TypeOK' /\ ExitInv' /\ CountInv' /\ LoopStopNeverRaises'
    BY <1>1, <1>2, <1>4, <2>1
    DEF HbTest, stopVars, TypeOK, ExitInv, CountInv, LoopStopNeverRaises, Steps
  <2>3. FrameInv' /\ OrderInv' /\ FlagInv'
    BY <1>1, <1>2, <1>4, <2>1
    DEF HbTest, At, stopVars, FrameInv, OrderInv, FlagInv, Steps,
        AfterHeartbeat,
        LoopSteps, HeartbeatJoins, LoopStopped, LoopTold, LoopJoins,
        AboutToTell
  <2> QED BY <2>2, <2>3
<1>5. ASSUME HbJoin \/ HbAlive, hbThread PROVE Inv'
  <2>1. PICK s \in HeartbeatJoins : s \in Steps /\ GoTo(s)
    BY <1>5 DEF HbJoin, HbAlive, HeartbeatJoins, Steps, HeartbeatSteps
  <2>2. TypeOK' /\ ExitInv' /\ CountInv' /\ LoopStopNeverRaises'
    BY <1>1, <1>2, <1>5, <2>1
    DEF HbJoin, HbAlive, stopVars, TypeOK, ExitInv, CountInv,
        LoopStopNeverRaises,
        Steps
  <2>3. /\ frames[top] \in HeartbeatJoins
        /\ UNCHANGED <<hbStop, hbThread, dlStopped, dlStop, dlThread>>
    BY <1>5 DEF HbJoin, HbAlive, At, HeartbeatJoins, stopVars
  <2>4. /\ frames' \in Seq(Steps) /\ frames' # <<>> /\ Len(frames') = top
        /\ frames'[top] = s
        /\ \A i \in 1 .. top : i # top => frames'[i] = frames[i]
    BY <1>2, <2>1
  <2>5. FrameInv'
    BY <1>1, <1>5, <2>1, <2>3, <2>4
    DEF FrameInv, AfterHeartbeat, LoopSteps, HeartbeatJoins, LoopStopped,
        LoopTold,
        LoopJoins, AboutToTell
  <2>6. OrderInv' /\ FlagInv'
    BY <1>1, <1>5, <2>1, <2>3, <2>4
    DEF OrderInv, FlagInv, AfterHeartbeat, LoopSteps, HeartbeatJoins,
        LoopStopped,
        LoopJoins
  <2> QED BY <2>2, <2>5, <2>6
<1>6. ASSUME HbJoin \/ HbAlive, ~hbThread PROVE Inv'
  (* The frames below are not past the heartbeat's stop, so that _stopped   *)
  (* without _stop would have no one to go on, and no frame is above.       *)
  <2>1. hbStop /\ dlStop
    BY <1>1, <1>6
    DEF HbJoin, HbAlive, At, FrameInv, HeartbeatJoins
  <2>2. /\ Raise("heartbeat")
        /\ UNCHANGED <<hbStop, hbThread, dlStopped, dlStop, dlThread>>
    BY <1>6 DEF HbJoin, HbAlive, stopVars
  <2>3. \/ main' = "exited" /\ frames' = <<>> /\ Len(frames') = 0
        \/ /\ main' = "cleanup" /\ main = "replaying"
           /\ frames' = <<"hb_set">> /\ Len(frames') = 1 /\ frames'[1] = "hb_set"
    BY <2>2, EmptySeq DEF Raise
  <2>4. frames' \in Seq(Steps)
    <3>1. <<>> \in Seq(Steps) /\ "hb_set" \in Steps
      BY EmptySeq DEF Steps, HeartbeatSteps
    <3>2. <<"hb_set">> \in Seq(Steps)
      BY <3>1
    <3> QED BY <2>3, <3>1, <3>2
  <2>5. TypeOK' /\ ExitInv' /\ CountInv' /\ LoopStopNeverRaises'
    BY <1>1, <2>1, <2>2, <2>3, <2>4
    DEF Raise, TypeOK, ExitInv, CountInv, LoopStopNeverRaises, Steps
  <2>6. FrameInv' /\ OrderInv' /\ FlagInv'
    BY <2>1, <2>2, <2>3
    DEF FrameInv, OrderInv, FlagInv, AfterHeartbeat, LoopSteps, HeartbeatJoins,
        LoopStopped, LoopTold, LoopJoins
  <2> QED BY <2>5, <2>6
<1>7. ASSUME HbClear PROVE Inv'
  <2>1. GoTo("dl_test") /\ "dl_test" \in Steps
    BY <1>7 DEF HbClear, Steps, LoopSteps
  <2>2. TypeOK' /\ ExitInv' /\ CountInv' /\ LoopStopNeverRaises'
    BY <1>1, <1>2, <1>7, <2>1
    DEF HbClear, TypeOK, ExitInv, CountInv, LoopStopNeverRaises, Steps
  <2>3. FrameInv' /\ OrderInv' /\ FlagInv'
    BY <1>1, <1>2, <1>7, <2>1
    DEF HbClear, At, FrameInv, OrderInv, FlagInv, Steps, AfterHeartbeat,
        LoopSteps,
        HeartbeatJoins, LoopStopped, LoopTold, LoopJoins, AboutToTell
  <2> QED BY <2>2, <2>3
<1> QED BY <1>3, <1>4, <1>5, <1>6, <1>7

(* The statements of DoraLoop.stop.  A frame that has set _stopped keeps   *)
(* those above it out, so that nobody clears the thread it joins.          *)
LEMMA LoopStopInv ==
  ASSUME Inv,
         \/ DlTest \/ DlFlag \/ DlSet \/ DlMark \/ DlNotify
         \/ DlThread \/ DlJoin \/ DlAlive \/ DlClear,
         UNCHANGED <<signals, captured, shouldExit, dlAlive>>
  PROVE  Inv'
<1> USE LifecycleAssumption DEF Inv, Frames
<1> DEFINE top == Len(frames)
<1>1. /\ frames \in Seq(Steps) /\ frames # <<>>
      /\ top \in Nat \ {0}
      /\ frames[top] \in LoopSteps
      /\ main # "exited"
  BY EmptySeq
  DEF TypeOK, Steps, ExitInv, DlTest, DlFlag, DlSet, DlMark, DlNotify,
      DlThread, DlJoin, DlAlive, DlClear, At, LoopSteps
<1>2. ASSUME NEW s \in Steps, GoTo(s)
      PROVE  /\ frames' \in Seq(Steps) /\ frames' # <<>> /\ Len(frames') = top
             /\ frames'[top] = s
             /\ \A i \in 1 .. top : i # top => frames'[i] = frames[i]
  BY <1>1, <1>2, FrameMoves DEF GoTo
<1>3. ASSUME DlTest PROVE Inv'
  <2>1. PICK s \in Steps : GoTo(s) /\ s = IF dlStopped THEN "done" ELSE "dl_flag"
    BY <1>3 DEF DlTest, Steps, LoopSteps
  <2>2. TypeOK' /\ ExitInv' /\ CountInv' /\ LoopStopNeverRaises'
    BY <1>1, <1>2, <1>3, <2>1
    DEF DlTest, stopVars, TypeOK, ExitInv, CountInv, LoopStopNeverRaises, Steps
  <2>3. FrameInv'
    BY <1>1, <1>2, <1>3, <2>1
    DEF DlTest, At, stopVars, FrameInv, OrderInv, FlagInv, Steps,
        AfterHeartbeat,
        LoopSteps, HeartbeatJoins, LoopStopped, LoopTold, LoopJoins,
        AboutToTell
  <2>4. OrderInv' /\ FlagInv'
    BY <1>1, <1>2, <1>3, <2>1
    DEF DlTest, At, stopVars, FrameInv, OrderInv, FlagInv, Steps,
        AfterHeartbeat,
        LoopSteps, HeartbeatJoins, LoopStopped, LoopJoins
  <2> QED BY <2>2, <2>3, <2>4
<1>4. ASSUME DlFlag PROVE Inv'
  <2>1. GoTo("dl_set") /\ "dl_set" \in Steps
    BY <1>4 DEF DlFlag, Steps, LoopSteps
  <2>2. TypeOK' /\ ExitInv' /\ CountInv' /\ LoopStopNeverRaises'
    BY <1>1, <1>2, <1>4, <2>1
    DEF DlFlag, TypeOK, ExitInv, CountInv, LoopStopNeverRaises, Steps
  <2>3. FrameInv'
    BY <1>1, <1>2, <1>4, <2>1
    DEF DlFlag, At, FrameInv, OrderInv, FlagInv, Steps, AfterHeartbeat,
        LoopSteps, HeartbeatJoins, LoopStopped, LoopTold, LoopJoins,
        AboutToTell
  <2>4. OrderInv' /\ FlagInv'
    BY <1>1, <1>2, <1>4, <2>1
    DEF DlFlag, At, FrameInv, OrderInv, FlagInv, Steps, AfterHeartbeat,
        LoopSteps, HeartbeatJoins, LoopStopped, LoopJoins
  <2> QED BY <2>2, <2>3, <2>4
<1>5. ASSUME DlMark PROVE Inv'
  <2>1. GoTo("dl_notify") /\ "dl_notify" \in Steps
    BY <1>5 DEF DlMark, Steps, LoopSteps
  <2>2. TypeOK' /\ ExitInv' /\ CountInv' /\ LoopStopNeverRaises'
    BY <1>1, <1>2, <1>5, <2>1
    DEF DlMark, TypeOK, ExitInv, CountInv, LoopStopNeverRaises, Steps
  <2>3. FrameInv'
    BY <1>1, <1>2, <1>5, <2>1
    DEF DlMark, At, FrameInv, OrderInv, FlagInv, Steps, AfterHeartbeat,
        LoopSteps, HeartbeatJoins, LoopStopped, LoopTold, LoopJoins,
        AboutToTell
  <2>4. OrderInv' /\ FlagInv'
    BY <1>1, <1>2, <1>5, <2>1
    DEF DlMark, At, FrameInv, OrderInv, FlagInv, Steps, AfterHeartbeat,
        LoopSteps, HeartbeatJoins, LoopStopped, LoopJoins
  <2> QED BY <2>2, <2>3, <2>4
<1>6. ASSUME DlThread PROVE Inv'
  <2>1. PICK s \in Steps : GoTo(s) /\ s = IF dlThread THEN "dl_join" ELSE "done"
    BY <1>6 DEF DlThread, Steps, LoopSteps
  <2>2. TypeOK' /\ ExitInv' /\ CountInv' /\ LoopStopNeverRaises'
    BY <1>1, <1>2, <1>6, <2>1
    DEF DlThread, stopVars, TypeOK, ExitInv, CountInv, LoopStopNeverRaises,
        Steps
  <2>3. FrameInv'
    BY <1>1, <1>2, <1>6, <2>1
    DEF DlThread, At, stopVars, FrameInv, OrderInv, FlagInv, Steps,
        AfterHeartbeat,
        LoopSteps, HeartbeatJoins, LoopStopped, LoopTold, LoopJoins,
        AboutToTell
  <2>4. OrderInv' /\ FlagInv'
    BY <1>1, <1>2, <1>6, <2>1
    DEF DlThread, At, stopVars, FrameInv, OrderInv, FlagInv, Steps,
        AfterHeartbeat,
        LoopSteps, HeartbeatJoins, LoopStopped, LoopJoins
  <2> QED BY <2>2, <2>3, <2>4
<1>7. ASSUME DlJoin \/ DlAlive PROVE Inv'
  <2>1. dlThread
    BY <1>1, <1>7 DEF DlJoin, DlAlive, At, FrameInv, LoopJoins
  <2>2. PICK s \in LoopJoins : s \in Steps /\ GoTo(s) /\ UNCHANGED <<main, raised>>
    BY <1>7, <2>1 DEF DlJoin, DlAlive, LoopJoins, Steps, LoopSteps
  <2>3. /\ frames[top] \in LoopJoins
        /\ UNCHANGED <<hbStop, hbThread, dlStopped, dlStop, dlThread>>
    BY <1>7 DEF DlJoin, DlAlive, At, LoopJoins, stopVars
  <2>4. /\ frames' \in Seq(Steps) /\ frames' # <<>> /\ Len(frames') = top
        /\ frames'[top] = s
        /\ \A i \in 1 .. top : i # top => frames'[i] = frames[i]
    BY <1>2, <2>2
  <2>5. TypeOK' /\ ExitInv' /\ CountInv' /\ LoopStopNeverRaises'
    BY <1>1, <2>2, <2>3, <2>4
    DEF TypeOK, ExitInv, CountInv, LoopStopNeverRaises, Steps
  <2>6. FrameInv'
    BY <1>1, <2>1, <2>2, <2>3, <2>4
    DEF FrameInv, AfterHeartbeat, LoopSteps, HeartbeatJoins, LoopStopped,
        LoopTold,
        LoopJoins, AboutToTell
  <2>7. OrderInv' /\ FlagInv'
    BY <1>1, <2>1, <2>2, <2>3, <2>4
    DEF OrderInv, FlagInv, AfterHeartbeat, LoopSteps, HeartbeatJoins,
        LoopStopped,
        LoopJoins
  <2> QED BY <2>5, <2>6, <2>7
<1>8. ASSUME DlClear PROVE Inv'
  <2>1. GoTo("done") /\ "done" \in Steps
    BY <1>8 DEF DlClear, Steps
  <2>2. TypeOK' /\ ExitInv' /\ CountInv' /\ LoopStopNeverRaises'
    BY <1>1, <1>2, <1>8, <2>1
    DEF DlClear, TypeOK, ExitInv, CountInv, LoopStopNeverRaises, Steps
  <2>3. FrameInv'
    BY <1>1, <1>2, <1>8, <2>1
    DEF DlClear, At, FrameInv, OrderInv, FlagInv, Steps, AfterHeartbeat,
        LoopSteps, HeartbeatJoins, LoopStopped, LoopTold, LoopJoins,
        AboutToTell
  <2>4. OrderInv' /\ FlagInv'
    BY <1>1, <1>2, <1>8, <2>1
    DEF DlClear, At, FrameInv, OrderInv, FlagInv, Steps, AfterHeartbeat,
        LoopSteps, HeartbeatJoins, LoopStopped, LoopJoins
  <2> QED BY <2>2, <2>3, <2>4
<1>9. ASSUME DlSet PROVE Inv'
  <2>1. GoTo("dl_mark") /\ "dl_mark" \in Steps
    BY <1>9 DEF DlSet, Steps, LoopSteps
  <2>2. TypeOK' /\ ExitInv' /\ CountInv' /\ LoopStopNeverRaises'
    BY <1>1, <1>2, <1>9, <2>1
    DEF DlSet, stopVars, TypeOK, ExitInv, CountInv, LoopStopNeverRaises, Steps
  <2>3. FrameInv'
    BY <1>1, <1>2, <1>9, <2>1
    DEF DlSet, At, stopVars, FrameInv, OrderInv, FlagInv, Steps, AfterHeartbeat,
        LoopSteps, HeartbeatJoins, LoopStopped, LoopTold, LoopJoins,
        AboutToTell
  <2>4. OrderInv' /\ FlagInv'
    BY <1>1, <1>2, <1>9, <2>1
    DEF DlSet, At, stopVars, FrameInv, OrderInv, FlagInv, Steps, AfterHeartbeat,
        LoopSteps, HeartbeatJoins, LoopStopped, LoopJoins
  <2> QED BY <2>2, <2>3, <2>4
<1>10. ASSUME DlNotify PROVE Inv'
  <2>1. GoTo("dl_thread") /\ "dl_thread" \in Steps
    BY <1>10 DEF DlNotify, Steps, LoopSteps
  <2>2. TypeOK' /\ ExitInv' /\ CountInv' /\ LoopStopNeverRaises'
    BY <1>1, <1>2, <1>10, <2>1
    DEF DlNotify, stopVars, TypeOK, ExitInv, CountInv, LoopStopNeverRaises, Steps
  <2>3. FrameInv'
    BY <1>1, <1>2, <1>10, <2>1
    DEF DlNotify, At, stopVars, FrameInv, OrderInv, FlagInv, Steps, AfterHeartbeat,
        LoopSteps, HeartbeatJoins, LoopStopped, LoopTold, LoopJoins,
        AboutToTell
  <2>4. OrderInv' /\ FlagInv'
    BY <1>1, <1>2, <1>10, <2>1
    DEF DlNotify, At, stopVars, FrameInv, OrderInv, FlagInv, Steps, AfterHeartbeat,
        LoopSteps, HeartbeatJoins, LoopStopped, LoopJoins
  <2> QED BY <2>2, <2>3, <2>4
<1> QED BY <1>3, <1>4, <1>5, <1>6, <1>7, <1>8, <1>9, <1>10

(* The end of a stop sequence: a finished frame leaves nobody's promise    *)
(* behind, so main's finally, when it is alone, has told both threads.     *)
LEMMA FrameDoneInv == ASSUME Inv, FrameDone PROVE Inv'
<1> USE LifecycleAssumption DEF Inv, Frames
<1> DEFINE top == Len(frames)
<1>1. /\ frames \in Seq(Steps) /\ frames # <<>>
      /\ top \in Nat \ {0}
      /\ frames[top] = "done"
      /\ main # "exited" /\ main # "serving"
      /\ UNCHANGED <<signals, captured, dlAlive, raised>>
      /\ UNCHANGED <<hbStop, hbThread, dlStopped, dlStop, dlThread>>
  BY EmptySeq DEF TypeOK, Steps, ExitInv, CountInv, FrameDone, At, stopVars
<1>2. CASE main = "cleanup" /\ top = 1
  <2>1. main' = "exited" /\ frames' = <<>> /\ shouldExit' = shouldExit
    BY <1>2 DEF FrameDone
  <2>2. hbStop /\ dlStop
    BY <1>1, <1>2 DEF FrameInv, FlagInv
  <2>3. Len(frames') = 0 /\ frames' \in Seq(Steps)
    BY <2>1, EmptySeq
  <2>4. TypeOK' /\ ExitInv' /\ CountInv' /\ LoopStopNeverRaises'
    BY <1>1, <1>2, <2>1, <2>2, <2>3
    DEF TypeOK, ExitInv, CountInv, LoopStopNeverRaises, Steps
  <2>5. FrameInv' /\ OrderInv' /\ FlagInv'
    BY <1>1, <2>2, <2>3 DEF FrameInv, OrderInv, FlagInv
  <2> QED BY <2>4, <2>5
<1>3. CASE ~(main = "cleanup" /\ top = 1)
  <2>1. /\ frames' = SubSeq(frames, 1, top - 1)
        /\ main' = main /\ shouldExit' = TRUE
    BY <1>3 DEF FrameDone
  <2>2. /\ frames' \in Seq(Steps)
        /\ Len(frames') = top - 1
        /\ \A i \in 1 .. Len(frames') : frames'[i] = frames[i]
    BY <1>1, <2>1, FramePopped
  <2>3. TypeOK' /\ ExitInv' /\ CountInv' /\ LoopStopNeverRaises'
    BY <1>1, <2>1, <2>2
    DEF TypeOK, ExitInv, CountInv, LoopStopNeverRaises, Steps
  <2>4. FrameInv'
    <3> SUFFICES ASSUME NEW i \in 1 .. Len(frames')
                 PROVE  /\ frames[i] \notin {"hb_set", "hb_mark"} => hbStop
                        /\ frames[i] \in AfterHeartbeat => ~hbThread
                        /\ frames[i] \in LoopStopped \cup {"done"} => dlStopped
                        /\ frames[i] \in LoopTold => dlStop
                        /\ frames[i] \in LoopJoins => dlThread
                        /\ frames[i] \in HeartbeatJoins /\ ~hbThread =>
                             \/ dlStop
                             \/ \E j \in 1 .. Len(frames') :
                                  j > i /\ frames[j] \in AboutToTell
      BY <1>1, <2>2 DEF FrameInv
    <3>1. i \in 1 .. top
      BY <1>1, <2>2
    <3>2. ASSUME frames[i] \in HeartbeatJoins, ~hbThread, ~dlStop
          PROVE  \E j \in 1 .. Len(frames') :
                   j > i /\ frames[j] \in AboutToTell
      <4>1. PICK j \in 1 .. top : j > i /\ frames[j] \in AboutToTell
        BY <3>1, <3>2 DEF FrameInv
      <4>2. j # top
        BY <1>1, <4>1 DEF AboutToTell
      <4> QED BY <1>1, <2>2, <4>1, <4>2
    <3> QED BY <3>1, <3>2 DEF FrameInv
  <2>5. OrderInv'
    BY <1>1, <2>2 DEF OrderInv
  <2>6. FlagInv'
    BY <1>1, <2>2 DEF FlagInv
  <2> QED BY <2>3, <2>4, <2>5, <2>6
<1> QED BY <1>2, <1>3

(* main, the server, the signals and the loop thread: a new frame has done *)
(* nothing yet.                                                            *)
LEMMA MainInv ==
  ASSUME Inv, RunServer \/ ServerStops \/ Replay \/ Finally \/ LoopThreadEnds
  PROVE  Inv'
<1> USE LifecycleAssumption DEF Inv, Frames
<1>1. ASSUME RunServer \/ ServerStops \/ LoopThreadEnds PROVE Inv'
  <2>1. TypeOK' /\ ExitInv'
    <3>1. CASE RunServer
      BY <3>1 DEF RunServer, stopVars, TypeOK, ExitInv
    <3>2. CASE ServerStops
      BY <3>2 DEF ServerStops, stopVars, TypeOK, ExitInv
    <3>3. CASE LoopThreadEnds
      BY <3>3 DEF LoopThreadEnds, stopVars, TypeOK, ExitInv
    <3> QED BY <1>1, <3>1, <3>2, <3>3
  <2>2. CountInv' /\ LoopStopNeverRaises'
    BY <1>1
    DEF RunServer, ServerStops, LoopThreadEnds, stopVars, CountInv,
        LoopStopNeverRaises
  <2>3. FrameInv' /\ OrderInv' /\ FlagInv'
    BY <1>1
    DEF RunServer, ServerStops, LoopThreadEnds, stopVars, FrameInv, OrderInv,
        FlagInv
  <2> QED BY <2>1, <2>2, <2>3
<1>2. ASSUME Replay \/ Finally PROVE Inv'
  <2>1. frames = <<>> /\ Len(frames) = 0 /\ main = "replaying"
    BY <1>2, EmptySeq DEF Replay, Finally
  <2>2. /\ frames' = <<"hb_set">> /\ Len(frames') = 1 /\ frames'[1] = "hb_set"
        /\ UNCHANGED <<hbStop, hbThread, dlStopped, dlStop, dlThread>>
    BY <1>2 DEF Replay, Finally, stopVars
  <2>3. frames' \in Seq(Steps)
    <3>1. "hb_set" \in Steps
      BY DEF Steps, HeartbeatSteps
    <3> QED BY <2>2, <3>1
  <2>4. TypeOK' /\ ExitInv' /\ CountInv' /\ LoopStopNeverRaises'
    BY <1>2, <2>1, <2>2, <2>3
    DEF Replay, Finally, TypeOK, ExitInv, CountInv, LoopStopNeverRaises, Steps
  <2>5. FrameInv' /\ OrderInv' /\ FlagInv'
    BY <2>1, <2>2
    DEF FrameInv, OrderInv, FlagInv, AfterHeartbeat, LoopSteps, HeartbeatJoins,
        LoopStopped, LoopTold, LoopJoins
  <2> QED BY <2>4, <2>5
<1> QED BY <1>1, <1>2

LEMMA SignalInv == ASSUME Inv, Signal PROVE Inv'
<1> USE LifecycleAssumption DEF Inv, Frames
<1>1. /\ signals < MaxSignals /\ main # "exited" /\ signals' = signals + 1
      /\ UNCHANGED <<main, hbStop, hbThread, dlStopped, dlStop, dlThread>>
      /\ UNCHANGED <<dlAlive, raised>>
      /\ frames \in Seq(Steps)
  BY DEF Signal, stopVars, TypeOK, Steps
<1>2. CASE main = "serving"
  <2>1. captured' = captured + 1 /\ shouldExit' = TRUE /\ frames' = frames
    BY <1>2 DEF Signal
  <2>2. Len(frames) = 0
    BY <1>2, EmptySeq DEF CountInv
  <2>3. TypeOK' /\ ExitInv' /\ CountInv' /\ LoopStopNeverRaises'
    BY <1>1, <1>2, <2>1, <2>2
    DEF TypeOK, ExitInv, CountInv, LoopStopNeverRaises
  <2>4. FrameInv' /\ OrderInv' /\ FlagInv'
    BY <1>1, <2>1 DEF FrameInv, OrderInv, FlagInv
  <2> QED BY <2>3, <2>4
<1>3. CASE main # "serving"
  <2>1. /\ frames' = Append(frames, "hb_set")
        /\ UNCHANGED <<captured, shouldExit>>
    BY <1>3 DEF Signal
  <2>2. /\ frames' \in Seq(Steps)
        /\ Len(frames') = Len(frames) + 1
        /\ Len(frames) \in Nat
        /\ frames'[Len(frames')] = "hb_set"
        /\ \A i \in 1 .. Len(frames) : frames'[i] = frames[i]
    BY <1>1, <2>1, FramePushed
  <2>3. TypeOK' /\ ExitInv' /\ CountInv' /\ LoopStopNeverRaises'
    BY <1>1, <1>3, <2>1, <2>2
    DEF TypeOK, ExitInv, CountInv, LoopStopNeverRaises, Steps
  <2>4. FrameInv'
    BY <1>1, <2>2
    DEF FrameInv, AfterHeartbeat, LoopSteps, HeartbeatJoins, LoopStopped,
        LoopTold,
        LoopJoins
  <2>5. OrderInv' /\ FlagInv'
    BY <1>1, <2>2
    DEF OrderInv, FlagInv, AfterHeartbeat, LoopSteps, HeartbeatJoins,
        LoopStopped,
        LoopJoins
  <2> QED BY <2>3, <2>4, <2>5
<1> QED BY <1>2, <1>3

LEMMA NextInv == ASSUME Inv, [Next]_vars PROVE Inv'
<1>1. CASE UNCHANGED vars
  BY <1>1
  DEF vars, stopVars, Inv, TypeOK, FrameInv, OrderInv, FlagInv, ExitInv,
      CountInv,
      LoopStopNeverRaises, Frames
<1> QED
  BY <1>1, HeartbeatStopInv, LoopStopInv, FrameDoneInv, MainInv, SignalInv
  DEF Next, MainStep, StopStep

-----------------------------------------------------------------------------

THEOREM Invariance == Spec => []Inv
  BY InitInv, NextInv, PTL DEF Spec

(* The types of the state; the stack is never deeper than the signals and  *)
(* main's finally make it.                                                 *)
THEOREM TypeCorrect == Spec => []TypeOK
<1>1. Inv => TypeOK
  BY DEF Inv
<1> QED BY <1>1, Invariance, PTL

(* Whatever signals interrupt, and even if HeartbeatRunner.stop raises,    *)
(* both threads have been told to stop when the process ends.              *)
THEOREM BothTold == Spec => []BothToldToStop
<1>1. Inv => BothToldToStop
  BY DEF Inv, ExitInv, BothToldToStop
<1> QED BY <1>1, Invariance, PTL

(* DoraLoop.stop never meets a _thread that was cleared under it.          *)
THEOREM LoopStopSafe == Spec => []LoopStopNeverRaises
<1>1. Inv => LoopStopNeverRaises
  BY DEF Inv
<1> QED BY <1>1, Invariance, PTL

(* Nor does it wait for the lock of its event, which only a frame below    *)
(* could have: a frame that has the lock has set _stopped, and keeps those *)
(* above it out.                                                           *)
THEOREM LoopStopFree == Spec => []LoopStopNeverBlocks
<1>1. ASSUME Inv PROVE LoopStopNeverBlocks
  <2> SUFFICES ASSUME At("dl_set"), NEW i \in DOMAIN frames,
                      frames[i] \in {"dl_mark", "dl_notify"}
               PROVE  FALSE
    BY DEF LoopStopNeverBlocks, LoopEventHeld
  <2>1. /\ frames \in Seq(Steps) /\ frames # <<>>
        /\ frames[Len(frames)] = "dl_set"
    BY <1>1 DEF Inv, TypeOK, Steps, At
  <2>2. Len(frames) \in Nat \ {0} /\ i \in Frames /\ Len(frames) \in Frames
    BY <2>1, EmptySeq DEF Frames
  <2>3. i < Len(frames)
    <3>1. i # Len(frames)
      BY <2>1
    <3> QED BY <2>2, <3>1 DEF Frames
  <2>4. frames[i] \in LoopStopped /\ frames[Len(frames)] \in LoopStopped
    BY <2>1 DEF LoopStopped
  <2> QED BY <1>1, <2>2, <2>3, <2>4 DEF Inv, OrderInv
<1> QED BY <1>1, Invariance, PTL

-----------------------------------------------------------------------------
(* No signal is lost, and every step goes towards the exit.                *)

(* A statement of the two stop() methods takes the running frame to one    *)
(* that is nearer its end, or it raises.                                   *)
LEMMA StopStepMoves ==
  ASSUME Inv, StopStep
  PROVE  /\ frames \in Seq(Steps) /\ frames # <<>>
         /\ main # "exited"
         /\ UNCHANGED <<signals, captured, shouldExit>>
         /\ \/ /\ main' = main
               /\ \E s \in Steps :
                    /\ GoTo(s)
                    /\ StatementsLeft[s] < StatementsLeft[frames[Len(frames)]]
            \/ \E who : Raise(who)
<1>1. frames \in Seq(Steps) /\ frames # <<>> /\ main # "exited"
      /\ UNCHANGED <<signals, captured, shouldExit>>
  BY DEF Inv, TypeOK, Steps, ExitInv, StopStep, HbSet, HbMark, HbNotify, HbTest,
         HbJoin, HbAlive, HbClear, DlTest, DlFlag, DlSet, DlMark, DlNotify,
         DlThread, DlJoin, DlAlive, DlClear, At
<1> DEFINE Moved == /\ main' = main
                    /\ \E s \in Steps :
                         /\ GoTo(s)
                         /\ StatementsLeft[s]
                              < StatementsLeft[frames[Len(frames)]]
<1>2. /\ StatementsLeft["hb_set"] = 16 /\ StatementsLeft["hb_mark"] = 15
      /\ StatementsLeft["hb_notify"] = 14 /\ StatementsLeft["hb_test"] = 13
      /\ StatementsLeft["hb_join"] = 12 /\ StatementsLeft["hb_alive"] = 11
      /\ StatementsLeft["hb_clear"] = 10 /\ StatementsLeft["dl_test"] = 9
      /\ StatementsLeft["dl_flag"] = 8 /\ StatementsLeft["dl_set"] = 7
      /\ StatementsLeft["dl_mark"] = 6 /\ StatementsLeft["dl_notify"] = 5
      /\ StatementsLeft["dl_thread"] = 4 /\ StatementsLeft["dl_join"] = 3
      /\ StatementsLeft["dl_alive"] = 2 /\ StatementsLeft["dl_clear"] = 1
      /\ StatementsLeft["done"] = 0
  BY DEF StatementsLeft
<1>3. /\ {"hb_mark", "hb_notify", "hb_test", "hb_join", "hb_alive", "hb_clear"}
           \subseteq Steps
      /\ {"dl_test", "dl_flag", "dl_set", "dl_mark", "dl_notify"} \subseteq Steps
      /\ {"dl_thread", "dl_join", "dl_alive", "dl_clear", "done"} \subseteq Steps
  BY DEF Steps, HeartbeatSteps, LoopSteps
<1>4. ASSUME HbSet \/ HbMark \/ HbNotify PROVE Moved
  BY <1>2, <1>3, <1>4 DEF HbSet, HbMark, HbNotify, At
<1>5. ASSUME HbTest \/ HbClear PROVE Moved
  BY <1>2, <1>3, <1>5 DEF HbTest, HbClear, At
<1>6. ASSUME DlTest \/ DlFlag \/ DlSet PROVE Moved
  BY <1>2, <1>3, <1>6 DEF DlTest, DlFlag, DlSet, At
<1>7. ASSUME DlMark \/ DlNotify PROVE Moved
  BY <1>2, <1>3, <1>7 DEF DlMark, DlNotify, At
<1>8. ASSUME DlThread \/ DlClear PROVE Moved
  BY <1>2, <1>3, <1>8 DEF DlThread, DlClear, At
<1>9. ASSUME HbJoin \/ HbAlive
      PROVE  Moved \/ \E who : Raise(who)
  BY <1>2, <1>3, <1>9 DEF HbJoin, HbAlive, At
<1>10. ASSUME DlJoin \/ DlAlive
      PROVE  Moved \/ \E who : Raise(who)
  BY <1>2, <1>3, <1>10 DEF DlJoin, DlAlive, At
<1> QED BY <1>1, <1>4, <1>5, <1>6, <1>7, <1>8, <1>9, <1>10 DEF StopStep

(* A finally under way has a frame, and a server that a signal came before *)
(* has been told.                                                          *)
ToldInv ==
  /\ main = "cleanup" => frames # <<>>
  /\ main = "serving" /\ signals > 0 => shouldExit
  /\ main = "starting" /\ frames = <<>> /\ signals > 0 => shouldExit

LEMMA ToldStep == ASSUME Inv, ToldInv, [Next]_vars PROVE ToldInv'
<1>1. frames \in Seq(Steps) /\ signals \in Nat
  BY DEF Inv, TypeOK, Steps
<1>2. ASSUME StopStep PROVE ToldInv'
  <2>1. CASE \E who : Raise(who)
    <3>1. main' = "exited" \/ (main' = "cleanup" /\ frames' = <<"hb_set">>)
      BY <2>1 DEF Raise
    <3>2. <<"hb_set">> # <<>>
      OBVIOUS
    <3> QED BY <3>1, <3>2 DEF ToldInv
  <2>2. ASSUME main' = main, NEW s \in Steps, GoTo(s) PROVE ToldInv'
    <3>1. frames # <<>> /\ UNCHANGED <<signals, shouldExit>>
      BY <1>2, StopStepMoves
    <3>2. frames' # <<>>
      BY <1>1, <2>2, <3>1, FrameMoves DEF GoTo
    <3> QED BY <2>2, <3>1, <3>2 DEF ToldInv
  <2> QED BY <1>2, <2>1, <2>2, StopStepMoves
<1>3. ASSUME FrameDone PROVE ToldInv'
  <2>1. CASE main = "cleanup" /\ Len(frames) = 1
    BY <1>3, <2>1 DEF FrameDone, ToldInv
  <2>2. CASE ~(main = "cleanup" /\ Len(frames) = 1)
    <3>1. /\ frames # <<>> /\ frames' = SubSeq(frames, 1, Len(frames) - 1)
          /\ main' = main /\ shouldExit' = TRUE
      BY <1>3, <2>2 DEF FrameDone, At
    <3>2. Len(frames') = Len(frames) - 1 /\ Len(frames) \in Nat \ {0}
      BY <1>1, <3>1, FramePopped
    <3>3. main = "cleanup" => frames' # <<>>
      <4> SUFFICES ASSUME main = "cleanup", frames' = <<>> PROVE FALSE
        OBVIOUS
      <4>1. Len(frames') = 0
        BY EmptySeq
      <4> QED BY <2>2, <3>2, <4>1
    <3> QED BY <3>1, <3>3 DEF ToldInv
  <2> QED BY <2>1, <2>2
<1>4. ASSUME RunServer \/ ServerStops \/ LoopThreadEnds \/ UNCHANGED vars
      PROVE  ToldInv'
  BY <1>4 DEF RunServer, ServerStops, LoopThreadEnds, vars, ToldInv
<1>5. ASSUME Replay \/ Finally PROVE ToldInv'
  <2>1. main' # "starting" /\ main' # "serving" /\ frames' = <<"hb_set">>
    BY <1>5 DEF Replay, Finally
  <2>2. <<"hb_set">> # <<>>
    OBVIOUS
  <2> QED BY <2>1, <2>2 DEF ToldInv
<1>6. ASSUME Signal PROVE ToldInv'
  <2>1. CASE main = "serving"
    BY <1>6, <2>1 DEF Signal, ToldInv
  <2>2. CASE main # "serving"
    <3>1. frames' = Append(frames, "hb_set") /\ main' = main
      BY <1>6, <2>2 DEF Signal
    <3>2. Len(frames') = Len(frames) + 1 /\ Len(frames) \in Nat
      BY <1>1, <3>1, FramePushed
    <3>3. frames' # <<>>
      <4>1. frames' = <<>> => Len(frames') = 0
        BY EmptySeq
      <4> QED BY <3>2, <4>1
    <3> QED BY <2>2, <3>1, <3>3 DEF ToldInv
  <2> QED BY <2>1, <2>2
<1> QED BY <1>2, <1>3, <1>4, <1>5, <1>6 DEF Next, MainStep

(* However early or late a signal comes, and even if a stop() raises, the  *)
(* bridge has not forgotten that it has to exit.                           *)
THEOREM SignalsAreRemembered == Spec => []SignalRemembered
<1>1. Init => ToldInv
  BY DEF Init, ToldInv
<1>2. Inv /\ ToldInv /\ [Next]_vars => ToldInv'
  BY ToldStep
<1>3. Inv /\ ToldInv => SignalRemembered
  BY DEF Inv, TypeOK, ToldInv, SignalRemembered
<1> QED BY <1>1, <1>2, <1>3, Invariance, PTL DEF Spec

(* A step of the main thread goes forward in the order that StepsForward   *)
(* describes, for any number of signals and any depth of the stack.        *)
LEMMA EveryStepForward ==
  ASSUME Inv, MainStep \/ ServerStops PROVE StepsForward
<1>1. frames \in Seq(Steps) /\ captured \in Nat
  BY DEF Inv, TypeOK, Steps
<1>2. ASSUME StopStep PROVE StepsForward
  <2>1. CASE \E who : Raise(who)
    <3>1. main # "exited"
      BY <1>2, StopStepMoves
    <3>2. main' = "exited" \/ (main = "replaying" /\ main' = "cleanup")
      BY <2>1 DEF Raise
    <3> QED BY <3>1, <3>2 DEF Inv, TypeOK, StepsForward, Stage
  <2>2. ASSUME main' = main, NEW s \in Steps, GoTo(s),
               StatementsLeft[s] < StatementsLeft[frames[Len(frames)]]
        PROVE  StepsForward
    <3>1. frames # <<>> /\ captured' = captured
      BY <1>2, StopStepMoves
    <3>2. /\ Len(frames') = Len(frames) /\ Len(frames) \in Nat \ {0}
          /\ frames'[Len(frames)] = s
          /\ \A i \in 1 .. Len(frames) : i # Len(frames) =>
               frames'[i] = frames[i]
      BY <1>1, <2>2, <3>1, FrameMoves DEF GoTo
    <3>3. SequenceForward
      BY <2>2, <3>2 DEF SequenceForward
    <3> QED BY <2>2, <3>1, <3>3 DEF StepsForward
  <2> QED BY <1>2, <2>1, <2>2, StopStepMoves
<1>3. ASSUME FrameDone PROVE StepsForward
  <2>1. CASE main = "cleanup" /\ Len(frames) = 1
    BY <1>3, <2>1 DEF FrameDone, StepsForward, Stage
  <2>2. CASE ~(main = "cleanup" /\ Len(frames) = 1)
    <3>1. /\ frames # <<>> /\ frames' = SubSeq(frames, 1, Len(frames) - 1)
          /\ main' = main /\ captured' = captured
      BY <1>3, <2>2 DEF FrameDone, At
    <3>2. /\ Len(frames') = Len(frames) - 1
          /\ \A i \in 1 .. Len(frames') : frames'[i] = frames[i]
      BY <1>1, <3>1, FramePopped
    <3> QED BY <3>1, <3>2 DEF StepsForward, SequenceForward
  <2> QED BY <2>1, <2>2
<1>4. ASSUME RunServer \/ ServerStops \/ Finally PROVE StepsForward
  BY <1>4 DEF RunServer, ServerStops, Finally, StepsForward, Stage
<1>5. ASSUME Replay PROVE StepsForward
  BY <1>1, <1>5 DEF Replay, StepsForward
<1> QED BY <1>2, <1>3, <1>4, <1>5 DEF MainStep

(* Shutdown never goes back: only another signal makes it longer.          *)
THEOREM ShutdownGoesForward == Spec => ShutdownForward
<1>1. Inv /\ [Next]_vars => [MainStep \/ ServerStops => StepsForward]_vars
  BY EveryStepForward
<1> QED BY <1>1, Invariance, PTL DEF Spec, ShutdownForward

=============================================================================
