----------------------------- MODULE Lifecycle -----------------------------
(***************************************************************************)
(* How the bridge process ends (bridge/octos_spec_bridge/__main__.py): the *)
(* signal handler _shutdown, the finally of main, and the two stop()       *)
(* methods both call, HeartbeatRunner.stop and DoraLoop.stop.              *)
(*                                                                         *)
(* A Python signal handler runs in the main thread, between two bytecodes  *)
(* of whatever that thread does, another call of the handler or the        *)
(* finally included.  frames is the stack of those runs, the running one   *)
(* last: each does heartbeat.stop() and then loop.stop().  Where it is:    *)
(*   hb_set, hb_mark, hb_notify, hb_test, hb_join, hb_alive, hb_clear      *)
(*     the statements of HeartbeatRunner.stop                              *)
(*   dl_test, dl_flag, dl_set, dl_mark, dl_notify, dl_thread, dl_join,     *)
(*   dl_alive, dl_clear                                                    *)
(*     the statements of DoraLoop.stop                                     *)
(*   done                                                                  *)
(*     both have returned                                                  *)
(* The two set() calls are threading.Event.set, Python code too: it takes  *)
(* the event's lock (..._set), which is not reentrant, sets the flag       *)
(* (..._mark), wakes the waiters and gives the lock back (..._notify).     *)
(* While uvicorn serves it keeps signals to itself, and delivers them to   *)
(* _shutdown again when it has stopped.                                    *)
(***************************************************************************)
EXTENDS Naturals, Sequences

CONSTANT MaxSignals  \* bound on SIGTERM and SIGINT together

ASSUME LifecycleAssumption == MaxSignals \in Nat

VARIABLES
  main,        \* main(): "starting", "serving", "replaying" (signals that
               \* uvicorn has kept), "cleanup" or "exited"
  frames,      \* the stop sequences on the main thread's stack
  signals,     \* signals sent so far
  captured,    \* signals uvicorn has kept while serving
  shouldExit,  \* server.should_exit
  hbStop,      \* heartbeat._stop
  hbThread,    \* heartbeat._thread is not None
  dlStopped,   \* loop._stopped
  dlStop,      \* loop._stop
  dlThread,    \* loop._thread is not None
  dlAlive,     \* the loop thread runs; it may be idle in the node's iterator
  raised       \* which stop() has raised: "none", "heartbeat" or "loop"

stopVars == <<hbStop, hbThread, dlStopped, dlStop, dlThread>>
vars ==
  <<main, frames, signals, captured, shouldExit, stopVars, dlAlive, raised>>

HeartbeatSteps == {"hb_set", "hb_mark", "hb_notify", "hb_test", "hb_join",
                   "hb_alive", "hb_clear"}
LoopSteps == {"dl_test", "dl_flag", "dl_set", "dl_mark", "dl_notify",
              "dl_thread", "dl_join", "dl_alive", "dl_clear"}

TypeOK ==
  /\ main \in {"starting", "serving", "replaying", "cleanup", "exited"}
  /\ frames \in Seq(HeartbeatSteps \cup LoopSteps \cup {"done"})
  /\ Len(frames) <= MaxSignals + 1
  /\ signals \in 0 .. MaxSignals
  /\ captured \in 0 .. MaxSignals
  /\ shouldExit \in BOOLEAN
  /\ hbStop \in BOOLEAN /\ hbThread \in BOOLEAN
  /\ dlStopped \in BOOLEAN /\ dlStop \in BOOLEAN
  /\ dlThread \in BOOLEAN /\ dlAlive \in BOOLEAN
  /\ raised \in {"none", "heartbeat", "loop"}

(* Both threads have been started and the signal handlers installed.       *)
Init ==
  /\ main = "starting"
  /\ frames = <<>>
  /\ signals = 0
  /\ captured = 0
  /\ shouldExit = FALSE
  /\ hbStop = FALSE
  /\ hbThread = TRUE
  /\ dlStopped = FALSE
  /\ dlStop = FALSE
  /\ dlThread = TRUE
  /\ dlAlive = TRUE
  /\ raised = "none"

-----------------------------------------------------------------------------
(* The statements of the running stop sequence.                            *)

At(step) == frames # <<>> /\ frames[Len(frames)] = step

GoTo(step) == frames' = [frames EXCEPT ![Len(frames)] = step]

(* Some stop sequence of this same thread is inside _stop.set().           *)
HeartbeatEventHeld ==
  \E i \in DOMAIN frames : frames[i] \in {"hb_mark", "hb_notify"}
LoopEventHeld ==
  \E i \in DOMAIN frames : frames[i] \in {"dl_mark", "dl_notify"}

(* AttributeError: self._thread has become None under the running stop().  *)
(* It unwinds every frame.  main's finally catches it if the server was    *)
(* running the handler, and it ends the process otherwise.                 *)
Raise(who) ==
  /\ raised' = who
  /\ IF main = "replaying"
       THEN main' = "cleanup" /\ frames' = <<"hb_set">>
       ELSE main' = "exited" /\ frames' = <<>>

(* A sequence that interrupted another one in set() waits for the lock     *)
(* that the other one, which cannot go on, holds.                          *)
HbSet ==
  /\ At("hb_set")
  /\ ~HeartbeatEventHeld
  /\ GoTo("hb_mark")
  /\ UNCHANGED <<main, raised, stopVars>>

HbMark ==
  /\ At("hb_mark")
  /\ hbStop' = TRUE
  /\ GoTo("hb_notify")
  /\ UNCHANGED <<main, raised, hbThread, dlStopped, dlStop, dlThread>>

HbNotify ==
  /\ At("hb_notify")
  /\ GoTo("hb_test")
  /\ UNCHANGED <<main, raised, stopVars>>

HbTest ==
  /\ At("hb_test")
  /\ GoTo(IF hbThread THEN "hb_join" ELSE "dl_test")
  /\ UNCHANGED <<main, raised, stopVars>>

(* join(timeout=2.0) returns, whether or not the thread has ended.         *)
HbJoin ==
  /\ At("hb_join")
  /\ \/ hbThread /\ GoTo("hb_alive") /\ UNCHANGED <<main, raised>>
     \/ ~hbThread /\ Raise("heartbeat")
  /\ UNCHANGED stopVars

HbAlive ==
  /\ At("hb_alive")
  /\ \/ hbThread /\ GoTo("hb_clear") /\ UNCHANGED <<main, raised>>
     \/ ~hbThread /\ Raise("heartbeat")
  /\ UNCHANGED stopVars

HbClear ==
  /\ At("hb_clear")
  /\ hbThread' = FALSE
  /\ GoTo("dl_test")
  /\ UNCHANGED <<main, raised, hbStop, dlStopped, dlStop, dlThread>>

(* Mutant: DoraLoop.stop without its _stopped test, as in the heartbeat.   *)
DlTestNothing ==
  /\ At("dl_test")
  /\ GoTo("dl_flag")
  /\ UNCHANGED <<main, raised, stopVars>>

DlTest ==
  /\ At("dl_test")
  /\ GoTo(IF dlStopped THEN "done" ELSE "dl_flag")
  /\ UNCHANGED <<main, raised, stopVars>>

(* Mutant: nobody sets _stopped.                                           *)
DlFlagForgotten ==
  /\ At("dl_flag")
  /\ GoTo("dl_set")
  /\ UNCHANGED <<main, raised, stopVars>>

DlFlag ==
  /\ At("dl_flag")
  /\ dlStopped' = TRUE
  /\ GoTo("dl_set")
  /\ UNCHANGED <<main, raised, hbStop, hbThread, dlStop, dlThread>>

DlSet ==
  /\ At("dl_set")
  /\ ~LoopEventHeld
  /\ GoTo("dl_mark")
  /\ UNCHANGED <<main, raised, stopVars>>

DlMark ==
  /\ At("dl_mark")
  /\ dlStop' = TRUE
  /\ GoTo("dl_notify")
  /\ UNCHANGED <<main, raised, hbStop, hbThread, dlStopped, dlThread>>

(* The real node has no close(), so the flag is all the thread gets.       *)
DlNotify ==
  /\ At("dl_notify")
  /\ GoTo("dl_thread")
  /\ UNCHANGED <<main, raised, stopVars>>

DlThread ==
  /\ At("dl_thread")
  /\ GoTo(IF dlThread THEN "dl_join" ELSE "done")
  /\ UNCHANGED <<main, raised, stopVars>>

(* Mutant: join() for join(timeout=2.0).                                   *)
DlJoinForever ==
  /\ At("dl_join")
  /\ ~dlAlive
  /\ \/ dlThread /\ GoTo("dl_alive") /\ UNCHANGED <<main, raised>>
     \/ ~dlThread /\ Raise("loop")
  /\ UNCHANGED stopVars

(* The join ends with the thread, or after 2 s and leaves a zombie.        *)
DlJoin ==
  /\ At("dl_join")
  /\ \/ dlThread /\ GoTo("dl_alive") /\ UNCHANGED <<main, raised>>
     \/ ~dlThread /\ Raise("loop")
  /\ UNCHANGED stopVars

DlAlive ==
  /\ At("dl_alive")
  /\ \/ dlThread /\ GoTo("dl_clear") /\ UNCHANGED <<main, raised>>
     \/ ~dlThread /\ Raise("loop")
  /\ UNCHANGED stopVars

DlClear ==
  /\ At("dl_clear")
  /\ dlThread' = FALSE
  /\ GoTo("done")
  /\ UNCHANGED <<main, raised, hbStop, hbThread, dlStopped, dlStop>>

StopStep ==
  /\ \/ HbSet \/ HbMark \/ HbNotify \/ HbTest \/ HbJoin \/ HbAlive \/ HbClear
     \/ DlTest \/ DlFlag \/ DlSet \/ DlMark \/ DlNotify
     \/ DlThread \/ DlJoin \/ DlAlive \/ DlClear
  /\ UNCHANGED <<signals, captured, shouldExit, dlAlive>>

(* Mutant: a handler that ends by sending the signal again, as is done for *)
(* the default action, but is still installed itself.                      *)
HandlerSendsAgain ==
  /\ At("done")
  /\ IF main = "cleanup" /\ Len(frames) = 1
       THEN main' = "exited" /\ frames' = <<>> /\ UNCHANGED shouldExit
       ELSE /\ frames' = Append(frames, "hb_set")
            /\ shouldExit' = TRUE
            /\ UNCHANGED main
  /\ UNCHANGED <<signals, captured, stopVars, dlAlive, raised>>

(* Mutant: a handler that stops both threads and leaves the server be.     *)
HandlerOnlyStops ==
  /\ At("done")
  /\ IF main = "cleanup" /\ Len(frames) = 1
       THEN main' = "exited" /\ frames' = <<>>
       ELSE main' = main /\ frames' = SubSeq(frames, 1, Len(frames) - 1)
  /\ UNCHANGED <<signals, captured, shouldExit, stopVars, dlAlive, raised>>

(* The sequence is through: a handler asks the server to exit and returns  *)
(* to what it interrupted; main's finally ends the process.                *)
FrameDone ==
  /\ At("done")
  /\ IF main = "cleanup" /\ Len(frames) = 1
       THEN main' = "exited" /\ frames' = <<>> /\ UNCHANGED shouldExit
       ELSE /\ frames' = SubSeq(frames, 1, Len(frames) - 1)
            /\ shouldExit' = TRUE
            /\ UNCHANGED main
  /\ UNCHANGED <<signals, captured, stopVars, dlAlive, raised>>

-----------------------------------------------------------------------------
(* main() and the server.                                                  *)

RunServer ==
  /\ main = "starting"
  /\ frames = <<>>
  /\ main' = "serving"
  /\ UNCHANGED <<frames, signals, captured, shouldExit, stopVars, dlAlive,
                 raised>>

(* It stops when told to, or because it cannot go on (a port in use).      *)
ServerStops ==
  /\ main = "serving"
  /\ main' = "replaying"
  /\ UNCHANGED <<frames, signals, captured, shouldExit, stopVars, dlAlive,
                 raised>>

Replay ==
  /\ main = "replaying"
  /\ frames = <<>>
  /\ captured > 0
  /\ captured' = captured - 1
  /\ frames' = <<"hb_set">>
  /\ UNCHANGED <<main, signals, shouldExit, stopVars, dlAlive, raised>>

(* Mutant: the stops of main's finally left to the signal handlers.        *)
ExitWithoutCleanup ==
  /\ main = "replaying"
  /\ frames = <<>>
  /\ captured = 0
  /\ main' = "exited"
  /\ UNCHANGED <<frames, signals, captured, shouldExit, stopVars, dlAlive,
                 raised>>

(* server.run() returns, and main enters its finally.                      *)
Finally ==
  /\ main = "replaying"
  /\ frames = <<>>
  /\ captured = 0
  /\ main' = "cleanup"
  /\ frames' = <<"hb_set">>
  /\ UNCHANGED <<signals, captured, shouldExit, stopVars, dlAlive, raised>>

-----------------------------------------------------------------------------
(* The environment: signals, and the end of the loop thread (dora's STOP,  *)
(* a crash, or an input after the stop).                                   *)

Signal ==
  /\ signals < MaxSignals
  /\ main # "exited"
  /\ signals' = signals + 1
  /\ IF main = "serving"
       THEN /\ captured' = captured + 1
            /\ shouldExit' = TRUE
            /\ UNCHANGED frames
       ELSE /\ frames' = Append(frames, "hb_set")
            /\ UNCHANGED <<captured, shouldExit>>
  /\ UNCHANGED <<main, stopVars, dlAlive, raised>>

LoopThreadEnds ==
  /\ dlAlive
  /\ dlAlive' = FALSE
  /\ UNCHANGED <<main, frames, signals, captured, shouldExit, stopVars,
                 raised>>

MainStep == StopStep \/ FrameDone \/ RunServer \/ Replay \/ Finally

Next == MainStep \/ ServerStops \/ Signal \/ LoopThreadEnds

Spec == Init /\ [][Next]_vars

(* The main thread runs, and the server stops when it has been told to.    *)
(* Nothing is assumed of the loop thread.                                  *)
FairSpec ==
  /\ Spec
  /\ WF_vars(MainStep)
  /\ WF_vars(ServerStops /\ shouldExit)

-----------------------------------------------------------------------------
(* Properties.                                                             *)

(* The process does not end before both threads have been told to stop,    *)
(* however signals interrupt each other's handlers and even when a stop()  *)
(* raises: whoever clears a thread goes on to what comes after it.         *)
BothToldToStop == main = "exited" => hbStop /\ dlStop

(* DoraLoop.stop never raises: its _stopped flag keeps a nested call out,  *)
(* and a nested call that slips in before the flag is set runs to its end. *)
LoopStopNeverRaises == raised # "loop"

(* Nor does it ever wait for itself in _stop.set(), which HeartbeatRunner  *)
(* .stop, whose set() comes first, does: the same flag keeps a nested call *)
(* out while an interrupted one has the lock of the event.                 *)
LoopStopNeverBlocks == At("dl_set") => ~LoopEventHeld

(* A signal is not lost, whenever it came: once it has been sent, a stop   *)
(* sequence runs, or main goes on by itself to the server or to its        *)
(* finally, or the server knows that it has to exit.  This holds too when  *)
(* the handler ran before there was a server to stop (server.should_exit   *)
(* is set on it before run()), and after a stop() that raised.             *)
SignalRemembered ==
  signals > 0 =>
    \/ frames # <<>>
    \/ main = "serving" /\ shouldExit
    \/ main \in {"starting", "replaying", "exited"}

(* How far main() is, and how far a stop sequence has to go.               *)
Stage == [starting |-> 0, serving |-> 1, replaying |-> 2, cleanup |-> 3,
          exited |-> 4]

StatementsLeft ==
  [hb_set |-> 16, hb_mark |-> 15, hb_notify |-> 14, hb_test |-> 13,
   hb_join |-> 12, hb_alive |-> 11, hb_clear |-> 10, dl_test |-> 9,
   dl_flag |-> 8, dl_set |-> 7, dl_mark |-> 6, dl_notify |-> 5,
   dl_thread |-> 4, dl_join |-> 3, dl_alive |-> 2, dl_clear |-> 1, done |-> 0]

(* The running sequence goes on or ends, and leaves those that it has      *)
(* interrupted where they are.                                             *)
SequenceForward ==
  /\ \/ Len(frames') = Len(frames) - 1
     \/ /\ Len(frames') = Len(frames)
        /\ StatementsLeft[frames'[Len(frames)]]
             < StatementsLeft[frames[Len(frames)]]
  /\ \A i \in 1 .. Len(frames) - 1 : frames'[i] = frames[i]

(* Shutdown makes headway with every step of the main thread: main() moves *)
(* on, or a kept signal is delivered, or the running stop sequence moves   *)
(* on.  None of these goes back, so only another signal makes the way to   *)
(* the exit longer, whatever interrupts whatever.  (It is about the steps  *)
(* that are taken; that one can be taken is ExitsWhenTold's.)              *)
StepsForward ==
  \/ Stage[main] < Stage[main']
  \/ main' = main /\ captured' < captured
  \/ main' = main /\ captured' = captured /\ SequenceForward

ShutdownForward == [][MainStep \/ ServerStops => StepsForward]_vars

(* A stop sequence waits for the lock of the heartbeat's event, which one  *)
(* that it has interrupted holds: the main thread waits for itself.        *)
WaitsForItself == At("hb_set") /\ HeartbeatEventHeld

(* A bridge that is told to exit exits, though the loop thread may stay in *)
(* the node's iterator for ever.  The one thing that keeps it is a signal  *)
(* that comes while a stop sequence is inside the set() of the heartbeat's *)
(* event.                                                                  *)
ExitsWhenTold == signals > 0 ~> main = "exited" \/ WaitsForItself

(* heartbeat.py: "Stop is idempotent and joins the thread."                *)
HeartbeatStopIdempotent == raised # "heartbeat"

=============================================================================
