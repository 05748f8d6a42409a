----------------------------- MODULE Heartbeat -----------------------------
(***************************************************************************)
(* The heartbeat thread (bridge/octos_spec_bridge/heartbeat.py, _run) and  *)
(* the vendor's deadman that it is there to keep quiet.                    *)
(*                                                                         *)
(* Time is discrete and kept as durations: what is left of the thread's    *)
(* wait, how long the thread is late with what it has to do next, and how  *)
(* long the vendor has heard nothing.  Being late stands for everything    *)
(* between two waits that takes time: being scheduled, waiting for the     *)
(* publish lock behind the HTTP handlers, send_output, and dora.  place is *)
(* where the thread is:                                                    *)
(*   polling     about to read the advert (phase 1)                        *)
(*   idle        in self._stop.wait(advert_poll_interval_s)                *)
(*   publishing  about to publish or publishing a heartbeat (phase 2)      *)
(*   pausing     in self._stop.wait(period_s)                              *)
(*   ended       returned, after stop                                      *)
(*   crashed     gone with an exception                                    *)
(***************************************************************************)
EXTENDS Naturals

CONSTANTS
  Timeouts,      \* heartbeat_timeout_ms the vendor may advertise, in ticks
  PollInterval,  \* advert_poll_interval_s, in ticks
  MaxLate,       \* bound on how late the thread is between two waits
  MayReadvertise,  \* TRUE when the vendor may advertise more than once
  MaxMissed,     \* bound on how many publishes in a row raise
  MaxSilent,     \* bound on the vendor's clock
  None,          \* no advert yet
  NoObject       \* an advert that is JSON and true, but not an object

(* period_s is half the timeout as a float: a tick is small enough for it. *)
ASSUME HeartbeatAssumption ==
  /\ \A t \in Timeouts : t \in Nat /\ t % 2 = 0
  /\ PollInterval \in Nat \ {0}
  /\ MaxLate \in Nat
  /\ MayReadvertise \in BOOLEAN
  /\ MaxMissed \in Nat
  /\ MaxSilent \in Nat
  /\ None \notin Nat /\ NoObject \notin Nat /\ None # NoObject

VARIABLES
  advert,  \* what the loop has cached of the vendor's last advert
  place,   \* where the thread is
  period,  \* period_s, fixed when phase 2 begins; 0 before
  left,    \* ticks left of the wait the thread is in
  late,    \* ticks for which the thread has had something to do
  stop,    \* _stop
  beats,   \* heartbeats published after stop() was called
  armed,   \* the vendor has had a heartbeat since it advertised
  silent,  \* ticks since the vendor had one, or since it advertised that
           \* it wants one
  missed,  \* history: publishes that raised since the last heartbeat
  changed  \* history: an advert came after phase 1

threadVars == <<place, period, left, late, beats, missed>>
vars == <<advert, threadVars, stop, armed, silent, changed>>

Places == {"polling", "idle", "publishing", "pausing", "ended", "crashed"}

(* The timeout the code reads from an advert (_read_timeout_ms): 0 without *)
(* one.  A number that is not one is 0 too, so it needs no value here.     *)
Timeout(a) == IF a \in Nat THEN a ELSE 0

TypeOK ==
  /\ advert \in Timeouts \cup {None, NoObject}
  /\ place \in Places
  /\ period \in {0} \cup {t \div 2 : t \in Timeouts}
  /\ left \in Nat
  /\ late \in 0 .. MaxLate
  /\ stop \in BOOLEAN
  /\ beats \in Nat
  /\ armed \in BOOLEAN
  /\ silent \in Nat
  /\ missed \in 0 .. MaxMissed
  /\ changed \in BOOLEAN

Init ==
  /\ advert = None
  /\ place = "polling"
  /\ period = 0
  /\ left = 0
  /\ late = 0
  /\ stop = FALSE
  /\ beats = 0
  /\ armed = FALSE
  /\ silent = 0
  /\ missed = 0
  /\ changed = FALSE

-----------------------------------------------------------------------------
(* The thread.  A wait returns at once when stop is set, and the loops     *)
(* then return.                                                            *)

Waiting == place \in {"idle", "pausing"}

Gone == place \in {"ended", "crashed"}

(* It has something to do now.                                             *)
Due == ~Gone /\ (Waiting => stop \/ left = 0)

Wait(where, ticks) ==
  /\ place' = where
  /\ left' = ticks
  /\ late' = 0

Proceed(where) ==
  /\ place' = where
  /\ UNCHANGED <<left, late>>

(* Mutant: phase 1 ends for good when there is no timeout to honour yet.   *)
PollOnce ==
  /\ place = "polling"
  /\ ~stop
  /\ advert # NoObject
  /\ \/ /\ Timeout(advert) = 0
        /\ Proceed("ended")
        /\ UNCHANGED period
     \/ /\ Timeout(advert) > 0
        /\ period' = Timeout(advert) \div 2
        /\ Proceed("publishing")
  /\ UNCHANGED <<advert, stop, beats, missed, armed, silent, changed>>

(* Mutant: heartbeats at the full period of the deadman.                   *)
PollFullPeriod ==
  /\ place = "polling"
  /\ ~stop
  /\ advert # NoObject
  /\ \/ /\ Timeout(advert) = 0
        /\ Wait("idle", PollInterval)
        /\ UNCHANGED period
     \/ /\ Timeout(advert) > 0
        /\ period' = Timeout(advert)
        /\ Proceed("publishing")
  /\ UNCHANGED <<advert, stop, beats, missed, armed, silent, changed>>

(* Mutant: the first heartbeat waits for a period as the others do.        *)
PollThenPause ==
  /\ place = "polling"
  /\ ~stop
  /\ advert # NoObject
  /\ \/ /\ Timeout(advert) = 0
        /\ Wait("idle", PollInterval)
        /\ UNCHANGED period
     \/ /\ Timeout(advert) > 0
        /\ period' = Timeout(advert) \div 2
        /\ Wait("pausing", period')
  /\ UNCHANGED <<advert, stop, beats, missed, armed, silent, changed>>

(* Phase 1: read the advert until it declares a timeout.                   *)
Poll ==
  /\ place = "polling"
  /\ ~stop
  /\ advert # NoObject
  /\ \/ /\ Timeout(advert) = 0
        /\ Wait("idle", PollInterval)
        /\ UNCHANGED period
     \/ /\ Timeout(advert) > 0
        /\ period' = Timeout(advert) \div 2
        /\ Proceed("publishing")
  /\ UNCHANGED <<advert, stop, beats, missed, armed, silent, changed>>

(* advert.get raises for what is not an object, and nothing catches it.    *)
PollCrashes ==
  /\ place = "polling"
  /\ ~stop
  /\ advert = NoObject
  /\ Proceed("crashed")
  /\ UNCHANGED <<advert, period, stop, beats, missed, armed, silent, changed>>

PollAgain ==
  /\ place = "idle"
  /\ left = 0
  /\ ~stop
  /\ Proceed("polling")
  /\ UNCHANGED <<advert, period, stop, beats, missed, armed, silent, changed>>

(* Phase 2.  A publish that was begun before stop() still goes out.        *)
Beat ==
  /\ place = "publishing"
  /\ armed' = TRUE
  /\ silent' = 0
  /\ beats' = IF stop THEN beats + 1 ELSE beats
  /\ missed' = 0
  /\ Wait("pausing", period)
  /\ UNCHANGED <<advert, period, stop, changed>>

(* Mutant: the exception is not caught, and the thread is gone.            *)
BeatRaisesOut ==
  /\ missed < MaxMissed
  /\ place = "publishing"
  /\ Proceed("crashed")
  /\ missed' = missed + 1
  /\ UNCHANGED <<advert, period, stop, beats, armed, silent, changed>>

(* The exception is logged, and the thread waits as after a success.       *)
BeatRaises ==
  /\ missed < MaxMissed
  /\ place = "publishing"
  /\ Wait("pausing", period)
  /\ missed' = missed + 1
  /\ UNCHANGED <<advert, period, stop, beats, armed, silent, changed>>

(* Mutant: the result of self._stop.wait(period_s) is not looked at.       *)
BeatAgainRegardless ==
  /\ place = "pausing"
  /\ left = 0 \/ stop
  /\ Proceed("publishing")
  /\ UNCHANGED <<advert, period, stop, beats, missed, armed, silent, changed>>

BeatAgain ==
  /\ place = "pausing"
  /\ left = 0
  /\ ~stop
  /\ Proceed("publishing")
  /\ UNCHANGED <<advert, period, stop, beats, missed, armed, silent, changed>>

(* The tests of _stop at the heads of the loops, and the waits' results.   *)
End ==
  /\ place \in {"polling", "idle", "pausing"}
  /\ stop
  /\ Proceed("ended")
  /\ UNCHANGED <<advert, period, stop, beats, missed, armed, silent, changed>>

Thread ==
  \/ Poll
  \/ PollCrashes
  \/ PollAgain
  \/ Beat
  \/ BeatRaises
  \/ BeatAgain
  \/ End

-----------------------------------------------------------------------------
(* stop(), the vendor and time.                                            *)

Stop ==
  /\ ~stop
  /\ stop' = TRUE
  /\ UNCHANGED <<advert, threadVars, armed, silent, changed>>

(* A vendor that advertises has had no heartbeat yet, and its deadman      *)
(* waits for the first one.                                                *)
VendorAdvertise(a) ==
  /\ advert = None \/ MayReadvertise
  /\ changed' = (changed \/ period # 0)
  /\ advert' = a
  /\ armed' = FALSE
  /\ silent' = 0
  /\ UNCHANGED <<threadVars, stop>>

Tick ==
  /\ Due => late < MaxLate
  /\ late' = IF Due THEN late + 1 ELSE late
  /\ left' = IF Waiting /\ left > 0 THEN left - 1 ELSE left
  /\ silent' = IF (armed \/ Timeout(advert) > 0) /\ silent < MaxSilent
               THEN silent + 1 ELSE silent
  /\ UNCHANGED <<advert, place, period, stop, beats, missed, armed, changed>>

Next ==
  \/ Thread
  \/ Stop
  \/ \E a \in Timeouts \cup {NoObject} : VendorAdvertise(a)
  \/ Tick

Spec == Init /\ [][Next]_vars

(* The thread is scheduled and time passes.                                *)
FairSpec == Spec /\ WF_vars(Thread) /\ WF_vars(Tick)

-----------------------------------------------------------------------------
(* Properties.                                                             *)

(* The deadman has fired: nothing heard for longer than it allows.         *)
Fired == armed /\ Timeout(advert) > 0 /\ silent > Timeout(advert)

(* Until the bridge is stopped the deadman does not fire, if the thread is *)
(* never later than half its timeout (the pause is measured from the end   *)
(* of a publish, so that every delay adds to it), the last publish did not *)
(* raise (it is made up for only after another pause), and the vendor      *)
(* advertises no more once phase 2 has begun (which keeps its period).     *)
DeadmanQuiet == ~stop /\ ~changed /\ missed = 0 => ~Fired

(* A publish that raises costs one pause and its delay, and no more: the   *)
(* thread survives it (the except of phase 2), and a vendor that has had a *)
(* heartbeat knows how long it may have to wait for the next one, also     *)
(* after a change of its timeout.                                          *)
SilenceBounded ==
  ~stop /\ armed => silent <= (missed + 1) * (period + MaxLate)

(* The first heartbeat after an advert comes as soon, or one wait of phase *)
(* 1 after the advert: what AdvertHonoured says, with a bound.             *)
FirstBeatInTime ==
  ~stop /\ ~armed /\ Timeout(advert) > 0 /\ place # "crashed" =>
    \/ silent <= PollInterval + MaxLate + missed * (period + MaxLate)
    \/ silent <= (missed + 1) * (period + MaxLate)

(* What the head of heartbeat.py says: the bridge publishes at half the    *)
(* advertised timeout to keep the deadman from firing.                     *)
DeadmanKeptFromFiring == ~stop => ~Fired

(* After stop() at most the publish that was under way goes out.           *)
OneBeatAfterStop == beats <= 1

(* An advert that declares a timeout is honoured, however late it comes    *)
(* and even after one that declares none: the vendor gets a heartbeat,     *)
(* unless it withdraws the timeout first, the bridge is stopped, publishes *)
(* raise, or an advert that is not an object has ended the thread.         *)
AdvertHonoured ==
  Timeout(advert) > 0 ~>
    armed \/ Timeout(advert) = 0 \/ stop \/ missed > 0 \/ place = "crashed"

=============================================================================
