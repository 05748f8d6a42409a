------------------------------ MODULE NavDemo ------------------------------
(***************************************************************************)
(* The navigation demo (dataflows/nav-base-viz.yml): the vendor node       *)
(* nav_base turns octos's motion verbs into messages to the simulated      *)
(* base, and reads its status back.                                        *)
(*                                                                         *)
(* The base has an input for goals, one for cancels and one for            *)
(* velocities.  dora keeps the order within an input, not between them,    *)
(* and drops the oldest message of an input that is full.  The intents of  *)
(* nav_base are numbered, here and not in the code: the messages and the   *)
(* statuses have nothing that says which intent they belong to, so that    *)
(* whoever reads "arrived" just after a new goal cannot tell that it may   *)
(* be that of the goal before.                                             *)
(***************************************************************************)
EXTENDS ToySim, NavViz

CONSTANTS
  Bad,         \* a goal payload without a position and without x and y
  Malformed,   \* a payload whose coordinates or velocities are no numbers
  QueueSize,   \* messages dora keeps for an input
  MaxIntents   \* bound on the intents of nav_base

ASSUME NavDemoAssumption ==
  /\ Bad \notin Goals \cup {Drive, None}
  /\ Malformed \notin Goals \cup {Bad, Drive, None}
  /\ QueueSize \in Nat \ {0}
  /\ MaxIntents \in Nat

VARIABLES
  goals,       \* dora_nav_goal messages on their way to the base
  cancels,     \* dora_nav_cancel messages
  velocities,  \* dora_nav_cmd_vel messages
  sent,        \* the number of the last intent
  wanted,      \* what it wants: Drive, None to halt, or a goal payload
  alive,       \* the base's node has not ended
  handled,     \* the intent of the last message the base obeyed
  newest,      \* the newest intent of which it obeyed a message
  news,        \* the last status emitted, and "handled" at that time
  seen         \* the last status nav_base received

queueVars == <<goals, cancels, velocities>>
baseVars == <<simVars, alive, handled, newest>>
navVars == <<baseVars, queueVars, sent, wanted, news, seen>>
vars == <<navVars, vizVars>>

Numbers == 0 .. MaxIntents
GoalPayload == Goals \cup {Bad, Malformed}
VelocityPayload == {Drive, None, Malformed}
Message(cmds) == [n : Numbers, cmd : cmds]
Report == [status : {"idle", "following", "arrived"}, n : Numbers]

NavTypeOK ==
  /\ SimTypeOK
  /\ goals \in Seq(Message(GoalPayload))
  /\ cancels \in Seq(Message({None}))
  /\ velocities \in Seq(Message(VelocityPayload))
  /\ \A q \in {goals, cancels, velocities} : Len(q) <= QueueSize
  /\ wanted \in GoalPayload \cup VelocityPayload
  /\ alive \in BOOLEAN
  /\ {sent, handled, newest} \subseteq Numbers
  /\ {news, seen} \subseteq Report

TypeOK == NavTypeOK /\ VizTypeOK

Init ==
  /\ SimInit /\ VizInit
  /\ goals = << >> /\ cancels = << >> /\ velocities = << >>
  /\ sent = 0 /\ wanted = None
  /\ alive = TRUE /\ handled = 0 /\ newest = 0
  /\ news = [status |-> "idle", n |-> 0]
  /\ seen = news

-----------------------------------------------------------------------------
(* nav_base.                                                               *)

Push(q, m) == IF Len(q) < QueueSize THEN Append(q, m) ELSE Append(Tail(q), m)

Intent(c) ==
  /\ sent < MaxIntents
  /\ sent' = sent + 1
  /\ wanted' = c
  /\ UNCHANGED <<baseVars, news, seen>>

Order(c) == [n |-> sent + 1, cmd |-> c]

(* go_to_pose, go_to_named                                                 *)
GoTo(g) ==
  /\ Intent(g)
  /\ goals' = Push(goals, Order(g))
  /\ UNCHANGED <<cancels, velocities>>

(* set_velocity                                                            *)
Steer(c) ==
  /\ Intent(c)
  /\ velocities' = Push(velocities, Order(c))
  /\ UNCHANGED <<goals, cancels>>

(* The goal is given up, by set_velocity or by itself.                     *)
GiveUpGoal ==
  /\ Intent(None)
  /\ cancels' = Push(cancels, Order(None))
  /\ UNCHANGED <<goals, velocities>>

(* stop, estop, a heartbeat timeout: a cancel and a zero velocity.         *)
Halt ==
  /\ Intent(None)
  /\ cancels' = Push(cancels, Order(None))
  /\ velocities' = Push(velocities, Order(None))
  /\ UNCHANGED goals

(* Its cached nav_status; dora has kept only the newest one for it.        *)
ReadStatus ==
  /\ seen' = news
  /\ UNCHANGED <<baseVars, queueVars, sent, wanted, news>>

-----------------------------------------------------------------------------
(* The base's node.                                                        *)

Obeyed(m) ==
  /\ handled' = m.n
  /\ newest' = IF m.n > newest THEN m.n ELSE newest
  /\ UNCHANGED alive

(* Nothing in main catches what float() raises.                            *)
NodeEnds ==
  /\ alive' = FALSE
  /\ UNCHANGED <<simVars, handled, newest>>

(* target_from_goal finds no target in a bad payload, and nothing happens. *)
OnGoal ==
  /\ alive
  /\ goals # << >>
  /\ LET m == Head(goals)
     IN  \/ m.cmd = Malformed /\ NodeEnds
         \/ m.cmd = Bad /\ UNCHANGED baseVars
         \/ m.cmd \in Goals /\ SetGoal(m.cmd) /\ Obeyed(m)
  /\ goals' = Tail(goals)
  /\ UNCHANGED <<cancels, velocities, sent, wanted, news, seen>>

(* The payload of a cancel is not looked at.                               *)
OnCancel ==
  /\ alive
  /\ cancels # << >>
  /\ Cancel
  /\ Obeyed(Head(cancels))
  /\ cancels' = Tail(cancels)
  /\ UNCHANGED <<goals, velocities, sent, wanted, news, seen>>

OnVelocity ==
  /\ alive
  /\ velocities # << >>
  /\ LET m == Head(velocities)
     IN  \/ m.cmd = Malformed /\ NodeEnds
         \/ m.cmd # Malformed /\ SetVelocity(m.cmd = Drive) /\ Obeyed(m)
  /\ velocities' = Tail(velocities)
  /\ UNCHANGED <<goals, cancels, sent, wanted, news, seen>>

OnTick ==
  /\ alive
  /\ Step
  /\ news' = [status |-> status', n |-> handled]
  /\ UNCHANGED <<queueVars, sent, wanted, alive, handled, newest, seen>>

-----------------------------------------------------------------------------
Navigation ==
  \/ \E g \in GoalPayload : GoTo(g)
  \/ \E c \in VelocityPayload : Steer(c)
  \/ GiveUpGoal
  \/ Halt
  \/ ReadStatus
  \/ OnGoal
  \/ OnCancel
  \/ OnVelocity
  \/ OnTick

(* An alarm halts the base; other safety events do not.                    *)
Next ==
  \/ Navigation /\ UNCHANGED vizVars
  \/ Halt /\ EmitSafetyEvent(TRUE)
  \/ (EmitSafetyEvent(FALSE) \/ OnSafetyEvent \/ OnPose) /\ UNCHANGED navVars

Spec == Init /\ [][Next]_vars

(* Every node takes its inputs in turn, and the timer goes on; it is the   *)
(* base that sends the viewer its poses.                                   *)
Fairness ==
  /\ WF_navVars(OnGoal)
  /\ WF_navVars(OnCancel)
  /\ WF_navVars(OnVelocity)
  /\ WF_navVars(OnTick)
  /\ WF_navVars(ReadStatus)
  /\ WF_vizVars(OnSafetyEvent)
  /\ WF_vizVars(alive /\ OnPose)

FairSpec == Spec /\ Fairness

-----------------------------------------------------------------------------
(* Properties.                                                             *)

(* The base does what c wants, or has done it.                             *)
Obeys(c) ==
  \/ c \in Goals /\ CommandOf = c /\ status = "following"
  \/ c \in Goals /\ CommandOf = None /\ status = "arrived"
  \/ c = Drive /\ CommandOf = Drive /\ moving /\ status = "following"
  \/ c = None /\ CommandOf = None /\ status = "idle"

(* However the three inputs were interleaved and whatever was dropped, the *)
(* base obeys the last intent as long as a message of it is the last one   *)
(* it obeyed (main's dispatch).  A halt needs one of its two messages: the *)
(* zero velocity also ends a goal, and the cancel also ends a velocity.  A *)
(* message of an earlier intent that comes later undoes it.                *)
LastIntentWins == handled = sent => Obeys(wanted)

(* A goal, left alone, is reached and reported, unless a message of an     *)
(* earlier intent comes after its own, or one that is malformed ends the   *)
(* base's node.                                                            *)
GoalReached ==
  \A k \in 1 .. MaxIntents :
    sent = k /\ wanted \in Goals ~>
      \/ sent # k
      \/ seen = [status |-> "arrived", n |-> k]
      \/ handled < newest
      \/ ~alive


(* The messages on their way that are orders.                              *)
Messages(q) == {q[i] : i \in DOMAIN q}
Orders ==
  {m \in Messages(goals) \cup Messages(cancels) \cup Messages(velocities) :
     m.cmd \notin {Bad, Malformed}}

(* The simulator behind its inputs keeps the promise of NavBase: an old    *)
(* goal is never taken up again, by a message or by a tick, and what ends  *)
(* as "arrived" is the order that was taken last.                          *)
AbstractBase == INSTANCE NavBase WITH
  asked <- sent,
  orders <- Orders,
  command <- [n |-> handled, cmd |-> CommandOf],
  report <- [n |-> handled, status |-> status]

NavBaseSpec == AbstractBase!Spec

=============================================================================
