------------------------------- MODULE NavViz -------------------------------
(***************************************************************************)
(* The viewer of the navigation demo (examples/nav_mpl_viz.py), for the    *)
(* one thing in it an operator relies on: whether its title says ESTOP.    *)
(* A safety event only sets a flag; the title is redrawn with the pose.    *)
(* TRUE is an event of a kind that is an alarm, FALSE one of another kind. *)
(***************************************************************************)
EXTENDS Naturals, Sequences

CONSTANT EventQueueSize  \* safety events dora keeps for the viewer

ASSUME NavVizAssumption == EventQueueSize \in Nat \ {0}

VARIABLES
  alarm,     \* the last safety event nav_base emitted is an alarm
  events,    \* safety events on their way to the viewer
  estopped,  \* the viewer's flag
  title      \* its title says ESTOP

vizVars == <<alarm, events, estopped, title>>

VizTypeOK ==
  /\ {alarm, estopped, title} \subseteq BOOLEAN
  /\ events \in Seq(BOOLEAN)
  /\ Len(events) <= EventQueueSize

VizInit ==
  /\ alarm = FALSE /\ estopped = FALSE /\ title = FALSE
  /\ events = << >>

EmitSafetyEvent(kind) ==
  /\ alarm' = kind
  /\ events' = IF Len(events) < EventQueueSize
               THEN Append(events, kind)
               ELSE Append(Tail(events), kind)
  /\ UNCHANGED <<estopped, title>>


OnSafetyEvent ==
  /\ events # << >>
  /\ estopped' = Head(events)
  /\ events' = Tail(events)
  /\ UNCHANGED <<alarm, title>>

OnPose ==
  /\ title' = estopped
  /\ UNCHANGED <<alarm, events, estopped>>

=============================================================================
