------------------------------- MODULE ToySim -------------------------------
(***************************************************************************)
(* The simulated base of the navigation demo (examples/nav_toy_sim.py,     *)
(* ToySim): three intents and a step.                                      *)
(*                                                                         *)
(* Its pose matters only as the way to its goal: turn and dist are the     *)
(* steps it has still to turn and to drive, to within GOAL_TOL.  A step    *)
(* turns towards the goal, and drives as well if the error was below       *)
(* HEADING_GATE before.  At the speeds of the code a step turns by more    *)
(* than driving it can change the bearing of a goal out of reach.  Where   *)
(* the base gets to in mode velocity is left out.                          *)
(***************************************************************************)
EXTENDS Naturals

CONSTANTS
  Goals,    \* targets
  Drive,    \* the abstract command that is a velocity
  None,     \* _target is None; no command
  MaxDist,  \* bound on the steps to drive to a goal
  MaxTurn,  \* bound on the steps to turn to it
  Gate      \* HEADING_GATE, in steps of turning

ASSUME ToySimAssumption ==
  /\ None \notin Goals /\ Drive \notin Goals /\ Drive # None
  /\ MaxDist \in Nat /\ MaxTurn \in Nat /\ Gate \in Nat

VARIABLES
  mode,    \* _mode
  target,  \* _target
  moving,  \* _v or _w is not zero
  status,  \* status
  dist,    \* steps left to drive; 0 outside of mode goal
  turn     \* steps left to turn; likewise

simVars == <<mode, target, moving, status, dist, turn>>

SimTypeOK ==
  /\ mode \in {"idle", "goal", "velocity"}
  /\ target \in Goals \cup {None}
  /\ moving \in BOOLEAN
  /\ status \in {"idle", "following", "arrived"}
  /\ dist \in 0 .. MaxDist
  /\ turn \in 0 .. MaxTurn

SimInit ==
  /\ mode = "idle"
  /\ target = None
  /\ moving = FALSE
  /\ status = "idle"
  /\ dist = 0
  /\ turn = 0

SetGoal(g) ==
  /\ target' = g
  /\ mode' = "goal"
  /\ status' = "following"
  /\ dist' \in 0 .. MaxDist
  /\ turn' \in 0 .. MaxTurn
  /\ UNCHANGED moving

(* Mutant: a base that is told to go nowhere keeps to its goal.            *)
SetVelocityForMotion(on) ==
  /\ moving' = on
  /\ mode' = IF on THEN "velocity" ELSE mode
  /\ status' = IF on THEN "following" ELSE status
  /\ UNCHANGED <<target, dist, turn>>

(* Mutant: a base that is told to go nowhere takes up the goal it left.    *)
SetVelocityResumes(on) ==
  /\ moving' = on
  /\ mode' = IF on THEN "velocity" ELSE IF target # None THEN "goal" ELSE "idle"
  /\ status' = IF on \/ target # None THEN "following" ELSE "idle"
  /\ UNCHANGED <<target, dist, turn>>

(* It leaves the target, for which mode velocity has no use.               *)
SetVelocity(on) ==
  /\ moving' = on
  /\ mode' = IF on THEN "velocity" ELSE "idle"
  /\ status' = IF on THEN "following" ELSE "idle"
  /\ dist' = 0
  /\ turn' = 0
  /\ UNCHANGED target

Cancel ==
  /\ mode' = "idle"
  /\ target' = None
  /\ moving' = FALSE
  /\ status' = "idle"
  /\ dist' = 0
  /\ turn' = 0

Following == mode = "goal" /\ target # None

Arrive ==
  /\ Following
  /\ dist = 0
  /\ mode' = "idle"
  /\ target' = None
  /\ status' = "arrived"
  /\ turn' = 0
  /\ UNCHANGED <<moving, dist>>

(* Mutant: it turns only while it drives.                                  *)
ApproachBelowGate ==
  /\ Following
  /\ dist > 0
  /\ turn' = IF turn > 0 /\ turn <= Gate THEN turn - 1 ELSE turn
  /\ dist' = IF turn <= Gate THEN dist - 1 ELSE dist
  /\ UNCHANGED <<mode, target, moving, status>>

(* Mutant: it drives on without looking whether it has arrived.            *)
ApproachUnchecked ==
  /\ Following
  /\ turn' = IF turn > 0 THEN turn - 1 ELSE 0
  /\ dist' = IF turn <= Gate THEN dist - 1 ELSE dist
  /\ UNCHANGED <<mode, target, moving, status>>

Approach ==
  /\ Following
  /\ dist > 0
  /\ turn' = IF turn > 0 THEN turn - 1 ELSE 0
  /\ dist' = IF turn <= Gate THEN dist - 1 ELSE dist
  /\ UNCHANGED <<mode, target, moving, status>>

(* With a velocity only the pose changes, and when idle nothing does.      *)
Step == Arrive \/ Approach \/ (~Following /\ UNCHANGED simVars)

-----------------------------------------------------------------------------
(* The command the simulator carries out.                                  *)
CommandOf ==
  CASE mode = "goal" -> target
    [] mode = "velocity" -> Drive
    [] mode = "idle" -> None

=============================================================================
