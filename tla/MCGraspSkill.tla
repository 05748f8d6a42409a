---------------------------- MODULE MCGraspSkill ----------------------------
(* GraspSkill for TLC: enough calls for a pick, a failed one, a place, a   *)
(* retry of it, and one more.                                              *)
EXTENDS GraspSkill

=============================================================================
