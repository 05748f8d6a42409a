----------------------------- MODULE MCNavDemo -----------------------------
(* NavDemo for TLC: two goals.  The mutants are in ToySim.                 *)
EXTENDS NavDemo

CONSTANTS g1, g2

MCGoals == {g1, g2}

=============================================================================
