---------------------------- MODULE MCHeartbeat ----------------------------
(* Heartbeat for TLC: a vendor without a deadman, and two deadmen of which *)
(* one is longer than twice the other.                                     *)
EXTENDS Heartbeat

MCTimeouts == {0, 2, 6}

=============================================================================
