------------------------------ MODULE MCFeeds ------------------------------
(* Feeds for TLC: a ring of two events, a clock of a few ticks, and a      *)
(* staleness threshold below its end.                                      *)
EXTENDS Feeds

=============================================================================
