---------------------------- MODULE MCLifecycle ----------------------------
(* Lifecycle for TLC: up to three signals, so that a handler can interrupt *)
(* a handler that interrupts main's finally.                               *)
EXTENDS Lifecycle

=============================================================================
