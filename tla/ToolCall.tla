------------------------------ MODULE ToolCall ------------------------------
(***************************************************************************)
(* What the bridge promises octos about one call, whatever the threads,    *)
(* locks and messages behind it do.  A call is refused, served by the      *)
(* bridge itself, answered by the robot or given up.  The robot runs a     *)
(* call at most once, never one that was refused or served, and a call is  *)
(* answered only with the outcome of its own run.                          *)
(* A call that was given up (BRIDGE_TIMEOUT, or an exception while         *)
(* publishing) may have been run, or may still be.  HttpApi implements     *)
(* this specification.                                                     *)
(***************************************************************************)
EXTENDS Naturals

CONSTANT Calls

VARIABLES
  status,  \* status[c]: "new", "open", "refused", "served", "answered"
           \* or "given_up"
  runs     \* runs[c]: how often the robot has run the command of c

vars == <<status, runs>>

Init ==
  /\ status = [c \in Calls |-> "new"]
  /\ runs = [c \in Calls |-> 0]

Submit(c) ==
  /\ status[c] = "new"
  /\ status' = [status EXCEPT ![c] = "open"]
  /\ UNCHANGED runs

Refuse(c) ==
  /\ status[c] = "open"
  /\ runs[c] = 0
  /\ status' = [status EXCEPT ![c] = "refused"]
  /\ UNCHANGED runs

Serve(c) ==
  /\ status[c] = "open"
  /\ runs[c] = 0
  /\ status' = [status EXCEPT ![c] = "served"]
  /\ UNCHANGED runs

Run(c) ==
  /\ status[c] \in {"open", "given_up"}
  /\ runs[c] = 0
  /\ runs' = [runs EXCEPT ![c] = 1]
  /\ UNCHANGED status

Answer(c) ==
  /\ status[c] = "open"
  /\ runs[c] = 1
  /\ status' = [status EXCEPT ![c] = "answered"]
  /\ UNCHANGED runs

GiveUp(c) ==
  /\ status[c] = "open"
  /\ status' = [status EXCEPT ![c] = "given_up"]
  /\ UNCHANGED runs

Next ==
  \E c \in Calls :
    \/ Submit(c) \/ Refuse(c) \/ Serve(c)
    \/ Run(c) \/ Answer(c) \/ GiveUp(c)

Spec == Init /\ [][Next]_vars

=============================================================================
