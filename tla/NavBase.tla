------------------------------ MODULE NavBase ------------------------------
(***************************************************************************)
(* What whoever steers a mobile base may rely on.  The orders are numbered *)
(* as they are given; one may be lost or overtaken, but none is carried    *)
(* out twice, and none comes back once another was taken after it.  A goal *)
(* ends by being reached, and the report is about the order that was taken *)
(* last.  The simulator of the navigation demo (ToySim), behind its three  *)
(* inputs, implements it.                                                  *)
(***************************************************************************)
EXTENDS Naturals

CONSTANTS
  Goals,  \* where the base can be sent
  Drive,  \* the command that is a velocity
  None    \* the command to halt; no command

VARIABLES
  asked,    \* the number of orders given
  orders,   \* those on their way
  command,  \* the order it carries out; None when it is done
  report    \* its status, and the order it is about

vars == <<asked, orders, command, report>>

Init ==
  /\ asked = 0
  /\ orders = {}
  /\ command = [n |-> 0, cmd |-> None]
  /\ report = [n |-> 0, status |-> "idle"]

(* The new order may push older ones out, or be no order at all.           *)
Ask(c) ==
  /\ asked' = asked + 1
  /\ orders' \subseteq orders \cup {[n |-> asked + 1, cmd |-> c]}
  /\ UNCHANGED <<command, report>>

(* To halt is said on two inputs, and may be heard twice.                  *)
Take(o) ==
  /\ \/ orders' = orders \ {o}
     \/ o.cmd = None /\ orders' = orders
  /\ command' = o
  /\ report' = [n |-> o.n, status |-> IF o.cmd = None THEN "idle" ELSE "following"]
  /\ UNCHANGED asked

Reach ==
  /\ command.cmd \in Goals
  /\ command' = [n |-> command.n, cmd |-> None]
  /\ report' = [n |-> command.n, status |-> "arrived"]
  /\ UNCHANGED <<asked, orders>>

Next ==
  \/ \E c \in Goals \cup {Drive, None} : Ask(c)
  \/ \E o \in orders : Take(o)
  \/ Reach

Spec == Init /\ [][Next]_vars

=============================================================================
