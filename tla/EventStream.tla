---------------------------- MODULE EventStream ----------------------------
(***************************************************************************)
(* What a client that polls the safety events may rely on: they come in    *)
(* the order in which they were emitted and each at most once, within each *)
(* answer and over all of them.  Any of them may be left out, and then it  *)
(* never comes.  The streams of Feeds implement it, with their queue, lock *)
(* and ring, restarts, polls that fail and numbers that are missing,       *)
(* repeated or odd.                                                        *)
(***************************************************************************)
EXTENDS Naturals, Sequences

VARIABLES
  emitted,  \* how many events there have been
  got       \* the answers the client got, each a list (with gaps) of events,
            \* by their number among all

vars == <<emitted, got>>

Init == emitted = 0 /\ got = <<>>

Emit ==
  /\ emitted' = emitted + 1
  /\ UNCHANGED got

(* An answer whose events are all emitted, in order, and later than all    *)
(* that the client has.                                                    *)
Poll(answer) ==
  /\ \A i \in DOMAIN answer : answer[i] \in 1 .. emitted
  /\ \A i, j \in DOMAIN answer : i < j => answer[i] < answer[j]
  /\ \A m \in DOMAIN got : \A j \in DOMAIN got[m], i \in DOMAIN answer :
       got[m][j] < answer[i]
  /\ got' = Append(got, answer)
  /\ UNCHANGED emitted

Next == Emit \/ (got' # <<>> /\ Poll(got'[Len(got')]))

Spec == Init /\ [][Next]_vars

=============================================================================
