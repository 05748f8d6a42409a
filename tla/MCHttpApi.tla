----------------------------- MODULE MCHttpApi -----------------------------
(* HttpApi for TLC: small sets of calls and ids, and what the vendor may   *)
(* emit unasked.  The mutants of HttpApi's and DoraLoop's definitions are  *)
(* in those modules.                                                       *)
EXTENDS HttpApi, TLC

CONSTANTS c1, c2, r1, r2, estop, goto

MCCalls == {c1, c2}
MCIds == {r1, r2}
MCVerbs == {estop, goto}
MCOneVerb == {estop}
MCAdverts == {{estop}, {estop, goto}}
MCOneAdvert == {{estop}}

(* Every advert, including JSON null and JSON that is not an object, and   *)
(* every kind of payload that is not a reply.                              *)
MCEverything == Capabilities \cup Stray

(* A first advert, a dropped payload and one that crashes the loop.        *)
MCSome ==
  {[input |-> "capabilities", adv |-> {estop}],
   [input |-> "stray", kind |-> "no_request_id"],
   [input |-> "stray", kind |-> "not_object"]}

MCSymmetry == Permutations(MCCalls) \cup Permutations(MCIds)

=============================================================================
