---------------------------- MODULE MCApprovals ----------------------------
(***************************************************************************)
(* Two managers who ask for the sign-off of one offer, and two requests of *)
(* its owner.                                                              *)
(***************************************************************************)
EXTENDS Approvals, TLC

CONSTANTS o1, a1, a2, l1, l2, w1, w2

OneOffer == [x \in {a1, a2, l1, l2} |-> o1]
SingleUse == [l \in Links |-> 1]
Same == Permutations({a1, a2}) \cup Permutations({l1, l2}) \cup Permutations({w1, w2})
===========================================================================
