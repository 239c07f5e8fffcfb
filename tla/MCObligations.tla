--------------------------- MODULE MCObligations ---------------------------
(* Small instances of Obligations for TLC: one tenancy with one cheque at a
   time, or one proof request with one link. *)
EXTENDS Obligations, TLC

CONSTANTS c1, t1, r1, fc, ft, fr, l1, u1, u2

FlagOf == [f \in FlagRows |-> CASE f = fc -> c1 [] f = fr -> r1 [] OTHER -> t1]
OneSeq == [i \in Items |-> 1]
OneRequest == [l \in Links |-> r1]
TwoUses == [l \in Links |-> 2]
WholeRent == {{c1}}
SamePeople == Permutations({u1, u2})
===========================================================================
