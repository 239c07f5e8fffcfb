----------------------------- MODULE Agreement -----------------------------
(***************************************************************************)
(* What the renewal loop promises, with no requests, tables or versions:   *)
(* a case is decided at most once and by one offer, a tenancy is succeeded *)
(* at most once and only through a case that was decided, nothing of this  *)
(* is ever taken back, and the timeline says each of it at most once and   *)
(* only after it happened.  Renewals implements it.                        *)
(***************************************************************************)
CONSTANTS Cases, Offers, Tenancies, TenancyOf, CaseOf, None

VARIABLES
    decided,     \* decided[k]: the offer accepted on case k
    successor,   \* successor[t]: the case whose mint succeeded tenancy t
    told         \* offers and cases whose acceptance or completion is recorded

Init ==
    /\ decided = [k \in Cases |-> None]
    /\ successor = [t \in Tenancies |-> None]
    /\ told = {}

Decide(k, o) ==
    /\ decided[k] = None /\ CaseOf[o] = k
    /\ decided' = [decided EXCEPT ![k] = o]
    /\ UNCHANGED <<successor, told>>

Succeed(k) ==
    /\ decided[k] # None
    /\ successor[TenancyOf[k]] = None
    /\ successor' = [successor EXCEPT ![TenancyOf[k]] = k]
    /\ UNCHANGED <<decided, told>>

Tell(x) ==
    /\ x \notin told
    /\ \/ x \in Offers /\ decided[CaseOf[x]] = x
       \/ x \in Cases /\ successor[TenancyOf[x]] = x
    /\ told' = told \cup {x}
    /\ UNCHANGED <<decided, successor>>

Next ==
    \/ \E k \in Cases : Succeed(k) \/ \E o \in Offers : Decide(k, o)
    \/ \E x \in Offers \cup Cases : Tell(x)

Spec == Init /\ [][Next]_<<decided, successor, told>>
=============================================================================
