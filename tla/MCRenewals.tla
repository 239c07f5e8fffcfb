---------------------------- MODULE MCRenewals ----------------------------
(***************************************************************************)
(* Small instances of Renewals for TLC: one tenancy with two cases.  A     *)
(* behaviour is one scene, chosen at the start: the loop alone, with the   *)
(* offers of both cases; notices with staff who move or archive the        *)
(* tenancy by hand while at most one offer is made on the first case; the  *)
(* path the page leads along; and the sources its figure comes from.       *)
(***************************************************************************)
EXTENDS Guidance, TLC

CONSTANTS t1, k1, k2, o1, o2, o3, n1, n2, p1, p2,
    Scenes   \* the scenes a run looks at

VARIABLE scene

TwoCases == (k1 :> t1) @@ (k2 :> t1)
OffersOfBoth == (o1 :> k1) @@ (o2 :> k1) @@ (o3 :> k2)
OneNotice == n1 :> k1
TwoNotices == (n1 :> k1) @@ (n2 :> k1)

Same == Permutations({p1, p2}) \cup Permutations({o1, o2})

ByHand == \E p \in Requests : req'[p].op = "status"
FirstNotice == \A n \in Notices \ {n1} : notice'[n] = "absent"
InLoop == notice' = notice /\ ~ByHand /\ ~\E t \in Tenancies : Archive(t)
OneOffer ==
    /\ offer'[o3].status = "absent"
    /\ Cardinality({o \in Offers : offer'[o].status # "absent"}) <= 1
AboutNotices ==
    /\ FirstNotice /\ OneOffer
    /\ \A p \in Requests : req'[p].op # "counter"

\* The loop as the desk sees it, with its figure in and its gate ahead; and with
\* figures, a benchmark and a gate that move, around one offer and one notice.
Quiet == \A p \in Requests : pc[p] = "idle"
OnPath ==
    /\ GuidedNext /\ ~ByHand /\ ~died' /\ ~\E t \in Tenancies : Archive(t)
    /\ sent' # sent => Quiet
    /\ notice[n1] # "SERVED" => FirstNotice
    /\ \/ Cardinality({p \in Requests : pc'[p] # "idle"}) <= 1
       \/ /\ \A p \in Requests : req'[p].op \in {"propose", "counter", "accept", "mint"}
          /\ FirstNotice /\ offer'[o3].status = "absent"
    /\ UNCHANGED <<figure, benchmark, passed>>
Sources ==
    /\ GuidedNext /\ ~ByHand
    /\ <<figure, benchmark, passed>>' # <<figure, benchmark, passed>> => Quiet
    /\ sent' = {} /\ \A p \in Requests : req'[p].op # "counter"
    /\ Cardinality({p \in Requests : pc'[p] # "idle"}) <= 1
    /\ FirstNotice /\ case'[k2].status = "absent" /\ OneOffer

mcInit ==
    /\ Init /\ scene \in Scenes
    /\ tenancy[t1] = IF scene = "notices" THEN "ACTIVE" ELSE "RENEWAL_DUE"
    /\ GuideInit(IF scene = "path" THEN "official" ELSE "none")
mcNext ==
    /\ UNCHANGED scene
    /\ \/ scene = "loop" /\ Next /\ InLoop /\ UNCHANGED guideVars
       \/ scene = "notices" /\ Next /\ AboutNotices /\ UNCHANGED guideVars
       \/ scene = "path" /\ OnPath
       \/ scene = "sources" /\ Sources
mcSpec == mcInit /\ [][mcNext]_<<vars, guideVars, scene>>
===========================================================================
