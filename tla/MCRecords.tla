----------------------------- MODULE MCRecords -----------------------------
(***************************************************************************)
(* Six scenes: the life of a document in the vault; the handover record    *)
(* that its photos and two acknowledgements fill; everybody who writes     *)
(* evidence about two tenancies of one property; one who reads it back     *)
(* while it is written; the tenant who answers an offer through a link;    *)
(* and the tenant who opts in to messages while staff grants and revokes.  *)
(***************************************************************************)
EXTENDS Handover, Chronology, TenantLink, TLC

CONSTANTS t1, t2, k1, o1, i1, i2, x1, d1, d2, p1, r1, c1, c2, h1,
    o2, l1, l2, s1, s2, m1, m2,
    Scenes      \* the scenes a run looks at

VARIABLE scene

mcPropertyOf == t1 :> p1 @@ t2 :> p1
mcCaseOf == k1 :> t1
mcOfferOf == o1 :> k1
mcItemOf == i1 :> t1 @@ i2 :> t2

\* Two links to the tenant, the first for the offer sent, the second for the next.
mcOfferSent == l1 :> o1 @@ l2 :> o2
mcMaxUses == l1 :> 2 @@ l2 :> 1

ASSUME TenantAssumption

vars == <<handoverVars, chronologyVars, tenantVars, scene>>

mcInit == HandoverInit /\ ChronologyInit /\ TenantInit /\ scene \in Scenes

\* Two requests; the second document is sound, there to be listed with the first
\* and archived under the page.
Filing ==
    /\ UNCHANGED <<handoverRows, ack, chronologyVars>> /\ VaultNext
    /\ spoiled' \subseteq {d1} /\ cut' \subseteq {d1}
    /\ \A p \in Clerks : step'[p] \in {"fetch", "bytes", "enter", "send"} => hand'[p].doc = {d1}
HandingOver == HandoverNext /\ (\A d \in Docs : doc'[d] # "absent" => d = d1) /\ UNCHANGED chronologyVars
Telling == Writes /\ UNCHANGED handoverVars

\* One reader of the first tenancy; what is written meanwhile is about it.
Reading1 ==
    /\ UNCHANGED handoverVars
    /\ \/ \E r \in Readers :
            \/ OpenTimeline(r, t1) \/ BuildPack(r, t1)
            \/ CountPages(r) \/ ReadRows(r) \/ CloseTimeline(r)
            \/ \E d \in Papers : LogExport(r, d)
            \/ TellExport(r) \/ Leave(r)
       \/ SetPaymentSchedule(t1, {i1}) \/ SetPaymentSchedule(t1, {})
       \/ \E x \in Proofs : ProofEvent(x) \/ \E s \in Filable : CreateProofRequest(x, s)
       \/ \E d \in Papers : UploadPaper(d, Scope("TENANCY", t1), t1) \/ \E x \in Proofs : LinkPaper(d, x)

\* The answers: two uses of one link, the second request also signed in; the link
\* ends under an answer; one death.
Answering ==
    /\ TenantNext
    /\ consent' = consent /\ \A p \in Tenants : ~answer'[p].optIn
    /\ ~link'[l2].minted
    /\ at'[s1] # "idle" => answer'[s1].link = l1
    /\ link'[l1].ended => link[l1].ended \/ \E p \in Tenants : at[p] = "consume"
    /\ cutShort' \subseteq {l1} /\ at'[m2] = "idle"

\* The consent: questions through one link, with or without it, and two of staff.
Consenting ==
    /\ TenantNext /\ offer' = offer /\ ~link'[l2].minted /\ ~link'[l1].ended
    /\ \A p \in Tenants : answer'[p].action \in {"none", "ASK"} /\ (p # s1 => at'[p] = "idle")

mcNext ==
    /\ UNCHANGED scene
    /\ \/ scene = "vault" /\ Filing /\ UNCHANGED tenantVars
       \/ scene = "handover" /\ HandingOver /\ UNCHANGED tenantVars
       \/ scene = "writing" /\ Telling /\ UNCHANGED tenantVars
       \/ scene = "reading" /\ Reading1 /\ UNCHANGED tenantVars
       \/ scene = "answers" /\ Answering /\ UNCHANGED <<handoverVars, chronologyVars>>
       \/ scene = "consent" /\ Consenting /\ UNCHANGED <<handoverVars, chronologyVars>>

mcSpec == mcInit /\ [][mcNext]_vars
=============================================================================
