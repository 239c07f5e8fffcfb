----------------------------- MODULE Approvals -----------------------------
(***************************************************************************)
(* Owner sign-off of an offer (src/server/services/approvals.ts).  A       *)
(* manager asks for it, which closes the pending approvals of the offer,   *)
(* revokes its APPROVAL links, and creates an approval and a link, each by *)
(* a statement of its own; the owner decides through the link.  Askers and *)
(* owners run concurrently, any may die between two statements, and a      *)
(* link knows its offer but not the approval it was minted with.           *)
(***************************************************************************)
EXTENDS SecureLinks, FiniteSets

CONSTANTS
    Offers,       \* renewal offers
    ApprovalIds,  \* ids an Approval row may get
    OfferOf,      \* the offer an approval or a link is about
    Askers,       \* requests that may run requestOwnerApproval
    Owners,       \* requests that may run decideApprovalViaLink
    None          \* no id

Requests == Askers \cup Owners

ASSUME ApprovalAssumption ==
    /\ IsFiniteSet(ApprovalIds)
    /\ OfferOf \in [ApprovalIds \cup Links -> Offers]
    /\ ApprovalIds \cap Links = {} /\ Askers \cap Owners = {}
    /\ None \notin Offers \cup ApprovalIds \cup Links
    /\ \A l \in Links : MaxUses[l] = 1

VARIABLES
    approval,    \* Approval: decision and decidedAt as one status, rank by createdAt
    signable,    \* offers SENT, COUNTERED or ACCEPTED
    log,         \* rows APPROVAL_REQUESTED, _GRANTED and _REJECTED of each approval
    pc,          \* where each request is
    req,         \* what each request was asked for and has read
    decidedBy,   \* history: the link an approval was decided through
    died,        \* history: some request died between two statements
    overlapped   \* history: two requests for sign-off of one offer overlapped

vars == <<link, approval, signable, log, pc, req, decidedBy, died, overlapped>>
history == <<decidedBy, died, overlapped>>

Decisions == {"APPROVED", "REJECTED"}
Statuses == {"absent", "open", "closed"} \cup Decisions
Kinds == {"REQUESTED"} \cup Decisions
Steps == {"idle", "close", "revoke", "create", "mint", "asked", "consume", "find", "claim", "decided"}

Request == [offer : Offers \cup {None}, link : Links \cup {None},
            approval : ApprovalIds \cup {None}, decision : Decisions \cup {"none"}]
NoRequest == [offer |-> None, link |-> None, approval |-> None, decision |-> "none"]

ApprovalTypeOK ==
    /\ LinkTypeOK
    /\ approval \in [ApprovalIds -> [status : Statuses, rank : Nat]]
    /\ signable \subseteq Offers
    /\ log \in [ApprovalIds -> [Kinds -> Nat]]
    /\ pc \in [Requests -> Steps]
    /\ req \in [Requests -> Request]
    /\ decidedBy \in [ApprovalIds -> Links \cup {None}]
    /\ died \in BOOLEAN /\ overlapped \in BOOLEAN

Init ==
    /\ LinkInit
    /\ approval = [a \in ApprovalIds |-> [status |-> "absent", rank |-> 0]]
    /\ signable = Offers
    /\ log = [a \in ApprovalIds |-> [kind \in Kinds |-> 0]]
    /\ pc = [p \in Requests |-> "idle"]
    /\ req = [p \in Requests |-> NoRequest]
    /\ decidedBy = [a \in ApprovalIds |-> None]
    /\ died = FALSE /\ overlapped = FALSE

-----------------------------------------------------------------------------
Goto(p, from, to) ==
    /\ pc[p] = from
    /\ pc' = [pc EXCEPT ![p] = to]

\* The request returns or throws.
Leave(p, from) ==
    /\ Goto(p, from, "idle")
    /\ req' = [req EXCEPT ![p] = NoRequest]

Note(a, kind) == log' = [log EXCEPT ![a][kind] = @ + 1]

IsOpen(a) == approval[a].status = "open"
OpenOf(o) == {a \in ApprovalIds : OfferOf[a] = o /\ IsOpen(a)}

\* The process dies, or the database refuses a statement.
Fail(p) ==
    /\ pc[p] # "idle"
    /\ Leave(p, pc[p])
    /\ died' = TRUE
    /\ UNCHANGED <<link, approval, signable, log, decidedBy, overlapped>>

-----------------------------------------------------------------------------
(* requestOwnerApproval *)

Ask(p, o) ==
    /\ o \in signable
    /\ Goto(p, "idle", "close")
    /\ req' = [req EXCEPT ![p] = [NoRequest EXCEPT !.offer = o]]
    /\ overlapped' = (overlapped \/ \E q \in Askers : req[q].offer = o)
    /\ UNCHANGED <<link, approval, signable, log, decidedBy, died>>

ToClose(o) == OpenOf(o)

Close(p) ==
    /\ Goto(p, "close", "revoke")
    /\ approval' = [a \in ApprovalIds |-> IF a \in ToClose(req[p].offer)
                                          THEN [approval[a] EXCEPT !.status = "closed"]
                                          ELSE approval[a]]
    /\ UNCHANGED <<link, signable, log, req, history>>

RevokeOld(p) ==
    /\ Goto(p, "revoke", "create")
    /\ End({l \in Links : OfferOf[l] = req[p].offer})
    /\ UNCHANGED <<approval, signable, log, req, history>>

Created == Cardinality({b \in ApprovalIds : approval[b].status # "absent"})

\* The newest row: createdAt is kept as a rank.
CreateApproval(p) ==
    \E a \in ApprovalIds :
        /\ approval[a].status = "absent" /\ OfferOf[a] = req[p].offer
        /\ Goto(p, "create", "mint")
        /\ approval' = [approval EXCEPT ![a] = [status |-> "open", rank |-> Created + 1]]
        /\ req' = [req EXCEPT ![p].approval = a]
        /\ UNCHANGED <<link, signable, log, history>>

MintLink(p) ==
    \E l \in Links :
        /\ OfferOf[l] = req[p].offer
        /\ Goto(p, "mint", "asked")
        /\ Mint(l)
        /\ UNCHANGED <<approval, signable, log, req, history>>

RecordAsked(p) ==
    /\ Leave(p, "asked")
    /\ Note(req[p].approval, "REQUESTED")
    /\ UNCHANGED <<link, approval, signable, history>>

-----------------------------------------------------------------------------
(* decideApprovalViaLink *)

\* Every look at the link before the use is taken.
Present(p, l, decision) ==
    /\ Usable(l)
    /\ Goto(p, "idle", "consume")
    /\ req' = [req EXCEPT ![p] = [offer |-> OfferOf[l], link |-> l, approval |-> None,
                                  decision |-> decision]]
    /\ UNCHANGED <<link, approval, signable, log, history>>

TakeUse(p) ==
    /\ Goto(p, "consume", "find")
    /\ Consume(req[p].link)
    /\ UNCHANGED <<approval, signable, log, req, history>>

NoUse(p) ==
    /\ Leave(p, "consume")
    /\ ~CanConsume(req[p].link)
    /\ UNCHANGED <<link, approval, signable, log, history>>

\* The newest pending approval of the offer, whichever request made it.
Find(p) ==
    \E a \in OpenOf(req[p].offer) :
        /\ \A b \in OpenOf(req[p].offer) : approval[b].rank <= approval[a].rank
        /\ Goto(p, "find", "claim")
        /\ req' = [req EXCEPT ![p].approval = a]
        /\ UNCHANGED <<link, approval, signable, log, history>>

FindNone(p) ==
    /\ Leave(p, "find")
    /\ OpenOf(req[p].offer) = {}
    /\ UNCHANGED <<link, approval, signable, log, history>>

\* The guard of the claiming update, and the slip of claiming by id alone.
ById(a) == approval[a].status # "absent"
Claimable(a) == IsOpen(a)

Claim(p) ==
    LET a == req[p].approval IN
    /\ Goto(p, "claim", "decided")
    /\ Claimable(a)
    /\ approval' = [approval EXCEPT ![a].status = req[p].decision]
    /\ decidedBy' = [decidedBy EXCEPT ![a] = req[p].link]
    /\ UNCHANGED <<link, signable, log, req, died, overlapped>>

\* "Already decided"
ClaimLost(p) ==
    /\ Leave(p, "claim")
    /\ ~Claimable(req[p].approval)
    /\ UNCHANGED <<link, approval, signable, log, history>>

RecordDecision(p) ==
    /\ Leave(p, "decided")
    /\ Note(req[p].approval, req[p].decision)
    /\ UNCHANGED <<link, approval, signable, history>>

-----------------------------------------------------------------------------
(* What happens around them *)

\* A newer offer of the case supersedes this one (proposeOffer).
Supersede(o) ==
    /\ o \in signable
    /\ signable' = signable \ {o}
    /\ UNCHANGED <<link, approval, log, pc, req, history>>

\* revokeSecureLink by hand, and the end of a link's lifetime.
LinkEnds(l) ==
    /\ link[l].minted /\ End({l})
    /\ UNCHANGED <<approval, signable, log, pc, req, history>>

AskStep(p) == \/ Close(p) \/ RevokeOld(p) \/ CreateApproval(p) \/ MintLink(p) \/ RecordAsked(p)
              \/ \E o \in Offers : Ask(p, o)

DecideStep(p) == \/ TakeUse(p) \/ NoUse(p) \/ Find(p) \/ FindNone(p) \/ Claim(p) \/ ClaimLost(p)
                 \/ RecordDecision(p) \/ \E l \in Links, d \in Decisions : Present(p, l, d)

Next ==
    \/ \E o \in Offers : Supersede(o)
    \/ \E l \in Links : LinkEnds(l)
    \/ \E p \in Askers : AskStep(p)
    \/ \E p \in Owners : DecideStep(p)
    \/ \E p \in Requests : Fail(p)

Spec == Init /\ [][Next]_vars

-----------------------------------------------------------------------------
(* Properties *)

\* A closed or decided approval never changes again ("decide cannot claim a
\* stale row", approvals.ts:83-85), though owners found it while it was open.
Settled == \A a \in ApprovalIds :
    approval[a].status \in Decisions \cup {"closed"} => approval'[a] = approval[a]
DecisionFinal == [][Settled]_vars

\* One link, one decision: a link whose token is presented many times at once,
\* or again after a new request, never decides two approvals.
OneDecisionPerLink ==
    \A a, b \in ApprovalIds : decidedBy[a] = decidedBy[b] /\ decidedBy[a] # None => a = b

\* The evidence of a sign-off is the decision that stands, told once: never the
\* other decision, never a decision that was not recorded, and complete as soon
\* as nobody is at work and nobody has died.
AtRest == ~died /\ \A p \in Requests : pc[p] = "idle"
SignOffTold ==
    \A a \in ApprovalIds, d \in Decisions :
        /\ log[a][d] <= IF approval[a].status = d THEN 1 ELSE 0
        /\ AtRest /\ approval[a].status = d => log[a][d] = 1

\* An offer has one pending approval at most, unless two managers ask for its
\* sign-off at the same time.
OnePending ==
    \A a, b \in ApprovalIds :
        ~overlapped /\ IsOpen(a) /\ IsOpen(b) /\ OfferOf[a] = OfferOf[b] => a = b
=============================================================================
