----------------------------- MODULE Renewals -----------------------------
(***************************************************************************)
(* The renewal loop of src/server/services/renewals.ts and notice.ts: a    *)
(* renewal case is opened for a tenancy, a notice is served, offers are    *)
(* proposed and countered, one is accepted, and a successor tenancy is     *)
(* minted.  Requests run concurrently; every SQL statement or transaction  *)
(* is one step, and what a request read earlier it carries along.          *)
(*                                                                         *)
(* The offer statuses SENT and COUNTERED differ in wording alone and are   *)
(* one status, OPEN, here.  The unique indexes of the database are guards: *)
(* a statement that would break one throws and the request ends.           *)
(***************************************************************************)
EXTENDS Naturals, FiniteSets

CONSTANTS
    Tenancies,    \* tenancies that may be renewed
    Cases,        \* ids of renewal cases
    TenancyOf,    \* the tenancy of each case
    Offers,       \* ids of offers
    CaseOf,       \* the case of each offer
    Notices,      \* ids of notices
    CaseOfNotice, \* the case of each notice
    Requests,     \* requests that may run at the same time
    None,         \* no id
    StartStatus,  \* statuses a tenancy may have when its loop begins
    StaffTargets  \* bound: statuses staff move a tenancy to by hand

TenancyStatus == {"ACTIVE", "RENEWAL_DUE", "NOTICE_SERVED", "NEGOTIATING", "RENEWED",
                  "ENDING", "DISPUTED", "ARCHIVED"}

ASSUME RenewalAssumption ==
    /\ TenancyOf \in [Cases -> Tenancies]
    /\ CaseOf \in [Offers -> Cases]
    /\ CaseOfNotice \in [Notices -> Cases]
    /\ StartStatus \cup StaffTargets \subseteq TenancyStatus
    /\ None \notin Tenancies \cup Cases \cup Offers \cup Notices
    /\ Offers \cap Cases = {} /\ Offers \cap Notices = {} /\ Cases \cap Notices = {}

VARIABLES
    case,       \* RenewalCase: status, currentOfferId, decidedOfferId, renewedTenancyId set
    offer,      \* Offer: status, version
    notice,     \* Notice.status
    tenancy,    \* Tenancy.status
    successor,  \* the case whose mint made the tenancy with renewsFromTenancyId = t
    log,        \* how often the timeline holds each event
    pc,         \* where each request is
    req,        \* what each request was asked for and has read
    died        \* history: some request died between two statements

vars == <<case, offer, notice, tenancy, successor, log, pc, req, died>>

TerminalStatus == {"RENEWED", "DECLINED", "LAPSED"}
CaseStatus == {"absent", "ASSESSING", "NOTICE_SERVED", "NEGOTIATING", "AGREED", "RENEWED"}
OfferStatus == {"absent", "OPEN", "SUPERSEDED", "ACCEPTED"}
NoticeStatus == {"absent", "GENERATED", "APPROVED", "PENDING_EVIDENCE", "SERVED"}

Case == [status : CaseStatus, current : Offers \cup {None}, decided : Offers \cup {None},
         minted : BOOLEAN]
Offer == [status : OfferStatus, version : Nat]

\* The evidence rows the properties are about, by the request that writes them;
\* the rows of the other requests are left out.
Kinds == [open |-> "RENEWAL_ASSESSMENT_CREATED", accept |-> "OFFER_ACCEPTED",
          mint |-> "RENEWAL_COMPLETED", serve |-> "NOTICE_SERVED"]
Events == ({Kinds.open, Kinds.mint} \X Cases) \cup ({Kinds.accept} \X Offers)
            \cup ({Kinds.serve} \X Notices)

Steps == {"idle", "create", "version", "insert", "point", "moveRead", "moveWrite", "mint",
          "approve", "serve", "record"}
Ops == DOMAIN Kinds \cup {"none", "propose", "counter", "status", "approve", "pending"}

\* op; the tenancy, the case and the offer, notice or case it is about; the
\* version it is about to insert; the status it is to give the tenancy.
Request == [op : Ops, tenancy : Tenancies \cup {None}, case : Cases \cup {None},
            item : Cases \cup Offers \cup Notices \cup {None}, version : Nat,
            target : TenancyStatus \cup {"none"}]
NoRequest == [op |-> "none", tenancy |-> None, case |-> None, item |-> None, version |-> 0,
              target |-> "none"]

RenewalTypeOK ==
    /\ case \in [Cases -> Case]
    /\ offer \in [Offers -> Offer]
    /\ \A o \in Offers : offer[o].status = "absent" <=> offer[o].version = 0
    /\ notice \in [Notices -> NoticeStatus]
    /\ tenancy \in [Tenancies -> TenancyStatus]
    /\ successor \in [Tenancies -> Cases \cup {None}]
    /\ log \in [Events -> Nat]
    /\ pc \in [Requests -> Steps]
    /\ req \in [Requests -> Request]
    /\ died \in BOOLEAN

Init ==
    /\ case = [k \in Cases |-> [status |-> "absent", current |-> None, decided |-> None,
                                minted |-> FALSE]]
    /\ offer = [o \in Offers |-> [status |-> "absent", version |-> 0]]
    /\ notice = [n \in Notices |-> "absent"]
    /\ tenancy \in [Tenancies -> StartStatus]
    /\ successor = [t \in Tenancies |-> None]
    /\ log = [e \in Events |-> 0]
    /\ pc = [p \in Requests |-> "idle"]
    /\ req = [p \in Requests |-> NoRequest]
    /\ died = FALSE

-----------------------------------------------------------------------------
(* Requests *)

Start(p, op, k, item, target, to) ==
    /\ pc[p] = "idle"
    /\ pc' = [pc EXCEPT ![p] = to]
    /\ req' = [req EXCEPT ![p] = [op |-> op, tenancy |-> TenancyOf[k], case |-> k, item |-> item,
                                  version |-> 0, target |-> target]]

Goto(p, from, to) ==
    /\ pc[p] = from
    /\ pc' = [pc EXCEPT ![p] = to]

\* The request returns or throws.
End(p) ==
    /\ pc' = [pc EXCEPT ![p] = "idle"]
    /\ req' = [req EXCEPT ![p] = NoRequest]

\* A statement throws, or was the last one.
Leave(p, from) == pc[p] = from /\ End(p)

\* The writes are done; what is left is the evidence, if the log keeps it.
Done(p, from) ==
    IF req[p].op \in DOMAIN Kinds
    THEN Goto(p, from, "record") /\ UNCHANGED req
    ELSE Leave(p, from)

\* The last step of a handler: recordEvidence.
Record(p) ==
    /\ pc[p] = "record"
    /\ log' = [log EXCEPT ![<<Kinds[req[p].op], req[p].item>>] = @ + 1]
    /\ End(p)
    /\ UNCHANGED <<case, offer, notice, tenancy, successor>>

\* The process dies, or the database refuses a statement.
Fail(p) ==
    /\ pc[p] # "idle"
    /\ End(p)
    /\ died' = TRUE
    /\ UNCHANGED <<case, offer, notice, tenancy, successor, log>>

-----------------------------------------------------------------------------
(* The unique indexes *)

Live(k) == case[k].status \notin TerminalStatus \cup {"absent"}

\* RenewalCase_active_unique: one case per tenancy is not terminal.
ActiveUnique(k) == \A j \in Cases \ {k} : TenancyOf[j] = TenancyOf[k] => ~Live(j)

\* Offer_one_accepted_per_case.
OneAccepted(k) == \A o \in Offers : CaseOf[o] = k => offer[o].status # "ACCEPTED"

\* @@unique([renewalCaseId, version]).
VersionFree(k, v) ==
    \A o \in Offers : CaseOf[o] = k /\ offer[o].status # "absent" => offer[o].version # v

-----------------------------------------------------------------------------
(* openRenewalCase *)

\* No case is open for the tenancy; otherwise that case is returned.
OpenRead(p, t) ==
    /\ pc[p] = "idle"
    /\ \A k \in Cases : TenancyOf[k] = t => ~Live(k)
    /\ pc' = [pc EXCEPT ![p] = "create"]
    /\ req' = [req EXCEPT ![p] = [NoRequest EXCEPT !.op = "open", !.tenancy = t]]
    /\ UNCHANGED <<case, offer, notice, tenancy, successor, log>>

OpenCreate(p) ==
    \E k \in Cases :
        /\ case[k].status = "absent" /\ TenancyOf[k] = req[p].tenancy
        /\ ActiveUnique(k)
        /\ Goto(p, "create", "record")
        /\ case' = [case EXCEPT ![k].status = "ASSESSING"]
        /\ req' = [req EXCEPT ![p].case = k, ![p].item = k]
        /\ UNCHANGED <<offer, notice, tenancy, successor, log>>

\* P2002: a concurrent open won, and its case is returned.
OpenLost(p) ==
    /\ Leave(p, "create")
    /\ \E k \in Cases : TenancyOf[k] = req[p].tenancy /\ Live(k)
    /\ UNCHANGED <<case, offer, notice, tenancy, successor, log>>

-----------------------------------------------------------------------------
(* proposeOffer, and the COUNTER of applyTenantOfferResponse *)

\* A slip: taking an accepted offer for an open one.
NotSuperseded(o) == offer[o].status \in {"OPEN", "ACCEPTED"}

IsOpen(o) == offer[o].status = "OPEN"

Superseded(k, except) ==
    [o \in Offers |-> IF CaseOf[o] = k /\ IsOpen(o) /\ o # except
                      THEN [offer[o] EXCEPT !.status = "SUPERSEDED"] ELSE offer[o]]

\* Any case the caller may see: its status is not looked at.
Propose(p, k, op) ==
    /\ case[k].status # "absent"
    /\ Start(p, op, k, None, IF op = "propose" THEN "NEGOTIATING" ELSE "none", "version")
    /\ offer' = Superseded(k, None)
    /\ UNCHANGED <<case, notice, tenancy, successor, log>>

\* The version after the last one, and the slip of taking the last one.
SameVersion(last) == last
NextVersion(last) == last + 1

ReadVersion(p) ==
    /\ Goto(p, "version", "insert")
    /\ \E last \in {0} \cup {offer[o].version : o \in Offers} :
        /\ \A o \in Offers : CaseOf[o] = req[p].case => offer[o].version <= last
        /\ last = 0 \/ ~VersionFree(req[p].case, last)
        /\ req' = [req EXCEPT ![p].version = NextVersion(last)]
    /\ UNCHANGED <<case, offer, notice, tenancy, successor, log>>

InsertOffer(p) ==
    /\ Goto(p, "insert", "point")
    /\ VersionFree(req[p].case, req[p].version)
    /\ \E o \in Offers :
        /\ offer[o].status = "absent" /\ CaseOf[o] = req[p].case
        /\ offer' = [offer EXCEPT ![o] = [status |-> "OPEN", version |-> req[p].version]]
        /\ req' = [req EXCEPT ![p].item = o]
    /\ UNCHANGED <<case, notice, tenancy, successor, log>>

VersionTaken(p) ==
    /\ Leave(p, "insert")
    /\ ~VersionFree(req[p].case, req[p].version)
    /\ UNCHANGED <<case, offer, notice, tenancy, successor, log>>

\* The case is NEGOTIATING about the new offer, whatever it was before; only a
\* proposal goes on to the tenancy.
PointCase(p) ==
    LET k == req[p].case IN
    /\ \/ req[p].op = "propose" /\ Goto(p, "point", "moveRead") /\ UNCHANGED req
       \/ req[p].op = "counter" /\ Leave(p, "point")
    /\ ActiveUnique(k)
    /\ case' = [case EXCEPT ![k].status = "NEGOTIATING", ![k].current = req[p].item]
    /\ UNCHANGED <<offer, notice, tenancy, successor, log>>

\* That update would revive a closed case beside a live one.
PointRefused(p) ==
    /\ Leave(p, "point")
    /\ ~ActiveUnique(req[p].case)
    /\ UNCHANGED <<case, offer, notice, tenancy, successor, log>>

-----------------------------------------------------------------------------
(* acceptOffer, and the ACCEPT of applyTenantOfferResponse *)

CanAccept(o) == IsOpen(o) /\ OneAccepted(CaseOf[o])

\* One transaction: the guarded claim, the other offers, the case.
Accept(p, o) ==
    LET k == CaseOf[o] IN
    /\ CanAccept(o)
    /\ ActiveUnique(k)
    /\ Start(p, "accept", k, o, "RENEWED", "moveRead")
    /\ offer' = [Superseded(k, o) EXCEPT ![o].status = "ACCEPTED"]
    /\ case' = [case EXCEPT ![k].status = "AGREED", ![k].decided = o, ![k].current = o]
    /\ UNCHANGED <<notice, tenancy, successor, log>>

-----------------------------------------------------------------------------
(* setTenancyStatus: by hand, and from the handlers *)

ALLOWED_STATUS ==
    [ACTIVE        |-> {"RENEWAL_DUE", "NOTICE_SERVED", "NEGOTIATING", "ENDING", "DISPUTED", "ARCHIVED"},
     RENEWAL_DUE   |-> {"NOTICE_SERVED", "NEGOTIATING", "RENEWED", "ENDING", "DISPUTED"},
     NOTICE_SERVED |-> {"NEGOTIATING", "RENEWED", "ENDING", "DISPUTED"},
     NEGOTIATING   |-> {"RENEWED", "ENDING", "DISPUTED"},
     RENEWED       |-> {"ARCHIVED"},
     ENDING        |-> {"ARCHIVED", "DISPUTED"},
     DISPUTED      |-> {"ACTIVE", "ENDING", "ARCHIVED"},
     ARCHIVED      |-> {}]

SetStatus(p, t, target) ==
    /\ pc[p] = "idle"
    /\ pc' = [pc EXCEPT ![p] = "moveRead"]
    /\ req' = [req EXCEPT ![p] = [NoRequest EXCEPT !.op = "status", !.tenancy = t,
                                                   !.target = target]]
    /\ UNCHANGED <<case, offer, notice, tenancy, successor, log>>

\* Requests that move the tenancy with tryMoveTenancy, and the slip of calling
\* setTenancyStatus for an acceptance.
OnlyProposals == {"propose"}
BestEffort == {"propose", "accept"}

\* The check.  Refused, it ends a request made by hand or the service of a
\* notice; tryMoveTenancy swallows it and the handler goes on.
MoveRead(p) ==
    LET legal == req[p].target \in ALLOWED_STATUS[tenancy[req[p].tenancy]] IN
    /\ \/ Goto(p, "moveRead", "moveWrite") /\ legal /\ UNCHANGED req
       \/ Done(p, "moveRead") /\ ~legal /\ req[p].op \in BestEffort
       \/ Leave(p, "moveRead") /\ ~legal /\ req[p].op \notin BestEffort
    /\ UNCHANGED <<case, offer, notice, tenancy, successor, log>>

\* The write, which does not look again.
MoveWrite(p) ==
    /\ Done(p, "moveWrite")
    /\ tenancy' = [tenancy EXCEPT ![req[p].tenancy] = req[p].target]
    /\ UNCHANGED <<case, offer, notice, successor, log>>

\* archiveTenancy, which asks no table.
Archive(t) ==
    /\ "ARCHIVED" \in StaffTargets
    /\ tenancy' = [tenancy EXCEPT ![t] = "ARCHIVED"]
    /\ UNCHANGED <<case, offer, notice, successor, log, pc, req>>

-----------------------------------------------------------------------------
(* mintRenewedTenancy *)

\* A slip: asking only whether the case was minted.
NotMinted(k) == ~case[k].minted
StillAgreed(k) == case[k].status = "AGREED" /\ ~case[k].minted

\* The fast-fail reads.
MintRead(p, k) ==
    /\ StillAgreed(k)
    /\ Start(p, "mint", k, k, "none", "mint")
    /\ UNCHANGED <<case, offer, notice, tenancy, successor, log>>

\* The transaction: the guarded claim, the successor, the predecessor, the case.
Mint(p) ==
    LET k == req[p].case IN
    /\ Goto(p, "mint", "record")
    /\ StillAgreed(k)
    /\ successor[TenancyOf[k]] = None
    /\ successor' = [successor EXCEPT ![TenancyOf[k]] = k]
    /\ tenancy' = [tenancy EXCEPT ![TenancyOf[k]] = "RENEWED"]
    /\ case' = [case EXCEPT ![k].status = "RENEWED", ![k].minted = TRUE]
    /\ UNCHANGED <<offer, notice, log, req>>

\* The claim matches no row, or renewsFromTenancyId is taken: rolled back.
MintRefused(p) ==
    /\ Leave(p, "mint")
    /\ ~StillAgreed(req[p].case) \/ successor[TenancyOf[req[p].case]] # None
    /\ UNCHANGED <<case, offer, notice, tenancy, successor, log>>

-----------------------------------------------------------------------------
(* Notices *)

PrepareNotice(n) ==
    /\ case[CaseOfNotice[n]].status # "absent" /\ notice[n] = "absent"
    /\ notice' = [notice EXCEPT ![n] = "GENERATED"]
    /\ UNCHANGED <<case, offer, tenancy, successor, log, pc, req>>

ApproveRead(p, n) ==
    /\ notice[n] = "GENERATED"
    /\ Start(p, "approve", CaseOfNotice[n], n, "none", "approve")
    /\ UNCHANGED <<case, offer, notice, tenancy, successor, log>>

ApproveWrite(p) ==
    /\ Leave(p, "approve")
    /\ notice' = [notice EXCEPT ![req[p].item] = "APPROVED"]
    /\ UNCHANGED <<case, offer, tenancy, successor, log>>

\* The notices serveNoticeFormal and confirmNoticeService take, and the slip of
\* taking one that was not approved.
AnyNotice(n) == notice[n] # "absent"
Servable(n) == notice[n] \in {"APPROVED", "PENDING_EVIDENCE"}

\* serveNoticeFormal of an approved notice and confirmNoticeService of a pending
\* one, with proof; the tenancy's status is read here and used later.
ServeRead(p, n) ==
    LET k == CaseOfNotice[n]
        moves == tenancy[TenancyOf[k]] \in {"ACTIVE", "RENEWAL_DUE"} IN
    /\ Servable(n)
    /\ Start(p, "serve", k, n, IF moves THEN "NOTICE_SERVED" ELSE "none", "serve")
    /\ UNCHANGED <<case, offer, notice, tenancy, successor, log>>

\* serveNoticeFormal without proof.
PendingRead(p, n) ==
    /\ notice[n] = "APPROVED"
    /\ Start(p, "pending", CaseOfNotice[n], n, "none", "serve")
    /\ UNCHANGED <<case, offer, notice, tenancy, successor, log>>

PendingWrite(p) ==
    /\ req[p].op = "pending"
    /\ Leave(p, "serve")
    /\ notice' = [notice EXCEPT ![req[p].item] = "PENDING_EVIDENCE"]
    /\ UNCHANGED <<case, offer, tenancy, successor, log>>

\* markNoticeServed's transaction.
ServeWrite(p) ==
    LET k == req[p].case IN
    /\ req[p].op = "serve"
    /\ ActiveUnique(k)
    /\ Goto(p, "serve", IF req[p].target = "none" THEN "record" ELSE "moveRead")
    /\ notice' = [notice EXCEPT ![req[p].item] = "SERVED"]
    /\ case' = [case EXCEPT ![k].status = "NOTICE_SERVED"]
    /\ UNCHANGED <<offer, tenancy, successor, log, req>>

ServeRefused(p) ==
    /\ req[p].op = "serve"
    /\ ~ActiveUnique(req[p].case)
    /\ Leave(p, "serve")
    /\ UNCHANGED <<case, offer, notice, tenancy, successor, log>>

-----------------------------------------------------------------------------
Arrive(p) ==
    \/ \E t \in Tenancies : OpenRead(p, t) \/ \E s \in StaffTargets : SetStatus(p, t, s)
    \/ \E k \in Cases : MintRead(p, k) \/ \E op \in {"propose", "counter"} : Propose(p, k, op)
    \/ \E o \in Offers : Accept(p, o)
    \/ \E n \in Notices : ApproveRead(p, n) \/ ServeRead(p, n) \/ PendingRead(p, n)

Continue(p) ==
    \/ OpenCreate(p) \/ OpenLost(p)
    \/ ReadVersion(p) \/ InsertOffer(p) \/ VersionTaken(p) \/ PointCase(p) \/ PointRefused(p)
    \/ MoveRead(p) \/ MoveWrite(p)
    \/ Mint(p) \/ MintRefused(p)
    \/ ApproveWrite(p) \/ PendingWrite(p) \/ ServeWrite(p) \/ ServeRefused(p)
    \/ Record(p)

\* Handlers of one statement.
AtOnce == (\E n \in Notices : PrepareNotice(n)) \/ (\E t \in Tenancies : Archive(t))

Next ==
    \/ AtOnce /\ UNCHANGED died
    \/ \E p \in Requests : ((Arrive(p) \/ Continue(p)) /\ UNCHANGED died) \/ Fail(p)

Spec == Init /\ [][Next]_vars

-----------------------------------------------------------------------------
(* Properties *)

\* What is decided on a case is exactly its accepted offer, and a case is agreed
\* or renewed only with one: no proposal, notice or second acceptance that
\* overlaps undoes or doubles it.
DecisionStands ==
    \A k \in Cases :
        /\ \A o \in Offers :
            case[k].decided = o <=> (CaseOf[o] = k /\ offer[o].status = "ACCEPTED")
        /\ case[k].status \in {"AGREED", "RENEWED"} => case[k].decided # None
        /\ case[k].minted <=> successor[TenancyOf[k]] = k

\* The events of the loop that have happened.
Happened(e) ==
    \/ e[1] = "RENEWAL_ASSESSMENT_CREATED" /\ case[e[2]].status # "absent"
    \/ e[1] = "OFFER_ACCEPTED" /\ offer[e[2]].status = "ACCEPTED"
    \/ e[1] = "RENEWAL_COMPLETED" /\ case[e[2]].minted

Told == {e \in Events : e[1] # "NOTICE_SERVED"}

\* The timeline never tells an opening, an acceptance or a mint twice, and never
\* one that did not happen, whichever requests died.
TimelineTrue == \A e \in Told : log[e] <= IF Happened(e) THEN 1 ELSE 0

\* When no request is under way and none has died, the timeline tells all of
\* them: no race ends a handler between its writes and its evidence.
TimelineComplete ==
    (~died /\ \A p \in Requests : pc[p] = "idle") => \A e \in Told : Happened(e) => log[e] = 1

\* The timeline tells what happened to a case, truly and in full.
TimelineTold == TimelineTrue /\ TimelineComplete

\* What a step may do to a drafted notice, and when it may bring a case to
\* NOTICE_SERVED.
LeavesByApproval ==
    \A n \in Notices : notice[n] = "GENERATED" => notice'[n] \in {"GENERATED", "APPROVED"}
ServesApproved ==
    \A k \in Cases : case'[k].status = "NOTICE_SERVED" /\ case[k].status # "NOTICE_SERVED" =>
        \E n \in Notices : /\ CaseOfNotice[n] = k
                          /\ notice[n] \notin {"absent", "GENERATED"}
                          /\ notice'[n] = "SERVED"

\* Service is never asserted out of nothing: a drafted notice leaves GENERATED by
\* approval alone, and a case comes to NOTICE_SERVED only in the step that serves
\* one of its approved notices, however the reads of the requests have aged.
ServiceApproved == [][LeavesByApproval /\ ServesApproved]_vars

decisions == [k \in Cases |-> case[k].decided]
toldOf == {x \in Offers : log[<<"OFFER_ACCEPTED", x>>] > 0}
            \cup {x \in Cases : log[<<"RENEWAL_COMPLETED", x>>] > 0}

Promise == INSTANCE Agreement WITH decided <- decisions, told <- toldOf

\* The loop keeps the agreement it is there for: one decision per case, one
\* successor per tenancy and only after a decision, told only when true.
ImplementsAgreement == Promise!Spec

\* "Each transition is a single evidence row" (README.md:229-230): with no request
\* under way and none dead, a served notice has its one NOTICE_SERVED row.
ServedIsTold ==
    (~died /\ \A p \in Requests : pc[p] = "idle") =>
        \A n \in Notices : notice[n] = "SERVED" => log[<<"NOTICE_SERVED", n>>] = 1

=============================================================================
