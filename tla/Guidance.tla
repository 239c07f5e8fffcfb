------------------------------ MODULE Guidance ------------------------------
(***************************************************************************)
(* What the desk is told to do next about a renewal.  The page of one      *)
(* tenancy (getRenewalRisk, getRenewalWorkspace) and its row in the        *)
(* pipeline (listRenewalPipeline) each pick a case, a notice, an offer and *)
(* an index figure of their own, and both ask deriveRenewalNextAction; the *)
(* page shows the forms of that action and no others.  The loop itself is  *)
(* Renewals', whose steps are joined here with what the pickers go by.     *)
(*                                                                         *)
(* The viewer has renewals.write and renewals.decide.  The statuses        *)
(* DECLINED, LAPSED and WITHDRAWN, which nothing writes, have no rule.     *)
(***************************************************************************)
EXTENDS Renewals, Sequences

VARIABLES
    newest,     \* per tenancy: the case created last
    touched,    \* per tenancy: the case written last
    drawn,      \* per case: the notice created last
    party,      \* per offer: who made it
    sent,       \* offers with a link for the tenant
    figure,     \* per tenancy: its latest capture, if any
    benchmark,  \* tenancies whose building or community has a benchmark
    passed,     \* tenancies whose notice gate has passed
    strayed     \* history: tenancies that came off the path, see Strays

guideVars == <<newest, touched, drawn, party, sent, figure, benchmark, passed, strayed>>

Figures == {"none", "provisional", "official"}

GuideTypeOK ==
    /\ newest \in [Tenancies -> Cases \cup {None}] /\ touched \in [Tenancies -> Cases \cup {None}]
    /\ drawn \in [Cases -> Notices \cup {None}]
    /\ party \in [Offers -> {"LANDLORD", "TENANT"}] /\ sent \subseteq Offers
    /\ figure \in [Tenancies -> Figures]
    /\ benchmark \subseteq Tenancies /\ passed \subseteq Tenancies /\ strayed \subseteq Tenancies

GuideInit(f) ==
    /\ newest = [t \in Tenancies |-> None] /\ touched = [t \in Tenancies |-> None]
    /\ drawn = [k \in Cases |-> None]
    /\ party = [o \in Offers |-> "LANDLORD"] /\ sent = {}
    /\ figure = [t \in Tenancies |-> f]
    /\ benchmark = {} /\ passed = {} /\ strayed = {}

-----------------------------------------------------------------------------
(* The steps of the loop, with createdAt, updatedAt and party *)

Touch(k) == touched' = [touched EXCEPT ![TenancyOf[k]] = k]

\* Terms are decided already, or the tenancy has been renewed: what a request does
\* to it now no page asked for.
Strays(k, decided) ==
    strayed' = strayed \cup (IF decided THEN {TenancyOf[k]} ELSE {})

Opens(p) ==
    /\ OpenCreate(p)
    /\ LET k == req'[p].case IN
        /\ newest' = [newest EXCEPT ![TenancyOf[k]] = k]
        /\ Touch(k) /\ Strays(k, successor[TenancyOf[k]] # None)
    /\ UNCHANGED <<drawn, party, sent, figure, benchmark, passed>>

\* A tenant counters; staff propose for the landlord or record what the tenant said.
Inserts(p) ==
    /\ InsertOffer(p)
    /\ \E side \in IF req[p].op = "counter" THEN {"TENANT"} ELSE {"LANDLORD", "TENANT"} :
        party' = [party EXCEPT ![req'[p].item] = side]
    /\ UNCHANGED <<newest, touched, drawn, sent, figure, benchmark, passed, strayed>>

Rewrites(p) ==
    /\ PointCase(p) \/ ServeWrite(p)
    /\ LET k == req[p].case IN Touch(k) /\ Strays(k, case[k].decided # None)
    /\ UNCHANGED <<newest, drawn, party, sent, figure, benchmark, passed>>

Decides(p) ==
    /\ \/ \E o \in Offers : Accept(p, o) /\ Touch(CaseOf[o])
       \/ Mint(p) /\ Touch(req[p].case)
    /\ UNCHANGED <<newest, drawn, party, sent, figure, benchmark, passed, strayed>>

Draws(n) ==
    /\ PrepareNotice(n)
    /\ drawn' = [drawn EXCEPT ![CaseOfNotice[n]] = n]
    /\ UNCHANGED <<newest, touched, party, sent, figure, benchmark, passed, strayed>>

\* The steps that the pickers do not look at.
Goes(p) ==
    /\ \/ \E t \in Tenancies : OpenRead(p, t) \/ \E s \in StaffTargets : SetStatus(p, t, s)
       \/ \E k \in Cases : MintRead(p, k) \/ \E op \in {"propose", "counter"} : Propose(p, k, op)
       \/ \E n \in Notices : ApproveRead(p, n) \/ ServeRead(p, n) \/ PendingRead(p, n)
       \/ OpenLost(p) \/ ReadVersion(p) \/ VersionTaken(p) \/ PointRefused(p)
       \/ MoveRead(p) \/ MoveWrite(p) \/ MintRefused(p)
       \/ ApproveWrite(p) \/ PendingWrite(p) \/ ServeRefused(p) \/ Record(p)
    /\ UNCHANGED guideVars

-----------------------------------------------------------------------------
(* sendOfferToTenant, captureRentIndex, captureBenchmark and the calendar *)

\* Any offer: its status is not looked at.
SendOffer(o) ==
    /\ offer[o].status # "absent" /\ sent' = sent \cup {o}
    /\ UNCHANGED <<newest, touched, drawn, party, figure, benchmark, passed, strayed>>

\* The date of a capture is entered: a new one need not be the latest.
CaptureIndex(t, f) ==
    /\ f \in Figures \ {"none"}
    /\ figure' = [figure EXCEPT ![t] = f]
    /\ UNCHANGED <<newest, touched, drawn, party, sent, benchmark, passed, strayed>>

CaptureBenchmark(t) ==
    /\ benchmark' = benchmark \cup {t}
    /\ UNCHANGED <<newest, touched, drawn, party, sent, figure, passed, strayed>>

\* The day comes, or the end of the tenancy is corrected.
MoveGate(t) ==
    /\ passed' = IF t \in passed THEN passed \ {t} ELSE passed \cup {t}
    /\ UNCHANGED <<newest, touched, drawn, party, sent, figure, benchmark, strayed>>

Beside ==
    \/ \E o \in Offers : SendOffer(o)
    \/ \E t \in Tenancies : CaptureBenchmark(t) \/ MoveGate(t) \/ \E f \in Figures : CaptureIndex(t, f)

GuidedNext ==
    \/ Beside /\ UNCHANGED vars
    \/ (\E n \in Notices : Draws(n)) /\ UNCHANGED died
    \/ (\E t \in Tenancies : Archive(t)) /\ UNCHANGED <<died, guideVars>>
    \/ \E p \in Requests :
        \/ (Opens(p) \/ Inserts(p) \/ Rewrites(p) \/ Decides(p) \/ Goes(p)) /\ UNCHANGED died
        \/ Fail(p) /\ UNCHANGED guideVars

GuidedInit == Init /\ \E f \in Figures : GuideInit(f)
GuidedSpec == GuidedInit /\ [][GuidedNext]_<<vars, guideVars>>

-----------------------------------------------------------------------------
(* deriveRenewalNextAction *)

\* The first rule whose condition holds gives the action.
Rules(i) ==
    << <<i.renewed \/ i.case = "RENEWED",               "REVIEW_COMPLETED_CASE">>,
       <<i.notice = "PENDING_EVIDENCE",                 "ADD_SERVICE_EVIDENCE">>,
       <<i.gatePassed /\ i.notice # "SERVED",           "REVIEW_CASE">>,
       <<i.index = "none",                              "CAPTURE_INDEX">>,
       <<i.index = "provisional",                       "VERIFY_INDEX_SOURCE">>,
       <<i.case = "absent",                             "OPEN_CASE">>,
       <<i.notice \in {"absent", "GENERATED", "APPROVED"}, "SERVE_NOTICE">>,
       <<i.accepted \/ i.case = "AGREED",               "COMPLETE_RENEWAL">>,
       <<i.offer = "absent",                            "PREPARE_TERMS">>,
       <<i.party = "TENANT" /\ i.offer = "OPEN",        "REVIEW_COUNTER">>,
       <<i.party = "LANDLORD" /\ i.offer = "OPEN" /\ ~i.sent, "SEND_OFFER">>,
       <<i.party = "LANDLORD" /\ i.offer = "OPEN",      "AWAIT_TENANT">>,
       <<TRUE,                                          "REVIEW_CASE">> >>

deriveRenewalNextAction(i) ==
    LET rules == Rules(i)
        first == CHOOSE n \in DOMAIN rules : rules[n][1] /\ \A m \in 1..(n - 1) : ~rules[m][1] IN
    rules[first][2]

OffersOf(k) == {o \in Offers : CaseOf[o] = k /\ offer[o].status # "absent"}
\* Of the ordered versions the last, and the slip of taking the first.
FirstOffer(k) == CHOOSE o \in OffersOf(k) : \A q \in OffersOf(k) : offer[o].version <= offer[q].version
LatestOffer(k) == CHOOSE o \in OffersOf(k) : \A q \in OffersOf(k) : offer[q].version <= offer[o].version

\* What both views hand over about the case they picked, if there is one.
About(t, k, index) ==
    LET made == k # None /\ OffersOf(k) # {} IN
    [case       |-> IF k = None THEN "absent" ELSE case[k].status,
     notice     |-> IF k = None \/ drawn[k] = None THEN "absent" ELSE notice[drawn[k]],
     offer      |-> IF made THEN offer[LatestOffer(k)].status ELSE "absent",
     party      |-> IF made THEN party[LatestOffer(k)] ELSE "none",
     sent       |-> made /\ LatestOffer(k) \in sent,
     accepted   |-> made /\ \E o \in OffersOf(k) : offer[o].status = "ACCEPTED",
     renewed    |-> k # None /\ case[k].minted,
     index      |-> index,
     gatePassed |-> t \in passed]

-----------------------------------------------------------------------------
(* The page and the pipeline *)

\* The capture of the tenancy, or else the benchmark of its building or community.
resolveEffectiveIndex(t) ==
    IF figure[t] = "none" /\ t \in benchmark THEN "official" ELSE figure[t]

\* The case by createdAt.
getRenewalRisk(t) == About(t, newest[t], resolveEffectiveIndex(t))

\* A slip: a benchmark that stays as provisional as a missing capture.
NoBenchmark(t) == figure[t]
RowIndex(t) == IF t \in benchmark /\ figure[t] = "none" THEN "official" ELSE figure[t]

\* The case by updatedAt; archived tenancies are not listed.
Listed == {t \in Tenancies : tenancy[t] # "ARCHIVED"}
listRenewalPipeline(t) == About(t, touched[t], RowIndex(t))

-----------------------------------------------------------------------------
(* The forms of the page: what each asks of the service, and of which row *)

nextAction(t) == deriveRenewalNextAction(getRenewalRisk(t))

NoticeServiceCard(k) ==
    CASE drawn[k] # None /\ notice[drawn[k]] = "SERVED"           -> {}
      [] drawn[k] # None /\ notice[drawn[k]] = "PENDING_EVIDENCE" -> {<<"confirm", drawn[k]>>}
      [] OTHER                                                   -> {<<"serve", k>>}

ActiveTask(t) ==
    LET code == nextAction(t) IN
    CASE code \in {"CAPTURE_INDEX", "VERIFY_INDEX_SOURCE"} -> {<<"capture", t>>}
      [] code = "OPEN_CASE" -> {<<"open", t>>}
      [] code \in {"SERVE_NOTICE", "ADD_SERVICE_EVIDENCE"} /\ newest[t] # None ->
            NoticeServiceCard(newest[t])
      [] OTHER -> {}

\* Forms on the latest offer, and the two beneath the table.
TermsView(t) ==
    LET k == newest[t]  code == nextAction(t) IN
    IF k = None THEN {} ELSE
        CASE code = "PREPARE_TERMS"  -> {<<"propose", k>>}
          [] code = "REVIEW_COUNTER" -> {<<"propose", k>>, <<"accept", LatestOffer(k)>>}
          [] code = "SEND_OFFER"     -> {<<"send", LatestOffer(k)>>}
          [] code = "COMPLETE_RENEWAL" /\ (\E o \in OffersOf(k) : offer[o].status = "ACCEPTED") ->
                {<<"mint", k>>}
          [] OTHER -> {}

\* Where "Go to current task" leads.
TERMS_ACTIONS == {"PREPARE_TERMS", "SEND_OFFER", "AWAIT_TENANT", "REVIEW_COUNTER", "COMPLETE_RENEWAL"}
actionView(t) ==
    CASE nextAction(t) \in TERMS_ACTIONS           -> TermsView(t)
      [] nextAction(t) = "REVIEW_COMPLETED_CASE"   -> {}
      [] OTHER                                     -> ActiveTask(t)

\* deriveRenewalTaskPath: the tasks in order, the one the action stands for, and
\* those the facts call completed.
Tasks == <<"ASSESS_SOURCE", "OPEN_CASE", "SERVE_NOTICE", "PROVE_SERVICE", "PROPOSE_TERMS",
           "SEND_TERMS", "RECORD_RESPONSE", "COMPLETE_RENEWAL">>
ACTION_TASK == [PREPARE_TERMS |-> "PROPOSE_TERMS", SEND_OFFER |-> "SEND_TERMS",
                AWAIT_TENANT |-> "RECORD_RESPONSE", REVIEW_COUNTER |-> "RECORD_RESPONSE",
                COMPLETE_RENEWAL |-> "COMPLETE_RENEWAL"]
Completed(t) ==
    LET i == getRenewalRisk(t)
        offers == IF newest[t] = None THEN {} ELSE OffersOf(newest[t])
        response == \E o \in offers : party[o] = "TENANT" \/ offer[o].status = "ACCEPTED"
        delivered == response \/ offers \cap sent # {}
        facts == [ASSESS_SOURCE    |-> i.index = "official",
                  OPEN_CASE        |-> i.case # "absent",
                  SERVE_NOTICE     |-> i.notice = "SERVED",
                  PROVE_SERVICE    |-> i.notice = "SERVED",
                  PROPOSE_TERMS    |-> response \/ \E o \in offers : party[o] = "LANDLORD",
                  SEND_TERMS       |-> delivered,
                  RECORD_RESPONSE  |-> response,
                  COMPLETE_RENEWAL |-> i.renewed] IN
    {task \in DOMAIN facts : facts[task]}

-----------------------------------------------------------------------------
(* Properties *)

\* The pipeline and the page tell the same next step of a listed tenancy, at
\* every moment, though one goes by the case written last and the other by the
\* case created last (renewals.ts:414-527, 563-740).
ViewsAgree ==
    \A t \in Listed : deriveRenewalNextAction(listRenewalPipeline(t)) = nextAction(t)

\* What the service makes of the form, sent now.
Works(form) ==
    LET x == form[2] IN
    CASE form[1] = "open"              -> \A k \in Cases : TenancyOf[k] = x => ~Live(k)
      [] form[1] \in {"serve", "propose"} -> ActiveUnique(x)
      [] form[1] = "confirm"           -> notice[x] = "PENDING_EVIDENCE" /\ ActiveUnique(CaseOfNotice[x])
      [] form[1] = "accept"            -> CanAccept(x) /\ ActiveUnique(CaseOf[x])
      [] form[1] = "mint"              -> StillAgreed(x) /\ successor[TenancyOf[x]] = None
      [] OTHER                         -> TRUE

Before(task) ==
    LET n == CHOOSE n \in DOMAIN Tasks : Tasks[n] = task IN {Tasks[m] : m \in 1..(n - 1)}

\* With no request under way and none dead, the page leads on: where its current
\* task is there is a form, and each form there is one the service takes; a tenant
\* who is waited for can accept; the tasks before the one at hand are done; and
\* only a gate that passed unserved leaves nothing but a review.  Off the path it
\* does not: a notice served or terms proposed after the acceptance, or a case
\* opened after the renewal, leave a COMPLETE_RENEWAL that the mint refuses
\* (renewalNextAction.ts:54-217, page.tsx:238-478, renewals.ts:1298-1330).
PageLeadsOn ==
    (~died /\ \A p \in Requests : pc[p] = "idle") =>
        \A t \in Tenancies \ strayed :
            LET code == nextAction(t) IN
            /\ \A form \in actionView(t) : Works(form)
            /\ actionView(t) = {} => code \in {"AWAIT_TENANT", "REVIEW_CASE", "REVIEW_COMPLETED_CASE"}
            /\ code = "AWAIT_TENANT" => Works(<<"accept", LatestOffer(newest[t])>>)
            /\ code = "REVIEW_CASE" => t \in passed /\ getRenewalRisk(t).notice # "SERVED"
            /\ code \in DOMAIN ACTION_TASK => Before(ACTION_TASK[code]) \subseteq Completed(t)

=============================================================================
