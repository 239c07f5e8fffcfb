---------------------------- MODULE TenantLink ----------------------------
(***************************************************************************)
(* The tenant's side of one renewal case: an offer is sent as a link that  *)
(* may be used a few times, and the tenant accepts, counters or asks       *)
(* through it, or after signing in (sendOfferToTenant, getOfferForLink,    *)
(* applyTenantOfferResponse of renewals.ts; respondToOfferAction of the    *)
(* link and of the portal).  An answer through the link may opt in to      *)
(* messages; staff grants and revokes that consent too (consent.ts).  A    *)
(* step is a statement; any request may be cut off between two.            *)
(***************************************************************************)
EXTENDS SecureLinks, Sequences

CONSTANTS
    Offers,      \* ids an offer of the case may get
    OfferSent,   \* the offer each link is for, [Links -> Offers]
    Sent,        \* the offer that is open at the start
    Tenants,     \* requests of the tenant
    Staff,       \* requests of people in the workspace, apart from the tenant's
    MaxRecords,  \* bound: consent records
    Nothing      \* in place of an offer or a link

Requests == Tenants \cup Staff

TenantAssumption ==
    /\ OfferSent \in [Links -> Offers] /\ Sent \in Offers
    /\ Nothing \notin Offers \cup Links

VARIABLES
    offer,     \* Offer: status, version, party and viaSecureLinkId
    case,      \* RenewalCase: status, decidedOfferId and currentOfferId
    renewed,   \* Tenancy.status is RENEWED
    mailed,    \* links whose e-mail is queued
    pages,     \* links whose page is open at the tenant's
    tellings,  \* evidence rows of the tenant's answers: how often each was told
    consent,   \* ConsentRecord(MESSAGING) of the tenant: rows, and which are active
    word,      \* the last CONSENT_ row of the timeline
    at,        \* where each request is
    answer,    \* what each request was asked for and has made
    toldBy,    \* history: answers of each link on the timeline
    receipts,  \* history: answers the tenant was told are recorded
    refused,   \* history: uses of each link whose answer was refused
    cutShort,  \* history: links and requests by which a request was cut off
    crossed    \* history: a grant and a revocation were under way at once

offerVars == <<offer, case, renewed>>
timeline == <<tellings, toldBy>>
consentVars == <<consent, word, crossed>>
tenantVars == <<link, offerVars, mailed, pages, timeline, consentVars, at, answer, receipts, refused, cutShort>>

Actions == {"ACCEPT", "COUNTER", "ASK"}
Row(status, version, party, via) == [status |-> status, version |-> version, party |-> party, via |-> via]
Answer == [action : Actions \cup {"none"}, offer : Offers \cup {Nothing}, link : Links \cup {Nothing},
           optIn : BOOLEAN, made : Offers \cup {Nothing}, version : Nat]
NoAnswer == [action |-> "none", offer |-> Nothing, link |-> Nothing, optIn |-> FALSE, made |-> Nothing, version |-> 0]

Steps == {"idle", "mail", "consume", "apply", "renew", "version", "create", "negotiate", "tell",
          "optin", "optinWord", "grantWord", "revokeWord", "receipt"}

TenantTypeOK ==
    /\ LinkTypeOK
    /\ offer \in [Offers -> [status : {"absent", "SENT", "COUNTERED", "SUPERSEDED", "ACCEPTED"},
                             version : Nat, party : {"none", "LANDLORD", "TENANT"}, via : Links \cup {Nothing}]]
    /\ case \in [status : {"NEGOTIATING", "AGREED"}, decided : Offers \cup {Nothing}, current : Offers \cup {Nothing}]
    /\ renewed \in BOOLEAN /\ mailed \subseteq Links /\ pages \subseteq Links
    /\ tellings \in [Actions \X Offers -> Nat] /\ toldBy \in [Links -> Nat] /\ refused \in [Links -> Nat]
    /\ consent \in Seq(BOOLEAN) /\ word \in {"none", "GRANTED", "REVOKED"} /\ crossed \in BOOLEAN
    /\ at \in [Requests -> Steps] /\ answer \in [Requests -> Answer]
    /\ receipts \subseteq [by : Links \cup {Nothing}, is : Actions \X Offers]

TenantInit ==
    /\ LinkInit
    /\ offer = [o \in Offers |-> IF o = Sent THEN Row("SENT", 1, "LANDLORD", Nothing) ELSE Row("absent", 0, "none", Nothing)]
    /\ case = [status |-> "NEGOTIATING", decided |-> Nothing, current |-> Sent]
    /\ renewed = FALSE
    /\ mailed = {} /\ pages = {} /\ receipts = {} /\ cutShort = {} /\ crossed = FALSE
    /\ tellings = [e \in Actions \X Offers |-> 0]
    /\ consent = <<>> /\ word = "none"
    /\ at = [p \in Requests |-> "idle"] /\ answer = [p \in Requests |-> NoAnswer]
    /\ refused = [l \in Links |-> 0] /\ toldBy = [l \in Links |-> 0]

-----------------------------------------------------------------------------
Goto(p, from, to) == at[p] = from /\ at' = [at EXCEPT ![p] = to]
GoIdle(p, from) == Goto(p, from, "idle") /\ answer' = [answer EXCEPT ![p] = NoAnswer]

AbsentOffer(o) == offer[o].status = "absent"
IsOpen(o) == offer[o].status \in {"SENT", "COUNTERED"}

\* Between a record of consent and its word on the timeline.
Granting(p) == at[p] \in {"optinWord", "grantWord"}
Revoking(p) == at[p] = "revokeWord"

\* The request dies or the database fails it.
Die(p) ==
    /\ at[p] # "idle" /\ GoIdle(p, at[p])
    /\ cutShort' = cutShort \cup {answer[p].link} \cup (IF Granting(p) \/ Revoking(p) THEN {p} ELSE {})
    /\ UNCHANGED <<link, offerVars, mailed, pages, timeline, consentVars, receipts, refused>>

-----------------------------------------------------------------------------
(* sendOfferToTenant: whatever the status of the offer *)

MintOffer(p, l) ==
    /\ Goto(p, "idle", "mail") /\ Mint(l)
    /\ ~AbsentOffer(OfferSent[l])
    /\ answer' = [answer EXCEPT ![p] = [NoAnswer EXCEPT !.link = l]]
    /\ UNCHANGED <<offerVars, mailed, pages, timeline, consentVars, receipts, refused, cutShort>>

MailOffer(p) ==
    /\ GoIdle(p, "mail") /\ mailed' = mailed \cup {answer[p].link}
    /\ UNCHANGED <<link, offerVars, pages, timeline, consentVars, receipts, refused, cutShort>>

\* The page of a link renders for an open offer only and takes no use; the form on
\* it stays where it is, whatever becomes of the offer.
ShowsForm(l) == Usable(l) /\ IsOpen(OfferSent[l])

OpenOfferPage(l) ==
    /\ l \in mailed /\ ShowsForm(l)
    /\ pages' = pages \cup {l}
    /\ UNCHANGED <<link, offerVars, mailed, timeline, consentVars, at, answer, receipts, refused, cutShort>>

-----------------------------------------------------------------------------
(* An answer, through a link or after signing in *)

Begin(p, a, o, l, optIn, to) ==
    /\ Goto(p, "idle", to)
    /\ answer' = [answer EXCEPT ![p] = [action |-> a, offer |-> o, link |-> l, optIn |-> optIn,
                                        made |-> Nothing, version |-> 0]]
    /\ UNCHANGED <<link, offerVars, mailed, pages, timeline, consentVars, receipts, refused, cutShort>>

\* From a page that may be long out of date; the token is looked at again.
AnswerLink(p, l, a, optIn) ==
    /\ l \in pages /\ Usable(l)
    /\ Begin(p, a, OfferSent[l], l, optIn, "consume")

\* The portal's page offers an accept and a counter of what the landlord sent, and
\* may be out of date as well.
OnPortal(o, a) == a # "ASK" /\ offer[o].party = "LANDLORD"

AnswerSignedIn(p, o, a) ==
    /\ OnPortal(o, a)
    /\ Begin(p, a, o, Nothing, FALSE, "apply")

TakeUse(p) ==
    /\ Goto(p, "consume", "apply") /\ Consume(answer[p].link)
    /\ UNCHANGED <<offerVars, mailed, pages, timeline, consentVars, answer, receipts, refused, cutShort>>

NoUse(p) ==
    /\ GoIdle(p, "consume") /\ ~CanConsume(answer[p].link)
    /\ UNCHANGED <<link, offerVars, mailed, pages, timeline, consentVars, receipts, refused, cutShort>>

\* The answer throws after its use was taken.
Refuse(p, from) ==
    /\ GoIdle(p, from)
    /\ refused' = [l \in Links |-> refused[l] + IF l = answer[p].link THEN 1 ELSE 0]
    /\ UNCHANGED <<link, offerVars, mailed, pages, timeline, consentVars, receipts, cutShort>>

Supersede(S) == [o \in Offers |-> IF o \in S /\ IsOpen(o)
                                  THEN [offer[o] EXCEPT !.status = "SUPERSEDED"] ELSE offer[o]]

\* The claim, and the slip of claiming by id.
AnyStatus(o) == offer[o].status # "absent"
Acceptable(o) == IsOpen(o) /\ \A q \in Offers : offer[q].status # "ACCEPTED"

\* The transaction of ACCEPT: the guarded claim, its rivals, the case.
AcceptOffer(p) ==
    LET o == answer[p].offer IN
    /\ Goto(p, "apply", "renew") /\ answer[p].action = "ACCEPT" /\ Acceptable(o)
    /\ offer' = [Supersede(Offers \ {o}) EXCEPT ![o].status = "ACCEPTED"]
    /\ case' = [status |-> "AGREED", decided |-> o, current |-> o]
    /\ UNCHANGED <<link, renewed, mailed, pages, timeline, consentVars, answer, receipts, refused, cutShort>>

\* "This offer is no longer open", or the unique index of accepted offers.
AcceptRefused(p) == answer[p].action = "ACCEPT" /\ ~Acceptable(answer[p].offer) /\ Refuse(p, "apply")

RenewTenancy(p) ==
    /\ Goto(p, "renew", "tell") /\ renewed' = TRUE
    /\ UNCHANGED <<link, offer, case, mailed, pages, timeline, consentVars, answer, receipts, refused, cutShort>>

\* COUNTER asks nothing of the offer: what is open is superseded.
CounterOffer(p) ==
    /\ Goto(p, "apply", "version") /\ answer[p].action = "COUNTER"
    /\ offer' = Supersede(Offers)
    /\ UNCHANGED <<link, case, renewed, mailed, pages, timeline, consentVars, answer, receipts, refused, cutShort>>

\* A counter without a rent or a schedule.
CounterRefused(p) == answer[p].action = "COUNTER" /\ Refuse(p, "apply")

LastVersion == CHOOSE n \in {offer[o].version : o \in Offers} : \A o \in Offers : offer[o].version <= n

ReadVersion(p) ==
    /\ Goto(p, "version", "create")
    /\ answer' = [answer EXCEPT ![p].version = LastVersion + 1]
    /\ UNCHANGED <<link, offerVars, mailed, pages, timeline, consentVars, receipts, refused, cutShort>>

VersionFree(v) == \A o \in Offers : offer[o].version # v

CreateCounter(p) ==
    \E o \in Offers :
        /\ Goto(p, "create", "negotiate") /\ AbsentOffer(o) /\ VersionFree(answer[p].version)
        /\ offer' = [offer EXCEPT ![o] = Row("COUNTERED", answer[p].version, "TENANT", answer[p].link)]
        /\ answer' = [answer EXCEPT ![p].made = o]
        /\ UNCHANGED <<link, case, renewed, mailed, pages, timeline, consentVars, receipts, refused, cutShort>>

\* Another offer took the version: the row is refused, what was open stays superseded.
VersionTaken(p) == ~VersionFree(answer[p].version) /\ Refuse(p, "create")

Negotiate(p) ==
    /\ Goto(p, "negotiate", "tell")
    /\ case' = [case EXCEPT !.status = "NEGOTIATING", !.current = answer[p].made]
    /\ UNCHANGED <<link, offer, renewed, mailed, pages, timeline, consentVars, answer, receipts, refused, cutShort>>

Ask(p) ==
    /\ Goto(p, "apply", "tell") /\ answer[p].action = "ASK"
    /\ UNCHANGED <<link, offerVars, mailed, pages, timeline, consentVars, answer, receipts, refused, cutShort>>

\* What the evidence is about: the counter made, or else the offer answered.
Subject(p) == <<answer[p].action, IF answer[p].action = "COUNTER" THEN answer[p].made ELSE answer[p].offer>>

TellAnswer(p) ==
    /\ Goto(p, "tell", IF answer[p].optIn THEN "optin" ELSE "receipt")
    /\ tellings' = [tellings EXCEPT ![Subject(p)] = @ + 1]
    /\ toldBy' = [l \in Links |-> toldBy[l] + IF l = answer[p].link THEN 1 ELSE 0]
    /\ UNCHANGED <<link, offerVars, mailed, pages, consentVars, answer, receipts, refused, cutShort>>

\* The tenant reads what was recorded.
GiveReceipt(p) ==
    /\ GoIdle(p, "receipt")
    /\ receipts' = receipts \cup {[by |-> answer[p].link, is |-> Subject(p)]}
    /\ UNCHANGED <<link, offerVars, mailed, pages, timeline, consentVars, refused, cutShort>>

-----------------------------------------------------------------------------
(* Consent: a record, then its word on the timeline *)

Grants(p, from, to) ==
    /\ Goto(p, from, to) /\ Len(consent) < MaxRecords
    /\ consent' = Append(consent, TRUE)
    /\ crossed' = (crossed \/ \E q \in Requests : Revoking(q))
    /\ UNCHANGED <<link, offerVars, mailed, pages, timeline, word, answer, receipts, refused, cutShort>>

Says(p, w) ==
    /\ word' = w
    /\ UNCHANGED <<link, offerVars, mailed, pages, timeline, consent, crossed, receipts, refused, cutShort>>

\* recordLinkMessagingOptIn, after the answer; its failure never fails the answer.
OptIn(p) == Grants(p, "optin", "optinWord")
OptInWord(p) == Goto(p, "optinWord", "receipt") /\ UNCHANGED answer /\ Says(p, "GRANTED")
OptInFails(p) ==
    /\ Goto(p, at[p], "receipt") /\ at[p] \in {"optin", "optinWord"}
    /\ cutShort' = IF at[p] = "optinWord" THEN cutShort \cup {p} ELSE cutShort
    /\ UNCHANGED <<link, offerVars, mailed, pages, timeline, consentVars, answer, receipts, refused>>

\* grantMessagingConsent
Grant(p) == Grants(p, "idle", "grantWord")
GrantWord(p) == GoIdle(p, "grantWord") /\ Says(p, "GRANTED")

\* hasActiveMessagingConsent
HasConsent == \E n \in DOMAIN consent : consent[n]

\* A slip: revoke the latest record only.
LatestOnly == [n \in DOMAIN consent |-> consent[n] /\ n # Len(consent)]
AllRevoked == [n \in DOMAIN consent |-> FALSE]

\* revokeMessagingConsent
Revoke(p) ==
    /\ Goto(p, "idle", "revokeWord")
    /\ consent' = AllRevoked
    /\ crossed' = (crossed \/ \E q \in Requests : Granting(q))
    /\ UNCHANGED <<link, offerVars, mailed, pages, timeline, word, answer, receipts, refused, cutShort>>
RevokeWord(p) == GoIdle(p, "revokeWord") /\ Says(p, "REVOKED")

-----------------------------------------------------------------------------
(* What happens around them *)

\* A newer offer of the landlord takes the place of what is open (proposeOffer).
Propose ==
    \E o \in Offers :
        /\ AbsentOffer(o)
        /\ offer' = [Supersede(Offers) EXCEPT ![o] = Row("SENT", LastVersion + 1, "LANDLORD", Nothing)]
        /\ case' = [case EXCEPT !.status = "NEGOTIATING", !.current = o]
        /\ UNCHANGED <<link, renewed, mailed, pages, timeline, consentVars, at, answer, receipts, refused, cutShort>>

LinkEnds(l) ==
    /\ link[l].minted /\ ~link[l].ended /\ End({l})
    /\ UNCHANGED <<offerVars, mailed, pages, timeline, consentVars, at, answer, receipts, refused, cutShort>>

TenantStep(p) ==
    \/ \E l \in Links, a \in Actions, optIn \in BOOLEAN : AnswerLink(p, l, a, optIn)
    \/ \E o \in Offers, a \in Actions : AnswerSignedIn(p, o, a)
    \/ TakeUse(p) \/ NoUse(p) \/ AcceptOffer(p) \/ AcceptRefused(p) \/ RenewTenancy(p)
    \/ CounterOffer(p) \/ CounterRefused(p) \/ ReadVersion(p) \/ CreateCounter(p) \/ VersionTaken(p) \/ Negotiate(p) \/ Ask(p)
    \/ TellAnswer(p) \/ OptIn(p) \/ OptInWord(p) \/ OptInFails(p) \/ GiveReceipt(p)

StaffStep(p) ==
    \/ \E l \in Links : MintOffer(p, l)
    \/ MailOffer(p) \/ Grant(p) \/ GrantWord(p) \/ Revoke(p) \/ RevokeWord(p)

TenantNext ==
    \/ \E p \in Tenants : TenantStep(p)
    \/ \E p \in Staff : StaffStep(p)
    \/ \E p \in Requests : Die(p)
    \/ \E l \in Links : OpenOfferPage(l) \/ LinkEnds(l)
    \/ Propose

TenantSpec == TenantInit /\ [][TenantNext]_tenantVars

-----------------------------------------------------------------------------
(* Properties *)

Working(p) == at[p] \in {"apply", "renew", "version", "create", "negotiate", "tell"}
LinkAtRest(l) == l \notin cutShort /\ \A p \in Tenants : Working(p) => answer[p].link # l

\* A link pays for every answer given through it, and for nothing else but answers
\* that were refused; an acceptance is told once; and what the tenant was told is
\* recorded is on the timeline and stands, whatever else was answered, proposed or
\* used up meanwhile (renewals.ts:1229-1243, secureLinks.ts:74-92).
AnswersKept ==
    /\ \A l \in Links :
        /\ toldBy[l] + refused[l] <= link[l].uses /\ link[l].uses <= MaxUses[l]
        /\ LinkAtRest(l) => link[l].uses = toldBy[l] + refused[l]
    /\ \A o \in Offers : tellings[<<"ACCEPT", o>>] <= IF offer[o].status = "ACCEPTED" THEN 1 ELSE 0
    /\ \A r \in receipts :
        /\ tellings[r.is] > 0
        /\ r.is[1] = "ACCEPT" => offer[r.is[2]].status = "ACCEPTED" /\ case.decided = r.is[2]
        /\ r.is[1] = "COUNTER" => offer[r.is[2]].party = "TENANT" /\ offer[r.is[2]].via = r.by

\* Once nobody is at work on it, the last word of the timeline on a tenant's consent
\* is what the gate of delivery will find, through grants, opt-ins and revocations
\* in any order, unless a grant and a revocation met or one was cut off between
\* record and word (consent.ts:36-125).
ConsentHeld ==
    (~crossed /\ cutShort \cap Requests = {} /\ \A p \in Requests : ~Granting(p) /\ ~Revoking(p))
        => (HasConsent <=> word = "GRANTED")
=============================================================================
