----------------------------- MODULE Chronology -----------------------------
(***************************************************************************)
(* The evidence of a tenancy, read back (evidenceQuery.ts,                 *)
(* evidenceReadModel.ts, evidencePack.ts).  Events are only ever appended, *)
(* each under the scope its writer stamps on it; which of them belong to a *)
(* tenancy is worked out at every read from the records that exist then.   *)
(* The evidence page reads them a page at a time; the pack reads them all  *)
(* and adds the tenancy's documents.  A record and its event are one step  *)
(* here; deaths between the two are the matter of the writers' modules.    *)
(***************************************************************************)
EXTENDS Integers, Sequences, FiniteSets

CONSTANTS
    None,
    Tenancies, PropertyOf,      \* tenancies, and the property of each
    CaseOf,                     \* per renewal case: its tenancy
    OfferOf,                    \* per offer: its case
    ItemOf,                     \* per payment item: its tenancy
    Proofs, Papers,             \* proof requests and documents that can be made
    Readers,                    \* users paging through, or exporting, one tenancy's evidence
    PageSize,                   \* 40 on the page, 100 in print and on the case's page
    MaxEvents                   \* bound on the ledger

ASSUME PagingAssumption == PageSize \in Nat \ {0} /\ MaxEvents \in Nat

VARIABLES
    rows,       \* scopes whose record exists: cases, offers, payment items
    moved,      \* payment items past SCHEDULED
    scopeOf,    \* per proof request and document: its scope, None before it is made
    events,     \* EvidenceEvent, by createdAt: scope, tenancyId and, for the reader of
                \* this module, the tenancies the event is about
    exported,   \* DocumentAccessLog: documents with an EXPORTED entry
    reader,     \* per reader: what it does and has read
    packs       \* packs handed out: tenancy, documents, number of events

chronologyVars == <<rows, moved, scopeOf, events, exported, reader, packs>>
records == <<rows, moved, scopeOf>>

Cases == DOMAIN CaseOf
Scope(type, id) == <<type, id>>

\* Scopes of records, and those a proof request or a document may be on.
RecordScopes == {"RENEWAL_CASE"} \X Cases \cup {"OFFER"} \X DOMAIN OfferOf
                    \cup {"PAYMENT_ITEM"} \X DOMAIN ItemOf
Places == RecordScopes \cup {"TENANCY"} \X Tenancies \cup {"PROPERTY"} \X {PropertyOf[t] : t \in Tenancies}

ASSUME ChronologyAssumption ==
    /\ None \notin Tenancies \cup Places \cup {"PROOF_REQUEST"} \X Proofs
    /\ Proofs \cap Papers = {}
    /\ CaseOf \in [Cases -> Tenancies] /\ OfferOf \in [DOMAIN OfferOf -> Cases]
    /\ ItemOf \in [DOMAIN ItemOf -> Tenancies]
Made == {x \in Proofs \cup Papers : scopeOf[x] # None}
Away == [at |-> "away", of |-> None, had |-> {}, seen |-> {}, page |-> 0, pages |-> 0,
         refs |-> {}, found |-> {}, papers |-> {}, todo |-> {}, shifted |-> FALSE]

ChronologyInit ==
    /\ rows = {} /\ moved = {} /\ scopeOf = [x \in Proofs \cup Papers |-> None]
    /\ events = <<>> /\ exported = {} /\ packs = {} /\ reader = [r \in Readers |-> Away]

\* The tenancies a record is about, whatever the readers make of it.
About(scope) ==
    LET Direct(s) == CASE s[1] = "TENANCY" -> {s[2]}
                       [] s[1] = "RENEWAL_CASE" -> {CaseOf[s[2]]}
                       [] s[1] = "OFFER" -> {CaseOf[OfferOf[s[2]]]}
                       [] s[1] = "PAYMENT_ITEM" -> {ItemOf[s[2]]}
                       [] OTHER -> {}
    IN  IF scope[1] = "PROOF_REQUEST" THEN Direct(scopeOf[scope[2]]) ELSE Direct(scope)

-----------------------------------------------------------------------------
(* What the readers work out *)

\* The scopes a tenancy's events may carry: its own, its cases', their offers', its
\* payment items', and the proof requests' on any of those but an offer.
PageRefs(t) ==
    LET own == {Scope("TENANCY", t)} \cup {s \in rows : s[1] # "OFFER" /\ t \in About(s)}
    IN  own \cup {s \in rows : s[1] = "OFFER" /\ t \in About(s)}
            \cup {Scope("PROOF_REQUEST", x) : x \in {y \in Proofs \cap Made : scopeOf[y] \in own}}

\* listEvidenceForTenancy takes the proof requests on the property too.
PackRefs(t) ==
    PageRefs(t) \cup {Scope("PROOF_REQUEST", x) :
                        x \in {y \in Proofs \cap Made : scopeOf[y] = Scope("PROPERTY", PropertyOf[t])}}

StampOnly(e, t, refs) == e.tenancy = t \/ e.scope = Scope("TENANCY", t)
Matches(e, t, refs) == e.tenancy = t \/ e.scope \in refs
Timeline(t, refs) == {n \in DOMAIN events : Matches(events[n], t, refs)}

\* Documents of the tenancy, its cases and their proof requests; a payment item's
\* receipt is not in the manifest.
Manifest(t) ==
    {d \in Papers \cap Made :
        scopeOf[d] \in {s \in PackRefs(t) : s[1] \notin {"OFFER", "PAYMENT_ITEM"}}}

-----------------------------------------------------------------------------
(* The writers *)

\* Readers whose page changes under them: on its last page between count and rows.
Later(e) ==
    [r \in Readers |->
        LET o == reader[r]
        IN  IF o.at = "rows" /\ o.page = o.pages /\ Matches(e, o.of, o.refs)
            THEN [o EXCEPT !.shifted = TRUE] ELSE o]

Tell(scope, tenancy, about) ==
    LET e == [scope |-> scope, tenancy |-> tenancy, about |-> about]
    IN  /\ Len(events) < MaxEvents /\ events' = Append(events, e)
        /\ reader' = Later(e) /\ UNCHANGED <<exported, packs>>

OpenCase(k) ==
    LET s == Scope("RENEWAL_CASE", k)
    IN  /\ s \notin rows /\ rows' = rows \cup {s}
        /\ Tell(s, CaseOf[k], {CaseOf[k]}) /\ UNCHANGED <<moved, scopeOf>>

\* The completion points at the successor, under the predecessor's case.
CompleteRenewal(k, u) ==
    LET s == Scope("RENEWAL_CASE", k)
    IN  /\ s \in rows /\ u # CaseOf[k] /\ PropertyOf[u] = PropertyOf[CaseOf[k]]
        /\ \A n \in DOMAIN events : events[n].scope = s => events[n].tenancy # u
        /\ Tell(s, u, {u, CaseOf[k]}) /\ UNCHANGED records

ProposeOffer(o) ==
    LET s == Scope("OFFER", o)
        k == OfferOf[o]
    IN  /\ s \notin rows /\ Scope("RENEWAL_CASE", k) \in rows /\ rows' = rows \cup {s}
        /\ Tell(s, CaseOf[k], {CaseOf[k]}) /\ UNCHANGED <<moved, scopeOf>>

\* The items still SCHEDULED are deleted; what is filed under them stays filed.
SetPaymentSchedule(t, new) ==
    LET Of(i) == ItemOf[i] = t
        old == {s \in rows : s[1] = "PAYMENT_ITEM" /\ Of(s[2]) /\ s[2] \notin moved}
    IN  /\ \A i \in new : Of(i) /\ Scope("PAYMENT_ITEM", i) \notin rows
                          /\ \A x \in Made : scopeOf[x] # Scope("PAYMENT_ITEM", i)
        /\ rows' = (rows \ old) \cup {Scope("PAYMENT_ITEM", i) : i \in new}
        /\ reader' = [r \in Readers |-> IF reader[r].at \in {"count", "rows"} /\ old # {}
                                        THEN [reader[r] EXCEPT !.shifted = TRUE] ELSE reader[r]]
        /\ UNCHANGED <<moved, scopeOf, events, exported, packs>>

\* The moves to LATE and to CANCELLED leave no event.
TransitionPayment(i) ==
    LET s == Scope("PAYMENT_ITEM", i)
    IN  /\ s \in rows /\ moved' = moved \cup {i}
        /\ Tell(s, ItemOf[i], {ItemOf[i]}) \/ UNCHANGED <<events, reader, exported, packs>>
        /\ UNCHANGED <<rows, scopeOf>>

Filable == rows \cup {Scope("TENANCY", t) : t \in Tenancies}
                \cup {Scope("PROPERTY", PropertyOf[t]) : t \in Tenancies}

CreateProofRequest(x, scope) ==
    /\ scopeOf[x] = None /\ scope \in Filable
    /\ scopeOf' = [scopeOf EXCEPT ![x] = scope]
    /\ Tell(Scope("PROOF_REQUEST", x), None, About(scope)) /\ UNCHANGED <<rows, moved>>

\* Its uploads and its decision carry the request alone.
ProofEvent(x) ==
    /\ scopeOf[x] # None
    /\ Tell(Scope("PROOF_REQUEST", x), None, About(Scope("PROOF_REQUEST", x)))
    /\ UNCHANGED records

\* By staff under the scope named, without a tenancy; by a tenant or for a handover
\* under the tenancy, with it.
UploadPaper(d, scope, tenancy) ==
    /\ scopeOf[d] = None /\ scope \in Filable
    /\ tenancy = None \/ scope = Scope("TENANCY", tenancy)
    /\ scopeOf' = [scopeOf EXCEPT ![d] = scope]
    /\ Tell(scope, tenancy, About(scope)) /\ UNCHANGED <<rows, moved>>

\* A file sent through a proof request's link.
LinkPaper(d, x) ==
    /\ scopeOf[d] = None /\ scopeOf[x] # None
    /\ scopeOf' = [scopeOf EXCEPT ![d] = Scope("PROOF_REQUEST", x)]
    /\ Tell(Scope("PROOF_REQUEST", x), None, About(Scope("PROOF_REQUEST", x)))
    /\ UNCHANGED <<rows, moved>>

ViewPaymentReceipt(d) ==
    /\ scopeOf[d] # None /\ scopeOf[d][1] = "PAYMENT_ITEM"
    /\ Tell(scopeOf[d], None, About(scopeOf[d])) /\ UNCHANGED records

-----------------------------------------------------------------------------
(* The evidence page: newest first, one request a page *)

Reads(r, to) == reader' = [reader EXCEPT ![r] = to] /\ UNCHANGED <<records, events, exported, packs>>
Pages(total) == IF total = 0 THEN 1 ELSE (total + PageSize - 1) \div PageSize
LeastOf(a, b) == IF a < b THEN a ELSE b

OpenTimeline(r, t) ==
    /\ reader[r].at = "away"
    /\ Reads(r, [Away EXCEPT !.at = "count", !.of = t, !.had = Timeline(t, PageRefs(t)), !.page = 1])

\* evidencePageWhere and the count, then the rows of a page the count has bounded.
CountPages(r) ==
    LET o == reader[r]
        pages == Pages(Cardinality(Timeline(o.of, PageRefs(o.of))))
    IN  /\ o.at = "count"
        /\ Reads(r, [o EXCEPT !.at = "rows", !.refs = PageRefs(o.of), !.pages = pages,
                              !.page = LeastOf(o.page, pages)])

AfterRow(page) == page * PageSize + 1
FirstRow(page) == (page - 1) * PageSize + 1

ReadRows(r) ==
    LET o == reader[r]
        listed == Timeline(o.of, o.refs)
        Rank(n) == Cardinality({m \in listed : m >= n})
        onPage == {n \in listed : Rank(n) >= FirstRow(o.page) /\ Rank(n) <= o.page * PageSize}
    IN  /\ o.at = "rows"
        /\ Reads(r, [o EXCEPT !.seen = @ \cup onPage, !.page = @ + 1,
                              !.at = IF o.page < o.pages THEN "count" ELSE "read"])

CloseTimeline(r) == reader[r].at = "read" /\ Reads(r, Away)

-----------------------------------------------------------------------------
(* exportEvidencePack *)

BuildPack(r, t) ==
    /\ reader[r].at = "away"
    /\ Reads(r, [Away EXCEPT !.at = "log", !.of = t, !.found = Timeline(t, PackRefs(t)),
                             !.papers = Manifest(t), !.todo = Manifest(t)])

LogExport(r, d) ==
    LET o == reader[r]
    IN  /\ o.at = "log" /\ d \in o.todo
        /\ reader' = [reader EXCEPT ![r].todo = @ \ {d}]
        /\ exported' = exported \cup {d} /\ UNCHANGED <<records, events, packs>>

LoggedAll(r) == reader[r].todo = {}

TellExport(r) ==
    LET o == reader[r]
        s == Scope("TENANCY", o.of)
        e == [scope |-> s, tenancy |-> o.of, about |-> {o.of}]
    IN  /\ o.at = "log" /\ LoggedAll(r)
        /\ Len(events) < MaxEvents /\ events' = Append(events, e)
        /\ reader' = [Later(e) EXCEPT ![r] = Away]
        /\ packs' = packs \cup {[of |-> o.of, papers |-> o.papers, found |-> o.found]}
        /\ UNCHANGED <<records, exported>>

\* The request dies, or the reader leaves.
Leave(r) == reader[r].at # "away" /\ Reads(r, Away)

Writes ==
    \/ \E k \in Cases : OpenCase(k) \/ \E u \in Tenancies : CompleteRenewal(k, u)
    \/ \E o \in DOMAIN OfferOf : ProposeOffer(o)
    \/ \E t \in Tenancies : \E new \in SUBSET DOMAIN ItemOf : SetPaymentSchedule(t, new)
    \/ \E i \in DOMAIN ItemOf : TransitionPayment(i)
    \/ \E x \in Proofs : ProofEvent(x) \/ \E s \in Filable : CreateProofRequest(x, s)
    \/ \E d \in Papers :
        \/ \E s \in Filable, t \in Tenancies \cup {None} : UploadPaper(d, s, t)
        \/ \E x \in Proofs : LinkPaper(d, x)
        \/ ViewPaymentReceipt(d)

ChronologyNext ==
    \/ Writes
    \/ \E r \in Readers :
        \/ \E t \in Tenancies : OpenTimeline(r, t) \/ BuildPack(r, t)
        \/ CountPages(r) \/ ReadRows(r) \/ CloseTimeline(r)
        \/ \E d \in Papers : LogExport(r, d)
        \/ TellExport(r) \/ Leave(r)

ChronologySpec == ChronologyInit /\ [][ChronologyNext]_chronologyVars

-----------------------------------------------------------------------------
(* Properties *)

\* A proof request or file on a payment item since replaced, or a proof request on an offer.
Orphaned(s) ==
    LET Gone(x) == x[1] = "PAYMENT_ITEM" /\ x \notin rows
    IN  \/ Gone(s)
        \/ s[1] = "PROOF_REQUEST" /\ (Gone(scopeOf[s[2]]) \/ scopeOf[s[2]][1] = "OFFER")

\* A tenancy's chronology holds every event about it, except those of a replaced
\* payment item's requests and files and of requests made on an offer; the pack adds
\* nothing but the requests on its property (evidenceQuery.ts:40-129, 207-257).
ChronologyTotal ==
    \A t \in Tenancies, n \in DOMAIN events :
        LET e == events[n]
        IN  /\ n \in Timeline(t, PageRefs(t)) <=> t \in e.about /\ ~Orphaned(e.scope)
            /\ n \in Timeline(t, PackRefs(t)) \ Timeline(t, PageRefs(t)) =>
                    e.scope[1] = "PROOF_REQUEST"
                    /\ scopeOf[e.scope[2]] = Scope("PROPERTY", PropertyOf[t])

\* Whoever pages from the first page to the last has seen every event that was there
\* at the start, unless one arrived between the count and the rows of the last page
\* or a new schedule took events out of the list (evidenceQuery.ts:137-157).
PagesLoseNothing ==
    \A r \in Readers :
        reader[r].at = "read" /\ ~reader[r].shifted => reader[r].had \subseteq reader[r].seen

\* A pack that went out has each of its documents in the access log, and all its
\* documents are the tenancy's or its property's (evidencePack.ts:40-72, 111-147).
PacksLogged ==
    \A p \in packs :
        /\ p.papers \subseteq exported
        /\ \A d \in p.papers :
            LET s == scopeOf[d]
            IN  p.of \in About(s) \/ (s[1] = "PROOF_REQUEST"
                                      /\ scopeOf[s[2]] = Scope("PROPERTY", PropertyOf[p.of]))

\* A reader is served in full: every page, and no paper unlogged.
ReadersServed == PagesLoseNothing /\ PacksLogged

=============================================================================
