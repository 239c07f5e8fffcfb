------------------------------- MODULE Scopes -------------------------------
(***************************************************************************)
(* Whose records a list shows and a getter opens (contactScope.ts,         *)
(* clientScope.ts, delegateScope.ts and the services that call them).      *)
(* The ids of a caller are collected downwards, from the caller's clients, *)
(* contact or book to properties, tenancies, items and proof requests,     *)
(* anew for every call; lists filter by them and getters ask them by id.   *)
(* One tenancy has one payment item; every scope has one document and one  *)
(* proof request on it.  Archived rows are listed on request.              *)
(***************************************************************************)
EXTENDS Naturals, FiniteSets

CONSTANTS
    Clients, People,   \* client principals; contacts
    Units, Leases,     \* properties; tenancies
    Nothing            \* no client, owner, landlord or unit

ASSUME ScopesAssumption == Nothing \notin Clients \cup People \cup Units \cup Leases

VARIABLES
    client, owner,     \* per unit
    place,             \* per lease: its unit, Nothing while it does not exist
    tenant, landlord,  \* per lease
    ended,             \* leases that are archived
    agentBook          \* units of the delegate

scopeVars == <<client, owner, place, tenant, landlord, ended, agentBook>>

\* Subjects of documents and proof requests: a type and an id.
Scope(type, S) == {type} \X S
Subjects == Scope("CLIENT", Clients) \cup Scope("PROPERTY", Units) \cup Scope("TENANCY", Leases)
                \cup Scope("PAYMENT_ITEM", Leases)
\* A document may also be filed under a proof request, named by what that is on.
Filed == Subjects \cup Scope("PROOF_REQUEST", Subjects)

Viewers == Scope("CLIENT_VIEWER", Clients) \cup Scope("TENANT", People)
                \cup Scope("LANDLORD", People) \cup {<<"MANAGING_AGENT", Nothing>>}

ScopesInit ==
    /\ client \in [Units -> Clients] /\ owner = [x \in Units |-> Nothing]
    /\ place = [t \in Leases |-> Nothing]
    /\ tenant = [t \in Leases |-> Nothing] /\ landlord = [t \in Leases |-> Nothing]
    /\ ended = {} /\ agentBook = {}

There == {t \in Leases : place[t] # Nothing}

-----------------------------------------------------------------------------
(* What staff and the delegate do to the records *)

UpdateProperty(x, k, c) ==
    /\ client' = [client EXCEPT ![x] = k] /\ owner' = [owner EXCEPT ![x] = c]
    /\ UNCHANGED <<place, tenant, landlord, ended, agentBook>>

\* The delegate moves only a unit of the book, and only to a client it serves.
DelegateUpdates(x, k) ==
    /\ x \in agentBook /\ \E y \in agentBook : client[y] = k
    /\ client' = [client EXCEPT ![x] = k]
    /\ UNCHANGED <<owner, place, tenant, landlord, ended, agentBook>>

SignLease(t, x, c, d) ==
    /\ place[t] = Nothing
    /\ place' = [place EXCEPT ![t] = x] /\ tenant' = [tenant EXCEPT ![t] = c]
    /\ landlord' = [landlord EXCEPT ![t] = d]
    /\ UNCHANGED <<client, owner, ended, agentBook>>

EndLease(t) ==
    /\ t \in There /\ ended' = ended \cup {t}
    /\ UNCHANGED <<client, owner, place, tenant, landlord, agentBook>>

SetBook(x) ==
    /\ agentBook' = IF x \in agentBook THEN agentBook \ {x} ELSE agentBook \cup {x}
    /\ UNCHANGED <<client, owner, place, tenant, landlord, ended>>

ScopesNext ==
    \/ \E x \in Units, k \in Clients :
        (\E c \in People \cup {Nothing} : UpdateProperty(x, k, c)) \/ DelegateUpdates(x, k)
    \/ \E t \in Leases, x \in Units, c \in People, d \in People \cup {Nothing} : SignLease(t, x, c, d)
    \/ \E t \in Leases : EndLease(t)
    \/ \E x \in Units : SetBook(x)

ScopesSpec == ScopesInit /\ [][ScopesNext]_scopeVars

-----------------------------------------------------------------------------
(* The ids of a caller *)

\* Items of the tenancies and proof requests of all of it: the tail of each traversal.
Collect(clients, units, leases) ==
    [clients |-> clients, units |-> units, leases |-> leases, items |-> leases,
     proofs |-> {s \in Subjects : \/ s[1] = "CLIENT" /\ s[2] \in clients
                                  \/ s[1] = "PROPERTY" /\ s[2] \in units
                                  \/ s[1] \in {"TENANCY", "PAYMENT_ITEM"} /\ s[2] \in leases}]

OnUnits(units) == {t \in There : place[t] \in units}

resolveClientScopeIds(k) ==
    LET units == {x \in Units : client[x] = k} IN Collect({k}, units, OnUnits(units))

resolveDelegateScopeIds == Collect({}, agentBook, OnUnits(agentBook))

\* The departed are left out of what a party to a tenancy sees.
EvenEnded(S) == S
Running(S) == S \ ended

TenantIds(c) ==
    LET leases == Running({t \in There : tenant[t] = c}) IN
    Collect({}, {place[t] : t \in leases}, leases)

\* Owned units with all their leases; of units that are not owned, only the
\* leases the contact is landlord of record of.
LandlordIds(c) ==
    LET owned == {x \in Units : owner[x] = c}
        named == Running({t \in There : landlord[t] = c}) IN
    Collect({}, owned \cup {place[t] : t \in named}, OnUnits(owned) \cup named)

ids(v) ==
    CASE v[1] = "CLIENT_VIEWER"  -> resolveClientScopeIds(v[2])
      [] v[1] = "TENANT"         -> TenantIds(v[2])
      [] v[1] = "LANDLORD"       -> LandlordIds(v[2])
      [] v[1] = "MANAGING_AGENT" -> resolveDelegateScopeIds

\* The rows of a polymorphic table in scope: list filter and by-id question alike.
scopeMatch(i) ==
    Scope("CLIENT", i.clients) \cup Scope("PROPERTY", i.units) \cup Scope("TENANCY", i.leases)
        \cup Scope("PAYMENT_ITEM", i.items) \cup Scope("PROOF_REQUEST", i.proofs)

\* Owners, parties and assignees of what is in scope; the assignee of a proof
\* request is a party here.
contactIdsForScope(i) ==
    ({owner[x] : x \in i.units} \cup {tenant[t] : t \in i.leases}
        \cup {landlord[t] : t \in i.leases}) \ {Nothing}

-----------------------------------------------------------------------------
(* Lists and getters *)

\* listProperties, the lists of tenancies, listPayments, listProofRequests, listDocuments,
\* listContacts: a viewer of a client goes by the client column where there is one.
Listed(v) ==
    LET i == ids(v) IN
    [properties |-> IF v[1] = "CLIENT_VIEWER" THEN {x \in Units : client[x] = v[2]} ELSE i.units,
     tenancies  |-> i.leases,
     payments   |-> IF v[1] = "CLIENT_VIEWER"
                    THEN {t \in There : client[place[t]] = v[2]} ELSE i.leases,
     proofs     |-> i.proofs,
     documents  |-> scopeMatch(i) \cap Filed,
     contacts   |-> IF v[1] \in {"CLIENT_VIEWER", "MANAGING_AGENT"} THEN contactIdsForScope(i) ELSE {}]

\* assertReadable's arm for a tenancy, given the ids of the caller.
TenancyReadable(v, i, t) ==
    IF v[1] = "CLIENT_VIEWER" THEN client[place[t]] = v[2] ELSE t \in i.leases

assertReadable(v) ==
    LET i == ids(v)
        tenancies == {t \in There : TenancyReadable(v, i, t)}
        rows == scopeMatch(i) IN
    [properties |-> {x \in Units : IF v[1] = "CLIENT_VIEWER" THEN client[x] = v[2] ELSE x \in i.units},
     tenancies  |-> tenancies,
     payments   |-> tenancies,
     proofs     |-> Subjects \cap i.proofs,
     documents  |-> Filed \cap rows,
     contacts   |-> IF v[1] \in {"CLIENT_VIEWER", "MANAGING_AGENT"} THEN contactIdsForScope(i) ELSE {}]

\* The rows a delegate may write: those whose unit is in the book.
propertyIdOfScope(s) ==
    CASE s[1] = "PROPERTY" -> s[2]
      [] s[1] \in {"TENANCY", "PAYMENT_ITEM"} -> place[s[2]]
      [] OTHER -> Nothing
Writable == {s \in Subjects : propertyIdOfScope(s) \in agentBook}

-----------------------------------------------------------------------------
(* What a caller is meant to see, asked upwards from the record *)

MeantUnit(v, x) ==
    \/ v[1] = "CLIENT_VIEWER" /\ client[x] = v[2]
    \/ v[1] = "MANAGING_AGENT" /\ x \in agentBook
    \/ v[1] = "LANDLORD" /\ owner[x] = v[2]
    \/ \E t \in There \ ended : /\ place[t] = x
                                /\ \/ v[1] = "TENANT" /\ tenant[t] = v[2]
                                   \/ v[1] = "LANDLORD" /\ landlord[t] = v[2]
MeantLease(v, t) ==
    \/ v[1] \in {"CLIENT_VIEWER", "MANAGING_AGENT"} /\ MeantUnit(v, place[t])
    \/ v[1] = "LANDLORD" /\ owner[place[t]] = v[2]
    \/ t \notin ended /\ (\/ v[1] = "TENANT" /\ tenant[t] = v[2]
                          \/ v[1] = "LANDLORD" /\ landlord[t] = v[2])
MeantSubject(v, s) ==
    \/ s[1] = "CLIENT" /\ v = <<"CLIENT_VIEWER", s[2]>>
    \/ s[1] = "PROPERTY" /\ MeantUnit(v, s[2])
    \/ s[1] \in {"TENANCY", "PAYMENT_ITEM"} /\ s[2] \in There /\ MeantLease(v, s[2])
MeantContact(v, c) ==
    /\ v[1] \in {"CLIENT_VIEWER", "MANAGING_AGENT"}
    /\ \/ \E x \in Units : owner[x] = c /\ MeantUnit(v, x)
       \/ \E t \in There : c \in {tenant[t], landlord[t]} /\ MeantLease(v, t)

Meant(v) ==
    LET tenancies == {t \in There : MeantLease(v, t)}
        subjects == {s \in Subjects : MeantSubject(v, s)} IN
    [properties |-> {x \in Units : MeantUnit(v, x)},
     tenancies  |-> tenancies,
     payments   |-> tenancies,
     proofs     |-> subjects,
     documents  |-> subjects \cup Scope("PROOF_REQUEST", subjects),
     contacts   |-> {c \in People : MeantContact(v, c)}]

\* Whatever happens to the records, a list shows a caller just the rows that its
\* getter opens, and both are the rows the caller's client, book, ownership or
\* running tenancy reaches: a departed tenant or a unit taken out of the book is
\* gone from both at once, a landlord of record gets no other lease of the unit,
\* and the delegate writes what it reads (contactScope.ts:40-121, 226-287;
\* delegateScope.ts:33-212; clientScope.ts:39-169).
DoorsAgree ==
    /\ \A v \in Viewers : Listed(v) = Meant(v) /\ assertReadable(v) = Meant(v)
    /\ Writable = Meant(<<"MANAGING_AGENT", Nothing>>).proofs

=============================================================================
