------------------------------ MODULE Assignees ------------------------------
(***************************************************************************)
(* Who may be asked for proof, about what (services/proofs.ts, the proofs  *)
(* page and its form).  The options of the form are loaded in three        *)
(* queries, of clients, units and contacts that are not archived, and put  *)
(* together in memory; the service takes any subject that is posted and    *)
(* collects the contacts of its unit anew.  The records are those of       *)
(* Scopes, any of which may be archived.  A unit's assigned agent is a     *)
(* contact that nothing but the seed writes, and is left out; so are       *)
(* requests about the workspace, a renewal or an offer.                    *)
(***************************************************************************)
EXTENDS Menu, Scopes

VARIABLE gone   \* clients, contacts and units that are archived, each with its type

assigneeVars == <<scopeVars, gone>>

Archivable == Scope("CLIENT", Clients) \cup Scope("CONTACT", People) \cup Scope("PROPERTY", Units)
OnFile(type, S) == {r \in S : <<type, r>> \notin gone}

AssigneesInit == ScopesInit /\ gone = {}

\* Nothing looks at what still names the row.
Archive(r) == gone' = gone \cup {r} /\ UNCHANGED scopeVars

AssigneesNext ==
    \/ ScopesNext /\ UNCHANGED gone
    \/ \E r \in Archivable : Archive(r)

AssigneesSpec == AssigneesInit /\ [][AssigneesNext]_assigneeVars

-----------------------------------------------------------------------------
(* The contacts of a subject *)

delegate(role) == role = "MANAGING_AGENT"
Writes(role) == "proofs.write" \in ROLE_CAPABILITIES[role]

\* Owner and running parties of a unit.
propertyProofContactIds(x) ==
    IF <<"PROPERTY", x>> \in gone THEN {}
    ELSE LET leases == Running({t \in There : place[t] = x}) IN
         ({owner[x]} \cup {landlord[t] : t \in leases} \cup {tenant[t] : t \in leases}) \ {Nothing}

\* An archived tenancy has nobody to ask; its payments have.
proofScopeContactIds(s) ==
    CASE s[1] = "PROPERTY" -> propertyProofContactIds(s[2])
      [] s[1] = "CLIENT" ->
            UNION {propertyProofContactIds(x) : x \in {x \in OnFile("PROPERTY", Units) : client[x] = s[2]}}
      [] s[1] = "TENANCY" ->
            IF s[2] \in Running(There) THEN propertyProofContactIds(place[s[2]]) ELSE {}
      [] s[1] = "PAYMENT_ITEM" ->
            IF s[2] \in There THEN propertyProofContactIds(place[s[2]]) ELSE {}

\* A slip: contacts are not looked up again when the form is posted.
AnyNamed(role, s, c) ==
    Writes(role) /\ (delegate(role) => s \in Writable) /\ c \in proofScopeContactIds(s)

\* createProofRequest, on whatever subject and contact it is given.
MayAsk(role, s, c) ==
    /\ Writes(role)
    /\ delegate(role) => s \in Writable
    /\ c \in OnFile("CONTACT", People) /\ c \in proofScopeContactIds(s)

-----------------------------------------------------------------------------
(* The form *)

proofRequestOptions(role) ==
    LET properties == IF delegate(role) THEN OnFile("PROPERTY", agentBook) ELSE OnFile("PROPERTY", Units)
        clients == IF delegate(role) THEN {} ELSE OnFile("CLIENT", Clients)
        contacts == OnFile("CONTACT", UNION {propertyProofContactIds(x) : x \in properties})
        Of(units) == contacts \cap UNION {propertyProofContactIds(x) : x \in units}
        options == {[subject |-> <<"CLIENT", k>>, assignees |-> Of({x \in properties : client[x] = k})] : k \in clients}
            \cup {[subject |-> <<"PROPERTY", x>>, assignees |-> Of({x})] : x \in properties}
    IN {o \in options : o.assignees # {}}

\* The page draws the form only for those who may post it.
FormOptions(role) == IF Writes(role) THEN proofRequestOptions(role) ELSE {}

\* The two selects, the second filled by what the first has chosen.
Postable(role) == UNION {{<<o.subject, c>> : c \in o.assignees} : o \in FormOptions(role)}

-----------------------------------------------------------------------------
(* Properties *)

\* Whatever happens to the records, the form offers just what the service takes
\* of clients and units, though the two ask different questions: but for an
\* archived client, which the service still takes.  What it takes of anybody can
\* be followed up: a delegate may read, and so send, each request it may create;
\* somebody asked about a unit finds the unit and the request in the portal, as
\* its tenant or its landlord; and a client's viewer who sees a request finds
\* its assignee among the contacts (proofs.ts:35-247, contactScope.ts:40-107,
\* clientScope.ts:80-121).
AskedRightly ==
    /\ \A role \in DOMAIN ROLE_CAPABILITIES :
        Postable(role) = {ask \in (Scope("CLIENT", Clients) \cup Scope("PROPERTY", Units)) \X People :
                            MayAsk(role, ask[1], ask[2]) /\ ask[1] \notin gone}
    /\ \A s \in Subjects, c \in People : MayAsk("MANAGING_AGENT", s, c) =>
        s \in ids(<<"MANAGING_AGENT", Nothing>>).proofs
    /\ \A s \in Subjects : \A c \in proofScopeContactIds(s) :
        /\ s[1] = "PROPERTY" => \E as \in {"TENANT", "LANDLORD"} :
            s \in ids(<<as, c>>).proofs /\ s[2] \in ids(<<as, c>>).units
        /\ \A k \in Clients : s \in resolveClientScopeIds(k).proofs =>
            c \in contactIdsForScope(resolveClientScopeIds(k))

=============================================================================
