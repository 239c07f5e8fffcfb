------------------------------- MODULE Registry -------------------------------
(***************************************************************************)
(* The workspace's book filled in by hand: clients, contacts, properties   *)
(* and tenancies, and the one form that makes a tenancy with everything it *)
(* names (services/onboarding.ts, clients.ts, contacts.ts, properties.ts,  *)
(* tenancies.ts, payments.ts).  The form is a chain of calls that each     *)
(* commit on their own; a request can die after any.  Capabilities are     *)
(* those of a manager and of an agent; an agent's context, its properties  *)
(* with it, is read as the request begins.  The audit of each part is      *)
(* written with the part.  A form names a landlord, a tenant, a property,  *)
(* a client for a new one, the rent and how many cheques.                  *)
(***************************************************************************)
EXTENDS Integers, FiniteSets, Sequences

CONSTANTS
    Clients, Contacts, Properties, Tenancies,   \* ids
    Submissions,
    Fiduciary,     \* the workspace is of type FIDUCIARY
    Forms,         \* what a form may be filled in with
    Nobody

\* What a form names that is not on record is "new"; Nobody is left blank.
Anew == "new"

Form == [landlord : Contacts \cup {Nobody, Anew}, tenant : Contacts \cup {Nobody, Anew},
         property : Properties \cup {Anew}, client : Clients \cup {Nobody}, rent : Int, count : Nat]

ASSUME RegistryAssumption ==
    /\ Forms \subseteq Form
    /\ {Nobody, Anew} \cap (Contacts \cup Properties \cup Tenancies) = {} /\ Nobody # Anew

VARIABLES
    client,      \* per client: absent, live or archived
    contact,     \* per contact: absent, live or archived
    property,    \* per property: its state and its client
    tenancy,     \* per tenancy: its state, property, parties, deadlines and cheques
    held,        \* properties in the agent's book
    onboarded,   \* tenancies with the audit of the whole form
    step, req    \* per request: the step it is at; its role, form and what it made

registryVars == <<client, contact, property, tenancy, held, onboarded, step, req>>

NoProperty == [state |-> "absent", client |-> Nobody]
NoTenancy == [state |-> "absent", property |-> Nobody, landlord |-> Nobody, tenant |-> Nobody,
              rent |-> 0, cheques |-> <<>>, dated |-> "never"]
NoForm == [landlord |-> Nobody, tenant |-> Nobody, property |-> Nobody, client |-> Nobody,
           rent |-> 0, count |-> 0]
NoRequest == [role |-> Nobody, form |-> NoForm, landlord |-> Nobody, tenant |-> Nobody,
              property |-> Nobody, tenancy |-> Nobody, book |-> {}]

RegistryInit ==
    /\ client = [c \in Clients |-> "absent"] /\ contact = [k \in Contacts |-> "absent"]
    /\ property = [x \in Properties |-> NoProperty] /\ tenancy = [t \in Tenancies |-> NoTenancy]
    /\ held = {} /\ onboarded = {}
    /\ step = [p \in Submissions |-> "idle"] /\ req = [p \in Submissions |-> NoRequest]

Agent(p) == req[p].role = "MANAGING_AGENT"
\* A new row gets an id that no row has.
Fresh(S, used) == CHOOSE x \in S : x \notin used
HasRoom(S, used) == S \ used # {}
InBook == {k \in Contacts : contact[k] # "absent"}
Units == {x \in Properties : property[x].state # "absent"}
Leases == {t \in Tenancies : tenancy[t].state # "absent"}

Goto(p, here, there) == step[p] = here /\ step' = [step EXCEPT ![p] = there]
Carries(p, field, v) == req' = [req EXCEPT ![p][field] = v]
Refuse(p, here) ==
    /\ Goto(p, here, "refused")
    /\ UNCHANGED <<client, contact, property, tenancy, held, onboarded, req>>

-----------------------------------------------------------------------------
(* Clients, contacts and properties on their own forms *)

CreateClient(c) ==
    /\ client[c] = "absent" /\ client' = [client EXCEPT ![c] = "live"]
    /\ UNCHANGED <<contact, property, tenancy, held, onboarded, step, req>>
\* Nothing looks at what still names the row.
ArchiveClient(c) ==
    /\ client[c] # "absent" /\ client' = [client EXCEPT ![c] = "archived"]
    /\ UNCHANGED <<contact, property, tenancy, held, onboarded, step, req>>
CreateContact ==
    /\ HasRoom(Contacts, InBook) /\ LET k == Fresh(Contacts, InBook) IN contact' = [contact EXCEPT ![k] = "live"]
    /\ UNCHANGED <<client, property, tenancy, held, onboarded, step, req>>
ArchiveContact(k) ==
    /\ contact[k] # "absent" /\ contact' = [contact EXCEPT ![k] = "archived"]
    /\ UNCHANGED <<client, property, tenancy, held, onboarded, step, req>>
ArchiveProperty(x) ==
    /\ property[x].state # "absent" /\ property' = [property EXCEPT ![x].state = "archived"]
    /\ UNCHANGED <<client, contact, tenancy, held, onboarded, step, req>>
\* assignProperty (assignments.ts)
Assign(x) ==
    /\ property[x].state # "absent" /\ held' = held \cup {x}
    /\ UNCHANGED <<client, contact, property, tenancy, onboarded, step, req>>

-----------------------------------------------------------------------------
(* onboardTenancy, call by call *)

\* The action reads the form; the context reads the agent's book.
Submit(p, role, form) ==
    /\ Goto(p, "idle", "landlord")
    /\ req' = [req EXCEPT ![p] = [NoRequest EXCEPT !.role = role, !.form = form, !.book = held]]
    /\ UNCHANGED <<client, contact, property, tenancy, held, onboarded>>

\* getContact: for an agent the contact must be a party to a tenancy it holds.
Reachable(p, k) ==
    /\ contact[k] # "absent"
    /\ Agent(p) => \E t \in Tenancies :
        tenancy[t].property \in req[p].book /\ k \in {tenancy[t].landlord, tenancy[t].tenant}

\* One party: left blank, found on record or made; agents have no contacts.write.
Party(p, side, next) ==
    LET k == req[p].form[side] IN
    \/ /\ k = Nobody /\ Goto(p, side, next)
       /\ UNCHANGED <<contact, req>> /\ UNCHANGED <<client, property, tenancy, held, onboarded>>
    \/ /\ k \in Contacts /\ Reachable(p, k) /\ Goto(p, side, next) /\ Carries(p, side, k)
       /\ UNCHANGED <<client, contact, property, tenancy, held, onboarded>>
    \/ /\ k = Anew /\ ~Agent(p) /\ Goto(p, side, next) /\ HasRoom(Contacts, InBook)
       /\ LET n == Fresh(Contacts, InBook) IN
            contact' = [contact EXCEPT ![n] = "live"] /\ Carries(p, side, n)
       /\ UNCHANGED <<client, property, tenancy, held, onboarded>>
    \/ /\ (k = Anew /\ Agent(p)) \/ (k \in Contacts /\ ~Reachable(p, k))
       /\ Refuse(p, side)
Landlord(p) == Party(p, "landlord", "tenant")
Tenant(p) == Party(p, "tenant", "property")

\* createProperty's client: one of the workspace's, that an agent already serves.
MayAttach(p, c) ==
    IF c = Nobody THEN ~Fiduciary
    ELSE IF Agent(p) THEN \E x \in req[p].book : property[x].client = c
    ELSE client[c] # "absent"

\* getProperty, or createProperty.
UseProperty(p) ==
    /\ req[p].form.property \in Properties
    /\ LET x == req[p].form.property IN
        IF property[x].state # "absent" /\ (Agent(p) => x \in req[p].book)
        THEN /\ Goto(p, "property", "tenancy") /\ Carries(p, "property", x)
             /\ UNCHANGED <<client, contact, property, tenancy, held, onboarded>>
        ELSE Refuse(p, "property")
CreateProperty(p) ==
    /\ req[p].form.property = Anew
    /\ LET c == req[p].form.client IN
        IF MayAttach(p, c)
        THEN /\ Goto(p, "property", IF Agent(p) THEN "claim" ELSE "tenancy")
             /\ HasRoom(Properties, Units)
             /\ LET x == Fresh(Properties, Units) IN
                 /\ property' = [property EXCEPT ![x] = [state |-> "live", client |-> c]]
                 /\ Carries(p, "property", x)
             /\ UNCHANGED <<client, contact, tenancy, held, onboarded>>
        ELSE Refuse(p, "property")

\* claimCreatedProperty: the row, and the request's own context.
Claim(p) ==
    /\ Goto(p, "claim", "tenancy")
    /\ held' = held \cup {req[p].property}
    /\ Carries(p, "book", req[p].book \cup {req[p].property})
    /\ UNCHANGED <<client, contact, property, tenancy, onboarded>>

\* createTenancy: an agent's property must be in its context; then the deadlines.
CreateTenancy(p) ==
    /\ IF Agent(p) /\ req[p].property \notin req[p].book THEN Refuse(p, "tenancy")
       ELSE /\ Goto(p, "tenancy", "deadlines")
            /\ HasRoom(Tenancies, Leases)
            /\ LET t == Fresh(Tenancies, Leases) IN
                /\ tenancy' = [tenancy EXCEPT ![t] =
                    [NoTenancy EXCEPT !.state = "live", !.property = req[p].property,
                     !.landlord = req[p].landlord, !.tenant = req[p].tenant,
                     !.rent = req[p].form.rent]]
                /\ Carries(p, "tenancy", t)
            /\ UNCHANGED <<client, contact, property, held, onboarded>>
RegenerateDeadlines(p) ==
    /\ Goto(p, "deadlines", IF req[p].form.count > 0 THEN "cheques" ELSE "audit")
    /\ tenancy' = [tenancy EXCEPT ![req[p].tenancy].dated = "term"]
    /\ UNCHANGED <<client, contact, property, held, onboarded, req>>

\* evenChequeSchedule: up to twelve, each rounded half up, the last takes the rest.
Min2(a, b) == IF a < b THEN a ELSE b
Per(rent, n) == (2 * rent + n) \div (2 * n)
Evenly(rent, n) == [i \in 1 .. n |-> Per(rent, n)]
\* A slip: the last cheque like the others.
AllAlike(rent, count) == Evenly(rent, Min2(count, 12))
evenChequeSchedule(rent, count) ==
    LET n == Min2(count, 12) IN
    [Evenly(rent, n) EXCEPT ![n] = rent - Per(rent, n) * (n - 1)]

\* setPaymentSchedule on a tenancy without items, in one transaction; then the
\* deadlines again, of the cheques too.
SetPaymentSchedule(p) ==
    /\ Goto(p, "cheques", "redate")
    /\ tenancy' = [tenancy EXCEPT ![req[p].tenancy].cheques =
                    evenChequeSchedule(req[p].form.rent, req[p].form.count)]
    /\ UNCHANGED <<client, contact, property, held, onboarded, req>>
Redate(p) ==
    /\ Goto(p, "redate", "audit")
    /\ tenancy' = [tenancy EXCEPT ![req[p].tenancy].dated = "cheques"]
    /\ UNCHANGED <<client, contact, property, held, onboarded, req>>

Audit(p) ==
    /\ Goto(p, "audit", "done") /\ onboarded' = onboarded \cup {req[p].tenancy}
    /\ UNCHANGED <<client, contact, property, tenancy, held, req>>

\* The request dies between two calls; nothing resumes it.
Dies(p) ==
    /\ step[p] \notin {"idle", "done", "refused", "dead"}
    /\ step' = [step EXCEPT ![p] = "dead"]
    /\ UNCHANGED <<client, contact, property, tenancy, held, onboarded, req>>

RegistryNext ==
    \/ CreateContact
    \/ \E c \in Clients : CreateClient(c) \/ ArchiveClient(c)
    \/ \E k \in Contacts : ArchiveContact(k)
    \/ \E x \in Properties : ArchiveProperty(x) \/ Assign(x)
    \/ \E p \in Submissions :
        \/ \E role \in {"MANAGER", "MANAGING_AGENT"}, form \in Forms : Submit(p, role, form)
        \/ Landlord(p) \/ Tenant(p) \/ UseProperty(p) \/ CreateProperty(p) \/ Claim(p)
        \/ CreateTenancy(p) \/ RegenerateDeadlines(p) \/ SetPaymentSchedule(p) \/ Redate(p)
        \/ Audit(p) \/ Dies(p)

RegistrySpec == RegistryInit /\ [][RegistryNext]_registryVars

-----------------------------------------------------------------------------
(* Properties *)

Total(s) ==
    LET upTo[i \in 0 .. Len(s)] == IF i = 0 THEN 0 ELSE upTo[i - 1] + s[i] IN upTo[Len(s)]
\* The cheques come to the rent, and none is more than six off another.
Scheduled(p, t) ==
    LET cheques == tenancy[t].cheques IN
    /\ Len(cheques) = Min2(req[p].form.count, 12)
    /\ req[p].form.count > 0 => Total(cheques) = tenancy[t].rent
    /\ \A i, j \in DOMAIN cheques : cheques[i] - cheques[j] <= 6
AsNamed(p, t) ==
    /\ \A side \in {"landlord", "tenant"} :
        LET k == tenancy[t][side]  f == req[p].form[side] IN
        /\ f # Anew => k = f
        /\ f = Anew => k # Nobody /\ \A q \in Submissions \ {p} : req[q].form[side] = Anew => req[q][side] # k
        /\ k # Nobody => contact[k] # "absent"
    /\ LET x == tenancy[t].property  f == req[p].form IN
        /\ property[x].state # "absent"
        /\ f.property # Anew => x = f.property
        /\ f.property = Anew => property[x].client = f.client
        /\ Agent(p) => x \in held

\* The audit of a whole onboarding is true: its tenancy has the parties and the
\* property the form named or had made, for it alone, its deadlines, and as many
\* cheques as asked for, up to twelve, much alike, that come to the rent; an agent
\* holds the property.  A tenancy that came of a form and lacks some of it belongs to a
\* request still under way or dead.  Whoever is refused has left no tenancy and
\* no property, at most contacts, and an agent none: every refusal comes before
\* (onboarding.ts:65-155, payments.ts:34-50, properties.ts:75-108).
OnboardedWhole ==
    \A p \in Submissions : LET t == req[p].tenancy IN
        /\ t \in onboarded <=> step[p] = "done"
        /\ step[p] = "done" =>
            AsNamed(p, t) /\ Scheduled(p, t)
                /\ tenancy[t].dated = IF req[p].form.count > 0 THEN "cheques" ELSE "term"
        /\ t # Nobody /\ t \notin onboarded =>
            step[p] \in {"deadlines", "cheques", "redate", "audit", "dead"}
        /\ step[p] = "refused" =>
            /\ t = Nobody /\ req[p].property = Nobody
            /\ Agent(p) => \A side \in {"landlord", "tenant"} : req[p][side] \in {Nobody, req[p].form[side]}

=============================================================================
