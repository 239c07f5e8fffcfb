--------------------------------- MODULE Menu ---------------------------------
(***************************************************************************)
(* What a role may do and what its rail offers: the table of capabilities  *)
(* and the overlay that adds to it (capabilities.ts, authz.ts), the rail   *)
(* and the header's creates (nav.ts), and what each page behind them reads *)
(* as it opens.  Reserved roles are rows of the table like the others.     *)
(***************************************************************************)
PEOPLE_ADMIN == {"workspace.manage", "workspace.configure", "members.read", "members.invite",
    "members.manage", "clients.assign"}

READ_PORTFOLIO == {"clients.read", "contacts.read", "properties.read", "tenancies.read",
    "payments.read", "deadlines.read", "renewals.read", "documents.read", "proofs.read",
    "evidence.read", "riskflags.read", "reports.read"}

CAPABILITIES == PEOPLE_ADMIN \cup READ_PORTFOLIO \cup
    {"clients.write", "contacts.write", "properties.write", "listings.read", "listings.write",
     "listings.publish", "offers.read", "offers.write", "offers.decide", "offers.respond",
     "contracts.read", "contracts.write", "movein.read", "movein.write", "movein.acknowledge",
     "landlords.verify", "tenancies.write", "tenancies.upload", "payments.write",
     "deadlines.write", "renewals.write", "renewals.decide", "documents.write",
     "imports.manage", "proofs.write", "proofs.decide", "passport.read", "passport.write",
     "passport.share", "enquiries.read", "enquiries.write", "viewings.read", "viewings.write",
     "evidence.export", "riskflags.ack", "reports.generate", "notifications.read",
     "messaging.manage"}

ORG_ADMIN_CAPS == PEOPLE_ADMIN \ {"workspace.manage"}

DELEGATE_CAPS == {"contacts.read", "properties.read", "properties.write", "tenancies.read",
    "tenancies.write", "tenancies.upload", "payments.read", "payments.write", "deadlines.read",
    "deadlines.write", "renewals.read", "documents.read", "documents.write", "proofs.read",
    "proofs.write"}

Reserved == {"properties.read", "tenancies.read", "deadlines.read", "renewals.read",
    "proofs.read", "documents.read"}
Persona == {"tenancies.read", "payments.read", "deadlines.read", "documents.read",
    "proofs.read", "offers.read", "movein.read", "movein.acknowledge"}

ROLE_CAPABILITIES == [
    WORKSPACE_ADMIN  |-> CAPABILITIES,
    FIDUCIARY        |-> CAPABILITIES \ PEOPLE_ADMIN,
    ORG_ADMIN        |-> ORG_ADMIN_CAPS,
    MANAGER          |-> READ_PORTFOLIO \cup
        {"clients.write", "contacts.write", "properties.write", "offers.read", "offers.write",
         "offers.decide", "movein.read", "movein.write", "movein.acknowledge",
         "landlords.verify", "tenancies.write", "payments.write", "deadlines.write",
         "renewals.write", "renewals.decide", "documents.write", "imports.manage",
         "proofs.write", "proofs.decide", "riskflags.ack", "reports.generate",
         "evidence.export", "notifications.read", "messaging.manage"},
    CLIENT_VIEWER    |-> READ_PORTFOLIO,
    AGENT            |-> Reserved \cup {"contacts.read"},
    MANAGING_AGENT   |-> DELEGATE_CAPS,
    LICENSED_PARTNER |-> Reserved,
    VENDOR           |-> {"proofs.read"},
    AUDITOR          |-> READ_PORTFOLIO \cup {"notifications.read", "evidence.export"},
    TENANT           |-> Persona \cup {"tenancies.upload", "offers.respond"},
    LANDLORD         |-> Persona \cup {"properties.read", "offers.write", "offers.decide"}]

BUNDLE_CAPABILITIES == [PRINCIPAL |-> CAPABILITIES, ORG_ADMIN |-> ORG_ADMIN_CAPS,
    DELEGATE |-> DELEGATE_CAPS, CLIENT_VIEWER |-> READ_PORTFOLIO]
GRANT_HONORED_BUNDLES == {"ORG_ADMIN"}

\* The seats that somebody can be invited to.
INVITEABLE_SEATS == {"ORG_ADMIN", "MANAGER", "MANAGING_AGENT", "LANDLORD"}

ROLE_RANK == [WORKSPACE_ADMIN |-> 0, FIDUCIARY |-> 1, ORG_ADMIN |-> 2, MANAGER |-> 3,
    MANAGING_AGENT |-> 4, CLIENT_VIEWER |-> 5, AGENT |-> 6, LICENSED_PARTNER |-> 7, VENDOR |-> 8,
    AUDITOR |-> 9, LANDLORD |-> 10, TENANT |-> 11]

\* roleMap(role) with the honoured grants of the seat.
hasCapability(r, granted, cap) ==
    \/ cap \in ROLE_CAPABILITIES[r]
    \/ \E g \in granted \cap GRANT_HONORED_BUNDLES : cap \in BUNDLE_CAPABILITIES[g]

-----------------------------------------------------------------------------
(* The rail and the creates: by role alone *)

NAV == [dashboard |-> "properties.read", renewals |-> "renewals.read",
    properties |-> "properties.read", clients |-> "clients.read", payments |-> "payments.read",
    evidence |-> "evidence.read", calendar |-> "deadlines.read", risk |-> "riskflags.read",
    proofs |-> "proofs.read", vault |-> "documents.read", contacts |-> "contacts.read",
    reports |-> "reports.read", imports |-> "imports.manage", members |-> "members.read"]
CREATE_ACTIONS == [onboardingNew |-> "clients.write", propertiesNew |-> "properties.write"]

navForRole(r) == {page \in DOMAIN NAV : NAV[page] \in ROLE_CAPABILITIES[r]}
createsForRole(r) == {page \in DOMAIN CREATE_ACTIONS : CREATE_ACTIONS[page] \in ROLE_CAPABILITIES[r]}

-----------------------------------------------------------------------------
(* What a page asks for as it opens: every list it loads, but those that   *)
(* it loads only for a role it has found to hold their capability.         *)

DashboardPage == {"properties.read"}
RenewalsPage == {"renewals.read"}
PropertiesPage == {"properties.read"}
ClientsPage == {"clients.read", "properties.read"}
PaymentsPage == {"payments.read"}
EvidencePage == {"evidence.read"}
CalendarPage == {"deadlines.read", "properties.read"}
RiskPage == {"riskflags.read"}
ProofsPage == {"proofs.read"}
VaultPage == {"documents.read"}
ContactsPage == {"contacts.read"}
ReportsPage == {"reports.read", "clients.read"}
ImportsPage == {"imports.manage"}
ListMembers == {"members.read"}
OnboardingPage == {"contacts.read", "clients.read", "properties.read"}
NewPropertyPage == {"clients.read"}

Asks == [dashboard |-> DashboardPage, renewals |-> RenewalsPage, properties |-> PropertiesPage,
    clients |-> ClientsPage, payments |-> PaymentsPage, evidence |-> EvidencePage,
    calendar |-> CalendarPage, risk |-> RiskPage, proofs |-> ProofsPage, vault |-> VaultPage,
    contacts |-> ContactsPage, reports |-> ReportsPage, imports |-> ImportsPage,
    members |-> ListMembers, onboardingNew |-> OnboardingPage, propertiesNew |-> NewPropertyPage]
Opens(r, granted, page) == \A cap \in Asks[page] : hasCapability(r, granted, cap)

=============================================================================
