------------------------------- MODULE Members -------------------------------
(***************************************************************************)
(* Seats of one workspace (services/members.ts, assignments.ts, authz.ts): *)
(* invitations, memberships, the office-admin overlay, and the agent book  *)
(* of properties.  Every caller builds its context once, at the start of   *)
(* the request, and its checks and writes are separate statements.         *)
(***************************************************************************)
EXTENDS Menu, Naturals, FiniteSets

CONSTANTS
    Users,        \* people, by e-mail
    Principal,    \* the one seated by provisioning, WORKSPACE_ADMIN
    Contacts,     \* OWNER contacts of the workspace
    Properties,
    Invites,      \* invitations that can be made: bounds their number
    Requests,
    Seats,        \* the seats that are invited
    Absent        \* no user, contact, invitation or membership

ASSUME MembersAssumption ==
    /\ Principal \in Users /\ Seats \subseteq INVITEABLE_SEATS
    /\ Absent \notin Users \cup Contacts \cup Invites

VARIABLES
    seat,      \* per user and role: the membership row
    overlay,   \* memberships with a live ORG_ADMIN grant
    book,      \* per property: the membership of its live assignment
    made,      \* properties that exist
    archived,  \* contacts that are archived
    invite,
    at, req,   \* per request: where it is, and what it has read
    sat,       \* per invitation: how often it seated someone, up to twice
    raced,     \* users, contacts and invitations that two accepts met on, or one died on
    stale,     \* somebody was removed by a caller who had lost the power meanwhile
    gaveUp     \* somebody took back their own overlay

memberVars == <<seat, overlay, book, made, archived, invite, at, req, sat, raced, stale, gaveUp>>

Roles == {"WORKSPACE_ADMIN"} \cup Seats
Membership == Users \X Roles
Invite == [made : BOOLEAN, revoked : BOOLEAN, accepted : BOOLEAN, expired : BOOLEAN,
           email : Users \cup {Absent}, role : Roles \cup {Absent}, contact : Contacts \cup {Absent}]
NoInvite == [made |-> FALSE, revoked |-> FALSE, accepted |-> FALSE, expired |-> FALSE,
             email |-> Absent, role |-> Absent, contact |-> Absent]
NoRequest == [by |-> Absent, user |-> Absent, role |-> Absent, contact |-> Absent,
              invite |-> Absent, place |-> Absent]
Steps == {"idle", "invite", "look", "create", "revive", "overlay", "accepted", "grant",
          "remove", "assign", "claim"}

MembersInit ==
    /\ seat = [m \in Membership |->
                [state |-> IF m = <<Principal, "WORKSPACE_ADMIN">> THEN "live" ELSE "none",
                 contact |-> Absent]]
    /\ overlay = {} /\ made = {} /\ archived = {}
    /\ book = [x \in Properties |-> Absent]
    /\ invite = [i \in Invites |-> NoInvite]
    /\ at = [p \in Requests |-> "idle"] /\ req = [p \in Requests |-> NoRequest]
    /\ sat = [i \in Invites |-> 0]
    /\ raced = {} /\ stale = FALSE /\ gaveUp = FALSE

-----------------------------------------------------------------------------
(* The context of a caller *)

LiveSeats(u) == {m \in Membership : m[1] = u /\ seat[m].state = "live"}
pickMembership(S) == CHOOSE m \in S : \A n \in S : ROLE_RANK[m[2]] <= ROLE_RANK[n[2]]

\* members.invite, members.manage and clients.assign, by role or by overlay.
HasPower(u) ==
    /\ LiveSeats(u) # {}
    /\ LET m == pickMembership(LiveSeats(u)) IN
        m[2] \in {"WORKSPACE_ADMIN", "ORG_ADMIN"} \/ m \in overlay

\* Those whose calls pass require_.
Managers == {u \in Users : HasPower(u)}

Begin(p, to, r) == at[p] = "idle" /\ at' = [at EXCEPT ![p] = to] /\ req' = [req EXCEPT ![p] = r]
Goto(p, from, to) == at[p] = from /\ at' = [at EXCEPT ![p] = to] /\ UNCHANGED req
Ends(p) == at' = [at EXCEPT ![p] = "idle"] /\ req' = [req EXCEPT ![p] = NoRequest]
Leave(p, from) == at[p] = from /\ Ends(p)
history == <<sat, raced, stale, gaveUp>>

-----------------------------------------------------------------------------
(* Invitations *)

Outstanding(i) == /\ invite[i].made /\ ~invite[i].accepted /\ ~invite[i].revoked
                  /\ ~invite[i].expired

\* The contact is a live OWNER with no live owner seat.
OwnerIsFree(c) ==
    c \in Contacts \ archived
        /\ ~\E u \in Users : /\ <<u, "LANDLORD">> \in Membership
                             /\ seat[<<u, "LANDLORD">>] = [state |-> "live", contact |-> c]

InviteMember(p, u, r, c) ==
    /\ IF r = "LANDLORD"
       THEN /\ OwnerIsFree(c)
            /\ ~\E i \in Invites : Outstanding(i) /\ invite[i].contact = c
       ELSE c = Absent
    /\ ~\E i \in Invites : Outstanding(i) /\ invite[i].email = u
    /\ r # "ORG_ADMIN" => LiveSeats(u) = {}
    /\ Begin(p, "invite", [NoRequest EXCEPT !.user = u, !.role = r, !.contact = c])
    /\ UNCHANGED <<seat, overlay, book, made, archived, invite, history>>

CreateInvite(p) ==
    /\ Leave(p, "invite")
    /\ \E i \in Invites :
        /\ ~invite[i].made
        /\ invite' = [invite EXCEPT ![i] = [NoInvite EXCEPT !.made = TRUE, !.email = req[p].user,
                                                !.role = req[p].role, !.contact = req[p].contact]]
    /\ UNCHANGED <<seat, overlay, book, made, archived, history>>

RevokeInvite(i) ==
    /\ invite[i].made
    /\ invite' = [invite EXCEPT ![i].revoked = TRUE]
    /\ UNCHANGED <<seat, overlay, book, made, archived, at, req, history>>

InviteExpires(i) ==
    /\ Outstanding(i)
    /\ invite' = [invite EXCEPT ![i].expired = TRUE]
    /\ UNCHANGED <<seat, overlay, book, made, archived, at, req, history>>

-----------------------------------------------------------------------------
(* Acceptance: the token is checked once; then the memberships are read, and *)
(* only then is the seat written and the invitation marked.                  *)

About(i) == {i, invite[i].email, invite[i].contact} \ {Absent}
Accepting == {"look", "create", "revive", "overlay", "accepted"}

AcceptInvite(p, i) ==
    /\ Outstanding(i)
    /\ Begin(p, "look", [NoRequest EXCEPT !.user = invite[i].email, !.role = invite[i].role,
                                          !.contact = invite[i].contact, !.invite = i])
    /\ raced' = raced \cup UNION {About(i) \cap About(req[q].invite) :
                                    q \in {q \in Requests : at[q] \in Accepting}}
    /\ UNCHANGED <<seat, overlay, book, made, archived, invite, sat, stale, gaveUp>>

\* seatOrReactivate's read of the unique row.
SeatOrReactivate(p, m) ==
    \/ seat[m].state = "none" /\ Goto(p, "look", "create")
    \/ seat[m].state = "revoked" /\ Goto(p, "look", "revive")
    \/ seat[m].state = "live" /\ Leave(p, "look")

\* The overlay goes on the membership the invitee's requests run under.
OverlayOn(p, m) ==
    IF m[2] = "ORG_ADMIN" \/ m \in overlay
    THEN Goto(p, "look", "accepted")
    ELSE /\ at[p] = "look" /\ at' = [at EXCEPT ![p] = "overlay"]
         /\ req' = [req EXCEPT ![p].role = m[2]]

\* Whom a seat other than office admin may go to.
Anyone(u) == TRUE
Newcomer(u) == LiveSeats(u) = {}

FindSeat(p) ==
    LET u == req[p].user  r == req[p].role  S == LiveSeats(u) IN
    /\ at[p] = "look"
    /\ \/ r = "ORG_ADMIN" /\ S = {} /\ SeatOrReactivate(p, <<u, r>>)
       \/ r = "ORG_ADMIN" /\ S # {} /\ OverlayOn(p, pickMembership(S))
       \/ r # "ORG_ADMIN" /\ ~Newcomer(u) /\ Leave(p, "look")
       \/ r # "ORG_ADMIN" /\ Newcomer(u) /\ r = "LANDLORD" /\ ~OwnerIsFree(req[p].contact)
            /\ Leave(p, "look")
       \/ /\ r # "ORG_ADMIN" /\ Newcomer(u) /\ (r = "LANDLORD" => OwnerIsFree(req[p].contact))
          /\ SeatOrReactivate(p, <<u, r>>)
    /\ UNCHANGED <<seat, overlay, book, made, archived, invite, history>>

\* What the row becomes: a landlord's contact is written again.
Live(p, old) == [state |-> "live",
                 contact |-> IF req[p].role = "LANDLORD" THEN req[p].contact ELSE old]

\* Counted to two: once, or more often.
Seated(i) == sat' = [sat EXCEPT ![i] = IF @ = 2 THEN 2 ELSE @ + 1]

\* The row is created, unless the unique tuple exists by now, or updated by id.
TakeSeat(p) ==
    LET m == <<req[p].user, req[p].role>> IN
    /\ \/ /\ \/ Goto(p, "create", "accepted") /\ seat[m].state = "none"
             \/ Goto(p, "revive", "accepted")
          /\ seat' = [seat EXCEPT ![m] = Live(p, seat[m].contact)]
          /\ Seated(req[p].invite)
       \/ Leave(p, "create") /\ seat[m].state # "none" /\ UNCHANGED <<seat, sat>>
    /\ UNCHANGED <<overlay, book, made, archived, invite, raced, stale, gaveUp>>

\* The grant of an accepted office-admin invitation; one live grant per membership.
TakeOverlay(p) ==
    LET m == <<req[p].user, req[p].role>> IN
    /\ \/ /\ Goto(p, "overlay", "accepted") /\ m \notin overlay
          /\ overlay' = overlay \cup {m} /\ Seated(req[p].invite)
       \/ Leave(p, "overlay") /\ m \in overlay /\ UNCHANGED <<overlay, sat>>
    /\ UNCHANGED <<seat, book, made, archived, invite, raced, stale, gaveUp>>

StillOpen(i) == invite
Used(i) == [invite EXCEPT ![i].accepted = TRUE]

MarkAccepted(p) ==
    /\ Leave(p, "accepted") /\ invite' = Used(req[p].invite)
    /\ UNCHANGED <<seat, overlay, book, made, archived, history>>

-----------------------------------------------------------------------------
(* Overlays, removal and the agent book *)

\* No one grants to, or removes, a membership of their own.
AlsoSelf(by, m) == TRUE
Other(by, m) == m[1] # by

GrantBundle(p, by, m) ==
    /\ seat[m].state = "live" /\ Other(by, m) /\ m \notin overlay
    /\ Begin(p, "grant", [NoRequest EXCEPT !.user = m[1], !.role = m[2]])
    /\ UNCHANGED <<seat, overlay, book, made, archived, invite, history>>

CreateGrant(p) ==
    /\ Leave(p, "grant")
    /\ overlay' = overlay \cup {<<req[p].user, req[p].role>>}
    /\ UNCHANGED <<seat, book, made, archived, invite, history>>

RevokeBundle(by, m) ==
    /\ m \in overlay
    /\ overlay' = overlay \ {m}
    /\ gaveUp' = (gaveUp \/ m[1] = by)
    /\ UNCHANGED <<seat, book, made, archived, invite, at, req, sat, raced, stale>>

AskRemoval(p, by, m) ==
    /\ seat[m].state # "none" /\ Other(by, m)
    /\ Begin(p, "remove", [NoRequest EXCEPT !.by = by, !.user = m[1], !.role = m[2]])
    /\ UNCHANGED <<seat, overlay, book, made, archived, invite, history>>

\* Grants and assignments of the membership stay.
RemoveMember(p) ==
    /\ Leave(p, "remove")
    /\ seat' = [seat EXCEPT ![<<req[p].user, req[p].role>>].state = "revoked"]
    /\ stale' = (stale \/ ~HasPower(req[p].by))
    /\ UNCHANGED <<overlay, book, made, archived, invite, sat, raced, gaveUp>>

AssignProperty(p, u, x) ==
    /\ <<u, "MANAGING_AGENT">> \in Membership
    /\ seat[<<u, "MANAGING_AGENT">>].state = "live" /\ x \in made /\ book[x] = Absent
    /\ Begin(p, "assign", [NoRequest EXCEPT !.user = u, !.place = x])
    /\ UNCHANGED <<seat, overlay, book, made, archived, invite, history>>

\* Refused by the unique index when the property has a live assignment by now.
CreateAssignment(p) ==
    /\ Leave(p, "assign")
    /\ book' = IF book[req[p].place] = Absent
               THEN [book EXCEPT ![req[p].place] = <<req[p].user, "MANAGING_AGENT">>] ELSE book
    /\ UNCHANGED <<seat, overlay, made, archived, invite, history>>

RevokeProperty(x) ==
    /\ book[x] # Absent
    /\ book' = [book EXCEPT ![x] = Absent]
    /\ UNCHANGED <<seat, overlay, made, archived, invite, at, req, history>>

\* The property is there before the agent that makes it claims it.
CreateProperty(p, u, x) ==
    /\ x \notin made /\ made' = made \cup {x}
    /\ LiveSeats(u) # {}
    /\ LET r == pickMembership(LiveSeats(u))[2] IN
        \/ r \in {"WORKSPACE_ADMIN", "MANAGER"} /\ at[p] = "idle" /\ UNCHANGED <<at, req>>
        \/ r = "MANAGING_AGENT" /\ Begin(p, "claim", [NoRequest EXCEPT !.user = u, !.place = x])
    /\ UNCHANGED <<seat, overlay, book, archived, invite, history>>

\* Refused when the agent was removed, or the property given away, meanwhile.
ClaimCreatedProperty(p) ==
    LET m == <<req[p].user, "MANAGING_AGENT">>  x == req[p].place IN
    /\ Leave(p, "claim")
    /\ book' = IF seat[m].state = "live" /\ book[x] = Absent THEN [book EXCEPT ![x] = m] ELSE book
    /\ UNCHANGED <<seat, overlay, made, archived, invite, history>>

ArchiveContact(c) ==
    /\ archived' = archived \cup {c}
    /\ UNCHANGED <<seat, overlay, book, made, invite, at, req, history>>

\* A request dies where it is.
Die(p) ==
    /\ at[p] # "idle" /\ Ends(p)
    /\ raced' = raced \cup (IF req[p].invite # Absent THEN {req[p].invite} ELSE {})
    /\ UNCHANGED <<seat, overlay, book, made, archived, invite, sat, stale, gaveUp>>

-----------------------------------------------------------------------------
Arrives(p) ==
    /\ at[p] = "idle"
    /\ \/ Managers # {} /\ \E u \in Users, r \in Seats, c \in Contacts \cup {Absent} :
            InviteMember(p, u, r, c)
       \/ \E i \in Invites : AcceptInvite(p, i)
       \/ \E by \in Managers, m \in Membership : GrantBundle(p, by, m) \/ AskRemoval(p, by, m)
       \/ Managers # {} /\ \E u \in Users, x \in Properties : AssignProperty(p, u, x)
       \/ \E u \in Users, x \in Properties : CreateProperty(p, u, x)
Continues(p) ==
    \/ CreateInvite(p) \/ FindSeat(p) \/ TakeSeat(p) \/ TakeOverlay(p) \/ MarkAccepted(p)
    \/ CreateGrant(p) \/ RemoveMember(p) \/ CreateAssignment(p)
    \/ ClaimCreatedProperty(p)
AtOnce ==
    \/ \E i \in Invites : InviteExpires(i) \/ (Managers # {} /\ RevokeInvite(i))
    \/ \E by \in Managers, m \in overlay : RevokeBundle(by, m)
    \/ Managers # {} /\ \E x \in Properties : RevokeProperty(x)
    \/ \E c \in Contacts : ArchiveContact(c)

MembersNext == AtOnce \/ \E p \in Requests : Arrives(p) \/ Continues(p) \/ Die(p)

MembersSpec == MembersInit /\ [][MembersNext]_memberVars

-----------------------------------------------------------------------------
(* Properties *)

MembersTypeOK ==
    /\ seat \in [Membership -> [state : {"none", "live", "revoked"}, contact : Contacts \cup {Absent}]]
    /\ overlay \subseteq Membership /\ made \subseteq Properties /\ archived \subseteq Contacts
    /\ book \in [Properties -> Membership \cup {Absent}]
    /\ invite \in [Invites -> Invite]
    /\ at \in [Requests -> Steps]
    /\ sat \in [Invites -> 0..2]

OneSeat ==
    /\ \A u \in Users \ raced : Cardinality(LiveSeats(u)) <= 1
    /\ \A c \in Contacts \ raced :
        Cardinality({m \in Membership : m[2] = "LANDLORD" /\ seat[m].state = "live"
                                            /\ seat[m].contact = c}) <= 1
InviteOnce == \A i \in Invites \ raced : sat[i] <= 1

\* A person has at most one live seat, and an owner contact at most one live
\* seat acting for it, through any sequence of invitations, removals and
\* reactivations and whatever else runs meanwhile, unless two acceptances for
\* that person or contact were under way at once; and an invitation seats
\* someone once, however often its link is opened and whoever is removed
\* meanwhile, unless two acceptances of it met or one died before it was
\* marked (members.ts:253-395).
SeatedOnce == OneSeat /\ InviteOnce

\* Somebody in the workspace can always manage its people: removing a member
\* never removes the last one, unless somebody took back an overlay of their
\* own, or the remover had lost the power since the request began, or a person
\* got two seats (members.ts:424-493).
Governed == gaveUp \/ stale \/ raced \cap Users # {} \/ \E u \in Users : HasPower(u)

=============================================================================
