---------------------------- MODULE AccessProofs ----------------------------
(***************************************************************************)
(* Proofs about Members, for any number of people, contacts, properties,   *)
(* invitations and requests; about SignIn, for any number of login and     *)
(* reset requests, reset tokens and permitted failures; about Scopes and   *)
(* Assignees, for any number of clients, contacts, properties and          *)
(* tenancies; and about Doors, for any number of browsers, offices, people *)
(* and seats.                                                              *)
(***************************************************************************)
EXTENDS Members, SignIn, Assignees, Doors, TLAPS, FiniteSetTheorems, WellFoundedInduction

(***************************************************************************)
(* Members.  Few steps touch seats, invitations and what an acceptance     *)
(* knows: Kinds names them once, and each invariant is then proved kind by *)
(* kind.                                                                   *)
(***************************************************************************)

Sitting == [state : {"none", "live", "revoked"}, contact : Contacts \cup {Absent}]
Req == [by : Users \cup {Absent}, user : Users \cup {Absent}, role : Roles \cup {Absent},
        contact : Contacts \cup {Absent}, invite : Invites \cup {Absent},
        place : Properties \cup {Absent}]

\* What a request under way holds.
Knows(p) ==
    /\ at[p] \in Accepting =>
        /\ req[p].invite \in Invites /\ invite[req[p].invite].made
        /\ req[p].user = invite[req[p].invite].email
        /\ req[p].contact = invite[req[p].invite].contact
        /\ req[p].role \in Roles
    /\ at[p] \in {"invite", "grant", "remove"} => req[p].user \in Users /\ req[p].role \in Roles
    /\ at[p] = "remove" => req[p].by \in Users /\ req[p].by # req[p].user
    /\ at[p] \in {"assign", "claim"} =>
        req[p].user \in Users /\ req[p].place \in Properties /\ "MANAGING_AGENT" \in Roles

Addressed(i) == invite[i].made => invite[i].email \in Users /\ invite[i].role \in Roles

Types ==
    /\ MembersTypeOK
    /\ req \in [Requests -> Req]
    /\ \A p \in Requests : Knows(p)
    /\ \A i \in Invites : Addressed(i)

-----------------------------------------------------------------------------
(* Rows *)

LEMMA Ranks ==
    /\ ROLE_RANK["WORKSPACE_ADMIN"] = 0 /\ ROLE_RANK["ORG_ADMIN"] = 2 /\ ROLE_RANK["MANAGER"] = 3
    /\ ROLE_RANK["MANAGING_AGENT"] = 4 /\ ROLE_RANK["LANDLORD"] = 10
BY DEF ROLE_RANK

\* pickMembership finds a row among those it is given.
LEMMA Picked ==
    ASSUME NEW S \in SUBSET Membership, S # {}
    PROVE  pickMembership(S) \in S
<1>1. \A m \in S : m[2] \in {"WORKSPACE_ADMIN", "ORG_ADMIN", "MANAGER", "MANAGING_AGENT", "LANDLORD"}
    BY MembersAssumption DEF Membership, Roles, INVITEABLE_SEATS
<1>2. \E m \in S : \A n \in S : ROLE_RANK[m[2]] <= ROLE_RANK[n[2]]
    <2>1. CASE \E m \in S : m[2] = "WORKSPACE_ADMIN" BY <1>1, <2>1, Ranks
    <2>2. CASE (\E m \in S : m[2] = "ORG_ADMIN") /\ ~\E m \in S : m[2] = "WORKSPACE_ADMIN"
        BY <1>1, <2>2, Ranks
    <2>3. CASE /\ \E m \in S : m[2] = "MANAGER"
               /\ ~\E m \in S : m[2] \in {"WORKSPACE_ADMIN", "ORG_ADMIN"}
        BY <1>1, <2>3, Ranks
    <2>4. CASE /\ \E m \in S : m[2] = "MANAGING_AGENT"
               /\ ~\E m \in S : m[2] \in {"WORKSPACE_ADMIN", "ORG_ADMIN", "MANAGER"}
        BY <1>1, <2>4, Ranks
    <2>5. CASE \A m \in S : m[2] = "LANDLORD" BY <2>5, Ranks
    <2> QED BY <1>1, <2>1, <2>2, <2>3, <2>4, <2>5
<1> QED BY <1>2 DEF pickMembership

LEMMA NoInviteTyped == NoInvite \in Invite /\ NoRequest \in Req
BY DEF NoInvite, Invite, NoRequest, Req

LEMMA InviteEdits ==
    ASSUME NEW v \in Invite
    PROVE  /\ [v EXCEPT !.revoked = TRUE] \in Invite
           /\ [v EXCEPT !.expired = TRUE] \in Invite
           /\ [v EXCEPT !.accepted = TRUE] \in Invite
           /\ \A e \in {[v EXCEPT !.revoked = TRUE], [v EXCEPT !.expired = TRUE],
                        [v EXCEPT !.accepted = TRUE]} :
                e.made = v.made /\ e.email = v.email /\ e.role = v.role /\ e.contact = v.contact
           /\ [v EXCEPT !.revoked = TRUE].accepted = v.accepted
           /\ [v EXCEPT !.expired = TRUE].accepted = v.accepted
           /\ [v EXCEPT !.accepted = TRUE].accepted
<1>1. LET e == [v EXCEPT !.revoked = TRUE] IN
        /\ e \in Invite /\ e.made = v.made /\ e.email = v.email /\ e.role = v.role
        /\ e.contact = v.contact /\ e.accepted = v.accepted
    BY DEF Invite
<1>2. LET e == [v EXCEPT !.expired = TRUE] IN
        /\ e \in Invite /\ e.made = v.made /\ e.email = v.email /\ e.role = v.role
        /\ e.contact = v.contact /\ e.accepted = v.accepted
    BY DEF Invite
<1>3. LET e == [v EXCEPT !.accepted = TRUE] IN
        /\ e \in Invite /\ e.made = v.made /\ e.email = v.email /\ e.role = v.role
        /\ e.contact = v.contact /\ e.accepted = TRUE
    BY DEF Invite
<1> QED BY <1>1, <1>2, <1>3

LEMMA NewInvite ==
    ASSUME NEW u \in Users, NEW r \in Roles, NEW c \in Contacts \cup {Absent}
    PROVE  LET n == [NoInvite EXCEPT !.made = TRUE, !.email = u, !.role = r, !.contact = c] IN
           n \in Invite /\ n.made /\ n.email = u /\ n.role = r /\ n.contact = c
BY DEF NoInvite, Invite

LEMMA SeatEdits ==
    ASSUME NEW s \in Sitting, NEW c \in Contacts \cup {Absent}
    PROVE  /\ [state |-> "live", contact |-> c] \in Sitting
           /\ [s EXCEPT !.state = "revoked"] \in Sitting
           /\ [s EXCEPT !.state = "revoked"].state = "revoked"
BY DEF Sitting

-----------------------------------------------------------------------------
(* Type correctness *)

Tables ==
    /\ seat \in [Membership -> Sitting] /\ overlay \subseteq Membership
    /\ made \subseteq Properties /\ archived \subseteq Contacts
    /\ book \in [Properties -> Membership \cup {Absent}] /\ sat \in [Invites -> 0..2]

\* What is in an invitation stays, but for its marks; an accepted one stays accepted.
Kept(i) ==
    invite[i].made => /\ invite'[i].made /\ invite'[i].email = invite[i].email
                      /\ invite'[i].role = invite[i].role
                      /\ invite'[i].contact = invite[i].contact
                      /\ (invite[i].accepted => invite'[i].accepted)
Others(p) == \A q \in Requests : q # p => at'[q] = at[q] /\ req'[q] = req[q]

LEMMA TypesTables == Types => Tables
BY DEF Types, MembersTypeOK, Tables, Sitting

LEMMA SameInvites ==
    ASSUME UNCHANGED invite, Types
    PROVE  /\ invite' \in [Invites -> Invite]
           /\ \A i \in Invites : Kept(i) /\ Addressed(i)'
BY DEF Kept, Addressed, Types, MembersTypeOK

\* A request goes from one step to another, and the tables stay tables.
LEMMA Assemble ==
    ASSUME Types, NEW p \in Requests, NEW s \in Steps, NEW q \in Req,
           at' = [at EXCEPT ![p] = s], req' = [req EXCEPT ![p] = q],
           invite' \in [Invites -> Invite], \A i \in Invites : Kept(i) /\ Addressed(i)',
           Tables', Knows(p)'
    PROVE  Types'
<1>1. at' \in [Requests -> Steps] /\ req' \in [Requests -> Req] /\ Others(p)
    BY DEF Types, MembersTypeOK, Others
<1>2. \A o \in Requests : Knows(o)'
    <2> SUFFICES ASSUME NEW o \in Requests, o # p PROVE Knows(o)'
        OBVIOUS
    <2>1. at'[o] = at[o] /\ req'[o] = req[o] /\ Knows(o) BY <1>1 DEF Others, Types
    <2> QED BY <2>1 DEF Knows, Kept
<1> QED BY <1>1, <1>2 DEF Types, MembersTypeOK, Tables, Sitting

\* The same with everything but the places of requests left alone.
LEMMA AssembleAt ==
    ASSUME Types, NEW p \in Requests, NEW s \in Steps, NEW q \in Req,
           at' = [at EXCEPT ![p] = s], req' = [req EXCEPT ![p] = q],
           UNCHANGED invite, Tables', Knows(p)'
    PROVE  Types'
BY SameInvites, Assemble

LEMMA AtOnceTypes ==
    ASSUME Types, UNCHANGED <<at, req>>, Tables',
           invite' \in [Invites -> Invite], \A i \in Invites : Kept(i) /\ Addressed(i)'
    PROVE  Types'
<1>1. \A o \in Requests : Knows(o)'
    <2> SUFFICES ASSUME NEW o \in Requests PROVE Knows(o)'
        OBVIOUS
    <2>1. Knows(o) BY DEF Types
    <2> QED BY <2>1 DEF Knows, Kept
<1> QED BY <1>1 DEF Types, MembersTypeOK, Tables, Sitting

LEMMA TypesInit == MembersInit => Types
<1> SUFFICES ASSUME MembersInit PROVE Types
    OBVIOUS
<1>1. /\ \A m \in Membership : seat[m] \in Sitting
      /\ seat \in [Membership -> Sitting]
    <2>1. \A x \in {"none", "live"} : [state |-> x, contact |-> Absent] \in Sitting BY DEF Sitting
    <2> QED BY <2>1 DEF MembersInit
<1>2. /\ invite \in [Invites -> Invite] /\ \A i \in Invites : invite[i].made = FALSE
    BY NoInviteTyped DEF MembersInit, NoInvite
<1>3. /\ req \in [Requests -> Req] /\ \A p \in Requests : at[p] = "idle"
      /\ at \in [Requests -> Steps]
    BY NoInviteTyped DEF MembersInit, Steps
<1>4. Tables BY <1>1 DEF Tables, MembersInit
<1>5. \A p \in Requests : Knows(p) BY <1>3 DEF Knows, Accepting
<1>6. \A i \in Invites : Addressed(i) BY <1>2 DEF Addressed
<1> QED BY <1>2, <1>3, <1>4, <1>5, <1>6 DEF Types, MembersTypeOK, Tables, Sitting

\* The steps of the requests, each with the places it leads from and to.
LEMMA Left ==
    ASSUME Types, NEW p \in Requests, NEW from, Leave(p, from)
    PROVE  /\ at[p] = from /\ at' = [at EXCEPT ![p] = "idle"] /\ req' = [req EXCEPT ![p] = NoRequest]
           /\ at'[p] = "idle" /\ Others(p) /\ Knows(p)'
<1>1. /\ at[p] = from /\ at' = [at EXCEPT ![p] = "idle"] /\ req' = [req EXCEPT ![p] = NoRequest]
    BY DEF Leave, Ends
<1>2. at'[p] = "idle" /\ Others(p) BY <1>1 DEF Types, MembersTypeOK, Others
<1> QED BY <1>1, <1>2 DEF Knows, Accepting

LEMMA LeftTypes ==
    ASSUME Types, NEW p \in Requests, NEW from, Leave(p, from), UNCHANGED invite, Tables'
    PROVE  Types'
<1>1. "idle" \in Steps BY DEF Steps
<1> QED BY <1>1, Left, AssembleAt, NoInviteTyped

LEMMA Gone ==
    ASSUME Types, NEW p \in Requests, NEW from, NEW to, Goto(p, from, to)
    PROVE  /\ at[p] = from /\ at' = [at EXCEPT ![p] = to] /\ req' = [req EXCEPT ![p] = req[p]]
           /\ at'[p] = to /\ req'[p] = req[p] /\ Others(p) /\ req[p] \in Req
BY DEF Goto, Types, MembersTypeOK, Others

LEMMA Begun ==
    ASSUME Types, NEW p \in Requests, NEW to, NEW r, Begin(p, to, r)
    PROVE  /\ at[p] = "idle" /\ at' = [at EXCEPT ![p] = to] /\ req' = [req EXCEPT ![p] = r]
           /\ at'[p] = to /\ req'[p] = r /\ Others(p)
BY DEF Begin, Types, MembersTypeOK, Others

LEMMA TypesArrives == ASSUME Types, NEW p \in Requests, Arrives(p) PROVE Types'
<1> USE TypesTables DEF Tables
<1>1. ASSUME NEW u \in Users, NEW r \in Seats, NEW c \in Contacts \cup {Absent}, InviteMember(p, u, r, c)
      PROVE  Types'
    <2> DEFINE q == [NoRequest EXCEPT !.user = u, !.role = r, !.contact = c]
    <2>0. r \in Roles BY DEF Roles
    <2>1. q \in Req /\ q.user = u /\ q.role = r BY <2>0 DEF NoRequest, Req
    <2> HIDE DEF q
    <2>2. Begin(p, "invite", q) /\ UNCHANGED <<seat, overlay, book, made, archived, invite, history>>
        BY <1>1 DEF InviteMember, q
    <2>3. Knows(p)' BY <2>0, <2>1, <2>2, Begun DEF Knows, Accepting
    <2>4. Tables' BY <2>2 DEF history
    <2> QED BY <2>1, <2>2, <2>3, <2>4, Begun, AssembleAt DEF Steps
<1>2. ASSUME NEW i \in Invites, AcceptInvite(p, i) PROVE Types'
    <2>0. invite[i] \in Invite BY DEF Types, MembersTypeOK
    <2>1. PICK u \in Users, r \in Roles, c \in Contacts \cup {Absent} :
            /\ invite[i].made /\ u = invite[i].email /\ r = invite[i].role
            /\ c = invite[i].contact
        BY <1>2, <2>0 DEF AcceptInvite, Outstanding, Types, Addressed, Invite
    <2> DEFINE q == [NoRequest EXCEPT !.user = u, !.role = r, !.contact = c, !.invite = i]
    <2>2. q \in Req /\ q.user = u /\ q.role = r /\ q.contact = c /\ q.invite = i
        BY DEF NoRequest, Req
    <2>3. /\ Begin(p, "look", q)
          /\ UNCHANGED <<seat, overlay, book, made, archived, invite, sat>>
        BY <1>2, <2>1 DEF AcceptInvite
    <2> HIDE DEF q
    <2>4. Knows(p)' BY <2>1, <2>2, <2>3, Begun DEF Knows, Accepting
    <2>5. Tables' BY <2>3
    <2> QED BY <2>2, <2>3, <2>4, <2>5, Begun, AssembleAt DEF Steps
<1>3. ASSUME NEW by \in Managers, NEW m \in Membership, GrantBundle(p, by, m) PROVE Types'
    <2>1. PICK u \in Users, r \in Roles : u = m[1] /\ r = m[2] BY DEF Membership
    <2> DEFINE q == [NoRequest EXCEPT !.user = u, !.role = r]
    <2>2. q \in Req /\ q.user = u /\ q.role = r BY DEF NoRequest, Req
    <2> HIDE DEF q
    <2>3. Begin(p, "grant", q) /\ UNCHANGED <<seat, overlay, book, made, archived, invite, history>>
        BY <1>3, <2>1 DEF GrantBundle, q
    <2>4. Knows(p)' BY <2>1, <2>2, <2>3, Begun DEF Knows, Accepting
    <2>5. Tables' BY <2>3 DEF history
    <2> QED BY <2>2, <2>3, <2>4, <2>5, Begun, AssembleAt DEF Steps
<1>4. ASSUME NEW by \in Managers, NEW m \in Membership, AskRemoval(p, by, m) PROVE Types'
    <2>0. by \in Users BY DEF Managers
    <2>1. PICK u \in Users, r \in Roles : u = m[1] /\ r = m[2] BY DEF Membership
    <2> DEFINE q == [NoRequest EXCEPT !.by = by, !.user = u, !.role = r]
    <2>2. q \in Req /\ q.user = u /\ q.role = r /\ q.by = by BY <2>0 DEF NoRequest, Req
    <2> HIDE DEF q
    <2>3. /\ Begin(p, "remove", q) /\ m[1] # by
          /\ UNCHANGED <<seat, overlay, book, made, archived, invite, history>>
        BY <1>4, <2>1 DEF AskRemoval, Other, q
    <2>4. Knows(p)' BY <2>0, <2>1, <2>2, <2>3, Begun DEF Knows, Accepting
    <2>5. Tables' BY <2>3 DEF history
    <2> QED BY <2>2, <2>3, <2>4, <2>5, Begun, AssembleAt DEF Steps
<1>5. ASSUME NEW u \in Users, NEW x \in Properties, AssignProperty(p, u, x) PROVE Types'
    <2> DEFINE q == [NoRequest EXCEPT !.user = u, !.place = x]
    <2>1. q \in Req /\ q.user = u /\ q.place = x BY DEF NoRequest, Req
    <2> HIDE DEF q
    <2>2. /\ Begin(p, "assign", q) /\ "MANAGING_AGENT" \in Roles
          /\ UNCHANGED <<seat, overlay, book, made, archived, invite, history>>
        BY <1>5 DEF AssignProperty, Membership, q
    <2>3. Knows(p)' BY <2>1, <2>2, Begun DEF Knows, Accepting
    <2>4. Tables' BY <2>2 DEF history
    <2> QED BY <2>1, <2>2, <2>3, <2>4, Begun, AssembleAt DEF Steps
<1>6. ASSUME NEW u \in Users, NEW x \in Properties, CreateProperty(p, u, x) PROVE Types'
    <2>1. /\ made' \subseteq Properties /\ LiveSeats(u) # {}
          /\ UNCHANGED <<seat, overlay, book, archived, invite, sat>>
        BY <1>6 DEF CreateProperty, history
    <2>2. Tables' BY <2>1
    <2>3. CASE UNCHANGED <<at, req>> BY <2>1, <2>2, <2>3, SameInvites, AtOnceTypes
    <2>4. CASE /\ pickMembership(LiveSeats(u))[2] = "MANAGING_AGENT"
               /\ Begin(p, "claim", [NoRequest EXCEPT !.user = u, !.place = x])
        <3> DEFINE q == [NoRequest EXCEPT !.user = u, !.place = x]
        <3>1. q \in Req /\ q.user = u /\ q.place = x BY DEF NoRequest, Req
        <3> HIDE DEF q
        <3>2. Begin(p, "claim", q) BY <2>4 DEF q
        <3>3. pickMembership(LiveSeats(u)) \in Membership BY <2>1, Picked DEF LiveSeats
        <3>4. "MANAGING_AGENT" \in Roles BY <2>4, <3>3 DEF Membership
        <3>5. Knows(p)' BY <3>1, <3>2, <3>4, Begun DEF Knows, Accepting
        <3> QED BY <2>1, <2>2, <3>1, <3>2, <3>5, Begun, AssembleAt DEF Steps
    <2> QED BY <1>6, <2>3, <2>4 DEF CreateProperty
<1> QED BY <1>1, <1>2, <1>3, <1>4, <1>5, <1>6 DEF Arrives

LEMMA TypesFindSeat == ASSUME Types, NEW p \in Requests, FindSeat(p) PROVE Types'
<1> USE TypesTables DEF Tables
<1>1. Tables' /\ UNCHANGED invite BY DEF FindSeat, history
<1>2. at[p] = "look" BY DEF FindSeat
<1>3. ASSUME NEW m, SeatOrReactivate(p, m) PROVE Types'
    <2>1. CASE Leave(p, "look") BY <1>1, <2>1, LeftTypes
    <2>2. ASSUME NEW to \in {"create", "revive"}, Goto(p, "look", to) PROVE Types'
        <3>1. Knows(p)' BY <1>1, <2>2, Gone DEF Knows, Accepting, Types
        <3> QED BY <1>1, <2>2, <3>1, Gone, AssembleAt DEF Steps
    <2> QED BY <1>3, <2>1, <2>2 DEF SeatOrReactivate
<1>4. ASSUME NEW m \in Membership, OverlayOn(p, m) PROVE Types'
    <2>1. CASE Goto(p, "look", "accepted")
        <3>1. Knows(p)' BY <1>1, <2>1, Gone DEF Knows, Accepting, Types
        <3> QED BY <1>1, <2>1, <3>1, Gone, AssembleAt DEF Steps
    <2>2. CASE at' = [at EXCEPT ![p] = "overlay"] /\ req' = [req EXCEPT ![p].role = m[2]]
        <3> DEFINE r == req[p]
                   q == [r EXCEPT !.role = m[2]]
        <3>1. r \in Req /\ m[2] \in Roles BY DEF Types, Membership
        <3> HIDE DEF r
        <3>2. /\ q \in Req /\ q.user = r.user /\ q.role = m[2] /\ q.contact = r.contact
              /\ q.invite = r.invite
            BY <3>1 DEF Req
        <3>3. req' = [req EXCEPT ![p] = q] BY <2>2 DEF r
        <3> HIDE DEF q
        <3>4. at'[p] = "overlay" /\ req'[p] = q BY <2>2, <3>3 DEF Types, MembersTypeOK
        <3>5. Knows(p)' BY <1>1, <1>2, <3>1, <3>2, <3>4 DEF Knows, Accepting, Types, r
        <3> QED BY <1>1, <2>2, <3>2, <3>3, <3>5, AssembleAt DEF Steps
    <2> QED BY <1>4, <2>1, <2>2 DEF OverlayOn
<1>5. CASE Leave(p, "look") BY <1>1, <1>5, LeftTypes
<1>6. LiveSeats(req[p].user) # {} => pickMembership(LiveSeats(req[p].user)) \in Membership
    BY Picked DEF LiveSeats
<1> QED BY <1>3, <1>4, <1>5, <1>6 DEF FindSeat

\* What each acceptance that writes does to the tables.
Takes(p, m) ==
    /\ at[p] \in {"create", "revive"} /\ m = <<req[p].user, req[p].role>> /\ m \in Membership
    /\ at' = [at EXCEPT ![p] = "accepted"] /\ req' = [req EXCEPT ![p] = req[p]]
    /\ at'[p] = "accepted" /\ req'[p] = req[p] /\ Others(p)
    /\ seat' \in [Membership -> Sitting] /\ \A n \in Membership : n # m => seat'[n] = seat[n]
    /\ seat'[m].state = "live"
    /\ req[p].role = "LANDLORD" => seat'[m].contact = req[p].contact
    /\ sat' = [sat EXCEPT ![req[p].invite] = IF @ = 2 THEN 2 ELSE @ + 1]
    /\ UNCHANGED <<overlay, book, made, archived, invite, raced, stale, gaveUp>>

LEMMA SeatTaken ==
    ASSUME Types, NEW p \in Requests, TakeSeat(p)
    PROVE  \/ \E m \in Membership : Takes(p, m)
           \/ Leave(p, "create") /\ UNCHANGED <<seat, overlay, book, made, archived, invite, history>>
<1> DEFINE m == <<req[p].user, req[p].role>>
<1>1. CASE Leave(p, "create") /\ UNCHANGED <<seat, sat>>
    BY <1>1 DEF TakeSeat, history
<1>2. ASSUME NEW from \in {"create", "revive"}, Goto(p, from, "accepted"),
             seat' = [seat EXCEPT ![m] = Live(p, seat[m].contact)], Seated(req[p].invite)
      PROVE  Takes(p, m) /\ m \in Membership
    <2>1. Knows(p) /\ at[p] = from BY <1>2, Gone DEF Types
    <2>2. /\ req[p].invite \in Invites /\ invite[req[p].invite].made
          /\ req[p].user = invite[req[p].invite].email /\ req[p].role \in Roles
          /\ req[p].contact \in Contacts \cup {Absent}
        BY <2>1, <1>2, Gone DEF Knows, Accepting, Req
    <2>3. m \in Membership BY <2>2 DEF Types, Addressed, Membership
    <2> DEFINE s == Live(p, seat[m].contact)
    <2>4. seat[m] \in Sitting BY <2>3, TypesTables DEF Tables
    <2>5. s \in Sitting /\ s.state = "live" /\ (req[p].role = "LANDLORD" => s.contact = req[p].contact)
        BY <2>2, <2>4 DEF Live, Sitting
    <2>6. seat' = [seat EXCEPT ![m] = s] BY <1>2
    <2> HIDE DEF s
    <2>7. /\ seat' \in [Membership -> Sitting] /\ seat'[m] = s
          /\ \A n \in Membership : n # m => seat'[n] = seat[n]
        BY <2>3, <2>5, <2>6, TypesTables DEF Tables
    <2>8. sat' = [sat EXCEPT ![req[p].invite] = IF @ = 2 THEN 2 ELSE @ + 1] BY <1>2 DEF Seated
    <2> HIDE DEF m
    <2>9. UNCHANGED <<overlay, book, made, archived, invite, raced, stale, gaveUp>> BY DEF TakeSeat
    <2> QED BY <1>2, <2>1, <2>3, <2>5, <2>7, <2>8, <2>9, Gone DEF Takes, m
<1> QED BY <1>1, <1>2 DEF TakeSeat

LEMMA Counted ==
    ASSUME Types, NEW i \in Invites, sat' = [sat EXCEPT ![i] = IF @ = 2 THEN 2 ELSE @ + 1]
    PROVE  /\ sat' \in [Invites -> 0..2] /\ (sat[i] = 0 => sat'[i] = 1)
           /\ \A j \in Invites : j # i => sat'[j] = sat[j]
<1>1. sat \in [Invites -> 0..2] BY DEF Types, MembersTypeOK
<1>2. (IF sat[i] = 2 THEN 2 ELSE sat[i] + 1) \in 0..2 BY <1>1
<1> QED BY <1>1, <1>2

LEMMA TypesTakes == ASSUME Types, NEW p \in Requests, NEW m \in Membership, Takes(p, m) PROVE Types'
<1>1. Knows(p) /\ req[p] \in Req BY DEF Types
<1>2. Knows(p)' BY <1>1 DEF Takes, Knows, Accepting
<1>3. Tables' BY <1>1, Counted, TypesTables DEF Takes, Tables, Knows, Accepting
<1> QED BY <1>1, <1>2, <1>3, AssembleAt DEF Takes, Steps

LEMMA TypesContinues == ASSUME Types, NEW p \in Requests, Continues(p) PROVE Types'
<1> USE TypesTables DEF Tables
<1>0. Knows(p) /\ req[p] \in Req BY DEF Types
<1>1. CASE CreateInvite(p)
    <2>1. Leave(p, "invite") /\ UNCHANGED <<seat, overlay, book, made, archived, history>>
        BY <1>1 DEF CreateInvite
    <2>2. PICK i \in Invites :
            /\ ~invite[i].made
            /\ invite' = [invite EXCEPT ![i] = [NoInvite EXCEPT !.made = TRUE, !.email = req[p].user,
                                                    !.role = req[p].role, !.contact = req[p].contact]]
        BY <1>1 DEF CreateInvite
    <2>3. PICK u \in Users, r \in Roles, c \in Contacts \cup {Absent} :
            u = req[p].user /\ r = req[p].role /\ c = req[p].contact
        BY <1>0, <2>1, Left DEF Knows, Req
    <2> DEFINE n == [NoInvite EXCEPT !.made = TRUE, !.email = u, !.role = r, !.contact = c]
    <2>4. n \in Invite /\ n.email = u /\ n.role = r BY DEF NoInvite, Invite
    <2>5. invite' = [invite EXCEPT ![i] = n] BY <2>2, <2>3
    <2> HIDE DEF n
    <2>6. /\ invite' \in [Invites -> Invite] /\ invite'[i] = n
          /\ \A j \in Invites : j # i => invite'[j] = invite[j]
        BY <2>4, <2>5 DEF Types, MembersTypeOK
    <2>7. \A j \in Invites : Kept(j) /\ Addressed(j)'
        BY <2>2, <2>4, <2>6 DEF Kept, Addressed, Types
    <2>8. Tables' BY <2>1 DEF history
    <2> QED BY <2>1, <2>6, <2>7, <2>8, Left, Assemble, NoInviteTyped DEF Steps
<1>2. CASE FindSeat(p) BY <1>2, TypesFindSeat
<1>3. CASE TakeSeat(p)
    <2>1. CASE Leave(p, "create") /\ UNCHANGED <<seat, overlay, book, made, archived, invite, history>>
        BY <2>1, LeftTypes DEF history
    <2> QED BY <1>3, <2>1, SeatTaken, TypesTakes
<1>4. CASE TakeOverlay(p)
    <2> DEFINE m == <<req[p].user, req[p].role>>
    <2>0. UNCHANGED <<seat, book, made, archived, invite>> BY <1>4 DEF TakeOverlay
    <2>1. CASE Leave(p, "overlay") /\ UNCHANGED <<overlay, sat>> BY <2>0, <2>1, LeftTypes
    <2>2. CASE Goto(p, "overlay", "accepted") /\ overlay' = overlay \cup {m} /\ Seated(req[p].invite)
        <3>1. at[p] = "overlay" BY <2>2, Gone
        <3>2. req[p].invite \in Invites /\ m \in Membership
            BY <1>0, <3>1 DEF Knows, Accepting, Types, Addressed, Membership
        <3>3. Tables' BY <2>0, <2>2, <3>2, Counted DEF Seated
        <3>4. Knows(p)' BY <1>0, <2>0, <2>2, Gone DEF Knows, Accepting
        <3> QED BY <2>0, <2>2, <3>3, <3>4, Gone, AssembleAt DEF Steps
    <2> QED BY <1>4, <2>1, <2>2 DEF TakeOverlay
<1>5. CASE MarkAccepted(p)
    <2>1. /\ Leave(p, "accepted") /\ invite' = [invite EXCEPT ![req[p].invite].accepted = TRUE]
          /\ UNCHANGED <<seat, overlay, book, made, archived, history>>
        BY <1>5 DEF MarkAccepted, Used
    <2>2. PICK i \in Invites : i = req[p].invite BY <1>0, <2>1, Left DEF Knows, Accepting
    <2> DEFINE v == invite[i]
               e == [v EXCEPT !.accepted = TRUE]
    <2>3. v \in Invite /\ Addressed(i) BY DEF Types, MembersTypeOK
    <2> HIDE DEF v
    <2>4. /\ e \in Invite /\ e.made = v.made /\ e.email = v.email /\ e.role = v.role
          /\ e.contact = v.contact /\ e.accepted
        BY <2>3, InviteEdits
    <2>5. invite' = [invite EXCEPT ![i] = e] BY <2>1, <2>2 DEF v
    <2> HIDE DEF e
    <2>6. /\ invite' \in [Invites -> Invite] /\ invite'[i] = e
          /\ \A j \in Invites : j # i => invite'[j] = invite[j]
        BY <2>4, <2>5 DEF Types, MembersTypeOK
    <2>7. \A j \in Invites : Kept(j) /\ Addressed(j)'
        BY <2>3, <2>4, <2>6 DEF Kept, Addressed, Types, v
    <2>8. Tables' BY <2>1 DEF history
    <2> QED BY <2>1, <2>6, <2>7, <2>8, Left, Assemble, NoInviteTyped DEF Steps
<1>6. CASE CreateGrant(p)
    <2>1. /\ Leave(p, "grant") /\ overlay' = overlay \cup {<<req[p].user, req[p].role>>}
          /\ UNCHANGED <<seat, book, made, archived, invite, history>>
        BY <1>6 DEF CreateGrant
    <2>2. <<req[p].user, req[p].role>> \in Membership
        BY <1>0, <2>1, Left DEF Knows, Membership
    <2>3. Tables' BY <2>1, <2>2 DEF history
    <2> QED BY <2>1, <2>3, LeftTypes
<1>7. CASE RemoveMember(p)
    <2> DEFINE m == <<req[p].user, req[p].role>>
               s == seat[m]
               e == [s EXCEPT !.state = "revoked"]
    <2>1. /\ Leave(p, "remove") /\ seat' = [seat EXCEPT ![m].state = "revoked"]
          /\ UNCHANGED <<overlay, book, made, archived, invite, sat>>
        BY <1>7 DEF RemoveMember
    <2>2. m \in Membership BY <1>0, <2>1, Left DEF Knows, Membership
    <2>3. s \in Sitting BY <2>2
    <2> HIDE DEF m
    <2>4. seat' = [seat EXCEPT ![m] = e] BY <2>1
    <2> HIDE DEF s
    <2>5. e \in Sitting BY <2>3, SeatEdits
    <2> HIDE DEF e
    <2>6. Tables' BY <2>1, <2>4, <2>5
    <2> QED BY <2>1, <2>6, LeftTypes
<1>8. CASE CreateAssignment(p)
    <2>1. /\ Leave(p, "assign") /\ UNCHANGED <<seat, overlay, made, archived, invite, history>>
          /\ book' \in {book, [book EXCEPT ![req[p].place] = <<req[p].user, "MANAGING_AGENT">>]}
        BY <1>8 DEF CreateAssignment
    <2>2. <<req[p].user, "MANAGING_AGENT">> \in Membership
        BY <1>0, <2>1, Left DEF Knows, Membership
    <2>3. Tables' BY <2>1, <2>2 DEF history
    <2> QED BY <2>1, <2>3, LeftTypes
<1>9. CASE ClaimCreatedProperty(p)
    <2>1. /\ Leave(p, "claim") /\ UNCHANGED <<seat, overlay, made, archived, invite, history>>
          /\ book' \in {book, [book EXCEPT ![req[p].place] = <<req[p].user, "MANAGING_AGENT">>]}
        BY <1>9 DEF ClaimCreatedProperty
    <2>2. <<req[p].user, "MANAGING_AGENT">> \in Membership
        BY <1>0, <2>1, Left DEF Knows, Membership
    <2>3. Tables' BY <2>1, <2>2 DEF history
    <2> QED BY <2>1, <2>3, LeftTypes
<1> QED BY <1>1, <1>2, <1>3, <1>4, <1>5, <1>6, <1>7, <1>8, <1>9 DEF Continues

\* A mark on an invitation: taken back or run out.
Marks(i) ==
    /\ i \in Invites /\ UNCHANGED <<seat, overlay, book, made, archived, at, req, history>>
    /\ invite' \in {[invite EXCEPT ![i].revoked = TRUE], [invite EXCEPT ![i].expired = TRUE]}

LEMMA Marked ==
    ASSUME Types, NEW i \in Invites, Marks(i)
    PROVE  /\ invite' \in [Invites -> Invite]
           /\ \A j \in Invites : Kept(j) /\ Addressed(j)' /\ invite'[j].made = invite[j].made
                                 /\ invite'[j].accepted = invite[j].accepted
<1> DEFINE v == invite[i]
           e == [v EXCEPT !.revoked = TRUE]
           x == [v EXCEPT !.expired = TRUE]
<1>1. v \in Invite BY DEF Types, MembersTypeOK
<1>2. invite' = [invite EXCEPT ![i] = e] \/ invite' = [invite EXCEPT ![i] = x] BY DEF Marks
<1> HIDE DEF v
<1>a. /\ e \in Invite /\ e.made = v.made /\ e.email = v.email /\ e.role = v.role
      /\ e.contact = v.contact /\ e.accepted = v.accepted
    BY <1>1, InviteEdits
<1>b. /\ x \in Invite /\ x.made = v.made /\ x.email = v.email /\ x.role = v.role
      /\ x.contact = v.contact /\ x.accepted = v.accepted
    BY <1>1, InviteEdits
<1>4. PICK y \in {e, x} : invite' = [invite EXCEPT ![i] = y] BY <1>2
<1> HIDE DEF e, x
<1>3. \A z \in {e, x} : /\ z \in Invite /\ z.made = v.made /\ z.email = v.email /\ z.role = v.role
                        /\ z.contact = v.contact /\ z.accepted = v.accepted
    BY <1>a, <1>b
<1>5. /\ invite' \in [Invites -> Invite] /\ invite'[i] = y
      /\ \A j \in Invites : j # i => invite'[j] = invite[j]
    BY <1>3, <1>4 DEF Types, MembersTypeOK
<1> QED BY <1>3, <1>5 DEF Kept, Addressed, Types, v

LEMMA TypesAtOnce == ASSUME Types, AtOnce PROVE Types'
<1> USE TypesTables DEF Tables
<1>1. ASSUME NEW i \in Invites, Marks(i) PROVE Types'
    BY <1>1, Marked, AtOnceTypes DEF Marks, history
<1>2. ASSUME NEW by, NEW m, RevokeBundle(by, m) PROVE Types'
    BY <1>2, SameInvites, AtOnceTypes DEF RevokeBundle
<1>3. ASSUME NEW x \in Properties, RevokeProperty(x) PROVE Types'
    BY <1>3, SameInvites, AtOnceTypes DEF RevokeProperty, history
<1>4. ASSUME NEW c \in Contacts, ArchiveContact(c) PROVE Types'
    BY <1>4, SameInvites, AtOnceTypes DEF ArchiveContact, history
<1>5. \A i \in Invites : RevokeInvite(i) \/ InviteExpires(i) => Marks(i)
    BY DEF RevokeInvite, InviteExpires, Marks
<1> QED BY <1>1, <1>2, <1>3, <1>4, <1>5 DEF AtOnce

LEMMA TypesStep == Types /\ [MembersNext]_memberVars => Types'
<1> SUFFICES ASSUME Types, [MembersNext]_memberVars PROVE Types'
    OBVIOUS
<1>1. CASE UNCHANGED memberVars
    BY <1>1, SameInvites, AtOnceTypes, TypesTables DEF memberVars, Tables
<1>2. ASSUME NEW p \in Requests, Die(p) PROVE Types'
    <2>1. Leave(p, at[p]) /\ UNCHANGED <<seat, overlay, book, made, archived, invite, sat>>
        BY <1>2 DEF Die, Leave
    <2> QED BY <2>1, LeftTypes, TypesTables DEF Tables
<1> QED BY <1>1, <1>2, TypesAtOnce, TypesArrives, TypesContinues DEF MembersNext

\* Seats, overlays, invitations, the book and what requests hold keep their types.
THEOREM MembersTypeCorrect == MembersSpec => []MembersTypeOK
<1>1. MembersSpec => []Types BY TypesInit, TypesStep, PTL DEF MembersSpec
<1>2. Types => MembersTypeOK BY DEF Types
<1> QED BY <1>1, <1>2, PTL

-----------------------------------------------------------------------------
(* Kinds of steps *)

\* A step of a request that is not an acceptance, and one of none.
Aside(p) ==
    /\ at[p] \notin Accepting /\ at'[p] \notin Accepting /\ Others(p)
    /\ UNCHANGED <<seat, invite, history>> /\ overlay \subseteq overlay'
Still == UNCHANGED <<seat, invite, at, req, history>> /\ overlay \subseteq overlay'

\* What FindSeat makes of a seat: on an outstanding place, or back.
Finds(p) ==
    /\ at[p] = "look" /\ Others(p) /\ UNCHANGED <<seat, overlay, invite, history>>
    /\ \/ at'[p] = "idle"
       \/ /\ at'[p] \in {"accepted", "overlay"}
          /\ req'[p].invite = req[p].invite
       \/ /\ at'[p] \in {"create", "revive"} /\ req'[p] = req[p]
          /\ LiveSeats(req[p].user) = {}
          /\ req[p].role = "LANDLORD" => OwnerIsFree(req[p].contact)

LEMMA Found == ASSUME Types, NEW p \in Requests, FindSeat(p) PROVE Finds(p)
<1>1. at[p] = "look" /\ UNCHANGED <<seat, overlay, invite, history>> BY DEF FindSeat
<1>2. ASSUME NEW m, SeatOrReactivate(p, m)
      PROVE  /\ Others(p)
             /\ at'[p] = "idle" \/ (at'[p] \in {"create", "revive"} /\ req'[p] = req[p])
    BY <1>2, Gone, Left DEF SeatOrReactivate
<1>3. ASSUME NEW m, OverlayOn(p, m)
      PROVE  Others(p) /\ at'[p] \in {"accepted", "overlay"} /\ req'[p].invite = req[p].invite
    <2>1. CASE Goto(p, "look", "accepted") BY <2>1, Gone
    <2>2. CASE at' = [at EXCEPT ![p] = "overlay"] /\ req' = [req EXCEPT ![p].role = m[2]]
        <3> DEFINE r == req[p]
                   q == [r EXCEPT !.role = m[2]]
        <3>1. r \in Req BY DEF Types
        <3>2. req' = [req EXCEPT ![p] = q] BY <2>2
        <3> HIDE DEF r
        <3>3. q.invite = r.invite BY <3>1 DEF Req
        <3> HIDE DEF q
        <3>4. at'[p] = "overlay" /\ req'[p] = q /\ Others(p)
            BY <2>2, <3>2 DEF Types, MembersTypeOK, Others
        <3> QED BY <3>3, <3>4 DEF r
    <2> QED BY <1>3, <2>1, <2>2 DEF OverlayOn
<1>4. ASSUME Leave(p, "look") PROVE Others(p) /\ at'[p] = "idle" BY <1>4, Left
<1>5. \/ \E m : SeatOrReactivate(p, m) /\ LiveSeats(req[p].user) = {} /\ req[p].role = "ORG_ADMIN"
      \/ \E m : SeatOrReactivate(p, m) /\ LiveSeats(req[p].user) = {}
                    /\ (req[p].role = "LANDLORD" => OwnerIsFree(req[p].contact))
      \/ \E m : OverlayOn(p, m)
      \/ Leave(p, "look")
    BY DEF FindSeat, Newcomer
<1> QED BY <1>1, <1>2, <1>3, <1>4, <1>5 DEF Finds

LEMMA Kinds ==
    ASSUME Types, MembersNext
    PROVE  \/ Still
           \/ \E i \in Invites : Marks(i)
           \/ \E by \in Managers, m \in overlay : RevokeBundle(by, m)
           \/ \E p \in Requests :
                \/ Aside(p)
                \/ \E i \in Invites : AcceptInvite(p, i)
                \/ CreateInvite(p) \/ RemoveMember(p) \/ Finds(p)
                \/ \E m \in Membership : Takes(p, m)
                \/ TakeOverlay(p) \/ MarkAccepted(p) \/ Die(p)
                \/ Leave(p, "create") /\ UNCHANGED <<seat, overlay, invite, history>>
<1>1. CASE AtOnce
    <2>1. \A i \in Invites : RevokeInvite(i) \/ InviteExpires(i) => Marks(i)
        BY DEF RevokeInvite, InviteExpires, Marks
    <2>2. \A x \in Properties : RevokeProperty(x) => Still BY DEF RevokeProperty, Still
    <2>3. \A c \in Contacts : ArchiveContact(c) => Still BY DEF ArchiveContact, Still
    <2> QED BY <1>1, <2>1, <2>2, <2>3 DEF AtOnce
<1>2. ASSUME NEW p \in Requests, Arrives(p)
      PROVE  Still \/ Aside(p) \/ \E i \in Invites : AcceptInvite(p, i)
    <2>1. ASSUME NEW to \in {"invite", "grant", "remove", "assign", "claim"}, NEW r, Begin(p, to, r),
                 UNCHANGED <<seat, overlay, invite, history>>
          PROVE  Aside(p)
        BY <2>1, Begun DEF Aside, Accepting
    <2>2. \A u, r, c : InviteMember(p, u, r, c) => Aside(p)
        BY <2>1 DEF InviteMember
    <2>3. \A by, m : GrantBundle(p, by, m) => Aside(p) BY <2>1 DEF GrantBundle
    <2>4. \A by, m : AskRemoval(p, by, m) => Aside(p) BY <2>1 DEF AskRemoval
    <2>5. \A u, x : AssignProperty(p, u, x) => Aside(p) BY <2>1 DEF AssignProperty
    <2>6. \A u, x : CreateProperty(p, u, x) => Aside(p) \/ Still
        BY <2>1 DEF CreateProperty, Still
    <2> QED BY <1>2, <2>2, <2>3, <2>4, <2>5, <2>6 DEF Arrives
<1>3. ASSUME NEW p \in Requests, Continues(p)
      PROVE  \/ Aside(p) \/ CreateInvite(p) \/ RemoveMember(p) \/ Finds(p)
             \/ \E m \in Membership : Takes(p, m)
             \/ TakeOverlay(p) \/ MarkAccepted(p)
             \/ Leave(p, "create") /\ UNCHANGED <<seat, overlay, invite, history>>
    <2>1. ASSUME NEW from \in {"grant", "assign", "claim"}, Leave(p, from),
                 UNCHANGED <<seat, invite, history>>, overlay \subseteq overlay'
          PROVE  Aside(p)
        BY <2>1, Left DEF Aside, Accepting
    <2>2. CreateGrant(p) => Aside(p) BY <2>1 DEF CreateGrant
    <2>3. CreateAssignment(p) => Aside(p) BY <2>1 DEF CreateAssignment
    <2>4. ClaimCreatedProperty(p) => Aside(p) BY <2>1 DEF ClaimCreatedProperty
    <2> QED BY <1>3, <2>2, <2>3, <2>4, Found, SeatTaken DEF Continues
<1> QED BY <1>1, <1>2, <1>3 DEF MembersNext

\* No seat comes alive, and nobody gets to the brink of making one.
Calm ==
    /\ raced \subseteq raced'
    /\ \A m \in Membership : seat'[m].state = "live" => seat'[m] = seat[m]
    /\ \A p \in Requests : at'[p] \in {"create", "revive"} => at'[p] = at[p] /\ req'[p] = req[p]

\* No acceptance begins, and each keeps its invitation, which keeps its people.
Flows ==
    /\ raced \subseteq raced' /\ \A i \in Invites : Kept(i)
    /\ \A p \in Requests : at'[p] \in Accepting =>
            at[p] \in Accepting /\ req'[p].invite = req[p].invite

LEMMA AcceptFacts ==
    ASSUME Types, NEW p \in Requests, NEW i \in Invites, AcceptInvite(p, i)
    PROVE  /\ at[p] = "idle" /\ at'[p] = "look" /\ req'[p].invite = i /\ Others(p)
           /\ invite[i].made /\ ~invite[i].accepted
           /\ UNCHANGED <<seat, overlay, invite, sat, stale, gaveUp>>
           /\ raced \subseteq raced'
           /\ \A q \in Requests : at[q] \in Accepting =>
                About(i) \cap About(req[q].invite) \subseteq raced'
<1>1. at[p] = "idle" /\ at'[p] = "look" /\ Others(p) BY Begun DEF AcceptInvite
<1>2. req'[p].invite = i
    <2> DEFINE v == invite[i]
               u == v.email
               r == v.role
               c == v.contact
               q == [NoRequest EXCEPT !.user = u, !.role = r, !.contact = c, !.invite = i]
    <2>1. req'[p] = q BY Begun DEF AcceptInvite
    <2> HIDE DEF u, r, c
    <2>2. q.invite = i BY DEF NoRequest
    <2> QED BY <2>1, <2>2
<1> QED BY <1>1, <1>2 DEF AcceptInvite, Outstanding

LEMMA CreatedFacts ==
    ASSUME Types, NEW p \in Requests, CreateInvite(p)
    PROVE  /\ at[p] = "invite" /\ at'[p] = "idle" /\ Others(p)
           /\ UNCHANGED <<seat, overlay, history>> /\ \A i \in Invites : Kept(i)
<1>1. /\ Leave(p, "invite") /\ UNCHANGED <<seat, overlay, history>>
    BY DEF CreateInvite
<1>2. PICK i \in Invites : ~invite[i].made /\ \A j \in Invites : j # i => invite'[j] = invite[j]
    BY DEF CreateInvite, Types, MembersTypeOK
<1> QED BY <1>1, <1>2, Left DEF Kept

LEMMA RemovedFacts ==
    ASSUME Types, NEW p \in Requests, RemoveMember(p)
    PROVE  LET m == <<req[p].user, req[p].role>> IN
           /\ at[p] = "remove" /\ at'[p] = "idle" /\ Others(p) /\ m \in Membership
           /\ seat'[m].state = "revoked" /\ \A n \in Membership : n # m => seat'[n] = seat[n]
           /\ UNCHANGED <<overlay, invite, sat, raced, gaveUp>>
           /\ req[p].by \in Users /\ req[p].by # req[p].user
           /\ (stale' \/ HasPower(req[p].by)) /\ (stale => stale')
<1> DEFINE m == <<req[p].user, req[p].role>>
           s == seat[m]
           e == [s EXCEPT !.state = "revoked"]
<1>1. Leave(p, "remove") /\ seat' = [seat EXCEPT ![m].state = "revoked"] BY DEF RemoveMember
<1>2. at[p] = "remove" /\ at'[p] = "idle" /\ Others(p) /\ Knows(p) BY <1>1, Left DEF Types
<1>3. m \in Membership /\ req[p].by \in Users /\ req[p].by # req[p].user
    BY <1>2 DEF Knows, Membership
<1>4. s \in Sitting BY <1>3, TypesTables DEF Tables
<1> HIDE DEF m
<1>5. seat' = [seat EXCEPT ![m] = e] BY <1>1
<1> HIDE DEF s
<1>6. e.state = "revoked" BY <1>4, SeatEdits
<1> HIDE DEF e
<1>7. seat'[m] = e /\ \A n \in Membership : n # m => seat'[n] = seat[n]
    BY <1>3, <1>5, TypesTables DEF Tables
<1>8. UNCHANGED <<overlay, invite, sat, raced, gaveUp>> /\ stale' = (stale \/ ~HasPower(req[p].by))
    BY DEF RemoveMember
<1>9. (stale' \/ HasPower(req[p].by)) /\ (stale => stale') BY <1>8, Zenon
<1> QED BY <1>2, <1>3, <1>6, <1>7, <1>8, <1>9 DEF m

LEMMA OverlayFacts ==
    ASSUME Types, NEW p \in Requests, TakeOverlay(p)
    PROVE  /\ at[p] = "overlay" /\ Others(p) /\ overlay \subseteq overlay'
           /\ UNCHANGED <<seat, invite, raced, stale, gaveUp>>
           /\ \/ at'[p] = "idle" /\ UNCHANGED sat
              \/ at'[p] = "accepted" /\ req'[p] = req[p] /\ Seated(req[p].invite)
BY Left, Gone DEF TakeOverlay

LEMMA MarkedFacts ==
    ASSUME Types, NEW p \in Requests, MarkAccepted(p)
    PROVE  /\ at[p] = "accepted" /\ at'[p] = "idle" /\ Others(p)
           /\ UNCHANGED <<seat, overlay, history>> /\ \A i \in Invites : Kept(i)
           /\ invite'[req[p].invite].accepted /\ req[p].invite \in Invites
<1>1. /\ Leave(p, "accepted") /\ invite' = [invite EXCEPT ![req[p].invite].accepted = TRUE]
      /\ UNCHANGED <<seat, overlay, history>>
    BY DEF MarkAccepted, Used
<1>2. PICK i \in Invites : i = req[p].invite BY <1>1, Left DEF Types, Knows, Accepting
<1> DEFINE v == invite[i]
           e == [v EXCEPT !.accepted = TRUE]
<1>3. v \in Invite BY DEF Types, MembersTypeOK
<1>4. invite' = [invite EXCEPT ![i] = e] BY <1>1, <1>2
<1> HIDE DEF v
<1>5. e.made = v.made /\ e.email = v.email /\ e.role = v.role /\ e.contact = v.contact /\ e.accepted
    BY <1>3, InviteEdits
<1> HIDE DEF e
<1>6. invite'[i] = e /\ \A j \in Invites : j # i => invite'[j] = invite[j]
    BY <1>4 DEF Types, MembersTypeOK
<1> QED BY <1>1, <1>2, <1>5, <1>6, Left DEF Kept, v

LEMMA DiedFacts ==
    ASSUME Types, NEW p \in Requests, Die(p)
    PROVE  /\ at'[p] = "idle" /\ Others(p) /\ UNCHANGED <<seat, overlay, invite, sat, stale, gaveUp>>
           /\ raced \subseteq raced' /\ (at[p] \in Accepting => req[p].invite \in raced')
<1>1. Leave(p, at[p]) BY DEF Die, Leave
<1>2. at[p] \in Accepting => req[p].invite # Absent
    BY MembersAssumption DEF Types, Knows
<1> QED BY <1>1, <1>2, Left DEF Die

LEMMA BundleFacts ==
    ASSUME NEW by, NEW m, RevokeBundle(by, m)
    PROVE  /\ overlay' = overlay \ {m} /\ (gaveUp' \/ m[1] # by) /\ (gaveUp => gaveUp')
           /\ UNCHANGED <<seat, invite, at, req, sat, raced, stale>>
<1>1. gaveUp' = (gaveUp \/ m[1] = by) BY DEF RevokeBundle
<1>2. (gaveUp' \/ m[1] # by) /\ (gaveUp => gaveUp') BY <1>1, Zenon
<1> QED BY <1>2 DEF RevokeBundle

\* All but the finding and the taking of seats is calm, and all but the beginning
\* of an acceptance flows.
LEMMA CalmKinds ==
    ASSUME Types, MembersNext
    PROVE  \/ Calm /\ \A m \in Membership : seat'[m].state = "live" <=> seat[m].state = "live"
           \/ Calm /\ \E p \in Requests : RemoveMember(p)
           \/ \E p \in Requests : Finds(p)
           \/ \E p \in Requests, m \in Membership : Takes(p, m)
<1>1. ASSUME NEW p \in Requests, Others(p), at'[p] \notin {"create", "revive"}, UNCHANGED seat,
             raced \subseteq raced'
      PROVE  Calm /\ \A m \in Membership : seat'[m].state = "live" <=> seat[m].state = "live"
    BY <1>1 DEF Calm, Others
<1>2. ASSUME UNCHANGED <<at, req, seat>>, raced \subseteq raced'
      PROVE  Calm /\ \A m \in Membership : seat'[m].state = "live" <=> seat[m].state = "live"
    BY <1>2 DEF Calm
<1>3. CASE Still BY <1>3, <1>2 DEF Still, history
<1>4. ASSUME NEW i \in Invites, Marks(i) PROVE Calm /\ UNCHANGED seat
    BY <1>4, <1>2 DEF Marks, history
<1>5. ASSUME NEW by, NEW m, RevokeBundle(by, m) PROVE Calm /\ UNCHANGED seat
    BY <1>5, <1>2, BundleFacts
<1>6. ASSUME NEW p \in Requests, Aside(p) PROVE Calm /\ UNCHANGED seat
    BY <1>6, <1>1 DEF Aside, Accepting, history
<1>7. ASSUME NEW p \in Requests, NEW i \in Invites, AcceptInvite(p, i) PROVE Calm /\ UNCHANGED seat
    BY <1>7, <1>1, AcceptFacts
<1>8. ASSUME NEW p \in Requests, CreateInvite(p) PROVE Calm /\ UNCHANGED seat
    BY <1>8, <1>1, CreatedFacts DEF history
<1>9. ASSUME NEW p \in Requests, RemoveMember(p) PROVE Calm
    BY <1>9, RemovedFacts DEF Calm, Others
<1>10. ASSUME NEW p \in Requests, TakeOverlay(p) PROVE Calm /\ UNCHANGED seat
    BY <1>10, <1>1, OverlayFacts
<1>11. ASSUME NEW p \in Requests, MarkAccepted(p) PROVE Calm /\ UNCHANGED seat
    BY <1>11, <1>1, MarkedFacts DEF history
<1>12. ASSUME NEW p \in Requests, Die(p) PROVE Calm /\ UNCHANGED seat
    BY <1>12, <1>1, DiedFacts
<1>13. ASSUME NEW p \in Requests, Leave(p, "create"), UNCHANGED <<seat, overlay, invite, history>>
       PROVE  Calm /\ UNCHANGED seat
    BY <1>13, <1>1, Left DEF history
<1> QED BY Kinds, <1>3, <1>4, <1>5, <1>6, <1>7, <1>8, <1>9, <1>10, <1>11, <1>12, <1>13

LEMMA FlowKinds ==
    ASSUME Types, MembersNext
    PROVE  Flows \/ \E p \in Requests, i \in Invites : AcceptInvite(p, i)
<1>0. UNCHANGED invite => \A i \in Invites : Kept(i) BY DEF Kept
<1>1. ASSUME NEW p \in Requests, Others(p), \A i \in Invites : Kept(i), raced \subseteq raced',
             at'[p] \in Accepting => at[p] \in Accepting /\ req'[p].invite = req[p].invite
      PROVE  Flows
    BY <1>1 DEF Flows, Others
<1>2. ASSUME UNCHANGED <<at, req>>, raced \subseteq raced', \A i \in Invites : Kept(i)
      PROVE  Flows
    BY <1>2 DEF Flows
<1>3. CASE Still BY <1>3, <1>2, <1>0 DEF Still, history
<1>4. ASSUME NEW i \in Invites, Marks(i) PROVE Flows
    BY <1>4, <1>2, Marked DEF Marks, history
<1>5. ASSUME NEW by, NEW m, RevokeBundle(by, m) PROVE Flows
    BY <1>5, <1>2, <1>0, BundleFacts
<1>6. ASSUME NEW p \in Requests, Aside(p) PROVE Flows
    BY <1>6, <1>1, <1>0 DEF Aside, history
<1>8. ASSUME NEW p \in Requests, CreateInvite(p) PROVE Flows
    BY <1>8, <1>1, CreatedFacts DEF history, Accepting
<1>9. ASSUME NEW p \in Requests, RemoveMember(p) PROVE Flows
    BY <1>9, <1>1, <1>0, RemovedFacts DEF Accepting
<1>10. ASSUME NEW p \in Requests, TakeOverlay(p) PROVE Flows
    BY <1>10, <1>1, <1>0, OverlayFacts DEF Accepting
<1>11. ASSUME NEW p \in Requests, MarkAccepted(p) PROVE Flows
    BY <1>11, <1>1, MarkedFacts DEF history, Accepting
<1>12. ASSUME NEW p \in Requests, Die(p) PROVE Flows
    BY <1>12, <1>1, <1>0, DiedFacts DEF Accepting
<1>13. ASSUME NEW p \in Requests, Leave(p, "create"), UNCHANGED <<seat, overlay, invite, history>>
       PROVE  Flows
    BY <1>13, <1>1, <1>0, Left DEF history, Accepting
<1>14. ASSUME NEW p \in Requests, Finds(p) PROVE Flows
    BY <1>14, <1>1, <1>0 DEF Finds, history, Accepting
<1>15. ASSUME NEW p \in Requests, NEW m, Takes(p, m) PROVE Flows
    BY <1>15, <1>1, <1>0 DEF Takes, Accepting
<1> QED BY Kinds, <1>3, <1>4, <1>5, <1>6, <1>8, <1>9, <1>10, <1>11, <1>12, <1>13, <1>14, <1>15

-----------------------------------------------------------------------------
(* Acceptances that meet *)

\* Two acceptances under way that share a person, a contact or an invitation have
\* been noted.
Meeting ==
    \A p \in Requests, q \in Requests :
        p # q /\ at[p] \in Accepting /\ at[q] \in Accepting =>
            About(req[p].invite) \cap About(req[q].invite) \subseteq raced

LEMMA MeetingInit == MembersInit => Meeting
BY DEF MembersInit, Meeting, Accepting

LEMMA AboutKept ==
    ASSUME Types, NEW i \in Invites, invite[i].made, Kept(i)
    PROVE  About(i)' = About(i)
BY DEF Kept, About

LEMMA MeetingStep == Types /\ Meeting /\ [MembersNext]_memberVars => Meeting'
<1> SUFFICES ASSUME Types, Meeting, [MembersNext]_memberVars PROVE Meeting'
    OBVIOUS
<1>1. CASE UNCHANGED memberVars BY <1>1 DEF memberVars, Meeting, About
<1>0. \A p \in Requests : at[p] \in Accepting =>
        req[p].invite \in Invites /\ invite[req[p].invite].made
    BY DEF Types, Knows
<1>2. CASE Flows
    <2> SUFFICES ASSUME NEW p \in Requests, NEW q \in Requests, p # q, at'[p] \in Accepting,
                        at'[q] \in Accepting
                 PROVE  About(req[p].invite)' \cap About(req[q].invite)' \subseteq raced'
        BY DEF Meeting
    <2>1. /\ at[p] \in Accepting /\ req'[p].invite = req[p].invite
          /\ at[q] \in Accepting /\ req'[q].invite = req[q].invite
        BY <1>2 DEF Flows
    <2>2. /\ About(req[p].invite)' = About(req[p].invite)
          /\ About(req[q].invite)' = About(req[q].invite)
        BY <1>0, <1>2, <2>1 DEF Flows, About, Kept
    <2> QED BY <1>2, <2>1, <2>2 DEF Flows, Meeting
<1>3. ASSUME NEW o \in Requests, NEW i \in Invites, AcceptInvite(o, i) PROVE Meeting'
    <2> SUFFICES ASSUME NEW p \in Requests, NEW q \in Requests, p # q, at'[p] \in Accepting,
                        at'[q] \in Accepting
                 PROVE  About(req[p].invite)' \cap About(req[q].invite)' \subseteq raced'
        BY DEF Meeting
    <2>1. /\ req'[o].invite = i /\ Others(o) /\ raced \subseteq raced'
          /\ \A r \in Requests : at[r] \in Accepting => About(i) \cap About(req[r].invite) \subseteq raced'
          /\ UNCHANGED invite
        BY <1>3, AcceptFacts
    <2>2. About(req[p].invite)' = About(req'[p].invite) /\ About(req[q].invite)' = About(req'[q].invite)
        BY <2>1 DEF About
    <2>3. CASE p = o
        <3>1. req'[p].invite = i /\ at[q] \in Accepting /\ req'[q] = req[q] BY <2>1, <2>3 DEF Others
        <3> QED BY <2>1, <2>2, <3>1
    <2>4. CASE q = o
        <3>1. req'[q].invite = i /\ at[p] \in Accepting /\ req'[p] = req[p] BY <2>1, <2>4 DEF Others
        <3> QED BY <2>1, <2>2, <3>1
    <2>5. CASE p # o /\ q # o
        <3>1. at'[p] = at[p] /\ req'[p] = req[p] /\ at'[q] = at[q] /\ req'[q] = req[q]
            BY <2>1, <2>5 DEF Others
        <3> QED BY <2>1, <2>2, <3>1 DEF Meeting
    <2> QED BY <2>3, <2>4, <2>5
<1> QED BY <1>1, <1>2, <1>3, FlowKinds

-----------------------------------------------------------------------------
(* An invitation seats someone once: while its acceptance has not written, it *)
(* has seated nobody, and once it has, it is marked or about to be.           *)

Seating == {"look", "create", "revive", "overlay"}
Once ==
    \A i \in Invites \ raced :
        /\ sat[i] \in {0, 1}
        /\ sat[i] = 1 => /\ invite[i].made
                         /\ \/ invite[i].accepted
                            \/ \E p \in Requests : at[p] = "accepted" /\ req[p].invite = i
        /\ \A p \in Requests : at[p] \in Seating /\ req[p].invite = i => sat[i] = 0

LEMMA OnceInit == MembersInit => Once
BY DEF MembersInit, Once, Seating

LEMMA OnceKept ==
    ASSUME Types, Once, UNCHANGED sat, raced \subseteq raced', \A i \in Invites : Kept(i),
           \A p \in Requests : at'[p] \in Seating => at[p] \in Seating /\ req'[p].invite = req[p].invite,
           \A p \in Requests : at[p] = "accepted" =>
                \/ at'[p] = "accepted" /\ req'[p].invite = req[p].invite
                \/ req[p].invite \in raced' \/ invite'[req[p].invite].accepted
    PROVE  Once'
<1> SUFFICES ASSUME NEW i \in Invites, i \notin raced'
             PROVE  /\ sat'[i] \in {0, 1}
                    /\ sat'[i] = 1 =>
                        /\ invite'[i].made
                        /\ \/ invite'[i].accepted
                           \/ \E p \in Requests : at'[p] = "accepted" /\ req'[p].invite = i
                    /\ \A p \in Requests : at'[p] \in Seating /\ req'[p].invite = i => sat'[i] = 0
    BY DEF Once
<1>1. /\ sat[i] \in {0, 1} /\ sat' = sat
      /\ sat[i] = 1 => /\ invite[i].made
                       /\ \/ invite[i].accepted
                          \/ \E p \in Requests : at[p] = "accepted" /\ req[p].invite = i
      /\ \A p \in Requests : at[p] \in Seating /\ req[p].invite = i => sat[i] = 0
    BY DEF Once
<1>2. Kept(i) OBVIOUS
<1>3. CASE sat[i] = 1
    <2>1. invite'[i].made BY <1>1, <1>2, <1>3 DEF Kept
    <2>2. CASE invite[i].accepted BY <1>1, <1>2, <1>3, <2>1, <2>2 DEF Kept
    <2>3. ASSUME NEW p \in Requests, at[p] = "accepted", req[p].invite = i
          PROVE  invite'[i].accepted \/ (at'[p] = "accepted" /\ req'[p].invite = i)
        BY <2>3
    <2> QED BY <1>1, <1>3, <2>1, <2>2, <2>3
<1>4. CASE sat[i] = 0 BY <1>1, <1>4
<1> QED BY <1>1, <1>3, <1>4

LEMMA Alone ==
    ASSUME Types, Meeting, NEW p \in Requests, at[p] \in Accepting,
           NEW q \in Requests, q # p, at[q] \in Accepting, req[p].invite \notin raced
    PROVE  req[q].invite # req[p].invite
<1>1. req[p].invite \in Invites /\ req[p].invite # Absent BY MembersAssumption DEF Types, Knows
<1>2. req[p].invite \in About(req[p].invite) BY <1>1 DEF About
<1> QED BY <1>2 DEF Meeting

LEMMA OnceCounted ==
    ASSUME Types, Once, Meeting, NEW p \in Requests, at[p] \in Seating, at'[p] = "accepted",
           req'[p] = req[p], Others(p), UNCHANGED <<invite, raced>>,
           sat' = [sat EXCEPT ![req[p].invite] = IF @ = 2 THEN 2 ELSE @ + 1]
    PROVE  Once'
<1> DEFINE j == req[p].invite
<1>1. j \in Invites /\ invite[j].made /\ at[p] \in Accepting
    BY DEF Types, Knows, Accepting, Seating
<1>2. (sat[j] = 0 => sat'[j] = 1) /\ \A i \in Invites : i # j => sat'[i] = sat[i]
    BY <1>1, Counted
<1>3. ASSUME NEW i \in Invites, i \notin raced
      PROVE  /\ sat'[i] \in {0, 1}
             /\ sat'[i] = 1 =>
                  /\ invite'[i].made
                  /\ \/ invite'[i].accepted
                     \/ \E q \in Requests : at'[q] = "accepted" /\ req'[q].invite = i
             /\ \A q \in Requests : at'[q] \in Seating /\ req'[q].invite = i => sat'[i] = 0
    <2>1. CASE i = j
        <3>1. sat[j] = 0 BY <1>3, <2>1 DEF Once
        <3>2. sat'[j] = 1 BY <1>2, <3>1
        <3>3. \A q \in Requests : at'[q] \in Seating => req'[q].invite # j
            <4> SUFFICES ASSUME NEW q \in Requests, at'[q] \in Seating PROVE req'[q].invite # j
                OBVIOUS
            <4>1. q # p BY DEF Seating
            <4>2. at[q] = at'[q] /\ req'[q] = req[q] /\ at[q] \in Accepting
                BY <4>1 DEF Others, Seating, Accepting
            <4> QED BY <1>1, <1>3, <2>1, <4>1, <4>2, Alone
        <3> QED BY <1>1, <2>1, <3>2, <3>3
    <2>2. CASE i # j
        <3>1. sat'[i] = sat[i] BY <1>2, <2>2
        <3>2. \A q \in Requests : req'[q].invite = i => at'[q] = at[q] /\ req'[q] = req[q]
            BY <2>2 DEF Others
        <3>3. \A q \in Requests : req[q].invite = i => at'[q] = at[q] /\ req'[q] = req[q]
            BY <2>2 DEF Others
        <3> QED BY <1>3, <3>1, <3>2, <3>3 DEF Once
    <2> QED BY <2>1, <2>2
<1> QED BY <1>3 DEF Once

LEMMA OnceStep == Types /\ Meeting /\ Once /\ [MembersNext]_memberVars => Once'
<1> SUFFICES ASSUME Types, Meeting, Once, [MembersNext]_memberVars PROVE Once'
    OBVIOUS
<1>0. UNCHANGED invite => \A i \in Invites : Kept(i) BY DEF Kept
\* Steps of no acceptance, and steps of one that leave it before or in the same place.
<1>1. ASSUME UNCHANGED <<sat, at, req>>, raced \subseteq raced', \A i \in Invites : Kept(i)
      PROVE  Once'
    BY <1>1, OnceKept
<1>2. ASSUME NEW p \in Requests, Others(p), UNCHANGED sat, raced \subseteq raced',
             \A i \in Invites : Kept(i),
             at'[p] \in Seating => at[p] \in Seating /\ req'[p].invite = req[p].invite,
             at[p] = "accepted" => req[p].invite \in raced' \/ invite'[req[p].invite].accepted
      PROVE  Once'
    BY <1>2, OnceKept DEF Others
<1>3. CASE UNCHANGED memberVars BY <1>3, <1>0, <1>1 DEF memberVars
<1>4. CASE Still BY <1>4, <1>0, <1>1 DEF Still, history
<1>5. ASSUME NEW i \in Invites, Marks(i) PROVE Once'
    BY <1>5, <1>1, Marked DEF Marks, history
<1>6. ASSUME NEW by, NEW m, RevokeBundle(by, m) PROVE Once'
    BY <1>6, <1>1, <1>0, BundleFacts
<1>7. ASSUME NEW p \in Requests, Aside(p) PROVE Once'
    BY <1>7, <1>2, <1>0 DEF Aside, history, Accepting, Seating
<1>8. ASSUME NEW p \in Requests, NEW i \in Invites, AcceptInvite(p, i) PROVE Once'
    <2>1. /\ at'[p] = "look" /\ req'[p].invite = i /\ Others(p) /\ at[p] = "idle"
          /\ invite[i].made /\ ~invite[i].accepted /\ UNCHANGED <<invite, sat>> /\ raced \subseteq raced'
          /\ \A q \in Requests : at[q] \in Accepting => About(i) \cap About(req[q].invite) \subseteq raced'
        BY <1>8, AcceptFacts
    <2>2. i \notin raced' => sat[i] = 0
        <3> SUFFICES ASSUME i \notin raced', sat[i] # 0 PROVE FALSE
            OBVIOUS
        <3>1. PICK q \in Requests : at[q] = "accepted" /\ req[q].invite = i BY <2>1 DEF Once
        <3>2. i \in About(i) BY MembersAssumption DEF About
        <3>3. About(i) \cap About(req[q].invite) \subseteq raced' BY <2>1, <3>1 DEF Accepting
        <3> QED BY <3>1, <3>2, <3>3
    <2>3. ASSUME NEW j \in Invites, j \notin raced'
          PROVE  /\ sat'[j] \in {0, 1}
                 /\ sat'[j] = 1 =>
                      /\ invite'[j].made
                      /\ \/ invite'[j].accepted
                         \/ \E q \in Requests : at'[q] = "accepted" /\ req'[q].invite = j
                 /\ \A q \in Requests : at'[q] \in Seating /\ req'[q].invite = j => sat'[j] = 0
        <3>1. \A q \in Requests : at[q] = "accepted" => at'[q] = at[q] /\ req'[q] = req[q]
            BY <2>1 DEF Others
        <3>2. \A q \in Requests : at'[q] \in Seating /\ req'[q].invite = j =>
                    j = i \/ (at[q] \in Seating /\ req[q].invite = j)
            BY <2>1 DEF Others
        <3> QED BY <2>1, <2>2, <2>3, <3>1, <3>2 DEF Once
    <2> QED BY <2>3 DEF Once
<1>9. ASSUME NEW p \in Requests, CreateInvite(p) PROVE Once'
    BY <1>9, <1>2, CreatedFacts DEF history, Seating
<1>10. ASSUME NEW p \in Requests, RemoveMember(p) PROVE Once'
    BY <1>10, <1>2, <1>0, RemovedFacts DEF Seating
<1>11. ASSUME NEW p \in Requests, Finds(p) PROVE Once'
    BY <1>11, <1>2, <1>0 DEF Finds, history, Seating
<1>12. ASSUME NEW p \in Requests, NEW m \in Membership, Takes(p, m) PROVE Once'
    BY <1>12, OnceCounted DEF Takes, Seating
<1>13. ASSUME NEW p \in Requests, TakeOverlay(p) PROVE Once'
    <2>1. CASE at'[p] = "idle" /\ UNCHANGED sat
        BY <1>13, <2>1, <1>2, <1>0, OverlayFacts DEF Seating
    <2>2. CASE at'[p] = "accepted" /\ req'[p] = req[p] /\ Seated(req[p].invite)
        BY <1>13, <2>2, OnceCounted, OverlayFacts DEF Seating, Seated
    <2> QED BY <1>13, <2>1, <2>2, OverlayFacts
<1>14. ASSUME NEW p \in Requests, MarkAccepted(p) PROVE Once'
    BY <1>14, <1>2, MarkedFacts DEF history, Seating
<1>15. ASSUME NEW p \in Requests, Die(p) PROVE Once'
    BY <1>15, <1>2, <1>0, DiedFacts DEF Seating, Accepting
<1>16. ASSUME NEW p \in Requests, Leave(p, "create"), UNCHANGED <<seat, overlay, invite, history>>
       PROVE  Once'
    BY <1>16, <1>2, <1>0, Left DEF history, Seating
<1> QED BY Kinds, <1>3, <1>4, <1>5, <1>6, <1>7, <1>8, <1>9, <1>10, <1>11, <1>12, <1>13, <1>14, <1>15, <1>16

\* However often its link is opened, and whoever is removed and invited again, an
\* invitation seats someone at most once, for any number of people, invitations
\* and requests, unless two acceptances of it met or one died before it was
\* marked (members.ts:306-384).
THEOREM InviteOnceHolds == MembersSpec => []InviteOnce
<1>1. Types /\ Once => InviteOnce BY DEF Once, InviteOnce
<1>2. MembersSpec => [](Types /\ Meeting /\ Once)
    BY TypesInit, TypesStep, MeetingInit, MeetingStep, OnceInit, OnceStep, PTL DEF MembersSpec
<1> QED BY <1>1, <1>2, PTL

-----------------------------------------------------------------------------
(* One seat: on the brink of taking one, a person has none, and nobody acts    *)
(* for the owner whose seat it is.                                             *)

IsLive(m) == seat[m].state = "live"
Person ==
    \A u \in Users \ raced :
        /\ \A m \in Membership, n \in Membership :
            m[1] = u /\ n[1] = u /\ IsLive(m) /\ IsLive(n) => m = n
        /\ \A p \in Requests : at[p] \in {"create", "revive"} /\ req[p].user = u =>
            \A m \in Membership : m[1] = u => ~IsLive(m)

Acts(m, c) == m[2] = "LANDLORD" /\ IsLive(m) /\ seat[m].contact = c
Owner ==
    \A c \in Contacts \ raced :
        /\ \A m \in Membership, n \in Membership : Acts(m, c) /\ Acts(n, c) => m = n
        /\ \A p \in Requests :
            at[p] \in {"create", "revive"} /\ req[p].role = "LANDLORD" /\ req[p].contact = c =>
                \A m \in Membership : ~Acts(m, c)

LEMMA SeatsInit == MembersInit => Person /\ Owner
<1> SUFFICES ASSUME MembersInit PROVE Person /\ Owner
    OBVIOUS
<1>1. \A m \in Membership : IsLive(m) => m = <<Principal, "WORKSPACE_ADMIN">> BY DEF MembersInit, IsLive
<1>2. \A p \in Requests : at[p] = "idle" BY DEF MembersInit
<1>3. Person BY <1>1, <1>2 DEF Person
<1>4. Owner BY <1>1, <1>2 DEF Owner, Acts
<1> QED BY <1>3, <1>4

LEMMA SeatsCalm == ASSUME Types, Person, Owner, Calm PROVE Person' /\ Owner'
<1>1. /\ raced \subseteq raced'
      /\ \A m \in Membership : IsLive(m)' => seat'[m] = seat[m] /\ IsLive(m)
      /\ \A p \in Requests : at'[p] \in {"create", "revive"} => at'[p] = at[p] /\ req'[p] = req[p]
    BY DEF Calm, IsLive
<1>2. Person' BY <1>1 DEF Person
<1>3. \A m \in Membership : \A c : Acts(m, c)' => Acts(m, c) BY <1>1 DEF Acts, IsLive
<1>4. Owner' BY <1>1, <1>3 DEF Owner
<1> QED BY <1>2, <1>4

LEMMA SeatsFound ==
    ASSUME Types, Person, Owner, NEW p \in Requests, Finds(p) PROVE Person' /\ Owner'
<1>1. /\ UNCHANGED <<seat, raced>>
      /\ \A q \in Requests : q # p => at'[q] = at[q] /\ req'[q] = req[q]
      /\ at'[p] \in {"create", "revive"} =>
            /\ req'[p] = req[p] /\ LiveSeats(req[p].user) = {}
            /\ req[p].role = "LANDLORD" => OwnerIsFree(req[p].contact)
    BY DEF Finds, history, Others
<1>2. \A m \in Membership : \A c : (IsLive(m)' <=> IsLive(m)) /\ (Acts(m, c)' <=> Acts(m, c))
    BY <1>1 DEF IsLive, Acts
<1>3. at'[p] \in {"create", "revive"} =>
        \A m \in Membership : m[1] = req[p].user => ~IsLive(m)
    BY <1>1 DEF LiveSeats, IsLive
<1>4. ASSUME NEW c, OwnerIsFree(c), NEW m \in Membership, Acts(m, c) PROVE FALSE
    <2>1. PICK u \in Users : m = <<u, "LANDLORD">> BY <1>4 DEF Acts, Membership
    <2>2. seat[m] \in Sitting BY TypesTables DEF Tables
    <2>3. seat[m] = [state |-> "live", contact |-> c] BY <1>4, <2>2 DEF Acts, IsLive, Sitting
    <2> QED BY <1>4, <2>1, <2>3 DEF OwnerIsFree
<1>5. Person'
    <2> SUFFICES ASSUME NEW u \in Users, u \notin raced
                 PROVE  /\ \A m \in Membership, n \in Membership :
                            m[1] = u /\ n[1] = u /\ IsLive(m)' /\ IsLive(n)' => m = n
                        /\ \A q \in Requests : at'[q] \in {"create", "revive"} /\ req'[q].user = u =>
                            \A m \in Membership : m[1] = u => ~IsLive(m)'
        BY <1>1 DEF Person
    <2> QED BY <1>1, <1>2, <1>3 DEF Person
<1>6. Owner'
    <2> SUFFICES ASSUME NEW c \in Contacts, c \notin raced
                 PROVE  /\ \A m \in Membership, n \in Membership : Acts(m, c)' /\ Acts(n, c)' => m = n
                        /\ \A q \in Requests :
                            at'[q] \in {"create", "revive"} /\ req'[q].role = "LANDLORD"
                                /\ req'[q].contact = c =>
                                    \A m \in Membership : ~Acts(m, c)'
        BY <1>1 DEF Owner
    <2> QED BY <1>1, <1>2, <1>4 DEF Owner
<1> QED BY <1>5, <1>6

LEMMA SeatsTaken ==
    ASSUME Types, Meeting, Person, Owner, NEW p \in Requests, NEW m \in Membership, Takes(p, m)
    PROVE  Person' /\ Owner'
<1>1. /\ at[p] \in {"create", "revive"} /\ m[1] = req[p].user /\ m[2] = req[p].role
      /\ at'[p] = "accepted" /\ UNCHANGED raced
      /\ \A q \in Requests : q # p => at'[q] = at[q] /\ req'[q] = req[q]
      /\ \A n \in Membership : n # m => seat'[n] = seat[n]
      /\ req[p].role = "LANDLORD" => seat'[m].contact = req[p].contact
    BY DEF Takes, Others
<1>2. \A q \in Requests : at[q] \in {"create", "revive"} =>
        /\ at[q] \in Accepting /\ req[q].user \in Users
        /\ req[q].user \in About(req[q].invite)
        /\ req[q].contact \in Contacts => req[q].contact \in About(req[q].invite)
    BY MembersAssumption DEF Types, Knows, Addressed, Accepting, About
\* Nobody else is on the brink for the same person or owner, unless noted.
<1>3. ASSUME NEW q \in Requests, at'[q] \in {"create", "revive"}
      PROVE  /\ at[q] = at'[q] /\ req'[q] = req[q]
             /\ req[q].user = req[p].user => req[p].user \in raced
             /\ req[q].contact = req[p].contact /\ req[p].contact \in Contacts =>
                    req[p].contact \in raced
    <2>1. q # p /\ at[q] = at'[q] /\ req'[q] = req[q] BY <1>1, <1>3
    <2>2. About(req[q].invite) \cap About(req[p].invite) \subseteq raced
        BY <1>1, <1>2, <1>3, <2>1 DEF Meeting
    <2> QED BY <1>1, <1>2, <1>3, <2>1, <2>2
<1>4. \A n \in Membership : \A c : n # m => (IsLive(n)' <=> IsLive(n)) /\ (Acts(n, c)' <=> Acts(n, c))
    BY <1>1 DEF IsLive, Acts
<1>5. Person'
    <2> SUFFICES ASSUME NEW u \in Users, u \notin raced
                 PROVE  /\ \A n \in Membership, o \in Membership :
                            n[1] = u /\ o[1] = u /\ IsLive(n)' /\ IsLive(o)' => n = o
                        /\ \A q \in Requests : at'[q] \in {"create", "revive"} /\ req'[q].user = u =>
                            \A n \in Membership : n[1] = u => ~IsLive(n)'
        BY <1>1 DEF Person
    <2>1. CASE u = req[p].user
        <3>1. \A n \in Membership : n[1] = u => ~IsLive(n) BY <1>1, <2>1 DEF Person
        <3>2. \A q \in Requests : at'[q] \in {"create", "revive"} => req'[q].user # u BY <1>3, <2>1
        <3> QED BY <1>4, <3>1, <3>2
    <2>2. CASE u # req[p].user
        <3>1. \A n \in Membership : n[1] = u => (IsLive(n)' <=> IsLive(n)) BY <1>1, <1>4, <2>2
        <3> QED BY <1>3, <3>1 DEF Person
    <2> QED BY <2>1, <2>2
<1>6. Owner'
    <2> SUFFICES ASSUME NEW c \in Contacts, c \notin raced
                 PROVE  /\ \A n \in Membership, o \in Membership : Acts(n, c)' /\ Acts(o, c)' => n = o
                        /\ \A q \in Requests :
                            at'[q] \in {"create", "revive"} /\ req'[q].role = "LANDLORD"
                                /\ req'[q].contact = c =>
                                    \A n \in Membership : ~Acts(n, c)'
        BY <1>1 DEF Owner
    <2>1. CASE req[p].role = "LANDLORD" /\ req[p].contact = c
        <3>1. \A n \in Membership : ~Acts(n, c) BY <1>1, <2>1 DEF Owner
        <3>2. \A q \in Requests : at'[q] \in {"create", "revive"} => req'[q].contact # c
            BY <1>3, <2>1
        <3> QED BY <1>4, <3>1, <3>2
    <2>2. CASE ~(req[p].role = "LANDLORD" /\ req[p].contact = c)
        <3>1. ~Acts(m, c)' BY <1>1, <2>2 DEF Acts
        <3>2. \A n \in Membership : Acts(n, c)' => Acts(n, c) BY <1>4, <3>1
        <3> QED BY <1>3, <3>2 DEF Owner
    <2> QED BY <2>1, <2>2
<1> QED BY <1>5, <1>6

LEMMA SeatsStep ==
    Types /\ Meeting /\ Person /\ Owner /\ [MembersNext]_memberVars => Person' /\ Owner'
<1> SUFFICES ASSUME Types, Meeting, Person, Owner, [MembersNext]_memberVars PROVE Person' /\ Owner'
    OBVIOUS
<1>1. CASE UNCHANGED memberVars
    <2>1. Calm BY <1>1 DEF memberVars, Calm
    <2> QED BY <2>1, SeatsCalm
<1> QED BY <1>1, CalmKinds, SeatsCalm, SeatsFound, SeatsTaken

\* A set in which any two are the same has at most one.
LEMMA AtMostOne ==
    ASSUME NEW S, \A x \in S, y \in S : x = y PROVE Cardinality(S) <= 1
<1>1. CASE S = {} BY <1>1, FS_EmptySet
<1>2. CASE S # {}
    <2> PICK x \in S : TRUE BY <1>2
    <2>1. S = {x} OBVIOUS
    <2> QED BY <2>1, FS_Singleton
<1> QED BY <1>1, <1>2

\* A person has at most one live seat and an owner at most one acting for it,
\* through any sequence of invitations, removals and reactivations, for any number
\* of everything, unless two acceptances for them met (members.ts:253-395).
THEOREM OneSeatHolds == MembersSpec => []OneSeat
<1>1. Person /\ Owner => OneSeat
    <2> SUFFICES ASSUME Person, Owner PROVE OneSeat
        OBVIOUS
    <2>1. ASSUME NEW u \in Users \ raced PROVE Cardinality(LiveSeats(u)) <= 1
        <3>1. \A m \in LiveSeats(u), n \in LiveSeats(u) : m = n BY DEF Person, LiveSeats, IsLive
        <3> QED BY <3>1, AtMostOne
    <2>2. ASSUME NEW c \in Contacts \ raced
          PROVE  Cardinality({m \in Membership : m[2] = "LANDLORD" /\ seat[m].state = "live"
                                                    /\ seat[m].contact = c}) <= 1
        <3> DEFINE S == {m \in Membership : m[2] = "LANDLORD" /\ seat[m].state = "live"
                                                /\ seat[m].contact = c}
        <3>1. \A m \in S, n \in S : m = n BY DEF Owner, Acts, IsLive
        <3> HIDE DEF S
        <3>2. Cardinality(S) <= 1 BY <3>1, AtMostOne
        <3> QED BY <3>2 DEF S
    <2> QED BY <2>1, <2>2 DEF OneSeat
<1>2. MembersSpec => [](Types /\ Meeting /\ Person /\ Owner)
    BY TypesInit, TypesStep, MeetingInit, MeetingStep, SeatsInit, SeatsStep, PTL DEF MembersSpec
<1> QED BY <1>1, <1>2, PTL

\* Seats and invitations together, as the run checks them (members.ts:253-395).
THEOREM SeatedOnceHolds == MembersSpec => []SeatedOnce
BY OneSeatHolds, InviteOnceHolds, PTL DEF SeatedOnce

-----------------------------------------------------------------------------
(* Somebody governs *)

LEMMA PowerFrom ==
    ASSUME NEW u \in Users, HasPower(u), overlay \subseteq overlay', LiveSeats(u)' = LiveSeats(u)
    PROVE  HasPower(u)'
BY DEF HasPower

LEMMA LiveSame ==
    ASSUME NEW u \in Users, \A m \in Membership : m[1] = u => seat'[m] = seat[m]
    PROVE  LiveSeats(u)' = LiveSeats(u)
BY DEF LiveSeats

LEMMA GovernedInit == MembersInit => Governed
<1> SUFFICES ASSUME MembersInit PROVE HasPower(Principal)
    BY MembersAssumption DEF Governed
<1> DEFINE m == <<Principal, "WORKSPACE_ADMIN">>
<1>1. m \in Membership BY MembersAssumption DEF Membership, Roles
<1>2. LiveSeats(Principal) = {m} BY <1>1 DEF MembersInit, LiveSeats
<1>3. pickMembership(LiveSeats(Principal)) = m BY <1>1, <1>2, Picked
<1> QED BY <1>2, <1>3 DEF HasPower

LEMMA GovernedStep ==
    Types /\ Meeting /\ Person /\ Governed /\ [MembersNext]_memberVars => Governed'
<1> SUFFICES ASSUME Types, Meeting, Person, Governed, [MembersNext]_memberVars PROVE Governed'
    OBVIOUS
\* Seats are left alone, and no overlay is taken.
<1>1. ASSUME UNCHANGED seat, overlay \subseteq overlay', UNCHANGED <<stale, gaveUp>>,
             raced \subseteq raced'
      PROVE  Governed'
    <2>1. CASE gaveUp \/ stale BY <1>1, <2>1, Zenon DEF Governed
    <2>2. CASE raced \cap Users # {} BY <1>1, <2>2 DEF Governed
    <2>3. ASSUME NEW u \in Users, HasPower(u) PROVE Governed'
        BY <1>1, <2>3, PowerFrom, LiveSame DEF Governed
    <2> QED BY <2>1, <2>2, <2>3 DEF Governed
<1>2. CASE UNCHANGED memberVars BY <1>2, <1>1 DEF memberVars
<1>3. CASE Still BY <1>3, <1>1 DEF Still, history
<1>4. ASSUME NEW i \in Invites, Marks(i) PROVE Governed' BY <1>4, <1>1 DEF Marks, history
<1>5. ASSUME NEW by \in Managers, NEW m \in overlay, RevokeBundle(by, m) PROVE Governed'
    <2>1. /\ overlay' = overlay \ {m} /\ UNCHANGED <<seat, stale, raced>>
          /\ gaveUp' \/ m[1] # by
        BY <1>5, BundleFacts
    <2>2. CASE gaveUp' BY <2>2 DEF Governed
    <2>3. CASE m[1] # by
        <3> DEFINE n == pickMembership(LiveSeats(by))
        <3>1. by \in Users /\ HasPower(by) BY DEF Managers
        <3>2. LiveSeats(by) # {} /\ LiveSeats(by)' = LiveSeats(by)
            BY <2>1, <3>1, LiveSame DEF HasPower
        <3>3. n \in LiveSeats(by) BY <3>2, Picked DEF LiveSeats
        <3>4. n # m BY <2>3, <3>3 DEF LiveSeats
        <3>5. n[2] \in {"WORKSPACE_ADMIN", "ORG_ADMIN"} \/ n \in overlay BY <3>1 DEF HasPower
        <3>6. HasPower(by)' BY <2>1, <3>2, <3>4, <3>5 DEF HasPower
        <3> QED BY <3>1, <3>6 DEF Governed
    <2> QED BY <2>1, <2>2, <2>3
<1>6. ASSUME NEW p \in Requests, Aside(p) PROVE Governed' BY <1>6, <1>1 DEF Aside, history
<1>7. ASSUME NEW p \in Requests, NEW i \in Invites, AcceptInvite(p, i) PROVE Governed'
    BY <1>7, <1>1, AcceptFacts
<1>8. ASSUME NEW p \in Requests, CreateInvite(p) PROVE Governed'
    BY <1>8, <1>1, CreatedFacts DEF history
<1>9. ASSUME NEW p \in Requests, RemoveMember(p) PROVE Governed'
    <2> DEFINE m == <<req[p].user, req[p].role>>
    <2>1. /\ overlay' = overlay /\ req[p].by \in Users /\ req[p].by # req[p].user
          /\ stale' \/ HasPower(req[p].by)
          /\ \A n \in Membership : n # m => seat'[n] = seat[n]
        BY <1>9, RemovedFacts
    <2>2. m[1] = req[p].user OBVIOUS
    <2> HIDE DEF m
    <2>3. PICK b \in Users : b = req[p].by BY <2>1
    <2>4. CASE stale' BY <2>4 DEF Governed
    <2>5. CASE HasPower(req[p].by)
        <3>1. HasPower(b) BY <2>3, <2>5
        <3>2. \A n \in Membership : n[1] = b => seat'[n] = seat[n] BY <2>1, <2>2, <2>3
        <3>3. LiveSeats(b)' = LiveSeats(b) BY <3>2, LiveSame
        <3>4. HasPower(b)' BY <2>1, <3>1, <3>3, PowerFrom
        <3> QED BY <3>4 DEF Governed
    <2> QED BY <2>1, <2>4, <2>5
<1>10. ASSUME NEW p \in Requests, Finds(p) PROVE Governed'
    BY <1>10, <1>1 DEF Finds, history
<1>11. ASSUME NEW p \in Requests, NEW m \in Membership, Takes(p, m) PROVE Governed'
    <2>1. /\ at[p] \in {"create", "revive"} /\ m[1] = req[p].user
          /\ \A n \in Membership : n # m => seat'[n] = seat[n]
          /\ UNCHANGED <<overlay, raced, stale, gaveUp>>
        BY <1>11 DEF Takes
    <2>2. CASE gaveUp \/ stale BY <2>1, <2>2, Zenon DEF Governed
    <2>3. CASE raced \cap Users # {} BY <2>1, <2>3 DEF Governed
    <2>4. ASSUME raced \cap Users = {}, NEW u \in Users, HasPower(u) PROVE Governed'
        <3>1. u # req[p].user
            <4>1. LiveSeats(u) # {} /\ u \notin raced BY <2>4 DEF HasPower
            <4> QED BY <2>1, <4>1 DEF Person, LiveSeats, IsLive
        <3>2. LiveSeats(u)' = LiveSeats(u) BY <2>1, <3>1, LiveSame
        <3> QED BY <2>1, <2>4, <3>2, PowerFrom DEF Governed
    <2> QED BY <2>2, <2>3, <2>4 DEF Governed
<1>12. ASSUME NEW p \in Requests, TakeOverlay(p) PROVE Governed'
    BY <1>12, <1>1, OverlayFacts
<1>13. ASSUME NEW p \in Requests, MarkAccepted(p) PROVE Governed'
    BY <1>13, <1>1, MarkedFacts DEF history
<1>14. ASSUME NEW p \in Requests, Die(p) PROVE Governed' BY <1>14, <1>1, DiedFacts
<1>15. ASSUME NEW p \in Requests, Leave(p, "create"), UNCHANGED <<seat, overlay, invite, history>>
       PROVE  Governed'
    BY <1>15, <1>1 DEF history
<1> QED BY Kinds, <1>2, <1>3, <1>4, <1>5, <1>6, <1>7, <1>8, <1>9, <1>10, <1>11, <1>12, <1>13, <1>14, <1>15

\* Whatever is granted, revoked and removed, by any number of people, somebody who
\* manages the workspace remains, unless somebody took back an overlay of their
\* own, or a remover had lost the power meanwhile, or two acceptances for one
\* person met (members.ts:424-493).
THEOREM GovernedHolds == MembersSpec => []Governed
<1>1. MembersSpec => [](Types /\ Meeting /\ Person /\ Owner /\ Governed)
    BY TypesInit, TypesStep, MeetingInit, MeetingStep, SeatsInit, SeatsStep, GovernedInit,
       GovernedStep, PTL DEF MembersSpec
<1> QED BY <1>1, PTL

-----------------------------------------------------------------------------

(***************************************************************************)
(* SignIn                                                                  *)
(***************************************************************************)
Reads == [count : Nat, lock : {"none", "ahead", "passed"}, right : BOOLEAN, token : SUBSET Tokens]

SignInTypes ==
    /\ SignInTypeOK
    /\ seen \in [Attempts -> Reads]
    /\ \A p \in Attempts : doing[p] = "change" => \E k \in Tokens : seen[p].token = {k}

-----------------------------------------------------------------------------
(* Type correctness *)

LEMMA UnreadReads == Unread \in Reads
BY DEF Unread, Reads

LEMMA RowEdits ==
    ASSUME NEW r \in Row
    PROVE  LET e == [r EXCEPT !.expired = TRUE]
               m == [r EXCEPT !.made = TRUE]
               u == [r EXCEPT !.used = TRUE, !.changes = @ + 1] IN
           /\ e \in Row /\ e.made = r.made /\ e.used = r.used /\ e.expired /\ e.changes = r.changes
           /\ m \in Row /\ m.made /\ m.used = r.used /\ m.expired = r.expired /\ m.changes = r.changes
           /\ u \in Row /\ u.made = r.made /\ u.used /\ u.expired = r.expired
           /\ u.changes = r.changes + 1
<1> DEFINE e == [r EXCEPT !.expired = TRUE]
           m == [r EXCEPT !.made = TRUE]
           v == [r EXCEPT !.used = TRUE]
           u == [v EXCEPT !.changes = @ + 1]
<1>1. e \in Row /\ e.made = r.made /\ e.used = r.used /\ e.expired = TRUE /\ e.changes = r.changes
    BY DEF Row
<1>2. m \in Row /\ m.made = TRUE /\ m.used = r.used /\ m.expired = r.expired /\ m.changes = r.changes
    BY DEF Row
<1>3. v \in Row /\ v.made = r.made /\ v.used = TRUE /\ v.expired = r.expired /\ v.changes = r.changes
    BY DEF Row
<1> HIDE DEF v
<1>4. u \in Row /\ u.made = r.made /\ u.used = TRUE /\ u.expired = r.expired
      /\ u.changes = r.changes + 1
    BY <1>3 DEF Row
<1> QED BY <1>1, <1>2, <1>4 DEF v

LEMMA SpentRows ==
    ASSUME token \in [Tokens -> Row], NEW k \in Tokens
    PROVE  /\ Spent(k) \in [Tokens -> Row]
           /\ \A l \in Tokens \ {k} : Spent(k)[l] = IF Usable(l) THEN [token[l] EXCEPT !.expired = TRUE]
                                                    ELSE token[l]
           /\ Spent(k)[k] = [token[k] EXCEPT !.used = TRUE, !.changes = @ + 1]
<1> DEFINE e == Expired(Tokens \ {k})
<1> DEFINE r == [token[k] EXCEPT !.used = TRUE, !.changes = @ + 1]
<1>1. \A l \in Tokens : token[l] \in Row OBVIOUS
<1>2. r \in Row BY <1>1, RowEdits
<1>3. \A l \in Tokens : [token[l] EXCEPT !.expired = TRUE] \in Row BY <1>1, RowEdits
<1>4. e \in [Tokens -> Row] BY <1>3 DEF Expired
<1>5. e[k] = token[k] BY DEF Expired
<1>6. \A l \in Tokens \ {k} : e[l] = IF Usable(l) THEN [token[l] EXCEPT !.expired = TRUE] ELSE token[l]
    BY DEF Expired
<1>7. Spent(k) = [e EXCEPT ![k] = [e[k] EXCEPT !.used = TRUE, !.changes = @ + 1]]
    BY <1>4, <1>5, <1>1 DEF Spent, Row
<1>8. Spent(k) = [e EXCEPT ![k] = r] BY <1>7, <1>5
<1> HIDE DEF e, r
<1>9. /\ [e EXCEPT ![k] = r] \in [Tokens -> Row]
      /\ [e EXCEPT ![k] = r][k] = r
      /\ \A l \in Tokens \ {k} : [e EXCEPT ![k] = r][l] = e[l]
    BY <1>2, <1>4
<1> QED BY <1>6, <1>8, <1>9 DEF r

LEMMA ExpiredRows ==
    ASSUME token \in [Tokens -> Row], NEW S \in SUBSET Tokens
    PROVE  /\ Expired(S) \in [Tokens -> Row]
           /\ \A l \in Tokens : Expired(S)[l] = IF l \in S /\ Usable(l)
                                                THEN [token[l] EXCEPT !.expired = TRUE] ELSE token[l]
<1>1. \A l \in Tokens : token[l] \in Row /\ [token[l] EXCEPT !.expired = TRUE] \in Row BY RowEdits
<1> QED BY <1>1 DEF Expired

LEMMA SignInTypesInit == SignInInit => SignInTypes
<1>1. [made |-> FALSE, used |-> FALSE, expired |-> FALSE, changes |-> 0] \in Row BY DEF Row
<1> DEFINE r == [made |-> FALSE, used |-> FALSE, expired |-> FALSE, changes |-> 0]
<1> HIDE DEF r
<1>2. SignInInit => token = [k \in Tokens |-> r] BY DEF SignInInit, r
<1>3. r \in Row BY <1>1 DEF r
<1>4. SignInInit => /\ count = 0 /\ lock = "none" /\ fresh = FALSE /\ wrong = 0 /\ due = FALSE
                    /\ mixed = {} /\ doing = [p \in Attempts |-> "idle"]
                    /\ seen = [p \in Attempts |-> Unread]
    BY DEF SignInInit
<1>5. SignInInit => token \in [Tokens -> Row] BY <1>2, <1>3
<1>6. SignInInit => seen \in [Attempts -> Reads] BY <1>4, UnreadReads
<1>7. SignInInit => /\ doing \in [Attempts -> {"idle"} \cup LoginSteps \cup ResetSteps]
                    /\ \A p \in Attempts : doing[p] # "change"
    BY <1>4
<1>8. SignInInit => /\ count \in Nat /\ wrong \in Nat /\ lock \in {"none", "ahead", "passed"}
                    /\ mixed \subseteq {"login", "reset"}
    BY <1>4
<1>9. SignInInit => fresh \in BOOLEAN /\ due \in BOOLEAN BY <1>4
<1> QED BY <1>5, <1>6, <1>7, <1>8, <1>9 DEF SignInTypes, SignInTypeOK

LEMMA SignInTypesStep == SignInTypes /\ [SignInNext]_signInVars => SignInTypes'
<1> SUFFICES ASSUME SignInTypes, [SignInNext]_signInVars PROVE SignInTypes'
    OBVIOUS
<1> USE SignInAssumption, UnreadReads
<1>1. CASE UNCHANGED signInVars BY <1>1 DEF signInVars, SignInTypes, SignInTypeOK
<1>2. CASE LockEnds BY <1>2 DEF LockEnds, SignInTypes, SignInTypeOK
<1>3. CASE CooldownEnds BY <1>3 DEF CooldownEnds, SignInTypes, SignInTypeOK
<1>4. CASE \E k \in Tokens : TokenExpires(k)
    <2> PICK k \in Tokens : TokenExpires(k) BY <1>4
    <2>1. [token[k] EXCEPT !.expired = TRUE] \in Row BY RowEdits DEF SignInTypes, SignInTypeOK
    <2>2. token' = [token EXCEPT ![k] = [token[k] EXCEPT !.expired = TRUE]]
        BY DEF TokenExpires, SignInTypes, SignInTypeOK
    <2> QED BY <2>1, <2>2 DEF TokenExpires, SignInTypes, SignInTypeOK
<1>5. ASSUME NEW p \in Attempts, ReadUser(p) PROVE SignInTypes'
    <2>1. PICK right \in BOOLEAN :
            Arrive(p, "verify", [Unread EXCEPT !.count = count, !.lock = lock, !.right = right])
        BY <1>5 DEF ReadUser
    <2> DEFINE s == [Unread EXCEPT !.count = count, !.lock = lock, !.right = right]
    <2>2. s \in Reads BY DEF Unread, Reads, SignInTypes, SignInTypeOK
    <2> HIDE DEF s
    <2> QED BY <1>5, <2>1, <2>2
            DEF ReadUser, Arrive, Mix, s, SignInTypes, SignInTypeOK, LoginSteps, ResetSteps
<1>6. ASSUME NEW p \in Attempts, Refuse(p) PROVE SignInTypes'
    <2>1. seen[p] \in Reads BY DEF SignInTypes
    <2>1a. /\ doing' = [doing EXCEPT ![p] = "idle"] /\ seen' = [seen EXCEPT ![p] = Unread]
           /\ UNCHANGED <<token, fresh, mixed>>
        BY <1>6 DEF Refuse, Depart
    <2>2. /\ count' \in Nat /\ wrong' \in Nat /\ due' \in BOOLEAN
          /\ lock' \in {"none", "ahead", "passed"}
        <3>1. CASE Locked(p) BY <1>6, <3>1 DEF Refuse, SignInTypes, SignInTypeOK
        <3>2. CASE ~Locked(p)
            <4> DEFINE n == seen[p].count + 1
            <4>1. n \in Nat /\ seen[p].lock \in {"none", "ahead", "passed"} BY <2>1 DEF Reads
            <4>2. /\ count' = n /\ wrong' = wrong + 1
                  /\ lock' = IF AtLimit(n) THEN "ahead" ELSE seen[p].lock
                  /\ due' = (due \/ wrong' >= MAX_LOGIN_FAILURES)
                BY <1>6, <3>2 DEF Refuse
            <4> HIDE DEF n
            <4> QED BY <4>1, <4>2 DEF SignInTypes, SignInTypeOK
        <3> QED BY <3>1, <3>2
    <2> QED BY <2>1a, <2>2 DEF SignInTypes, SignInTypeOK
<1>7. ASSUME NEW p \in Attempts, Accept(p) PROVE SignInTypes'
    BY <1>7 DEF Accept, Depart, SignInTypes, SignInTypeOK
<1>8. ASSUME NEW p \in Attempts, RequestReset(p) PROVE SignInTypes'
    BY <1>8 DEF RequestReset, Arrive, Mix, SignInTypes, SignInTypeOK, LoginSteps, ResetSteps
<1>9. ASSUME NEW p \in Attempts, ExpirePrior(p) PROVE SignInTypes'
    <2>1. token' \in [Tokens -> Row] BY <1>9, ExpiredRows DEF ExpirePrior, Prior, SignInTypes, SignInTypeOK
    <2> QED BY <1>9, <2>1 DEF ExpirePrior, SignInTypes, SignInTypeOK, LoginSteps, ResetSteps
<1>10. ASSUME NEW p \in Attempts, MintToken(p) PROVE SignInTypes'
    <2>1. PICK k \in Tokens : token' = [token EXCEPT ![k].made = TRUE] BY <1>10 DEF MintToken
    <2>2. [token[k] EXCEPT !.made = TRUE] \in Row BY RowEdits DEF SignInTypes, SignInTypeOK
    <2>3. token' = [token EXCEPT ![k] = [token[k] EXCEPT !.made = TRUE]] BY <2>1
    <2> QED BY <1>10, <2>2, <2>3 DEF MintToken, Depart, SignInTypes, SignInTypeOK
<1>11. ASSUME NEW p \in Attempts, NEW k \in Tokens, PresentToken(p, k) PROVE SignInTypes'
    <2> DEFINE s == [Unread EXCEPT !.token = {k}]
    <2>1. s \in Reads /\ s.token = {k} BY DEF Unread, Reads
    <2> HIDE DEF s
    <2> QED BY <1>11, <2>1 DEF PresentToken, Arrive, Mix, s, SignInTypes, SignInTypeOK, LoginSteps, ResetSteps
<1>12. ASSUME NEW p \in Attempts, ChangePassword(p) PROVE SignInTypes'
    <2>1. PICK k \in Tokens : seen[p].token = {k} BY <1>12 DEF ChangePassword, Depart, SignInTypes
    <2>2. token' = Spent(k) BY <1>12, <2>1 DEF ChangePassword
    <2>3. token' \in [Tokens -> Row] BY <2>2, SpentRows DEF SignInTypes, SignInTypeOK
    <2> QED BY <1>12, <2>3 DEF ChangePassword, Depart, SignInTypes, SignInTypeOK
<1>13. ASSUME NEW p \in Attempts, DieSigningIn(p) PROVE SignInTypes'
    BY <1>13 DEF DieSigningIn, Depart, SignInTypes, SignInTypeOK
<1> QED BY <1>1, <1>2, <1>3, <1>4, <1>5, <1>6, <1>7, <1>8, <1>9, <1>10, <1>11, <1>12, <1>13
        DEF SignInNext

\* The counter, the lock, the tokens and what the requests read keep their types,
\* and a request about to change the password holds one token.
THEOREM SignInTypeCorrect == SignInSpec => []SignInTypeOK
<1>1. SignInSpec => []SignInTypes BY SignInTypesInit, SignInTypesStep, PTL DEF SignInSpec
<1>2. SignInTypes => SignInTypeOK BY DEF SignInTypes
<1> QED BY <1>1, <1>2, PTL

-----------------------------------------------------------------------------
(* The lock.  While no login has met another one, or a password change, what *)
(* the one under way has read is what the row holds, and the counter is the  *)
(* number of wrong answers.                                                  *)

Meets(p, q) == doing[p] = "verify" /\ doing[q] \in {"verify", "change"}
Current(p) == /\ seen[p].count = count
              /\ seen[p].lock = lock \/ (seen[p].lock = "ahead" /\ lock = "passed")
LockInv ==
    "login" \notin mixed =>
        /\ count = wrong
        /\ due => lock = "ahead"
        /\ \A p \in Attempts, q \in Attempts : Meets(p, q) => p = q
        /\ \A p \in Attempts : doing[p] = "verify" => Current(p)

LEMMA LockInit == SignInInit => LockInv
<1>1. SignInInit => /\ count = 0 /\ wrong = 0 /\ due = FALSE /\ doing = [p \in Attempts |-> "idle"]
    BY DEF SignInInit
<1> QED BY <1>1 DEF LockInv, Meets

LEMMA LockStep == SignInTypes /\ LockInv /\ [SignInNext]_signInVars => LockInv'
<1> SUFFICES ASSUME SignInTypes, LockInv, [SignInNext]_signInVars, "login" \notin mixed'
             PROVE  LockInv'
    BY DEF LockInv
<1> USE SignInAssumption
\* Nothing that LockInv speaks of changes but the requests' places, and none enters "verify".
<1>0. ASSUME UNCHANGED <<count, wrong, lock, due, mixed>>,
             \A q \in Attempts : /\ doing'[q] \in {"verify", "change"} => doing'[q] = doing[q]
                                 /\ doing'[q] = "verify" => seen'[q] = seen[q]
      PROVE  LockInv'
    <2>1. count' = wrong' /\ (due => lock = "ahead")' BY <1>0, Zenon DEF LockInv
    <2>a. /\ \A p \in Attempts, q \in Attempts : Meets(p, q) => p = q
          /\ \A p \in Attempts : doing[p] = "verify" => Current(p)
        BY <1>0, Zenon DEF LockInv
    <2>2. ASSUME NEW p \in Attempts, NEW q \in Attempts, Meets(p, q)' PROVE p = q
        <3>1. doing[p] = "verify" /\ doing[q] \in {"verify", "change"} BY <1>0, <2>2 DEF Meets
        <3> QED BY <3>1, <2>a DEF Meets
    <2>3. ASSUME NEW p \in Attempts, doing'[p] = "verify" PROVE Current(p)'
        <3>1. doing[p] = "verify" /\ seen'[p] = seen[p] BY <1>0, <2>3
        <3> QED BY <1>0, <3>1, <2>a DEF Current
    <2> QED BY <2>1, <2>2, <2>3 DEF LockInv
<1>1. CASE UNCHANGED signInVars BY <1>1, <1>0 DEF signInVars
<1>2. CASE LockEnds
    <2>1. /\ lock = "ahead" /\ lock' = "passed" /\ due' = FALSE /\ "login" \notin mixed
          /\ UNCHANGED <<count, wrong, doing, seen>>
        BY <1>2 DEF LockEnds
    <2>2. \A p \in Attempts : doing[p] = "verify" => Current(p)'
        BY <2>1 DEF LockInv, Current
    <2>3. count' = wrong' /\ \A p \in Attempts, q \in Attempts : Meets(p, q)' => p = q
        BY <2>1 DEF LockInv, Meets
    <2>4. \A p \in Attempts : (doing[p] = "verify")' => Current(p)' BY <2>1, <2>2
    <2>5. (due => lock = "ahead")' BY <2>1
    <2> QED BY <2>3, <2>4, <2>5 DEF LockInv
<1>3. CASE CooldownEnds BY <1>3, <1>0 DEF CooldownEnds
<1>4. CASE \E k \in Tokens : TokenExpires(k) BY <1>4, <1>0 DEF TokenExpires
<1>5. ASSUME NEW p \in Attempts, ReadUser(p) PROVE LockInv'
    <2>1. PICK right \in BOOLEAN :
            Arrive(p, "verify", [Unread EXCEPT !.count = count, !.lock = lock, !.right = right])
        BY <1>5 DEF ReadUser
    <2> DEFINE s == [Unread EXCEPT !.count = count, !.lock = lock, !.right = right]
    <2>2. s.count = count /\ s.lock = lock BY DEF Unread
    <2> HIDE DEF s
    <2>3. /\ doing[p] = "idle" /\ doing' = [doing EXCEPT ![p] = "verify"]
          /\ seen' = [seen EXCEPT ![p] = s] /\ UNCHANGED <<count, lock, wrong, due>>
        BY <1>5, <2>1 DEF ReadUser, Arrive, s
    <2>4. "login" \notin mixed /\ \A q \in Attempts : doing[q] \notin {"verify", "change"}
        BY <1>5 DEF ReadUser, Mix, LoginSteps
    <2>5. /\ doing'[p] = "verify" /\ seen'[p] = s
          /\ \A q \in Attempts : q # p => doing'[q] = doing[q] /\ seen'[q] = seen[q]
        BY <2>3 DEF SignInTypes, SignInTypeOK
    <2> QED BY <2>2, <2>3, <2>4, <2>5 DEF LockInv, Meets, Current
<1>6. ASSUME NEW p \in Attempts, Refuse(p) PROVE LockInv'
    <2>1. /\ doing[p] = "verify" /\ "login" \notin mixed
          /\ doing' = [doing EXCEPT ![p] = "idle"] /\ seen' = [seen EXCEPT ![p] = Unread]
        BY <1>6 DEF Refuse, Depart
    <2>2. \A q \in Attempts : doing'[q] # "verify"
        BY <2>1 DEF SignInTypes, SignInTypeOK, LockInv, Meets
    <2>3. CASE Locked(p) BY <1>6, <2>1, <2>2, <2>3 DEF Refuse, LockInv, Meets
    <2>4. CASE ~Locked(p)
        <3> DEFINE n == seen[p].count + 1
        <3>1. /\ n = count + 1 /\ n \in Nat /\ count = wrong /\ (due => lock = "ahead")
              /\ seen[p].lock # "ahead" /\ lock = seen[p].lock
            BY <2>1, <2>4 DEF LockInv, Current, Locked, SignInTypes, SignInTypeOK
        <3>2. /\ count' = n /\ wrong' = wrong + 1
              /\ lock' = IF n >= MAX_LOGIN_FAILURES THEN "ahead" ELSE seen[p].lock
              /\ due' = (due \/ wrong' >= MAX_LOGIN_FAILURES)
            BY <1>6, <2>4 DEF Refuse, AtLimit
        <3> HIDE DEF n
        <3>3. count' = wrong' /\ (due' => lock' = "ahead") BY <3>1, <3>2
        <3> QED BY <2>2, <3>3 DEF LockInv, Meets
    <2> QED BY <2>3, <2>4
<1>7. ASSUME NEW p \in Attempts, Accept(p) PROVE LockInv'
    <2>1. /\ doing[p] = "verify" /\ "login" \notin mixed
          /\ doing' = [doing EXCEPT ![p] = "idle"] /\ count' = 0 /\ wrong' = 0 /\ due' = FALSE
        BY <1>7 DEF Accept, Depart
    <2>2. \A q \in Attempts : doing'[q] # "verify"
        BY <2>1 DEF SignInTypes, SignInTypeOK, LockInv, Meets
    <2> QED BY <2>1, <2>2 DEF LockInv, Meets
<1>8. ASSUME NEW p \in Attempts, RequestReset(p) PROVE LockInv'
    <2>1. /\ "login" \notin mixed /\ UNCHANGED <<count, lock, wrong, due>>
          /\ \A q \in Attempts : doing'[q] \in {"verify", "change"} =>
                doing'[q] = doing[q] /\ seen'[q] = seen[q]
        BY <1>8 DEF RequestReset, Arrive, Mix, SignInTypes, SignInTypeOK
    <2> QED BY <2>1 DEF LockInv, Meets, Current
<1>9. ASSUME NEW p \in Attempts, ExpirePrior(p) PROVE LockInv'
    BY <1>9, <1>0 DEF ExpirePrior, SignInTypes, SignInTypeOK
<1>10. ASSUME NEW p \in Attempts, MintToken(p) PROVE LockInv'
    BY <1>10, <1>0 DEF MintToken, Depart, SignInTypes, SignInTypeOK
<1>11. ASSUME NEW p \in Attempts, NEW k \in Tokens, PresentToken(p, k) PROVE LockInv'
    <2>1. /\ "login" \notin mixed /\ UNCHANGED <<count, lock, wrong, due>>
          /\ doing'[p] = "change"
          /\ \A q \in Attempts : doing[q] # "verify"
          /\ \A q \in Attempts : q # p => doing'[q] = doing[q]
        BY <1>11 DEF PresentToken, Arrive, Mix, LoginSteps, SignInTypes, SignInTypeOK
    <2> QED BY <2>1 DEF LockInv, Meets
<1>12. ASSUME NEW p \in Attempts, ChangePassword(p) PROVE LockInv'
    <2>1. /\ doing[p] = "change" /\ "login" \notin mixed
          /\ doing' = [doing EXCEPT ![p] = "idle"] /\ count' = 0 /\ wrong' = 0 /\ due' = FALSE
        BY <1>12 DEF ChangePassword, Depart
    <2>2. \A q \in Attempts : doing'[q] # "verify"
        BY <2>1 DEF SignInTypes, SignInTypeOK, LockInv, Meets
    <2> QED BY <2>1, <2>2 DEF LockInv, Meets
<1>13. ASSUME NEW p \in Attempts, DieSigningIn(p) PROVE LockInv'
    BY <1>13, <1>0 DEF DieSigningIn, Depart, SignInTypes, SignInTypeOK
<1> QED BY <1>1, <1>2, <1>3, <1>4, <1>5, <1>6, <1>7, <1>8, <1>9, <1>10, <1>11, <1>12, <1>13
        DEF SignInNext

\* After as many wrong passwords in a row as are permitted the account is locked
\* until the lock runs out or the password is reset, for any limit and any number
\* of requests, unless attempts overlapped (auth/index.ts:87-112).
THEOREM LockoutHoldsAlways == SignInSpec => []LockoutHolds
<1>1. SignInTypes /\ LockInv => LockoutHolds BY DEF LockInv, LockoutHolds
<1>2. SignInSpec => [](SignInTypes /\ LockInv)
    BY SignInTypesInit, SignInTypesStep, LockInit, LockStep, PTL DEF SignInSpec
<1> QED BY <1>1, <1>2, PTL

-----------------------------------------------------------------------------
(* Reset tokens.  While no two requests about them have met, the one that has *)
(* expired the prior tokens and not minted its own finds none usable.         *)

ResetInv ==
    "reset" \notin mixed =>
        /\ \A p \in Attempts, q \in Attempts :
            doing[p] \in ResetSteps /\ doing[q] \in ResetSteps => p = q
        /\ \A p \in Attempts : doing[p] = "mint" => \A k \in Tokens : ~Usable(k)
        /\ \A k \in Tokens, l \in Tokens : Usable(k) /\ Usable(l) => k = l
        /\ \A k \in Tokens : token[k].changes <= 1 /\ (~token[k].used => token[k].changes = 0)
        /\ \A p \in Attempts, k \in Tokens :
            doing[p] = "change" /\ seen[p].token = {k} => ~token[k].used

LEMMA ResetInit == SignInInit => ResetInv
<1>1. SignInInit => /\ doing = [p \in Attempts |-> "idle"]
                    /\ \A k \in Tokens : /\ token[k].made = FALSE /\ token[k].used = FALSE
                                         /\ token[k].changes = 0
    BY DEF SignInInit
<1> QED BY <1>1 DEF ResetInv, ResetSteps, Usable

LEMMA ResetStep == SignInTypes /\ ResetInv /\ [SignInNext]_signInVars => ResetInv'
<1> SUFFICES ASSUME SignInTypes, ResetInv, [SignInNext]_signInVars, "reset" \notin mixed'
             PROVE  ResetInv'
    BY DEF ResetInv
<1>0. ASSUME UNCHANGED <<token, mixed>>,
             \A q \in Attempts : doing'[q] \in ResetSteps => doing'[q] = doing[q] /\ seen'[q] = seen[q]
      PROVE  ResetInv'
    BY <1>0 DEF ResetInv, ResetSteps, Usable
<1>a. \A k \in Tokens : token[k] \in Row BY DEF SignInTypes, SignInTypeOK
<1>1. CASE UNCHANGED signInVars BY <1>1, <1>0 DEF signInVars
<1>2. CASE LockEnds BY <1>2, <1>0 DEF LockEnds
<1>3. CASE CooldownEnds BY <1>3, <1>0 DEF CooldownEnds
<1>4. CASE \E k \in Tokens : TokenExpires(k)
    <2> PICK k \in Tokens : TokenExpires(k) BY <1>4
    <2> DEFINE e == [token[k] EXCEPT !.expired = TRUE]
    <2>1. e.used = token[k].used /\ e.changes = token[k].changes /\ e.expired BY <1>a, RowEdits
    <2>2. token' = [token EXCEPT ![k] = e] /\ UNCHANGED <<doing, seen, mixed>>
        BY DEF TokenExpires
    <2> HIDE DEF e
    <2>3. token'[k] = e /\ \A l \in Tokens : l # k => token'[l] = token[l]
        BY <2>2 DEF SignInTypes, SignInTypeOK
    <2> QED BY <2>1, <2>2, <2>3 DEF ResetInv, Usable
<1>5. ASSUME NEW p \in Attempts, ReadUser(p) PROVE ResetInv'
    <2>1. PICK s : Arrive(p, "verify", s) BY <1>5 DEF ReadUser
    <2>2. /\ UNCHANGED token /\ "reset" \notin mixed
          /\ \A q \in Attempts : doing'[q] \in ResetSteps => doing'[q] = doing[q] /\ seen'[q] = seen[q]
        BY <1>5, <2>1 DEF ReadUser, Arrive, Mix, ResetSteps, SignInTypes, SignInTypeOK
    <2> QED BY <2>2 DEF ResetInv, ResetSteps, Usable
<1>6. ASSUME NEW p \in Attempts, Refuse(p) PROVE ResetInv'
    BY <1>6, <1>0 DEF Refuse, Depart, ResetSteps, SignInTypes, SignInTypeOK
<1>7. ASSUME NEW p \in Attempts, Accept(p) PROVE ResetInv'
    BY <1>7, <1>0 DEF Accept, Depart, ResetSteps, SignInTypes, SignInTypeOK
\* The first of them on its way: no other is.
<1>b. ASSUME NEW p \in Attempts, NEW to, NEW s, Arrive(p, to, s), Mix("reset")
      PROVE  /\ "reset" \notin mixed
             /\ \A q \in Attempts : doing[q] \notin ResetSteps
             /\ doing'[p] = to /\ seen'[p] = s
             /\ \A q \in Attempts : q # p => doing'[q] = doing[q]
    BY <1>b DEF Arrive, Mix, SignInTypes, SignInTypeOK
<1>8. ASSUME NEW p \in Attempts, RequestReset(p) PROVE ResetInv'
    <2>1. /\ Arrive(p, "expire", Unread) /\ Mix("reset") /\ UNCHANGED token
        BY <1>8 DEF RequestReset
    <2> QED BY <2>1, <1>b DEF ResetInv, ResetSteps, Usable
\* The only one of them under way moves on or leaves.
<1>c. ASSUME NEW p \in Attempts, doing[p] \in ResetSteps, "reset" \notin mixed
      PROVE  \A q \in Attempts : q # p => doing[q] \notin ResetSteps
    BY <1>c DEF ResetInv
<1>9. ASSUME NEW p \in Attempts, ExpirePrior(p) PROVE ResetInv'
    <2>1. /\ doing[p] = "expire" /\ "reset" \notin mixed /\ doing'[p] = "mint"
          /\ \A q \in Attempts : q # p => doing'[q] = doing[q]
        BY <1>9 DEF ExpirePrior, SignInTypes, SignInTypeOK
    <2>2. \A k \in Tokens : token'[k] = IF Usable(k) THEN [token[k] EXCEPT !.expired = TRUE] ELSE token[k]
        BY <1>9, ExpiredRows DEF ExpirePrior, Prior, SignInTypes, SignInTypeOK
    <2>3. \A k \in Tokens : /\ token'[k].used = token[k].used /\ token'[k].changes = token[k].changes
                           /\ ~Usable(k)'
        <3> SUFFICES ASSUME NEW k \in Tokens
                     PROVE  /\ token'[k].used = token[k].used /\ token'[k].changes = token[k].changes
                            /\ ~Usable(k)'
            OBVIOUS
        <3> DEFINE e == [token[k] EXCEPT !.expired = TRUE]
        <3>1. e.used = token[k].used /\ e.changes = token[k].changes /\ e.expired BY <1>a, RowEdits
        <3>2. token'[k] = IF Usable(k) THEN e ELSE token[k] BY <2>2
        <3> HIDE DEF e
        <3>3. CASE Usable(k) BY <3>1, <3>2, <3>3 DEF Usable
        <3>4. CASE ~Usable(k) BY <3>2, <3>4 DEF Usable
        <3> QED BY <3>3, <3>4
    <2>4. \A q \in Attempts : q # p => doing'[q] \notin ResetSteps BY <2>1, <1>c DEF ResetSteps
    <2> QED BY <2>1, <2>3, <2>4 DEF ResetInv, ResetSteps
<1>10. ASSUME NEW p \in Attempts, MintToken(p) PROVE ResetInv'
    <2>1. PICK k \in Tokens : ~token[k].made /\ token' = [token EXCEPT ![k].made = TRUE]
        BY <1>10 DEF MintToken
    <2> DEFINE m == [token[k] EXCEPT !.made = TRUE]
    <2>2. m.used = token[k].used /\ m.changes = token[k].changes BY <1>a, RowEdits
    <2>3. token' = [token EXCEPT ![k] = m] BY <2>1
    <2> HIDE DEF m
    <2>4. token'[k] = m /\ \A l \in Tokens : l # k => token'[l] = token[l]
        BY <2>3 DEF SignInTypes, SignInTypeOK
    <2>5. /\ doing[p] = "mint" /\ "reset" \notin mixed /\ doing'[p] = "idle"
          /\ \A q \in Attempts : q # p => doing'[q] = doing[q]
        BY <1>10 DEF MintToken, Depart, SignInTypes, SignInTypeOK
    <2>6. \A q \in Attempts : doing'[q] \notin ResetSteps BY <2>5, <1>c DEF ResetSteps
    <2>7. \A l \in Tokens : l # k => ~Usable(l)' BY <2>4, <2>5 DEF ResetInv, Usable
    <2> QED BY <2>2, <2>4, <2>5, <2>6, <2>7 DEF ResetInv, ResetSteps
<1>11. ASSUME NEW p \in Attempts, NEW k \in Tokens, PresentToken(p, k) PROVE ResetInv'
    <2> DEFINE s == [Unread EXCEPT !.token = {k}]
    <2>0. s.token = {k} BY DEF Unread
    <2> HIDE DEF s
    <2>1. /\ Usable(k) /\ Arrive(p, "change", s) /\ Mix("reset") /\ UNCHANGED token
        BY <1>11 DEF PresentToken, s
    <2> QED BY <2>0, <2>1, <1>b DEF ResetInv, ResetSteps, Usable
<1>12. ASSUME NEW p \in Attempts, ChangePassword(p) PROVE ResetInv'
    <2>1. /\ doing[p] = "change" /\ "reset" \notin mixed /\ doing'[p] = "idle"
          /\ \A q \in Attempts : q # p => doing'[q] = doing[q]
        BY <1>12 DEF ChangePassword, Depart, SignInTypes, SignInTypeOK
    <2>2. PICK k \in Tokens : seen[p].token = {k} BY <2>1 DEF SignInTypes
    <2>3. token' = Spent(k) BY <1>12, <2>2 DEF ChangePassword
    <2>4. \A l \in Tokens : l # k => token'[l] = IF Usable(l) THEN [token[l] EXCEPT !.expired = TRUE]
                                              ELSE token[l]
        BY <2>3, SpentRows DEF SignInTypes, SignInTypeOK
    <2>5. token'[k] = [token[k] EXCEPT !.used = TRUE, !.changes = @ + 1]
        BY <2>3, SpentRows DEF SignInTypes, SignInTypeOK
    <2> DEFINE u == [token[k] EXCEPT !.used = TRUE, !.changes = @ + 1]
    <2>u. u.used /\ u.changes = token[k].changes + 1 BY <1>a, RowEdits
    <2>v. token'[k] = u BY <2>5
    <2> HIDE DEF u
    <2>6. token'[k].used /\ token'[k].changes = token[k].changes + 1 BY <2>u, <2>v
    <2>7. ASSUME NEW l \in Tokens, l # k
          PROVE  ~Usable(l)' /\ token'[l].used = token[l].used /\ token'[l].changes = token[l].changes
        <3> DEFINE r == token[l]
                   x == [r EXCEPT !.expired = TRUE]
        <3>1. token'[l] = IF Usable(l) THEN x ELSE r BY <2>4, <2>7
        <3>2. r \in Row BY <1>a
        <3>3. r = token[l] OBVIOUS
        <3> HIDE DEF r
        <3>4. x.expired /\ x.used = r.used /\ x.changes = r.changes BY <3>2, RowEdits
        <3> HIDE DEF x
        <3>5. CASE Usable(l)
            <4>1. token'[l] = x BY <3>1, <3>5
            <4> QED BY <4>1, <3>3, <3>4 DEF Usable
        <3>6. CASE ~Usable(l)
            <4>1. token'[l] = token[l] BY <3>1, <3>3, <3>6
            <4> QED BY <4>1, <3>6 DEF Usable
        <3> QED BY <3>5, <3>6
    <2>8. token[k].changes = 0 BY <2>1, <2>2 DEF ResetInv
    <2>9. \A q \in Attempts : doing'[q] \notin ResetSteps BY <2>1, <1>c DEF ResetSteps
    <2> QED BY <2>1, <2>6, <2>7, <2>8, <2>9 DEF ResetInv, ResetSteps, Usable
<1>13. ASSUME NEW p \in Attempts, DieSigningIn(p) PROVE ResetInv'
    BY <1>13, <1>0 DEF DieSigningIn, Depart, ResetSteps, SignInTypes, SignInTypeOK
<1> QED BY <1>1, <1>2, <1>3, <1>4, <1>5, <1>6, <1>7, <1>8, <1>9, <1>10, <1>11, <1>12, <1>13
        DEF SignInNext

\* A reset link changes the password once, and no two links are usable at once,
\* for any number of requests and links, unless two resets were under way at
\* once (auth/index.ts:119-196).
THEOREM ResetOnceHolds == SignInSpec => []ResetOnce
<1>1. SignInTypes /\ ResetInv => ResetOnce
    <2> SUFFICES ASSUME SignInTypes, ResetInv, "reset" \notin mixed
                 PROVE  Cardinality({k \in Tokens : Usable(k)}) <= 1
        BY DEF ResetOnce, ResetInv
    <2>1. CASE \E k \in Tokens : Usable(k)
        <3> PICK k \in Tokens : Usable(k) BY <2>1
        <3>1. {l \in Tokens : Usable(l)} = {k} BY DEF ResetInv
        <3> QED BY <3>1, FS_Singleton
    <2>2. CASE ~\E k \in Tokens : Usable(k)
        <3>1. {l \in Tokens : Usable(l)} = {} BY <2>2
        <3> QED BY <3>1, FS_EmptySet
    <2> QED BY <2>1, <2>2
<1>2. SignInSpec => [](SignInTypes /\ ResetInv)
    BY SignInTypesInit, SignInTypesStep, ResetInit, ResetStep, PTL DEF SignInSpec
<1> QED BY <1>1, <1>2, PTL

(***************************************************************************)
(* Scopes.  What holds of every state is only what the records are; that a *)
(* list, a getter and what is meant agree follows from it.  The ids        *)
(* collected downwards are compared with the questions asked upwards, one  *)
(* viewer at a time, and the rest is sets that are equal.                  *)
(***************************************************************************)

RecordTypes ==
    /\ client \in [Units -> Clients] /\ owner \in [Units -> People \cup {Nothing}]
    /\ place \in [Leases -> Units \cup {Nothing}]
    /\ tenant \in [Leases -> People \cup {Nothing}]
    /\ landlord \in [Leases -> People \cup {Nothing}]
    /\ ended \subseteq Leases /\ agentBook \subseteq Units

LEMMA RecordTypesInit == ScopesInit => RecordTypes
  BY DEF ScopesInit, RecordTypes

LEMMA RecordTypesStep == RecordTypes /\ [ScopesNext]_scopeVars => RecordTypes'
<1> SUFFICES ASSUME RecordTypes, [ScopesNext]_scopeVars PROVE RecordTypes'
  OBVIOUS
<1>1. ASSUME NEW x \in Units, NEW k \in Clients, NEW c \in People \cup {Nothing},
             UpdateProperty(x, k, c)
      PROVE RecordTypes'
  BY <1>1 DEF UpdateProperty, RecordTypes
<1>2. ASSUME NEW x \in Units, NEW k \in Clients, DelegateUpdates(x, k) PROVE RecordTypes'
  BY <1>2 DEF DelegateUpdates, RecordTypes
<1>3. ASSUME NEW t \in Leases, NEW x \in Units, NEW c \in People, NEW d \in People \cup {Nothing},
             SignLease(t, x, c, d)
      PROVE RecordTypes'
  BY <1>3 DEF SignLease, RecordTypes
<1>4. ASSUME NEW t \in Leases, EndLease(t) PROVE RecordTypes'
  BY <1>4 DEF EndLease, RecordTypes
<1>5. ASSUME NEW x \in Units, SetBook(x) PROVE RecordTypes'
  BY <1>5 DEF SetBook, RecordTypes
<1>6. CASE UNCHANGED scopeVars
  BY <1>6 DEF scopeVars, RecordTypes
<1> QED BY <1>1, <1>2, <1>3, <1>4, <1>5, <1>6 DEF ScopesNext

\* A pair of a type and an id.
LEMMA InScope == \A type, S, s : s \in Scope(type, S) <=> s = <<type, s[2]>> /\ s[2] \in S
  BY DEF Scope

LEMMA SubjectsAre ==
    ASSUME NEW s \in Subjects
    PROVE  /\ s = <<s[1], s[2]>>
           /\ \/ s[1] = "CLIENT" /\ s[2] \in Clients
              \/ s[1] = "PROPERTY" /\ s[2] \in Units
              \/ s[1] \in {"TENANCY", "PAYMENT_ITEM"} /\ s[2] \in Leases
  BY DEF Subjects, Scope

LEMMA ViewersAre ==
    ASSUME NEW v \in Viewers
    PROVE  /\ v = <<v[1], v[2]>>
           /\ \/ v[1] = "CLIENT_VIEWER" /\ v[2] \in Clients
              \/ v[1] \in {"TENANT", "LANDLORD"} /\ v[2] \in People
              \/ v[1] = "MANAGING_AGENT" /\ v[2] = Nothing
  BY DEF Viewers, Scope

\* The three sets that are meant for a viewer, and what is collected from them.
MeantClients(v) == {k \in Clients : v = <<"CLIENT_VIEWER", k>>}
MeantUnits(v) == {x \in Units : MeantUnit(v, x)}
MeantLeases(v) == {t \in There : MeantLease(v, t)}
MeantSubjects(v) == {s \in Subjects : MeantSubject(v, s)}

LEMMA Collected ==
    ASSUME NEW v \in Viewers
    PROVE  Collect(MeantClients(v), MeantUnits(v), MeantLeases(v))
               = [clients |-> MeantClients(v), units |-> MeantUnits(v), leases |-> MeantLeases(v),
                  items |-> MeantLeases(v), proofs |-> MeantSubjects(v)]
<1> DEFINE Reached == {s \in Subjects : \/ s[1] = "CLIENT" /\ s[2] \in MeantClients(v)
                                        \/ s[1] = "PROPERTY" /\ s[2] \in MeantUnits(v)
                                        \/ s[1] \in {"TENANCY", "PAYMENT_ITEM"}
                                               /\ s[2] \in MeantLeases(v)}
<1>1. ASSUME NEW s \in Subjects PROVE s \in Reached <=> MeantSubject(v, s)
  BY SubjectsAre DEF MeantSubject, MeantClients, MeantUnits, MeantLeases, There
<1>2. Reached = MeantSubjects(v)
  BY <1>1 DEF MeantSubjects
<1> QED BY <1>2 DEF Collect

LEMMA ClientIds ==
    ASSUME RecordTypes, NEW v \in Viewers, v[1] = "CLIENT_VIEWER"
    PROVE  ids(v) = Collect(MeantClients(v), MeantUnits(v), MeantLeases(v))
<1>1. v = <<"CLIENT_VIEWER", v[2]>> /\ v[2] \in Clients
  BY ViewersAre
<1>2. MeantClients(v) = {v[2]}
  BY <1>1 DEF MeantClients
<1>3. MeantUnits(v) = {x \in Units : client[x] = v[2]}
  BY <1>1 DEF MeantUnits, MeantUnit
<1>4. \A t \in There : place[t] \in Units
  BY DEF There, RecordTypes
<1>5. MeantLeases(v) = OnUnits(MeantUnits(v))
  BY <1>1, <1>4 DEF MeantLeases, MeantLease, OnUnits, MeantUnits
<1> QED BY <1>1, <1>2, <1>3, <1>5 DEF ids, resolveClientScopeIds

LEMMA DelegateIds ==
    ASSUME RecordTypes, NEW v \in Viewers, v[1] = "MANAGING_AGENT"
    PROVE  ids(v) = Collect(MeantClients(v), MeantUnits(v), MeantLeases(v))
<1>1. v = <<"MANAGING_AGENT", v[2]>>
  BY ViewersAre
<1>2. MeantClients(v) = {}
  BY <1>1 DEF MeantClients
<1>3. MeantUnits(v) = agentBook
  BY <1>1 DEF MeantUnits, MeantUnit, RecordTypes
<1>4. \A t \in There : place[t] \in Units
  BY DEF There, RecordTypes
<1>5. MeantLeases(v) = OnUnits(MeantUnits(v))
  BY <1>1, <1>4 DEF MeantLeases, MeantLease, OnUnits, MeantUnits
<1> QED BY <1>1, <1>2, <1>3, <1>5 DEF ids, resolveDelegateScopeIds

LEMMA TenantMeant ==
    ASSUME RecordTypes, NEW v \in Viewers, v[1] = "TENANT"
    PROVE  ids(v) = Collect(MeantClients(v), MeantUnits(v), MeantLeases(v))
<1>1. v = <<"TENANT", v[2]>>
  BY ViewersAre
<1> DEFINE leases == Running({t \in There : tenant[t] = v[2]})
<1>2. MeantClients(v) = {}
  BY <1>1 DEF MeantClients
<1>3. MeantLeases(v) = leases
  BY <1>1 DEF MeantLeases, MeantLease, Running
<1>4. \A t \in There : place[t] \in Units
  BY DEF There, RecordTypes
<1>5. MeantUnits(v) = {place[t] : t \in leases}
  BY <1>1, <1>4 DEF MeantUnits, MeantUnit, Running
<1> QED BY <1>1, <1>2, <1>3, <1>5 DEF ids, TenantIds

LEMMA LandlordMeant ==
    ASSUME RecordTypes, NEW v \in Viewers, v[1] = "LANDLORD"
    PROVE  ids(v) = Collect(MeantClients(v), MeantUnits(v), MeantLeases(v))
<1>1. v = <<"LANDLORD", v[2]>>
  BY ViewersAre
<1> DEFINE owned == {x \in Units : owner[x] = v[2]}
<1> DEFINE named == Running({t \in There : landlord[t] = v[2]})
<1>2. MeantClients(v) = {}
  BY <1>1 DEF MeantClients
<1>3. \A t \in There : place[t] \in Units
  BY DEF There, RecordTypes
<1>4. MeantLeases(v) = OnUnits(owned) \cup named
  BY <1>1, <1>3 DEF MeantLeases, MeantLease, Running, OnUnits
<1>5. MeantUnits(v) = owned \cup {place[t] : t \in named}
  BY <1>1, <1>3 DEF MeantUnits, MeantUnit, Running
<1> QED BY <1>1, <1>2, <1>4, <1>5 DEF ids, LandlordIds

\* The ids collected for a viewer are those it is meant to reach.
LEMMA IdsAreMeant ==
    ASSUME RecordTypes, NEW v \in Viewers
    PROVE  ids(v) = [clients |-> MeantClients(v), units |-> MeantUnits(v),
                     leases |-> MeantLeases(v), items |-> MeantLeases(v),
                     proofs |-> MeantSubjects(v)]
  BY ViewersAre, ClientIds, DelegateIds, TenantMeant, LandlordMeant, Collected

LEMMA ColumnsAreMeant ==
    ASSUME RecordTypes, NEW v \in Viewers, v[1] = "CLIENT_VIEWER"
    PROVE  /\ {x \in Units : client[x] = v[2]} = MeantUnits(v)
           /\ {t \in There : client[place[t]] = v[2]} = MeantLeases(v)
  BY DEF MeantUnits, MeantUnit, MeantLeases, MeantLease

LEMMA RowsAreMeant ==
    ASSUME RecordTypes, NEW v \in Viewers
    PROVE  scopeMatch(ids(v)) \cap Filed
               = MeantSubjects(v) \cup Scope("PROOF_REQUEST", MeantSubjects(v))
<1> DEFINE Rows == Scope("CLIENT", MeantClients(v)) \cup Scope("PROPERTY", MeantUnits(v))
                       \cup Scope("TENANCY", MeantLeases(v)) \cup Scope("PAYMENT_ITEM", MeantLeases(v))
<1>1. scopeMatch(ids(v)) = Rows \cup Scope("PROOF_REQUEST", MeantSubjects(v))
  BY IdsAreMeant DEF scopeMatch
<1>2. ASSUME NEW s \in Rows PROVE s \in MeantSubjects(v)
  <2>1. s \in Subjects
    BY DEF Subjects, Scope, MeantClients, MeantUnits, MeantLeases, There
  <2>2. MeantSubject(v, s)
    BY DEF MeantSubject, Scope, MeantClients, MeantUnits, MeantLeases
  <2> QED BY <2>1, <2>2 DEF MeantSubjects
<1>3. ASSUME NEW s \in MeantSubjects(v) PROVE s \in Rows
  <2>1. s \in Subjects /\ MeantSubject(v, s)
    BY DEF MeantSubjects
  <2>2. s = <<s[1], s[2]>>
    BY <2>1, SubjectsAre
  <2>3. CASE s[1] = "CLIENT"
    BY <2>1, <2>2, <2>3, SubjectsAre, InScope DEF MeantSubject, MeantClients
  <2>4. CASE s[1] = "PROPERTY"
    BY <2>1, <2>2, <2>4, SubjectsAre, InScope DEF MeantSubject, MeantUnits
  <2>5. CASE s[1] \in {"TENANCY", "PAYMENT_ITEM"}
    BY <2>1, <2>2, <2>5, InScope DEF MeantSubject, MeantLeases
  <2> QED BY <2>1, <2>3, <2>4, <2>5 DEF MeantSubject
<1>4. Rows = MeantSubjects(v)
  BY <1>2, <1>3
<1>5. MeantSubjects(v) \subseteq Subjects
  BY DEF MeantSubjects
<1>6. MeantSubjects(v) \subseteq Filed /\ Scope("PROOF_REQUEST", MeantSubjects(v)) \subseteq Filed
  BY <1>5 DEF Filed, Scope
<1> QED BY <1>1, <1>4, <1>6

LEMMA PartiesAreMeant ==
    ASSUME RecordTypes, NEW v \in Viewers,
           v[1] \in {"CLIENT_VIEWER", "MANAGING_AGENT"}
    PROVE  contactIdsForScope(ids(v)) = {c \in People : MeantContact(v, c)}
<1> DEFINE Parties == {owner[x] : x \in MeantUnits(v)} \cup {tenant[t] : t \in MeantLeases(v)}
                          \cup {landlord[t] : t \in MeantLeases(v)}
<1>1. contactIdsForScope(ids(v)) = Parties \ {Nothing}
  BY IdsAreMeant DEF contactIdsForScope
<1>2. Nothing \notin People
  BY ScopesAssumption
<1>3. MeantUnits(v) \subseteq Units /\ MeantLeases(v) \subseteq There /\ There \subseteq Leases
  BY DEF MeantUnits, MeantLeases, There
<1>4. Parties \subseteq People \cup {Nothing}
  BY <1>3 DEF RecordTypes
<1>5. ASSUME NEW c \in People PROVE c \in Parties <=> MeantContact(v, c)
  BY DEF MeantContact, MeantUnits, MeantLeases
<1> QED BY <1>1, <1>2, <1>4, <1>5

LEMMA TypesAgree == RecordTypes => DoorsAgree
<1> SUFFICES ASSUME RecordTypes PROVE DoorsAgree
  OBVIOUS
<1>1. ASSUME NEW v \in Viewers
      PROVE  Meant(v) = [properties |-> MeantUnits(v), tenancies |-> MeantLeases(v),
                         payments |-> MeantLeases(v), proofs |-> MeantSubjects(v),
                         documents |-> MeantSubjects(v) \cup Scope("PROOF_REQUEST", MeantSubjects(v)),
                         contacts |-> {c \in People : MeantContact(v, c)}]
  BY DEF Meant, MeantUnits, MeantLeases, MeantSubjects
<1>2. ASSUME NEW v \in Viewers
      PROVE (IF v[1] \in {"CLIENT_VIEWER", "MANAGING_AGENT"} THEN contactIdsForScope(ids(v)) ELSE {})
                = {c \in People : MeantContact(v, c)}
  BY PartiesAreMeant DEF MeantContact
<1>3. ASSUME NEW v \in Viewers PROVE Listed(v) = Meant(v)
  <2> DEFINE i == ids(v)
  <2>1. (IF v[1] = "CLIENT_VIEWER" THEN {x \in Units : client[x] = v[2]} ELSE i.units)
            = MeantUnits(v)
    BY IdsAreMeant, ColumnsAreMeant
  <2>2. (IF v[1] = "CLIENT_VIEWER" THEN {t \in There : client[place[t]] = v[2]} ELSE i.leases)
            = MeantLeases(v)
    BY IdsAreMeant, ColumnsAreMeant
  <2>3. i.leases = MeantLeases(v) /\ i.proofs = MeantSubjects(v)
    BY IdsAreMeant
  <2>4. scopeMatch(i) \cap Filed = MeantSubjects(v) \cup Scope("PROOF_REQUEST", MeantSubjects(v))
    BY RowsAreMeant
  <2> QED BY <1>1, <1>2, <2>1, <2>2, <2>3, <2>4 DEF Listed
<1>4. ASSUME NEW v \in Viewers PROVE assertReadable(v) = Meant(v)
  <2> DEFINE i == ids(v)
  <2>1. {x \in Units : IF v[1] = "CLIENT_VIEWER" THEN client[x] = v[2] ELSE x \in i.units}
            = MeantUnits(v)
    BY IdsAreMeant, ColumnsAreMeant DEF MeantUnits
  <2>2. {t \in There : TenancyReadable(v, i, t)} = MeantLeases(v)
    BY IdsAreMeant, ColumnsAreMeant DEF TenancyReadable, MeantLeases
  <2>3. Subjects \cap i.proofs = MeantSubjects(v)
    BY IdsAreMeant DEF MeantSubjects
  <2>4. Filed \cap scopeMatch(i) = MeantSubjects(v) \cup Scope("PROOF_REQUEST", MeantSubjects(v))
    BY RowsAreMeant
  <2> QED BY <1>1, <1>2, <2>1, <2>2, <2>3, <2>4 DEF assertReadable
<1>5. Writable = Meant(<<"MANAGING_AGENT", Nothing>>).proofs
  <2> DEFINE v == <<"MANAGING_AGENT", Nothing>>
  <2>1. v \in Viewers /\ v[1] = "MANAGING_AGENT"
    BY DEF Viewers, Scope
  <2>2. Nothing \notin agentBook
    BY ScopesAssumption DEF RecordTypes
  <2>3. ASSUME NEW s \in Subjects PROVE propertyIdOfScope(s) \in agentBook <=> MeantSubject(v, s)
    <3>1. CASE s[1] = "CLIENT"
      BY <3>1, <2>2 DEF propertyIdOfScope, MeantSubject
    <3>2. CASE s[1] = "PROPERTY"
      BY <3>2 DEF propertyIdOfScope, MeantSubject, MeantUnit
    <3>3. CASE s[1] \in {"TENANCY", "PAYMENT_ITEM"}
      <4>1. s[2] \in Leases /\ propertyIdOfScope(s) = place[s[2]]
        BY <3>3, SubjectsAre DEF propertyIdOfScope
      <4>2. MeantSubject(v, s) <=> s[2] \in There /\ place[s[2]] \in agentBook
        BY <3>3 DEF MeantSubject, MeantLease, MeantUnit
      <4> QED BY <4>1, <4>2, <2>2 DEF There
    <3> QED BY <3>1, <3>2, <3>3, SubjectsAre
  <2>4. Writable = MeantSubjects(v)
    BY <2>3 DEF Writable, MeantSubjects
  <2> QED BY <2>1, <2>4, <1>1
<1> QED BY <1>3, <1>4, <1>5 DEF DoorsAgree

\* Whatever staff and the delegate do to the records, a list shows a caller just the rows its
\* getter opens, both are the rows the caller is meant to reach, and the delegate writes what it
\* reads (contactScope.ts:40-121, 226-287; delegateScope.ts:33-212; clientScope.ts:39-169).
THEOREM DoorsAgreeHolds == ScopesSpec => []DoorsAgree
<1>1. ScopesSpec => []RecordTypes
  BY RecordTypesInit, RecordTypesStep, PTL DEF ScopesSpec
<1> QED BY <1>1, TypesAgree, PTL


(***************************************************************************)
(* Doors.  A seat is what somebody was given in an office that exists, and *)
(* the context of a request is one of the caller's seats or none: five     *)
(* roles and whether the caller is an operator decide where a page leads.  *)
(***************************************************************************)

DoorTypes ==
    /\ seats \in Seq(SeatRow)
    /\ \A n \in DOMAIN seats : seats[n].office \in opened
    /\ shut \in [Offices -> SUBSET {"suspended", "archived"}]
    /\ session \in [Sessions -> [user : Persons \cup {Refused}, live : BOOLEAN]]
    /\ jar \in [Browsers -> Sessions \cup {Refused}]

-----------------------------------------------------------------------------
(* The seat a request acts by *)

Staffed == {"WORKSPACE_ADMIN", "ORG_ADMIN", "MANAGER", "MANAGING_AGENT", "LANDLORD"}

LEMMA SeatRows ==
    ASSUME NEW s \in SeatRow
    PROVE  /\ s.user \in Persons /\ s.office \in Offices /\ s.role \in Staffed
           /\ s.live \in BOOLEAN /\ s # Refused
  BY DoorsAssumption DEF SeatRow, Staffed, INVITEABLE_SEATS

LEMMA RankOf == \A r \in Staffed : ROLE_RANK[r] \in Nat
  BY DEF Staffed, ROLE_RANK

LEMMA LeastOf ==
    ASSUME NEW N \in SUBSET Nat, N # {}
    PROVE  \E n \in N : \A m \in N : n <= m
<1> DEFINE R == {ss \in Nat \X Nat : ss[1] < ss[2]}
<1>1. IsWellFoundedOn(R, Nat)
  BY NatLessThanWellFounded DEF OpToRel
<1>2. \A x, y \in Nat : x < y => <<x, y>> \in R
  OBVIOUS
<1> HIDE DEF R
<1>3. PICK n \in N : \A m \in N : ~ (<<m, n>> \in R)
  BY <1>1, WFMin
<1>4. \A m \in N : ~ (m < n)
  BY <1>2, <1>3
<1>5. n \in Nat /\ \A m \in N : m \in Nat
  OBVIOUS
<1>6. \A m \in N : n <= m
  BY <1>4, <1>5
<1> QED BY <1>6

\* The best of some seats is one of them.
LEMMA PickedSeat ==
    ASSUME seats \in Seq(SeatRow), NEW S \in SUBSET (DOMAIN seats), S # {}
    PROVE  pickSeat(S) \in S
<1> DEFINE Rank(n) == ROLE_RANK[seats[n].role]
<1> DEFINE Ranked == {Rank(n) : n \in S}
<1>1. \A n \in S : n \in Nat /\ seats[n] \in SeatRow
  OBVIOUS
<1>2. \A n \in S : Rank(n) \in Nat
  BY <1>1, SeatRows, RankOf
<1>3. Ranked \in SUBSET Nat /\ Ranked # {}
  BY <1>2
<1>4. PICK r \in Ranked : \A q \in Ranked : r <= q
  <2> HIDE DEF Ranked
  <2> QED BY <1>3, LeastOf
<1> DEFINE Best == {n \in S : Rank(n) = r}
<1>5. Best \in SUBSET Nat /\ Best # {}
  BY <1>1, <1>4
<1>6. PICK n \in Best : \A k \in Best : n <= k
  <2> HIDE DEF Best
  <2> QED BY <1>5, LeastOf
<1>7. \A k \in S : Rank(n) < Rank(k) \/ (Rank(n) = Rank(k) /\ n <= k)
  <2>1. TAKE k \in S
  <2>2. Rank(n) = r /\ r <= Rank(k) /\ Rank(k) \in Nat /\ r \in Nat
    BY <1>2, <1>4, <1>6
  <2>3. CASE Rank(k) = r
    BY <2>2, <2>3, <1>6
  <2>4. CASE Rank(k) # r
    <3> HIDE DEF Rank
    <3> QED BY <2>2, <2>4
  <2> QED BY <2>3, <2>4
<1>8. n \in S /\ \A k \in S : Before(n, k)
  BY <1>6, <1>7 DEF Before
<1> QED BY <1>8 DEF pickSeat

\* A context is a live seat of the caller's in an office that is open.
LEMMA AuthzGives ==
    ASSUME DoorTypes, NEW u, NEW w
    PROVE  \/ authz(u, w) = Refused /\ (shut[w] # {} \/ \A n \in LiveOf(u) : seats[n].office # w)
           \/ /\ authz(u, w) \in SeatRow /\ authz(u, w).user = u /\ authz(u, w).live
              /\ authz(u, w).office = w /\ shut[w] = {} /\ w \in opened
<1> DEFINE S == {n \in LiveOf(u) : seats[n].office = w}
<1>1. S \in SUBSET (DOMAIN seats)
  BY DEF LiveOf
<1>2. CASE S = {} \/ shut[w] # {}
  BY <1>2 DEF authz
<1>3. CASE S # {} /\ shut[w] = {}
  <2>1. pickSeat(S) \in S
    BY <1>1, <1>3, PickedSeat DEF DoorTypes
  <2>2. authz(u, w) = seats[pickSeat(S)]
    BY <1>3 DEF authz
  <2> HIDE DEF S
  <2>3. PICK n \in S : n = pickSeat(S)
    BY <2>1
  <2>4. n \in DOMAIN seats /\ seats[n] \in SeatRow /\ seats[n].office \in opened
    BY <1>1 DEF DoorTypes
  <2>5. seats[n].user = u /\ seats[n].live /\ seats[n].office = w
    BY DEF S, LiveOf
  <2> QED BY <1>3, <2>2, <2>3, <2>4, <2>5
<1> QED BY <1>2, <1>3

\* What a context is, and what it means to have none.
Contexts(b) ==
    LET u == currentUser(b)  c == requireCtx(b) IN
    \/ /\ c = Refused
       /\ u # Refused => \/ LiveOf(u) = {}
                         \/ shut[seats[pickSeat(LiveOf(u))].office] # {}
    \/ /\ c \in SeatRow /\ u # Refused /\ LiveOf(u) # {}
       /\ c.user = u /\ c.live /\ shut[c.office] = {} /\ c.office \in opened

LEMMA ContextGiven ==
    ASSUME DoorTypes, NEW b
    PROVE  Contexts(b)
<1> DEFINE u == currentUser(b)
<1> DEFINE w == seats[pickSeat(LiveOf(u))].office
<1>1. CASE u = Refused
  BY <1>1 DEF Contexts, requireCtx
<1>2. CASE u # Refused /\ LiveOf(u) = {}
  BY <1>2 DEF Contexts, requireCtx, resolveCtxFor
<1>3. CASE u # Refused /\ LiveOf(u) # {}
  <2>1. requireCtx(b) = authz(u, w)
    BY <1>3 DEF requireCtx, resolveCtxFor
  <2>2. LiveOf(u) \in SUBSET (DOMAIN seats)
    BY DEF LiveOf
  <2>3. pickSeat(LiveOf(u)) \in LiveOf(u)
    BY <1>3, <2>2, PickedSeat DEF DoorTypes
  <2>4. \/ authz(u, w) = Refused /\ shut[w] # {}
        \/ /\ authz(u, w) \in SeatRow /\ authz(u, w).user = u /\ authz(u, w).live
           /\ authz(u, w).office = w /\ shut[w] = {} /\ w \in opened
    BY <2>3, AuthzGives
  <2> QED BY <1>3, <2>1, <2>4 DEF Contexts
<1> QED BY <1>1, <1>2, <1>3

-----------------------------------------------------------------------------
(* The menu of a role *)

LEMMA ByRoleAlone ==
    ASSUME NEW r, NEW cap
    PROVE  hasCapability(r, {}, cap) <=> cap \in ROLE_CAPABILITIES[r]
  BY DEF hasCapability

\* Where two pages take a role that is not behind the portal.
LEMMA PagesOpen ==
    /\ \A r \in {"WORKSPACE_ADMIN", "MANAGER", "MANAGING_AGENT"} : Opens(r, {}, "dashboard")
    /\ ~Opens("ORG_ADMIN", {}, "dashboard")
    /\ \A r \in {"WORKSPACE_ADMIN", "ORG_ADMIN"} : Opens(r, {}, "members")
    /\ \A r \in {"MANAGER", "MANAGING_AGENT"} : ~Opens(r, {}, "members")
<1>1. Asks["dashboard"] = {"properties.read"} /\ Asks["members"] = {"members.read"}
  BY DEF Asks, DashboardPage, ListMembers
<1>2. /\ "properties.read" \in ROLE_CAPABILITIES["WORKSPACE_ADMIN"]
      /\ "members.read" \in ROLE_CAPABILITIES["WORKSPACE_ADMIN"]
  BY DEF ROLE_CAPABILITIES, CAPABILITIES, PEOPLE_ADMIN, READ_PORTFOLIO
<1>3. /\ "properties.read" \in ROLE_CAPABILITIES["MANAGER"]
      /\ "members.read" \notin ROLE_CAPABILITIES["MANAGER"]
  BY DEF ROLE_CAPABILITIES, READ_PORTFOLIO
<1>4. /\ "properties.read" \in ROLE_CAPABILITIES["MANAGING_AGENT"]
      /\ "members.read" \notin ROLE_CAPABILITIES["MANAGING_AGENT"]
  BY DEF ROLE_CAPABILITIES, DELEGATE_CAPS
<1>5. /\ "properties.read" \notin ROLE_CAPABILITIES["ORG_ADMIN"]
      /\ "members.read" \in ROLE_CAPABILITIES["ORG_ADMIN"]
  BY DEF ROLE_CAPABILITIES, ORG_ADMIN_CAPS, PEOPLE_ADMIN
<1> QED BY <1>1, <1>2, <1>3, <1>4, <1>5, ByRoleAlone DEF Opens

\* What the rail and the header offer a role.
Offered(r) == navForRole(r) \cup createsForRole(r)

LEMMA OfferedAre ==
    ASSUME NEW r, NEW page \in Offered(r)
    PROVE  \/ page \in DOMAIN NAV /\ NAV[page] \in ROLE_CAPABILITIES[r]
           \/ page = "onboardingNew" /\ "clients.write" \in ROLE_CAPABILITIES[r]
           \/ page = "propertiesNew" /\ "properties.write" \in ROLE_CAPABILITIES[r]
  BY DEF Offered, navForRole, createsForRole, CREATE_ACTIONS

\* A page of the rail asks for what its link goes by, but for three that load
\* the properties or the clients as well.
LEMMA RailAsks ==
    ASSUME NEW page \in DOMAIN NAV
    PROVE  Asks[page] = {NAV[page]}
               \cup (IF page \in {"clients", "calendar"} THEN {"properties.read"}
                     ELSE IF page = "reports" THEN {"clients.read"} ELSE {})
<1>1. page \in {"dashboard", "renewals", "properties", "clients", "payments", "evidence", "calendar",
                "risk", "proofs", "vault", "contacts", "reports", "imports", "members"}
  BY DEF NAV
<1>2. /\ NAV["dashboard"] = "properties.read" /\ NAV["renewals"] = "renewals.read"
      /\ NAV["properties"] = "properties.read" /\ NAV["clients"] = "clients.read"
      /\ NAV["payments"] = "payments.read" /\ NAV["evidence"] = "evidence.read"
      /\ NAV["calendar"] = "deadlines.read" /\ NAV["risk"] = "riskflags.read"
      /\ NAV["proofs"] = "proofs.read" /\ NAV["vault"] = "documents.read"
      /\ NAV["contacts"] = "contacts.read" /\ NAV["reports"] = "reports.read"
      /\ NAV["imports"] = "imports.manage" /\ NAV["members"] = "members.read"
  BY DEF NAV
<1>3. /\ Asks["dashboard"] = {"properties.read"} /\ Asks["renewals"] = {"renewals.read"}
      /\ Asks["properties"] = {"properties.read"}
      /\ Asks["clients"] = {"clients.read", "properties.read"}
      /\ Asks["payments"] = {"payments.read"} /\ Asks["evidence"] = {"evidence.read"}
      /\ Asks["calendar"] = {"deadlines.read", "properties.read"}
      /\ Asks["risk"] = {"riskflags.read"}
      /\ Asks["proofs"] = {"proofs.read"} /\ Asks["vault"] = {"documents.read"}
      /\ Asks["contacts"] = {"contacts.read"} /\ Asks["reports"] = {"reports.read", "clients.read"}
      /\ Asks["imports"] = {"imports.manage"} /\ Asks["members"] = {"members.read"}
  BY DEF Asks, DashboardPage, RenewalsPage, PropertiesPage, ClientsPage, PaymentsPage, EvidencePage,
         CalendarPage, RiskPage, ProofsPage, VaultPage, ContactsPage, ReportsPage, ImportsPage,
         ListMembers
<1> QED BY <1>1, <1>2, <1>3

\* Whoever reads clients, deadlines or reports reads what the page loads besides.
LEMMA ReadTogether ==
    ASSUME NEW r \in Staffed \ {"LANDLORD"}
    PROVE  /\ "clients.read" \in ROLE_CAPABILITIES[r] => "properties.read" \in ROLE_CAPABILITIES[r]
           /\ "deadlines.read" \in ROLE_CAPABILITIES[r] => "properties.read" \in ROLE_CAPABILITIES[r]
           /\ "reports.read" \in ROLE_CAPABILITIES[r] => "clients.read" \in ROLE_CAPABILITIES[r]
           /\ "clients.write" \in ROLE_CAPABILITIES[r] =>
                {"contacts.read", "clients.read", "properties.read"} \subseteq ROLE_CAPABILITIES[r]
           /\ "properties.write" \in ROLE_CAPABILITIES[r] /\ r # "MANAGING_AGENT" =>
                "clients.read" \in ROLE_CAPABILITIES[r]
<1>1. CASE r = "WORKSPACE_ADMIN"
  BY <1>1 DEF ROLE_CAPABILITIES, CAPABILITIES, READ_PORTFOLIO
<1>2. CASE r = "ORG_ADMIN"
  BY <1>2 DEF ROLE_CAPABILITIES, ORG_ADMIN_CAPS, PEOPLE_ADMIN
<1>3. CASE r = "MANAGER"
  BY <1>3 DEF ROLE_CAPABILITIES, READ_PORTFOLIO
<1>4. CASE r = "MANAGING_AGENT"
  BY <1>4 DEF ROLE_CAPABILITIES, DELEGATE_CAPS
<1> QED BY <1>1, <1>2, <1>3, <1>4 DEF Staffed

LEMMA OffersOpen ==
    ASSUME NEW r \in Staffed \ {"LANDLORD"}, NEW page \in Offered(r)
    PROVE  Opens(r, {}, page) \/ (r = "MANAGING_AGENT" /\ page = "propertiesNew")
<1>1. CASE page \in DOMAIN NAV /\ NAV[page] \in ROLE_CAPABILITIES[r]
  <2>1. NAV["clients"] = "clients.read" /\ NAV["calendar"] = "deadlines.read"
        /\ NAV["reports"] = "reports.read"
    BY DEF NAV
  <2>2. \A cap \in Asks[page] : cap \in ROLE_CAPABILITIES[r]
    BY <1>1, <2>1, RailAsks, ReadTogether
  <2> QED BY <2>2, ByRoleAlone DEF Opens
<1>2. CASE page = "onboardingNew" /\ "clients.write" \in ROLE_CAPABILITIES[r]
  <2>1. Asks[page] = {"contacts.read", "clients.read", "properties.read"}
    BY <1>2 DEF Asks, OnboardingPage
  <2> QED BY <1>2, <2>1, ReadTogether, ByRoleAlone DEF Opens
<1>3. CASE page = "propertiesNew" /\ "properties.write" \in ROLE_CAPABILITIES[r]
  <2>1. Asks[page] = {"clients.read"}
    BY <1>3 DEF Asks, NewPropertyPage
  <2> QED BY <1>3, <2>1, ReadTogether, ByRoleAlone DEF Opens
<1> QED BY <1>1, <1>2, <1>3, OfferedAre

-----------------------------------------------------------------------------
(* Where pages lead *)

LEMMA Homes ==
    /\ homePathFor("LANDLORD") = "/portal" /\ homePathFor("ORG_ADMIN") = "/members"
    /\ \A r \in {"WORKSPACE_ADMIN", "MANAGER", "MANAGING_AGENT"} : homePathFor(r) = "/dashboard"
    /\ isPersonaRole("LANDLORD") /\ \A r \in Staffed \ {"LANDLORD"} : ~isPersonaRole(r)
  BY DEF homePathFor, isPersonaRole, Staffed

\* Nobody is signed in.
LEMMA LeadsStranger ==
    ASSUME NEW b, currentUser(b) = Refused
    PROVE  /\ Goes(b, "/") = "/login" /\ Goes(b, "/login") = "/login"
           /\ Goes(b, "/forgot") = "/forgot" /\ Goes(b, "/admin") = "/login"
           /\ Goes(b, "/dashboard") = "/login" /\ Goes(b, "/members") = "/login"
           /\ Goes(b, "/portal") = "/login" /\ landSignedIn(b) = "/dashboard"
<1>1. ~AtConsole(b)
  BY DoorsAssumption DEF AtConsole
<1>2. requireCtx(b) = Refused
  BY DEF requireCtx
<1>3. \A x : ctxHome(b, x) = x
  BY <1>2 DEF ctxHome
<1>4. \A x : AppLayout(b, x) = "/login" /\ PortalLayout(b, x) = "/login"
  BY <1>2, <1>3 DEF AppLayout, PortalLayout
<1> QED BY <1>1, <1>3, <1>4
        DEF Goes, RootPage, LoginPage, ForgotPage, StaffLayout, Shows, MembersPage, landSignedIn

\* Somebody without a context.
LEMMA LeadsUnseated ==
    ASSUME NEW b, currentUser(b) # Refused, requireCtx(b) = Refused
    PROVE  /\ Goes(b, "/") = "/login"
           /\ Goes(b, "/login") = IF AtConsole(b) THEN "/admin" ELSE "/login"
           /\ Goes(b, "/forgot") = IF AtConsole(b) THEN "/admin" ELSE "/login"
           /\ Goes(b, "/admin") = IF AtConsole(b) THEN "/admin" ELSE "/dashboard"
           /\ Goes(b, "/dashboard") = "/login" /\ Goes(b, "/members") = "/login"
           /\ Goes(b, "/portal") = "/login"
           /\ landSignedIn(b) = IF AtConsole(b) THEN "/admin" ELSE "/dashboard"
<1>1. \A x : ctxHome(b, x) = x
  BY DEF ctxHome
<1>2. \A x : AppLayout(b, x) = "/login" /\ PortalLayout(b, x) = "/login"
  BY <1>1 DEF AppLayout, PortalLayout
<1> QED BY <1>1, <1>2
        DEF Goes, RootPage, LoginPage, ForgotPage, StaffLayout, Shows, MembersPage, landSignedIn

\* Somebody with one.
LEMMA LeadsSeated ==
    ASSUME NEW b, currentUser(b) # Refused, requireCtx(b) # Refused,
           NEW r \in Staffed, requireCtx(b).role = r
    PROVE  LET home == homePathFor(r) IN
           /\ Goes(b, "/") = home
           /\ Goes(b, "/login") = IF AtConsole(b) THEN "/admin" ELSE home
           /\ Goes(b, "/forgot") = IF AtConsole(b) THEN "/admin" ELSE home
           /\ Goes(b, "/admin") = IF AtConsole(b) THEN "/admin" ELSE "/dashboard"
           /\ Goes(b, "/dashboard") = IF r = "LANDLORD" THEN home
                                      ELSE IF r = "ORG_ADMIN" THEN "error" ELSE "/dashboard"
           /\ Goes(b, "/members") = IF r = "LANDLORD" THEN home
                                    ELSE IF r \in {"MANAGER", "MANAGING_AGENT"} THEN "/dashboard"
                                    ELSE "/members"
           /\ Goes(b, "/portal") = IF r = "LANDLORD" THEN "/portal" ELSE home
           /\ landSignedIn(b) = IF AtConsole(b) THEN "/admin" ELSE home
<1> DEFINE home == homePathFor(r)
<1>1. \A x : ctxHome(b, x) = home
  BY DEF ctxHome
<1>2. \A x : AppLayout(b, x) = IF r = "LANDLORD" THEN home ELSE x
  BY <1>1, Homes DEF AppLayout
<1>3. \A x : PortalLayout(b, x) = IF r = "LANDLORD" THEN x ELSE home
  BY <1>1, Homes DEF PortalLayout
<1>4. Shows(b, "/dashboard", "dashboard", "error")
        = IF r = "LANDLORD" THEN home ELSE IF r = "ORG_ADMIN" THEN "error" ELSE "/dashboard"
  BY <1>2, Homes, PagesOpen DEF Shows, Staffed
<1>5. MembersPage(b) = IF r = "LANDLORD" THEN home
                       ELSE IF r \in {"MANAGER", "MANAGING_AGENT"} THEN "/dashboard" ELSE "/members"
  BY <1>2, Homes, PagesOpen DEF MembersPage, Shows, Staffed
<1> HIDE DEF home
<1>6. /\ Goes(b, "/") = home
      /\ Goes(b, "/login") = IF AtConsole(b) THEN "/admin" ELSE home
      /\ Goes(b, "/forgot") = IF AtConsole(b) THEN "/admin" ELSE home
      /\ Goes(b, "/admin") = IF AtConsole(b) THEN "/admin" ELSE "/dashboard"
      /\ landSignedIn(b) = IF AtConsole(b) THEN "/admin" ELSE home
  BY <1>1 DEF Goes, RootPage, LoginPage, ForgotPage, StaffLayout, landSignedIn
<1>7. /\ Goes(b, "/dashboard") = Shows(b, "/dashboard", "dashboard", "error")
      /\ Goes(b, "/members") = MembersPage(b) /\ Goes(b, "/portal") = PortalLayout(b, "/portal")
  BY DEF Goes
<1> QED BY <1>3, <1>4, <1>5, <1>6, <1>7 DEF home

LEMMA ErrorStays == \A b : Goes(b, "error") = "error"
  BY DEF Goes

-----------------------------------------------------------------------------
(* The property of the doors, part by part *)

\* What a page that shows says of its caller.
Shown(b, p, q) ==
    LET u == currentUser(b)  c == requireCtx(b) IN
    /\ Goes(b, q) = q /\ q # "/"
    /\ q \in Inside => /\ c # Refused /\ shut[c.office] = {} /\ c.office \in opened
                       /\ c.user = u /\ c.live
                       /\ (q = "/portal") <=> isPersonaRole(c.role)
    /\ q = "/admin" => u \in Operators
    /\ q = "error" => c.role = "ORG_ADMIN" /\ p \in {"/dashboard", "/admin"}
    /\ q = "/login" /\ u # Refused =>
            \/ LiveOf(u) = {}
            \/ shut[seats[pickSeat(LiveOf(u))].office] # {}

LEMMA PagesShow ==
    ASSUME DoorTypes, NEW b
    PROVE  /\ \A p \in Pages : Shown(b, p, Rests(b, p))
           /\ \/ Rests(b, landSignedIn(b)) = Rests(b, "/")
              \/ currentUser(b) \in Operators /\ LiveOf(currentUser(b)) # {}
<1> DEFINE u == currentUser(b)  c == requireCtx(b)  r == c.role
<1>0. Contexts(b)
  BY ContextGiven
<1>1. CASE u = Refused
  <2>1. c = Refused
    BY <1>1 DEF requireCtx
  <2>2. \A p \in Pages : Rests(b, p) = IF p = "/forgot" THEN "/forgot" ELSE "/login"
    BY <1>1, LeadsStranger DEF Rests, Pages
  <2>3. \A p \in Pages : Goes(b, Rests(b, p)) = Rests(b, p)
    BY <1>1, <2>2, LeadsStranger DEF Pages
  <2>4. Rests(b, landSignedIn(b)) = Rests(b, "/")
    BY <1>1, LeadsStranger DEF Rests
  <2> QED BY <1>1, <2>1, <2>2, <2>3, <2>4 DEF Shown, Inside
<1>2. CASE u # Refused /\ c = Refused
  <2>1. LiveOf(u) = {} \/ shut[seats[pickSeat(LiveOf(u))].office] # {}
    BY <1>0, <1>2, SeatRows DEF Contexts
  <2>2. CASE AtConsole(b)
    <3>1. Rests(b, landSignedIn(b)) = "/admin" /\ Rests(b, "/") = "/admin"
      BY <1>2, <2>2, LeadsUnseated DEF Rests
    <3>2. \A p \in Pages : Rests(b, p) = "/admin"
      BY <1>2, <2>2, LeadsUnseated DEF Rests, Pages
    <3>3. u \in Operators /\ Goes(b, "/admin") = "/admin"
      BY <1>2, <2>2, LeadsUnseated DEF AtConsole
    <3> QED BY <3>1, <3>2, <3>3 DEF Shown, Inside
  <2>3. CASE ~AtConsole(b)
    <3>1. Rests(b, landSignedIn(b)) = "/login" /\ Rests(b, "/") = "/login"
      BY <1>2, <2>3, LeadsUnseated DEF Rests
    <3>2. \A p \in Pages : Rests(b, p) = "/login"
      BY <1>2, <2>3, LeadsUnseated DEF Rests, Pages
    <3>3. Goes(b, "/login") = "/login"
      BY <1>2, <2>3, LeadsUnseated
    <3> QED BY <2>1, <3>1, <3>2, <3>3 DEF Shown, Inside
  <2> QED BY <2>2, <2>3
<1>3. CASE u # Refused /\ c # Refused
  <2>1. /\ c \in SeatRow /\ c.user = u /\ c.live /\ shut[c.office] = {} /\ c.office \in opened
        /\ LiveOf(u) # {}
    BY <1>0, <1>3 DEF Contexts
  <2>2. r \in Staffed
    BY <2>1, SeatRows
  <2> DEFINE home == homePathFor(r)
  <2>3. /\ Goes(b, "/") = home
        /\ Goes(b, "/login") = IF AtConsole(b) THEN "/admin" ELSE home
        /\ Goes(b, "/forgot") = IF AtConsole(b) THEN "/admin" ELSE home
        /\ Goes(b, "/admin") = IF AtConsole(b) THEN "/admin" ELSE "/dashboard"
        /\ Goes(b, "/dashboard") = IF r = "LANDLORD" THEN home
                                   ELSE IF r = "ORG_ADMIN" THEN "error" ELSE "/dashboard"
        /\ Goes(b, "/members") = IF r = "LANDLORD" THEN home
                                 ELSE IF r \in {"MANAGER", "MANAGING_AGENT"} THEN "/dashboard"
                                 ELSE "/members"
        /\ Goes(b, "/portal") = IF r = "LANDLORD" THEN "/portal" ELSE home
        /\ landSignedIn(b) = IF AtConsole(b) THEN "/admin" ELSE home
    BY <1>3, <2>2, LeadsSeated
  <2>4. /\ r = "LANDLORD" => home = "/portal" /\ isPersonaRole(r)
        /\ r = "ORG_ADMIN" => home = "/members" /\ ~isPersonaRole(r)
        /\ r \notin {"LANDLORD", "ORG_ADMIN"} => home = "/dashboard" /\ ~isPersonaRole(r)
    BY <2>2, Homes DEF Staffed
  <2>5. AtConsole(b) => u \in Operators
    BY DEF AtConsole
  <2> HIDE DEF home, c, u
  <2>6. Goes(b, "error") = "error"
    BY ErrorStays
  <2>7. ASSUME NEW p \in Pages
        PROVE  /\ Goes(b, Rests(b, p)) = Rests(b, p) /\ Rests(b, p) # "/"
               /\ Rests(b, p) \in Inside => (Rests(b, p) = "/portal" <=> isPersonaRole(r))
               /\ Rests(b, p) = "/admin" => AtConsole(b)
               /\ Rests(b, p) = "error" => r = "ORG_ADMIN" /\ p \in {"/dashboard", "/admin"}
               /\ Rests(b, p) # "/login"
    <3>1. CASE r = "LANDLORD"
      BY <2>3, <2>4, <2>6, <3>1 DEF Rests, Pages, Inside
    <3>2. CASE r = "ORG_ADMIN"
      BY <2>3, <2>4, <2>6, <3>2 DEF Rests, Pages, Inside
    <3>3. CASE r \notin {"LANDLORD", "ORG_ADMIN"}
      BY <2>3, <2>4, <2>6, <3>3 DEF Rests, Pages, Inside
    <3> QED BY <3>1, <3>2, <3>3
  <2>8. \A p \in Pages : Shown(b, p, Rests(b, p))
    BY <1>3, <2>1, <2>5, <2>7 DEF Shown, c, u
  <2>9. Rests(b, landSignedIn(b)) = Rests(b, "/") \/ AtConsole(b)
    <3>1. home \in {"/portal", "/members", "/dashboard"} /\ Goes(b, home) = home
      BY <2>2, <2>3, <2>4 DEF Staffed
    <3> QED BY <2>3, <3>1 DEF Rests
  <2> QED BY <2>1, <2>5, <2>8, <2>9 DEF u
<1> QED BY <1>1, <1>2, <1>3

LEMMA TypesLead == DoorTypes => DoorsLead
<1> SUFFICES ASSUME DoorTypes, NEW b \in Browsers
             PROVE  LET u == currentUser(b)  c == requireCtx(b) IN
                    /\ \A p \in Pages : Shown(b, p, Rests(b, p))
                    /\ Rests(b, landSignedIn(b)) = Rests(b, "/") \/ (u \in Operators /\ LiveOf(u) # {})
                    /\ c # Refused /\ ~isPersonaRole(c.role) =>
                        \A page \in navForRole(c.role) \cup createsForRole(c.role) :
                            Opens(c.role, {}, page)
                                \/ (c.role = "MANAGING_AGENT" /\ page = "propertiesNew")
  BY DEF DoorsLead, Shown
<1>1. ASSUME requireCtx(b) # Refused, ~isPersonaRole(requireCtx(b).role)
      PROVE  requireCtx(b).role \in Staffed \ {"LANDLORD"}
  <2>1. requireCtx(b) \in SeatRow
    BY <1>1, ContextGiven DEF Contexts
  <2> QED BY <1>1, <2>1, SeatRows, Homes
<1> QED BY <1>1, PagesShow, OffersOpen DEF Offered

-----------------------------------------------------------------------------
(* Steps *)

LEMMA DoorTypesInit == DoorsInit => DoorTypes
  BY DEF DoorsInit, DoorTypes

\* A session is opened for somebody known; the seats are not looked at.
LEMMA SessionTypes ==
    ASSUME DoorTypes, NEW b \in Browsers, NEW u \in Persons, createSession(b, u)
    PROVE  /\ session' \in [Sessions -> [user : Persons \cup {Refused}, live : BOOLEAN]]
           /\ jar' \in [Browsers -> Sessions \cup {Refused}]
  BY DEF DoorTypes, createSession

LEMMA SeatAdded ==
    ASSUME DoorTypes, NEW u \in Persons, NEW w \in Offices, NEW r \in {"WORKSPACE_ADMIN"} \cup Hired,
           w \in opened', opened \subseteq opened', seats' = Append(seats, Seat(u, w, r))
    PROVE  seats' \in Seq(SeatRow) /\ \A n \in DOMAIN seats' : seats'[n].office \in opened'
<1>1. PICK s \in SeatRow : s = Seat(u, w, r) /\ s.office = w
  <2>1. Seat(u, w, r) \in SeatRow /\ Seat(u, w, r).office = w
    BY DEF Seat, SeatRow
  <2> QED BY <2>1
<1>2. seats \in Seq(SeatRow) /\ \A n \in DOMAIN seats : seats[n].office \in opened
  BY DEF DoorTypes
<1>3. seats' = Append(seats, s)
  BY <1>1
<1>4. seats' \in Seq(SeatRow) /\ DOMAIN seats' = 1 .. Len(seats) + 1
      /\ seats'[Len(seats) + 1] = s /\ \A n \in 1 .. Len(seats) : seats'[n] = seats[n]
  BY <1>2, <1>3
<1>5. ASSUME NEW n \in DOMAIN seats' PROVE seats'[n].office \in opened'
  <2>1. Len(seats) \in Nat /\ DOMAIN seats = 1 .. Len(seats)
    BY <1>2
  <2>2. n \in DOMAIN seats \/ n = Len(seats) + 1
    BY <1>4, <2>1
  <2> QED BY <1>1, <1>2, <1>4, <2>1, <2>2
<1> QED BY <1>4, <1>5

LEMMA SeatMarked ==
    ASSUME DoorTypes, NEW n \in DOMAIN seats, NEW live \in BOOLEAN,
           seats' = [seats EXCEPT ![n].live = live], opened' = opened
    PROVE  seats' \in Seq(SeatRow) /\ \A k \in DOMAIN seats' : seats'[k].office \in opened'
<1>1. seats \in Seq(SeatRow) /\ \A k \in DOMAIN seats : seats[k].office \in opened
  BY DEF DoorTypes
<1>2. PICK s \in SeatRow : s = [seats[n] EXCEPT !.live = live] /\ s.office = seats[n].office
  <2>1. seats[n] \in SeatRow
    BY <1>1
  <2>2. [seats[n] EXCEPT !.live = live] \in SeatRow
        /\ [seats[n] EXCEPT !.live = live].office = seats[n].office
    BY <2>1 DEF SeatRow
  <2> QED BY <2>2
<1>3. seats' = [seats EXCEPT ![n] = s]
  BY <1>2
<1> QED BY <1>1, <1>2, <1>3

LEMMA DoorTypesStep == DoorTypes /\ [DoorsNext]_doorVars => DoorTypes'
<1> SUFFICES ASSUME DoorTypes, [DoorsNext]_doorVars PROVE DoorTypes'
  OBVIOUS
<1>1. ASSUME NEW b \in Browsers, NEW u \in Persons, Login(b, u) PROVE DoorTypes'
  BY <1>1, SessionTypes DEF Login, DoorTypes
<1>2. ASSUME NEW b \in Browsers, NEW u \in Persons, ResetPassword(b, u) PROVE DoorTypes'
  BY <1>2, SessionTypes DEF ResetPassword, DoorTypes
<1>3. ASSUME NEW b \in Browsers, NEW u \in Persons, NEW w \in Offices, Provision(b, w, u)
      PROVE  DoorTypes'
  <2>1. seats' \in Seq(SeatRow) /\ \A n \in DOMAIN seats' : seats'[n].office \in opened'
    BY <1>3, SeatAdded DEF Provision
  <2> QED BY <1>3, <2>1 DEF Provision, DoorTypes
<1>4. ASSUME NEW b \in Browsers, NEW u \in Persons, NEW w \in Offices, NEW r \in Hired,
             AcceptSeat(b, u, w, r)
      PROVE  DoorTypes'
  <2>1. PICK a \in Browsers : requireCtx(a) # Refused /\ requireCtx(a).office = w
    BY <1>4 DEF AcceptSeat, MaySeat
  <2>2. w \in opened
    BY <2>1, ContextGiven DEF Contexts
  <2>3. opened' = opened /\ shut' = shut
    BY <1>4 DEF AcceptSeat
  <2>4. seats' \in Seq(SeatRow) /\ \A n \in DOMAIN seats' : seats'[n].office \in opened'
    <3>1. CASE seats' = Append(seats, Seat(u, w, r))
      BY <2>2, <2>3, <3>1, SeatAdded
    <3>2. CASE \E n \in DOMAIN seats : seats' = [seats EXCEPT ![n].live = TRUE]
      BY <2>3, <3>2, SeatMarked
    <3> QED BY <1>4, <3>1, <3>2 DEF AcceptSeat
  <2>5. createSession(b, u)
    BY <1>4 DEF AcceptSeat
  <2> QED BY <2>3, <2>4, <2>5, SessionTypes DEF DoorTypes
<1>5. ASSUME NEW b \in Browsers, NEW w \in Offices, NEW marks \in SUBSET {"suspended", "archived"},
             Shuts(b, w, marks)
      PROVE  DoorTypes'
  BY <1>5 DEF Shuts, DoorTypes
<1>6. ASSUME NEW b \in Browsers, NEW w \in Offices,
             \/ SuspendWorkspace(b, w) \/ UnsuspendWorkspace(b, w)
             \/ ArchiveWorkspace(b, w) \/ UnarchiveWorkspace(b, w)
      PROVE  DoorTypes'
  <2>1. shut[w] \subseteq {"suspended", "archived"}
    BY DEF DoorTypes
  <2>2. \E marks \in SUBSET {"suspended", "archived"} : Shuts(b, w, marks)
    BY <1>6, <2>1 DEF SuspendWorkspace, UnsuspendWorkspace, ArchiveWorkspace, UnarchiveWorkspace
  <2> QED BY <1>5, <2>2
<1>7. ASSUME NEW b \in Browsers, NEW w \in Offices, AcceptSeatZero(b, w) PROVE DoorTypes'
  <2>1. PICK n \in DOMAIN seats : createSession(b, seats[n].user)
    BY <1>7 DEF AcceptSeatZero
  <2>2. seats[n] \in SeatRow
    BY DEF DoorTypes
  <2>3. seats[n].user \in Persons
    BY <2>2, SeatRows
  <2>4. /\ session' \in [Sessions -> [user : Persons \cup {Refused}, live : BOOLEAN]]
        /\ jar' \in [Browsers -> Sessions \cup {Refused}]
    BY <2>1, <2>3, SessionTypes
  <2> QED BY <1>7, <2>4 DEF AcceptSeatZero, DoorTypes
<1>8. ASSUME NEW b \in Browsers, Logout(b) PROVE DoorTypes'
  BY <1>8 DEF Logout, DoorTypes
<1>9. ASSUME NEW x \in Sessions, SessionExpires(x) PROVE DoorTypes'
  BY <1>9 DEF SessionExpires, DoorTypes
<1>10. ASSUME NEW n, RemoveSeat(n) PROVE DoorTypes'
  <2>1. seats' \in Seq(SeatRow) /\ \A k \in DOMAIN seats' : seats'[k].office \in opened'
    BY <1>10, SeatMarked DEF RemoveSeat
  <2> QED BY <1>10, <2>1 DEF RemoveSeat, DoorTypes
<1>11. CASE UNCHANGED doorVars
  BY <1>11 DEF doorVars, DoorTypes
<1> QED BY <1>1, <1>2, <1>3, <1>4, <1>6, <1>7, <1>8, <1>9, <1>10, <1>11 DEF DoorsNext

\* Seats, sessions and offices keep their shape, and every seat is in an office that was
\* provisioned (admin/provisioning.ts:41-108, members.ts:290-396, auth/index.ts:37-60).
THEOREM DoorsTypeCorrect == DoorsSpec => []DoorTypes
  BY DoorTypesInit, DoorTypesStep, PTL DEF DoorsSpec

\* Whatever is provisioned, suspended or archived and whoever is seated, removed or signed in or
\* out, in two redirects every page leads to one that shows, each person to their own: the
\* console, their home, an open page of an office that is open, or the sign-in form
\* (request.ts:30-114, authz.ts:76-106, nav.ts:37-85, capabilities.ts:132-216, and the pages).
THEOREM DoorsLeadHolds == DoorsSpec => []DoorsLead
<1>1. DoorsSpec => []DoorTypes
  BY DoorsTypeCorrect
<1> QED BY <1>1, TypesLead, PTL

-----------------------------------------------------------------------------
(* Whom a request for proof may name: Assignees. *)

\* A contact of a unit is its owner or a party to a running lease of it.
LEMMA UnitContacts ==
    ASSUME RecordTypes, NEW x \in Units, NEW c \in propertyProofContactIds(x)
    PROVE  /\ c \in People /\ <<"PROPERTY", x>> \notin gone
           /\ \/ owner[x] = c
              \/ \E t \in There \ ended : place[t] = x /\ c \in {tenant[t], landlord[t]}
<1> DEFINE leases == Running({t \in There : place[t] = x})
<1>1. <<"PROPERTY", x>> \notin gone
  BY DEF propertyProofContactIds
<1>2. c \in ({owner[x]} \cup {landlord[t] : t \in leases} \cup {tenant[t] : t \in leases}) \ {Nothing}
  BY <1>1 DEF propertyProofContactIds
<1>3. owner[x] = c \/ \E t \in There \ ended : place[t] = x /\ c \in {tenant[t], landlord[t]}
  BY <1>2 DEF Running
<1>4. \A t \in There : tenant[t] \in People \cup {Nothing} /\ landlord[t] \in People \cup {Nothing}
  BY DEF There, RecordTypes
<1>5. owner[x] \in People \cup {Nothing}
  BY DEF RecordTypes
<1> QED BY <1>1, <1>2, <1>3, <1>4, <1>5

\* The contacts of a subject are those of one unit, which every viewer of a
\* client who sees the subject sees too.
LEMMA SubjectContacts ==
    ASSUME RecordTypes, NEW s \in Subjects, NEW c \in proofScopeContactIds(s)
    PROVE  \E x \in Units :
              /\ c \in propertyProofContactIds(x)
              /\ s[1] = "PROPERTY" => x = s[2]
              /\ s[1] = "CLIENT" => client[x] = s[2]
              /\ s[1] \in {"TENANCY", "PAYMENT_ITEM"} => s[2] \in There /\ x = place[s[2]]
<1>1. \A t \in There : place[t] \in Units
  BY DEF There, RecordTypes
<1>2. CASE s[1] = "PROPERTY"
  BY <1>2, SubjectsAre DEF proofScopeContactIds
<1>3. CASE s[1] = "CLIENT"
  <2>1. c \in UNION {propertyProofContactIds(x) : x \in {x \in OnFile("PROPERTY", Units) : client[x] = s[2]}}
    BY <1>3 DEF proofScopeContactIds
  <2>2. PICK x \in OnFile("PROPERTY", Units) : client[x] = s[2] /\ c \in propertyProofContactIds(x)
    BY <2>1
  <2>3. x \in Units
    BY <2>2 DEF OnFile
  <2> QED BY <1>3, <2>2, <2>3
<1>4. CASE s[1] = "TENANCY"
  <2>1. s[2] \in There /\ c \in propertyProofContactIds(place[s[2]])
    BY <1>4 DEF proofScopeContactIds, Running
  <2> QED BY <1>1, <1>4, <2>1
<1>5. CASE s[1] = "PAYMENT_ITEM"
  <2>1. s[2] \in There /\ c \in propertyProofContactIds(place[s[2]])
    BY <1>5 DEF proofScopeContactIds
  <2> QED BY <1>1, <1>5, <2>1
<1> QED BY <1>2, <1>3, <1>4, <1>5, SubjectsAre

LEMMA DelegateSends ==
    ASSUME RecordTypes, NEW s \in Subjects, NEW c \in People, MayAsk("MANAGING_AGENT", s, c)
    PROVE  s \in ids(<<"MANAGING_AGENT", Nothing>>).proofs
<1> DEFINE v == <<"MANAGING_AGENT", Nothing>>
<1>1. v \in Viewers
  BY DEF Viewers, Scope
<1>2. s \in Writable
  BY DEF MayAsk, delegate
<1>3. Writable = Meant(v).proofs
  BY TypesAgree DEF DoorsAgree
<1>4. Meant(v).proofs = MeantSubjects(v)
  BY DEF Meant, MeantSubjects
<1>5. ids(v).proofs = MeantSubjects(v)
  BY <1>1, IdsAreMeant
<1> QED BY <1>2, <1>3, <1>4, <1>5

LEMMA AskedFind ==
    ASSUME RecordTypes, NEW s \in Subjects, s[1] = "PROPERTY", NEW c \in proofScopeContactIds(s)
    PROVE  \E as \in {"TENANT", "LANDLORD"} :
              s \in ids(<<as, c>>).proofs /\ s[2] \in ids(<<as, c>>).units
<1>1. PICK x \in Units : x = s[2] /\ c \in propertyProofContactIds(x)
  BY SubjectContacts
<1>2. /\ c \in People
      /\ (owner[x] = c \/ \E t \in There \ ended : place[t] = x /\ c \in {tenant[t], landlord[t]})
  BY <1>1, UnitContacts
<1>3. PICK as \in {"TENANT", "LANDLORD"} : MeantUnit(<<as, c>>, x)
  BY <1>2 DEF MeantUnit
<1> DEFINE v == <<as, c>>
<1>4. v \in Viewers
  BY <1>2 DEF Viewers, Scope
<1>5. x \in MeantUnits(v) /\ s \in MeantSubjects(v)
  BY <1>1, <1>3 DEF MeantUnits, MeantSubjects, MeantSubject
<1>6. ids(v).proofs = MeantSubjects(v) /\ ids(v).units = MeantUnits(v)
  BY <1>4, IdsAreMeant
<1> QED BY <1>1, <1>5, <1>6

LEMMA AssigneeListed ==
    ASSUME RecordTypes, NEW s \in Subjects, NEW c \in proofScopeContactIds(s), NEW k \in Clients,
           s \in resolveClientScopeIds(k).proofs
    PROVE  c \in contactIdsForScope(resolveClientScopeIds(k))
<1> DEFINE v == <<"CLIENT_VIEWER", k>>
<1>1. v \in Viewers /\ v[1] = "CLIENT_VIEWER" /\ v[2] = k
  BY DEF Viewers, Scope
<1>2. ids(v) = resolveClientScopeIds(k)
  BY DEF ids
<1>3. MeantSubject(v, s)
  <2>1. s \in MeantSubjects(v)
    BY <1>1, <1>2, IdsAreMeant
  <2> QED BY <2>1 DEF MeantSubjects
<1>4. PICK x \in Units :
              /\ c \in propertyProofContactIds(x)
              /\ s[1] = "PROPERTY" => x = s[2]
              /\ s[1] = "CLIENT" => client[x] = s[2]
              /\ s[1] \in {"TENANCY", "PAYMENT_ITEM"} => s[2] \in There /\ x = place[s[2]]
  BY SubjectContacts
<1>5. MeantUnit(v, x)
  <2>1. s = <<s[1], s[2]>> /\ \/ s[1] = "CLIENT" \/ s[1] = "PROPERTY"
                              \/ s[1] \in {"TENANCY", "PAYMENT_ITEM"}
    BY SubjectsAre
  <2>2. CASE s[1] = "CLIENT"
    <3>1. s[2] = k
      BY <1>3, <2>2 DEF MeantSubject
    <3> QED BY <1>4, <2>2, <3>1 DEF MeantUnit
  <2>3. CASE s[1] = "PROPERTY"
    BY <1>3, <1>4, <2>3 DEF MeantSubject
  <2>4. CASE s[1] \in {"TENANCY", "PAYMENT_ITEM"}
    BY <1>3, <1>4, <2>4 DEF MeantSubject, MeantLease
  <2> QED BY <2>1, <2>2, <2>3, <2>4
<1>6. /\ c \in People
      /\ (owner[x] = c \/ \E t \in There \ ended : place[t] = x /\ c \in {tenant[t], landlord[t]})
  BY <1>4, UnitContacts
<1>7. \A t \in There : place[t] = x => MeantLease(v, t)
  BY <1>5 DEF MeantLease
<1>8. MeantContact(v, c)
  BY <1>5, <1>6, <1>7 DEF MeantContact
<1> QED BY <1>1, <1>2, <1>6, <1>8, PartiesAreMeant

\* What the form's pairs are, spelt out.
Choices(role) == IF delegate(role) THEN OnFile("PROPERTY", agentBook) ELSE OnFile("PROPERTY", Units)
Asked(role) == IF delegate(role) THEN {} ELSE OnFile("CLIENT", Clients)
Offers(role, units) ==
    OnFile("CONTACT", UNION {propertyProofContactIds(x) : x \in Choices(role)})
        \cap UNION {propertyProofContactIds(x) : x \in units}
OfClient(role, k) == Offers(role, {x \in Choices(role) : client[x] = k})

ByClient(role, z) == \E k \in Asked(role) : \E c \in OfClient(role, k) : z = <<<<"CLIENT", k>>, c>>
ByUnit(role, z) == \E x \in Choices(role) : \E c \in Offers(role, {x}) : z = <<<<"PROPERTY", x>>, c>>

LEMMA OptionsAre ==
    ASSUME NEW role
    PROVE  proofRequestOptions(role) =
            {o \in {[subject |-> <<"CLIENT", k>>, assignees |-> OfClient(role, k)] : k \in Asked(role)}
                \cup {[subject |-> <<"PROPERTY", x>>, assignees |-> Offers(role, {x})] : x \in Choices(role)} :
             o.assignees # {}}
  BY DEF proofRequestOptions, Choices, Asked, Offers, OfClient

LEMMA PostableAre ==
    ASSUME NEW role, Writes(role), NEW z
    PROVE  z \in Postable(role) <=>
            ByClient(role, z) \/ ByUnit(role, z)
<1>1. Postable(role) = UNION {{<<o.subject, c>> : c \in o.assignees} : o \in proofRequestOptions(role)}
  BY DEF Postable, FormOptions
<1>2. z \in Postable(role) <=>
        \E o \in proofRequestOptions(role) : \E c \in o.assignees : z = <<o.subject, c>>
  BY <1>1
<1>3. ASSUME NEW o \in proofRequestOptions(role), NEW c \in o.assignees, z = <<o.subject, c>>
      PROVE  \/ \E k \in Asked(role) : \E d \in OfClient(role, k) : z = <<<<"CLIENT", k>>, d>>
             \/ \E x \in Choices(role) : \E d \in Offers(role, {x}) : z = <<<<"PROPERTY", x>>, d>>
  <2>1. \/ \E k \in Asked(role) : o = [subject |-> <<"CLIENT", k>>, assignees |-> OfClient(role, k)]
        \/ \E x \in Choices(role) : o = [subject |-> <<"PROPERTY", x>>, assignees |-> Offers(role, {x})]
    BY OptionsAre
  <2>2. ASSUME NEW k \in Asked(role), o = [subject |-> <<"CLIENT", k>>, assignees |-> OfClient(role, k)]
        PROVE  \E d \in OfClient(role, k) : z = <<<<"CLIENT", k>>, d>>
    <3>1. o.assignees = OfClient(role, k) /\ o.subject = <<"CLIENT", k>>
      BY <2>2
    <3> QED BY <1>3, <3>1
  <2>3. ASSUME NEW x \in Choices(role), o = [subject |-> <<"PROPERTY", x>>, assignees |-> Offers(role, {x})]
        PROVE  \E d \in Offers(role, {x}) : z = <<<<"PROPERTY", x>>, d>>
    <3>1. o.assignees = Offers(role, {x}) /\ o.subject = <<"PROPERTY", x>>
      BY <2>3
    <3> QED BY <1>3, <3>1
  <2> QED BY <2>1, <2>2, <2>3
<1>4. ASSUME NEW k \in Asked(role), NEW c \in OfClient(role, k), z = <<<<"CLIENT", k>>, c>>
      PROVE  \E o \in proofRequestOptions(role) : \E d \in o.assignees : z = <<o.subject, d>>
  <2> DEFINE o == [subject |-> <<"CLIENT", k>>, assignees |-> OfClient(role, k)]
  <2>1. o.assignees = OfClient(role, k) /\ o.subject = <<"CLIENT", k>>
    OBVIOUS
  <2>2. o \in {[subject |-> <<"CLIENT", j>>, assignees |-> OfClient(role, j)] : j \in Asked(role)}
    OBVIOUS
  <2> HIDE DEF o
  <2>3. o \in proofRequestOptions(role)
    BY <2>1, <2>2, OptionsAre
  <2> QED BY <1>4, <2>1, <2>3
<1>5. ASSUME NEW x \in Choices(role), NEW c \in Offers(role, {x}), z = <<<<"PROPERTY", x>>, c>>
      PROVE  \E o \in proofRequestOptions(role) : \E d \in o.assignees : z = <<o.subject, d>>
  <2> DEFINE o == [subject |-> <<"PROPERTY", x>>, assignees |-> Offers(role, {x})]
  <2>1. o.assignees = Offers(role, {x}) /\ o.subject = <<"PROPERTY", x>>
    OBVIOUS
  <2>2. o \in {[subject |-> <<"PROPERTY", y>>, assignees |-> Offers(role, {y})] : y \in Choices(role)}
    OBVIOUS
  <2> HIDE DEF o
  <2>3. o \in proofRequestOptions(role)
    BY <2>1, <2>2, OptionsAre
  <2> QED BY <1>5, <2>1, <2>3
<1> QED BY <1>2, <1>3, <1>4, <1>5 DEF ByClient, ByUnit

LEMMA PairsAre ==
    ASSUME NEW role, Writes(role), NEW r, NEW c
    PROVE  /\ <<<<"CLIENT", r>>, c>> \in Postable(role) <=> r \in Asked(role) /\ c \in OfClient(role, r)
           /\ <<<<"PROPERTY", r>>, c>> \in Postable(role) <=> r \in Choices(role) /\ c \in Offers(role, {r})
<1>1. \A k, d : <<<<"CLIENT", r>>, c>> = <<<<"CLIENT", k>>, d>> <=> k = r /\ d = c
  OBVIOUS
<1>2. \A k, d : <<<<"PROPERTY", r>>, c>> = <<<<"PROPERTY", k>>, d>> <=> k = r /\ d = c
  OBVIOUS
<1>3. \A k, d : <<<<"PROPERTY", r>>, c>> # <<<<"CLIENT", k>>, d>>
                 /\ <<<<"CLIENT", r>>, c>> # <<<<"PROPERTY", k>>, d>>
  OBVIOUS
<1>4. PICK z : z = <<<<"CLIENT", r>>, c>>
  OBVIOUS
<1>5. PICK y : y = <<<<"PROPERTY", r>>, c>>
  OBVIOUS
<1>6. z \in Postable(role) <=> r \in Asked(role) /\ c \in OfClient(role, r)
  <2>1. z \in Postable(role) <=> ByClient(role, z) \/ ByUnit(role, z)
    BY PostableAre
  <2> QED BY <1>1, <1>3, <1>4, <2>1 DEF ByClient, ByUnit
<1>7. y \in Postable(role) <=> r \in Choices(role) /\ c \in Offers(role, {r})
  <2>1. y \in Postable(role) <=> ByClient(role, y) \/ ByUnit(role, y)
    BY PostableAre
  <2> QED BY <1>2, <1>3, <1>5, <2>1 DEF ByClient, ByUnit
<1> QED BY <1>4, <1>5, <1>6, <1>7

\* A contact is offered for a choice exactly if it is on file and the choice's.
LEMMA OfferedFor ==
    ASSUME RecordTypes, NEW role, NEW units \in SUBSET Choices(role), NEW c
    PROVE  c \in Offers(role, units) <=>
            c \in OnFile("CONTACT", People) /\ \E x \in units : c \in propertyProofContactIds(x)
<1>1. Choices(role) \subseteq Units
  BY DEF Choices, OnFile, RecordTypes
<1>2. \A x \in units : x \in Units /\ x \in Choices(role)
  BY <1>1
<1>3. ASSUME NEW x \in units, c \in propertyProofContactIds(x)
      PROVE  c \in People
  BY <1>2, <1>3, UnitContacts
<1> QED BY <1>2, <1>3 DEF Offers, OnFile

LEMMA FormHonoured ==
    ASSUME RecordTypes, NEW role, Writes(role), NEW s, NEW c \in People,
           s \in Scope("CLIENT", Clients) \cup Scope("PROPERTY", Units)
    PROVE  <<s, c>> \in Postable(role) <=> MayAsk(role, s, c) /\ s \notin gone
<1>1. s \in Subjects /\ s = <<s[1], s[2]>>
      /\ ((s[1] = "CLIENT" /\ s[2] \in Clients) \/ (s[1] = "PROPERTY" /\ s[2] \in Units))
  BY DEF Subjects, Scope
<1>2. Choices(role) \subseteq OnFile("PROPERTY", Units)
  BY DEF Choices, OnFile, RecordTypes
<1>3. CASE s[1] = "CLIENT"
  <2> DEFINE k == s[2]  units == {x \in Choices(role) : client[x] = k}
  <2>1. <<s, c>> \in Postable(role) <=> k \in Asked(role) /\ c \in OfClient(role, k)
    BY <1>1, <1>3, PairsAre
  <2>2. c \in OfClient(role, k) <=>
            c \in OnFile("CONTACT", People) /\ \E x \in units : c \in propertyProofContactIds(x)
    BY OfferedFor DEF OfClient
  <2>3. CASE delegate(role)
    <3>1. k \notin Asked(role)
      BY <2>3 DEF Asked
    <3>2. Nothing \notin agentBook
      BY ScopesAssumption DEF RecordTypes
    <3>3. s \notin Writable
      BY <1>3, <3>2 DEF Writable, propertyIdOfScope
    <3> QED BY <2>1, <2>3, <3>1, <3>3 DEF MayAsk
  <2>4. CASE ~delegate(role)
    <3>1. Choices(role) = OnFile("PROPERTY", Units) /\ Asked(role) = OnFile("CLIENT", Clients)
      BY <2>4 DEF Choices, Asked
    <3>2. k \in Asked(role) <=> s \notin gone
      BY <1>1, <1>3, <3>1 DEF OnFile
    <3>3. proofScopeContactIds(s) = UNION {propertyProofContactIds(x) : x \in units}
      BY <1>3, <3>1 DEF proofScopeContactIds
    <3>4. c \in proofScopeContactIds(s) <=> \E x \in units : c \in propertyProofContactIds(x)
      BY <3>3
    <3> QED BY <1>3, <2>1, <2>2, <2>4, <3>2, <3>4 DEF MayAsk
  <2> QED BY <2>3, <2>4
<1>4. CASE s[1] = "PROPERTY"
  <2> DEFINE x == s[2]
  <2>1. <<s, c>> \in Postable(role) <=> x \in Choices(role) /\ c \in Offers(role, {x})
    BY <1>1, <1>4, PairsAre
  <2>2. x \in Choices(role) => (c \in Offers(role, {x}) <=>
            c \in OnFile("CONTACT", People) /\ c \in propertyProofContactIds(x))
    <3>1. x \in Choices(role) => {x} \in SUBSET Choices(role)
      OBVIOUS
    <3> QED BY <3>1, OfferedFor
  <2>3. proofScopeContactIds(s) = propertyProofContactIds(x)
    BY <1>4 DEF proofScopeContactIds
  <2>4. c \in propertyProofContactIds(x) => <<"PROPERTY", x>> \notin gone
    BY <1>1, <1>4, UnitContacts
  <2>5. s \in Writable <=> x \in agentBook
    BY <1>1, <1>4 DEF Writable, propertyIdOfScope
  <2>6. <<"PROPERTY", x>> \notin gone => (x \in Choices(role) <=> (delegate(role) => x \in agentBook))
    BY <1>1, <1>4 DEF Choices, OnFile
  <2>7. s = <<"PROPERTY", x>>
    BY <1>1, <1>4
  <2>8. MayAsk(role, s, c) <=> /\ delegate(role) => x \in agentBook
                               /\ c \in OnFile("CONTACT", People) /\ c \in propertyProofContactIds(x)
    BY <2>3, <2>5 DEF MayAsk
  <2> QED BY <2>1, <2>2, <2>4, <2>6, <2>7, <2>8
<1> QED BY <1>1, <1>3, <1>4

LEMMA TypesAsk == RecordTypes => AskedRightly
<1> SUFFICES ASSUME RecordTypes PROVE AskedRightly
  OBVIOUS
<1>1. ASSUME NEW role \in DOMAIN ROLE_CAPABILITIES
      PROVE  Postable(role) = {ask \in (Scope("CLIENT", Clients) \cup Scope("PROPERTY", Units)) \X People :
                                  MayAsk(role, ask[1], ask[2]) /\ ask[1] \notin gone}
  <2>0. PICK S : S = Scope("CLIENT", Clients) \cup Scope("PROPERTY", Units)
    OBVIOUS
  <2>1. CASE ~Writes(role)
    <3>1. Postable(role) = {}
      BY <2>1 DEF Postable, FormOptions
    <3>2. \A s, c : ~MayAsk(role, s, c)
      BY <2>1 DEF MayAsk
    <3> QED BY <3>1, <3>2
  <2>2. CASE Writes(role)
    <3>1. ASSUME NEW s \in S, NEW c \in People
          PROVE  <<s, c>> \in Postable(role) <=> MayAsk(role, s, c) /\ s \notin gone
      <4>1. s \in Scope("CLIENT", Clients) \cup Scope("PROPERTY", Units)
        BY <2>0
      <4> QED BY <2>2, <4>1, FormHonoured
    <3>2. ASSUME NEW z \in Postable(role) PROVE \E s \in S, c \in People : z = <<s, c>>
      <4>1. Choices(role) \subseteq Units /\ Asked(role) \subseteq Clients
        BY DEF Choices, Asked, OnFile, RecordTypes
      <4>2. \A x \in Choices(role) : {x} \in SUBSET Choices(role)
        OBVIOUS
      <4>3. \A k : {x \in Choices(role) : client[x] = k} \in SUBSET Choices(role)
        OBVIOUS
      <4>4. \A x \in Choices(role) : Offers(role, {x}) \subseteq People
        BY <4>2, OfferedFor DEF OnFile
      <4>5. \A k : OfClient(role, k) \subseteq People
        BY <4>3, OfferedFor DEF OnFile, OfClient
      <4>6. CASE ByClient(role, z)
        BY <2>0, <4>1, <4>5, <4>6 DEF Scope, ByClient
      <4>7. CASE ByUnit(role, z)
        BY <2>0, <4>1, <4>4, <4>7 DEF Scope, ByUnit
      <4>8. ByClient(role, z) \/ ByUnit(role, z)
        BY <2>2, PostableAre
      <4> QED BY <4>6, <4>7, <4>8
    <3>3. ASSUME NEW z \in Postable(role)
          PROVE  z \in S \X People /\ MayAsk(role, z[1], z[2]) /\ z[1] \notin gone
      <4>1. PICK s \in S, c \in People : z = <<s, c>>
        BY <3>2
      <4>2. MayAsk(role, s, c) /\ s \notin gone
        BY <3>1, <4>1
      <4>3. z[1] = s /\ z[2] = c
        BY <4>1
      <4> QED BY <4>1, <4>2, <4>3
    <3>4. ASSUME NEW z \in S \X People, MayAsk(role, z[1], z[2]), z[1] \notin gone
          PROVE  z \in Postable(role)
      <4>1. z = <<z[1], z[2]>> /\ z[1] \in S /\ z[2] \in People
        OBVIOUS
      <4>2. <<z[1], z[2]>> \in Postable(role)
        BY <3>1, <3>4, <4>1
      <4> QED BY <4>1, <4>2
    <3>5. Postable(role) = {z \in S \X People : MayAsk(role, z[1], z[2]) /\ z[1] \notin gone}
      BY <3>3, <3>4
    <3> QED BY <3>5, <2>0
  <2> QED BY <2>1, <2>2
<1>2. \A s \in Subjects, c \in People : MayAsk("MANAGING_AGENT", s, c) =>
        s \in ids(<<"MANAGING_AGENT", Nothing>>).proofs
  BY DelegateSends
<1>3. ASSUME NEW s \in Subjects, NEW c \in proofScopeContactIds(s)
      PROVE  /\ s[1] = "PROPERTY" => \E as \in {"TENANT", "LANDLORD"} :
                    s \in ids(<<as, c>>).proofs /\ s[2] \in ids(<<as, c>>).units
             /\ \A k \in Clients : s \in resolveClientScopeIds(k).proofs =>
                    c \in contactIdsForScope(resolveClientScopeIds(k))
  BY AskedFind, AssigneeListed
<1> QED BY <1>1, <1>2, <1>3 DEF AskedRightly

\* Whatever is written to the records and archived, the form for a proof request
\* offers just what the service takes of clients and units but for archived
\* clients, the delegate may send what it may create, whoever is asked about a
\* unit finds it and the request in the portal, and a client's viewer finds the
\* assignee of each request it sees (proofs.ts:35-247, contactScope.ts:40-107,
\* clientScope.ts:80-121).
THEOREM AskedRightlyHolds == AssigneesSpec => []AskedRightly
<1>1. AssigneesInit => RecordTypes
  BY RecordTypesInit DEF AssigneesInit
<1>2. RecordTypes /\ [AssigneesNext]_assigneeVars => RecordTypes'
  <2>1. ASSUME [AssigneesNext]_assigneeVars PROVE [ScopesNext]_scopeVars
    BY <2>1 DEF AssigneesNext, assigneeVars, Archive
  <2> QED BY <2>1, RecordTypesStep
<1>3. AssigneesSpec => []RecordTypes
  BY <1>1, <1>2, PTL DEF AssigneesSpec
<1> QED BY <1>3, TypesAsk, PTL

=============================================================================
