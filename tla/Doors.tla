-------------------------------- MODULE Doors --------------------------------
(***************************************************************************)
(* Who gets in, and where they land: sessions in browsers (auth/index.ts,  *)
(* auth/request.ts), the context a session builds (authz.ts), workspaces   *)
(* that are provisioned, suspended and archived (admin/provisioning.ts),   *)
(* and the pages and layouts that redirect.  A page, its layout included,  *)
(* reads in one step; the steps of seating a member, and the overlay that  *)
(* adds to a seat, are in Members.                                         *)
(***************************************************************************)
EXTENDS Menu, Naturals, Sequences

CONSTANTS
    Persons,       \* users by e-mail
    Operators,    \* those that are isPlatformAdmin
    Offices,      \* workspaces that can be provisioned
    Browsers,
    Sessions,     \* bounds the sessions that matter at once
    Hired,        \* roles that seats have here
    MaxSeats,     \* bounds the memberships
    Refused       \* no user, no seat, no session

SeatRow == [user : Persons, office : Offices, role : {"WORKSPACE_ADMIN"} \cup Hired, live : BOOLEAN]

\* Only inviteable seats are given beside the one that comes with the office.
ASSUME DoorsAssumption ==
    /\ Operators \subseteq Persons /\ Hired \subseteq INVITEABLE_SEATS
    /\ Refused \notin Persons \cup Sessions /\ Refused \notin SeatRow

VARIABLES
    seats,      \* memberships by createdAt: user, office, role, live
    shut,       \* per office: suspendedAt and archivedAt, as a set
    opened,     \* offices that exist
    keyed,      \* people who have a password
    invited,    \* offices whose first invitation is outstanding
    session,    \* per session: its user and whether it is live
    jar         \* per browser: the session in its cookie

doorVars == <<seats, shut, opened, keyed, invited, session, jar>>

DoorsInit ==
    /\ seats = <<>> /\ opened = {} /\ invited = {}
    /\ shut = [w \in Offices |-> {}]
    /\ keyed = Operators
    /\ session = [x \in Sessions |-> [user |-> Refused, live |-> FALSE]]
    /\ jar = [b \in Browsers |-> Refused]

-----------------------------------------------------------------------------
(* The context of a request *)

\* sessionUser: the user of a session that is neither revoked nor expired.
currentUser(b) ==
    IF jar[b] # Refused /\ session[jar[b]].live THEN session[jar[b]].user ELSE Refused

isPersonaRole(r) == r \in {"TENANT", "LANDLORD"}

\* Best role first, then the oldest.
LiveOf(u) == {n \in DOMAIN seats : seats[n].user = u /\ seats[n].live}
Before(n, k) ==
    LET r == ROLE_RANK[seats[n].role]  q == ROLE_RANK[seats[k].role] IN r < q \/ (r = q /\ n <= k)
pickSeat(S) == CHOOSE n \in S : \A k \in S : Before(n, k)

\* authz: no context while the office is suspended or archived.
authz(u, w) ==
    LET S == {n \in LiveOf(u) : seats[n].office = w} IN
    IF S = {} \/ shut[w] # {} THEN Refused ELSE seats[pickSeat(S)]

\* resolveCtxFor without a preference, for nothing sets that cookie: the office is
\* that of the best seat anywhere, whether or not it is shut.
resolveCtxFor(u) ==
    IF LiveOf(u) = {} THEN Refused ELSE authz(u, seats[pickSeat(LiveOf(u))].office)

requireCtx(b) == IF currentUser(b) = Refused THEN Refused ELSE resolveCtxFor(currentUser(b))

\* requirePlatformAdmin
AtConsole(b) == currentUser(b) \in Operators

-----------------------------------------------------------------------------
(* Pages: where each sends a browser, itself when it shows *)

\* A slip: everybody goes to the dashboard.
OneHome(r) == "/dashboard"
homePathFor(r) ==
    IF isPersonaRole(r) THEN "/portal" ELSE IF r = "ORG_ADMIN" THEN "/members" ELSE "/dashboard"

ctxHome(b, otherwise) == IF requireCtx(b) = Refused THEN otherwise ELSE homePathFor(requireCtx(b).role)

RootPage(b) == ctxHome(b, "/login")

LoginPage(b) == IF AtConsole(b) THEN "/admin" ELSE ctxHome(b, "/login")

ForgotPage(b) ==
    IF AtConsole(b) THEN "/admin"
    ELSE IF currentUser(b) = Refused THEN "/forgot" ELSE ctxHome(b, "/login")

StaffLayout(b) ==
    IF currentUser(b) = Refused THEN "/login" ELSE IF AtConsole(b) THEN "/admin" ELSE "/dashboard"

\* Both layouts turn away those whose home is behind the other.
AppLayout(b, page) ==
    IF requireCtx(b) # Refused /\ ~isPersonaRole(requireCtx(b).role) THEN page ELSE ctxHome(b, "/login")
PortalLayout(b, page) ==
    IF requireCtx(b) # Refused /\ isPersonaRole(requireCtx(b).role) THEN page ELSE ctxHome(b, "/login")

\* What a refused list comes to: the error page, but for the members', which the
\* page catches.
Shows(b, path, list, otherwise) ==
    IF AppLayout(b, path) = path /\ ~Opens(requireCtx(b).role, {}, list) THEN otherwise
    ELSE AppLayout(b, path)
MembersPage(b) == Shows(b, "/members", "members", "/dashboard")

Pages == {"/", "/login", "/forgot", "/admin", "/dashboard", "/members", "/portal"}
Goes(b, page) ==
    CASE page = "/" -> RootPage(b)
      [] page = "/login" -> LoginPage(b)
      [] page = "/forgot" -> ForgotPage(b)
      [] page = "/admin" -> StaffLayout(b)
      [] page = "/dashboard" -> Shows(b, "/dashboard", "dashboard", "error")
      [] page = "/members" -> MembersPage(b)
      [] page = "/portal" -> PortalLayout(b, "/portal")
      [] page = "error" -> "error"

\* Where the browser goes right after a sign-in.
landSignedIn(b) == IF AtConsole(b) THEN "/admin" ELSE ctxHome(b, "/dashboard")

-----------------------------------------------------------------------------
(* Sessions *)

\* A new row, and its token in the cookie; the one that was there stays live.
createSession(b, u) ==
    \E x \in Sessions :
        /\ ~session[x].live /\ \A a \in Browsers : jar[a] # x
        /\ session' = [session EXCEPT ![x] = [user |-> u, live |-> TRUE]]
        /\ jar' = [jar EXCEPT ![b] = x]

\* With the right password and no lock (SignIn).
Login(b, u) ==
    /\ u \in keyed /\ createSession(b, u)
    /\ UNCHANGED <<seats, shut, opened, keyed, invited>>

\* Through the mailed link (SignIn): the person has an account.
ResetPassword(b, u) ==
    /\ createSession(b, u) /\ keyed' = keyed \cup {u}
    /\ u \in keyed \/ LiveOf(u) # {}
    /\ UNCHANGED <<seats, shut, opened, invited>>

Logout(b) ==
    /\ jar[b] # Refused
    /\ session' = [session EXCEPT ![jar[b]].live = FALSE]
    /\ jar' = [jar EXCEPT ![b] = Refused]
    /\ UNCHANGED <<seats, shut, opened, keyed, invited>>

SessionExpires(x) ==
    /\ session[x].live /\ session' = [session EXCEPT ![x].live = FALSE]
    /\ UNCHANGED <<seats, shut, opened, keyed, invited, jar>>

-----------------------------------------------------------------------------
(* The console *)

Seat(u, w, r) == [user |-> u, office |-> w, role |-> r, live |-> TRUE]

\* One transaction: office, user, seat and invitation.
Provision(b, w, u) ==
    /\ AtConsole(b) /\ w \notin opened /\ Len(seats) < MaxSeats
    /\ opened' = opened \cup {w} /\ invited' = invited \cup {w}
    /\ seats' = Append(seats, Seat(u, w, "WORKSPACE_ADMIN"))
    /\ UNCHANGED <<shut, keyed, session, jar>>

Shuts(b, w, marks) ==
    /\ AtConsole(b) /\ w \in opened
    /\ shut' = [shut EXCEPT ![w] = marks]
    /\ UNCHANGED <<seats, opened, keyed, invited, session, jar>>
SuspendWorkspace(b, w) == Shuts(b, w, shut[w] \cup {"suspended"})
UnsuspendWorkspace(b, w) == Shuts(b, w, shut[w] \ {"suspended"})
ArchiveWorkspace(b, w) == Shuts(b, w, shut[w] \cup {"archived"})
UnarchiveWorkspace(b, w) == Shuts(b, w, shut[w] \ {"archived"})

\* The first invitation: its seat is there; a password is set, a session opened.
AcceptSeatZero(b, w) ==
    /\ w \in invited /\ invited' = invited \ {w}
    /\ \E n \in DOMAIN seats : /\ seats[n].office = w /\ \A k \in 1 .. n - 1 : seats[k].office # w
                             /\ createSession(b, seats[n].user)
                             /\ keyed' = keyed \cup {seats[n].user}
    /\ UNCHANGED <<seats, shut, opened>>

\* Somebody who may manage the office has a person seated, or takes the seat back.
MaySeat(w) == \E b \in Browsers :
    /\ requireCtx(b) # Refused /\ requireCtx(b).office = w
    /\ hasCapability(requireCtx(b).role, {}, "members.manage")
AcceptSeat(b, u, w, r) ==
    /\ MaySeat(w)
    /\ ~\E n \in LiveOf(u) : seats[n].office = w
    /\ LET old == {n \in DOMAIN seats : [seats[n] EXCEPT !.live = TRUE] = Seat(u, w, r)} IN
        \/ old = {} /\ Len(seats) < MaxSeats /\ seats' = Append(seats, Seat(u, w, r))
        \/ \E n \in old : seats' = [seats EXCEPT ![n].live = TRUE]
    /\ createSession(b, u) /\ keyed' = keyed \cup {u}
    /\ UNCHANGED <<shut, opened, invited>>
RemoveSeat(n) ==
    /\ n \in DOMAIN seats /\ seats[n].live /\ MaySeat(seats[n].office)
    /\ seats' = [seats EXCEPT ![n].live = FALSE]
    /\ UNCHANGED <<shut, opened, keyed, invited, session, jar>>

-----------------------------------------------------------------------------
DoorsNext ==
    \/ \E b \in Browsers :
        \/ \E u \in Persons :
            \/ Login(b, u) \/ ResetPassword(b, u)
            \/ \E w \in Offices :
                Provision(b, w, u) \/ \E r \in Hired : AcceptSeat(b, u, w, r)
        \/ \E w \in Offices :
            \/ SuspendWorkspace(b, w) \/ UnsuspendWorkspace(b, w)
            \/ ArchiveWorkspace(b, w) \/ UnarchiveWorkspace(b, w)
            \/ AcceptSeatZero(b, w)
        \/ Logout(b)
    \/ \E x \in Sessions : SessionExpires(x)
    \/ \E n \in 1 .. MaxSeats : RemoveSeat(n)

DoorsSpec == DoorsInit /\ [][DoorsNext]_doorVars

-----------------------------------------------------------------------------
(* Properties *)

Rests(b, page) == Goes(b, Goes(b, page))
Inside == {"/dashboard", "/members", "/portal"}

\* From any page, two redirects bring a browser to one that shows, and never
\* round in a circle: its own home or a page open to its role, in an office
\* that is open and where it holds a seat; the console for platform operators
\* alone; and the sign-in form for a person signed in only if the office of
\* their best seat is shut or they have none.  Only an office admin who asks
\* for the dashboard meets an error.  The root page and a sign-in lead to one
\* and the same place, but for an operator who got a seat.  Whatever the rail
\* and the header offer to a seat opens, but for the agent's new property.
\* Pages, layouts and rail decide this each for itself (request.ts:30-114,
\* authz.ts:76-106, nav.ts:37-85, capabilities.ts:132-216, and the pages).
DoorsLead ==
    \A b \in Browsers : LET u == currentUser(b)  c == requireCtx(b) IN
        /\ \A p \in Pages : LET q == Rests(b, p) IN
            /\ Goes(b, q) = q /\ q # "/"
            /\ q \in Inside => /\ c # Refused /\ shut[c.office] = {} /\ c.office \in opened
                               /\ c.user = u /\ c.live
                               /\ (q = "/portal") <=> isPersonaRole(c.role)
            /\ q = "/admin" => u \in Operators
            /\ q = "error" => c.role = "ORG_ADMIN" /\ p \in {"/dashboard", "/admin"}
            /\ q = "/login" /\ u # Refused =>
                    \/ LiveOf(u) = {}
                    \/ shut[seats[pickSeat(LiveOf(u))].office] # {}
        /\ Rests(b, landSignedIn(b)) = Rests(b, "/") \/ (u \in Operators /\ LiveOf(u) # {})
        /\ c # Refused /\ ~isPersonaRole(c.role) =>
            \A page \in navForRole(c.role) \cup createsForRole(c.role) :
                Opens(c.role, {}, page) \/ (c.role = "MANAGING_AGENT" /\ page = "propertiesNew")

=============================================================================
