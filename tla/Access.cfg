SPECIFICATION mcSpec
CONSTANTS
    admin = admin
    guest = guest
    other = other
    contact = contact
    i1 = i1
    i2 = i2
    w1 = w1
    w2 = w2
    b1 = b1
    b2 = b2
    r1 = r1
    r2 = r2
    a1 = a1
    Absent = Absent
    Users = {admin, guest, other}
    Principal = admin
    Contacts = {contact}
    Properties = {a1}
    Invites = {i1, i2}
    Requests <- mcRequests
    Seats = {"ORG_ADMIN", "MANAGING_AGENT", "LANDLORD"}
    k1 = k1
    k2 = k2
    Attempts <- mcRequests
    Tokens = {k1, k2}
    MaxFails = 3
    MAX_LOGIN_FAILURES = 2
    c1 = c1
    c2 = c2
    d1 = d1
    d2 = d2
    u1 = u1
    u2 = u2
    t1 = t1
    t2 = t2
    Nothing = Nothing
    Clients = {c1, c2}
    People = {d1, d2}
    Units = {u1, u2}
    Leases = {t1, t2}
    Persons = {admin, guest}
    Operators = {admin}
    Offices = {w1, w2}
    Browsers = {b1, b2}
    Sessions <- mcRequests
    Hired = {"ORG_ADMIN", "MANAGER", "MANAGING_AGENT", "LANDLORD"}
    MaxSeats = 3
    Refused = Absent
    Scenes = {"invites", "office", "book", "signin", "scopes", "asking", "doors"}
SYMMETRY Sym
INVARIANTS SeatedOnce  LockoutHolds ResetOnce  AskedRightly DoorsLead
CHECK_DEADLOCK FALSE
