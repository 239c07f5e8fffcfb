SPECIFICATION mcSpec
CONSTANTS
    t1 = t1
    k1 = k1
    k2 = k2
    o1 = o1
    o2 = o2
    o3 = o3
    n1 = n1
    n2 = n2
    p1 = p1
    p2 = p2
    None = None
    Tenancies = {t1}
    Cases = {k1, k2}
    TenancyOf <- TwoCases
    Offers = {o1, o2, o3}
    CaseOf <- OffersOfBoth
    Notices = {n1}
    CaseOfNotice <- OneNotice
    Requests = {p1, p2}
    StartStatus = {"ACTIVE"}
    StaffTargets = {}
    Scenes = {"notices"}
INVARIANT ServedIsTold
CHECK_DEADLOCK FALSE
