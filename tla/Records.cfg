CONSTANTS
    None = None
    Nothing = Nothing
    t1 = t1
    t2 = t2
    k1 = k1
    o1 = o1
    i1 = i1
    i2 = i2
    x1 = x1
    d1 = d1
    d2 = d2
    p1 = p1
    r1 = r1
    c1 = c1
    c2 = c2
    h1 = h1
    o2 = o2
    l1 = l1
    l2 = l2
    s1 = s1
    s2 = s2
    m1 = m1
    m2 = m2
    Links = {l1, l2}
    MaxUses <- mcMaxUses
    Offers = {o1, o2}
    OfferSent <- mcOfferSent
    Sent = o1
    Tenants = {s1, s2}
    Staff = {m1, m2}
    MaxRecords = 2
    Docs = {d1, d2}
    Clerks = {c1, c2}
    Handovers = {h1}
    Tenancies = {t1, t2}
    PropertyOf <- mcPropertyOf
    CaseOf <- mcCaseOf
    OfferOf <- mcOfferOf
    ItemOf <- mcItemOf
    Proofs = {x1}
    Papers = {d1, d2}
    Readers = {r1}
    PageSize = 1
    MaxEvents = 4
    Scenes = {"vault", "handover", "writing", "reading", "answers", "consent"}
SPECIFICATION mcSpec
INVARIANTS  HandoverTold ChronologyTotal ReadersServed AnswersKept ConsentHeld
CHECK_DEADLOCK FALSE
