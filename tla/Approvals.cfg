SPECIFICATION Spec
CONSTANTS
    o1 = o1
    a1 = a1
    a2 = a2
    l1 = l1
    l2 = l2
    w1 = w1
    w2 = w2
    None = None
    Offers = {o1}
    ApprovalIds = {a1, a2}
    Links = {l1, l2}
    OfferOf <- OneOffer
    MaxUses <- SingleUse
    Askers = {s1, s2}
    Owners = {w1, w2}
INVARIANT OneDecisionPerLink SignOffTold
SYMMETRY Same
CHECK_DEADLOCK FALSE
