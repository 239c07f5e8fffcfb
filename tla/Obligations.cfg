SPECIFICATION Spec
CONSTANTS
    c1 = c1
    t1 = t1
    r1 = r1
    fc = fc
    ft = ft
    fr = fr
    l1 = l1
    u1 = u1
    u2 = u2
    None = None
    Items = {c1}
    Proofs = {r1}
    Tenancy = t1
    Subjects = {c1, t1, r1}
    FlagRows = {fc, ft, fr}
    Links = {l1}
    Held = {l1}
    Users = {u1, u2}
    Jobs = {n1}
    SubjectOf <- FlagOf
    SeqOf <- OneSeq
    RequestOf <- OneRequest
    MaxUses <- TwoUses
    Balanced <- WholeRent
    MaxDeaths = 1
    MaxTables = 1
INVARIANT ChequeTrail  UploadBacked
SYMMETRY SamePeople
