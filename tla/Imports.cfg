CONSTANTS
    None = None
    csv = csv
    scan = scan
    rescan = rescan
    r1 = r1
    r2 = r2
    r3 = r3
    r4 = r4
    job1 = job1
    doc1 = doc1
    c1 = c1
    c2 = c2
    k1 = k1
    k2 = k2
    k3 = k3
    k4 = k4
    x1 = x1
    x2 = x2
    x3 = x3
    t1 = t1
    t2 = t2
    q1 = q1
    q2 = q2
    Clients = {c1, c2}
    Contacts = {k1, k2, k3, k4}
    Properties = {x1, x2, x3}
    Tenancies = {t1, t2}
    Submissions = {q1, q2}
    Fiduciary = TRUE
    Forms <- mcForms
    Nobody = None
    Scenes = {"imports", "by_hand"}
    p1 = p1
    p2 = p2
    Batches <- mcBatches
    Rows <- mcRows
    BatchOf <- mcBatchOf
    Data <- mcData
    Jobs = {job1}
    DocOf <- mcDocOf
    Docs = {doc1}
    FileOf <- mcFileOf
    Found <- mcFound
    OnRecord <- mcOnRecord
    Requests <- mcRequests
    MaxCommits = 2
SPECIFICATION mcSpec
SYMMETRY Sym
INVARIANTS RollbackComplete  ImportedOnce 
CHECK_DEADLOCK FALSE
