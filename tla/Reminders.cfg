CONSTANTS
    None = None
    Nobody = Nobody
    t1 = t1
    i1 = i1
    i2 = i2
    w1 = w1
    w2 = w2
    j1 = j1
    j2 = j2
    admin = admin
    viewer = viewer
    Leases = {t1}
    Ends = {200, 205}
    Periods = {90}
    Items = {i1, i2}
    LeaseOf <- mcLeaseOf
    DueOf <- mcDueOf
    SeqNo <- mcSeqNo
    Writers = {w1, w2}
    MaxRows = 5
    MaxEntries = 1
    ManualKinds = {"CHEQUE_DUE"}
    Users = {admin, viewer}
    RoleOf <- mcRoleOf
    Categories <- mcCategories
    Jobs = {j1, j2}
    MaxChanges = 1
    Days = {107, 110, 112}
    Scenes = {"rows", "ladder", "digest", "reader"}
SPECIFICATION mcSpec
INVARIANTS  ToldOnce ReminderReaches
PROPERTIES DeferredReaches
CHECK_DEADLOCK FALSE
