SPECIFICATION NotifySpec
CONSTANTS
    m1 = m1
    c1 = c1
    None = None
    Workers = {w1, w2}
    Runner = w1
    Rows <- OneSend
    Messages = {m1}
    Sensitive = {}
    Addressed = {m1}
    Callbacks <- NoCallbacks
    MaxAttempts = 2
    BatchSize = 2
    MaxCrashes = 0
    Overrun = TRUE
INVARIANT Exclusive
CHECK_DEADLOCK FALSE
