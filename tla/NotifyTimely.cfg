SPECIFICATION FairSpec
CONSTANTS
    m1 = m1
    c1 = c1
    None = None
    Workers = {w1, w2}
    Runner = w1
    Rows <- SendAndCallback
    Messages = {m1}
    Sensitive = {m1}
    Addressed = {}
    Callbacks <- OneRead
    MaxAttempts = 2
    BatchSize = 2
    MaxCrashes = 1
    Overrun = FALSE
INVARIANT Exclusive SentMeansAccepted
PROPERTY ImplementsQueue
