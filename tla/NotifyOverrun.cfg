SPECIFICATION FairSpec
CONSTANTS
    m1 = m1
    c1 = c1
    None = None
    Workers = {w1, w2}
    Runner = w1
    Rows <- OneSend
    Messages = {m1}
    Sensitive = {m1}
    Addressed = {}
    Callbacks <- NoCallbacks
    MaxAttempts = 3
    BatchSize = 2
    MaxCrashes = 1
    Overrun = TRUE
INVARIANT LateWritesHarmless DispatchedMeansHandled
PROPERTY Settles
