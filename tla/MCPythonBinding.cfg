SPECIFICATION FairSpec
CONSTANTS
    t1 = t1
    t2 = t2
    e1 = e1
    e2 = e2
    NoThread = NoThread
    Threads = {t1, t2}
    Execs = {e1, e2}
    MaxExecutions = 3
    FetchLength = 3
INVARIANTS TypeOK ResultConvention CleanEntry FailuresReported
PROPERTY CallsReturn
CHECK_DEADLOCK FALSE
