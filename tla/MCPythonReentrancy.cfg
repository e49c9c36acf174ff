SPECIFICATION Spec
CONSTANTS
    t1 = t1
    t2 = t2
    e1 = e1
    NoThread = NoThread
    Threads = {t1, t2}
    Execs = {e1}
    MaxExecutions = 1
    FetchLength = 1
INVARIANT Reentrant
CHECK_DEADLOCK FALSE
