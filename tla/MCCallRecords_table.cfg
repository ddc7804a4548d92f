SPECIFICATION Records
CONSTANTS
    a1 = a1
    a2 = a2
    b = b
    c = c
    call1 = call1
    call2 = call2
    call3 = call3
    t1 = t1
    t2 = t2
    Profiles <- MCProfiles
    Human <- MCHuman
    MayCall <- MCMayCall
    CallIds = {call1, call2}
    Threads = {t1, t2}
    MaxRequests = 3
CHECK_DEADLOCK FALSE
INVARIANTS DeadNeverBlocks
PROPERTIES Lifecycle
