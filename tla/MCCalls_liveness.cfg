SPECIFICATION FairSpec
CONSTANTS
    ann = ann
    bob = bob
    call1 = call1
    phone1 = phone1
    phone2 = phone2
    t1 = t1
    Profiles = {ann, bob}
    Human <- MCHuman
    MayCall <- MCMayCall
    CallIds = {call1}
    Threads = {t1}
    MaxRequests = 1
    Devices = {phone1}
    MaxJoins = 1
    Lossy = {"pushes"}
    EarlyJoin = FALSE
CHECK_DEADLOCK FALSE
PROPERTIES RingingEnds EmptiedCallsEnd OutcomesPosted GhostRingingStops
