SPECIFICATION Spec
CONSTANTS
    ann = ann
    bob = bob
    call1 = call1
    phone1 = phone1
    phone2 = phone2
    t1 = t1
    Profiles = {ann, bob}
    Human <- MCHuman
    MayCall <- MCMayCall
    CallIds = {call1}
    Threads = {t1}
    MaxRequests = 2
    Devices = {}
    MaxJoins = 1
    Lossy = {"setup", "effects", "webhooks", "pushes"}
    EarlyJoin = TRUE
CHECK_DEADLOCK FALSE
INVARIANTS ThreadOnce DeletesDeadRooms
PROPERTIES ImplementsRecords
