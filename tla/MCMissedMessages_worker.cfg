SPECIFICATION FairSpec
CONSTANTS
    ann = ann
    bob = bob
    m1 = m1
    m2 = m2
    m3 = m3
    Users = {ann, bob}
    Messages = {m1, m2}
    Recipient <- MCRecipient
    Periods = {1}
    MaxTime = 2
    MaxStops = 1
    StopAt = {"idle", "read", "lock", "create", "notify"}
    Faulty = TRUE
CHECK_DEADLOCK FALSE
INVARIANTS NoLostWakeup EmailedOnce
PROPERTIES RowsAreChecked StopEnds
