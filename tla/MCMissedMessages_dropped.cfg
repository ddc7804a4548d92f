SPECIFICATION Spec
CONSTANTS
    ann = ann
    bob = bob
    m1 = m1
    m2 = m2
    m3 = m3
    Users = {ann, bob}
    Messages = {m1, m2}
    Recipient <- MCRecipient
    Periods = {1}
    MaxTime = 2
    MaxStops = 0
    StopAt = {}
    Faulty = FALSE
CHECK_DEADLOCK FALSE
PROPERTIES RowsAreHandled
