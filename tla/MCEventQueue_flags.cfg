CONSTANTS
    m1 = m1
    m2 = m2
    Messages <- MCMessages
    Flags = {"read"}
    Types <- ReadTypes
    MaxEvents = 4
SPECIFICATION Spec
CHECK_DEADLOCK FALSE
INVARIANT FlagsInSync
