CONSTANTS
    m1 = m1
    m2 = m2
    Messages <- MCMessages
    Flags = {"read", "starred"}
    Types <- AllTypes
    MaxEvents = 4
SPECIFICATION Spec
CHECK_DEADLOCK FALSE
INVARIANT ResponsesInIdOrder
PROPERTIES ImplementsSet OneWayUpdatesArrive
