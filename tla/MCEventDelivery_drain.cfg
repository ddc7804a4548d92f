CONSTANTS
    Types = {"message", "flags", "heartbeat", "restart"}
    Published = {"message", "flags"}
    VirtualTypes = {"flags"}
    Heartbeat = "heartbeat"
    Restart = "restart"
    MaxStops = 1
    MaxDelayed = 1
    MaxPayloads = 3
    MaxEventId = 3
    Payloads <- MCPayloads
SPECIFICATION Spec
CHECK_DEADLOCK FALSE
INVARIANT NothingDropped
