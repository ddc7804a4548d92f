CONSTANTS
    Types = {"message", "flags", "heartbeat", "restart"}
    Published = {"message", "flags"}
    VirtualTypes = {"flags"}
    Heartbeat = "heartbeat"
    Restart = "restart"
    MaxStops = 1
    MaxDelayed = 1
    MaxPayloads = 3
    MaxEventId = 2
    Payloads <- MCPayloads
SPECIFICATION FairSpec
CHECK_DEADLOCK FALSE
INVARIANT NoLoss
INVARIANT ExactlyOnce
INVARIANT HandlerMeansEmpty
INVARIANT NoProtocolError
PROPERTY ImplementsChannel
PROPERTY EventuallyProcessed
