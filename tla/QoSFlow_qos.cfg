\* A QoS 1 and a QoS 2 message out, the same in, restarts and lost
\* connections.
SPECIFICATION FairSpec
CONSTANTS
    OutMsgs = {a, b}
    InMsgs = {x, y}
    Qos2 = {b, x}
    MaxMsgId = 2
    MaxInflight = 2
    Version5 = FALSE
    PubrelDup = TRUE
    KeepAlive = TRUE
    MaxQueue = 1
    Many = 2
INVARIANTS TypeOK StoreMatchesMemory NoMessageLost
PROPERTIES OutboundDelivery InboundDelivery OutboundCompletes InboundCompletes
