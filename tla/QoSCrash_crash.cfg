\* A QoS 2 message out, a process that stops inside a handler.
SPECIFICATION CrashSpec
CONSTANTS
    OutMsgs = {b}
    InMsgs = {x}
    Qos2 = {b, x}
    MaxMsgId = 2
    MaxInflight = 2
    Version5 = FALSE
    PubrelDup = TRUE
    KeepAlive = TRUE
    MaxQueue = 1
    Many = 2
INVARIANT NoMessageLost
