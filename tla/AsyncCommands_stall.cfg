\* The resending of in-flight messages at reconnect is cut short.
SPECIFICATION FairSpec
CONSTANTS
    Clients = {c1}
    Threads = {t1}
    Ops = {o1, o2}
    Kinds = {"PUB1"}
    MaxMsgId = 4
    MaxInflight = 2
    MaxBuffered = 2
    DeleteOldest = FALSE
    SendWhileDisconnected = TRUE
    CleanSession = FALSE
    NoCommand = NoCommand
    NoOp = NoOp
 
PROPERTY StaysUpDrains
