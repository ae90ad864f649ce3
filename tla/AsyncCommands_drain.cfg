\* With clean sessions every request of a stable connection is reported.
SPECIFICATION FairSpec
CONSTANTS
    Clients = {c1}
    Threads = {t1}
    Ops = {o1, o2}
    Kinds = {"PUB1", "SUB"}
    MaxMsgId = 4
    MaxInflight = 1
    MaxBuffered = 1
    DeleteOldest = FALSE
    SendWhileDisconnected = TRUE
    CleanSession = TRUE
    NoCommand = NoCommand
    NoOp = NoOp
 
PROPERTY StaysUpDrains
