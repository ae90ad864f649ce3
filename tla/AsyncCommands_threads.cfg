\* Two application threads race on one client.
SPECIFICATION Spec
CONSTANTS
    Clients = {c1}
    Threads = {t1, t2}
    Ops = {o1, o2, o3}
    Kinds = {"PUB0", "PUB1"}
    MaxMsgId = 4
    MaxInflight = 1
    MaxBuffered = 1
    DeleteOldest = TRUE
    SendWhileDisconnected = TRUE
    CleanSession = FALSE
    NoCommand = NoCommand
    NoOp = NoOp
SYMMETRY ThreadOpSymmetry
INVARIANTS CallbackAtMostOnce NothingForgotten ReportedIsReleased
           BufferCount InflightBounded
