\* One client reconnects while another has messages in flight.
SPECIFICATION Spec
CONSTANTS
    Clients = {c1, c2}
    Threads = {t1}
    Ops = {o1, o2}
    Kinds = {"PUB1"}
    MaxMsgId = 4
    MaxInflight = 1
    MaxBuffered = 2
    DeleteOldest = FALSE
    SendWhileDisconnected = TRUE
    CleanSession = FALSE
    NoCommand = NoCommand
    NoOp = NoOp
SYMMETRY OpSymmetry
INVARIANT NoInSessionRetry
