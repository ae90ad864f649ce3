\* One application thread, message ids that wrap.  assignMsgId may loop for
\* ever after a clean-up (hung), which stops everything.
SPECIFICATION Spec
CONSTANTS
    Clients = {c1}
    Threads = {t1}
    Ops = {o1, o2, o3, o4}
    Kinds = {"PUB1", "SUB"}
    MaxMsgId = 3
    MaxInflight = 2
    MaxBuffered = 1
    DeleteOldest = FALSE
    SendWhileDisconnected = TRUE
    CleanSession = FALSE
    NoCommand = NoCommand
    NoOp = NoOp
SYMMETRY OpSymmetry
INVARIANTS TypeOK UniqueTokens ResponseHasMessage SuccessMeansWritten
           NoAcceptedMessageDeleted NoInSessionRetry
CHECK_DEADLOCK FALSE
