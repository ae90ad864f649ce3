\* Two connect calls and a disconnect call, with lists of one or two server URIs,
\* automatic reconnect; Calls bounds the calls.
SPECIFICATION FairSpec
CONSTANTS
    ConnIds = {k1, k2}
    DiscIds = {d1}
    URICounts = {1, 2}
    Versions = {0, 4}
    AutomaticReconnect = TRUE
    MinRetry = 1
    MaxRetry = 2
    None = None
INVARIANTS TypeOK OneConnectQueued DisconnectReportedOnce StillTrying
PROPERTIES URIInBounds NoSilentLoss Reconnects ConnectAnswered
CONSTRAINT Calls
