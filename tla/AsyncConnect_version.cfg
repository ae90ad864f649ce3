\* A client with the default MQTT version reconnects automatically.
SPECIFICATION Spec
CONSTANTS
    ConnIds = {k1}
    DiscIds = {}
    URICounts = {0}
    Versions = {0}
    AutomaticReconnect = TRUE
    MinRetry = 1
    MaxRetry = 2
    None = None
INVARIANT ConnectVersionChosen
