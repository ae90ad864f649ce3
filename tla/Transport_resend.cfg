\* A QoS 1 publication over a WebSocket whose first write stopped halfway, resent.
SPECIFICATION WireSpec
CONSTANTS
  Conns = {"tcp", "ws"}
  None = None
  WebSockets = {"ws"}
  Scenarios <- ResendScenarios
  Rooms <- MCRooms
  Messages <- MCMessages
  ShortPackets <- MCPackets
  NewMask <- MCMask
INVARIANT WrittenAsSent
CHECK_DEADLOCK FALSE
