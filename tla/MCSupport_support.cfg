\* Units of the library under the clients.  A unit stops when its bound is reached.
SPECIFICATION Spec
CONSTANTS
  Ptrs = {1, 2, 3, 4, 5, 6}
  SizeAt <- MCSizeAt
  Contents = {"a", "b", "c", "d"}
  SearchKeys = {1, 2}
  KeyOf <- MCKeyOf
  MaxEntries = 3
  MaxLines = 4
  HeaderLines = 2
  Levels = {3, 5}
  MaxLogged = 6
  MsgIds = {1}
  Values = {"v1", "v2"}
  MaxCalls = 4
  Outgoing <- MCOutgoing
  Incoming <- MCIncoming
  TextBytes = {127, 128, 143, 144, 159, 160, 191, 193, 224, 237, 240, 244}
  MaxText = 4
  Conns = {"tcp", "ws"}
  None = None
  WebSockets = {"ws"}
  Scenarios <- PassScenarios
  Rooms <- MCRooms
  Messages <- MCMessages
  ShortPackets <- MCPackets
  NewMask <- MCMask
INVARIANTS HeapAccounted ListIsSequence TraceKept StoredIsFound LengthIsExact ReadAsSent TextExact WrittenAsSent ReadAsWritten
CHECK_DEADLOCK FALSE
