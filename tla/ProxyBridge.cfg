\* Frames longer than the TCP window, reads shorter than what has arrived.
SPECIFICATION FairSpec
CONSTANTS
  Token <- MCToken
  Lowercase <- MCLowercase
  ALLOWED_HOSTS = {"steam"}
  NoPort = 99999
  BufSize = 2
  WsWindow = 2
  TcpWindow = 2
  MaxFrame = 3
  MaxBytes = 3
\* A bridge that has ended does nothing more.
CHECK_DEADLOCK FALSE
INVARIANTS
  StreamsIntact
  CloseMeansComplete
  CloseLosesNothing
PROPERTIES
  BytesDelivered
  BridgeEnds
