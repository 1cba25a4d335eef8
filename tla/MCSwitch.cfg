CONSTANTS
  Ports = {1, 2, 3}
  Hosts = {"h1", "h2", "h3"}
  Broadcast = "all"
  Home <- MCHome
  Hash <- MCHash
  MAC_PORT_TIMEOUT = 1
  MaxMoves = 2
SPECIFICATION Spec
INVARIANT TypeOK
PROPERTIES ImplementsSegment StaleIsForgotten
