CONSTANTS
  me = "r1"
  IfaceNet <- MCIfaceNet
  Peers <- MCPeers
  Lsus <- MCLsus
  MOSPF_DEFAULT_HELLOINT = 1
  MOSPF_DEFAULT_LSUINT = 2
  MOSPF_DATABASE_TIMEOUT = 1
  MaxSeq = 3
SPECIFICATION Spec
INVARIANTS TypeOK SpfIsShortest RoutesComeFromDb SeqNamesContent
