\* one client, one block of data
CONSTANTS
  Conns = {k1}
  MaxData = 1
  MaxProbes = 1
  MaxLoss = 2
  MaxRetrans = 1
SPECIFICATION Spec
CHECK_DEADLOCK FALSE
INVARIANTS TypeOK HandshakeAgreement CloseAgreement NoFreedSockInUse  
PROPERTY OrderlyClose
