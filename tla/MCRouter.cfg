CONSTANTS
  MAX_ARP_SIZE = 1
  ARP_ENTRY_TIMEOUT = 1
  ARP_REQUEST_MAX_RETRIES = 2
  Traffic <- MCTraffic
  Ttls = {1, 2}
  Hosts <- MCHosts
  IfaceIp <- MCIfaceIp
  RTables <- MCRTables
SPECIFICATION Spec
CHECK_DEADLOCK FALSE
INVARIANTS TypeOK OneFate  ForwardedByLongestMatch
 
