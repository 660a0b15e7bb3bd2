SPECIFICATION Spec
CONSTANTS
  None = None
  Local = Local
  p1 = p1
  p2 = p2
  x = x
  y = y
  h = h
  LocalAs = 90000
  PublicAs = 9
  TwoByte = {p1}
  MaxSegment = 255
  Peers = {p1, p2}
  PeerType <- MCPeerType
  Role <- MCRole
  Asn <- MCAsn
  RrClients = {}
  NextHopSelf = {}
  LocalV6 = TRUE
  Watched = {p1}
  V4 = {x}
  V6 = {y}
  V6Peers = {p1}
  Announcements <- MCOne
  Capacity = 2
  PerMessage = 1
  MaxBurst = 2
INVARIANTS TypeOK   Presentable Converged
CHECK_DEADLOCK FALSE
