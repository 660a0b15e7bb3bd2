SPECIFICATION Spec
CONSTANTS
  None = None
  Local = Local
  p1 = p1
  p2 = p2
  x = x
  y = y
  h = h
  LocalAs = 90000
  PublicAs = 9
  TwoByte = {p1}
  MaxSegment = 255
  Peers = {p1, p2}
  PeerType <- MCPeerType
  Role <- MCNoRole
  Asn <- MCAsn
  RrClients = {}
  NextHopSelf = {}
  LocalV6 = TRUE
  Watched = {p1}
  V4 = {x}
  V6 = {}
  V6Peers = {p1}
  Announcements <- MCTwo
  Capacity = 4
  PerMessage = 1
  MaxBurst = 1
INVARIANT ReachesPeer
CHECK_DEADLOCK FALSE
