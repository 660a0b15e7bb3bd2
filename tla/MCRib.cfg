SPECIFICATION Spec
CONSTANTS
  p1 = p1
  p2 = p2
  p3 = p3
  p4 = p4
  h1 = h1
  h2 = h2
  Local = Local
  None = None
  Peers = {p1, p2, p3, p4}
  PeerType <- MCPeerType
  BgpId <- MCBgpId
  Address <- MCAddress
  Announcements <- MCAnnouncements
  Hops = {h1, h2}
  KernelRoutes <- MCKernelRoutes
  LocalAs = 9
  ConfederationId = 8
  MaxSegment = 255
  Ages <- MCAges
  Helped = {p1}
  Tuned = {p1}
  Reflector = TRUE
INVARIANTS TypeOK SelectionSound KernelFollows Judged
PROPERTY Drains
