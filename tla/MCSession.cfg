SPECIFICATION FairSpec
CONSTANTS
  None = None
  Opens <- MCOpens
  CapSets <- MCCapSets
  LocalAs = 65001
  LocalId = 2
  PeerAs = 65002
  HoldTime = 90
  RequiredCaps = {}
  LocalRole = None
  NonUnicastIds = {0}
  LocalAddrs = {a1, a2}
  MaxStarts = 2
  MaxQueued = 1
INVARIANTS
  TypeOK
  Supervised
  HandshakeSound
  CandidateHeld
  Connections
PROPERTIES
  KeepsContract
  CandidateResolved
