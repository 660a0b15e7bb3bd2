SPECIFICATION RetrySpec
CONSTANTS
  None = None
  Opens <- MCOpens
  CapSets <- MCCapSets
  LocalAs = 65001
  LocalId = 2
  PeerAs = 65002
  HoldTime = 90
  RequiredCaps = {}
  LocalRole = None
  NonUnicastIds = {0}
  LocalAddrs = {a1}
  MaxStarts = 1
  MaxQueued = 0
PROPERTY StoppedSessionRetries
