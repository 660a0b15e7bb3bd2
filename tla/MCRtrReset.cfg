SPECIFICATION FairSpec
CONSTANTS
  None = None
  Roas <- MCRoas
  Datasets <- MCDatasets
  Routes <- MCRoutes
  Width = 3
  LocalAs = 1
  MaxSegment = 255
  Sessions <- MCSessions
  Serials <- MCSerials
  MaxFaults = 0
PROPERTY ResetResyncs
