SPECIFICATION Spec
CONSTANTS
  None = None
  Roas <- MCRoas
  Datasets <- MCAllSets
  Routes <- MCRoutes
  Width = 3
  LocalAs = 1
  MaxSegment = 255
  Sessions <- MCSessions
  Serials <- MCSerials
  MaxFaults = 1
INVARIANT TableReflectsCache
