\* One asset.
SPECIFICATION Spec
CONSTANTS
  None = None
  a1 = a1
  a2 = a2
  Asset = {a1}
  SteamItems <- MCSteamItems
  Catalogs <- MCCatalogs
  Families <- MCFamilies
  Seeds <- MCSeeds
  Floats <- MCFloats
INVARIANT QualityIsSteams
