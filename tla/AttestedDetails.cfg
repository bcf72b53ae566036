\* Two assets, all items, the full catalog and catalogs that lack some names.
SPECIFICATION Spec
CONSTANTS
  None = None
  a1 = a1
  a2 = a2
  Asset = {a1, a2}
  SteamItems <- MCSteamItems
  Catalogs <- MCCatalogs
  Families <- MCFamilies
  Seeds <- MCSeeds
  Floats <- MCFloats
SYMMETRY Sym
INVARIANTS
  DetailDescribesAsset
  DetailIdentifiesItem
PROPERTY
  DetailNeverChanges
