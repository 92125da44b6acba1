\* Two requests of several statements beside all the others; quota of one asset.
SPECIFICATION Spec
CONSTANTS
  Request = {r1, r2}
  Name = {n1, n2}
  NoName = NoName
  Preset = 1
  MaxCats = 2
  MaxAssets = 2
  Quota = 1
SYMMETRY MCSymmetry
INVARIANTS TypeOK CategoryOfAssetExists NamesAreDistinct
PROPERTIES QuotaBeatenOnlyByOverlap   AssetsKeepToTheBin CategoriesKeepToTheBin
