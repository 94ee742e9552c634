SPECIFICATION FSpec
CONSTANTS
  a = a
  b = b
  x = x
  y = y
  bad = bad
  NoId = NoId
  NoImage = NoImage
  Ids <- MCIds
  Images = {x, y}
  Broken = {}
  SizeOf <- MCSizeOf
  DerivedRes = {"thumb"}
  ORIG_RES = "orig"
  MaxFiles = 2
  MaxBlobs = 2
  MaxFailures = 2
  UINT32_MAX = 2
  Faults = {"data", "metadata", "header", "read", "late"}
SYMMETRY Symmetry
INVARIANT Confined
VIEW FaultsView
