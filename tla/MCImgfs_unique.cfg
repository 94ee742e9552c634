SPECIFICATION Spec
CONSTANTS
  a = a
  b = b
  x = x
  y = y
  bad = bad
  NoId = NoId
  NoImage = NoImage
  Ids <- MCIds
  Images = {x, y}
  Broken = {}
  SizeOf <- MCSizeOf
  DerivedRes = {}
  ORIG_RES = "orig"
  MaxFiles = 3
  MaxBlobs = 3
  UINT32_MAX = 3
  Faults = {}
SYMMETRY Symmetry
INVARIANT UniqueIds
