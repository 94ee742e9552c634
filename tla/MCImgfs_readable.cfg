SPECIFICATION Spec
CONSTANTS
  a = a
  b = b
  x = x
  y = y
  bad = bad
  NoId = NoId
  NoImage = NoImage
  Ids <- MCIds
  Images <- MCImages
  Broken <- MCBroken
  SizeOf <- MCSizeOf
  DerivedRes = {"thumb"}
  ORIG_RES = "orig"
  MaxFiles = 2
  MaxBlobs = 3
  UINT32_MAX = 3
  Faults = {}
SYMMETRY Symmetry
PROPERTY StoredIsReadable
