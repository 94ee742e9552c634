SPECIFICATION Spec
CONSTANTS
  a = a
  b = b
  x = x
  y = y
  bad = bad
  NoId = NoId
  NoImage = NoImage
  Ids <- MCIds
  Images <- MCImages
  Broken <- MCBroken
  SizeOf <- MCSizeOf
  DerivedRes = {"thumb"}
  ORIG_RES = "orig"
  MaxFiles = 2
  MaxBlobs = 2
  MaxCalls = 3
  MaxCuts = 2
  UINT32_MAX = 5
SYMMETRY Symmetry
VIEW View
INVARIANTS TypeOK ImagesIntact KeptSurvives CountDrifts
PROPERTY ImplementsLibrary
