SPECIFICATION RequestSpec
CONSTANTS
  a = a
  b = b
  x = x
  y = y
  bad = bad
  NoId = NoId
  NoImage = NoImage
  Absent = Absent
  Overlong = Overlong
  Unknown = Unknown
  astray = astray
  Ids <- MCThreeIds
  TextOf <- MCTextOf
  Requests <- MCRequests
  MAX_IMG_ID = 3
  MAX_RES = 2
  Tails <- MCTails
  Images = {x, y}
  Broken = {}
  SizeOf <- MCSizeOf
  DerivedRes = {"thumb"}
  ORIG_RES = "orig"
  MaxFiles = 2
  MaxBlobs = 2
  UINT32_MAX = 3
  Faults = {"read"}
INVARIANT KeptIsStored
PROPERTY AnswerIsTrue
PROPERTY UriIsObeyed
VIEW RequestView
