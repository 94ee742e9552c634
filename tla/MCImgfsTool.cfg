SPECIFICATION ToolSpec
CONSTANTS
  a = a
  b = b
  x = x
  y = y
  f = f
  long = long
  NoId = NoId
  NoImage = NoImage
  Ids <- MCIds
  Images <- MCImages
  Broken = {}
  SizeOf <- MCSizeOf
  DerivedRes = {"thumb"}
  ORIG_RES = "orig"
  MaxFiles = 2
  MaxBlobs = 3
  UINT32_MAX = 3
  Faults = {"read"}
  MayFail = {"fopen", "write", "read", "alloc", "close", "files", "print"}
  Numeral <- MCNumeral
  LongWords = {long}
  UINT16_LIMIT = 15
  UINT32_LIMIT = 31
  UINTMAX_LIMIT = 63
  MAX_THUMB_RES = 3
  MAX_SMALL_RES = 5
  CommandLines <- MCCommandLines
  CreateLines <- MCCreateLines
VIEW View
INVARIANTS ToolTypeOK ParsedAsUsage
PROPERTIES ZeroIsDone FailureIsHarmless CrashesHaveCause
