SPECIFICATION Spec
CONSTANTS
  c1 = c1
  c2 = c2
  Clients = {c1, c2}
  Impatient = {c2}
  Files <- MCFiles
  Pipe <- MCPipe
  Digits <- MCDigits
  Junk = {"NUL"}
  MAX_SERVER_SIZE = 4
  MAX_CLIENT_SIZE = 6
  LONG_MAX = 8
INVARIANTS
  TcpTypeOK
  FileFits
  DoneMeansReceived
PROPERTIES
  
  ClientsEnd
CHECK_DEADLOCK FALSE
