\* Reads completed by what an earlier connection has left in the buffer.
CONSTANTS
  NoClient = NoClient
  Clients = {c1, c2}
  Pipeliners = {c2}
  c1 = c1
  c2 = c2
  Asks <- MCAsks
  Requests <- MCRequests
  Lines <- MCLines
  Length <- MCLength
  HeaderSize = 7
  MAX_HEADERS = 2
  MaxRequests = 2
  Faulty = TRUE
SPECIFICATION Spec
INVARIANT HandedFromAnyBuffer

CHECK_DEADLOCK FALSE
