\* Requests with Content-Length: 0 among them.
CONSTANTS
  NoClient = NoClient
  Clients = {c1, c2}
  Pipeliners = {c2}
  c1 = c1
  c2 = c2
  Asks <- MCEmptyAsks
  Requests <- MCEmpty
  Lines <- MCEmptyLines
  Length <- MCEmptyLength
  HeaderSize = 7
  MAX_HEADERS = 2
  MaxRequests = 2
  Faulty = TRUE
SPECIFICATION Spec
INVARIANT WholeIsHandled

CHECK_DEADLOCK FALSE
