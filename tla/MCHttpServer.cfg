\* Five kinds of request, two clients, of which one pipelines, failing allocations.
CONSTANTS
  NoClient = NoClient
  Clients = {c1, c2}
  Pipeliners = {c2}
  c1 = c1
  c2 = c2
  Asks <- MCAsks
  Requests <- MCRequests
  Lines <- MCLines
  Length <- MCLength
  HeaderSize = 7
  MAX_HEADERS = 2
  MaxRequests = 2
  Faulty = TRUE
SPECIFICATION Spec
INVARIANTS ExtendedFits HandedAsSent
PROPERTIES CrashHasCause Answered PatientTurn
CHECK_DEADLOCK FALSE
