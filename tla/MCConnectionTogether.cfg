\* A pipe that closes under one lock; after it nothing waits for a recv_timeout.
SPECIFICATION PatientSpec
CONSTANTS
  Requests = {q1}
  PeerRequests = {p1}
  HasService = TRUE
  CloseOrder = "together"
PROPERTY OverMeansOver
CHECK_DEADLOCK FALSE
