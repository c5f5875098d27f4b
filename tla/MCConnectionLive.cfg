\* The server end of the in-process pipe, where a request may have to wait for its
\* recv_timeout: every request completes all the same.
SPECIFICATION FairSpec
CONSTANTS
  Requests = {q1}
  PeerRequests = {p1}
  HasService = TRUE
  CloseOrder = "readsFirst"
PROPERTY RequestsComplete
CHECK_DEADLOCK FALSE
