\* The client end of the in-process pipe, two concurrent requests.
SPECIFICATION Spec
CONSTANTS
  Requests = {q1, q2}
  PeerRequests = {}
  HasService = FALSE
  CloseOrder = "writesFirst"
SYMMETRY Symmetry
INVARIANTS
  PendingRequestHasCompleter
  StopCompletesSentRequests
PROPERTY SettledOnce
CHECK_DEADLOCK FALSE
