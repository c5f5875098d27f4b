\* Expected violation: the server end of the in-process pipe, closed by the peer.
SPECIFICATION Spec
CONSTANTS
  Requests = {q1}
  PeerRequests = {}
  HasService = FALSE
  CloseOrder = "readsFirst"
INVARIANT StopCompletesSentRequests
CHECK_DEADLOCK FALSE
