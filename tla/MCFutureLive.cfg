\* A flattened link, or two links over one promise, whose future callbacks may return.
\* No symmetry: liveness is checked.
SPECIFICATION FairSpec
CONSTANTS
  Promises = {p1}
  Children = {c1, c2}
  UsedKinds = {"thenFuture", "catchedFuture", "finally"}
  Waited = {c2}
  None = None
PROPERTY FuturesComplete
\* Nothing is left to do once every promise is gone and every continuation has run.
CHECK_DEADLOCK FALSE
