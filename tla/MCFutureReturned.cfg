\* Two promises, so that callbacks return the future of another promise.
SPECIFICATION Spec
CONSTANTS
  Promises = {p1, p2}
  Children = {c1, c2}
  UsedKinds = {"thenFuture", "finallyFuture"}
  Waited = {}
  None = None
SYMMETRY Symmetry
INVARIANT ReturnedOutcomesPropagate
\* Nothing is left to do once every promise is gone and every continuation has run.
CHECK_DEADLOCK FALSE
