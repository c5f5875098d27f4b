\* One promise and two links; threads wait on the promise's future.
SPECIFICATION Spec
CONSTANTS
  Promises = {p1}
  Children = {c1, c2}
  UsedKinds = {"then", "catched", "catchedFuture", "finally"}
  Waited = {p1}
  None = None
SYMMETRY Symmetry
INVARIANTS
  OneDriver
  NoLostDrain
  OutcomesPropagate
  NoLostNotification
PROPERTY OutcomeIsFinal
\* Nothing is left to do once every promise is gone and every continuation has run.
CHECK_DEADLOCK FALSE
