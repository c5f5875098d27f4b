\* Two reads race for two messages: a read that waits, and one whose task runs inside
\* the window of a write.  No symmetry: liveness is checked.
SPECIFICATION FairSpec
CONSTANTS
  Reads = {r1, r2}
  Writes = {w1, w2}
  NoMsg = NoMsg
INVARIANTS
  NoLostWakeup
  PendingReadsAreOwned
  AcceptedMessagesAreConserved
PROPERTIES
  ImplementsFifoPipe
  OperationsMakeProgress
CHECK_DEADLOCK FALSE
