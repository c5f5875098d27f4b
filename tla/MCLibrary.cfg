\* A server of two runs, three connections, one thread that stops it and its destructor; a
\* client, an event, a lock, a timer and a pool with two callers each.  Remote calls and their
\* messages are instantiated in MCLibrary.  No symmetry: liveness is checked.
SPECIFICATION LibrarySpec
CONSTANTS
  MaxConnections = 3
  MaxRuns = 2
  Stoppers = {"user", "destructor"}
  Connects = {"c1", "c2"}
  NoConnect = "none"
  EventWaiters = {"w1", "w2"}
  EventSetters = {"s1", "s2"}
  MaxSets = 3
  LockThreads = {"t1", "t2"}
  Mutexes = {1, 2, 3}
  LockPairs <- MCPairs
  TimerStops = {"s1", "s2"}
  MaxPeriods = 2
  MaxStarts = 2
  PoolThreads = {"t1", "t2"}
  PoolTasks = {"a", "b", "c"}
  PoolStoppers = {"s1", "s2"}
  Nobody = "nobody"
INVARIANTS
  OneWaitPerRun
  PendingCountIsExact
  ConnectionsAreReported
  ClientHasOneConnection
  CallsTellTheTruth
  MessagesAreReadable
  SignalsAreKept
  LocksAreOrdered
  StopsAreFinal
PROPERTIES
  ImplementsListener
  EverythingEnds
CHECK_DEADLOCK FALSE
