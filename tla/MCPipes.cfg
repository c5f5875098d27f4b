\* Two server ends, a client end and two callers of a memory environment: an end may leave by
\* timeout or cancellation while another waits behind it.  The other components are
\* instantiated in MCPipes.  No symmetry: liveness is checked.
SPECIFICATION PipesSpec
CONSTANTS
  ServerEnds = {s1, s2}
  ClientEnds = {c1}
  ClientIds = {i1, i2}
  NoEnd = NoEnd
  TcpOps <- MCTcpOps
  TcpTimedOps <- MCTcpTimedOps
  TcpSizes = {1, 3}
  HeaderSize = 2
  MaxTransferMessageSize = 2
  Window = 3
  WinOps <- MCWinOps
  WinTimedOps <- MCWinTimedOps
  MaxChunks = 2
  TcpCreates <- MCTcpCreates
  TcpOpens <- MCTcpOpens
  TcpTimedWaits <- MCTcpTimedWaits
  WinCreates <- MCWinCreates
  WinOpens <- MCWinOpens
  WinTimedWaits <- MCWinTimedWaits
INVARIANTS
  NoTwoSidesWait
  PipesPairWaitingEnds
  PipeOperationsAreDriven
  TcpReadsGetWholeMessages
  EnvironmentWaitsAreDriven
PROPERTIES
  FirstComeFirstServed
  ResultsTellWhatHappened
  PipeWaitsEnd
CHECK_DEADLOCK FALSE
