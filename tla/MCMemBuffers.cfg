\* One operation of each kind per endpoint and one callback: both endpoints may
\* invalidate, repeatedly and at the same time.
SPECIFICATION BuffersFairSpec
CONSTANTS
  ClientReads = {cr}
  ClientWrites = {cw}
  ServerReads = {sr}
  ServerWrites = {sw}
  Callbacks = {cb}
  NoMessage = NoMessage
INVARIANTS
  ClosesOnce
  ReadResultNamesTheCloser
PROPERTY InvalidateCompletesEverything
