\* Expected violation: a write pending when the peer invalidates reports "canceled".
SPECIFICATION BuffersSpec
CONSTANTS
  ClientReads = {cr}
  ClientWrites = {cw}
  ServerReads = {sr}
  ServerWrites = {sw}
  Callbacks = {cb}
  NoMessage = NoMessage
INVARIANT PendingWritesFailOnPeerLoss
