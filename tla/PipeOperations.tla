--------------------------- MODULE PipeOperations ----------------------------
(***************************************************************************)
(* The operations that the users of an endpoint may call, for the TCP and  *)
(* the Windows pipes, and the sizes that bound them.                       *)
(***************************************************************************)
EXTENDS Integers

CONSTANTS
  TcpOps,                  \* <<end, kind, n>>, n as m_next_write_op_id and m_next_read_op_id count
  TcpTimedOps,             \* those that are called with a timeout
  TcpSizes,                \* sizes of the messages written
  HeaderSize,              \* s_header_size
  MaxTransferMessageSize,
  Window,                  \* bytes a stream holds: unread data stops the writer
  WinOps,                  \* <<kind, n>>, n as the next-id counters of the lists
  WinTimedOps,
  MaxChunks                \* buffer chunks of a read, add_buffer_chunk's bound

\* Operations are numbered, messages and headers have bytes (write_async asserts it)
ASSUME TcpNames ==
  /\ TcpOps \subseteq {"a", "b"} \X {"write", "read"} \X Nat
  /\ TcpSizes \subseteq Nat \ {0}
  /\ HeaderSize \in Nat \ {0}
  /\ MaxTransferMessageSize \in Nat

\* A read begins with one chunk
ASSUME WinNames == WinOps \subseteq {"write", "read"} \X Nat /\ MaxChunks \in Nat \ {0}

=============================================================================
