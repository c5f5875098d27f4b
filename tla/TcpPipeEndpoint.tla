--------------------------- MODULE TcpPipeEndpoint ---------------------------
(***************************************************************************)
(* Two connected rpc::tcp_pipe_endpoint objects                            *)
(* (rpc-lib/rpc-lib/pipe/tcp-pipe/tcp-pipe-endpoint.cpp) and the byte      *)
(* streams between their sockets.                                          *)
(*                                                                         *)
(* An endpoint has a list of writes and a list of reads.  The oldest       *)
(* operation of a list is the one the socket works on: first the header,   *)
(* which carries the size, then the payload, a few bytes at a time.  A     *)
(* step is one critical section of the list's mutex and the socket's: a    *)
(* call, a completion handler, a timer callback.  The promises it takes    *)
(* out of the list are set by the same step.                               *)
(*                                                                         *)
(* An operation is <<end, kind, n>>, n as m_next_write_op_id and           *)
(* m_next_read_op_id count, so that a list is the set of the operations in *)
(* it.  A byte is its place in the stream: TCP delivers what was sent, in  *)
(* order, and what a read finds depends on where it begins.                *)
(***************************************************************************)
EXTENDS PipeOperations

VARIABLES
  open,         \* m_socket.is_open()
  byFail,       \* m_was_invalidated_by_fail
  callback,     \* m_disconnect_callbacks
  queue,        \* m_write_operations, m_read_operations
  flight,       \* the asynchronous socket operation a list waits for
  size,         \* of a write's payload; of a read's m_payload_buffer, 0: none
  transferred,  \* m_bytes_transferred of a write, m_bytes_read of a read
  place,        \* where in the stream the first byte of an operation is
  result,       \* of an operation's promise
  timed,        \* the operation has a timer that has not fired
  moved         \* bytes that the writes of an end have sent, and its reads received

tcpVars == <<open, byFail, callback, queue, flight, size, transferred, place, result, timed, moved>>

Ends == {"a", "b"}
Kinds == {"write", "read"}
Peer(e) == IF e = "a" THEN "b" ELSE "a"
End(o) == o[1]
Kind(o) == o[2]
List(o) == <<End(o), Kind(o)>>
Earlier(p, o) == End(p) = End(o) /\ Kind(p) = Kind(o) /\ p[3] < o[3]

\* The list's back()
Oldest(ops) == CHOOSE o \in ops : \A p \in ops : p = o \/ Earlier(o, p)

Completed == {"success", "timeout", "failed", "canceled"}

TypeOK ==
  /\ open \in [Ends -> BOOLEAN]
  /\ byFail \in [Ends -> BOOLEAN]
  /\ callback \in [Ends -> {"none", "stored", "posted"}]
  /\ queue \in [Ends \X Kinds -> SUBSET TcpOps]
  /\ flight \in [Ends \X Kinds -> {"none", "header", "payload"}]
  /\ size \in [TcpOps -> Nat]
  /\ transferred \in [TcpOps -> Nat]
  /\ place \in [TcpOps -> Nat]
  /\ result \in [TcpOps -> {"idle", "pending"} \cup Completed]
  /\ timed \in [TcpOps -> BOOLEAN]
  /\ moved \in [Ends \X Kinds -> Nat]

Init ==
  /\ open = [e \in Ends |-> TRUE]
  /\ byFail = [e \in Ends |-> FALSE]
  /\ callback = [e \in Ends |-> "none"]
  /\ queue = [l \in Ends \X Kinds |-> {}]
  /\ flight = [l \in Ends \X Kinds |-> "none"]
  /\ size = [o \in TcpOps |-> 0]
  /\ transferred = [o \in TcpOps |-> 0]
  /\ place = [o \in TcpOps |-> 0]
  /\ result = [o \in TcpOps |-> "idle"]
  /\ timed = [o \in TcpOps |-> FALSE]
  /\ moved = [l \in Ends \X Kinds |-> 0]

-----------------------------------------------------------------------------
(* Closing.                                                                *)

\* Mutant of InvalidateUnsafe: the reason of the first close is overwritten
InvalidateUnsafeAgain(e, byCancel) ==
  /\ byFail' = [byFail EXCEPT ![e] = ~byCancel]
  /\ open' = [open EXCEPT ![e] = FALSE]
  /\ callback' = [callback EXCEPT ![e] = IF @ = "stored" THEN "posted" ELSE @]

\* invalidate_unsafe
InvalidateUnsafe(e, byCancel) ==
  /\ byFail' = [byFail EXCEPT ![e] = IF open[e] THEN ~byCancel ELSE @]
  /\ open' = [open EXCEPT ![e] = FALSE]
  /\ callback' = [callback EXCEPT ![e] = IF @ = "stored" THEN "posted" ELSE @]

\* What an operation that is pending when the socket is found closed completes with
CloseResult(e) == IF byFail[e] THEN "failed" ELSE "canceled"

\* take_pending_result on each of a set of operations: a promise is set once
Settle(ops, r) ==
  [o \in TcpOps |-> IF o \in ops /\ result[o] = "pending" THEN r ELSE result[o]]

\* complete_all_operations_unsafe, at the end of a handler: nothing is started
CompleteAll(e, kind, r) ==
  /\ result' = Settle(queue[<<e, kind>>], r)
  /\ queue' = [queue EXCEPT ![<<e, kind>>] = {}]
  /\ flight' = [flight EXCEPT ![<<e, kind>>] = "none"]

\* invalidate(), and the destructor: the operations are left to the aborted handlers
Invalidate(e) ==
  /\ open[e]
  /\ InvalidateUnsafe(e, TRUE)
  /\ UNCHANGED <<queue, flight, size, transferred, place, result, timed, moved>>

SetDisconnectCallback(e) ==
  /\ callback[e] = "none"
  /\ callback' = [callback EXCEPT ![e] = IF open[e] THEN "stored" ELSE "posted"]
  /\ UNCHANGED <<open, byFail, queue, flight, size, transferred, place, result, timed, moved>>

-----------------------------------------------------------------------------
(* Starting an operation, and its timer.                                   *)

\* write_async and read_async: the operation joins the list, and the socket starts on
\* it if it is alone
StartOperation(o, s) ==
  LET list == List(o)
  IN  /\ result[o] = "idle"
      /\ \A p \in TcpOps : Earlier(p, o) => result[p] # "idle"
      /\ IF open[End(o)]
         THEN /\ result' = [result EXCEPT ![o] = "pending"]
              /\ timed' = [timed EXCEPT ![o] = o \in TcpTimedOps]
              /\ size' = [size EXCEPT ![o] = s]
              /\ queue' = [queue EXCEPT ![list] = @ \cup {o}]
              /\ flight' = [flight EXCEPT ![list] = IF queue[list] = {} THEN "header" ELSE @]
         ELSE /\ result' = [result EXCEPT ![o] = "failed"]
              /\ UNCHANGED <<timed, size, queue, flight>>
      /\ UNCHANGED <<open, byFail, callback, transferred, place, moved>>

WriteAsync(o, s) == Kind(o) = "write" /\ StartOperation(o, s)
ReadAsync(o) == Kind(o) = "read" /\ StartOperation(o, 0)

\* Mutant of AfterTimeout: the operation is erased although the socket works on it
AfterTimeoutErased(o, ops) == ops \ {o}

\* The operation the socket works on keeps its place: its bytes are still to come
AfterTimeout(o, ops) == IF Oldest(ops) = o THEN ops ELSE ops \ {o}

\* The timer callback of an operation that is still in its list
Timeout(o) ==
  LET list == List(o)
  IN  /\ timed[o]
      /\ timed' = [timed EXCEPT ![o] = FALSE]
      /\ o \in queue[list]
      /\ result' = Settle({o}, IF open[End(o)] THEN "timeout" ELSE CloseResult(End(o)))
      /\ queue' = [queue EXCEPT ![list] = AfterTimeout(o, @)]
      /\ UNCHANGED <<open, byFail, callback, flight, size, transferred, place, moved>>

-----------------------------------------------------------------------------
(* The completion handlers: on_header_operation and on_payload_operation.  *)

\* The handler gets an error: aborted because the socket was closed, or the connection
\* is lost
OperationFails(e, kind) ==
  /\ flight[<<e, kind>>] # "none"
  /\ IF open[e]
     THEN InvalidateUnsafe(e, FALSE) /\ CompleteAll(e, kind, "failed")
     ELSE CompleteAll(e, kind, CloseResult(e)) /\ UNCHANGED <<open, byFail, callback>>
  /\ UNCHANGED <<size, transferred, place, timed, moved>>

\* start_*_header_async and start_*_payload_async
StartNext(e, kind, phase) ==
  IF open[e]
  THEN /\ flight' = [flight EXCEPT ![<<e, kind>>] = phase]
       /\ UNCHANGED <<open, byFail, callback, queue, result>>
  ELSE CompleteAll(e, kind, CloseResult(e)) /\ UNCHANGED <<open, byFail, callback>>

\* Mutant of FinishOperation: the next operation is not started
FinishOperationAlone(e, kind) ==
  /\ queue' = [queue EXCEPT ![<<e, kind>>] = @ \ {Oldest(@)}]
  /\ flight' = [flight EXCEPT ![<<e, kind>>] = "none"]
  /\ result' = Settle({Oldest(queue[<<e, kind>>])}, "success")
  /\ UNCHANGED <<open, byFail, callback>>

\* on_payload_operation, all bytes of the oldest transferred: it succeeds and the next starts
FinishOperation(e, kind) ==
  LET head == Oldest(queue[<<e, kind>>])
      rest == queue[<<e, kind>>] \ {head}
      done == Settle({head}, "success")
  IN  /\ queue' = [queue EXCEPT ![<<e, kind>>] = IF open[e] THEN rest ELSE {}]
      /\ flight' = [flight EXCEPT ![<<e, kind>>] =
                      IF open[e] /\ rest # {} THEN "header" ELSE "none"]
      /\ result' = [o \in TcpOps |-> IF ~open[e] /\ o \in rest /\ done[o] = "pending"
                                   THEN CloseResult(e) ELSE done[o]]
      /\ UNCHANGED <<open, byFail, callback>>

\* The handler got some bytes: what it starts next for the oldest, which has n bytes now
\* and whose size is s
Continue(e, kind, n, s) ==
  IF n < HeaderSize
  THEN StartNext(e, kind, "header")
  ELSE IF flight[<<e, kind>>] = "header"
       THEN IF s = 0                     \* is_payload_buffer_valid() is false
            THEN InvalidateUnsafe(e, FALSE) /\ CompleteAll(e, kind, "failed")
            ELSE StartNext(e, kind, "payload")
       ELSE IF n < HeaderSize + s
            THEN StartNext(e, kind, "payload")
            ELSE FinishOperation(e, kind)

\* async_*_some never takes more than its buffer: the rest of the header or of the payload
Remaining(o) ==
  (IF transferred[o] < HeaderSize THEN HeaderSize ELSE HeaderSize + size[o]) - transferred[o]

PlaceOf(o) == IF transferred[o] = 0 THEN moved[List(o)] ELSE place[o]

\* add_bytes, and the stream: the n bytes of operation o are the next ones
Transfer(o, n) ==
  /\ transferred' = [transferred EXCEPT ![o] = @ + n]
  /\ place' = [place EXCEPT ![o] = PlaceOf(o)]
  /\ moved' = [moved EXCEPT ![List(o)] = @ + n]

\* The handlers of the socket operations that move some bytes; they may have moved before
\* the socket was closed
BytesWritten(e) ==
  /\ flight[<<e, "write">>] # "none"
  /\ LET w == Oldest(queue[<<e, "write">>]) IN
       \E n \in 1..Remaining(w) :
         /\ moved[<<e, "write">>] + n - moved[<<Peer(e), "read">>] <= Window
         /\ Transfer(w, n)
         /\ Continue(e, "write", transferred[w] + n, size[w])
  /\ UNCHANGED <<size, timed>>

\* The writes of end e whose frame begins at place p
FramesAt(e, p) ==
  {w \in TcpOps : End(w) = e /\ Kind(w) = "write" /\ transferred[w] > 0 /\ place[w] = p}

\* Mutant of SizeInHeader: any size will do
AnySizeInHeader(e, p) ==
  IF FramesAt(e, p) = {} THEN 0 ELSE size[CHOOSE w \in FramesAt(e, p) : TRUE]

\* read_operation::add_bytes: the size in the header of a frame of end e at place p, 0 if
\* that is not one that a message can have
SizeInHeader(e, p) ==
  LET sent == {w \in FramesAt(e, p) : size[w] <= MaxTransferMessageSize}
  IN  IF sent = {} THEN 0 ELSE size[CHOOSE w \in sent : TRUE]

BytesRead(e) ==
  /\ flight[<<e, "read">>] # "none"
  /\ LET r == Oldest(queue[<<e, "read">>]) IN
       \E n \in 1..Remaining(r) :
         LET all == transferred[r] + n
             s == IF all = HeaderSize THEN SizeInHeader(Peer(e), PlaceOf(r)) ELSE size[r]
         IN  /\ moved[<<e, "read">>] + n <= moved[<<Peer(e), "write">>]
             /\ Transfer(r, n)
             /\ size' = [size EXCEPT ![r] = s]
             /\ Continue(e, "read", all, s)
  /\ UNCHANGED timed

-----------------------------------------------------------------------------
Next ==
  \/ \E o \in TcpOps : ReadAsync(o) \/ Timeout(o) \/ \E s \in TcpSizes : WriteAsync(o, s)
  \/ \E e \in Ends : Invalidate(e) \/ SetDisconnectCallback(e) \/ BytesWritten(e) \/ BytesRead(e)
  \/ \E e \in Ends, kind \in Kinds : OperationFails(e, kind)

Spec == Init /\ [][Next]_tcpVars

\* A closed socket, here or at the peer, makes an operation in flight fail
Notice(e, kind) == (~open[e] \/ ~open[Peer(e)]) /\ OperationFails(e, kind)

\* asio delivers the completion of what the sockets did, and timers expire
Fairness ==
  /\ \A e \in Ends, kind \in Kinds : WF_tcpVars(Notice(e, kind))
  /\ \A o \in TcpOps : WF_tcpVars(Timeout(o))

-----------------------------------------------------------------------------
(* Properties.                                                             *)

\* An operation waits only behind a socket operation in flight, whose handler will find
\* it: no list is left without one when an operation completes, times out or is
\* aborted, and no handler runs on an empty list (the assertions of the handlers).
ListsAreDriven ==
  \A e \in Ends, kind \in Kinds :
    /\ flight[<<e, kind>>] = "none" <=> queue[<<e, kind>>] = {}
    /\ \A o \in TcpOps :
         /\ o \in queue[<<e, kind>>] => End(o) = e /\ Kind(o) = kind
         /\ result[o] = "pending" => o \in queue[List(o)]

\* Read r is at the frame of write w
Reads(r, w) ==
  /\ Kind(w) = "write" /\ End(w) = Peer(End(r))
  /\ place[w] = place[r] /\ transferred[r] <= transferred[w]

Whole(r, w) == transferred[r] = HeaderSize + size[w] /\ size[w] <= MaxTransferMessageSize

\* Messages stay whole and in order whatever the sockets split, and whichever operations
\* time out: a read never sees bytes of two messages, a successful one has exactly one
\* message of a size that is allowed, and a later read has a later message.
ReadsGetWholeMessages ==
  \A r \in TcpOps : Kind(r) = "read" /\ transferred[r] > 0 =>
    \E w \in TcpOps :
      /\ Reads(r, w)
      /\ result[r] = "success" => Whole(r, w)
      /\ \A q \in TcpOps : Earlier(q, r) /\ transferred[q] > 0 =>
           \E v \in TcpOps : Earlier(v, w) /\ Reads(q, v) /\ Whole(q, v)

\* The last bytes of a list completed the header of a message that is too large
TooLarge(o) ==
  \E r \in queue[List(o)] :
    Kind(r) = "read" /\ transferred'[r] = HeaderSize /\ size'[r] = 0

\* The requirements of ipipe-endpoint.h on closing: what is pending then completes as
\* "canceled" after invalidate() and as "failed" after a loss, unless it had succeeded or
\* a message that is too large had come; the first reason stays; and the disconnect
\* callback does not stay behind.
NamesTheCloser ==
  \A o \in TcpOps :
    result[o] = "pending" /\ ~open[End(o)] =>
      /\ \/ result'[o] \in {"pending", "success", CloseResult(End(o))}
         \/ result'[o] = "failed" /\ TooLarge(o)
      /\ byFail'[End(o)] = byFail[End(o)]
      /\ callback[End(o)] # "stored"

\* Every step does as NamesTheCloser says.
ResultsNameTheCloser == [][NamesTheCloser]_tcpVars

\* Operations that are not to wait any longer
Due == {o \in TcpOps : result[o] = "pending" /\ (timed[o] \/ ~open["a"] \/ ~open["b"])}

\* An operation that has a timeout completes, and so does every operation once either
\* end is closed.
PendingOperationsComplete == []<>(Due = {})

=============================================================================
