--------------------------- MODULE WinPipeEndpoint ---------------------------
(***************************************************************************)
(* rpc::win_pipe_endpoint over a Windows named pipe                        *)
(* (rpc-lib/rpc-lib/pipe/win-pipe): the endpoint, its read and write       *)
(* operations and the part of win_pipe_iocp_owner that runs them.          *)
(*                                                                         *)
(* Four threads of control meet in one operation: the caller, the thread   *)
(* that issues the I/O of a kind (m_read_iocp_thread and                   *)
(* m_write_iocp_thread, which run tasks in order), the worker that takes   *)
(* completions from the port, and the pool, which runs continuations and   *)
(* timers.  They agree through m_res, an atomic that each changes only "if *)
(* possible".  A step is a task, a completion, a critical section of a     *)
(* list's mutex or of the pipe's.                                          *)
(*                                                                         *)
(* The kernel (ReadFile, WriteFile, CancelIo, CloseHandle and the          *)
(* completion port) is modelled as the code uses it: every I/O that was    *)
(* started and did not fail at once brings one completion.                 *)
(*                                                                         *)
(* An operation is <<kind, n>>, n as the next-id counters of the lists, so *)
(* that a list is the set of the operations in it.                         *)
(***************************************************************************)
EXTENDS PipeOperations, Sequences

VARIABLES
  open,        \* the pipe handle is not empty
  callback,    \* m_disconnect_callbacks
  queue,       \* m_write_ops, m_read_ops
  thread,      \* tasks posted to the I/O thread of a kind
  io,          \* an operation's overlapped I/O, and the completion it brings
  chunks,      \* m_buffers of a read that were filled
  res,         \* m_res
  resolved,    \* how often resolve() ran; bound: 2
  value,       \* what the operation's promise was set to
  stage,       \* of the continuation that read_async and write_async attach
  result,      \* of the future that the caller has
  timed        \* the timer of an operation

winVars == <<open, callback, queue, thread, io, chunks, res, resolved, value, stage,
             result, timed>>

Kinds == {"write", "read"}
Kind(o) == o[1]
Earlier(p, o) == Kind(p) = Kind(o) /\ p[2] < o[2]

\* The list's back()
Oldest(ops) == CHOOSE o \in ops : \A p \in ops : p = o \/ Earlier(o, p)

Known == {"success", "canceled", "timeout", "failed"}
Completions == {"success", "more_data", "error", "aborted"}

TypeOK ==
  /\ open \in BOOLEAN
  /\ callback \in {"none", "stored", "posted"}
  /\ queue \in [Kinds -> SUBSET WinOps]
  /\ thread \in [Kinds -> Seq({"start", "rest", "cancel"} \X WinOps)]
  /\ io \in [WinOps -> {"none", "pending"} \cup Completions]
  /\ chunks \in [WinOps -> 0..MaxChunks]
  /\ res \in [WinOps -> {"unknown"} \cup Known]
  /\ resolved \in [WinOps -> 0..2]
  /\ value \in [WinOps -> {"unknown"} \cup Known]
  /\ stage \in [WinOps -> {"none", "posted", "completing", "over"}]
  /\ result \in [WinOps -> {"idle", "pending", "unknown"} \cup Known]
  /\ timed \in [WinOps -> BOOLEAN]

Init ==
  /\ open = TRUE
  /\ callback = "none"
  /\ queue = [k \in Kinds |-> {}]
  /\ thread = [k \in Kinds |-> <<>>]
  /\ io = [o \in WinOps |-> "none"]
  /\ chunks = [o \in WinOps |-> 0]
  /\ res = [o \in WinOps |-> "unknown"]
  /\ resolved = [o \in WinOps |-> 0]
  /\ value = [o \in WinOps |-> "unknown"]
  /\ stage = [o \in WinOps |-> "none"]
  /\ result = [o \in WinOps |-> "idle"]
  /\ timed = [o \in WinOps |-> FALSE]

-----------------------------------------------------------------------------
(* The result of an operation.                                             *)

SetCanceledIfPossible(r) == IF r = "unknown" THEN "canceled" ELSE r
SetTimeoutIfPossible(r) == IF r = "unknown" THEN "timeout" ELSE r
SetFailedIfPossible(r) == IF r \in {"unknown", "timeout"} THEN "failed" ELSE r

\* resolve(), with m_res as given: the promise is set and its continuation posted
Resolve(o, r) ==
  /\ res' = [res EXCEPT ![o] = r]
  /\ resolved' = [resolved EXCEPT ![o] = IF @ < 2 THEN @ + 1 ELSE @]
  /\ value' = [value EXCEPT ![o] = r]
  /\ stage' = [stage EXCEPT ![o] = "posted"]

NotResolved == UNCHANGED <<res, resolved, value, stage>>

\* A task for the I/O thread of a kind
Post(kind, task, o) == thread' = [thread EXCEPT ![kind] = Append(@, <<task, o>>)]

-----------------------------------------------------------------------------
(* Calls: write_async, read_async, set_disconnect_callback, invalidate.    *)

StartOperation(o) ==
  /\ result[o] = "idle"
  /\ \A p \in WinOps : Earlier(p, o) => result[p] # "idle"
  /\ IF open
     THEN /\ result' = [result EXCEPT ![o] = "pending"]
          /\ timed' = [timed EXCEPT ![o] = o \in WinTimedOps]
          /\ queue' = [queue EXCEPT ![Kind(o)] = @ \cup {o}]
          /\ IF queue[Kind(o)] = {} THEN Post(Kind(o), "start", o) ELSE UNCHANGED thread
     ELSE /\ result' = [result EXCEPT ![o] = "failed"]
          /\ UNCHANGED <<timed, queue, thread>>
  /\ UNCHANGED <<open, callback, io, chunks, res, resolved, value, stage>>

SetDisconnectCallback ==
  /\ callback = "none"
  /\ callback' = IF open THEN "stored" ELSE "posted"
  /\ UNCHANGED <<open, queue, thread, io, chunks, res, resolved, value, stage, result, timed>>

\* The handle is closed: the kernel aborts what is pending
ClosePipe ==
  /\ open' = FALSE
  /\ callback' = IF callback = "stored" THEN "posted" ELSE callback
  /\ io' = [o \in WinOps |-> IF io[o] = "pending" THEN "aborted" ELSE io[o]]

\* Mutant of InvalidateImpl: the operations of the lists are not given a result
InvalidateImplOnly(byCancel) == ClosePipe /\ UNCHANGED res

\* invalidate_impl: every operation of the lists gets its result before the handle goes
InvalidateImpl(byCancel) ==
  LET listed == queue["write"] \cup queue["read"]
      Set(r) == IF byCancel THEN SetCanceledIfPossible(r) ELSE SetFailedIfPossible(r)
  IN  /\ res' = [o \in WinOps |-> IF o \in listed THEN Set(res[o]) ELSE res[o]]
      /\ ClosePipe

\* invalidate(), and the destructor
Invalidate ==
  /\ open
  /\ InvalidateImpl(TRUE)
  /\ UNCHANGED <<queue, thread, chunks, resolved, value, stage, result, timed>>

-----------------------------------------------------------------------------
(* The I/O threads.                                                        *)

NextTask(kind, task) == thread[kind] # <<>> /\ Head(thread[kind])[1] = task
TaskDone(kind) == thread' = [thread EXCEPT ![kind] = Tail(@)]

\* start(), and what the owner does with its error.  ReadFile first takes the chunks that
\* have come; then the I/O is pending, unless the pipe is closed or broken or the message
\* is longer than the chunks may hold.
StartIo(o) ==
  \/ /\ open
     /\ io' = [io EXCEPT ![o] = "pending"]
     /\ \E n \in chunks[o]..(IF Kind(o) = "read" THEN MaxChunks - 1 ELSE chunks[o]) :
          chunks' = [chunks EXCEPT ![o] = n]
     /\ NotResolved
  \/ /\ Resolve(o, SetFailedIfPossible(res[o]))
     /\ UNCHANGED <<io, chunks>>

\* read_async and write_async of the owner: an operation with a result is resolved,
\* another one is started
RunStart(kind) ==
  /\ NextTask(kind, "start")
  /\ TaskDone(kind)
  /\ LET o == Head(thread[kind])[2] IN
       \/ res[o] # "unknown" /\ Resolve(o, res[o]) /\ UNCHANGED <<io, chunks>>
       \/ res[o] = "unknown" /\ StartIo(o)
  /\ UNCHANGED <<open, callback, queue, result, timed>>

\* read_rest_async: the next chunk of a message
RunRest ==
  /\ NextTask("read", "rest")
  /\ TaskDone("read")
  /\ StartIo(Head(thread["read"])[2])
  /\ UNCHANGED <<open, callback, queue, result, timed>>

\* cancel_read and cancel_write: CancelIo stops whatever this thread has pending on the
\* pipe; a read that has got some bytes is not stopped
RunCancel(kind) ==
  /\ NextTask(kind, "cancel")
  /\ TaskDone(kind)
  /\ LET stopped == {p \in WinOps : Kind(p) = kind /\ io[p] = "pending"}
     IN  io' = [p \in WinOps |-> IF p \in stopped /\ chunks[Head(thread[kind])[2]] = 0
                               THEN "aborted" ELSE io[p]]
  /\ NotResolved
  /\ UNCHANGED <<open, callback, queue, chunks, result, timed>>

\* The kernel completes an I/O; a part of a message only for a read
KernelCompletes(o) ==
  /\ io[o] = "pending"
  /\ \E status \in {"success", "more_data", "error"} :
       /\ status = "more_data" => Kind(o) = "read"
       /\ io' = [io EXCEPT ![o] = status]
  /\ UNCHANGED <<open, callback, queue, thread, chunks, res, resolved, value, stage, result, timed>>

-----------------------------------------------------------------------------
(* The worker: run_worker_loop.                                            *)

\* m_res after a completion: success is stored whatever was there
Outcome(o, status) ==
  CASE status = "success" -> "success"
    [] status = "aborted" -> res[o]
    [] OTHER -> SetFailedIfPossible(res[o])

WorkerTakes(o) ==
  /\ io[o] \in Completions
  /\ io' = [io EXCEPT ![o] = "none"]
  /\ IF io[o] = "more_data" /\ chunks[o] + 1 < MaxChunks
     THEN /\ chunks' = [chunks EXCEPT ![o] = @ + 1]
          /\ Post("read", "rest", o)
          /\ NotResolved
     ELSE /\ Resolve(o, Outcome(o, io[o]))
          /\ UNCHANGED <<chunks, thread>>
  /\ UNCHANGED <<open, callback, queue, result, timed>>

-----------------------------------------------------------------------------
(* The pool: the continuation of an operation, and its timer.              *)

\* The continuation of a failed operation first closes the pipe
InvalidateByFailure(o) ==
  /\ stage[o] = "posted"
  /\ value[o] = "failed"
  /\ stage' = [stage EXCEPT ![o] = "completing"]
  /\ IF open
     THEN InvalidateImpl(FALSE)
     ELSE UNCHANGED <<open, callback, io, res>>
  /\ UNCHANGED <<queue, thread, chunks, resolved, value, result, timed>>

\* The operation that is worked on leaves the list, and its timer is canceled
PopBack(o) ==
  /\ queue' = [queue EXCEPT ![Kind(o)] = @ \ {o}]
  /\ timed' = [timed EXCEPT ![o] = FALSE]

\* Mutant of StartBack: the next operation is started only while the pipe is open
StartBackWhileOpen(kind, list) ==
  IF open /\ list # {} THEN Post(kind, "start", Oldest(list)) ELSE UNCHANGED thread

\* The operation whose turn it is then
StartBack(kind, list) ==
  IF list # {} THEN Post(kind, "start", Oldest(list)) ELSE UNCHANGED thread

\* complete_write_op and complete_read_op, then the caller's future is set
CompleteOp(o) ==
  LET list == queue[Kind(o)]
  IN  /\ stage[o] = "completing" \/ (stage[o] = "posted" /\ value[o] # "failed")
      /\ stage' = [stage EXCEPT ![o] = "over"]
      /\ result' = [result EXCEPT ![o] = value[o]]
      /\ IF o \in list /\ o = Oldest(list)
         THEN PopBack(o) /\ StartBack(Kind(o), list \ {o})
         ELSE UNCHANGED <<queue, timed, thread>>
      /\ UNCHANGED <<open, callback, io, chunks, res, resolved, value>>

\* Mutant of Timeout: the one being worked on is resolved here too
TimeoutResolves(o) ==
  /\ timed[o]
  /\ timed' = [timed EXCEPT ![o] = FALSE]
  /\ o \in queue[Kind(o)]
  /\ queue' = [queue EXCEPT ![Kind(o)] = @ \ {o}]
  /\ Resolve(o, SetTimeoutIfPossible(res[o]))
  /\ UNCHANGED <<open, callback, thread, io, chunks, result>>

\* cancel_write_op_by_timeout and cancel_read_op_by_timeout: the operation that is being
\* worked on is canceled by its thread, one that waits is resolved here
Timeout(o) ==
  /\ timed[o]
  /\ timed' = [timed EXCEPT ![o] = FALSE]
  /\ o \in queue[Kind(o)]
  /\ IF o = Oldest(queue[Kind(o)])
     THEN /\ res' = [res EXCEPT ![o] = SetTimeoutIfPossible(@)]
          /\ Post(Kind(o), "cancel", o)
          /\ UNCHANGED <<queue, resolved, value, stage>>
     ELSE /\ queue' = [queue EXCEPT ![Kind(o)] = @ \ {o}]
          /\ Resolve(o, SetTimeoutIfPossible(res[o]))
          /\ UNCHANGED thread
  /\ UNCHANGED <<open, callback, io, chunks, result>>

-----------------------------------------------------------------------------
Tasks(kind) == RunStart(kind) \/ RunCancel(kind) \/ (kind = "read" /\ RunRest)

Next ==
  \/ \E o \in WinOps :
       \/ StartOperation(o) \/ KernelCompletes(o) \/ WorkerTakes(o)
       \/ InvalidateByFailure(o) \/ CompleteOp(o) \/ Timeout(o)
  \/ \E kind \in Kinds : RunStart(kind) \/ RunCancel(kind)
  \/ RunRest
  \/ SetDisconnectCallback
  \/ Invalidate

Spec == Init /\ [][Next]_winVars

\* The threads run what they have, timers expire, and the kernel delivers the rest of a
\* message it has begun to deliver; nobody has to write or to read.
Fairness ==
  /\ \A kind \in Kinds : WF_winVars(Tasks(kind))
  /\ \A o \in WinOps :
       /\ WF_winVars(WorkerTakes(o))
       /\ WF_winVars(InvalidateByFailure(o) \/ CompleteOp(o))
       /\ WF_winVars(Timeout(o))
       /\ WF_winVars(chunks[o] > 0 /\ KernelCompletes(o))

-----------------------------------------------------------------------------
(* Properties.                                                             *)

\* Whatever races on an operation (its completion, its timer, invalidate, a failure of
\* another), it is resolved at most once, and never without a result: the assertion of
\* resolve() holds and no promise is set twice.
ResolvedOnce == \A o \in WinOps : resolved[o] <= 1 /\ (resolved[o] = 1 => value[o] # "unknown")

\* A task waits in the I/O thread of a kind
Posted(kind, task, o) == \E i \in 1..Len(thread[kind]) : thread[kind][i] = <<task, o>>

\* The one place that will move the oldest of a list on
Driver(o) ==
  LET tasked == Posted(Kind(o), "start", o) \/ Posted(Kind(o), "rest", o)
  IN  \/ tasked /\ io[o] = "none" /\ stage[o] = "none"
      \/ ~tasked /\ io[o] # "none" /\ stage[o] = "none"
      \/ ~tasked /\ io[o] = "none" /\ stage[o] \in {"posted", "completing"}

\* One operation of a kind is worked on at a time, the oldest of the list, in exactly one
\* place, so a cancel never stops the I/O of another operation; the others are untouched;
\* and a pending operation is in the list or about to be completed.
OneInFlight ==
  \A k \in Kinds :
    /\ \A o \in queue[k] :
         IF o = Oldest(queue[k])
         THEN Driver(o)
         ELSE io[o] = "none" /\ stage[o] = "none" /\ ~Posted(k, "start", o)
    /\ \A o \in WinOps : result[o] = "pending" =>
         o \in queue[Kind(o)] \/ stage[o] \in {"posted", "completing"}

\* Operations that are not to wait any longer
Due == {o \in WinOps : result[o] = "pending" /\ (timed[o] \/ ~open)}

\* An operation that has a timeout completes, and so does every operation once the pipe
\* is closed.
WinOperationsComplete == []<>(Due = {})

=============================================================================
