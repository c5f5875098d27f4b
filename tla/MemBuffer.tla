------------------------------ MODULE MemBuffer ------------------------------
(***************************************************************************)
(* One direction of the in-process pipe: rpc::mem_buffer                   *)
(* (rpc-lib/rpc-lib/pipe/memory-pipe/mem-buffer.cpp).                      *)
(*                                                                         *)
(* A read and a write are each posted to a strand of their own, so at most *)
(* one write task and one read task run at a time, interleaved with each   *)
(* other, with timer callbacks and with invalidate().  A step of this      *)
(* module is one critical section of m_mtx (and of the m_read_promises     *)
(* lock); settling a promise that a critical section has moved out of the  *)
(* shared state touches nothing another thread can reach, and is folded    *)
(* into that step.                                                         *)
(*                                                                         *)
(* A payload is abstracted to the identity of the write that carries it.   *)
(***************************************************************************)
EXTENDS Naturals, Sequences, Functions

CONSTANTS
  Reads,    \* identities of read_async calls
  Writes,   \* identities of write_async calls, and of their messages
  NoMsg     \* an empty cl::buffer

ASSUME NoMsgAssumption == NoMsg \notin Writes

VARIABLES
  isValid,                \* m_is_valid
  readInvalidationResult, \* m_read_invalidation_result
  buffer,                 \* m_buffer
  readPromises,           \* m_read_promises, first index: order of waiting
  readStrand,             \* read tasks posted to m_read_strand
  writeStrand,            \* write tasks posted to m_write_strand; the head runs
  resolving,              \* the running write task has left write_impl and not
                          \*   yet entered resolve_read_promise
  timers,                 \* the m_timer entry of a waiting read
  readTimed,              \* the read has a timeout
  writeTimed,             \* the write has a timeout
  startedWhileValid,      \* captured by the read task in read_async
  readResult,             \* state of the read's promise
  readMsg,                \* buffer the read's promise was settled with
  writeResult             \* state of the write's promise

calls == <<readTimed, writeTimed, startedWhileValid>>
vars == <<isValid, readInvalidationResult, buffer, readPromises, readStrand,
          writeStrand, resolving, timers, calls, readResult, readMsg, writeResult>>

OpResult == {"success", "failed", "canceled", "timeout"}
PromiseState == {"idle", "pending"} \cup OpResult

\* armed: waiting in the io_context; expired: its handler is queued without an
\* error code, so that cancel() no longer has an effect on it
TimerState == {"none", "armed", "expired"}

TypeOK ==
  /\ isValid \in BOOLEAN
  /\ readInvalidationResult \in {"failed", "canceled"}
  /\ buffer \in Seq(Writes)
  /\ readPromises \in Seq(Reads)
  /\ readStrand \in Seq(Reads)
  /\ writeStrand \in Seq(Writes)
  /\ resolving \in BOOLEAN
  /\ timers \in [Reads -> TimerState]
  /\ readTimed \in [Reads -> BOOLEAN]
  /\ writeTimed \in [Writes -> BOOLEAN]
  /\ startedWhileValid \in [Reads -> BOOLEAN]
  /\ readResult \in [Reads -> PromiseState]
  /\ readMsg \in [Reads -> Writes \cup {NoMsg}]
  /\ writeResult \in [Writes -> PromiseState]

Init ==
  /\ isValid = TRUE
  /\ readInvalidationResult = "failed"
  /\ buffer = <<>>
  /\ readPromises = <<>>
  /\ readStrand = <<>>
  /\ writeStrand = <<>>
  /\ resolving = FALSE
  /\ timers = [r \in Reads |-> "none"]
  /\ readTimed = [r \in Reads |-> FALSE]
  /\ writeTimed = [w \in Writes |-> FALSE]
  /\ startedWhileValid = [r \in Reads |-> FALSE]
  /\ readResult = [r \in Reads |-> "idle"]
  /\ readMsg = [r \in Reads |-> NoMsg]
  /\ writeResult = [w \in Writes |-> "idle"]

-----------------------------------------------------------------------------
(* Calls made by the users of the buffer.                                  *)

\* mem_buffer::write_async
WriteAsync(w, timed) ==
  /\ writeResult[w] = "idle"
  /\ writeTimed' = [writeTimed EXCEPT ![w] = timed]
  /\ \/ /\ ~isValid
        /\ writeResult' = [writeResult EXCEPT ![w] = "failed"]
        /\ UNCHANGED writeStrand
     \/ /\ isValid
        /\ writeResult' = [writeResult EXCEPT ![w] = "pending"]
        /\ writeStrand' = Append(writeStrand, w)
  /\ UNCHANGED <<isValid, readInvalidationResult, buffer, readPromises, readStrand,
                 resolving, timers, readTimed, startedWhileValid, readResult, readMsg>>

\* mem_buffer::read_async
ReadAsync(r, timed) ==
  /\ readResult[r] = "idle"
  /\ readResult' = [readResult EXCEPT ![r] = "pending"]
  /\ readTimed' = [readTimed EXCEPT ![r] = timed]
  /\ startedWhileValid' = [startedWhileValid EXCEPT ![r] = isValid]
  /\ readStrand' = Append(readStrand, r)
  /\ UNCHANGED <<isValid, readInvalidationResult, buffer, readPromises, writeStrand,
                 resolving, timers, writeTimed, readMsg, writeResult>>

\* Mutant of CancelTimers: cancel_all for cancel
CancelAllTimers(S) ==
  timers' = [r \in Reads |-> IF timers[r] = "armed" THEN "none" ELSE timers[r]]

\* multiple_timer::cancel on the timers of a set of reads
CancelTimers(S) ==
  timers' = [r \in Reads |-> IF r \in S /\ timers[r] = "armed" THEN "none" ELSE timers[r]]

\* What invalidate completes the waiting reads with
InvalidationResult(cancelRead) == IF cancelRead THEN "canceled" ELSE "failed"

\* mem_buffer::invalidate; a second call returns early
Invalidate(cancelRead) ==
  LET result == InvalidationResult(cancelRead)
      waiting == Range(readPromises)
  IN  /\ isValid
      /\ isValid' = FALSE
      /\ readInvalidationResult' = result
      /\ buffer' = <<>>
      /\ readPromises' = <<>>
      /\ readResult' = [r \in Reads |-> IF r \in waiting THEN result ELSE readResult[r]]
      /\ CancelTimers(Reads)
      /\ UNCHANGED <<readStrand, writeStrand, resolving, calls, readMsg, writeResult>>

-----------------------------------------------------------------------------
(* The task of a write: write_impl, then resolve_read_promise.             *)

\* Mutant of SettleWrite: the promise is forgotten once the buffer is invalid
SettleWriteWhileValid(w, result) ==
  writeResult' = [writeResult EXCEPT ![w] = IF isValid THEN result ELSE @]

\* The write task sets its promise to what write_impl returned
SettleWrite(w, result) == writeResult' = [writeResult EXCEPT ![w] = result]

\* mem_buffer::write_impl and the settling of the write's promise
WriteImpl ==
  /\ writeStrand # <<>>
  /\ ~resolving
  /\ resolving' = TRUE
  /\ LET w == Head(writeStrand) IN
       \/ /\ ~isValid
          /\ SettleWrite(w, "canceled")
          /\ UNCHANGED buffer
       \/ /\ isValid
          /\ writeTimed[w]                \* now() > timeout_point
          /\ SettleWrite(w, "timeout")
          /\ UNCHANGED buffer
       \/ /\ isValid
          /\ buffer' = Append(buffer, w)
          /\ SettleWrite(w, "success")
       \/ /\ isValid                      \* m_buffer.push threw
          /\ SettleWrite(w, "failed")
          /\ UNCHANGED buffer
  /\ UNCHANGED <<isValid, readInvalidationResult, readPromises, readStrand,
                 writeStrand, timers, calls, readResult, readMsg>>

\* Mutant of Deliver: the front message is not popped
DeliverWithoutPop(r) ==
  /\ UNCHANGED buffer
  /\ readResult' = [readResult EXCEPT ![r] = "success"]
  /\ readMsg' = [readMsg EXCEPT ![r] = Head(buffer)]

\* The front message goes to a read whose promise was moved out of the shared state
Deliver(r) ==
  /\ buffer' = Tail(buffer)
  /\ readResult' = [readResult EXCEPT ![r] = "success"]
  /\ readMsg' = [readMsg EXCEPT ![r] = Head(buffer)]

\* Mutant of CanHandOver: one waiting read does not count
CanHandOverToSeveral == Len(readPromises) > 1 /\ buffer # <<>>

\* resolve_read_promise finds a read and a message
CanHandOver == readPromises # <<>> /\ buffer # <<>>

\* mem_buffer::resolve_read_promise; the write task ends
ResolveReadPromise ==
  /\ resolving
  /\ resolving' = FALSE
  /\ writeStrand' = Tail(writeStrand)
  /\ \/ /\ ~CanHandOver
        /\ UNCHANGED <<buffer, readPromises, timers, readResult, readMsg>>
     \/ /\ CanHandOver
        /\ Deliver(Head(readPromises))
        /\ readPromises' = Tail(readPromises)
        /\ CancelTimers({Head(readPromises)})
  /\ UNCHANGED <<isValid, readInvalidationResult, readStrand, calls, writeResult>>

-----------------------------------------------------------------------------
(* The task of a read, and its timer.                                      *)

\* Mutant of InvalidReadResult: without started_while_valid
InvalidReadResultOblivious(r) == readInvalidationResult

\* The result of a read whose task finds the buffer invalid
InvalidReadResult(r) == IF startedWhileValid[r] THEN readInvalidationResult ELSE "failed"

\* mem_buffer::read_impl
ReadImpl ==
  /\ readStrand # <<>>
  /\ readStrand' = Tail(readStrand)
  /\ LET r == Head(readStrand) IN
       \/ /\ ~isValid
          /\ readResult' = [readResult EXCEPT ![r] = InvalidReadResult(r)]
          /\ UNCHANGED <<buffer, readPromises, timers, readMsg>>
       \/ /\ isValid
          /\ buffer # <<>>
          /\ Deliver(r)
          /\ UNCHANGED <<readPromises, timers>>
       \/ /\ isValid
          /\ buffer = <<>>
          /\ readPromises' = Append(readPromises, r)
          /\ timers' = [timers EXCEPT ![r] = IF readTimed[r] THEN "armed" ELSE @]
          /\ UNCHANGED <<buffer, readResult, readMsg>>
  /\ UNCHANGED <<isValid, readInvalidationResult, writeStrand, resolving, calls, writeResult>>

\* The deadline of a waiting read passes and asio queues its handler
TimerExpires(r) ==
  /\ timers[r] = "armed"
  /\ timers' = [timers EXCEPT ![r] = "expired"]
  /\ UNCHANGED <<isValid, readInvalidationResult, buffer, readPromises, readStrand,
                 writeStrand, resolving, calls, readResult, readMsg, writeResult>>

\* Mutant of TimeoutCallback: the entry is not erased
TimeoutCallbackWithoutErase(r) ==
  /\ timers[r] = "expired"
  /\ timers' = [timers EXCEPT ![r] = "none"]
  /\ readResult' = [readResult EXCEPT ![r] = IF r \in Range(readPromises) THEN "timeout" ELSE @]
  /\ UNCHANGED <<isValid, readInvalidationResult, buffer, readPromises, readStrand,
                 writeStrand, resolving, calls, readMsg, writeResult>>

\* What the container of the promises is without its i-th entry
Erase(s, i) == SubSeq(s, 1, i - 1) \o SubSeq(s, i + 1, Len(s))

\* timeout_callback of read_impl: the promise is looked up by id, and may be gone
TimeoutCallback(r) ==
  /\ timers[r] = "expired"
  /\ timers' = [timers EXCEPT ![r] = "none"]
  /\ \/ /\ \E i \in DOMAIN readPromises :
             /\ readPromises[i] = r
             /\ readPromises' = Erase(readPromises, i)
        /\ readResult' = [readResult EXCEPT ![r] = "timeout"]
     \/ /\ \A i \in DOMAIN readPromises : readPromises[i] # r
        /\ UNCHANGED <<readPromises, readResult>>
  /\ UNCHANGED <<isValid, readInvalidationResult, buffer, readStrand, writeStrand,
                 resolving, calls, readMsg, writeResult>>

-----------------------------------------------------------------------------
Next ==
  \/ \E w \in Writes, timed \in BOOLEAN : WriteAsync(w, timed)
  \/ \E r \in Reads, timed \in BOOLEAN : ReadAsync(r, timed)
  \/ \E cancelRead \in BOOLEAN : Invalidate(cancelRead)
  \/ WriteImpl
  \/ ResolveReadPromise
  \/ ReadImpl
  \/ \E r \in Reads : TimerExpires(r)
  \/ \E r \in Reads : TimeoutCallback(r)

Spec == Init /\ [][Next]_vars

\* The pool runs every posted task, and the clock reaches every deadline; nobody
\* has to call read_async, write_async or invalidate
Fairness ==
  /\ WF_vars(WriteImpl)
  /\ WF_vars(ResolveReadPromise)
  /\ WF_vars(ReadImpl)
  /\ \A r \in Reads : WF_vars(TimerExpires(r)) /\ WF_vars(TimeoutCallback(r))

FairSpec == Spec /\ Fairness

-----------------------------------------------------------------------------
(* Properties.                                                             *)

\* No lost wakeup between the two strands: a read waits beside an undelivered
\* message only between write_impl and resolve_read_promise of the running write
\* task, and then there is one such message, the one that task is about to hand
\* over.  (The read that finds the buffer empty and the write that finds nobody
\* waiting cannot miss each other.)
NoLostWakeup ==
  readPromises # <<>> /\ buffer # <<>> => resolving /\ Len(buffer) = 1

\* Every promise of a started and unsettled read is in exactly one place that will
\* settle it: its posted task or the waiting queue.  So no promise is dropped
\* (broken) and none can be settled twice, whichever of the write task, the timer
\* callback and invalidate comes first.
PendingReadsAreOwned ==
  /\ IsInjective(readStrand)
  /\ IsInjective(readPromises)
  /\ Range(readStrand) \cap Range(readPromises) = {}
  /\ Range(readStrand) \cup Range(readPromises) = {r \in Reads : readResult[r] = "pending"}

\* No message is duplicated, and until invalidate discards the buffer none is lost,
\* by a timeout racing the hand-over or a read overtaking another: a message whose
\* write reported success is buffered once or was delivered to one read.
AcceptedMessagesAreConserved ==
  LET delivered == {readMsg[r] : r \in Reads} \ {NoMsg}
  IN  /\ IsInjective(buffer)
      /\ \A q, r \in Reads : readMsg[q] = readMsg[r] => q = r \/ readMsg[r] = NoMsg
      /\ Range(buffer) \cap delivered = {}
      /\ isValid => Range(buffer) \cup delivered = {w \in Writes : writeResult[w] = "success"}

\* What makes the properties above inductive: the head of the write strand is the
\* one whose task runs, the others are unsettled; invalidation leaves nothing behind;
\* only a read that came too late remembers it; only success carries a message.
Bookkeeping ==
  /\ resolving => writeStrand # <<>>
  /\ IsInjective(writeStrand)
  /\ Range(writeStrand) \cap {w \in Writes : writeResult[w] = "idle"} = {}
  /\ {w \in Writes : writeResult[w] = "pending"} =
        Range(writeStrand) \ (IF resolving THEN {Head(writeStrand)} ELSE {})
  /\ ~isValid => buffer = <<>> /\ readPromises = <<>>
  /\ \A r \in Reads :
       /\ readResult[r] = "pending" /\ ~startedWhileValid[r] => ~isValid
       /\ readResult[r] # "success" => readMsg[r] = NoMsg

IInv ==
  /\ TypeOK
  /\ NoLostWakeup
  /\ PendingReadsAreOwned
  /\ AcceptedMessagesAreConserved
  /\ Bookkeeping

\* The buffer implements the contract of one pipe direction.
Contract ==
  INSTANCE FifoPipe WITH
    open <- isValid, closeResult <- readInvalidationResult, chan <- buffer,
    readState <- [r \in Reads |-> IF readResult[r] = "pending" /\ ~startedWhileValid[r]
                                   THEN "late" ELSE readResult[r]],
    writeState <- writeResult

\* mem_buffer keeps the requirements of ipipe-endpoint.h on one direction: FIFO
\* delivery, single completion, the result codes of invalidate, of timeouts and of
\* operations started too late.
ImplementsFifoPipe == Contract!Spec

\* Under the pool's fairness the buffer also keeps the contract's promises of progress:
\* every pending write is decided, every read left behind by invalidate completes.
KeepsPipeFairness == Contract!Fairness

\* A read that has a timeout completes, whatever the writers do: its timer is armed,
\* canceled only with its promise taken, and its callback finds the promise.
TimedReadsComplete ==
  \A r \in Reads : readResult[r] = "pending" /\ readTimed[r] ~> readResult[r] \in OpResult

\* A message and a waiting read meet: the read ends or the message is taken.
MessageMeetsReader ==
  \A r \in Reads, w \in Writes :
    /\ readPromises # <<>> /\ Head(readPromises) = r
    /\ buffer # <<>> /\ Head(buffer) = w
    ~> readResult[r] \in OpResult \/ ~isValid \/ \E q \in Reads : readMsg[q] = w

\* Reads and writes make progress, all three together.
OperationsMakeProgress == KeepsPipeFairness /\ TimedReadsComplete /\ MessageMeetsReader

=============================================================================
