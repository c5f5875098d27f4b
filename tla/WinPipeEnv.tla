----------------------------- MODULE WinPipeEnv ------------------------------
(***************************************************************************)
(* The environments that make Windows named pipes: win_pipe_server_env     *)
(* with its create operations, win_pipe_client_env with its open           *)
(* operations, and the part of win_pipe_iocp_owner that runs them          *)
(* (rpc-lib/rpc-lib/pipe/win-pipe).                                        *)
(*                                                                         *)
(* A create is a task of the read I/O thread that makes a pipe instance    *)
(* and waits for a client through the completion port.  An open is a       *)
(* thread of its own that retries CreateFile until an instance is free.    *)
(* Cancelations and timeouts reach a create through the same I/O thread    *)
(* and an open through an event under m_cancel_mtx.                        *)
(*                                                                         *)
(* An operation is <<client, n>>; named-pipe instances and the completion  *)
(* port are the kernel's and are modelled as the code uses them.  A timer  *)
(* that is canceled too late finds its operation gone and does nothing.    *)
(***************************************************************************)
EXTENDS Integers, Sequences, FiniteSets

CONSTANTS
  Creates,     \* create_pipe calls
  Opens,       \* open_pipe calls
  TimedOps     \* those that have a timeout

VARIABLES
  thread,      \* tasks of m_read_iocp_thread
  instance,    \* the pipe instance of a create
  io,          \* its ConnectNamedPipe, and the completion it brings
  res,         \* m_res of a create, m_cancel_event of an open
  trying,      \* an open's thread: calls CreateFile or waits to retry
  listed,      \* m_pending_create_operations and m_pending_open_operations
  cancels,     \* who has canceled an operation; bound: each once
  timer,       \* the timer of an operation
  value,       \* what the operation's promise was set to
  resolved,    \* how often; bound: 2
  result       \* of the caller's future

winEnvVars == <<thread, instance, io, res, trying, listed, cancels, timer, value, resolved, result>>

Ops == Creates \cup Opens
Client(o) == o[1]
Clients == {Client(o) : o \in Ops}
Known == {"success", "canceled", "timeout", "failed"}

TypeOK ==
  /\ thread \in Seq({"create", "connect", "canceled", "timeout"} \X Creates)
  /\ instance \in [Creates -> {"none", "free", "taken", "closed"}]
  /\ io \in [Creates -> {"none", "pending", "success", "error"}]
  /\ res \in [Ops -> {"unknown"} \cup Known]
  /\ trying \in [Opens -> {"no", "open", "wait"}]
  /\ listed \subseteq Ops
  /\ cancels \in [Ops -> SUBSET {"canceled", "timeout"}]
  /\ timer \in [Ops -> BOOLEAN]
  /\ value \in [Ops -> {"unknown"} \cup Known]
  /\ resolved \in [Ops -> 0..2]
  /\ result \in [Ops -> {"idle", "pending", "exception"} \cup Known]

Init ==
  /\ thread = <<>>
  /\ instance = [c \in Creates |-> "none"]
  /\ io = [c \in Creates |-> "none"]
  /\ res = [o \in Ops |-> "unknown"]
  /\ trying = [o \in Opens |-> "no"]
  /\ listed = {}
  /\ cancels = [o \in Ops |-> {}]
  /\ timer = [o \in Ops |-> FALSE]
  /\ value = [o \in Ops |-> "unknown"]
  /\ resolved = [o \in Ops |-> 0]
  /\ result = [o \in Ops |-> "idle"]

-----------------------------------------------------------------------------
(* Promises.                                                               *)

Resolve(o, r) ==
  /\ value' = [value EXCEPT ![o] = r]
  /\ resolved' = [resolved EXCEPT ![o] = IF @ < 2 THEN @ + 1 ELSE @]

NotResolved == UNCHANGED <<value, resolved>>

\* A call begins: the operation is listed, with its timer
Begin(o) ==
  /\ result[o] = "idle"
  /\ result' = [result EXCEPT ![o] = "pending"]
  /\ listed' = listed \cup {o}
  /\ timer' = [timer EXCEPT ![o] = o \in TimedOps]

\* The continuations of the promise: the operation leaves the list, its timer is canceled,
\* and the caller's future is set
Finally(o, r) ==
  /\ resolved[o] > 0
  /\ result[o] = "pending"
  /\ result' = [result EXCEPT ![o] = r]
  /\ listed' = listed \ {o}
  /\ timer' = [timer EXCEPT ![o] = FALSE]

-----------------------------------------------------------------------------
(* Creates.                                                                *)

\* create_pipe and create_pipe_async
CreatePipe(c) ==
  /\ Begin(c)
  /\ thread' = Append(thread, <<"create", c>>)
  /\ UNCHANGED <<instance, io, res, trying, cancels, value, resolved>>

SetIfPossible(r, new) == IF r = "unknown" THEN new ELSE r

NextTask(task) == thread # <<>> /\ Head(thread)[1] = task
TaskOp == Head(thread)[2]

\* win_pipe_create_operation::resolve: the instance goes with a success and is closed otherwise
ResolveCreate(c, r) ==
  /\ res' = [res EXCEPT ![c] = r]
  /\ Resolve(c, r)
  /\ instance' = [instance EXCEPT ![c] = IF r = "success" THEN @ ELSE "closed"]

\* The task of create_pipe_async: create_pipe and associate may fail
RunCreate ==
  /\ NextTask("create")
  /\ \/ /\ thread' = [thread EXCEPT ![1] = <<"connect", TaskOp>>]
        /\ instance' = [instance EXCEPT ![TaskOp] = "free"]
        /\ UNCHANGED res /\ NotResolved
     \/ /\ thread' = Tail(thread)
        /\ ResolveCreate(TaskOp, SetIfPossible(res[TaskOp], "failed"))
  /\ UNCHANGED <<io, trying, listed, cancels, timer, result>>

\* start_wait_connect: a client may have come already (ERROR_PIPE_CONNECTED)
RunConnect ==
  /\ NextTask("connect")
  /\ thread' = Tail(thread)
  /\ \/ /\ instance[TaskOp] = "taken"
        /\ ResolveCreate(TaskOp, "success")
        /\ UNCHANGED io
     \/ /\ instance[TaskOp] = "free"
        /\ io' = [io EXCEPT ![TaskOp] = "pending"]
        /\ UNCHANGED <<instance, res>> /\ NotResolved
     \/ /\ ResolveCreate(TaskOp, SetIfPossible(res[TaskOp], "failed"))
        /\ UNCHANGED io
  /\ UNCHANGED <<trying, listed, cancels, timer, result>>

\* win_pipe_create_operation::cancel: the result, then CancelIo
RunCancel ==
  /\ NextTask("canceled") \/ NextTask("timeout")
  /\ thread' = Tail(thread)
  /\ res' = [res EXCEPT ![TaskOp] = SetIfPossible(@, Head(thread)[1])]
  /\ io' = [io EXCEPT ![TaskOp] = IF @ = "pending" THEN "error" ELSE @]
  /\ UNCHANGED <<instance, trying, listed, cancels, timer, value, resolved, result>>

\* Mutant of CreateOutcome: a cancelation that came first wins over the connection
CreateOutcomeIfPossible(c) == SetIfPossible(res[c], IF io[c] = "success" THEN "success" ELSE "failed")

\* The "create" case of run_worker_loop: success is stored whatever was there
CreateOutcome(c) == IF io[c] = "success" THEN "success" ELSE SetIfPossible(res[c], "failed")

WorkerTakes(c) ==
  /\ io[c] \in {"success", "error"}
  /\ ResolveCreate(c, CreateOutcome(c))
  /\ io' = [io EXCEPT ![c] = "none"]
  /\ UNCHANGED <<thread, trying, listed, cancels, timer, result>>

\* ConnectNamedPipe fails later on
ConnectBreaks(c) ==
  /\ io[c] = "pending"
  /\ io' = [io EXCEPT ![c] = "error"]
  /\ UNCHANGED <<thread, instance, res, trying, listed, cancels, timer, value, resolved, result>>

CreateFinally(c) ==
  /\ Finally(c, value[c])
  /\ UNCHANGED <<thread, instance, io, res, trying, cancels, value, resolved>>

-----------------------------------------------------------------------------
(* Opens.                                                                  *)

\* open_pipe and open_pipe_async: the thread starts
OpenPipe(o) ==
  /\ Begin(o)
  /\ trying' = [trying EXCEPT ![o] = "open"]
  /\ UNCHANGED <<thread, instance, io, res, cancels, value, resolved>>

\* CreateFile takes a free instance, and SetNamedPipeHandleState may fail; or there is an
\* error that is not retried
OpenFile(o) ==
  /\ trying[o] = "open"
  /\ trying' = [trying EXCEPT ![o] = "no"]
  /\ \/ \E c \in Creates :
          /\ instance[c] = "free"
          /\ instance' = [instance EXCEPT ![c] = "taken"]
          /\ io' = [io EXCEPT ![c] = IF @ = "pending" THEN "success" ELSE @]
          /\ \E r \in {"success", "failed"} : Resolve(o, r)
     \/ Resolve(o, "failed") /\ UNCHANGED <<instance, io>>
  /\ UNCHANGED <<thread, res, listed, cancels, timer, result>>

\* ERROR_PIPE_BUSY or ERROR_FILE_NOT_FOUND
NoFreeInstance(o) ==
  /\ trying[o] = "open"
  /\ \A c \in Creates : instance[c] # "free"
  /\ trying' = [trying EXCEPT ![o] = "wait"]
  /\ UNCHANGED <<thread, instance, io, res, listed, cancels, timer, value, resolved, result>>

\* Mutant of WaitForCancel: the event is not looked at
WaitForCancelOnly(o) ==
  /\ trying[o] = "wait"
  /\ trying' = [trying EXCEPT ![o] = "open"]
  /\ UNCHANGED <<thread, instance, io, res, listed, cancels, timer, value, resolved, result>>

\* m_cancel_cv.wait_for: canceled, or 100 ms have passed
WaitForCancel(o) ==
  /\ trying[o] = "wait"
  /\ IF res[o] # "unknown"
     THEN trying' = [trying EXCEPT ![o] = "no"] /\ Resolve(o, res[o])
     ELSE trying' = [trying EXCEPT ![o] = "open"] /\ NotResolved
  /\ UNCHANGED <<thread, instance, io, res, listed, cancels, timer, result>>

\* The continuations of an open: associate throws if it fails
OpenFinally(o) ==
  /\ \E r \in IF value[o] = "success" THEN {"success", "exception"} ELSE {value[o]} : Finally(o, r)
  /\ UNCHANGED <<thread, instance, io, res, trying, cancels, value, resolved>>

-----------------------------------------------------------------------------
(* Cancelation.                                                            *)

\* An unordered map lists its operations in any order
Orders(S) ==
  {f \in [1..Cardinality(S) -> S] : \A i, j \in 1..Cardinality(S) : f[i] = f[j] => i = j}

\* cancel_create posts a task; win_pipe_open_operation::cancel sets m_cancel_event
CancelOps(S, how) ==
  LET new == {o \in S \cap listed : how \notin cancels[o]}
  IN  /\ cancels' = [o \in Ops |-> IF o \in new THEN cancels[o] \cup {how} ELSE cancels[o]]
      /\ \E f \in Orders(new \cap Creates) :
           thread' = thread \o [i \in 1..Len(f) |-> <<how, f[i]>>]
      /\ res' = [o \in Ops |-> IF o \in new \cap Opens THEN SetIfPossible(res[o], how) ELSE res[o]]

OnTimeout(o) ==
  /\ timer[o]
  /\ timer' = [timer EXCEPT ![o] = FALSE]
  /\ CancelOps({o}, "timeout")
  /\ UNCHANGED <<instance, io, trying, listed, value, resolved, result>>

\* cancel_pending_server_endpoints and cancel_pending_client_endpoints of one client id or
\* of all, and the destructors
CancelPending(S) ==
  /\ CancelOps(S, "canceled")
  /\ UNCHANGED <<instance, io, trying, listed, timer, value, resolved, result>>

-----------------------------------------------------------------------------
Of(side, S) == {o \in side : Client(o) \in S}
Scopes == {Of(side, S) : side \in {Creates, Opens}, S \in {{c} : c \in Clients} \cup {Clients}}

Thread == RunCreate \/ RunConnect \/ RunCancel
OpenThread(o) == OpenFile(o) \/ NoFreeInstance(o) \/ WaitForCancel(o)
Continuation(o) ==
  \/ o \in Creates /\ CreateFinally(o)
  \/ o \in Opens /\ OpenFinally(o)

Next ==
  \/ \E c \in Creates : CreatePipe(c) \/ WorkerTakes(c) \/ ConnectBreaks(c) \/ CreateFinally(c)
  \/ \E o \in Opens : OpenPipe(o) \/ OpenFile(o) \/ NoFreeInstance(o) \/ WaitForCancel(o) \/ OpenFinally(o)
  \/ \E o \in Ops : OnTimeout(o)
  \/ \E S \in Scopes : CancelPending(S)
  \/ RunCreate \/ RunConnect \/ RunCancel

Spec == Init /\ [][Next]_winEnvVars

\* The threads run, the port delivers completions, the pool runs continuations, and timers
\* expire.
Fairness ==
  /\ WF_winEnvVars(Thread)
  /\ \A c \in Creates : WF_winEnvVars(WorkerTakes(c))
  /\ \A o \in Opens : WF_winEnvVars(OpenThread(o))
  /\ \A o \in Ops : WF_winEnvVars(Continuation(o)) /\ WF_winEnvVars(OnTimeout(o))

-----------------------------------------------------------------------------
(* Properties.                                                             *)

\* A create that ended without success leaves no instance to which a client could connect,
\* one that succeeded has its client, and each promise is set once and never with
\* "unknown" (the assertions of resolve()), whichever of the I/O thread, the worker and
\* the thread of an open comes first.
PipesAreResolvedOnce ==
  /\ \A c \in Creates :
       /\ value[c] = "success" \/ io[c] = "success" => instance[c] = "taken"
       /\ value[c] \in Known \ {"success"} => instance[c] = "closed"
  /\ \A o \in Ops : resolved[o] <= 1 /\ (resolved[o] = 1 => value[o] # "unknown")

\* A client whose connection ended the wait of a create is served, though a cancelation or
\* a timeout may have reached the create before its completion was taken from the port.
ServesConnectedClients ==
  \A c \in Creates : io[c] = "success" => value'[c] \in {"unknown", "success"}

\* Every step does as ServesConnectedClients says.
ConnectedClientsAreServed == [][ServesConnectedClients]_winEnvVars

\* Waits that have a timeout or were canceled, and clients that try while an instance is free
Due ==
  {o \in Ops : result[o] = "pending" /\ (timer[o] \/ cancels[o] # {})} \cup
  {o \in Opens : /\ trying[o] # "no" /\ result[o] = "pending"
                 /\ \E c \in Creates : instance[c] = "free"}

\* A wait that has a timeout or was canceled ends, and when a client and a server wait
\* for each other one of them gets its pipe.
WinWaitsEnd == []<>(Due = {})

=============================================================================
