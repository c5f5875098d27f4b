--------------------------- MODULE ServerConnector ---------------------------
(***************************************************************************)
(* The listener of a server: rpc::internal::server_connector               *)
(* (rpc-lib/rpc-lib/internal/connector/server-connector.cpp).              *)
(*                                                                         *)
(* start() opens a run: the connector waits for one pipe at a time, asks   *)
(* for the next as soon as it has one, and meanwhile leads a handshake     *)
(* over each pipe it got.  All continuations of a run share a flag that    *)
(* stop() lowers.  The user is told through tasks of m_notify_strand.      *)
(*                                                                         *)
(* A step is one critical section of m_mtx or one continuation.  A run is  *)
(* the number of its start(); the promise behind an entry of               *)
(* m_connection_future_map has no reader, so the entry is its id alone.    *)
(***************************************************************************)
EXTENDS Naturals, Sequences, FiniteSets

CONSTANTS
  MaxConnections,  \* bound on m_next_connection_id
  MaxRuns,         \* bound on the calls of start()
  Stoppers         \* threads that call stop()

Ids == 0 .. MaxConnections - 1
Runs == 1 .. MaxRuns
NoRun == 0        \* a null is_running_sp
NotCalled == MaxRuns + 1

ASSUME BoundsAssumption == MaxConnections \in Nat /\ MaxRuns \in Nat

VARIABLES
  isRunning,         \* *is_running_sp of each run
  current,           \* m_is_running_sp
  starts,            \* runs opened so far
  nextConnectionId,  \* m_next_connection_id
  run,               \* is_running_sp captured by the continuations of a connection
  stage,             \* where the continuations of a connection are
  futureMap,         \* keys of m_connection_future_map
  stopCalls,         \* is_running_sp as a stop() under way has read it
  strand,            \* tasks of m_notify_strand
  told,              \* the run whose "started" was the last change of state told
  opened,            \* the last run whose "started" was told
  given              \* the connections the user was given, with their runs

connectorVars == <<isRunning, current, starts, nextConnectionId, run, stage, futureMap,
                   stopCalls, strand, told, opened, given>>

Stages == {"unused", "accepting", "connected", "refused", "reading", "writing", "closing", "over", "failed"}

Started(r) == [kind |-> "started", of |-> r]
Stopped(r) == [kind |-> "stopped", of |-> r]
NewConnection(c) == [kind |-> "connection", of |-> c]

ConnectorTypeOK ==
  /\ isRunning \in [Runs -> BOOLEAN]
  /\ current \in Runs \cup {NoRun}
  /\ starts \in Runs \cup {0}
  /\ nextConnectionId \in 0 .. MaxConnections
  /\ run \in [Ids -> Runs \cup {NoRun}]
  /\ stage \in [Ids -> Stages]
  /\ futureMap \subseteq Ids
  /\ stopCalls \in [Stoppers -> Runs \cup {NoRun, NotCalled}]
  /\ strand \in Seq({Started(r) : r \in Runs} \cup {Stopped(r) : r \in Runs} \cup {NewConnection(c) : c \in Ids})
  /\ told \in Runs \cup {NoRun}
  /\ opened \in Runs \cup {NoRun}
  /\ given \in [Ids -> Runs \cup {NoRun}]

ConnectorInit ==
  /\ isRunning = [r \in Runs |-> FALSE]
  /\ current = NoRun
  /\ starts = 0
  /\ nextConnectionId = 0
  /\ run = [c \in Ids |-> NoRun]
  /\ stage = [c \in Ids |-> "unused"]
  /\ futureMap = {}
  /\ stopCalls = [s \in Stoppers |-> NotCalled]
  /\ strand = <<>>
  /\ told = NoRun
  /\ opened = NoRun
  /\ given = [c \in Ids |-> NoRun]

-----------------------------------------------------------------------------
\* is_running_sp && *is_running_sp
Running(r) == r # NoRun /\ isRunning[r]

\* The tail of start_pipe_connect: ask the environment for a pipe and give it an id.
\* stages are those the same step leaves behind.
StartPipeConnect(r, stages) ==
  /\ nextConnectionId < MaxConnections
  /\ nextConnectionId' = nextConnectionId + 1
  /\ run' = [run EXCEPT ![nextConnectionId] = r]
  /\ stage' = [stages EXCEPT ![nextConnectionId] = "accepting"]
  /\ futureMap' = futureMap \cup {nextConnectionId}

\* start(); it throws, and changes nothing, when the connector is running
Start ==
  /\ starts < MaxRuns
  /\ ~Running(current)
  /\ starts' = starts + 1
  /\ isRunning' = [isRunning EXCEPT ![starts'] = TRUE]
  /\ current' = starts'
  /\ strand' = Append(strand, Started(starts'))
  /\ StartPipeConnect(starts', stage)
  /\ UNCHANGED <<stopCalls, told, opened, given>>

\* Mutant of StopImpl: the entries of the handshakes under way are left in the map
StopImplKeepsMap(r, stages) ==
  IF Running(r)
  THEN /\ isRunning' = [isRunning EXCEPT ![r] = FALSE]
       /\ current' = NoRun
       /\ stage' = [c \in Ids |-> IF stages[c] = "accepting" THEN "refused" ELSE stages[c]]
       /\ UNCHANGED futureMap
       /\ strand' = Append(strand, Stopped(r))
  ELSE stage' = stages /\ UNCHANGED <<isRunning, current, futureMap, strand>>

\* stop_impl: close a run, if it is still open.  cancel_pending_server_endpoints fails
\* the wait for a pipe.
StopImpl(r, stages) ==
  IF Running(r)
  THEN /\ isRunning' = [isRunning EXCEPT ![r] = FALSE]
       /\ current' = NoRun
       /\ stage' = [c \in Ids |-> IF stages[c] = "accepting" THEN "refused" ELSE stages[c]]
       /\ futureMap' = {}
       /\ strand' = Append(strand, Stopped(r))
  ELSE stage' = stages /\ UNCHANGED <<isRunning, current, futureMap, strand>>

\* The two critical sections of stop()
BeginStop(s) ==
  /\ stopCalls[s] = NotCalled
  /\ stopCalls' = [stopCalls EXCEPT ![s] = current]
  /\ UNCHANGED <<isRunning, current, starts, nextConnectionId, run, stage, futureMap, strand, told, opened, given>>

EndStop(s) ==
  /\ stopCalls[s] # NotCalled
  /\ StopImpl(stopCalls[s], stage)
  /\ stopCalls' = [stopCalls EXCEPT ![s] = NotCalled]
  /\ UNCHANGED <<starts, nextConnectionId, run, told, opened, given>>

\* The environment completes create_pipe.  The bound keeps an id for the next wait.
PipeConnects(c) ==
  /\ stage[c] = "accepting"
  /\ nextConnectionId < MaxConnections
  /\ stage' = [stage EXCEPT ![c] = "connected"]
  /\ UNCHANGED <<isRunning, current, starts, nextConnectionId, run, futureMap, stopCalls, strand, told, opened, given>>

PipeFails(c) ==
  /\ stage[c] = "accepting"
  /\ stage' = [stage EXCEPT ![c] = "refused"]
  /\ UNCHANGED <<isRunning, current, starts, nextConnectionId, run, futureMap, stopCalls, strand, told, opened, given>>

\* Mutant of OnPipe: the next pipe is waited for whether or not the run is over
OnPipeAlways(c) ==
  /\ stage[c] = "connected"
  /\ StartPipeConnect(run[c], [stage EXCEPT ![c] = "reading"])
  /\ UNCHANGED <<isRunning, current, starts, stopCalls, strand, told, opened, given>>

\* The continuation of a pipe that connected: start_pipe_connect(false), which returns
\* early when the run is over, then the read that opens the handshake
OnPipe(c) ==
  /\ stage[c] = "connected"
  /\ LET stages == [stage EXCEPT ![c] = "reading"]
     IN  IF Running(run[c])
         THEN StartPipeConnect(run[c], stages)
         ELSE stage' = stages /\ UNCHANGED <<nextConnectionId, run, futureMap>>
  /\ UNCHANGED <<isRunning, current, starts, stopCalls, strand, told, opened, given>>

\* Mutant of OnPipeFailure: the failure is only recorded
OnPipeFailureRecorded(c) ==
  /\ stage[c] = "refused"
  /\ stage' = [stage EXCEPT ![c] = "failed"]
  /\ UNCHANGED <<isRunning, current, starts, nextConnectionId, run, futureMap, stopCalls, strand, told, opened, given>>

\* The continuation of a wait that failed
OnPipeFailure(c) ==
  /\ stage[c] = "refused"
  /\ StopImpl(run[c], [stage EXCEPT ![c] = "failed"])
  /\ UNCHANGED <<starts, nextConnectionId, run, stopCalls, told, opened, given>>

\* The handshake: the client's request is read within handshake_timeout and accepted by
\* the authenticator, or not
HandshakeRead(c, accepted) ==
  /\ stage[c] = "reading"
  /\ stage' = [stage EXCEPT ![c] = IF accepted THEN "writing" ELSE "closing"]
  /\ UNCHANGED <<isRunning, current, starts, nextConnectionId, run, futureMap, stopCalls, strand, told, opened, given>>

\* Mutant of Announce: whichever run is open will do
AnnounceInAnyRun(c) ==
  strand' = IF Running(current) THEN Append(strand, NewConnection(c)) ELSE strand

\* notify_on_new_connection: after the end of its run a connection is dropped
Announce(c) ==
  strand' = IF Running(run[c]) THEN Append(strand, NewConnection(c)) ELSE strand

\* The response is written within handshake_timeout, or not
HandshakeWrite(c, written) ==
  /\ stage[c] = "writing"
  /\ stage' = [stage EXCEPT ![c] = "closing"]
  /\ IF written THEN Announce(c) ELSE UNCHANGED strand
  /\ UNCHANGED <<isRunning, current, starts, nextConnectionId, run, futureMap, stopCalls, told, opened, given>>

\* The last continuation of a handshake: erase_connection_future_from_map
EraseConnectionFuture(c) ==
  /\ stage[c] = "closing"
  /\ stage' = [stage EXCEPT ![c] = "over"]
  /\ futureMap' = futureMap \ {c}
  /\ UNCHANGED <<isRunning, current, starts, nextConnectionId, run, stopCalls, strand, told, opened, given>>

\* A task of m_notify_strand
Notify ==
  /\ strand # <<>>
  /\ LET task == Head(strand)
     IN  /\ told' = CASE task.kind = "started" -> task.of
                      [] task.kind = "stopped" -> NoRun
                      [] OTHER -> told
         /\ opened' = IF task.kind = "started" THEN task.of ELSE opened
         /\ given' = IF task.kind = "connection"
                     THEN [given EXCEPT ![task.of] = run[task.of]]
                     ELSE given
  /\ strand' = Tail(strand)
  /\ UNCHANGED <<isRunning, current, starts, nextConnectionId, run, stage, futureMap, stopCalls>>

\* What the pool and the pipes do
Background ==
  \E c \in Ids :
    \/ PipeFails(c) \/ PipeConnects(c)
    \/ OnPipe(c) \/ OnPipeFailure(c)
    \/ \E ok \in BOOLEAN : HandshakeRead(c, ok) \/ HandshakeWrite(c, ok)
    \/ EraseConnectionFuture(c)

-----------------------------------------------------------------------------
(* Properties.                                                             *)

Waiting(c) == stage[c] \in {"accepting", "connected", "refused"}

\* A connector that runs has exactly one continuation that waits for a pipe or is about
\* to ask for the next one, however pipes, failures, stop() and start() interleave; and
\* no wait outlives its run in the environment.
OneWaitPerRun ==
  /\ Running(current) => Cardinality({c \in Ids : run[c] = current /\ Waiting(c)}) = 1
  /\ \A c \in Ids : stage[c] = "accepting" => run[c] = current

\* get_pending_connections_count() counts the wait and the handshakes of the open run:
\* entries of earlier runs are gone, whichever of their handshakes still go on.
PendingCountIsExact ==
  futureMap = {c \in Ids : Running(run[c]) /\ stage[c] \notin {"over", "failed"}}

\* The callbacks keep the protocol of ListenerEvents.
Listener == INSTANCE ListenerEvents WITH listening <- told, periods <- opened
ImplementsListener == Listener!Spec

=============================================================================
