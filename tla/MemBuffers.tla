----------------------------- MODULE MemBuffers ------------------------------
(***************************************************************************)
(* The in-process pipe: rpc::mem_buffers and its two mem_pipe_endpoints    *)
(* (rpc-lib/rpc-lib/pipe/memory-pipe/mem-buffers.cpp,                      *)
(* mem-pipe-endpoint.cpp).                                                 *)
(*                                                                         *)
(* Each direction is a FifoPipe, which MemBuffer implements.  invalidate   *)
(* is not atomic: it closes the client-to-server direction, then the       *)
(* server-to-client one, and takes m_mtx only to record the fact and run   *)
(* the callbacks; the calls of the two endpoints, and of a destructor      *)
(* after an explicit call, interleave with each other and with everything. *)
(***************************************************************************)
EXTENDS Naturals, FiniteSets

CONSTANTS
  ClientReads, ClientWrites,   \* operations the client endpoint may start
  ServerReads, ServerWrites,   \* operations the server endpoint may start
  Callbacks,                   \* set_disconnect_callback calls of both endpoints
  NoMessage

VARIABLES
  c2sOpen, c2sCloseResult, c2sChan, c2sReadState, c2sReadMsg, c2sWriteState,
  s2cOpen, s2cCloseResult, s2cChan, s2cReadState, s2cReadMsg, s2cWriteState,
  invalidated,     \* m_invalidated
  onInvalidate,    \* m_on_invalidate
  executions,      \* how many times a callback was posted to the pool
  unsetCallbacks,  \* callbacks nobody has passed to set_disconnect_callback yet
  pc,              \* progress of an endpoint's invalidate_impl
  invalidators     \* endpoints that have called invalidate

c2sVars == <<c2sOpen, c2sCloseResult, c2sChan, c2sReadState, c2sReadMsg, c2sWriteState>>
s2cVars == <<s2cOpen, s2cCloseResult, s2cChan, s2cReadState, s2cReadMsg, s2cWriteState>>
callbackVars == <<onInvalidate, executions, unsetCallbacks>>
buffersVars == <<c2sVars, s2cVars, invalidated, callbackVars, pc, invalidators>>

PipeSides == {"client", "server"}

\* m_client_to_server: written by the client, read by the server
ClientToServer ==
  INSTANCE FifoPipe WITH
    Reads <- ServerReads, Writes <- ClientWrites, NoMsg <- NoMessage,
    open <- c2sOpen, closeResult <- c2sCloseResult, chan <- c2sChan,
    readState <- c2sReadState, readMsg <- c2sReadMsg, writeState <- c2sWriteState

\* m_server_to_client: written by the server, read by the client
ServerToClient ==
  INSTANCE FifoPipe WITH
    Reads <- ClientReads, Writes <- ServerWrites, NoMsg <- NoMessage,
    open <- s2cOpen, closeResult <- s2cCloseResult, chan <- s2cChan,
    readState <- s2cReadState, readMsg <- s2cReadMsg, writeState <- s2cWriteState

BuffersTypeOK ==
  /\ c2sOpen \in BOOLEAN /\ s2cOpen \in BOOLEAN /\ invalidated \in BOOLEAN
  /\ c2sCloseResult \in {"failed", "canceled"} /\ s2cCloseResult \in {"failed", "canceled"}
  /\ onInvalidate \subseteq Callbacks
  /\ executions \in [Callbacks -> Nat]
  /\ unsetCallbacks \subseteq Callbacks
  /\ pc \in [PipeSides -> {"idle", "closeC2S", "closeS2C", "notify"}]
  /\ invalidators \subseteq PipeSides

BuffersInit ==
  /\ ClientToServer!Init
  /\ ServerToClient!Init
  /\ invalidated = FALSE
  /\ onInvalidate = {}
  /\ executions = [cb \in Callbacks |-> 0]
  /\ unsetCallbacks = Callbacks
  /\ pc = [side \in PipeSides |-> "idle"]
  /\ invalidators = {}

-----------------------------------------------------------------------------
\* read_async and write_async of an endpoint route to a direction; timeouts,
\* deliveries and completions happen inside it.  Only invalidate closes it.
UseClientToServer ==
  /\ \/ \E r \in ServerReads : \/ ClientToServer!StartRead(r)
                               \/ ClientToServer!Deliver(r)
                               \/ ClientToServer!TimeoutRead(r)
                               \/ ClientToServer!FailRead(r)
     \/ \E w \in ClientWrites : ClientToServer!StartWrite(w) \/ ClientToServer!Decide(w)
  /\ UNCHANGED <<s2cVars, invalidated, callbackVars, pc, invalidators>>

UseServerToClient ==
  /\ \/ \E r \in ClientReads : \/ ServerToClient!StartRead(r)
                               \/ ServerToClient!Deliver(r)
                               \/ ServerToClient!TimeoutRead(r)
                               \/ ServerToClient!FailRead(r)
     \/ \E w \in ServerWrites : ServerToClient!StartWrite(w) \/ ServerToClient!Decide(w)
  /\ UNCHANGED <<c2sVars, invalidated, callbackVars, pc, invalidators>>

\* Mutant of SetInvalidateCallback: m_invalidated is not looked at
SetInvalidateCallbackTooLate(cb) ==
  /\ cb \in unsetCallbacks
  /\ unsetCallbacks' = unsetCallbacks \ {cb}
  /\ onInvalidate' = onInvalidate \cup {cb}
  /\ UNCHANGED <<c2sVars, s2cVars, invalidated, executions, pc, invalidators>>

\* mem_buffers::set_invalidate_callback
SetInvalidateCallback(cb) ==
  /\ cb \in unsetCallbacks
  /\ unsetCallbacks' = unsetCallbacks \ {cb}
  /\ \/ /\ invalidated
        /\ executions' = [executions EXCEPT ![cb] = @ + 1]
        /\ UNCHANGED onInvalidate
     \/ /\ ~invalidated
        /\ onInvalidate' = onInvalidate \cup {cb}
        /\ UNCHANGED executions
  /\ UNCHANGED <<c2sVars, s2cVars, invalidated, pc, invalidators>>

\* Mutant of InvalidateEndpoint: m_invalidated is set before the directions are closed
InvalidateFlagFirst(side) ==
  /\ pc[side] = "idle"
  /\ pc' = [pc EXCEPT ![side] = "closeC2S"]
  /\ invalidators' = invalidators \cup {side}
  /\ invalidated' = TRUE
  /\ UNCHANGED <<c2sVars, s2cVars, callbackVars>>

\* mem_pipe_endpoint::invalidate, also run by ~mem_pipe_endpoint
InvalidateEndpoint(side) ==
  /\ pc[side] = "idle"
  /\ pc' = [pc EXCEPT ![side] = "closeC2S"]
  /\ invalidators' = invalidators \cup {side}
  /\ UNCHANGED <<c2sVars, s2cVars, invalidated, callbackVars>>

\* Mutant of CloseResult: the flags are swapped
CloseResultSwapped(reader, closer) == IF reader = closer THEN "failed" ELSE "canceled"

\* The result reader gets when closer's invalidate_impl closes its direction
CloseResult(reader, closer) == IF reader = closer THEN "canceled" ELSE "failed"

\* m_client_to_server->invalidate(cancel_server_side)
CloseClientToServer(side) ==
  /\ pc[side] = "closeC2S"
  /\ pc' = [pc EXCEPT ![side] = "closeS2C"]
  /\ \/ c2sOpen /\ \E S \in SUBSET ServerReads :
                     ClientToServer!Close(CloseResult("server", side), S)
     \/ ~c2sOpen /\ UNCHANGED c2sVars
  /\ UNCHANGED <<s2cVars, invalidated, callbackVars, invalidators>>

\* m_server_to_client->invalidate(cancel_client_side)
CloseServerToClient(side) ==
  /\ pc[side] = "closeS2C"
  /\ pc' = [pc EXCEPT ![side] = "notify"]
  /\ \/ s2cOpen /\ \E S \in SUBSET ClientReads :
                     ServerToClient!Close(CloseResult("client", side), S)
     \/ ~s2cOpen /\ UNCHANGED s2cVars
  /\ UNCHANGED <<c2sVars, invalidated, callbackVars, invalidators>>

\* Mutant of RunInvalidateCallbacks: m_on_invalidate is not cleared
RunInvalidateCallbacksAgain(side) ==
  /\ pc[side] = "notify"
  /\ pc' = [pc EXCEPT ![side] = "idle"]
  /\ invalidated' = TRUE
  /\ executions' = [cb \in Callbacks |-> IF cb \in onInvalidate THEN executions[cb] + 1
                                         ELSE executions[cb]]
  /\ UNCHANGED <<c2sVars, s2cVars, onInvalidate, unsetCallbacks, invalidators>>

\* The critical section that ends invalidate_impl
RunInvalidateCallbacks(side) ==
  /\ pc[side] = "notify"
  /\ pc' = [pc EXCEPT ![side] = "idle"]
  /\ invalidated' = TRUE
  /\ executions' = [cb \in Callbacks |-> IF cb \in onInvalidate THEN executions[cb] + 1
                                         ELSE executions[cb]]
  /\ onInvalidate' = {}
  /\ UNCHANGED <<c2sVars, s2cVars, unsetCallbacks, invalidators>>

InvalidateStep(side) ==
  \/ CloseClientToServer(side)
  \/ CloseServerToClient(side)
  \/ RunInvalidateCallbacks(side)

BuffersNext ==
  \/ UseClientToServer
  \/ UseServerToClient
  \/ \E cb \in Callbacks : SetInvalidateCallback(cb)
  \/ \E side \in PipeSides : InvalidateEndpoint(side)
  \/ \E side \in PipeSides : InvalidateStep(side)

BuffersSpec == BuffersInit /\ [][BuffersNext]_buffersVars

\* A call of invalidate runs to its end, and each direction keeps FifoPipe's fairness
BuffersFairSpec ==
  /\ BuffersSpec
  /\ \A side \in PipeSides : WF_buffersVars(InvalidateStep(side))
  /\ ClientToServer!Fairness
  /\ ServerToClient!Fairness

-----------------------------------------------------------------------------
(* Properties.                                                             *)

\* The directions close in the order invalidate_impl names them and the pipe reports
\* itself disconnected last, however many calls overlap: is_connected() = false means
\* that every new operation fails at once, and a server whose write direction is
\* closed has a closed read direction.
CloseOrder == (invalidated => ~s2cOpen) /\ (~s2cOpen => ~c2sOpen)

\* A disconnect callback runs at most once, runs only when both directions are closed
\* and is not left behind: once the pipe is invalidated none is waiting in the list.
\* (set_invalidate_callback racing invalidate_impl, twice if both ends invalidate.)
CallbackRunsOnce ==
  \A cb \in Callbacks :
    /\ executions[cb] + (IF cb \in onInvalidate THEN 1 ELSE 0) =
         (IF cb \in unsetCallbacks THEN 0 ELSE 1)
    /\ invalidated => cb \notin onInvalidate
    /\ executions[cb] > 0 => ~c2sOpen /\ ~s2cOpen

\* The pipe is closed once, in one order, and said to be.
ClosesOnce == BuffersTypeOK /\ CloseOrder /\ CallbackRunsOnce

\* While one endpoint alone has called invalidate, its own pending reads end with
\* "canceled" and those of its peer with "failed": invalidate_impl passes the flags of
\* the two sides to the right directions.
ReadResultNamesTheCloser ==
  /\ invalidators = {"server"} => /\ ~c2sOpen => c2sCloseResult = "canceled"
                                  /\ ~s2cOpen => s2cCloseResult = "failed"
  /\ invalidators = {"client"} => /\ ~c2sOpen => c2sCloseResult = "failed"
                                  /\ ~s2cOpen => s2cCloseResult = "canceled"

\* Requirement 4 of ipipe-endpoint.h for writes: when the peer drops the connection
\* the pending operations complete with "failed"; "canceled" is for one's own
\* invalidate (requirement 1).
PendingWritesFailOnPeerLoss ==
  /\ \A w \in ClientWrites : c2sWriteState[w] = "canceled" => "client" \in invalidators
  /\ \A w \in ServerWrites : s2cWriteState[w] = "canceled" => "server" \in invalidators

\* After a call of invalidate every operation of both endpoints completes, and every
\* callback that was set runs.
InvalidateCompletesEverything ==
  LET unsettled == {"pending", "late"} IN
  /\ \A r \in ServerReads :
       invalidators # {} /\ c2sReadState[r] \in unsettled ~> c2sReadState[r] \notin unsettled
  /\ \A r \in ClientReads :
       invalidators # {} /\ s2cReadState[r] \in unsettled ~> s2cReadState[r] \notin unsettled
  /\ \A w \in ClientWrites : c2sWriteState[w] = "pending" ~> c2sWriteState[w] # "pending"
  /\ \A w \in ServerWrites : s2cWriteState[w] = "pending" ~> s2cWriteState[w] # "pending"
  /\ \A cb \in Callbacks :
       invalidators # {} /\ cb \notin unsetCallbacks ~> executions[cb] = 1

=============================================================================
