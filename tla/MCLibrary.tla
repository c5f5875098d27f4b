------------------------------ MODULE MCLibrary ------------------------------
(***************************************************************************)
(* The layers above and below the connections for model checking: the      *)
(* server (ServerEndpoint), the client and the components of common-lib    *)
(* (Library), and remote calls and their messages.  They have no state in  *)
(* common here; a behaviour is one of the component that it starts with,   *)
(* and the others stay as they were constructed.                           *)
(* "Buffer" and "Message" are the inputs of the functions of               *)
(* TransferMessage, one in each initial state.                             *)
(***************************************************************************)
EXTENDS ServerEndpoint, Library

VARIABLES
  component,   \* the component that this behaviour is about
  input,       \* the buffer or the message
  rpc_nextReqId, rpc_reqId, rpc_request, rpc_answer, rpc_future, rpc_runs, rpc_server,
  rpc_response, rpc_executed, rpc_produced

\* Up to three mutexes in the constructor and in push_back
MCPairs == (SUBSET Mutexes) \X (SUBSET Mutexes)

\* Two bits for a byte: sizes and numbers of two bytes, method indexes of one
Codec == INSTANCE TransferMessage WITH
  Base <- 4, SizeBytes <- 2, NumberBytes <- 2, MethodBytes <- 1, MaxProtoSize <- 5

\* Every buffer up to one byte more than the shortest valid one, and messages whose size
\* takes one byte and two
Buffers == UNION {[1..n -> 0..3] : n \in 0..7}
Messages == (0..15) \X (0..3) \X (0..3) \X {[i \in 1..n |-> i % 4] : n \in 0..6}

Rpc == INSTANCE RpcCall WITH
  Base <- 8, SizeBytes <- 1, NumberBytes <- 1, MethodBytes <- 1, MaxProtoSize <- 2,
  Calls <- {"a", "b"}, Methods <- {0, 1}, MethodsCount <- 1, Failures <- {"timeout"},
  Protos <- {<<1>>, <<1, 2, 3>>}, nextReqId <- rpc_nextReqId, reqId <- rpc_reqId,
  request <- rpc_request, answer <- rpc_answer, future <- rpc_future, runs <- rpc_runs,
  server <- rpc_server, response <- rpc_response, executed <- rpc_executed,
  produced <- rpc_produced

rpcVars == <<rpc_nextReqId, rpc_reqId, rpc_request, rpc_answer, rpc_future, rpc_runs,
             rpc_server, rpc_response, rpc_executed, rpc_produced>>
libraryVars == <<component, input, vars, clientVars, rpcVars, eventVars, lockVars, timerVars, poolVars>>

LibraryInit ==
  /\ component \in {"Server", "Client", "Rpc", "Event", "Lock", "Timer", "Pool", "Buffer", "Message"}
  /\ Init
  /\ Lock!Init
  /\ component # "Lock" => lock_named = [h \in LockThreads |-> <<{1}, {}>>]
  /\ Event!Init
  /\ component # "Event" => ~event_isSet /\ ~event_manualReset
  /\ Client!Init /\ Rpc!Init /\ Timer!Init /\ Pool!Init
  /\ input \in CASE component = "Buffer" -> Buffers
                [] component = "Message" -> Messages
                [] OTHER -> {<<>>}

LibraryNext ==
  \/ /\ component = "Server" /\ Next
     /\ UNCHANGED <<component, input, clientVars, rpcVars, eventVars, lockVars, timerVars, poolVars>>
  \/ /\ component = "Client" /\ Client!Next
     /\ UNCHANGED <<component, input, vars, rpcVars, eventVars, lockVars, timerVars, poolVars>>
  \/ /\ component = "Rpc" /\ Rpc!Next
     /\ UNCHANGED <<component, input, vars, clientVars, eventVars, lockVars, timerVars, poolVars>>
  \/ /\ component = "Event" /\ Event!Next
     /\ UNCHANGED <<component, input, vars, clientVars, rpcVars, lockVars, timerVars, poolVars>>
  \/ /\ component = "Lock" /\ Lock!Next
     /\ UNCHANGED <<component, input, vars, clientVars, rpcVars, eventVars, timerVars, poolVars>>
  \/ /\ component = "Timer" /\ Timer!Next
     /\ UNCHANGED <<component, input, vars, clientVars, rpcVars, eventVars, lockVars, poolVars>>
  \/ /\ component = "Pool" /\ Pool!Next
     /\ UNCHANGED <<component, input, vars, clientVars, rpcVars, eventVars, lockVars, timerVars>>

LibrarySpec ==
  /\ LibraryInit /\ [][LibraryNext]_libraryVars
  /\ Fairness
  /\ Client!Fairness
  /\ Rpc!Fairness
  /\ Event!Fairness
  /\ Lock!Fairness
  /\ Timer!Fairness
  /\ Pool!Fairness

-----------------------------------------------------------------------------
(* Properties.                                                             *)

\* A call's closure runs once, and the result that its caller sees is what happened at the
\* peer.
CallsTellTheTruth ==
  /\ Rpc!TypeOK
  /\ Rpc!ClosuresRunOnce
  /\ Rpc!ResultsAreTruthful

\* Whatever bytes arrive, a buffer that passes for valid has its fields inside, and what is
\* written is what is read.
MessagesAreReadable ==
  /\ component = "Buffer" => Codec!FieldsAreInside(input)
  /\ component = "Message" => Codec!MessagesRoundTrip(input[1], input[2], input[3], input[4])

\* Whatever has to end does: the reports of a server that is destroyed or whose wait for a
\* pipe failed, connects, calls, sleeps on a set event, locks, and stops of timers and pools.
EverythingEnds ==
  []<>(/\ owner # "alive" => AllReported
       /\ FailuresToReport = {}
       /\ Client!Due = {} /\ Rpc!Due = {}
       /\ Event!Due = {} /\ Lock!Due = {} /\ Timer!Due = {} /\ Pool!Due = {})

=============================================================================
