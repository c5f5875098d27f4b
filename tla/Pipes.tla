-------------------------------- MODULE Pipes --------------------------------
(***************************************************************************)
(* The pipe implementations side by side: the environments that make pipes *)
(* (PipeEnvironments), the two TCP endpoints of a connection and an        *)
(* endpoint of a Windows named pipe, and what is promised of them.  A      *)
(* behaviour is one of the component that it starts with, and the others   *)
(* stay as they were constructed.                                          *)
(***************************************************************************)
EXTENDS PipeEnvironments, PipeOperations

VARIABLES
  component,   \* the component that this behaviour is about
  tcp_open, tcp_byFail, tcp_callback, tcp_queue, tcp_flight, tcp_size, tcp_transferred,
  tcp_place, tcp_result, tcp_timed, tcp_moved,
  win_open, win_callback, win_queue, win_thread, win_io, win_chunks, win_res, win_resolved,
  win_value, win_stage, win_result, win_timed

Tcp == INSTANCE TcpPipeEndpoint WITH
  open <- tcp_open, byFail <- tcp_byFail,
  callback <- tcp_callback, queue <- tcp_queue, flight <- tcp_flight, size <- tcp_size,
  transferred <- tcp_transferred, place <- tcp_place, result <- tcp_result, timed <- tcp_timed,
  moved <- tcp_moved

Win == INSTANCE WinPipeEndpoint WITH
  open <- win_open, callback <- win_callback, queue <- win_queue, thread <- win_thread, io <- win_io,
  chunks <- win_chunks, res <- win_res, resolved <- win_resolved, value <- win_value,
  stage <- win_stage, result <- win_result, timed <- win_timed

tcpVars == <<tcp_open, tcp_byFail, tcp_callback, tcp_queue, tcp_flight, tcp_size,
             tcp_transferred, tcp_place, tcp_result, tcp_timed, tcp_moved>>
winVars == <<win_open, win_callback, win_queue, win_thread, win_io, win_chunks, win_res,
             win_resolved, win_value, win_stage, win_result, win_timed>>

pipeVars == <<component, vars, tcpVars, winVars, teVars, weVars>>

PipesInit ==
  /\ component \in {"MemEnv", "Tcp", "Win", "TcpEnv", "WinEnv"}
  /\ Init
  /\ component # "MemEnv" =>
       timed = [e \in Ends |-> FALSE] /\ clientId = [e \in Ends |-> CHOOSE i \in ClientIds : TRUE]
  /\ Tcp!Init
  /\ Win!Init
  /\ TcpEnv!Init
  /\ WinEnv!Init

PipesNext ==
  \/ component = "MemEnv" /\ Next /\ UNCHANGED <<component, tcpVars, winVars, teVars, weVars>>
  \/ component = "Tcp" /\ Tcp!Next /\ UNCHANGED <<component, vars, winVars, teVars, weVars>>
  \/ component = "Win" /\ Win!Next /\ UNCHANGED <<component, vars, tcpVars, teVars, weVars>>
  \/ component = "TcpEnv" /\ TcpEnv!Next /\ UNCHANGED <<component, vars, tcpVars, winVars, weVars>>
  \/ component = "WinEnv" /\ WinEnv!Next /\ UNCHANGED <<component, vars, tcpVars, winVars, teVars>>

PipesSpec ==
  /\ PipesInit /\ [][PipesNext]_pipeVars
  /\ Fairness
  /\ Tcp!Fairness
  /\ Win!Fairness
  /\ TcpEnv!Fairness
  /\ WinEnv!Fairness

-----------------------------------------------------------------------------
(* Properties.                                                             *)

\* Pipe operations are driven to their end by exactly one of the parties that could: the
\* oldest operation of a TCP list is in flight and no other is; at most one operation of a
\* kind is in the Windows kernel; and a promise is resolved once though a timeout, an
\* invalidation and a completion may all reach it.
PipeOperationsAreDriven ==
  /\ Tcp!TypeOK /\ Tcp!ListsAreDriven
  /\ Win!TypeOK /\ Win!OneInFlight /\ Win!ResolvedOnce

\* tcp_pipe_endpoint reads whole messages in the order they were written, whatever parts
\* the stream hands over and wherever it breaks.
TcpReadsGetWholeMessages == Tcp!ReadsGetWholeMessages

\* Results tell what happened: operations that a closing TCP endpoint ends say who closed
\* it, and a client that connected to a Windows pipe is not told that nobody was there.
ResultsTellWhatHappened ==
  [][Tcp!NamesTheCloser /\ WinEnv!ServesConnectedClients]_pipeVars

\* Operations with a timeout, on a closed pipe, canceled, or that can be served, all
\* complete: in each component nothing stays due.
PipeWaitsEnd ==
  []<>(/\ Due = {} /\ Tcp!Due = {} /\ Win!Due = {}
       /\ TcpEnv!Due = {} /\ WinEnv!Due = {})

=============================================================================
