-------------------------- MODULE PipeEnvironments ---------------------------
(***************************************************************************)
(* The environments that make pipes, each with its state: the one of the   *)
(* memory pipes (MemPipeEnv), the server's and the client's for TCP, and   *)
(* the server's and the client's for the Windows named pipes.              *)
(***************************************************************************)
EXTENDS MemPipeEnv, FiniteSets

CONSTANTS
  TcpCreates, TcpOpens, TcpTimedWaits,
  WinCreates, WinOpens, WinTimedWaits

\* The calls of the two sides differ, and a program makes finitely many
ASSUME WaitNames ==
  /\ TcpCreates \cap TcpOpens = {}
  /\ WinCreates \cap WinOpens = {}
  /\ IsFiniteSet(WinCreates)

VARIABLES
  te_list, te_nextId, te_opening, te_started, te_canceled, te_io, te_socket, te_timer, te_result,
  te_settled, te_after, te_backlog,
  we_thread, we_instance, we_io, we_res, we_trying, we_listed, we_cancels, we_timer, we_value,
  we_resolved, we_result

TcpEnv == INSTANCE TcpPipeEnv WITH
  Creates <- TcpCreates, Opens <- TcpOpens, TimedOps <- TcpTimedWaits, list <- te_list,
  nextId <- te_nextId, opening <- te_opening, started <- te_started, canceled <- te_canceled, io <- te_io,
  socket <- te_socket, timer <- te_timer, result <- te_result, settled <- te_settled,
  after <- te_after, backlog <- te_backlog

WinEnv == INSTANCE WinPipeEnv WITH
  Creates <- WinCreates, Opens <- WinOpens, TimedOps <- WinTimedWaits, thread <- we_thread,
  instance <- we_instance, io <- we_io, res <- we_res, trying <- we_trying, listed <- we_listed,
  cancels <- we_cancels, timer <- we_timer, value <- we_value, resolved <- we_resolved,
  result <- we_result

teVars == <<te_list, te_nextId, te_opening, te_started, te_canceled, te_io, te_socket, te_timer,
            te_result, te_settled, te_after, te_backlog>>
weVars == <<we_thread, we_instance, we_io, we_res, we_trying, we_listed, we_cancels, we_timer,
            we_value, we_resolved, we_result>>

-----------------------------------------------------------------------------
(* Properties.                                                             *)

\* The waits of the environments are driven: the oldest listed create_pipe has the accept,
\* and a pipe is handed out once or closed, whichever of completion, timeout and
\* cancelation comes first.
EnvironmentWaitsAreDriven ==
  /\ TypeOK
  /\ TcpEnv!TypeOK /\ TcpEnv!AcceptsAreDriven /\ TcpEnv!PipesAreHandedOutOnce
  /\ WinEnv!TypeOK /\ WinEnv!PipesAreResolvedOnce

=============================================================================
