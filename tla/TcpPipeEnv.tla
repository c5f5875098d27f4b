----------------------------- MODULE TcpPipeEnv ------------------------------
(***************************************************************************)
(* The TCP environments that make pipes: tcp_pipe_server_env, which        *)
(* accepts connections (rpc-lib/rpc-lib/pipe/tcp-pipe/                     *)
(* tcp-pipe-server-env.cpp), tcp_pipe_client_env, which opens them         *)
(* (tcp-pipe-client-env.cpp), and the listening socket between them.       *)
(*                                                                         *)
(* The server keeps its waits in a list and has one accept under way, for  *)
(* the oldest.  The client's connects are independent.  Cancelation and    *)
(* timeouts reach an operation that may not have been started, may be      *)
(* under way, or may be over with its bookkeeping still to do.  A step is  *)
(* a critical section of an environment's m_mtx, a completion handler, or  *)
(* a "finally" continuation.                                               *)
(*                                                                         *)
(* An operation is <<client, n>>, client being the id that pending         *)
(* operations are canceled by and n its m_next_id: the server's list is    *)
(* the set of the operations in it, ordered by n.  A timer that is         *)
(* canceled when its handler is already queued finds its operation gone or *)
(* canceled and does nothing, so cancelation simply disarms it here.       *)
(***************************************************************************)
EXTENDS Integers, Sequences

CONSTANTS
  Creates,     \* create_pipe calls
  Opens,       \* open_pipe calls
  TimedOps     \* those that have a timeout

VARIABLES
  list,        \* m_create_operations
  nextId,      \* m_next_id of the server
  opening,     \* m_open_operations
  started,     \* m_was_started
  canceled,    \* m_was_canceled and m_canceled_by_timer
  io,          \* the asynchronous accept or connect, and how it ended
  socket,      \* m_socket of an open operation
  timer,       \* the timer of an operation
  result,      \* of the promise
  settled,     \* how often the promise was set; bound: 2
  after,       \* the "finally" continuation of the promise's future
  backlog      \* connections that wait in the listening socket

tcpEnvVars == <<list, nextId, opening, started, canceled, io, socket, timer, result, settled, after, backlog>>

Ops == Creates \cup Opens
Client(o) == o[1]
Id(o) == o[2]
Clients == {Client(o) : o \in Ops}
Done == {"success", "timeout", "canceled", "failed"}

TypeOK ==
  /\ list \subseteq Creates
  /\ nextId \in Nat
  /\ opening \subseteq Opens
  /\ started \in [Creates -> BOOLEAN]
  /\ canceled \in [Ops -> {"no", "user", "timer"}]
  /\ io \in [Ops -> {"none", "waiting", "ok", "error"}]
  /\ socket \in [Opens -> {"none", "open", "closed"}]
  /\ timer \in [Ops -> BOOLEAN]
  /\ result \in [Ops -> {"idle", "pending"} \cup Done]
  /\ settled \in [Ops -> 0..2]
  /\ after \in [Ops -> {"none", "posted", "over"}]
  /\ backlog \in Seq(Opens)

Init ==
  /\ list = {}
  /\ nextId = 0
  /\ opening = {}
  /\ started = [o \in Creates |-> FALSE]
  /\ canceled = [o \in Ops |-> "no"]
  /\ io = [o \in Ops |-> "none"]
  /\ socket = [o \in Opens |-> "none"]
  /\ timer = [o \in Ops |-> FALSE]
  /\ result = [o \in Ops |-> "idle"]
  /\ settled = [o \in Ops |-> 0]
  /\ after = [o \in Ops |-> "none"]
  /\ backlog = <<>>

-----------------------------------------------------------------------------
(* Promises.                                                               *)

\* set_value on the promises of a set of operations; their continuations are posted
Complete(S, r(_)) ==
  /\ result' = [o \in Ops |-> IF o \in S THEN r(o) ELSE result[o]]
  /\ settled' = [o \in Ops |-> IF o \in S /\ settled[o] < 2 THEN settled[o] + 1 ELSE settled[o]]
  /\ after' = [o \in Ops |-> IF o \in S THEN "posted" ELSE after[o]]

CancelResult(how) == IF how = "timer" THEN "timeout" ELSE "canceled"

\* A call: the promise exists, and the timer if there is a timeout
Begin(o) ==
  /\ result[o] = "idle"
  /\ result' = [result EXCEPT ![o] = "pending"]
  /\ timer' = [timer EXCEPT ![o] = o \in TimedOps]

-----------------------------------------------------------------------------
(* The server.                                                             *)

\* The list's back()
Oldest(ops) == CHOOSE o \in ops : \A p \in ops : Id(o) <= Id(p)

\* create_pipe
CreatePipe(o) ==
  /\ Id(o) = nextId
  /\ nextId' = nextId + 1
  /\ Begin(o)
  /\ list' = list \cup {o}
  /\ started' = [started EXCEPT ![o] = (list = {})]
  /\ io' = [io EXCEPT ![o] = IF list = {} THEN "waiting" ELSE @]
  /\ UNCHANGED <<opening, canceled, socket, settled, after, backlog>>

\* The listening socket completes an accept, with the oldest connection or an error
Accept(o) ==
  /\ io[o] = "waiting"
  /\ \/ backlog # <<>> /\ io' = [io EXCEPT ![o] = "ok"] /\ backlog' = Tail(backlog)
     \/ io' = [io EXCEPT ![o] = "error"] /\ UNCHANGED backlog
  /\ UNCHANGED <<list, nextId, opening, started, canceled, socket, timer, result, settled, after>>

\* The handler of async_accept; set_option may fail on a new socket
AcceptHandler(o) ==
  /\ io[o] \in {"ok", "error"}
  /\ io' = [io EXCEPT ![o] = "none"]
  /\ \E r \in IF canceled[o] # "no" THEN {CancelResult(canceled[o])}
              ELSE IF io[o] = "error" THEN {"failed"} ELSE {"success", "failed"} :
       Complete({o}, LAMBDA p : r)
  /\ UNCHANGED <<list, nextId, opening, started, canceled, socket, timer, backlog>>

\* create_operation::start on the oldest of a list
StartOldest(ops) ==
  /\ started' = [p \in Creates |-> started[p] \/ (ops # {} /\ p = Oldest(ops))]
  /\ io' = [p \in Ops |-> IF ops # {} /\ p = Oldest(ops) THEN "waiting" ELSE io[p]]

\* Mutant of OnCompleted: an operation that has left the list takes the oldest with it
OnCompletedAlways(o) ==
  /\ after[o] = "posted"
  /\ after' = [after EXCEPT ![o] = "over"]
  /\ IF list # {}
     THEN /\ timer' = [timer EXCEPT ![o] = FALSE]
          /\ list' = list \ {Oldest(list)}
          /\ StartOldest(list')
     ELSE UNCHANGED <<timer, list, started, io>>
  /\ UNCHANGED <<nextId, opening, canceled, socket, result, settled, backlog>>

\* Mutant of OnCompleted: the next one is not started
OnCompletedAlone(o) ==
  /\ after[o] = "posted"
  /\ after' = [after EXCEPT ![o] = "over"]
  /\ IF list # {} /\ o = Oldest(list)
     THEN timer' = [timer EXCEPT ![o] = FALSE] /\ list' = list \ {o}
     ELSE UNCHANGED <<timer, list>>
  /\ UNCHANGED <<nextId, opening, started, canceled, io, socket, result, settled, backlog>>

\* on_completed: the oldest leaves the list and the next one is started
OnCompleted(o) ==
  /\ after[o] = "posted"
  /\ after' = [after EXCEPT ![o] = "over"]
  /\ IF list # {} /\ o = Oldest(list)
     THEN /\ timer' = [timer EXCEPT ![o] = FALSE]
          /\ list' = list \ {o}
          /\ StartOldest(list \ {o})
     ELSE UNCHANGED <<timer, list, started, io>>
  /\ UNCHANGED <<nextId, opening, canceled, socket, result, settled, backlog>>

\* create_operation::cancel on a set of listed operations: the accept under way is aborted
\* (acceptor.cancel), operations that have not been started complete at once
CancelCreates(S, how) ==
  LET hit == {o \in S : canceled[o] = "no"}
      atOnce == {o \in hit : ~started[o]}
  IN  /\ canceled' = [o \in Ops |-> IF o \in hit THEN how ELSE canceled[o]]
      /\ io' = [o \in Ops |-> IF o \in Creates /\ io[o] = "waiting" /\ hit # atOnce
                               THEN "error" ELSE io[o]]
      /\ list' = {o \in list : o \notin S \/ o = Oldest(list)}
      /\ Complete(atOnce, LAMBDA o : CancelResult(how))

\* on_timeout: the operation may have left the list
OnTimeout(o) ==
  /\ timer[o]
  /\ timer' = [timer EXCEPT ![o] = FALSE]
  /\ IF o \in list
     THEN CancelCreates({o}, "timer")
     ELSE UNCHANGED <<canceled, io, list, result, settled, after>>
  /\ UNCHANGED <<nextId, opening, started, socket, backlog>>

\* cancel_pending_server_endpoints of one client id, or of all (also by the destructor)
CancelPendingServer(S) ==
  LET mine == {o \in list : Client(o) \in S}
  IN  /\ mine # {}
      /\ timer' = [o \in Ops |-> timer[o] /\ o \notin mine]
      /\ CancelCreates(mine, "user")
      /\ UNCHANGED <<nextId, opening, started, socket, backlog>>

-----------------------------------------------------------------------------
(* The client.                                                             *)

\* open_pipe and open_operation::start, under m_mtx so that no cancel comes between;
\* opening the socket or setting its options may fail
OpenPipe(o) ==
  /\ result[o] = "idle"
  /\ timer' = [timer EXCEPT ![o] = o \in TimedOps]
  /\ opening' = opening \cup {o}
  /\ \/ /\ result' = [result EXCEPT ![o] = "pending"]
        /\ io' = [io EXCEPT ![o] = "waiting"]
        /\ socket' = [socket EXCEPT ![o] = "open"]
        /\ UNCHANGED <<settled, after>>
     \/ /\ Complete({o}, LAMBDA p : "failed")
        /\ UNCHANGED <<io, socket>>
  /\ UNCHANGED <<list, nextId, started, canceled, backlog>>

\* The connection is established, in the backlog of the server, or is refused
Connect(o) ==
  /\ io[o] = "waiting"
  /\ \/ io' = [io EXCEPT ![o] = "ok"] /\ backlog' = Append(backlog, o)
     \/ io' = [io EXCEPT ![o] = "error"] /\ UNCHANGED backlog
  /\ UNCHANGED <<list, nextId, opening, started, canceled, socket, timer, result, settled, after>>

\* The handler of async_connect
ConnectHandler(o) ==
  /\ io[o] \in {"ok", "error"}
  /\ io' = [io EXCEPT ![o] = "none"]
  /\ Complete({o}, LAMBDA p : CASE canceled[o] # "no" -> CancelResult(canceled[o])
                                [] canceled[o] = "no" /\ io[o] = "error" -> "failed"
                                [] OTHER -> "success")
  /\ UNCHANGED <<list, nextId, opening, started, canceled, socket, timer, backlog>>

\* Mutant of CancelOpens: the socket is closed although an endpoint has it
CancelOpensAlways(S, how) ==
  LET hit == {o \in S : canceled[o] = "no"}
  IN  /\ canceled' = [o \in Ops |-> IF o \in hit THEN how ELSE canceled[o]]
      /\ socket' = [o \in Opens |-> IF o \in hit /\ socket[o] = "open" THEN "closed" ELSE socket[o]]
      /\ io' = [o \in Ops |-> IF o \in hit /\ io[o] = "waiting" THEN "error" ELSE io[o]]

\* open_operation::cancel: the socket is closed unless an endpoint has it
CancelOpens(S, how) ==
  LET hit == {o \in S : canceled[o] = "no"}
      mine == {o \in hit : socket[o] = "open" /\ result[o] # "success"}
  IN  /\ canceled' = [o \in Ops |-> IF o \in hit THEN how ELSE canceled[o]]
      /\ socket' = [o \in Opens |-> IF o \in mine THEN "closed" ELSE socket[o]]
      /\ io' = [o \in Ops |-> IF o \in mine /\ io[o] = "waiting" THEN "error" ELSE io[o]]

\* The timer of an open_pipe
OpenTimeout(o) ==
  /\ timer[o]
  /\ timer' = [timer EXCEPT ![o] = FALSE]
  /\ CancelOpens({o} \cap opening, "timer")
  /\ UNCHANGED <<list, nextId, opening, started, result, settled, after, backlog>>

\* cancel_pending_client_endpoints of one client id, or of all
CancelPendingClient(S) ==
  LET mine == {o \in opening : Client(o) \in S}
  IN  /\ mine # {}
      /\ CancelOpens(mine, "user")
      /\ UNCHANGED <<list, nextId, opening, started, timer, result, settled, after, backlog>>

\* The "finally" of open_pipe
OpenCompleted(o) ==
  /\ after[o] = "posted"
  /\ after' = [after EXCEPT ![o] = "over"]
  /\ timer' = [timer EXCEPT ![o] = FALSE]
  /\ opening' = opening \ {o}
  /\ UNCHANGED <<list, nextId, started, canceled, io, socket, result, settled, backlog>>

-----------------------------------------------------------------------------
CreateStep(o) == AcceptHandler(o) \/ OnCompleted(o) \/ OnTimeout(o)
OpenStep(o) == ConnectHandler(o) \/ OpenCompleted(o) \/ OpenTimeout(o)
Scopes == {{c} : c \in Clients} \cup {Clients}

Next ==
  \/ \E o \in Creates : CreatePipe(o) \/ Accept(o) \/ CreateStep(o)
  \/ \E o \in Opens : OpenPipe(o) \/ Connect(o) \/ OpenStep(o)
  \/ \E S \in Scopes : CancelPendingServer(S) \/ CancelPendingClient(S)

Spec == Init /\ [][Next]_tcpEnvVars

\* asio runs the handlers, the pool the continuations, timers expire, and an accept takes
\* a connection that waits; a connect need not end by itself.
Fairness ==
  /\ \A o \in Creates :
       /\ WF_tcpEnvVars(CreateStep(o))
       /\ WF_tcpEnvVars(backlog # <<>> /\ Accept(o))
  /\ \A o \in Opens : WF_tcpEnvVars(OpenStep(o))

-----------------------------------------------------------------------------
(* Properties.                                                             *)

\* There is one accept at most, so that canceling it hits nobody else; it belongs to the
\* oldest wait, whose end will start the next; and that one has been neither started nor
\* canceled, as create_operation::start() asserts.
AcceptsAreDriven ==
  /\ \A o, p \in Creates : io[o] # "none" /\ io[p] # "none" => o = p
  /\ \A o \in list :
       IF o = Oldest(list)
       THEN started[o] /\ ((io[o] = "none") <=> after[o] = "posted")
       ELSE ~started[o] /\ canceled[o] = "no" /\ result[o] = "pending"
  /\ \A o \in Creates : result[o] = "pending" => o \in list

\* A wait ends once, whichever of its handler, timer and cancelation comes first; a pipe
\* that was handed out is not closed by a late cancel, and a canceled wait hands out none.
PipesAreHandedOutOnce ==
  /\ \A o \in Ops : settled[o] <= 1 /\ (settled[o] = 1 <=> result[o] \in Done)
  /\ \A o \in Opens :
       /\ result[o] = "success" => socket[o] = "open"
       /\ result[o] \in {"timeout", "canceled"} => socket[o] = "closed"

\* Waits that should end, and the create_pipe that is over but still the oldest of the list
Due ==
  {o \in Ops :
     \/ result[o] = "pending" /\ (timer[o] \/ canceled[o] # "no")
     \/ /\ list # {} /\ o = Oldest(list)
        /\ backlog # <<>> \/ result[o] \in Done}

\* A wait with a timeout and a canceled wait end; so does the oldest wait of the server when
\* a connection is there, and then it is the next one's turn.
TcpWaitsEnd == []<>(Due = {})

=============================================================================
