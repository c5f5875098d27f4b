--------------------------- MODULE ClientEndpoint ----------------------------
(***************************************************************************)
(* A client: rpc::client_endpoint (rpc-lib/rpc-lib/client-endpoint.h), the *)
(* client_connector it owns (internal/connector/client-connector.cpp) and  *)
(* the server's half of the handshake (server-connector.cpp).              *)
(*                                                                         *)
(* connect_async opens a pipe, writes a request, reads the response and    *)
(* installs the connection as m_endpoint, in the place of the one before.  *)
(* Each half waits at most handshake_timeout and gives its pipe up when    *)
(* anything fails.  Continuations hold weak references to the client, so   *)
(* destruction makes what is still under way fail.                         *)
(*                                                                         *)
(* A step is a critical section of m_mtx, a continuation, or the           *)
(* completion of a pipe operation with its continuation.                   *)
(***************************************************************************)
EXTENDS Naturals

CONSTANTS
  Connects,    \* calls of connect_async
  NoConnect

VARIABLES
  alive,       \* the client_endpoint object
  call,        \* a connect_async call: what it waits for
  server,      \* the server's half of its handshake
  request,     \* the request in the pipe, by what check_request says of it
  response,    \* the response is in the pipe
  pipe,        \* the pipe of a call
  endpoint,    \* m_endpoint
  disconnect   \* the disconnect promise of an installed connection

clientVars == <<alive, call, server, request, response, pipe, endpoint, disconnect>>

Calling == {"opening", "writing", "reading", "installing"}

TypeOK ==
  /\ alive \in BOOLEAN
  /\ call \in [Connects -> {"idle", "connected", "failed"} \cup Calling]
  /\ server \in [Connects -> {"none", "reading", "writing", "accepted", "refused"}]
  /\ request \in [Connects -> {"none", "good", "bad"}]
  /\ response \in [Connects -> BOOLEAN]
  /\ pipe \in [Connects -> {"none", "up", "down"}]
  /\ endpoint \in Connects \cup {NoConnect}
  /\ disconnect \in [Connects -> {"none", "stored", "posted", "set"}]

Init ==
  /\ alive = TRUE
  /\ call = [a \in Connects |-> "idle"]
  /\ server = [a \in Connects |-> "none"]
  /\ request = [a \in Connects |-> "none"]
  /\ response = [a \in Connects |-> FALSE]
  /\ pipe = [a \in Connects |-> "none"]
  /\ endpoint = NoConnect
  /\ disconnect = [a \in Connects |-> "none"]

-----------------------------------------------------------------------------
\* The pipe of a call goes down, from either side; a stored callback is posted
Down(a) ==
  /\ pipe' = [pipe EXCEPT ![a] = "down"]
  /\ disconnect' = [disconnect EXCEPT ![a] = IF @ = "stored" THEN "posted" ELSE @]

\* Whoever throws in the handshake lets go of the pipe
FailCall(a) == call' = [call EXCEPT ![a] = "failed"] /\ Down(a)
Refuse(a) == server' = [server EXCEPT ![a] = "refused"] /\ Down(a)

ConnectAsync(a) ==
  /\ alive
  /\ call[a] = "idle"
  /\ call' = [call EXCEPT ![a] = "opening"]
  /\ UNCHANGED <<alive, server, request, response, pipe, endpoint, disconnect>>

\* open_pipe succeeds, and so does create_pipe at the server; the continuation writes
\* the request, unless the connector is gone
PipeOpens(a) ==
  /\ call[a] = "opening"
  /\ server' = [server EXCEPT ![a] = "reading"]
  /\ IF alive
     THEN /\ call' = [call EXCEPT ![a] = "writing"]
          /\ pipe' = [pipe EXCEPT ![a] = "up"]
          /\ UNCHANGED disconnect
     ELSE FailCall(a)
  /\ UNCHANGED <<alive, request, response, endpoint>>

\* open_pipe times out, fails, or is canceled by ~client_connector
PipeDoesNotOpen(a) ==
  /\ call[a] = "opening"
  /\ call' = [call EXCEPT ![a] = "failed"]
  /\ UNCHANGED <<alive, server, request, response, pipe, endpoint, disconnect>>

\* write_async of the request completes
RequestWritten(a) ==
  /\ call[a] = "writing"
  /\ \E r \in {"good", "bad"} :
       IF alive /\ pipe[a] = "up"
       THEN /\ call' = [call EXCEPT ![a] = "reading"]
            /\ request' = [request EXCEPT ![a] = r]
            /\ UNCHANGED <<pipe, disconnect>>
       ELSE FailCall(a) /\ UNCHANGED request
  /\ UNCHANGED <<alive, server, response, endpoint>>

\* Mutant of CheckRequest: the answer does not depend on check_request
AnswerAnyRequest(a) ==
  server' = [server EXCEPT ![a] = "writing"] /\ UNCHANGED <<pipe, disconnect>>

\* The server has read a request: check_request, then write_async of the response
CheckRequest(a) ==
  IF request[a] = "good"
  THEN server' = [server EXCEPT ![a] = "writing"] /\ UNCHANGED <<pipe, disconnect>>
  ELSE Refuse(a)

\* What was sent before the pipe went down may still arrive, or not
ServerReads(a) ==
  /\ server[a] = "reading"
  /\ \/ pipe[a] = "down" /\ Refuse(a)
     \/ request[a] # "none" /\ CheckRequest(a)
  /\ UNCHANGED <<alive, call, request, response, endpoint>>

ServerWrites(a) ==
  /\ server[a] = "writing"
  /\ \/ pipe[a] = "down" /\ Refuse(a) /\ UNCHANGED response
     \/ /\ server' = [server EXCEPT ![a] = "accepted"]
        /\ response' = [response EXCEPT ![a] = TRUE]
        /\ UNCHANGED <<pipe, disconnect>>
  /\ UNCHANGED <<alive, call, request, endpoint>>

\* read_async of the response, then authenticator->check_response
ResponseRead(a, approved) ==
  /\ call[a] = "reading"
  /\ response[a] \/ pipe[a] = "down"
  /\ IF alive /\ response[a] /\ approved
     THEN call' = [call EXCEPT ![a] = "installing"] /\ UNCHANGED <<pipe, disconnect>>
     ELSE FailCall(a)
  /\ UNCHANGED <<alive, server, request, response, endpoint>>

\* handshake_timeout passes at the client or at the server
CallTimesOut(a) ==
  /\ call[a] \in {"writing", "reading"}
  /\ FailCall(a)
  /\ UNCHANGED <<alive, server, request, response, endpoint>>

\* A response whose write timed out may have been sent all the same
ServerTimesOut(a) ==
  /\ server[a] \in {"reading", "writing"}
  /\ Refuse(a)
  /\ \E sent \in {FALSE, server[a] = "writing"} : response' = [response EXCEPT ![a] = sent]
  /\ UNCHANGED <<alive, call, request, endpoint>>

-----------------------------------------------------------------------------
\* An endpoint is destroyed: its connection is deactivated
Drop(b) == IF b = NoConnect THEN UNCHANGED <<pipe, disconnect>> ELSE Down(b)

\* Mutant of InstallOver: the connection that is replaced is not closed
InstallBeside(a, b) ==
  /\ disconnect' = [disconnect EXCEPT ![a] = IF pipe[a] = "up" THEN "stored" ELSE "posted"]
  /\ UNCHANGED pipe

\* The connection of the previous endpoint is dropped; set_disconnect_callback runs the
\* callback at once if the pipe is down already
InstallOver(a, b) ==
  LET stored == IF pipe[a] = "up" THEN "stored" ELSE "posted"
  IN  IF b = NoConnect
      THEN disconnect' = [disconnect EXCEPT ![a] = stored] /\ UNCHANGED pipe
      ELSE /\ pipe' = [pipe EXCEPT ![b] = "down"]
           /\ disconnect' = [disconnect EXCEPT ![a] = stored,
                                               ![b] = IF @ = "stored" THEN "posted" ELSE @]

\* establish_endpoint, in the last continuation of connect_async
EstablishEndpoint(a) ==
  /\ call[a] = "installing"
  /\ IF alive
     THEN /\ call' = [call EXCEPT ![a] = "connected"]
          /\ endpoint' = a
          /\ InstallOver(a, endpoint)
     ELSE FailCall(a) /\ UNCHANGED endpoint
  /\ UNCHANGED <<alive, server, request, response>>

\* disconnect()
Disconnect ==
  /\ alive
  /\ endpoint # NoConnect
  /\ Drop(endpoint)
  /\ endpoint' = NoConnect
  /\ UNCHANGED <<alive, call, server, request, response>>

\* Mutant of Destroy: the connection outlives the client
DestroyLeaving ==
  /\ alive
  /\ alive' = FALSE
  /\ endpoint' = NoConnect
  /\ UNCHANGED <<call, server, request, response, pipe, disconnect>>

\* The last reference to impl goes: m_endpoint is destroyed; ~client_connector cancels
\* the pipes being opened, which PipeDoesNotOpen completes
Destroy ==
  /\ alive
  /\ alive' = FALSE
  /\ Drop(endpoint)
  /\ endpoint' = NoConnect
  /\ UNCHANGED <<call, server, request, response>>

\* The peer goes away
PipeIsLost(a) ==
  /\ pipe[a] = "up"
  /\ Down(a)
  /\ UNCHANGED <<alive, call, server, request, response, endpoint>>

\* The posted disconnect callback resolves the disconnect future
RunDisconnectCallback(a) ==
  /\ disconnect[a] = "posted"
  /\ disconnect' = [disconnect EXCEPT ![a] = "set"]
  /\ UNCHANGED <<alive, call, server, request, response, pipe, endpoint>>

\* What the pool, the pipes and the timers bring about
Progress(a) ==
  \/ PipeDoesNotOpen(a) \/ RequestWritten(a) \/ ServerReads(a) \/ ServerWrites(a)
  \/ \E approved \in BOOLEAN : ResponseRead(a, approved)
  \/ CallTimesOut(a) \/ ServerTimesOut(a)
  \/ EstablishEndpoint(a)
  \/ RunDisconnectCallback(a)

Next ==
  \/ \E a \in Connects : ConnectAsync(a) \/ PipeOpens(a) \/ PipeIsLost(a) \/ Progress(a)
  \/ Disconnect
  \/ Destroy

Spec == Init /\ [][Next]_clientVars

\* A call waits for its pipe at most pipe_waiting_timeout and for each message at most
\* handshake_timeout, and the pool runs what is posted.
Fairness == \A a \in Connects : WF_clientVars(Progress(a))

-----------------------------------------------------------------------------
(* Properties.                                                             *)

\* A client that holds a connection was let in by check_request, and its server accepted
\* the connection too or has closed the pipe, whichever half times out, fails or is
\* destroyed on the way.
ConnectedMeansAccepted ==
  \A a \in Connects :
    call[a] \in {"installing", "connected"} =>
      request[a] = "good" /\ (server[a] = "accepted" \/ pipe[a] = "down")

\* make_request and is_connected: what they find under m_mtx
MakeRequest ==
  IF endpoint = NoConnect \/ pipe[endpoint] = "down" THEN "no_connection" ELSE "forwarded"

\* There is one connection at most: an installed one that was replaced, disconnected or
\* destroyed is closed, and the disconnect future of a closed one is resolved or about to
\* be, even if its pipe was lost before it was installed; requests only go to the
\* connection whose disconnect future is open.
ReplacedConnectionsClose ==
  /\ \A a \in Connects :
       call[a] = "connected" =>
         /\ a # endpoint => pipe[a] = "down"
         /\ pipe[a] = "down" <=> disconnect[a] \in {"posted", "set"}
  /\ MakeRequest = "forwarded" => disconnect[endpoint] = "stored"

\* Calls under way, and the connections of a client that is gone
Due ==
  {a \in Connects : call[a] \in Calling \/ (~alive /\ call[a] = "connected" /\ disconnect[a] # "set")}

\* connect_async always completes, and when the client is gone every disconnect future
\* it handed out resolves.
ClientFuturesResolve == []<>(Due = {})

=============================================================================
