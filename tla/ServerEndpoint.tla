--------------------------- MODULE ServerEndpoint ----------------------------
(***************************************************************************)
(* A server: rpc::server_endpoint (rpc-lib/rpc-lib/server-endpoint.h) and  *)
(* the server_connector it owns.                                           *)
(*                                                                         *)
(* The connector's notify strand hands each connection to                  *)
(* process_new_connection, which keeps an endpoint for it; the pipe's      *)
(* disconnect callback takes the endpoint out again.  The user is told of  *)
(* both through a strand per connection.  Destruction finalizes, then      *)
(* releases the implementation, whose connector stops.                     *)
(*                                                                         *)
(* A step is a critical section of m_mtx or a task of the pool.  Of a      *)
(* connection only its pipe counts here: up, or down for good.             *)
(***************************************************************************)
EXTENDS ServerConnector

VARIABLES
  owner,       \* the server_endpoint object: alive, finalized, released
  endpoints,   \* keys of m_endpoints_map
  pipe,        \* the pipe under a connection
  disconnect,  \* the disconnect callback of a connection and its continuation
  connStrand,  \* the strand of a connection
  seen         \* what on_connection_change was called with, per connection

endpointVars == <<owner, endpoints, pipe, disconnect, connStrand, seen>>
vars == <<connectorVars, endpointVars>>

Destructor == "destructor"   \* the stop() of ~server_connector
ASSUME DestructorStops == Destructor \in Stoppers

States == {"connected", "disconnected"}

TypeOK ==
  /\ ConnectorTypeOK
  /\ owner \in {"alive", "finalized", "released"}
  /\ endpoints \subseteq Ids
  /\ pipe \in [Ids -> {"up", "down"}]
  /\ disconnect \in [Ids -> {"none", "stored", "posted", "promised", "over"}]
  /\ connStrand \in [Ids -> Seq(States)]
  /\ seen \in [Ids -> Seq(States)]

Init ==
  /\ ConnectorInit
  /\ owner = "alive"
  /\ endpoints = {}
  /\ pipe = [c \in Ids |-> "up"]
  /\ disconnect = [c \in Ids |-> "none"]
  /\ connStrand = [c \in Ids |-> <<>>]
  /\ seen = [c \in Ids |-> <<>>]

-----------------------------------------------------------------------------
\* The pipes of a set of connections go down: a stored disconnect callback is posted
GoDown(S) ==
  /\ pipe' = [c \in Ids |-> IF c \in S THEN "down" ELSE pipe[c]]
  /\ disconnect' = [c \in Ids |-> IF c \in S /\ disconnect[c] = "stored" THEN "posted" ELSE disconnect[c]]

\* Mutant of ProcessNewConnection: the callback is stored in a pipe that is down already
ProcessNewConnectionStores(c) ==
  IF owner = "alive"
  THEN /\ disconnect' = [disconnect EXCEPT ![c] = "stored"]
       /\ endpoints' = endpoints \cup {c}
       /\ connStrand' = [connStrand EXCEPT ![c] = Append(@, "connected")]
       /\ UNCHANGED pipe
  ELSE GoDown({c}) /\ UNCHANGED <<endpoints, connStrand>>

\* process_new_connection; a connection that comes during or after destruction is dropped
ProcessNewConnection(c) ==
  IF owner = "alive"
  THEN /\ disconnect' = [disconnect EXCEPT ![c] = IF pipe[c] = "up" THEN "stored" ELSE "posted"]
       /\ endpoints' = endpoints \cup {c}
       /\ connStrand' = [connStrand EXCEPT ![c] = Append(@, "connected")]
       /\ UNCHANGED pipe
  ELSE GoDown({c}) /\ UNCHANGED <<endpoints, connStrand>>

\* A task of the connector's strand, with what the callbacks of server_endpoint do
RunNotification ==
  /\ Notify
  /\ IF Head(strand).kind = "connection"
     THEN ProcessNewConnection(Head(strand).of)
     ELSE UNCHANGED <<endpoints, pipe, disconnect, connStrand>>
  /\ UNCHANGED <<owner, seen>>

\* The peer closes the pipe of an established connection, or the watcher gives it up
PipeIsLost(c) ==
  /\ pipe[c] = "up"
  /\ c \in endpoints \/ \E i \in 1 .. Len(strand) : strand[i] = NewConnection(c)
  /\ GoDown({c})
  /\ UNCHANGED <<connectorVars, owner, endpoints, connStrand, seen>>

\* The posted disconnect callback sets disconnect_promise
RunDisconnectCallback(c) ==
  /\ disconnect[c] = "posted"
  /\ disconnect' = [disconnect EXCEPT ![c] = "promised"]
  /\ UNCHANGED <<connectorVars, owner, endpoints, pipe, connStrand, seen>>

\* Mutant of OnDisconnect: the user is told, the endpoint stays
OnDisconnectKeepsEndpoint(c) ==
  /\ disconnect[c] = "promised"
  /\ disconnect' = [disconnect EXCEPT ![c] = "over"]
  /\ connStrand' = [connStrand EXCEPT ![c] = Append(@, "disconnected")]
  /\ UNCHANGED <<connectorVars, owner, endpoints, pipe, seen>>

\* Mutant of OnDisconnect: nothing is told once the implementation is gone
OnDisconnectWhileAlive(c) ==
  /\ disconnect[c] = "promised"
  /\ disconnect' = [disconnect EXCEPT ![c] = "over"]
  /\ IF owner = "released"
     THEN UNCHANGED <<endpoints, connStrand>>
     ELSE /\ endpoints' = endpoints \ {c}
          /\ connStrand' = [connStrand EXCEPT ![c] = Append(@, "disconnected")]
  /\ UNCHANGED <<connectorVars, owner, pipe, seen>>

\* The continuation of the disconnect future: remove_endpoint_from_map, if the
\* implementation is still there, and the notification, in any case
OnDisconnect(c) ==
  /\ disconnect[c] = "promised"
  /\ disconnect' = [disconnect EXCEPT ![c] = "over"]
  /\ endpoints' = IF owner = "released" THEN endpoints ELSE endpoints \ {c}
  /\ connStrand' = [connStrand EXCEPT ![c] = Append(@, "disconnected")]
  /\ UNCHANGED <<connectorVars, owner, pipe, seen>>

\* A task of a connection's strand calls on_connection_change
TellUser(c) ==
  /\ connStrand[c] # <<>>
  /\ seen' = [seen EXCEPT ![c] = Append(@, Head(connStrand[c]))]
  /\ connStrand' = [connStrand EXCEPT ![c] = Tail(@)]
  /\ UNCHANGED <<connectorVars, owner, endpoints, pipe, disconnect>>

\* finalize(), the body of ~server_endpoint
Finalize ==
  /\ owner = "alive"
  /\ owner' = "finalized"
  /\ GoDown(endpoints)
  /\ UNCHANGED <<connectorVars, endpoints, connStrand, seen>>

\* The last reference to impl goes: the map is destroyed, then the connector, which
\* begins by calling stop()
Release ==
  /\ owner = "finalized"
  /\ owner' = "released"
  /\ GoDown(endpoints)
  /\ endpoints' = {}
  /\ BeginStop(Destructor)
  /\ UNCHANGED <<connStrand, seen>>

\* start_listening and stop_listening
StartListening == owner = "alive" /\ Start
StopListening(s) == owner = "alive" /\ s # Destructor /\ BeginStop(s)

\* Steps of the connector that do not call back
ConnectorStep ==
  /\ \/ StartListening
     \/ \E s \in Stoppers : StopListening(s) \/ EndStop(s)
     \/ Background
  /\ UNCHANGED endpointVars

EndpointStep ==
  \/ \E c \in Ids : RunDisconnectCallback(c) \/ OnDisconnect(c) \/ TellUser(c)
  \/ Release

Next ==
  \/ ConnectorStep
  \/ RunNotification
  \/ EndpointStep
  \/ Finalize
  \/ \E c \in Ids : PipeIsLost(c)

Spec == Init /\ [][Next]_vars

\* The pool runs what is posted, a call of the library returns, a destructor goes on.
\* Nobody has to call the server, and no pipe has to connect, fail or be lost.
Fairness ==
  /\ WF_vars(RunNotification)
  /\ WF_vars(EndpointStep)
  /\ WF_vars(/\ \E s \in Stoppers : EndStop(s)
             /\ UNCHANGED endpointVars)
  /\ \A c \in Ids : WF_vars((OnPipe(c) \/ OnPipeFailure(c)) /\ UNCHANGED endpointVars)

FairSpec == Spec /\ Fairness

-----------------------------------------------------------------------------
(* Properties.                                                             *)

\* make_request before it forwards to the endpoint of a connection
MakeRequest(c) ==
  IF c \notin endpoints \/ pipe[c] = "down" THEN "no_connection" ELSE "forwarded"

\* on_connection_change and make_request agree.  A connection is announced once and its
\* end once, after it; while the user knows of a connection that is up requests reach
\* it, and once its end was told they do not.
RequestsFollowNotifications ==
  \A c \in Ids :
    /\ seen[c] \in {<<>>, <<"connected">>, <<"connected", "disconnected">>}
    /\ seen[c] = <<"connected">> /\ pipe[c] = "up" => MakeRequest(c) = "forwarded"
    /\ seen[c] = <<"connected", "disconnected">> => c \notin endpoints

\* No endpoint outlives its connection: one whose pipe is down, even if it went down
\* before process_new_connection ran, is about to be taken out of the map.
NoStaleEndpoint ==
  \A c \in endpoints : pipe[c] = "down" => disconnect[c] \in {"posted", "promised"}

\* The server's user, its endpoints and the pipes agree: requests reach a connection exactly
\* between its two notifications, and no endpoint outlives its connection.
ConnectionsAreReported == TypeOK /\ RequestsFollowNotifications /\ NoStaleEndpoint

\* Everything was told: the last "stopped" and, for each connection the user knows of,
\* "disconnected"
AllReported == told = NoRun /\ endpoints = {} /\ \A c \in Ids : seen[c] # <<"connected">>

\* A server that is destroyed reports everything to its end.
DestructionIsReported == []<>(owner # "alive" => AllReported)

\* Waits that failed while their run is open, or was not reported as stopped
FailuresToReport == {c \in Ids : stage[c] \in {"refused", "failed"} /\ (Running(run[c]) \/ told = run[c])}

\* A pipe that cannot be had ends the run, and the user is told.
FailedWaitStopsRun == []<>(FailuresToReport = {})

=============================================================================
