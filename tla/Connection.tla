----------------------------- MODULE Connection ------------------------------
(***************************************************************************)
(* One side of an rpc connection: rpc::internal::connection, its transport *)
(* and its connection_watcher                                              *)
(* (connection and transport under rpc-lib/rpc-lib/internal).              *)
(*                                                                         *)
(* The threads that interleave are: callers of request_async and           *)
(* deactivate (serialised by m_mtx), the receive continuation, the         *)
(* continuations of sends, the timers of requests and the watcher timer    *)
(* (each takes only the lock of the map or of the watcher), and whoever    *)
(* closes the pipe.                                                        *)
(*                                                                         *)
(* The pipe endpoint is seen through ipipe_endpoint.  Its two directions   *)
(* and its connected flag go down in the order CloseOrder:                 *)
(*   "together"    under one lock (tcp, win);                              *)
(*   "writesFirst" the client end of the in-process pipe;                  *)
(*   "readsFirst"  the server end of the in-process pipe.                  *)
(* MemBuffers!CloseOrder is where the last two come from.                  *)
(***************************************************************************)
EXTENDS Naturals, FiniteSets

CONSTANTS
  Requests,       \* message numbers of request_async calls
  PeerRequests,   \* requests the peer may send
  HasService,     \* m_service is not null
  CloseOrder

ASSUME CloseOrderAssumption == CloseOrder \in {"together", "writesFirst", "readsFirst"}
ASSUME RequestsAssumption == "free" \notin Requests /\ "closing" \notin Requests

VARIABLES
  state,          \* m_state
  mtx,            \* holder of m_mtx between two steps: a request, "closing" or "free"
  readOpen, writeOpen, connected,  \* the pipe endpoint
  closing,        \* progress of invalidate, per closer of the pipe
  result,         \* the promise of a request, as its caller sees it
  inMap, isReqSent, failReqResult, \* m_request_map
  timer,          \* entry of m_multiple_timer
  send,           \* the write of a request, and its continuation
  atPeer,         \* how far a request got at the peer
  recv,           \* the outstanding read, or the continuation posted for it
  peerRequest,    \* a request of the peer and the response to it
  activityFlag, pingWaiting, \* m_watcher
  pinged,         \* a ping is on its way to the peer and not answered
  watchTimer      \* m_watcher_timer

pipeVars == <<readOpen, writeOpen, connected, closing>>
mapVars == <<inMap, isReqSent, failReqResult>>
watcherVars == <<activityFlag, pingWaiting, pinged, watchTimer>>
vars == <<state, mtx, pipeVars, result, mapVars, timer, send, atPeer, recv,
          peerRequest, watcherVars>>

Closers == {"self", "peer"}
SendResult == {"success", "timeout", "canceled", "failed"}
Settled == {"ok", "timeout", "canceled", "failed", "send_timeout", "send_canceled", "send_failed"}
Messages == [type : {"res"}, number : Requests] \cup [type : {"req"}, number : PeerRequests]
              \cup [type : {"ping", "pong", "malformed"}]

TypeOK ==
  /\ state \in {"never_started", "started", "deactivated"}
  /\ mtx \in Requests \cup {"free", "closing"}
  /\ readOpen \in BOOLEAN /\ writeOpen \in BOOLEAN /\ connected \in BOOLEAN
  /\ closing \in [Closers -> {"no", "first", "second", "flag", "done"}]
  /\ result \in [Requests -> {"idle", "pending"} \cup Settled]
  /\ inMap \in [Requests -> BOOLEAN]
  /\ isReqSent \in [Requests -> BOOLEAN]
  /\ failReqResult \in [Requests -> {"none", "canceled", "failed"}]
  /\ timer \in [Requests -> {"none", "armed", "expired"}]
  /\ send \in [Requests -> {"none", "writing", "handled"} \cup SendResult]
  /\ atPeer \in [Requests -> {"no", "delivered", "answered"}]
  /\ recv \in [kind : {"off", "reading", "canceled", "failed", "ended"}]
                \cup [kind : {"message"}, message : Messages]
  /\ peerRequest \in [PeerRequests -> {"none", "received", "processing", "responded", "ignored"}]
  /\ activityFlag \in BOOLEAN /\ pinged \in BOOLEAN
  /\ pingWaiting \in {"no", "waiting", "overdue"}
  /\ watchTimer \in {"off", "on", "stopping"}

Init ==
  /\ state = "never_started"
  /\ mtx = "free"
  /\ readOpen = TRUE /\ writeOpen = TRUE /\ connected = TRUE
  /\ closing = [c \in Closers |-> "no"]
  /\ result = [q \in Requests |-> "idle"]
  /\ inMap = [q \in Requests |-> FALSE]
  /\ isReqSent = [q \in Requests |-> FALSE]
  /\ failReqResult = [q \in Requests |-> "none"]
  /\ timer = [q \in Requests |-> "none"]
  /\ send = [q \in Requests |-> "none"]
  /\ atPeer = [q \in Requests |-> "no"]
  /\ recv = [kind |-> "off"]
  /\ peerRequest = [p \in PeerRequests |-> "none"]
  /\ activityFlag = TRUE
  /\ pingWaiting = "no"
  /\ pinged = FALSE
  /\ watchTimer = "off"

-----------------------------------------------------------------------------
(* The request map.                                                        *)

\* Mutant of CompleteRequest: the promise is set without finding the request
CompleteRequestUnchecked(q, res) ==
  /\ result' = [result EXCEPT ![q] = res]
  /\ inMap' = [inMap EXCEPT ![q] = FALSE]
  /\ timer' = [timer EXCEPT ![q] = IF @ = "armed" THEN "none" ELSE @]
  /\ UNCHANGED <<isReqSent, failReqResult>>

\* connection::impl::complete_request: whoever finds the request in the map takes it
CompleteRequest(q, res) ==
  /\ result' = [result EXCEPT ![q] = IF inMap[q] THEN res ELSE @]
  /\ inMap' = [inMap EXCEPT ![q] = FALSE]
  /\ timer' = [timer EXCEPT ![q] = IF inMap[q] /\ @ = "armed" THEN "none" ELSE @]
  /\ UNCHANGED <<isReqSent, failReqResult>>

\* Mutant of ProcessRequestSent: fail_req_result is not looked at
ProcessRequestSentOblivious(q) ==
  /\ isReqSent' = [isReqSent EXCEPT ![q] = @ \/ inMap[q]]
  /\ UNCHANGED <<result, inMap, timer, failReqResult>>

\* connection::impl::process_request_sent
ProcessRequestSent(q) ==
  LET completes == inMap[q] /\ failReqResult[q] # "none"
  IN  /\ isReqSent' = [isReqSent EXCEPT ![q] = @ \/ inMap[q]]
      /\ result' = [result EXCEPT ![q] = IF completes THEN failReqResult[q] ELSE @]
      /\ inMap' = [inMap EXCEPT ![q] = @ /\ ~completes]
      /\ UNCHANGED <<timer, failReqResult>>

-----------------------------------------------------------------------------
(* request_async: it holds m_mtx, but neither the map nor the pipe, while  *)
(* it looks at the transport, adds the request and sends it.               *)

\* request_async up to its early return, or past it
RequestAsync(q) ==
  /\ mtx = "free"
  /\ result[q] = "idle"
  /\ \/ /\ state # "started" \/ ~connected
        /\ result' = [result EXCEPT ![q] = "failed"]
        /\ UNCHANGED mtx
     \/ /\ state = "started" /\ connected
        /\ mtx' = q
        /\ UNCHANGED result
  /\ UNCHANGED <<state, pipeVars, mapVars, timer, send, atPeer, recv, peerRequest, watcherVars>>

\* connection::impl::add_request_to_map; the transport may have stopped since
AddRequestToMap(q) ==
  /\ mtx = q
  /\ result[q] = "idle"
  /\ result' = [result EXCEPT ![q] = "pending"]
  /\ inMap' = [inMap EXCEPT ![q] = TRUE]
  /\ timer' = [timer EXCEPT ![q] = "armed"]
  /\ UNCHANGED <<state, mtx, pipeVars, isReqSent, failReqResult, send, atPeer, recv,
                 peerRequest, watcherVars>>

\* transport::send_async of request_async; a closed pipe refuses at once
SendRequest(q) ==
  /\ mtx = q
  /\ result[q] # "idle"
  /\ mtx' = "free"
  /\ send' = [send EXCEPT ![q] = IF writeOpen THEN "writing" ELSE "failed"]
  /\ UNCHANGED <<state, pipeVars, result, mapVars, timer, atPeer, recv, peerRequest, watcherVars>>

\* The pipe completes the write and posts send_callback.  What has begun to be written may
\* reach the peer though the write timed out or the pipe was closed under it.
WriteCompletes(q, res) ==
  /\ send[q] = "writing"
  /\ res \in IF writeOpen THEN {"success", "timeout", "failed"} ELSE {"canceled", "failed"}
  /\ send' = [send EXCEPT ![q] = res]
  /\ \E reached \in {"no", "delivered"} :
       /\ res = "success" => reached = "delivered"
       /\ atPeer' = [atPeer EXCEPT ![q] = reached]
  /\ UNCHANGED <<state, mtx, pipeVars, result, mapVars, timer, recv, peerRequest, watcherVars>>

\* Mutant of SendCallback: a failed send is left to the end of the receive loop
SendCallbackIgnoringFailure(q) ==
  /\ send[q] \in SendResult
  /\ send' = [send EXCEPT ![q] = "handled"]
  /\ \/ send[q] = "success" /\ ProcessRequestSent(q)
     \/ send[q] = "canceled" /\ CompleteRequest(q, "send_canceled")
     \/ send[q] = "timeout" /\ CompleteRequest(q, "send_timeout")
     \/ send[q] = "failed" /\ UNCHANGED <<result, mapVars, timer>>
  /\ UNCHANGED <<state, mtx, pipeVars, atPeer, recv, peerRequest, watcherVars>>

\* send_callback of request_async
SendCallback(q) ==
  /\ send[q] \in SendResult
  /\ send' = [send EXCEPT ![q] = "handled"]
  /\ \/ send[q] = "success" /\ ProcessRequestSent(q)
     \/ send[q] = "canceled" /\ CompleteRequest(q, "send_canceled")
     \/ send[q] = "timeout" /\ CompleteRequest(q, "send_timeout")
     \/ send[q] = "failed" /\ CompleteRequest(q, "send_failed")
  /\ UNCHANGED <<state, mtx, pipeVars, atPeer, recv, peerRequest, watcherVars>>

\* recv_timeout of a request passes and its handler is queued
TimerExpires(q) ==
  /\ timer[q] = "armed"
  /\ timer' = [timer EXCEPT ![q] = "expired"]
  /\ UNCHANGED <<state, mtx, pipeVars, result, mapVars, send, atPeer, recv, peerRequest, watcherVars>>

\* Mutant of TimerCallback: a sent request gets more time
TimerCallbackRearming(q) ==
  LET completes == inMap[q] /\ ~isReqSent[q] IN
  /\ timer[q] = "expired"
  /\ result' = [result EXCEPT ![q] = IF completes THEN "timeout" ELSE @]
  /\ inMap' = [inMap EXCEPT ![q] = @ /\ ~completes]
  /\ timer' = [timer EXCEPT ![q] = IF inMap'[q] THEN "armed" ELSE "none"]
  /\ UNCHANGED <<state, mtx, pipeVars, isReqSent, failReqResult, send, atPeer, recv,
                 peerRequest, watcherVars>>

\* timer_callback of add_request_to_map
TimerCallback(q) ==
  /\ timer[q] = "expired"
  /\ result' = [result EXCEPT ![q] = IF inMap[q] THEN "timeout" ELSE @]
  /\ inMap' = [inMap EXCEPT ![q] = FALSE]
  /\ timer' = [timer EXCEPT ![q] = "none"]
  /\ UNCHANGED <<state, mtx, pipeVars, isReqSent, failReqResult, send, atPeer, recv,
                 peerRequest, watcherVars>>

-----------------------------------------------------------------------------
(* start, deactivate and the closing of the pipe.                          *)

\* What a read started now becomes
NextRead == [kind |-> IF readOpen THEN "reading" ELSE "failed"]

\* connection::impl::start
Start ==
  /\ mtx = "free"
  /\ state = "never_started"
  /\ state' = "started"
  /\ watchTimer' = "on"
  /\ recv' = NextRead
  /\ UNCHANGED <<mtx, pipeVars, result, mapVars, timer, send, atPeer, peerRequest,
                 activityFlag, pingWaiting, pinged>>

\* connection::impl::deactivate up to transport::stop; m_mtx is held until the pipe's
\* invalidate returns.  A second call changes nothing.
BeginDeactivate ==
  /\ mtx = "free"
  /\ closing["self"] = "no"
  /\ state' = "deactivated"
  /\ mtx' = "closing"
  /\ closing' = [closing EXCEPT !["self"] = "first"]
  /\ UNCHANGED <<readOpen, writeOpen, connected>>

Deactivate ==
  /\ BeginDeactivate
  /\ UNCHANGED <<result, mapVars, timer, send, atPeer, recv, peerRequest, watcherVars>>

\* The peer invalidates its end, or the link is lost
PeerDisconnects ==
  /\ closing["peer"] = "no"
  /\ closing' = [closing EXCEPT !["peer"] = "first"]
  /\ UNCHANGED <<state, mtx, readOpen, writeOpen, connected, result, mapVars, timer, send,
                 atPeer, recv, peerRequest, watcherVars>>

\* The read direction closes: an outstanding read completes with what c's close means
CloseReads(c) ==
  /\ readOpen' = FALSE
  /\ recv' = IF readOpen /\ recv.kind = "reading"
             THEN [kind |-> IF c = "self" THEN "canceled" ELSE "failed"]
             ELSE recv

\* One step of ipipe_endpoint::invalidate, or of its counterpart at the peer
CloseStep(c) ==
  /\ \/ /\ closing[c] = "first" /\ CloseOrder = "together"
        /\ CloseReads(c)
        /\ writeOpen' = FALSE /\ connected' = FALSE
        /\ closing' = [closing EXCEPT ![c] = "done"]
     \/ /\ \/ closing[c] = "first" /\ CloseOrder = "readsFirst"
           \/ closing[c] = "second" /\ CloseOrder = "writesFirst"
        /\ CloseReads(c)
        /\ closing' = [closing EXCEPT ![c] = IF @ = "first" THEN "second" ELSE "flag"]
        /\ UNCHANGED <<writeOpen, connected>>
     \/ /\ \/ closing[c] = "first" /\ CloseOrder = "writesFirst"
           \/ closing[c] = "second" /\ CloseOrder = "readsFirst"
        /\ writeOpen' = FALSE
        /\ closing' = [closing EXCEPT ![c] = IF @ = "first" THEN "second" ELSE "flag"]
        /\ UNCHANGED <<readOpen, connected, recv>>
     \/ /\ closing[c] = "flag"
        /\ connected' = FALSE
        /\ closing' = [closing EXCEPT ![c] = "done"]
        /\ UNCHANGED <<readOpen, writeOpen, recv>>
  /\ mtx' = IF c = "self" /\ closing'[c] = "done" THEN "free" ELSE mtx
  /\ UNCHANGED <<state, result, mapVars, timer, send, atPeer, peerRequest, watcherVars>>

-----------------------------------------------------------------------------
(* The receive loop.                                                       *)

\* A message arrives for the outstanding read and its continuation is posted
ReceiveMessage(m) ==
  /\ readOpen
  /\ recv.kind = "reading"
  /\ m.type = "res" => atPeer[m.number] = "delivered"
  /\ m.type = "req" => peerRequest[m.number] = "none"
  /\ m.type = "pong" => pinged
  /\ recv' = [kind |-> "message", message |-> m]
  /\ atPeer' = [q \in Requests |-> IF m.type = "res" /\ m.number = q THEN "answered"
                                   ELSE atPeer[q]]
  /\ peerRequest' = [p \in PeerRequests |-> IF m.type = "req" /\ m.number = p THEN "received"
                                            ELSE peerRequest[p]]
  /\ pinged' = (pinged /\ m.type # "pong")
  /\ UNCHANGED <<state, mtx, pipeVars, result, mapVars, timer, send,
                 activityFlag, pingWaiting, watchTimer>>

\* connection_watcher::set_activity_flag
SetActivityFlag ==
  /\ activityFlag' = TRUE
  /\ pingWaiting' = "no"

\* The continuation of do_receive_async with a message: dispatch_receive_event, then
\* do_receive_async again.  Its steps touch the map, the watcher and the read direction
\* in turn; a step of another thread between them conflicts with one of them at most,
\* and may as well run before or after all of them.  A message that does not parse
\* throws before the activity flag is set; the pong for a ping is sent and forgotten.
DispatchReceiveEvent ==
  /\ recv.kind = "message"
  /\ recv' = NextRead
  /\ LET m == recv.message IN
       \/ /\ m.type = "req"
          /\ peerRequest' = [peerRequest EXCEPT ![m.number] =
                                IF HasService THEN "processing" ELSE "ignored"]
          /\ SetActivityFlag
          /\ UNCHANGED <<result, mapVars, timer>>
       \/ /\ m.type = "res"
          /\ CompleteRequest(m.number, "ok")
          /\ SetActivityFlag
          /\ UNCHANGED peerRequest
       \/ /\ m.type \in {"ping", "pong"}
          /\ SetActivityFlag
          /\ UNCHANGED <<result, mapVars, timer, peerRequest>>
       \/ /\ m.type = "malformed"
          /\ UNCHANGED <<result, mapVars, timer, peerRequest, activityFlag, pingWaiting>>
  /\ UNCHANGED <<state, mtx, pipeVars, send, atPeer, pinged, watchTimer>>

\* The service answers a request of the peer; the outcome of the send is ignored
RespondToPeer(p) ==
  /\ peerRequest[p] = "processing"
  /\ peerRequest' = [peerRequest EXCEPT ![p] = "responded"]
  /\ UNCHANGED <<state, mtx, pipeVars, result, mapVars, timer, send, atPeer, recv, watcherVars>>

\* Mutant of FailRequests: everything is left to the timers
FailRequestsLater(res) == UNCHANGED <<timer, result, inMap, failReqResult>>

\* The sweep of complete_receive_routine: sent requests complete, the others are
\* marked for process_request_sent
FailRequests(res) ==
  /\ timer' = [q \in Requests |-> IF inMap[q] /\ timer[q] = "armed" THEN "none" ELSE timer[q]]
  /\ result' = [q \in Requests |-> IF inMap[q] /\ isReqSent[q] THEN res ELSE result[q]]
  /\ inMap' = [q \in Requests |-> inMap[q] /\ ~isReqSent[q]]
  /\ failReqResult' = [q \in Requests |-> IF inMap[q] /\ ~isReqSent[q] THEN res
                                          ELSE failReqResult[q]]

\* connection::impl::complete_receive_routine
CompleteReceiveRoutine ==
  /\ recv.kind \in {"canceled", "failed"}
  /\ recv' = [kind |-> "ended"]
  /\ watchTimer' = IF watchTimer = "on" THEN "stopping" ELSE watchTimer
  /\ FailRequests(recv.kind)
  /\ UNCHANGED <<state, mtx, pipeVars, isReqSent, send, atPeer, peerRequest,
                 activityFlag, pingWaiting, pinged>>

-----------------------------------------------------------------------------
(* The watcher.                                                            *)

\* Mutant of CheckAndDropActivityFlag: the flag is checked and not dropped
CheckActivityFlag == activityFlag /\ UNCHANGED activityFlag

\* connection_watcher::check_and_drop_activity_flag finds the flag set
CheckAndDropActivityFlag == activityFlag /\ activityFlag' = FALSE

\* connection::impl::process_watch_event.  The handler of a period that had begun when
\* the timer was stopped still runs, once.
ProcessWatchEvent ==
  /\ watchTimer \in {"on", "stopping"}
  /\ watchTimer' = IF watchTimer = "on" THEN "on" ELSE "off"
  /\ \/ /\ pingWaiting = "overdue"       \* is_connection_not_responding
        /\ BeginDeactivate
        /\ UNCHANGED <<activityFlag, pingWaiting, pinged>>
     \/ /\ pingWaiting = "overdue"
        /\ mtx = "free" /\ closing["self"] # "no"
        /\ UNCHANGED <<state, mtx, pipeVars, activityFlag, pingWaiting, pinged>>
     \/ /\ pingWaiting # "overdue"
        /\ CheckAndDropActivityFlag
        /\ UNCHANGED <<state, mtx, pipeVars, pingWaiting, pinged>>
     \/ /\ pingWaiting # "overdue" /\ ~activityFlag
        /\ pinged' = (pinged \/ writeOpen)
        /\ pingWaiting' = "waiting"         \* set_ping_waiting
        /\ UNCHANGED <<state, mtx, pipeVars, activityFlag>>
  /\ UNCHANGED <<result, mapVars, timer, send, atPeer, recv, peerRequest>>

\* ping_timeout passes since the first unanswered ping
PingTimeoutPasses ==
  /\ pingWaiting = "waiting"
  /\ pingWaiting' = "overdue"
  /\ UNCHANGED <<state, mtx, pipeVars, result, mapVars, timer, send, atPeer, recv,
                 peerRequest, activityFlag, pinged, watchTimer>>

\* The canceled wait of the stopped timer returns
WatchTimerStops ==
  /\ watchTimer = "stopping"
  /\ watchTimer' = "off"
  /\ UNCHANGED <<state, mtx, pipeVars, result, mapVars, timer, send, atPeer, recv,
                 peerRequest, activityFlag, pingWaiting, pinged>>

-----------------------------------------------------------------------------
Next ==
  \/ \E q \in Requests : \/ RequestAsync(q)
                         \/ AddRequestToMap(q)
                         \/ SendRequest(q)
                         \/ \E res \in SendResult : WriteCompletes(q, res)
                         \/ SendCallback(q)
                         \/ TimerExpires(q)
                         \/ TimerCallback(q)
  \/ Start
  \/ Deactivate
  \/ PeerDisconnects
  \/ \E c \in Closers : CloseStep(c)
  \/ \E m \in Messages : ReceiveMessage(m)
  \/ DispatchReceiveEvent
  \/ \E p \in PeerRequests : RespondToPeer(p)
  \/ CompleteReceiveRoutine
  \/ ProcessWatchEvent
  \/ PingTimeoutPasses
  \/ WatchTimerStops

Spec == Init /\ [][Next]_vars

\* The pool runs what is posted to it, a call runs to its end, the pipe completes a
\* write, the periodic timer fires and clocks advance.  Nobody has to call the
\* connection, and the peer has to do nothing.
FairnessWithoutTimers ==
  /\ \A q \in Requests : /\ WF_vars(AddRequestToMap(q))
                         /\ WF_vars(SendRequest(q))
                         /\ WF_vars(\E res \in SendResult : WriteCompletes(q, res))
                         /\ WF_vars(SendCallback(q))
                         /\ WF_vars(TimerCallback(q))
  /\ \A c \in Closers : WF_vars(CloseStep(c))
  /\ WF_vars(DispatchReceiveEvent)
  /\ WF_vars(CompleteReceiveRoutine)
  /\ WF_vars(ProcessWatchEvent)
  /\ WF_vars(PingTimeoutPasses)

\* recv_timeout may be arbitrarily long
PatientSpec == Spec /\ FairnessWithoutTimers

FairSpec == PatientSpec /\ \A q \in Requests : WF_vars(TimerExpires(q))

-----------------------------------------------------------------------------
(* Properties.                                                             *)

\* Nobody is left waiting: a request whose promise is unsettled is in the map, and for
\* each request in the map something that will take it out is under way - the caller
\* about to send it, its write, the continuation of its write, or its timer - whatever
\* the order in which response, send result, timeout and the end of the receive loop
\* come.  A request out of the map has no timer left in m_multiple_timer.
PendingRequestHasCompleter ==
  \A q \in Requests :
    /\ result[q] = "pending" <=> inMap[q]
    /\ inMap[q] => \/ mtx = q
                   \/ send[q] \in {"writing"} \cup SendResult
                   \/ timer[q] \in {"armed", "expired"}
    /\ timer[q] = "armed" => inMap[q]

\* "completes pending operations when the transport stops" (docs/rpc-architecture.md):
\* once the transport has stopped and the receive loop has ended, so that no response
\* can be read any more, no request is left waiting for its response.
StopCompletesSentRequests ==
  ~connected /\ recv.kind = "ended" => \A q \in Requests : ~(inMap[q] /\ isReqSent[q])

\* What makes PendingRequestHasCompleter inductive: a request has a live timer until
\* the end of the receive loop marks it with fail_req_result, a marked request has not
\* been sent, an unsent one has its send ahead, and m_mtx is held as the steps say.
RequestLifecycle ==
  /\ mtx = "closing" <=> closing["self"] \in {"first", "second", "flag"}
  /\ \A q \in Requests :
       /\ result[q] = "idle" => /\ ~isReqSent[q] /\ failReqResult[q] = "none"
                                /\ send[q] = "none"
       /\ inMap[q] /\ failReqResult[q] = "none" => timer[q] # "none"
       /\ inMap[q] /\ failReqResult[q] # "none" => ~isReqSent[q] /\ timer[q] # "armed"
       /\ inMap[q] /\ ~isReqSent[q] => mtx = q \/ send[q] \in {"writing"} \cup SendResult

\* What makes StopCompletesSentRequests inductive, unless reads close first: when reads
\* fail writes are refused, so a request that came after the sweep cannot be sent.
NothingSentAfterSweep ==
  /\ recv.kind \in {"canceled", "failed", "ended"} => ~readOpen
  /\ ~readOpen => ~writeOpen
  /\ \A c \in Closers : closing[c] = "second" => ~writeOpen
  /\ recv.kind = "ended" =>
       \A q \in Requests : inMap[q] => /\ ~isReqSent[q]
                                       /\ failReqResult[q] = "none" => send[q] \notin {"writing", "success"}

\* A settled request stays settled with the same result: the promise is taken out of
\* the map by one of the racing completers (response, send result, timeout, sweep).
SettledOnce ==
  [][\A q \in Requests : result[q] \in Settled => result'[q] = result[q]]_vars

\* Every request completes.
RequestsComplete ==
  \A q \in Requests : result[q] = "pending" ~> result[q] \in Settled

\* When the connection is over every request completes without waiting for its
\* recv_timeout.
StoppedConnectionCompletesRequests ==
  \A q \in Requests :
    recv.kind = "ended" /\ result[q] = "pending" ~> result[q] \in Settled

\* A started connection whose peer falls silent is taken down by the watcher: it
\* either hears something again or is disconnected.
SilentPeerIsDropped ==
  state = "started" /\ connected ~> recv.kind = "message" \/ ~connected

\* Both, in states of the right types: a connection that is over, because it was stopped or
\* because the peer is gone, keeps nobody waiting.
OverMeansOver == []TypeOK /\ StoppedConnectionCompletesRequests /\ SilentPeerIsDropped

=============================================================================
