------------------------------- MODULE RpcCall -------------------------------
(***************************************************************************)
(* A remote call from end to end: endpoint::make_request and               *)
(* channel::CallMethod with the request_controller and closure_guard at    *)
(* the caller; service::process_request_async with the response_controller *)
(* at the peer (endpoint, channel, service, controller and closure-guard   *)
(* under rpc-lib/rpc-lib).  The messages between them are the buffers of   *)
(* TransferMessage.                                                        *)
(*                                                                         *)
(* The connection between them is seen through what module Connection      *)
(* establishes of request_async: every request completes, once, with the   *)
(* response of its number or with a failure, and a response that comes     *)
(* later finds nobody.  A continuation that the pool never runs is         *)
(* destroyed, and with it the closure_guard that it holds.                 *)
(***************************************************************************)
EXTENDS TransferMessage, SequencesExt

CONSTANTS
  Calls,         \* calls of make_request on one endpoint
  Methods,       \* method indexes that callers use
  MethodsCount,  \* get_methods_count at the peer, which may be of another version
  Failures,      \* the failures of request_async: timeout, canceled, send_failed, ...
  Protos         \* serialized messages, as requests and as responses

VARIABLES
  nextReqId,     \* m_next_req_id
  reqId,         \* req_id of a call
  request,       \* the request buffer of a call, once it was sent
  answer,        \* request_async's future: how it ended, and the buffer it brings
  future,        \* the caller's future
  runs,          \* how often the caller's closure ran; bound: 2
  server,        \* how far the peer got
  response,      \* the response buffer
  executed,      \* what the peer's method was called with
  produced       \* what it answered

callVars == <<nextReqId, reqId, request, answer, future, runs, server, response, executed, produced>>

Nothing == <<>>

TypeOK ==
  /\ nextReqId \in Nat
  /\ reqId \in [Calls -> Nat]
  /\ request \in [Calls -> Seq(Byte)]
  /\ answer \in [Calls -> ({"none", "waiting", "over", "ok"} \cup Failures) \X Seq(Nat)]
  /\ future \in [Calls -> {"idle", "pending", "ok", "threw", "unknown_error", "request_too_big", "invalid_response",
                           "request_not_processed", "response_parse_error"} \cup Failures]
  /\ runs \in [Calls -> 0..2]
  /\ server \in [Calls -> {"none", "posted", "called", "over"}]
  /\ response \in [Calls -> Seq(Nat)]
  /\ \A c \in Calls : executed[c] = Nothing \/ executed[c] \in Methods \X Protos
  /\ \A c \in Calls : produced[c] = Nothing \/ produced[c] \in Protos \X BOOLEAN

Init ==
  /\ nextReqId = 0
  /\ reqId = [c \in Calls |-> 0]
  /\ request = [c \in Calls |-> Nothing]
  /\ answer = [c \in Calls |-> <<"none", Nothing>>]
  /\ future = [c \in Calls |-> "idle"]
  /\ runs = [c \in Calls |-> 0]
  /\ server = [c \in Calls |-> "none"]
  /\ response = [c \in Calls |-> Nothing]
  /\ executed = [c \in Calls |-> Nothing]
  /\ produced = [c \in Calls |-> Nothing]

-----------------------------------------------------------------------------
(* The caller.                                                             *)

\* closure_guard::reset and request_controller::Run: the promise takes the first result
RunClosure(c, result) ==
  /\ runs' = [runs EXCEPT ![c] = IF @ < 2 THEN @ + 1 ELSE @]
  /\ future' = [future EXCEPT ![c] = IF @ \in {"idle", "pending"} THEN result ELSE @]

\* CallMethod refuses a request that is too big, before it takes a number
RefuseTooBig(c, proto) ==
  /\ future[c] = "idle"
  /\ IsProtoTooBig(proto)
  /\ RunClosure(c, "request_too_big")
  /\ UNCHANGED <<nextReqId, reqId, request, answer, server, response, executed, produced>>

\* create_transfer_msg_req throws through make_request; the guard runs the closure, and the
\* caller gets the exception
SerializeFails(c, proto) ==
  /\ future[c] = "idle"
  /\ ~IsProtoTooBig(proto)
  /\ nextReqId' = nextReqId + 1
  /\ RunClosure(c, "threw")
  /\ UNCHANGED <<reqId, request, answer, server, response, executed, produced>>

\* Mutant of CallMethod: the guard stays behind and runs the closure on return
CallMethodGuardStays(c, method, proto) ==
  /\ future[c] = "idle"
  /\ ~IsProtoTooBig(proto)
  /\ nextReqId' = nextReqId + 1
  /\ reqId' = [reqId EXCEPT ![c] = nextReqId]
  /\ request' = [request EXCEPT ![c] = CreateTransferMsgReq(nextReqId, method, proto)]
  /\ answer' = [answer EXCEPT ![c] = <<"waiting", Nothing>>]
  /\ RunClosure(c, "unknown_error")
  /\ UNCHANGED <<server, response, executed, produced>>

\* make_request and CallMethod; a connection that is not active answers "failed" later
CallMethod(c, method, proto) ==
  /\ future[c] = "idle"
  /\ ~IsProtoTooBig(proto)
  /\ nextReqId' = nextReqId + 1
  /\ reqId' = [reqId EXCEPT ![c] = nextReqId]
  /\ request' = [request EXCEPT ![c] = CreateTransferMsgReq(nextReqId, method, proto)]
  /\ answer' = [answer EXCEPT ![c] = <<"waiting", Nothing>>]
  /\ future' = [future EXCEPT ![c] = "pending"]
  /\ UNCHANGED <<runs, server, response, executed, produced>>

\* The connection fails the request: not sent, too late, or the pipe is closed
ConnectionFails(c, failure) ==
  /\ answer[c][1] = "waiting"
  /\ answer' = [answer EXCEPT ![c] = <<failure, Nothing>>]
  /\ UNCHANGED <<nextReqId, reqId, request, future, runs, server, response, executed, produced>>

\* handle_received_response: a response completes the request that has its number, if that
\* is still in the map; get_msg_number_res throws on any other buffer
ResponseArrives(c) ==
  /\ IsResponseBufferValid(response[c])
  /\ \E q \in Calls :
       /\ answer[q][1] = "waiting"
       /\ reqId[q] = GetMsgNumber(response[c])
       /\ answer' = [answer EXCEPT ![q] = <<"ok", response[c]>>]
  /\ UNCHANGED <<nextReqId, reqId, request, future, runs, server, response, executed, produced>>

\* The continuation of CallMethod; ParseFromArray fails if the peer's types are others
Outcomes(c) ==
  LET b == answer[c][2]
  IN  CASE answer[c][1] # "ok" -> {answer[c][1]}
        [] answer[c][1] = "ok" /\ ~IsResponseBufferValid(b) -> {"invalid_response"}
        [] answer[c][1] = "ok" /\ IsResponseBufferValid(b) /\ GetMsgNumber(b) # reqId[c] -> {"unknown_error"}
        [] OTHER -> IF ResponseResult[GetMsgResponseCodeRes(b) + 1] # "ok"
                    THEN {"request_not_processed"}
                    ELSE {"ok", "response_parse_error"}

Continue(c) ==
  /\ answer[c][1] \in {"ok"} \cup Failures
  /\ answer' = [answer EXCEPT ![c] = <<"over", Nothing>>]
  /\ \E result \in Outcomes(c) : RunClosure(c, result)
  /\ UNCHANGED <<nextReqId, reqId, request, server, response, executed, produced>>

\* Mutant of DropContinuation: nobody runs the closure
DropContinuationSilently(c) ==
  /\ answer[c][1] \in {"waiting", "ok"} \cup Failures
  /\ answer' = [answer EXCEPT ![c] = <<"over", Nothing>>]
  /\ UNCHANGED <<nextReqId, reqId, request, future, runs, server, response, executed, produced>>

\* The continuation is destroyed before it could run: the guard runs the closure with the
\* result that the controller was created with
DropContinuation(c) ==
  /\ answer[c][1] \in {"waiting", "ok"} \cup Failures
  /\ answer' = [answer EXCEPT ![c] = <<"over", Nothing>>]
  /\ RunClosure(c, "unknown_error")
  /\ UNCHANGED <<nextReqId, reqId, request, server, response, executed, produced>>

-----------------------------------------------------------------------------
(* The peer.                                                               *)

\* A response carries the number of its request; that of an invalid one cannot be read
Respond(c, code, proto) ==
  LET number == IF code = "invalid_request" THEN Base^NumberBytes - 1 ELSE GetMsgNumber(request[c])
      byte == SelectInSeq(ResponseResult, LAMBDA r : r = code) - 1
  IN  response' = [response EXCEPT ![c] = CreateTransferMsgRes(number, byte, proto)]

\* The request arrives, and process_request_async posts its task
RequestArrives(c) ==
  /\ request[c] # Nothing
  /\ server[c] = "none"
  /\ server' = [server EXCEPT ![c] = "posted"]
  /\ UNCHANGED <<nextReqId, reqId, request, answer, future, runs, response, executed, produced>>

\* What the task answers when it does not call the method, in the order it asks.  A peer
\* without a service is one with no methods; whether a message parses depends on its type.
Refusal(b) ==
  CASE ~IsRequestBufferValid(b) -> "invalid_request"
    [] IsRequestBufferValid(b) /\ GetMsgMethodIdxReq(b) >= MethodsCount -> "not_implemented"
    [] OTHER -> "request_parse_error"

\* The task: it answers what it cannot process, and calls the method otherwise
ProcessRequest(c) ==
  LET b == request[c]
  IN  /\ server[c] = "posted"
      /\ \/ /\ Respond(c, Refusal(b), Nothing)
            /\ server' = [server EXCEPT ![c] = "over"]
            /\ UNCHANGED executed
         \/ /\ Refusal(b) = "request_parse_error"  \* nothing is wrong and it parses
            /\ executed' = [executed EXCEPT ![c] = <<GetMsgMethodIdxReq(b), GetSerializedProtoMessage(b)>>]
            /\ server' = [server EXCEPT ![c] = "called"]
            /\ UNCHANGED response
      /\ UNCHANGED <<nextReqId, reqId, request, answer, future, runs, produced>>

\* Mutant of ResponseOf: the code of a response that is too big stays
ResponseOfKeepsCode(c, proto, code) == Respond(c, code, IF IsProtoTooBig(proto) THEN Nothing ELSE proto)

\* The callback of process_request_async
ResponseOf(c, proto, code) ==
  IF IsProtoTooBig(proto)
  THEN Respond(c, "response_too_big", Nothing)
  ELSE Respond(c, code, proto)

\* The method runs its closure, response_controller::Run: in the normal way, or because
\* an exception unwinds the stack
ServiceAnswers(c, proto, unwinding) ==
  /\ server[c] = "called"
  /\ server' = [server EXCEPT ![c] = "over"]
  /\ produced' = [produced EXCEPT ![c] = <<proto, unwinding>>]
  /\ ResponseOf(c, proto, IF unwinding THEN "unknown_error" ELSE "ok")
  /\ UNCHANGED <<nextReqId, reqId, request, answer, future, runs, executed>>

-----------------------------------------------------------------------------
Next ==
  \E c \in Calls :
    \/ \E proto \in Protos : RefuseTooBig(c, proto) \/ SerializeFails(c, proto)
    \/ \E method \in Methods, proto \in Protos : CallMethod(c, method, proto)
    \/ \E failure \in Failures : ConnectionFails(c, failure)
    \/ ResponseArrives(c) \/ Continue(c) \/ DropContinuation(c)
    \/ RequestArrives(c) \/ ProcessRequest(c)
    \/ \E proto \in Protos, unwinding \in BOOLEAN : ServiceAnswers(c, proto, unwinding)

Spec == Init /\ [][Next]_callVars

\* The connection completes every request (Connection!RequestsComplete), and then the pool
\* runs the continuation or destroys it.  Nothing is assumed of the peer.
Fairness ==
  \A c \in Calls :
    /\ WF_callVars(ResponseArrives(c) \/ \E failure \in Failures : ConnectionFails(c, failure))
    /\ WF_callVars(Continue(c) \/ (answer[c][1] # "waiting" /\ DropContinuation(c)))

-----------------------------------------------------------------------------
(* Properties.                                                             *)

\* The caller's closure deletes its controller when it runs: it runs once, when the future
\* is set and never before, whether the call is refused, fails, is answered or is dropped.
ClosuresRunOnce == \A c \in Calls : runs[c] = IF future[c] \in {"idle", "pending"} THEN 0 ELSE 1

\* What a caller is told is true of its own call, whatever order responses, timeouts and
\* the calls of others come in: "ok" means that the peer's method had this request and
\* that its whole response is at hand; what was too big was never sent; and
\* "request_not_processed" means that there is no good response.
ResultsAreTruthful ==
  \A c \in Calls :
    /\ future[c] \in {"ok", "response_parse_error"} =>
         /\ executed[c] = <<GetMsgMethodIdxReq(request[c]), GetSerializedProtoMessage(request[c])>>
         /\ produced[c] = <<GetSerializedProtoMessage(response[c]), FALSE>>
    /\ future[c] \in {"request_too_big", "threw"} => request[c] = Nothing
    /\ future[c] = "request_not_processed" =>
         executed[c] = Nothing \/ produced[c][2] \/ IsProtoTooBig(produced[c][1])
    /\ future[c] # "invalid_response"

\* Calls that have not returned
Due == {c \in Calls : future[c] = "pending"}

\* Every call returns, also if the peer never answers and if the pool stops.
CallsReturn == []<>(Due = {})

=============================================================================
