--------------------------- MODULE TransferMessage ---------------------------
(***************************************************************************)
(* The messages of an rpc connection as byte buffers                       *)
(* (rpc-lib/rpc-lib/internal/transfer-message/transfer-message.cpp):       *)
(*                                                                         *)
(*   request   type, size, serialized message, number, method index        *)
(*   response  type, size, serialized message, number, response code       *)
(*   ping and pong  type                                                   *)
(*                                                                         *)
(* Integers are big-endian.  The widths and the base of a byte are         *)
(* parameters, so that every buffer of a small geometry can be looked at.  *)
(* A serialized protobuf message is a sequence of bytes.                   *)
(***************************************************************************)
EXTENDS Naturals, Sequences, FiniteSets, FiniteSetsExt

CONSTANTS
  Base,                  \* values of a byte (256 in the code)
  SizeBytes,             \* s_serialized_proto_message_size_bytes_count (4)
  NumberBytes,           \* s_message_number_bytes_count (8)
  MethodBytes,           \* s_method_idx_bytes_count (4)
  MaxProtoSize           \* MaxRequestProtoSize and MaxResponseProtoSize (1 MB)

Byte == 0..(Base - 1)

\* transfer_msg_type and response_result, as bytes
Req == 0
Res == 1
Ping == 2
Pong == 3
ResponseResult == <<"ok", "unknown_error", "canceled", "request_parse_error",
                    "response_too_big", "not_implemented", "invalid_request">>

Header == 1 + SizeBytes
ReqTrailer == NumberBytes + MethodBytes
ResTrailer == NumberBytes + 1

-----------------------------------------------------------------------------
(* Integers.                                                               *)

\* to_uint32_to_big_endian and to_uint64_big_endian
ToUint(b) == MapThenSumSet(LAMBDA i : b[i] * Base^(Len(b) - i), DOMAIN b)

\* Mutant of FromUint: the bytes are in the opposite order
FromUintLittleEndian(n, width) == [i \in 1..width |-> (n \div Base^(i - 1)) % Base]

\* from_uint32_to_big_endian and from_uint64_big_endian
FromUint(n, width) == [i \in 1..width |-> (n \div Base^(width - i)) % Base]

-----------------------------------------------------------------------------
(* Reading.                                                                *)

ExtractMessageSize(b) == ToUint(SubSeq(b, 2, Header))

\* Mutant of IsRequestBufferValid: the trailer is not taken into account
IsRequestBufferValidNoTrailer(b) ==
  /\ Len(b) >= Header + ReqTrailer
  /\ b[1] = Req
  /\ ExtractMessageSize(b) <= Len(b) - Header

IsRequestBufferValid(b) ==
  /\ Len(b) >= Header + ReqTrailer
  /\ b[1] = Req
  /\ ExtractMessageSize(b) <= Len(b) - Header - ReqTrailer

IsResponseBufferValid(b) ==
  /\ Len(b) >= Header + ResTrailer
  /\ b[1] = Res
  /\ ExtractMessageSize(b) <= Len(b) - Header - ResTrailer

\* get_serialized_proto_message asks for less; it throws if this does not hold
HasSerializedProtoMessage(b) ==
  /\ Len(b) >= Header
  /\ ExtractMessageSize(b) <= Len(b) - Header

\* The places that the accessors read; the others throw on a buffer that is not valid
ProtoMessageAt(b) == (Header + 1)..(Header + ExtractMessageSize(b))
NumberAt(b) == (Header + ExtractMessageSize(b) + 1)..(Header + ExtractMessageSize(b) + NumberBytes)
MethodIdxAt(b) ==
  LET begin == Header + ExtractMessageSize(b) + NumberBytes
  IN  (begin + 1)..(begin + MethodBytes)
ResponseCodeAt(b) == Header + ExtractMessageSize(b) + NumberBytes + 1

Bytes(b, at) == [i \in 1..Cardinality(at) |-> b[Min(at) + i - 1]]

GetSerializedProtoMessage(b) == IF ProtoMessageAt(b) = {} THEN <<>> ELSE Bytes(b, ProtoMessageAt(b))
GetMsgNumber(b) == ToUint(Bytes(b, NumberAt(b)))
GetMsgMethodIdxReq(b) == ToUint(Bytes(b, MethodIdxAt(b)))
GetMsgResponseCodeRes(b) == b[ResponseCodeAt(b)]

-----------------------------------------------------------------------------
(* Writing.                                                                *)

IsProtoTooBig(proto) == Len(proto) > MaxProtoSize

\* create_transfer_msg_req and create_transfer_msg_res, of a message that is not too big
CreateTransferMsgReq(number, method, proto) ==
  <<Req>> \o FromUint(Len(proto), SizeBytes) \o proto
          \o FromUint(number, NumberBytes) \o FromUint(method, MethodBytes)

CreateTransferMsgRes(number, code, proto) ==
  <<Res>> \o FromUint(Len(proto), SizeBytes) \o proto
          \o FromUint(number, NumberBytes) \o <<code>>

CreateTransferMsgPing == <<Ping>>
CreateTransferMsgPong == <<Pong>>

-----------------------------------------------------------------------------
(* Properties.                                                             *)

\* Whatever the bytes of a buffer are, and whatever size they claim, what is valid has all
\* its fields inside the buffer, so has the message that get_serialized_proto_message takes
\* from what may be neither, and no buffer is both a request and a response.
FieldsAreInside(b) ==
  /\ IsRequestBufferValid(b) \/ IsResponseBufferValid(b) => HasSerializedProtoMessage(b)
  /\ HasSerializedProtoMessage(b) => ProtoMessageAt(b) \subseteq 1..Len(b)
  /\ IsRequestBufferValid(b) =>
       ProtoMessageAt(b) \cup NumberAt(b) \cup MethodIdxAt(b) \subseteq 1..Len(b)
  /\ IsResponseBufferValid(b) =>
       ProtoMessageAt(b) \cup NumberAt(b) \cup {ResponseCodeAt(b)} \subseteq 1..Len(b)
  /\ ~(IsRequestBufferValid(b) /\ IsResponseBufferValid(b))

\* What is sent is what is read, at the largest sizes and numbers too.
MessagesRoundTrip(number, method, code, proto) ==
  LET req == CreateTransferMsgReq(number, method, proto)
      res == CreateTransferMsgRes(number, code, proto)
  IN  ~IsProtoTooBig(proto) =>
        /\ IsRequestBufferValid(req) /\ IsResponseBufferValid(res)
        /\ GetMsgNumber(req) = number /\ GetMsgNumber(res) = number
        /\ GetMsgMethodIdxReq(req) = method /\ GetMsgResponseCodeRes(res) = code
        /\ GetSerializedProtoMessage(req) = proto /\ GetSerializedProtoMessage(res) = proto

=============================================================================
