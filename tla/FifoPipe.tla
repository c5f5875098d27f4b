------------------------------- MODULE FifoPipe ------------------------------
(***************************************************************************)
(* What one direction of a pipe promises to its two users, whatever the    *)
(* transport: the part of the requirements listed in                       *)
(* rpc-lib/rpc-lib/pipe/ipipe-endpoint.h that concerns one direction.      *)
(*                                                                         *)
(*   - an accepted message is delivered in order, to one read;             *)
(*   - an operation completes once;                                        *)
(*   - closing discards what is undelivered, completes the pending reads   *)
(*     with the close result and pending writes with "canceled";           *)
(*   - a timeout completes an operation only while the pipe is open;       *)
(*   - an operation started after the close completes with "failed".       *)
(*                                                                         *)
(* The result of a write that is pending at the close is the one the       *)
(* in-process pipe gives; MemBuffers compares it with the requirements.    *)
(***************************************************************************)
EXTENDS Sequences

CONSTANTS Reads, Writes, NoMsg

VARIABLES
  open,         \* the direction has not been closed
  closeResult,  \* what a read that was pending at the close completes with
  chan,         \* accepted and not yet delivered messages
  readState,    \* "late": started after the close, not completed yet
  readMsg,
  writeState

vars == <<open, closeResult, chan, readState, readMsg, writeState>>

Init ==
  /\ open = TRUE
  /\ closeResult = "failed"
  /\ chan = <<>>
  /\ readState = [r \in Reads |-> "idle"]
  /\ readMsg = [r \in Reads |-> NoMsg]
  /\ writeState = [w \in Writes |-> "idle"]

StartRead(r) ==
  /\ readState[r] = "idle"
  /\ readState' = [readState EXCEPT ![r] = IF open THEN "pending" ELSE "late"]
  /\ UNCHANGED <<open, closeResult, chan, readMsg, writeState>>

StartWrite(w) ==
  /\ writeState[w] = "idle"
  /\ writeState' = [writeState EXCEPT ![w] = IF open THEN "pending" ELSE "failed"]
  /\ UNCHANGED <<open, closeResult, chan, readState, readMsg>>

Accept(w) ==
  /\ open
  /\ writeState[w] = "pending"
  /\ writeState' = [writeState EXCEPT ![w] = "success"]
  /\ chan' = Append(chan, w)
  /\ UNCHANGED <<open, closeResult, readState, readMsg>>

Refuse(w, result) ==
  /\ writeState[w] = "pending"
  /\ result \in IF open THEN {"timeout", "failed"} ELSE {"canceled"}
  /\ writeState' = [writeState EXCEPT ![w] = result]
  /\ UNCHANGED <<open, closeResult, chan, readState, readMsg>>

Deliver(r) ==
  /\ open
  /\ readState[r] = "pending"
  /\ chan # <<>>
  /\ chan' = Tail(chan)
  /\ readState' = [readState EXCEPT ![r] = "success"]
  /\ readMsg' = [readMsg EXCEPT ![r] = Head(chan)]
  /\ UNCHANGED <<open, closeResult, writeState>>

TimeoutRead(r) ==
  /\ open
  /\ readState[r] = "pending"
  /\ readState' = [readState EXCEPT ![r] = "timeout"]
  /\ UNCHANGED <<open, closeResult, chan, readMsg, writeState>>

Close(result, S) ==
  /\ open
  /\ open' = FALSE
  /\ closeResult' = result
  /\ chan' = <<>>
  /\ \A r \in S : readState[r] = "pending"
  /\ readState' = [r \in Reads |-> IF r \in S THEN result ELSE readState[r]]
  /\ UNCHANGED <<readMsg, writeState>>

FailRead(r) ==
  /\ ~open
  /\ \/ /\ readState[r] = "pending"
        /\ readState' = [readState EXCEPT ![r] = closeResult]
     \/ /\ readState[r] = "late"
        /\ readState' = [readState EXCEPT ![r] = "failed"]
  /\ UNCHANGED <<open, closeResult, chan, readMsg, writeState>>

Next ==
  \/ \E r \in Reads : StartRead(r) \/ Deliver(r) \/ TimeoutRead(r) \/ FailRead(r)
  \/ \E w \in Writes : StartWrite(w) \/ Accept(w)
  \/ \E w \in Writes, result \in {"timeout", "failed", "canceled"} : Refuse(w, result)
  \/ \E result \in {"failed", "canceled"}, S \in SUBSET Reads : Close(result, S)

Spec == Init /\ [][Next]_vars

\* A pending write is decided, and a read that the close left behind completes
Decide(w) == Accept(w) \/ \E result \in {"timeout", "failed", "canceled"} : Refuse(w, result)

Fairness ==
  /\ \A w \in Writes : WF_vars(Decide(w))
  /\ \A r \in Reads : WF_vars(FailRead(r))

=============================================================================
