----------------------------- MODULE MemPipeEnv ------------------------------
(***************************************************************************)
(* Where the ends of in-process pipes meet: rpc::mem_pipe_env              *)
(* (rpc-lib/rpc-lib/pipe/memory-pipe/mem-pipe-env.cpp).                    *)
(*                                                                         *)
(* A call that finds nobody of the other side waiting waits itself, until  *)
(* a call of the other side, its timeout, a cancellation or the            *)
(* destructor takes it.  A step is one critical section of m_mtx; the      *)
(* promises it takes out of the containers are settled with it.            *)
(*                                                                         *)
(* A container is the set of the ends in it: its sequenced index is the    *)
(* order of the promise ids, which are handed out when an end joins.       *)
(***************************************************************************)
EXTENDS Naturals

CONSTANTS
  ServerEnds,   \* create_pipe calls
  ClientEnds,   \* open_pipe calls
  ClientIds,    \* who calls: the unit of cancellation
  NoEnd

Ends == ServerEnds \cup ClientEnds
Sides == {"server", "client"}
Side(e) == IF e \in ServerEnds THEN "server" ELSE "client"
Other(side) == IF side = "server" THEN "client" ELSE "server"

ASSUME SidesAssumption == ServerEnds \cap ClientEnds = {} /\ NoEnd \notin Ends

VARIABLES
  waiting,        \* m_server_side_pipe_promises, m_client_side_pipe_promises
  nextPromiseId,  \* m_next_read_promise_id
  promiseId, clientId, timed,  \* of a call that waits
  timer,          \* its entry of m_timer
  result,         \* its promise
  peer,           \* the end at the other side of the same mem_buffers
  phase           \* progress of ~mem_pipe_env

vars == <<waiting, nextPromiseId, promiseId, clientId, timed, timer, result, peer, phase>>

WaitResult == {"success", "timeout", "canceled"}

TypeOK ==
  /\ waiting \in [Sides -> SUBSET Ends]
  /\ nextPromiseId \in Nat
  /\ promiseId \in [Ends -> Nat]
  /\ clientId \in [Ends -> ClientIds]
  /\ timed \in [Ends -> BOOLEAN]
  /\ timer \in [Ends -> {"none", "armed", "expired"}]
  /\ result \in [Ends -> {"idle", "pending"} \cup WaitResult]
  /\ peer \in [Ends -> Ends \cup {NoEnd}]
  /\ phase \in {"alive", "cancelClients", "cancelServers", "destroyed"}

Init ==
  /\ waiting = [side \in Sides |-> {}]
  /\ nextPromiseId = 0
  /\ promiseId = [e \in Ends |-> 0]
  /\ clientId \in [Ends -> ClientIds]
  /\ timed \in [Ends -> BOOLEAN]
  /\ timer = [e \in Ends |-> "none"]
  /\ result = [e \in Ends |-> "idle"]
  /\ peer = [e \in Ends |-> NoEnd]
  /\ phase = "alive"

-----------------------------------------------------------------------------
\* Mutant of Front: the last one to come
Back(S) == CHOOSE e \in S : \A f \in S : promiseId[f] <= promiseId[e]

\* container.begin()
Front(S) == CHOOSE e \in S : \A f \in S : promiseId[e] <= promiseId[f]

\* multiple_timer::cancel on the timers of a set of ends
CancelTimers(S) ==
  timer' = [e \in Ends |-> IF e \in S /\ timer[e] = "armed" THEN "none" ELSE timer[e]]

\* Mutant of NobodyToMeet: own for other
NobodyBefore(e) == waiting[Side(e)] = {}

\* other.empty()
NobodyToMeet(e) == waiting[Other(Side(e))] = {}

\* create_new_pipe_end that finds nobody of the other side
Wait(e) ==
  /\ NobodyToMeet(e)
  /\ waiting' = [waiting EXCEPT ![Side(e)] = @ \cup {e}]
  /\ promiseId' = [promiseId EXCEPT ![e] = nextPromiseId]
  /\ nextPromiseId' = nextPromiseId + 1
  /\ timer' = [timer EXCEPT ![e] = IF timed[e] THEN "armed" ELSE @]
  /\ result' = [result EXCEPT ![e] = "pending"]
  /\ UNCHANGED peer

\* Mutant of Meet: the other end is left in its container
MeetWithoutPop(e) ==
  LET others == waiting[Other(Side(e))]
      f == Front(others)
  IN  /\ others # {}
      /\ CancelTimers({f})
      /\ result' = [result EXCEPT ![e] = "success", ![f] = "success"]
      /\ peer' = [peer EXCEPT ![e] = f, ![f] = e]
      /\ UNCHANGED <<waiting, promiseId, nextPromiseId>>

\* create_new_pipe_end that completes the first end of the other side
Meet(e) ==
  LET others == waiting[Other(Side(e))]
      f == Front(others)
  IN  /\ others # {}
      /\ waiting' = [waiting EXCEPT ![Side(f)] = @ \ {f}]
      /\ CancelTimers({f})
      /\ result' = [result EXCEPT ![e] = "success", ![f] = "success"]
      /\ peer' = [peer EXCEPT ![e] = f, ![f] = e]
      /\ UNCHANGED <<promiseId, nextPromiseId>>

\* create_pipe of a server end, open_pipe of a client end
CreateNewPipeEnd(e) ==
  /\ phase = "alive"
  /\ result[e] = "idle"
  /\ Wait(e) \/ Meet(e)
  /\ UNCHANGED <<clientId, timed, phase>>

\* Mutant of Cancel: timers go, the promises of the timed ends are left to them
CancelUntimed(side, ids) ==
  LET S == {e \in waiting[side] : clientId[e] \in ids /\ ~timed[e]}
  IN  /\ waiting' = [waiting EXCEPT ![side] = @ \ S]
      /\ CancelTimers({e \in waiting[side] : clientId[e] \in ids})
      /\ result' = [e \in Ends |-> IF e \in S THEN "canceled" ELSE result[e]]
      /\ UNCHANGED <<promiseId, nextPromiseId, clientId, timed, peer>>

\* cancel_pending_endpoints
Cancel(side, ids) ==
  LET S == {e \in waiting[side] : clientId[e] \in ids}
  IN  /\ waiting' = [waiting EXCEPT ![side] = @ \ S]
      /\ CancelTimers(S)
      /\ result' = [e \in Ends |-> IF e \in S THEN "canceled" ELSE result[e]]
      /\ UNCHANGED <<promiseId, nextPromiseId, clientId, timed, peer>>

\* cancel_pending_client_endpoints, cancel_pending_server_endpoints
CancelPendingEndpoints(side, id) ==
  phase = "alive" /\ Cancel(side, {id}) /\ UNCHANGED phase

\* cancel_all_pending_client_endpoints, cancel_all_pending_server_endpoints
CancelAllPendingEndpoints(side) ==
  phase = "alive" /\ Cancel(side, ClientIds) /\ UNCHANGED phase

\* ~mem_pipe_env: nobody calls the environment any more
BeginDestruction ==
  /\ phase = "alive"
  /\ phase' = "cancelClients"
  /\ UNCHANGED <<waiting, nextPromiseId, promiseId, clientId, timed, timer, result, peer>>

Destroy ==
  \/ phase = "cancelClients" /\ Cancel("client", ClientIds) /\ phase' = "cancelServers"
  \/ phase = "cancelServers" /\ Cancel("server", ClientIds) /\ phase' = "destroyed"

\* The timeout of a waiting end passes and its handler is queued
TimerExpires(e) ==
  /\ timer[e] = "armed"
  /\ timer' = [timer EXCEPT ![e] = "expired"]
  /\ UNCHANGED <<waiting, nextPromiseId, promiseId, clientId, timed, result, peer, phase>>

\* Mutants of RemovePromiseByTimeout: the end is not looked up; the result is wrong
RemovePromiseUnchecked(e) ==
  /\ timer[e] = "expired"
  /\ timer' = [timer EXCEPT ![e] = "none"]
  /\ waiting' = [waiting EXCEPT ![Side(e)] = @ \ {e}]
  /\ result' = [result EXCEPT ![e] = "timeout"]
  /\ UNCHANGED <<nextPromiseId, promiseId, clientId, timed, peer, phase>>

RemovePromiseFailing(e) ==
  /\ timer[e] = "expired"
  /\ timer' = [timer EXCEPT ![e] = "none"]
  /\ waiting' = [waiting EXCEPT ![Side(e)] = @ \ {e}]
  /\ result' = [result EXCEPT ![e] = IF e \in waiting[Side(e)] THEN "failed" ELSE @]
  /\ UNCHANGED <<nextPromiseId, promiseId, clientId, timed, peer, phase>>

\* remove_promise_by_timeout: the end may be gone
RemovePromiseByTimeout(e) ==
  /\ timer[e] = "expired"
  /\ timer' = [timer EXCEPT ![e] = "none"]
  /\ waiting' = [waiting EXCEPT ![Side(e)] = @ \ {e}]
  /\ result' = [result EXCEPT ![e] = IF e \in waiting[Side(e)] THEN "timeout" ELSE @]
  /\ UNCHANGED <<nextPromiseId, promiseId, clientId, timed, peer, phase>>

Next ==
  \/ \E e \in Ends : CreateNewPipeEnd(e) \/ TimerExpires(e) \/ RemovePromiseByTimeout(e)
  \/ \E side \in Sides : \/ \E id \in ClientIds : CancelPendingEndpoints(side, id)
                         \/ CancelAllPendingEndpoints(side)
  \/ BeginDestruction
  \/ Destroy

Spec == Init /\ [][Next]_vars

\* The pool runs what is posted to it and the destructor runs to its end
Fairness ==
  /\ \A e \in Ends : WF_vars(TimerExpires(e)) /\ WF_vars(RemovePromiseByTimeout(e))
  /\ WF_vars(Destroy)

FairSpec == Spec /\ Fairness

-----------------------------------------------------------------------------
(* Properties.                                                             *)

\* A server end and a client end never wait beside each other, whatever timeouts and
\* cancellations took out of the containers before.
NoTwoSidesWait == waiting["server"] = {} \/ waiting["client"] = {}

\* A pipe has exactly two ends, one of each side, and both got it: a timeout or a
\* cancellation that races the meeting takes neither of them, and no end that was
\* told "success" is left alone.
PipesHaveTwoEnds ==
  \A e \in Ends :
    /\ result[e] = "success" <=> peer[e] # NoEnd
    /\ peer[e] # NoEnd => /\ peer[peer[e]] = e
                          /\ Side(peer[e]) # Side(e)

\* Every unsettled promise is in the container of its side, from which whoever settles
\* it takes it: none is broken and none is settled twice.
PendingEndsAreWaiting ==
  \A side \in Sides : waiting[side] = {e \in Ends : Side(e) = side /\ result[e] = "pending"}

\* Both together: an end that called waits in its container, or was told why not, or
\* shares a pipe with one end of the other side.
PipesPairWaitingEnds == PipesHaveTwoEnds /\ PendingEndsAreWaiting

\* Ends that wait are served in the order of their calls, timeouts and cancellations of
\* others in between or not.
FirstComeFirstServed ==
  [][\A e, f \in Ends :
       /\ result[e] = "pending" /\ result[f] = "pending"
       /\ Side(e) = Side(f) /\ promiseId[e] < promiseId[f]
       /\ result'[f] = "success"
       => result'[e] = "success"]_vars

\* What makes the properties above inductive: the ids of waiting ends are those handed
\* out so far, each to one end.
PromiseIdsAreUnique ==
  \A side \in Sides : \A e \in waiting[side] :
    /\ promiseId[e] < nextPromiseId
    /\ \A f \in waiting[side] : promiseId[e] = promiseId[f] => e = f

IInv ==
  /\ TypeOK
  /\ NoTwoSidesWait
  /\ PipesHaveTwoEnds
  /\ PendingEndsAreWaiting
  /\ PromiseIdsAreUnique

\* Waits that are not to last
Due == {e \in Ends : result[e] = "pending" /\ (timed[e] \/ phase # "alive")}

\* A wait with a timeout ends, and ~mem_pipe_env ends every wait.
WaitsEnd == []<>(Due = {})

=============================================================================
