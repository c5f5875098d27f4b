---------------------------- MODULE PipeEnvProofs ----------------------------
(***************************************************************************)
(* Proofs about the environments that make pipes, for any number of calls  *)
(* and callers.                                                            *)
(***************************************************************************)
EXTENDS PipeEnvironments, Sequences, TLAPS

\* What the steps below need of numbers and of finite sets.  It is proved at the end of the
\* module, from the library that only those two proofs use.
LeastNumbers == \A S \in SUBSET Nat : S # {} => \E x \in S : \A y \in S : x <= y

CreatesCount == \A S \in SUBSET WinCreates : WinEnv!Cardinality(S) \in Nat

-----------------------------------------------------------------------------
(* The memory pipes.                                                       *)

\* A new environment satisfies the inductive invariant.
LEMMA InitIInv == Init => IInv
  BY SidesAssumption
     DEF Init, IInv, TypeOK, NoTwoSidesWait, PipesHaveTwoEnds, PendingEndsAreWaiting,
         PromiseIdsAreUnique, Sides, WaitResult

\* A cancellation, of one caller's ends or of all, preserves the invariant.
LEMMA CancelStep ==
  ASSUME IInv, NEW side \in Sides, NEW ids, Cancel(side, ids),
         phase' \in {"alive", "cancelClients", "cancelServers", "destroyed"}
  PROVE  IInv'
<1> DEFINE S == {e \in waiting[side] : clientId[e] \in ids}
<1>1. /\ waiting' = [waiting EXCEPT ![side] = @ \ S]
      /\ result' = [e \in Ends |-> IF e \in S THEN "canceled" ELSE result[e]]
      /\ UNCHANGED <<promiseId, nextPromiseId, clientId, timed, peer>>
      /\ timer' \in [Ends -> {"none", "armed", "expired"}]
  BY Zenon DEF Cancel, CancelTimers, IInv, TypeOK
<1>2. TypeOK /\ S \subseteq waiting[side] /\ S \subseteq Ends
  BY Zenon DEF IInv, TypeOK
<1>3. \A e \in S : result[e] = "pending" /\ Side(e) = side
  BY <1>2, Zenon DEF IInv, PendingEndsAreWaiting
<1> HIDE DEF S
<1>4. TypeOK'
  BY <1>1, <1>2, Zenon DEF TypeOK, WaitResult
<1>5. NoTwoSidesWait'
  BY <1>1, <1>2, Zenon DEF IInv, NoTwoSidesWait, TypeOK, Sides
<1>6. PipesHaveTwoEnds'
  BY <1>1, <1>2, <1>3, Zenon DEF IInv, PipesHaveTwoEnds, TypeOK
<1>7. PendingEndsAreWaiting'
  <2> SUFFICES ASSUME NEW x \in Sides
               PROVE  waiting'[x] = {e \in Ends : Side(e) = x /\ result'[e] = "pending"}
    BY Zenon DEF PendingEndsAreWaiting
  <2>1. waiting[x] = {e \in Ends : Side(e) = x /\ result[e] = "pending"}
    BY Zenon DEF IInv, PendingEndsAreWaiting
  <2>2. waiting'[x] = IF x = side THEN waiting[x] \ S ELSE waiting[x]
    BY <1>1, <1>2, Zenon DEF TypeOK
  <2> QED
    BY <1>1, <1>3, <2>1, <2>2, Zenon
<1>8. PromiseIdsAreUnique'
  BY <1>1, <1>2 DEF IInv, PromiseIdsAreUnique, TypeOK
<1> QED
  BY <1>4, <1>5, <1>6, <1>7, <1>8, Zenon DEF IInv

\* A call that waits gets the largest id so far, and nobody it could have met.
LEMMA WaitStep ==
  ASSUME IInv, NEW e \in Ends, result[e] = "idle", Wait(e), UNCHANGED <<clientId, timed, phase>>
  PROVE  IInv'
<1>0. TypeOK /\ Side(e) \in Sides
  BY Zenon DEF IInv, Side, Sides
<1>1. /\ e \notin waiting[Side(e)]
      /\ \A x \in Sides : waiting'[x] = IF x = Side(e) THEN waiting[x] \cup {e} ELSE waiting[x]
  BY <1>0, Zenon DEF IInv, PendingEndsAreWaiting, Wait, TypeOK
<1>2. TypeOK'
  BY <1>0 DEF TypeOK, Wait
<1>3. NoTwoSidesWait'
  BY <1>1, Zenon DEF NoTwoSidesWait, Wait, NobodyToMeet, Other, Sides, Side
<1>4. PipesHaveTwoEnds'
  BY <1>0, Zenon DEF IInv, PipesHaveTwoEnds, Wait, TypeOK
<1>5. PendingEndsAreWaiting'
  <2> SUFFICES ASSUME NEW x \in Sides
               PROVE  waiting'[x] = {f \in Ends : Side(f) = x /\ result'[f] = "pending"}
    BY Zenon DEF PendingEndsAreWaiting
  <2>1. waiting[x] = {f \in Ends : Side(f) = x /\ result[f] = "pending"}
    BY Zenon DEF IInv, PendingEndsAreWaiting
  <2> QED
    BY <1>0, <1>1, <2>1 DEF Wait, TypeOK
<1>6. PromiseIdsAreUnique'
  <2> SUFFICES ASSUME NEW x \in Sides, NEW f \in waiting'[x]
               PROVE  /\ promiseId'[f] < nextPromiseId'
                      /\ \A g \in waiting'[x] : promiseId'[f] = promiseId'[g] => f = g
    BY Zenon DEF PromiseIdsAreUnique
  <2>1. \A g \in waiting[x] : g \in Ends /\ promiseId[g] < nextPromiseId
    BY <1>0, Zenon DEF IInv, PromiseIdsAreUnique, TypeOK
  <2>2. \A g \in Ends : promiseId'[g] = IF g = e THEN nextPromiseId ELSE promiseId[g]
    BY <1>0, Zenon DEF Wait, TypeOK
  <2>3. \A g, h \in waiting[x] : promiseId[g] = promiseId[h] => g = h
    BY Zenon DEF IInv, PromiseIdsAreUnique
  <2>4. nextPromiseId' = nextPromiseId + 1 /\ nextPromiseId \in Nat /\ promiseId \in [Ends -> Nat]
    BY <1>0, Zenon DEF Wait, TypeOK
  <2>5. \A g \in waiting'[x] : g \in waiting[x] \/ g = e
    BY <1>1, Zenon
  <2> QED
    BY <2>1, <2>2, <2>3, <2>4, <2>5
<1> QED
  BY <1>2, <1>3, <1>4, <1>5, <1>6, Zenon DEF IInv

\* A timer that fires takes its own end out, if it is still there.
LEMMA TimerStep ==
  ASSUME IInv, NEW e \in Ends, TimerExpires(e) \/ RemovePromiseByTimeout(e)
  PROVE  IInv'
<1>0. TypeOK /\ Side(e) \in Sides
  BY Zenon DEF IInv, Side, Sides
<1>1. CASE TimerExpires(e)
  <2>1. UNCHANGED <<waiting, nextPromiseId, promiseId, clientId, timed, result, peer, phase>>
        /\ timer' \in [Ends -> {"none", "armed", "expired"}]
    BY <1>0, <1>1, Zenon DEF TimerExpires, TypeOK
  <2>2. TypeOK'
    BY <1>0, <2>1, Zenon DEF TypeOK
  <2>3. NoTwoSidesWait' /\ PipesHaveTwoEnds'
    BY <2>1, Zenon DEF IInv, NoTwoSidesWait, PipesHaveTwoEnds
  <2>4. PendingEndsAreWaiting'
    BY <2>1, Zenon DEF IInv, PendingEndsAreWaiting
  <2>5. PromiseIdsAreUnique'
    BY <2>1, Zenon DEF IInv, PromiseIdsAreUnique
  <2> QED
    BY <2>2, <2>3, <2>4, <2>5, Zenon DEF IInv
<1>2. CASE RemovePromiseByTimeout(e)
  <2>1. \A x \in Sides : waiting'[x] = IF x = Side(e) THEN waiting[x] \ {e} ELSE waiting[x]
    BY <1>0, <1>2, Zenon DEF RemovePromiseByTimeout, TypeOK
  <2>2. e \in waiting[Side(e)] <=> result[e] = "pending"
    BY <1>0, Zenon DEF IInv, PendingEndsAreWaiting
  <2>3. result' = [result EXCEPT ![e] = IF result[e] = "pending" THEN "timeout" ELSE @]
    BY <1>2, <2>2, Zenon DEF RemovePromiseByTimeout
  <2>4. UNCHANGED <<nextPromiseId, promiseId, clientId, timed, peer, phase>>
    BY <1>2, Zenon DEF RemovePromiseByTimeout
  <2>5. TypeOK'
    BY <1>0, <1>2, <2>3, Zenon DEF RemovePromiseByTimeout, TypeOK, WaitResult
  <2>6. NoTwoSidesWait'
    BY <2>1, Zenon DEF IInv, NoTwoSidesWait, Sides
  <2>7. PipesHaveTwoEnds'
    BY <1>0, <2>3, <2>4, Zenon DEF IInv, PipesHaveTwoEnds, TypeOK
  <2>8. PendingEndsAreWaiting'
    <3> SUFFICES ASSUME NEW x \in Sides
                 PROVE  waiting'[x] = {g \in Ends : Side(g) = x /\ result'[g] = "pending"}
      BY Zenon DEF PendingEndsAreWaiting
    <3>1. waiting[x] = {g \in Ends : Side(g) = x /\ result[g] = "pending"}
      BY Zenon DEF IInv, PendingEndsAreWaiting
    <3>2. \A g \in Ends : result'[g] = IF g = e /\ result[e] = "pending" THEN "timeout" ELSE result[g]
      BY <1>0, <2>3, Zenon DEF TypeOK
    <3> QED
      BY <2>1, <3>1, <3>2, Zenon
  <2>9. PromiseIdsAreUnique'
    BY <2>1, <2>4, Zenon DEF IInv, PromiseIdsAreUnique
  <2> QED
    BY <2>5, <2>6, <2>7, <2>8, <2>9, Zenon DEF IInv
<1> QED
  BY <1>1, <1>2, Zenon

\* A container that is not empty has a front: the smallest promise id.
LEMMA FrontExists ==
  ASSUME LeastNumbers, promiseId \in [Ends -> Nat], NEW S \in SUBSET Ends, S # {}
  PROVE  Front(S) \in S /\ \A f \in S : promiseId[Front(S)] <= promiseId[f]
<1> DEFINE Ids == {promiseId[e] : e \in S}
<1>1. Ids \subseteq Nat /\ Ids # {}
  BY Zenon
<1>2. \E x \in Ids : \A y \in Ids : x <= y
  <2> HIDE DEF Ids
  <2> QED  BY <1>1, Zenon DEF LeastNumbers
<1>3. PICK e \in S : \A f \in S : promiseId[e] <= promiseId[f]
  BY <1>2, Zenon
<1> QED
  BY <1>3, Zenon DEF Front

\* A call that meets somebody makes a pipe of the two.
LEMMA MeetStep ==
  ASSUME LeastNumbers, IInv, NEW e \in Ends, result[e] = "idle", Meet(e),
         UNCHANGED <<clientId, timed, phase>>
  PROVE  IInv'
<1> DEFINE others == waiting[Other(Side(e))]
<1>0. TypeOK /\ Other(Side(e)) \in Sides /\ Side(e) \in Sides /\ Other(Side(e)) # Side(e)
  BY Zenon DEF IInv, Side, Sides, Other
<1>1. PICK f : f = Front(others)
  BY Zenon
<1>2. f \in others /\ f \in Ends
  BY <1>0, <1>1, FrontExists, Zenon DEF TypeOK, Meet
<1>3. result[f] = "pending" /\ Side(f) = Other(Side(e)) /\ f # e
  BY <1>0, <1>2, Zenon DEF IInv, PendingEndsAreWaiting
<1>4. /\ waiting' = [waiting EXCEPT ![Side(f)] = @ \ {f}]
      /\ result' = [result EXCEPT ![e] = "success", ![f] = "success"]
      /\ peer' = [peer EXCEPT ![e] = f, ![f] = e]
      /\ UNCHANGED <<promiseId, nextPromiseId>>
      /\ timer' \in [Ends -> {"none", "armed", "expired"}]
  BY <1>0, <1>1, Zenon DEF Meet, CancelTimers, TypeOK
<1> HIDE DEF others
<1>5. \A x \in Sides : waiting'[x] = IF x = Side(f) THEN waiting[x] \ {f} ELSE waiting[x]
  BY <1>0, <1>4, Zenon DEF TypeOK
<1>6. TypeOK'
  BY <1>0, <1>2, <1>4, Zenon DEF TypeOK, WaitResult
<1>7. NoTwoSidesWait'
  BY <1>5, Zenon DEF IInv, NoTwoSidesWait, Sides
<1>8. PipesHaveTwoEnds'
  <2>1. peer[e] = NoEnd /\ peer[f] = NoEnd
    BY <1>2, <1>3, Zenon DEF IInv, PipesHaveTwoEnds
  <2>2. \A g \in Ends : peer[g] # NoEnd => peer[g] \in Ends /\ peer[peer[g]] = g /\ Side(peer[g]) # Side(g)
    BY <1>0 DEF IInv, PipesHaveTwoEnds, TypeOK
  <2>3. ASSUME NEW g \in Ends PROVE peer[g] # e /\ peer[g] # f
    <3>1. g # NoEnd /\ e # NoEnd /\ f # NoEnd
      BY <1>2, SidesAssumption, Zenon
    <3>2. peer[g] # NoEnd => peer[peer[g]] = g
      BY <2>2, Zenon
    <3> QED  BY <2>1, <3>1, <3>2, Zenon
  <2>4. \A g \in Ends : peer'[g] = IF g = e THEN f ELSE IF g = f THEN e ELSE peer[g]
    BY <1>0, <1>2, <1>3, <1>4, Zenon DEF TypeOK
  <2>5. \A g \in Ends : result'[g] = IF g = e \/ g = f THEN "success" ELSE result[g]
    BY <1>0, <1>2, <1>3, <1>4, Zenon DEF TypeOK
  <2>6. \A g \in Ends : result'[g] = "success" <=> peer'[g] # NoEnd
    BY <1>2, <2>4, <2>5, SidesAssumption DEF IInv, PipesHaveTwoEnds
  <2>7. \A g \in Ends : peer'[g] # NoEnd => peer'[peer'[g]] = g /\ Side(peer'[g]) # Side(g)
    BY <1>0, <1>2, <1>3, <2>2, <2>3, <2>4, Zenon
  <2> QED
    BY <2>6, <2>7, Zenon DEF PipesHaveTwoEnds
<1>9. PendingEndsAreWaiting'
  <2> SUFFICES ASSUME NEW x \in Sides
               PROVE  waiting'[x] = {g \in Ends : Side(g) = x /\ result'[g] = "pending"}
    BY Zenon DEF PendingEndsAreWaiting
  <2>1. waiting[x] = {g \in Ends : Side(g) = x /\ result[g] = "pending"}
    BY Zenon DEF IInv, PendingEndsAreWaiting
  <2>2. \A g \in Ends : result'[g] = IF g = e \/ g = f THEN "success" ELSE result[g]
    BY <1>0, <1>2, <1>3, <1>4, Zenon DEF TypeOK
  <2> QED
    BY <1>3, <1>5, <2>1, <2>2, Zenon
<1>10. PromiseIdsAreUnique'
  BY <1>4, <1>5 DEF IInv, PromiseIdsAreUnique
<1> QED
  BY <1>6, <1>7, <1>8, <1>9, <1>10, Zenon DEF IInv

\* Every step of the environment preserves the invariant.
LEMMA NextStep ==
  ASSUME LeastNumbers, IInv, [Next]_vars
  PROVE  IInv'
<1>1. ASSUME NEW e \in Ends, CreateNewPipeEnd(e) PROVE IInv'
  BY <1>1, WaitStep, MeetStep, Zenon DEF CreateNewPipeEnd
<1>2. ASSUME NEW e \in Ends, TimerExpires(e) \/ RemovePromiseByTimeout(e) PROVE IInv'
  BY <1>2, TimerStep, Zenon
<1>3. ASSUME NEW side \in Sides, NEW id \in ClientIds, CancelPendingEndpoints(side, id) PROVE IInv'
  BY <1>3, CancelStep, Zenon DEF CancelPendingEndpoints
<1>4. ASSUME NEW side \in Sides, CancelAllPendingEndpoints(side) PROVE IInv'
  BY <1>4, CancelStep, Zenon DEF CancelAllPendingEndpoints
<1>5. CASE BeginDestruction \/ UNCHANGED vars
  <2>1. UNCHANGED <<waiting, nextPromiseId, promiseId, clientId, timed, timer, result, peer>>
        /\ phase' \in {phase, "cancelClients"}
    BY <1>5, Zenon DEF BeginDestruction, vars
  <2> QED
    BY <2>1, Zenon
       DEF IInv, TypeOK, NoTwoSidesWait, PipesHaveTwoEnds, PendingEndsAreWaiting, PromiseIdsAreUnique
<1>6. CASE Destroy
  BY <1>6, CancelStep, Zenon DEF Destroy, Sides
<1> QED
  BY <1>1, <1>2, <1>3, <1>4, <1>5, <1>6, Zenon DEF Next

\* A call of create_new_pipe_end that meets somebody takes the front of the container: of two
\* ends that wait on one side the later is not served before the earlier.
LEMMA ServesTheFirst ==
  ASSUME LeastNumbers, IInv, Next
  PROVE  \A e, f \in Ends :
           /\ result[e] = "pending" /\ result[f] = "pending"
           /\ Side(e) = Side(f) /\ promiseId[e] < promiseId[f]
           /\ result'[f] = "success"
           => result'[e] = "success"
<1> SUFFICES ASSUME NEW e \in Ends, NEW f \in Ends, result[e] = "pending", result[f] = "pending",
                    Side(e) = Side(f), promiseId[e] < promiseId[f], result'[f] = "success"
             PROVE  FALSE
  BY Zenon
<1>0. TypeOK
  BY Zenon DEF IInv
<1>1. ASSUME NEW g \in Ends, CreateNewPipeEnd(g) PROVE FALSE
  <2>1. CASE Wait(g)
    BY <1>0, <2>1, Zenon DEF Wait, TypeOK
  <2>2. CASE Meet(g)
    <3>1. PICK h : h = Front(waiting[Other(Side(g))])
      BY Zenon
    <3>2. Other(Side(g)) \in Sides
      BY Zenon DEF Other, Side, Sides
    <3>3. /\ h \in waiting[Other(Side(g))]
          /\ \A k \in waiting[Other(Side(g))] : promiseId[h] <= promiseId[k]
      BY <1>0, <2>2, <3>1, <3>2, FrontExists, Zenon DEF TypeOK, Meet
    <3>4. f = h
      BY <1>0, <1>1, <2>2, <3>1, Zenon DEF Meet, CreateNewPipeEnd, TypeOK
    <3>5. e \in waiting[Other(Side(g))]
      BY <3>2, <3>3, <3>4, Zenon DEF IInv, PendingEndsAreWaiting
    <3> QED
      BY <1>0, <3>3, <3>4, <3>5 DEF TypeOK
  <2> QED
    BY <1>1, <2>1, <2>2, Zenon DEF CreateNewPipeEnd
<1>2. ASSUME NEW g \in Ends, TimerExpires(g) \/ RemovePromiseByTimeout(g) PROVE FALSE
  BY <1>0, <1>2, Zenon DEF TimerExpires, RemovePromiseByTimeout, TypeOK
<1>3. ASSUME NEW side \in Sides, NEW ids, Cancel(side, ids) PROVE FALSE
  BY <1>3, Zenon DEF Cancel
<1>4. ~BeginDestruction
  BY Zenon DEF BeginDestruction
<1> QED
  BY <1>1, <1>2, <1>3, <1>4, Zenon
     DEF Next, CancelPendingEndpoints, CancelAllPendingEndpoints, Destroy, Sides

-----------------------------------------------------------------------------
(* The TCP environments.                                                   *)

\* The one of the list with the smallest number
TcpFirst(o) == o \in te_list /\ \A p \in te_list : p = o \/ TcpEnv!Id(o) < TcpEnv!Id(p)

\* What the list and the promise of a create_pipe say of it: the first of the list is
\* started and has the accept until its promise is set, the others are untouched, and none
\* leaves the list before its promise is set.
TcpCreateOK(o) ==
  /\ te_result[o] = "idle" =>
       o \notin te_list /\ te_io[o] = "none" /\ te_after[o] = "none" /\ te_settled[o] = 0
         /\ te_canceled[o] = "no" /\ ~te_started[o]
  /\ te_result[o] = "pending" => o \in te_list /\ te_after[o] = "none" /\ te_settled[o] = 0
  /\ te_result[o] \in TcpEnv!Done =>
       te_io[o] = "none" /\ te_after[o] # "none" /\ te_settled[o] = 1
  /\ TcpFirst(o) => te_started[o] /\ (te_result[o] = "pending" => te_io[o] # "none")
  /\ o \in te_list /\ ~TcpFirst(o) =>
       ~te_started[o] /\ te_canceled[o] = "no" /\ te_result[o] = "pending" /\ te_io[o] = "none"
  /\ o \in te_list => te_after[o] # "over"

\* What the promise of an open_pipe says of its socket: it is open until a cancelation closes
\* it, and an endpoint that was handed out keeps it.
TcpOpenOK(o) ==
  /\ te_result[o] = "idle" =>
       o \notin te_opening /\ te_io[o] = "none" /\ te_after[o] = "none" /\ te_settled[o] = 0
         /\ te_canceled[o] = "no"
  /\ te_result[o] = "pending" =>
       te_io[o] # "none" /\ te_after[o] = "none" /\ te_settled[o] = 0
         /\ te_socket[o] = (IF te_canceled[o] = "no" THEN "open" ELSE "closed")
  /\ te_result[o] \in TcpEnv!Done =>
       te_io[o] = "none" /\ te_after[o] # "none" /\ te_settled[o] = 1
  /\ te_result[o] = "success" => te_socket[o] = "open"
  /\ te_result[o] \in {"timeout", "canceled"} => te_socket[o] = "closed"

\* The create_pipe operations are numbered as they are listed.
TcpNumbers ==
  \A o \in te_list :
    /\ TcpEnv!Id(o) \in Nat
    /\ TcpEnv!Id(o) < te_nextId
    /\ \A p \in te_list : TcpEnv!Id(o) = TcpEnv!Id(p) => o = p

\* What the steps of the TCP environments preserve.
TcpEnvInv ==
  /\ TcpEnv!TypeOK
  /\ TcpNumbers
  /\ \A o \in TcpCreates : TcpCreateOK(o)
  /\ \A o \in TcpOpens : TcpOpenOK(o)

\* New TCP environments satisfy the invariant.
LEMMA TcpEnvInitially == TcpEnv!Init => TcpEnvInv
<1> SUFFICES ASSUME TcpEnv!Init PROVE TcpEnvInv
  OBVIOUS
<1>1. TcpEnv!TypeOK
  BY DEF TcpEnv!Init, TcpEnv!TypeOK, TcpEnv!Ops
<1>2. TcpNumbers
  BY Zenon DEF TcpEnv!Init, TcpNumbers
<1>3. \A o \in TcpCreates : TcpCreateOK(o)
  BY Zenon DEF TcpEnv!Init, TcpCreateOK, TcpFirst, TcpEnv!Ops, TcpEnv!Done
<1>4. \A o \in TcpOpens : TcpOpenOK(o)
  BY Zenon DEF TcpEnv!Init, TcpOpenOK, TcpEnv!Ops, TcpEnv!Done
<1> QED  BY <1>1, <1>2, <1>3, <1>4, Zenon DEF TcpEnvInv

\* A create_pipe that a step of another operation does not touch keeps what the invariant
\* says of it.
LEMMA TcpCreateUntouched ==
  ASSUME NEW p, TcpCreateOK(p), te_result'[p] = te_result[p], te_io'[p] = te_io[p],
         te_after'[p] = te_after[p], te_settled'[p] = te_settled[p],
         te_canceled'[p] = te_canceled[p], te_started'[p] = te_started[p],
         p \in te_list' <=> p \in te_list, TcpFirst(p)' <=> TcpFirst(p)
  PROVE  TcpCreateOK(p)'
  BY Zenon DEF TcpCreateOK, TcpEnv!Done

\* An open_pipe that a step of another operation does not touch keeps what the invariant
\* says of it.
LEMMA TcpOpenUntouched ==
  ASSUME NEW p, TcpOpenOK(p), te_result'[p] = te_result[p], te_io'[p] = te_io[p],
         te_after'[p] = te_after[p], te_settled'[p] = te_settled[p],
         te_canceled'[p] = te_canceled[p], te_socket'[p] = te_socket[p],
         p \in te_opening' => p \in te_opening
  PROVE  TcpOpenOK(p)'
  BY Zenon DEF TcpOpenOK, TcpEnv!Done

\* While m_create_operations stays as it is so do its numbers and its first.
LEMMA TcpSameList ==
  ASSUME TcpNumbers, te_list' = te_list, te_nextId' = te_nextId
  PROVE  TcpNumbers' /\ \A p : TcpFirst(p)' <=> TcpFirst(p)
  BY Zenon DEF TcpNumbers, TcpFirst, TcpEnv!Id

\* What a call or a handler that sets one promise of the environments leaves in it.
LEMMA TcpCompleteOne ==
  ASSUME TcpEnv!TypeOK, NEW o \in TcpEnv!Ops, NEW r \in TcpEnv!Done, te_settled[o] = 0,
         te_result' = [p \in TcpEnv!Ops |-> IF p \in {o} THEN r ELSE te_result[p]],
         te_settled' = [p \in TcpEnv!Ops |-> IF p \in {o} /\ te_settled[p] < 2
                                              THEN te_settled[p] + 1 ELSE te_settled[p]],
         te_after' = [p \in TcpEnv!Ops |-> IF p \in {o} THEN "posted" ELSE te_after[p]]
  PROVE  /\ te_result' \in [TcpEnv!Ops -> {"idle", "pending"} \cup TcpEnv!Done]
         /\ te_settled' \in [TcpEnv!Ops -> 0..2]
         /\ te_after' \in [TcpEnv!Ops -> {"none", "posted", "over"}]
         /\ te_result'[o] = r /\ te_settled'[o] = 1 /\ te_after'[o] = "posted"
         /\ \A p \in TcpEnv!Ops \ {o} :
              /\ te_result'[p] = te_result[p]
              /\ te_settled'[p] = te_settled[p]
              /\ te_after'[p] = te_after[p]
<1>1. te_settled'[o] = 1 /\ \A p \in TcpEnv!Ops \ {o} : te_settled'[p] = te_settled[p]
  BY DEF TcpEnv!TypeOK
<1>2. te_settled' \in [TcpEnv!Ops -> 0..2]
  <2>1. 1 \in 0..2
    OBVIOUS
  <2>2. \A p \in TcpEnv!Ops : te_settled'[p] \in 0..2
    BY <1>1, <2>1, Zenon DEF TcpEnv!TypeOK
  <2> QED  BY <2>2, Zenon
<1> QED  BY <1>1, <1>2, Zenon DEF TcpEnv!TypeOK

\* create_pipe preserves the invariant: the new operation is the last of the list, and its
\* accept starts only when it is the only one.
LEMMA TcpCreatePipeStep ==
  ASSUME TcpEnvInv, NEW o \in TcpCreates, TcpEnv!CreatePipe(o)
  PROVE  TcpEnvInv'
<1>1. /\ TcpEnv!TypeOK /\ TcpNumbers /\ te_result[o] = "idle" /\ o \in TcpEnv!Ops
      /\ TcpEnv!Id(o) = te_nextId /\ te_nextId \in Nat /\ te_nextId' = te_nextId + 1
      /\ te_list \subseteq TcpCreates /\ te_list' = te_list \cup {o}
  BY Zenon DEF TcpEnvInv, TcpEnv!TypeOK, TcpEnv!CreatePipe, TcpEnv!Begin, TcpEnv!Ops
<1>2. /\ te_result' = [te_result EXCEPT ![o] = "pending"]
      /\ te_timer' = [te_timer EXCEPT ![o] = o \in TcpTimedWaits]
      /\ te_started' = [te_started EXCEPT ![o] = (te_list = {})]
      /\ te_io' = [te_io EXCEPT ![o] = IF te_list = {} THEN "waiting" ELSE te_io[o]]
      /\ UNCHANGED <<te_opening, te_canceled, te_socket, te_settled, te_after, te_backlog>>
  BY Zenon DEF TcpEnv!CreatePipe, TcpEnv!Begin
<1>3. o \notin te_list /\ te_io[o] = "none" /\ te_after[o] = "none" /\ te_settled[o] = 0
        /\ te_canceled[o] = "no"
  BY <1>1, Zenon DEF TcpEnvInv, TcpCreateOK
<1>4. TcpEnv!TypeOK'
  <2>1. te_nextId + 1 \in Nat
    BY <1>1
  <2>2. (o \in TcpTimedWaits) \in BOOLEAN /\ (te_list = {}) \in BOOLEAN
    OBVIOUS
  <2>3. te_timer' \in [TcpEnv!Ops -> BOOLEAN] /\ te_started' \in [TcpCreates -> BOOLEAN]
    BY <1>1, <1>2, <2>2, Zenon DEF TcpEnv!TypeOK
  <2>4. te_io' \in [TcpEnv!Ops -> {"none", "waiting", "ok", "error"}]
    BY <1>1, <1>2, Zenon DEF TcpEnv!TypeOK
  <2>5. te_result' \in [TcpEnv!Ops -> {"idle", "pending"} \cup TcpEnv!Done]
    BY <1>1, <1>2, Zenon DEF TcpEnv!TypeOK
  <2> QED  BY <1>1, <1>2, <2>1, <2>3, <2>4, <2>5, Zenon DEF TcpEnv!TypeOK
<1>5. \A p \in te_list : TcpEnv!Id(p) \in Nat /\ TcpEnv!Id(p) < TcpEnv!Id(o)
  BY <1>1, Zenon DEF TcpNumbers
<1>6. TcpNumbers'
  <2>1. \A p \in te_list' : TcpEnv!Id(p) \in Nat /\ TcpEnv!Id(p) < te_nextId + 1
    BY <1>1, <1>5
  <2>2. \A m, n \in Nat : m < n => m # n
    OBVIOUS
  <2>3. \A p, q \in te_list' : TcpEnv!Id(p) = TcpEnv!Id(q) => p = q
    BY <1>1, <1>5, <2>2, Zenon DEF TcpNumbers
  <2> QED  BY <1>1, <2>1, <2>3, Zenon DEF TcpNumbers, TcpEnv!Id
<1>7. \A p \in te_list : TcpFirst(p)' <=> TcpFirst(p)
  BY <1>1, <1>3, <1>5, Zenon DEF TcpFirst, TcpEnv!Id
<1>8. TcpFirst(o)' <=> te_list = {}
  <2>1. \A m, n \in Nat : m < n => ~(n < m)
    OBVIOUS
  <2> QED  BY <1>1, <1>3, <1>5, <2>1, Zenon DEF TcpFirst, TcpEnv!Id
<1>9. ASSUME NEW p \in TcpCreates PROVE TcpCreateOK(p)'
  <2>1. CASE p = o
    BY <1>1, <1>2, <1>3, <1>8, <2>1, Zenon DEF TcpCreateOK, TcpEnv!Done, TcpEnv!TypeOK, TcpEnv!Ops
  <2>2. CASE p # o
    <3>1. TcpFirst(p)' <=> TcpFirst(p)
      BY <1>1, <1>7, <2>2, Zenon DEF TcpFirst
    <3> QED
      BY <1>1, <1>2, <2>2, <3>1, TcpCreateUntouched, Zenon
         DEF TcpEnvInv, TcpEnv!TypeOK, TcpEnv!Ops
  <2> QED  BY <2>1, <2>2, Zenon
<1>10. ASSUME NEW p \in TcpOpens PROVE TcpOpenOK(p)'
  <2>1. p # o
    BY WaitNames, Zenon
  <2> QED
    BY <1>1, <1>2, <2>1, TcpOpenUntouched, Zenon DEF TcpEnvInv, TcpEnv!TypeOK, TcpEnv!Ops
<1> QED  BY <1>4, <1>6, <1>9, <1>10, Zenon DEF TcpEnvInv

\* async_accept of the first operation completes, with a socket or without: its handler is
\* queued and the list stays.
LEMMA TcpAcceptStep ==
  ASSUME TcpEnvInv, NEW o \in TcpCreates, TcpEnv!Accept(o)
  PROVE  TcpEnvInv'
<1>1. /\ TcpEnv!TypeOK /\ TcpNumbers /\ te_io[o] = "waiting"
      /\ te_io' \in {[te_io EXCEPT ![o] = "ok"], [te_io EXCEPT ![o] = "error"]}
      /\ UNCHANGED <<te_list, te_nextId, te_opening, te_started, te_canceled, te_socket,
                     te_timer, te_result, te_settled, te_after>>
  BY Zenon DEF TcpEnvInv, TcpEnv!Accept
<1>2. te_backlog' \in Seq(TcpOpens)
  <2>1. te_backlog \in Seq(TcpOpens)
    BY Zenon DEF TcpEnvInv, TcpEnv!TypeOK
  <2>2. te_backlog' = te_backlog \/ (te_backlog # <<>> /\ te_backlog' = Tail(te_backlog))
    BY Zenon DEF TcpEnv!Accept
  <2> QED  BY <2>1, <2>2
<1>3. TcpEnv!TypeOK'
  BY <1>1, <1>2, Zenon DEF TcpEnv!TypeOK, TcpEnv!Ops
<1>4. TcpNumbers' /\ \A p : TcpFirst(p)' <=> TcpFirst(p)
  BY <1>1, TcpSameList, Zenon
<1>5. ASSUME NEW p \in TcpCreates PROVE TcpCreateOK(p)'
  <2>1. CASE p = o
    <3>1. te_io'[o] \in {"ok", "error"}
      BY <1>1, Zenon DEF TcpEnv!TypeOK, TcpEnv!Ops
    <3> QED
      BY <1>1, <1>4, <2>1, <3>1, Zenon DEF TcpEnvInv, TcpCreateOK, TcpEnv!Done
  <2>2. CASE p # o
    BY <1>1, <1>4, <2>2, TcpCreateUntouched, Zenon DEF TcpEnvInv, TcpEnv!TypeOK, TcpEnv!Ops
  <2> QED  BY <2>1, <2>2, Zenon
<1>6. ASSUME NEW p \in TcpOpens PROVE TcpOpenOK(p)'
  <2>1. p # o
    BY WaitNames, Zenon
  <2> QED
    BY <1>1, <2>1, TcpOpenUntouched, Zenon DEF TcpEnvInv, TcpEnv!TypeOK, TcpEnv!Ops
<1> QED  BY <1>3, <1>4, <1>5, <1>6, Zenon DEF TcpEnvInv

\* The handler of async_accept sets the promise of its operation, with the result of a
\* cancelation that was faster; the operation is the first of the list and stays in it until
\* on_completed.
LEMMA TcpAcceptHandlerStep ==
  ASSUME TcpEnvInv, NEW o \in TcpCreates, TcpEnv!AcceptHandler(o)
  PROVE  TcpEnvInv'
<1>1. /\ TcpEnv!TypeOK /\ TcpNumbers /\ o \in TcpEnv!Ops
      /\ te_io[o] \in {"ok", "error"} /\ te_io' = [te_io EXCEPT ![o] = "none"]
      /\ UNCHANGED <<te_list, te_nextId, te_opening, te_started, te_canceled, te_socket,
                     te_timer, te_backlog>>
  BY Zenon DEF TcpEnvInv, TcpEnv!AcceptHandler, TcpEnv!Ops
<1>2. te_settled[o] = 0 /\ te_result[o] = "pending" /\ o \in te_list /\ TcpFirst(o)
  BY <1>1, Zenon DEF TcpEnvInv, TcpCreateOK, TcpEnv!TypeOK
<1>3. PICK r \in TcpEnv!Done :
        /\ te_result' = [p \in TcpEnv!Ops |-> IF p \in {o} THEN r ELSE te_result[p]]
        /\ te_settled' = [p \in TcpEnv!Ops |-> IF p \in {o} /\ te_settled[p] < 2
                                              THEN te_settled[p] + 1 ELSE te_settled[p]]
        /\ te_after' = [p \in TcpEnv!Ops |-> IF p \in {o} THEN "posted" ELSE te_after[p]]
  BY Zenon DEF TcpEnv!AcceptHandler, TcpEnv!Complete, TcpEnv!CancelResult, TcpEnv!Done
<1>4. /\ te_result' \in [TcpEnv!Ops -> {"idle", "pending"} \cup TcpEnv!Done]
      /\ te_settled' \in [TcpEnv!Ops -> 0..2]
      /\ te_after' \in [TcpEnv!Ops -> {"none", "posted", "over"}]
      /\ te_result'[o] = r /\ te_settled'[o] = 1 /\ te_after'[o] = "posted"
      /\ \A p \in TcpEnv!Ops \ {o} : /\ te_result'[p] = te_result[p]
                                     /\ te_settled'[p] = te_settled[p]
                                     /\ te_after'[p] = te_after[p]
  BY <1>1, <1>2, <1>3, TcpCompleteOne, Zenon
<1>5. TcpEnv!TypeOK'
  BY <1>1, <1>4, Zenon DEF TcpEnv!TypeOK
<1>6. TcpNumbers' /\ \A p : TcpFirst(p)' <=> TcpFirst(p)
  BY <1>1, TcpSameList, Zenon
<1>7. ASSUME NEW p \in TcpCreates PROVE TcpCreateOK(p)'
  <2>1. CASE p = o
    <3>0. te_started[o] /\ TcpFirst(o)'
      BY <1>2, <1>6, Zenon DEF TcpEnvInv, TcpCreateOK
    <3>1. te_io'[o] = "none" /\ te_started'[o] /\ te_result'[o] \in TcpEnv!Done /\ TcpFirst(o)'
      BY <1>1, <1>4, <3>0, Zenon DEF TcpEnv!TypeOK
    <3> QED  BY <1>1, <1>4, <2>1, <3>1, Zenon DEF TcpCreateOK, TcpEnv!Done
  <2>2. CASE p # o
    BY <1>1, <1>4, <1>6, <2>2, TcpCreateUntouched, Zenon
       DEF TcpEnvInv, TcpEnv!TypeOK, TcpEnv!Ops
  <2> QED  BY <2>1, <2>2, Zenon
<1>8. ASSUME NEW p \in TcpOpens PROVE TcpOpenOK(p)'
  <2>1. p # o
    BY WaitNames, Zenon
  <2> QED
    BY <1>1, <1>4, <2>1, TcpOpenUntouched, Zenon DEF TcpEnvInv, TcpEnv!TypeOK, TcpEnv!Ops
<1> QED  BY <1>5, <1>6, <1>7, <1>8, Zenon DEF TcpEnvInv

\* A step of the client side leaves the operations of the server side alone.
LEMMA TcpClientSteps ==
  ASSUME TcpEnvInv, UNCHANGED <<te_list, te_nextId, te_started>>,
         \A p \in TcpCreates : /\ te_result'[p] = te_result[p] /\ te_io'[p] = te_io[p]
                               /\ te_after'[p] = te_after[p] /\ te_settled'[p] = te_settled[p]
                               /\ te_canceled'[p] = te_canceled[p]
  PROVE  TcpNumbers' /\ \A p \in TcpCreates : TcpCreateOK(p)'
<1>1. TcpNumbers' /\ \A p : TcpFirst(p)' <=> TcpFirst(p)
  BY TcpSameList, Zenon DEF TcpEnvInv
<1> QED  BY <1>1, TcpCreateUntouched, Zenon DEF TcpEnvInv

\* open_pipe preserves the invariant, whether its connect starts or its socket cannot be
\* opened and the promise is set at once.
LEMMA TcpOpenPipeStep ==
  ASSUME TcpEnvInv, NEW o \in TcpOpens, TcpEnv!OpenPipe(o)
  PROVE  TcpEnvInv'
<1>1. /\ TcpEnv!TypeOK /\ o \in TcpEnv!Ops /\ te_result[o] = "idle"
      /\ te_timer' = [te_timer EXCEPT ![o] = o \in TcpTimedWaits]
      /\ te_opening' = te_opening \cup {o}
      /\ UNCHANGED <<te_list, te_nextId, te_started, te_canceled, te_backlog>>
  BY Zenon DEF TcpEnvInv, TcpEnv!OpenPipe, TcpEnv!Ops
<1>2. te_io[o] = "none" /\ te_after[o] = "none" /\ te_settled[o] = 0 /\ te_canceled[o] = "no"
  BY <1>1, Zenon DEF TcpEnvInv, TcpOpenOK
<1>3. te_timer' \in [TcpEnv!Ops -> BOOLEAN] /\ te_opening' \subseteq TcpOpens
  <2>1. (o \in TcpTimedWaits) \in BOOLEAN
    OBVIOUS
  <2> QED  BY <1>1, <2>1, Zenon DEF TcpEnv!TypeOK
<1>4. \A p \in TcpCreates : p # o /\ p \in TcpEnv!Ops
  BY WaitNames, Zenon DEF TcpEnv!Ops
<1>5. \A p \in TcpOpens : p \in TcpEnv!Ops
  BY Zenon DEF TcpEnv!Ops
<1>6. CASE /\ te_result' = [te_result EXCEPT ![o] = "pending"]
           /\ te_io' = [te_io EXCEPT ![o] = "waiting"]
           /\ te_socket' = [te_socket EXCEPT ![o] = "open"]
           /\ UNCHANGED <<te_settled, te_after>>
  <2>1. TcpEnv!TypeOK'
    BY <1>1, <1>3, <1>6, Zenon DEF TcpEnv!TypeOK
  <2>2. TcpNumbers' /\ \A p \in TcpCreates : TcpCreateOK(p)'
    BY <1>1, <1>4, <1>6, TcpClientSteps, Zenon DEF TcpEnv!TypeOK
  <2>3. TcpOpenOK(o)'
    <3>1. te_result'[o] = "pending" /\ te_io'[o] = "waiting" /\ te_socket'[o] = "open"
      BY <1>1, <1>6, Zenon DEF TcpEnv!TypeOK
    <3> QED  BY <1>1, <1>2, <1>6, <3>1, Zenon DEF TcpOpenOK, TcpEnv!Done
  <2>4. ASSUME NEW p \in TcpOpens, p # o PROVE TcpOpenOK(p)'
    BY <1>1, <1>5, <1>6, <2>4, TcpOpenUntouched, Zenon DEF TcpEnvInv, TcpEnv!TypeOK
  <2> QED  BY <2>1, <2>2, <2>3, <2>4, Zenon DEF TcpEnvInv
<1>7. CASE TcpEnv!Complete({o}, LAMBDA p : "failed") /\ UNCHANGED <<te_io, te_socket>>
  <2>0. "failed" \in TcpEnv!Done
    BY Zenon DEF TcpEnv!Done
  <2>1. /\ te_result' = [p \in TcpEnv!Ops |-> IF p \in {o} THEN "failed" ELSE te_result[p]]
        /\ te_settled' = [p \in TcpEnv!Ops |-> IF p \in {o} /\ te_settled[p] < 2
                                               THEN te_settled[p] + 1 ELSE te_settled[p]]
        /\ te_after' = [p \in TcpEnv!Ops |-> IF p \in {o} THEN "posted" ELSE te_after[p]]
    BY <1>7, Zenon DEF TcpEnv!Complete
  <2>2. /\ te_result' \in [TcpEnv!Ops -> {"idle", "pending"} \cup TcpEnv!Done]
        /\ te_settled' \in [TcpEnv!Ops -> 0..2]
        /\ te_after' \in [TcpEnv!Ops -> {"none", "posted", "over"}]
        /\ te_result'[o] = "failed" /\ te_settled'[o] = 1 /\ te_after'[o] = "posted"
        /\ \A p \in TcpEnv!Ops \ {o} : /\ te_result'[p] = te_result[p]
                                       /\ te_settled'[p] = te_settled[p]
                                       /\ te_after'[p] = te_after[p]
    BY <1>1, <1>2, <2>0, <2>1, TcpCompleteOne, Zenon
  <2>3. TcpEnv!TypeOK'
    BY <1>1, <1>3, <1>7, <2>2, Zenon DEF TcpEnv!TypeOK
  <2>4. TcpNumbers' /\ \A p \in TcpCreates : TcpCreateOK(p)'
    BY <1>1, <1>4, <1>7, <2>2, TcpClientSteps, Zenon
  <2>5. TcpOpenOK(o)'
    BY <1>2, <1>7, <2>2, Zenon DEF TcpOpenOK, TcpEnv!Done
  <2>6. ASSUME NEW p \in TcpOpens, p # o PROVE TcpOpenOK(p)'
    BY <1>1, <1>5, <1>7, <2>2, <2>6, TcpOpenUntouched, Zenon DEF TcpEnvInv
  <2> QED  BY <2>3, <2>4, <2>5, <2>6, Zenon DEF TcpEnvInv
<1> QED  BY <1>6, <1>7, Zenon DEF TcpEnv!OpenPipe

\* async_connect completes, with a socket or without, and its handler is queued.
LEMMA TcpConnectStep ==
  ASSUME TcpEnvInv, NEW o \in TcpOpens, TcpEnv!Connect(o)
  PROVE  TcpEnvInv'
<1>1. /\ TcpEnv!TypeOK /\ o \in TcpEnv!Ops /\ te_io[o] = "waiting"
      /\ te_io' \in {[te_io EXCEPT ![o] = "ok"], [te_io EXCEPT ![o] = "error"]}
      /\ UNCHANGED <<te_list, te_nextId, te_opening, te_started, te_canceled, te_socket,
                     te_timer, te_result, te_settled, te_after>>
  BY Zenon DEF TcpEnvInv, TcpEnv!Connect, TcpEnv!Ops
<1>2. te_backlog' \in Seq(TcpOpens)
  <2>1. te_backlog \in Seq(TcpOpens)
    BY Zenon DEF TcpEnvInv, TcpEnv!TypeOK
  <2>2. te_backlog' = te_backlog \/ te_backlog' = Append(te_backlog, o)
    BY Zenon DEF TcpEnv!Connect
  <2> QED  BY <2>1, <2>2
<1>3. TcpEnv!TypeOK'
  BY <1>1, <1>2, Zenon DEF TcpEnv!TypeOK
<1>4. \A p \in TcpEnv!Ops \ {o} : te_io'[p] = te_io[p]
  BY <1>1, Zenon DEF TcpEnv!TypeOK
<1>5. \A p \in TcpCreates : p # o /\ p \in TcpEnv!Ops
  BY WaitNames, Zenon DEF TcpEnv!Ops
<1>6. TcpNumbers' /\ \A p \in TcpCreates : TcpCreateOK(p)'
  BY <1>1, <1>4, <1>5, TcpClientSteps, Zenon
<1>7. TcpOpenOK(o)'
  <2>1. te_io'[o] \in {"ok", "error"}
    BY <1>1, Zenon DEF TcpEnv!TypeOK
  <2>2. TcpOpenOK(o)
    BY Zenon DEF TcpEnvInv
  <2> QED  BY <1>1, <2>1, <2>2, Zenon DEF TcpOpenOK, TcpEnv!Done
<1>8. ASSUME NEW p \in TcpOpens, p # o PROVE TcpOpenOK(p)'
  BY <1>1, <1>4, <1>8, TcpOpenUntouched, Zenon DEF TcpEnvInv, TcpEnv!Ops
<1> QED  BY <1>3, <1>6, <1>7, <1>8, Zenon DEF TcpEnvInv

\* The handler of async_connect sets the promise of its operation, with the result of a
\* cancelation that was faster.
LEMMA TcpConnectHandlerStep ==
  ASSUME TcpEnvInv, NEW o \in TcpOpens, TcpEnv!ConnectHandler(o)
  PROVE  TcpEnvInv'
<1> DEFINE r == CASE te_canceled[o] # "no" -> TcpEnv!CancelResult(te_canceled[o])
                  [] te_canceled[o] = "no" /\ te_io[o] = "error" -> "failed"
                  [] OTHER -> "success"
<1>1. /\ TcpEnv!TypeOK /\ o \in TcpEnv!Ops /\ te_io[o] \in {"ok", "error"}
      /\ te_io' = [te_io EXCEPT ![o] = "none"]
      /\ UNCHANGED <<te_list, te_nextId, te_opening, te_started, te_canceled, te_socket,
                     te_timer, te_backlog>>
  BY Zenon DEF TcpEnvInv, TcpEnv!ConnectHandler, TcpEnv!Ops
<1>2. /\ te_result' = [p \in TcpEnv!Ops |-> IF p \in {o} THEN r ELSE te_result[p]]
      /\ te_settled' = [p \in TcpEnv!Ops |-> IF p \in {o} /\ te_settled[p] < 2
                                             THEN te_settled[p] + 1 ELSE te_settled[p]]
      /\ te_after' = [p \in TcpEnv!Ops |-> IF p \in {o} THEN "posted" ELSE te_after[p]]
  BY Zenon DEF TcpEnv!ConnectHandler, TcpEnv!Complete
<1>3. r \in TcpEnv!Done /\ (r = "success" => te_canceled[o] = "no")
        /\ (r \in {"timeout", "canceled"} => te_canceled[o] # "no")
  BY <1>1, Zenon DEF TcpEnv!CancelResult, TcpEnv!Done
<1>4. te_result[o] = "pending" /\ te_settled[o] = 0
        /\ te_socket[o] = (IF te_canceled[o] = "no" THEN "open" ELSE "closed")
  BY <1>1, Zenon DEF TcpEnvInv, TcpOpenOK, TcpEnv!TypeOK
<1> HIDE DEF r
<1>5. /\ te_result' \in [TcpEnv!Ops -> {"idle", "pending"} \cup TcpEnv!Done]
      /\ te_settled' \in [TcpEnv!Ops -> 0..2]
      /\ te_after' \in [TcpEnv!Ops -> {"none", "posted", "over"}]
      /\ te_result'[o] = r /\ te_settled'[o] = 1 /\ te_after'[o] = "posted"
      /\ \A p \in TcpEnv!Ops \ {o} : /\ te_result'[p] = te_result[p]
                                     /\ te_settled'[p] = te_settled[p]
                                     /\ te_after'[p] = te_after[p]
  BY <1>1, <1>2, <1>3, <1>4, TcpCompleteOne, Zenon
<1>6. te_io'[o] = "none" /\ \A p \in TcpEnv!Ops \ {o} : te_io'[p] = te_io[p]
  BY <1>1, Zenon DEF TcpEnv!TypeOK
<1>7. TcpEnv!TypeOK'
  BY <1>1, <1>5, Zenon DEF TcpEnv!TypeOK
<1>8. TcpNumbers' /\ \A p \in TcpCreates : TcpCreateOK(p)'
  <2>1. \A p \in TcpCreates : p # o /\ p \in TcpEnv!Ops
    BY WaitNames, Zenon DEF TcpEnv!Ops
  <2> QED  BY <1>1, <1>5, <1>6, <2>1, TcpClientSteps, Zenon
<1>9. TcpOpenOK(o)'
  <2>1. "idle" \notin TcpEnv!Done /\ "pending" \notin TcpEnv!Done
    BY Zenon DEF TcpEnv!Done
  <2> QED  BY <1>1, <1>3, <1>4, <1>5, <1>6, <2>1, Zenon DEF TcpOpenOK
<1>10. ASSUME NEW p \in TcpOpens, p # o PROVE TcpOpenOK(p)'
  BY <1>1, <1>5, <1>6, <1>10, TcpOpenUntouched, Zenon DEF TcpEnvInv, TcpEnv!Ops
<1> QED  BY <1>7, <1>8, <1>9, <1>10, Zenon DEF TcpEnvInv

\* open_operation::cancel, on any listed operations, preserves the invariant: it closes the
\* socket of a connect under way and not one that an endpoint has.
LEMMA TcpCancelOpensStep ==
  ASSUME TcpEnvInv, NEW S \in SUBSET te_opening, NEW how \in {"user", "timer"},
         TcpEnv!CancelOpens(S, how), te_timer' \in [TcpEnv!Ops -> BOOLEAN],
         UNCHANGED <<te_list, te_nextId, te_opening, te_started, te_result, te_settled,
                     te_after, te_backlog>>
  PROVE  TcpEnvInv'
<1> DEFINE hit == {o \in S : te_canceled[o] = "no"}
           mine == {o \in hit : te_socket[o] = "open" /\ te_result[o] # "success"}
<1>1. /\ te_canceled' = [o \in TcpEnv!Ops |-> IF o \in hit THEN how ELSE te_canceled[o]]
      /\ te_socket' = [o \in TcpOpens |-> IF o \in mine THEN "closed" ELSE te_socket[o]]
      /\ te_io' = [o \in TcpEnv!Ops |-> IF o \in mine /\ te_io[o] = "waiting" THEN "error" ELSE te_io[o]]
  BY Zenon DEF TcpEnv!CancelOpens
<1>2. TcpEnv!TypeOK /\ hit \subseteq TcpOpens /\ mine \subseteq hit /\ hit \subseteq te_opening
        /\ TcpOpens \subseteq TcpEnv!Ops
  BY Zenon DEF TcpEnvInv, TcpEnv!TypeOK, TcpEnv!Ops
<1>3. \A o \in TcpOpens : /\ o \in hit => te_canceled[o] = "no"
                          /\ o \in mine <=> o \in hit /\ te_socket[o] = "open" /\ te_result[o] # "success"
  BY Zenon
<1> HIDE DEF hit, mine
<1>4. TcpEnv!TypeOK'
  <2>1. te_canceled' \in [TcpEnv!Ops -> {"no", "user", "timer"}]
    BY <1>1, <1>2, Zenon DEF TcpEnv!TypeOK
  <2>2. te_socket' \in [TcpOpens -> {"none", "open", "closed"}]
    BY <1>1, <1>2, Zenon DEF TcpEnv!TypeOK
  <2>3. te_io' \in [TcpEnv!Ops -> {"none", "waiting", "ok", "error"}]
    BY <1>1, <1>2, Zenon DEF TcpEnv!TypeOK
  <2> QED  BY <1>2, <2>1, <2>2, <2>3, Zenon DEF TcpEnv!TypeOK
<1>5. TcpNumbers' /\ \A p \in TcpCreates : TcpCreateOK(p)'
  <2>1. \A p \in TcpCreates : p \notin hit /\ p \notin mine /\ p \in TcpEnv!Ops
    BY <1>2, WaitNames, Zenon DEF TcpEnv!Ops
  <2> QED  BY <1>1, <2>1, TcpClientSteps, Zenon
<1>6. ASSUME NEW p \in TcpOpens PROVE TcpOpenOK(p)'
  <2>1. TcpOpenOK(p) /\ p \in TcpEnv!Ops
    BY <1>2, Zenon DEF TcpEnvInv
  <2>2. CASE p \notin hit
    BY <1>1, <1>2, <2>1, <2>2, TcpOpenUntouched, Zenon
  <2>3. CASE p \in hit
    <3>1. te_canceled[p] = "no" /\ te_canceled'[p] # "no" /\ te_result[p] # "idle"
      BY <1>1, <1>2, <1>3, <2>1, <2>3, Zenon DEF TcpOpenOK
    <3>2. te_io'[p] = te_io[p] \/ (te_io[p] = "waiting" /\ te_io'[p] = "error")
      BY <1>1, <2>1, Zenon
    <3>3. te_io[p] = "waiting" => te_result[p] = "pending"
      BY <1>2, <2>1, Zenon DEF TcpOpenOK, TcpEnv!TypeOK
    <3>4. te_result[p] = "pending" => te_socket'[p] = "closed"
      BY <1>1, <1>3, <2>1, <2>3, <3>1, Zenon DEF TcpOpenOK
    <3>5. te_result[p] = "success" => te_socket'[p] = te_socket[p]
      BY <1>1, <1>3, Zenon
    <3>6. te_result[p] \in {"timeout", "canceled"} => te_socket'[p] = "closed"
      BY <1>1, <2>1, Zenon DEF TcpOpenOK
    <3>7. "pending" \notin TcpEnv!Done /\ TcpEnv!Done' = TcpEnv!Done
      BY Zenon DEF TcpEnv!Done
    <3> QED
      BY <2>1, <3>1, <3>2, <3>3, <3>4, <3>5, <3>6, <3>7, Zenon DEF TcpOpenOK
  <2> QED  BY <2>2, <2>3, Zenon
<1> QED  BY <1>4, <1>5, <1>6, Zenon DEF TcpEnvInv

\* The continuation of open_pipe takes its operation out of the list.
LEMMA TcpOpenCompletedStep ==
  ASSUME TcpEnvInv, NEW o \in TcpOpens, TcpEnv!OpenCompleted(o)
  PROVE  TcpEnvInv'
<1>1. /\ TcpEnv!TypeOK /\ o \in TcpEnv!Ops /\ te_after[o] = "posted"
      /\ te_after' = [te_after EXCEPT ![o] = "over"]
      /\ te_timer' = [te_timer EXCEPT ![o] = FALSE]
      /\ te_opening' = te_opening \ {o}
      /\ UNCHANGED <<te_list, te_nextId, te_started, te_canceled, te_io, te_socket, te_result,
                     te_settled, te_backlog>>
  BY Zenon DEF TcpEnvInv, TcpEnv!OpenCompleted, TcpEnv!Ops
<1>2. te_after'[o] = "over" /\ \A p \in TcpEnv!Ops \ {o} : te_after'[p] = te_after[p]
  BY <1>1, Zenon DEF TcpEnv!TypeOK
<1>3. TcpEnv!TypeOK'
  BY <1>1, Zenon DEF TcpEnv!TypeOK
<1>4. TcpNumbers' /\ \A p \in TcpCreates : TcpCreateOK(p)'
  <2>1. \A p \in TcpCreates : p # o /\ p \in TcpEnv!Ops
    BY WaitNames, Zenon DEF TcpEnv!Ops
  <2> QED  BY <1>1, <1>2, <2>1, TcpClientSteps, Zenon
<1>5. TcpOpenOK(o)'
  <2>1. TcpOpenOK(o) /\ te_result[o] \notin {"idle", "pending"}
    BY <1>1, Zenon DEF TcpEnvInv, TcpOpenOK
  <2>2. TcpEnv!Done' = TcpEnv!Done
    BY Zenon DEF TcpEnv!Done
  <2> QED  BY <1>1, <1>2, <2>1, <2>2, Zenon DEF TcpOpenOK
<1>6. ASSUME NEW p \in TcpOpens, p # o PROVE TcpOpenOK(p)'
  BY <1>1, <1>2, <1>6, TcpOpenUntouched, Zenon DEF TcpEnvInv, TcpEnv!Ops
<1> QED  BY <1>3, <1>4, <1>5, <1>6, Zenon DEF TcpEnvInv

\* The back of a list of numbered operations is the one with the smallest number: create_pipe
\* pushes to the front.
LEMMA TcpOldest ==
  ASSUME LeastNumbers, NEW L, L # {}, \A o \in L : TcpEnv!Id(o) \in Nat,
         \A o, p \in L : TcpEnv!Id(o) = TcpEnv!Id(p) => o = p
  PROVE  /\ TcpEnv!Oldest(L) \in L
         /\ \A p \in L : p = TcpEnv!Oldest(L) \/ TcpEnv!Id(TcpEnv!Oldest(L)) < TcpEnv!Id(p)
<1> DEFINE Ids == {TcpEnv!Id(o) : o \in L}
<1>1. Ids \subseteq Nat /\ Ids # {}
  BY Zenon
<1>2. \E x \in Ids : \A y \in Ids : x <= y
  <2> HIDE DEF Ids
  <2> QED  BY <1>1, Zenon DEF LeastNumbers
<1>3. \E o \in L : \A p \in L : TcpEnv!Id(o) <= TcpEnv!Id(p)
  <2>1. PICK x \in Ids : \A y \in Ids : x <= y
    BY <1>2, Zenon
  <2>2. PICK o \in L : x = TcpEnv!Id(o)
    BY <2>1, Zenon
  <2>3. \A p \in L : x <= TcpEnv!Id(p)
    BY <2>1
  <2> QED  BY <2>2, <2>3, Zenon
<1>4. TcpEnv!Oldest(L) \in L /\ \A p \in L : TcpEnv!Id(TcpEnv!Oldest(L)) <= TcpEnv!Id(p)
  BY <1>3, Zenon DEF TcpEnv!Oldest
<1>5. \A m, n \in Nat : m <= n => m = n \/ m < n
  OBVIOUS
<1> QED  BY <1>4, <1>5, Zenon

\* The first of the server's list is the one that its code finds at the back.
LEMMA TcpFirstIsOldest ==
  ASSUME LeastNumbers, TcpNumbers, NEW o \in te_list
  PROVE  TcpFirst(o) <=> o = TcpEnv!Oldest(te_list)
<1>1. /\ TcpEnv!Oldest(te_list) \in te_list
      /\ \A p \in te_list : p = TcpEnv!Oldest(te_list)
           \/ TcpEnv!Id(TcpEnv!Oldest(te_list)) < TcpEnv!Id(p)
  BY TcpOldest, Zenon DEF TcpNumbers
<1>2. \A m, n \in Nat : ~(m < n /\ n < m)
  OBVIOUS
<1>3. \A p \in te_list : TcpEnv!Id(p) \in Nat
  BY Zenon DEF TcpNumbers
<1> HIDE DEF TcpEnv!Oldest
<1> QED  BY <1>1, <1>2, <1>3, Zenon DEF TcpFirst

\* The invariant gives what is promised of the TCP environments: the accept is with the oldest
\* create_pipe, and a pipe is handed out once.
LEMMA TcpEnvPromises ==
  ASSUME LeastNumbers, TcpEnvInv
  PROVE  TcpEnv!TypeOK /\ TcpEnv!AcceptsAreDriven /\ TcpEnv!PipesAreHandedOutOnce
<1>1. \A o \in TcpEnv!Ops : te_result[o] \in {"idle", "pending"} \cup TcpEnv!Done
  BY Zenon DEF TcpEnvInv, TcpEnv!TypeOK
<1>2. \A o \in TcpCreates : te_io[o] # "none" => TcpFirst(o)
  BY <1>1, Zenon DEF TcpEnvInv, TcpCreateOK, TcpEnv!Ops
<1>3. \A o, p \in TcpCreates : te_io[o] # "none" /\ te_io[p] # "none" => o = p
  <2>1. \A m, n \in Nat : ~(m < n /\ n < m)
    OBVIOUS
  <2> QED  BY <2>1, <1>2, Zenon DEF TcpFirst, TcpEnvInv, TcpNumbers
<1>4. \A o \in te_list : o \in TcpCreates
  BY Zenon DEF TcpEnvInv, TcpEnv!TypeOK
<1>5. \A o \in te_list :
        IF TcpFirst(o)
        THEN te_started[o] /\ ((te_io[o] = "none") <=> te_after[o] = "posted")
        ELSE ~te_started[o] /\ te_canceled[o] = "no" /\ te_result[o] = "pending"
  <2>1. \A o \in te_list : te_after[o] \in {"none", "posted", "over"}
    BY <1>4, Zenon DEF TcpEnvInv, TcpEnv!TypeOK, TcpEnv!Ops
  <2> QED  BY <2>1, <1>1, <1>4, Zenon DEF TcpEnvInv, TcpCreateOK, TcpEnv!Ops
<1>6. TcpEnv!AcceptsAreDriven
  BY <1>3, <1>5, TcpFirstIsOldest, Zenon DEF TcpEnv!AcceptsAreDriven, TcpEnvInv, TcpCreateOK
<1>7. \A o \in TcpEnv!Ops : te_settled[o] <= 1 /\ (te_settled[o] = 1 <=> te_result[o] \in TcpEnv!Done)
  <2>1. \A o \in TcpEnv!Ops :
          \/ te_result[o] \in {"idle", "pending"} /\ te_settled[o] = 0
          \/ te_result[o] \in TcpEnv!Done /\ te_settled[o] = 1
    BY <1>1, Zenon DEF TcpEnvInv, TcpCreateOK, TcpOpenOK, TcpEnv!Ops
  <2>2. \A r \in TcpEnv!Done : r \notin {"idle", "pending"}
    BY Zenon DEF TcpEnv!Done
  <2> QED  BY <2>1, <2>2
<1> QED
  BY <1>6, <1>7, Zenon DEF TcpEnvInv, TcpOpenOK, TcpEnv!PipesAreHandedOutOnce

\* on_completed takes its operation out of the list and starts the accept of the next, if
\* this one was the first: exactly one accept is pending again.
LEMMA TcpOnCompletedStep ==
  ASSUME LeastNumbers, TcpEnvInv, NEW o \in TcpCreates, TcpEnv!OnCompleted(o)
  PROVE  TcpEnvInv'
<1> DEFINE rest == te_list \ {o}
           n == TcpEnv!Oldest(rest)
<1>1. /\ TcpEnv!TypeOK /\ TcpNumbers /\ o \in TcpEnv!Ops /\ te_list \subseteq TcpCreates
      /\ te_after[o] = "posted" /\ te_after' = [te_after EXCEPT ![o] = "over"]
      /\ UNCHANGED <<te_nextId, te_opening, te_canceled, te_socket, te_result, te_settled,
                     te_backlog>>
  BY Zenon DEF TcpEnvInv, TcpEnv!OnCompleted, TcpEnv!Ops, TcpEnv!TypeOK
<1>2. te_result[o] \in TcpEnv!Done /\ te_io[o] = "none"
  BY <1>1, Zenon DEF TcpEnvInv, TcpCreateOK, TcpEnv!TypeOK
<1>3. o \in te_list => TcpFirst(o) /\ o = TcpEnv!Oldest(te_list)
  <2>1. "pending" \notin TcpEnv!Done
    BY Zenon DEF TcpEnv!Done
  <2> QED  BY <1>1, <1>2, <2>1, TcpFirstIsOldest, Zenon DEF TcpEnvInv, TcpCreateOK
<1>4. te_after' \in [TcpEnv!Ops -> {"none", "posted", "over"}]
  BY <1>1, Zenon DEF TcpEnv!TypeOK
<1>5. ASSUME NEW p \in TcpOpens PROVE p \in TcpEnv!Ops /\ p # o /\ p \notin TcpCreates
  BY WaitNames, Zenon DEF TcpEnv!Ops
<1>6. CASE o \notin te_list
  <2>1. UNCHANGED <<te_timer, te_list, te_started, te_io>>
    <3>1. te_list # {} => o # TcpEnv!Oldest(te_list)
      BY <1>1, <1>6, TcpOldest, Zenon DEF TcpNumbers
    <3> QED  BY <3>1, Zenon DEF TcpEnv!OnCompleted
  <2>2. TcpNumbers' /\ \A p : TcpFirst(p)' <=> TcpFirst(p)
    BY <1>1, <2>1, TcpSameList, Zenon
  <2>3. TcpEnv!TypeOK'
    BY <1>1, <1>4, <2>1, Zenon DEF TcpEnv!TypeOK
  <2>4. ASSUME NEW p \in TcpCreates PROVE TcpCreateOK(p)'
    <3>1. CASE p = o
      <4>1. te_after'[o] = "over" /\ o \notin te_list' /\ ~TcpFirst(o)'
        BY <1>1, <1>6, <2>1, <2>2, Zenon DEF TcpEnv!TypeOK, TcpFirst
      <4> QED
        BY <1>1, <1>2, <2>1, <3>1, <4>1, Zenon DEF TcpEnvInv, TcpCreateOK, TcpEnv!Done
    <3>2. CASE p # o
      BY <1>1, <2>1, <2>2, <3>2, TcpCreateUntouched, Zenon
         DEF TcpEnvInv, TcpEnv!TypeOK, TcpEnv!Ops
    <3> QED  BY <3>1, <3>2, Zenon
  <2>5. ASSUME NEW p \in TcpOpens PROVE TcpOpenOK(p)'
    BY <1>1, <1>5, <2>1, TcpOpenUntouched, Zenon DEF TcpEnvInv, TcpEnv!TypeOK
  <2> QED  BY <2>2, <2>3, <2>4, <2>5, Zenon DEF TcpEnvInv
<1>7. CASE o \in te_list
  <2>1. /\ te_timer' = [te_timer EXCEPT ![o] = FALSE]
        /\ te_list' = rest
        /\ te_started' = [p \in TcpCreates |-> te_started[p] \/ (rest # {} /\ p = n)]
        /\ te_io' = [p \in TcpEnv!Ops |-> IF rest # {} /\ p = n THEN "waiting" ELSE te_io[p]]
    BY <1>3, <1>7, Zenon DEF TcpEnv!OnCompleted, TcpEnv!StartOldest
  <2>2. rest # {} => n \in rest /\ \A p \in rest : p = n \/ TcpEnv!Id(n) < TcpEnv!Id(p)
    <3> HIDE DEF n
    <3>1. \A p \in rest : TcpEnv!Id(p) \in Nat /\ \A q \in rest : TcpEnv!Id(p) = TcpEnv!Id(q) => p = q
      BY <1>1, Zenon DEF TcpNumbers
    <3> QED  BY <3>1, TcpOldest, Zenon DEF n
  <2>3. \A p \in rest : ~TcpFirst(p)
    <3>1. \A i, j \in Nat : i < j => ~(j < i)
      OBVIOUS
    <3> QED  BY <1>1, <1>3, <1>7, <3>1, Zenon DEF TcpFirst, TcpNumbers
  <2> HIDE DEF rest, n
  <2>4. rest \subseteq te_list /\ o \notin rest /\ \A p \in te_list : p = o \/ p \in rest
    BY Zenon DEF rest
  <2>5. \A p \in rest : TcpFirst(p)' <=> p = n
    <3>1. \A i, j \in Nat : i < j => ~(j < i)
      OBVIOUS
    <3>2. \A p \in rest : TcpEnv!Id(p) \in Nat
      BY <1>1, <2>4, Zenon DEF TcpNumbers
    <3> QED  BY <2>1, <2>2, <3>1, <3>2, Zenon DEF TcpFirst, TcpEnv!Id
  <2>6. TcpNumbers'
    BY <1>1, <2>1, <2>4, Zenon DEF TcpNumbers, TcpEnv!Id
  <2>7. TcpEnv!TypeOK'
    <3>1. te_timer' \in [TcpEnv!Ops -> BOOLEAN]
      BY <1>1, <2>1, Zenon DEF TcpEnv!TypeOK
    <3>2. te_started' \in [TcpCreates -> BOOLEAN]
      BY <2>1
    <3>3. te_io' \in [TcpEnv!Ops -> {"none", "waiting", "ok", "error"}]
      BY <1>1, <2>1, Zenon DEF TcpEnv!TypeOK
    <3> QED  BY <1>1, <1>4, <2>1, <2>4, <3>1, <3>2, <3>3, Zenon DEF TcpEnv!TypeOK
  <2>8. ASSUME NEW p \in TcpCreates PROVE TcpCreateOK(p)'
    <3>0. p \in TcpEnv!Ops
      BY Zenon DEF TcpEnv!Ops
    <3>1. CASE p = o
      <4>1. te_after'[o] = "over" /\ o \notin te_list' /\ ~TcpFirst(o)'
        BY <1>1, <2>1, <2>4, Zenon DEF TcpEnv!TypeOK, TcpFirst
      <4>2. te_io'[o] = "none" /\ te_settled'[o] = te_settled[o]
        BY <1>1, <1>2, <2>1, <2>2, <2>4, Zenon
      <4>3. te_result'[o] \in TcpEnv!Done
        BY <1>1, <1>2, Zenon DEF TcpEnv!Done
      <4> QED
        BY <1>1, <1>2, <3>1, <4>1, <4>2, <4>3, Zenon DEF TcpEnvInv, TcpCreateOK, TcpEnv!Done
    <3>2. CASE p \in rest /\ p = n
      <4>1. te_result[p] = "pending" /\ te_after[p] = "none" /\ te_settled[p] = 0 /\ p # o
        BY <1>1, <2>3, <2>4, <3>2, Zenon DEF TcpEnvInv, TcpCreateOK
      <4>2. te_started'[p] /\ te_io'[p] = "waiting" /\ p \in te_list' /\ te_after'[p] = "none"
        BY <1>1, <2>1, <3>0, <3>2, <4>1, Zenon DEF TcpEnv!TypeOK
      <4> QED  BY <1>1, <2>1, <2>5, <3>2, <4>1, <4>2, Zenon DEF TcpCreateOK, TcpEnv!Done
    <3>3. CASE p \in rest /\ p # n
      <4>1. p # o /\ p \in te_list /\ ~TcpFirst(p) /\ ~TcpFirst(p)'
        BY <2>3, <2>4, <2>5, <3>3, Zenon
      <4>2. /\ te_started'[p] = te_started[p] /\ te_io'[p] = te_io[p]
            /\ te_after'[p] = te_after[p] /\ p \in te_list'
        <5>1. te_started'[p] = te_started[p]
          BY <1>1, <2>1, <3>3 DEF TcpEnv!TypeOK
        <5> QED  BY <1>1, <2>1, <3>0, <3>3, <4>1, <5>1, Zenon DEF TcpEnv!TypeOK
      <4> QED
        BY <1>1, <4>1, <4>2, TcpCreateUntouched, Zenon DEF TcpEnvInv
    <3>4. CASE p # o /\ p \notin rest
      <4>1. p \notin te_list /\ p \notin te_list' /\ ~TcpFirst(p) /\ ~TcpFirst(p)'
        BY <2>1, <2>4, <3>4, Zenon DEF TcpFirst
      <4>2. te_io'[p] = te_io[p] /\ te_after'[p] = te_after[p] /\ te_started'[p] = te_started[p]
        <5>1. te_started'[p] = te_started[p]
          BY <1>1, <2>1, <2>2, <3>4 DEF TcpEnv!TypeOK
        <5> QED  BY <1>1, <2>1, <2>2, <3>0, <3>4, <5>1, Zenon DEF TcpEnv!TypeOK
      <4> QED
        BY <1>1, <4>1, <4>2, TcpCreateUntouched, Zenon DEF TcpEnvInv
    <3> QED  BY <3>1, <3>2, <3>3, <3>4, Zenon
  <2>9. ASSUME NEW p \in TcpOpens PROVE TcpOpenOK(p)'
    <3>1. te_io'[p] = te_io[p]
      BY <1>1, <1>5, <2>1, <2>2, <2>4, Zenon
    <3> QED
      BY <1>1, <1>5, <3>1, TcpOpenUntouched, Zenon DEF TcpEnvInv, TcpEnv!TypeOK
  <2> QED  BY <2>6, <2>7, <2>8, <2>9, Zenon DEF TcpEnvInv
<1> QED  BY <1>6, <1>7, Zenon

\* create_operation::cancel, on any listed operations, preserves the invariant: the first of
\* the list stays until its aborted accept completes, the others complete and leave at once.
LEMMA TcpCancelCreatesStep ==
  ASSUME LeastNumbers, TcpEnvInv, NEW S \in SUBSET te_list, NEW how \in {"user", "timer"},
         TcpEnv!CancelCreates(S, how), te_timer' \in [TcpEnv!Ops -> BOOLEAN],
         UNCHANGED <<te_nextId, te_opening, te_started, te_socket, te_backlog>>
  PROVE  TcpEnvInv'
<1> DEFINE hit == {o \in S : te_canceled[o] = "no"}
           atOnce == {o \in hit : ~te_started[o]}
           r == TcpEnv!CancelResult(how)
<1>1. /\ te_canceled' = [o \in TcpEnv!Ops |-> IF o \in hit THEN how ELSE te_canceled[o]]
      /\ te_io' = [o \in TcpEnv!Ops |-> IF o \in TcpCreates /\ te_io[o] = "waiting" /\ hit # atOnce
                                        THEN "error" ELSE te_io[o]]
      /\ te_list' = {o \in te_list : o \notin S \/ o = TcpEnv!Oldest(te_list)}
      /\ te_result' = [o \in TcpEnv!Ops |-> IF o \in atOnce THEN r ELSE te_result[o]]
      /\ te_settled' = [o \in TcpEnv!Ops |-> IF o \in atOnce /\ te_settled[o] < 2
                                             THEN te_settled[o] + 1 ELSE te_settled[o]]
      /\ te_after' = [o \in TcpEnv!Ops |-> IF o \in atOnce THEN "posted" ELSE te_after[o]]
  BY Zenon DEF TcpEnv!CancelCreates, TcpEnv!Complete
<1>2. TcpEnv!TypeOK /\ TcpNumbers /\ te_list \subseteq TcpCreates /\ TcpCreates \subseteq TcpEnv!Ops
        /\ S \subseteq TcpCreates
  BY Zenon DEF TcpEnvInv, TcpEnv!TypeOK, TcpEnv!Ops
<1>3. \A p \in S : p \in hit => TcpFirst(p) \/ p \in atOnce
  BY <1>2, Zenon DEF TcpEnvInv, TcpCreateOK
<1>4. \A p \in atOnce : /\ p \in S /\ ~TcpFirst(p) /\ te_result[p] = "pending"
                        /\ te_settled[p] = 0 /\ te_io[p] = "none"
  BY <1>2, Zenon DEF TcpEnvInv, TcpCreateOK
<1>5. \A p \in S : TcpFirst(p) \/ p \in atOnce
  BY <1>2, Zenon DEF TcpEnvInv, TcpCreateOK
<1>6. r \in TcpEnv!Done
  BY Zenon DEF TcpEnv!CancelResult, TcpEnv!Done
<1>7. hit \subseteq S /\ atOnce \subseteq TcpEnv!Ops
  BY <1>2, Zenon
<1> HIDE DEF hit, atOnce, r
<1>8. \A p \in te_list : p \in te_list' <=> p \notin S \/ TcpFirst(p)
  BY <1>1, <1>2, TcpFirstIsOldest, Zenon
<1>9. te_list' \subseteq te_list
  BY <1>1, Zenon
<1>10. \A p \in te_list' : TcpFirst(p)' <=> TcpFirst(p)
  <2>1. \A i, j \in Nat : i < j => ~(j < i)
    OBVIOUS
  <2>2. \A p \in te_list : TcpEnv!Id(p) \in Nat
    BY <1>2, Zenon DEF TcpNumbers
  <2>3. \A p \in te_list : \E f \in te_list' : TcpFirst(f)
    <3>1. te_list # {} => TcpEnv!Oldest(te_list) \in te_list
      BY <1>2, TcpOldest, Zenon DEF TcpNumbers
    <3>2. te_list # {} => TcpFirst(TcpEnv!Oldest(te_list))
      BY <1>2, <3>1, TcpFirstIsOldest, Zenon
    <3> QED  BY <1>8, <3>1, <3>2, Zenon
  <2>4. ASSUME NEW p \in te_list', TcpFirst(p)' PROVE TcpFirst(p)
    <3>1. PICK f \in te_list' : TcpFirst(f)
      BY <1>9, <2>3, Zenon
    <3>2. p = f \/ TcpEnv!Id(p) < TcpEnv!Id(f)
      BY <2>4, Zenon DEF TcpFirst, TcpEnv!Id
    <3>3. p = f \/ TcpEnv!Id(f) < TcpEnv!Id(p)
      BY <1>9, <3>1, Zenon DEF TcpFirst
    <3> QED  BY <1>9, <2>1, <2>2, <3>1, <3>2, <3>3, Zenon
  <2>5. ASSUME NEW p \in te_list', TcpFirst(p) PROVE TcpFirst(p)'
    BY <1>9, <2>5, Zenon DEF TcpFirst, TcpEnv!Id
  <2> QED  BY <2>4, <2>5, Zenon
<1>11. TcpNumbers'
  BY <1>2, <1>9, Zenon DEF TcpNumbers, TcpEnv!Id
<1>12. \A p \in atOnce : te_settled'[p] = 1
  BY <1>1, <1>4, <1>7
<1>13. \A p \in TcpEnv!Ops \ atOnce : te_settled'[p] = te_settled[p]
  BY <1>1, Zenon
<1>14. TcpEnv!TypeOK'
  <2>1. te_canceled' \in [TcpEnv!Ops -> {"no", "user", "timer"}]
    BY <1>1, <1>2, Zenon DEF TcpEnv!TypeOK
  <2>2. te_io' \in [TcpEnv!Ops -> {"none", "waiting", "ok", "error"}]
    BY <1>1, <1>2, Zenon DEF TcpEnv!TypeOK
  <2>3. te_result' \in [TcpEnv!Ops -> {"idle", "pending"} \cup TcpEnv!Done]
    BY <1>1, <1>2, <1>6, Zenon DEF TcpEnv!TypeOK
  <2>4. te_settled' \in [TcpEnv!Ops -> 0..2]
    <3>1. 1 \in 0..2
      OBVIOUS
    <3>2. \A p \in TcpEnv!Ops : te_settled'[p] \in 0..2
      BY <1>2, <1>12, <1>13, <3>1, Zenon DEF TcpEnv!TypeOK
    <3> QED  BY <1>1, <3>2, Zenon
  <2>5. te_after' \in [TcpEnv!Ops -> {"none", "posted", "over"}]
    BY <1>1, <1>2, Zenon DEF TcpEnv!TypeOK
  <2> QED
    BY <1>2, <1>9, <2>1, <2>2, <2>3, <2>4, <2>5, Zenon DEF TcpEnv!TypeOK
<1>15. ASSUME NEW p \in TcpCreates PROVE TcpCreateOK(p)'
  <2>0. p \in TcpEnv!Ops /\ te_started'[p] = te_started[p]
    BY <1>2, Zenon
  <2>1. CASE p \in atOnce
    <3>1. p \notin te_list' /\ ~TcpFirst(p)'
      BY <1>4, <1>8, <1>9, <2>1, Zenon DEF TcpFirst
    <3>2. te_io'[p] = "none" /\ te_result'[p] \in TcpEnv!Done /\ te_settled'[p] = 1
            /\ te_after'[p] = "posted"
      BY <1>1, <1>4, <1>6, <1>12, <2>0, <2>1, Zenon
    <3> QED  BY <3>1, <3>2, Zenon DEF TcpCreateOK, TcpEnv!Done
  <2>2. CASE p \notin atOnce
    <3>1. /\ te_result'[p] = te_result[p] /\ te_settled'[p] = te_settled[p]
          /\ te_after'[p] = te_after[p]
      BY <1>1, <1>13, <2>0, <2>2, Zenon
    <3>2. te_io'[p] = te_io[p] \/ (te_io[p] = "waiting" /\ te_io'[p] = "error")
      BY <1>1, <2>0, Zenon
    <3>3. p \in te_list' <=> p \in te_list
      BY <1>5, <1>8, <1>9, <2>2, Zenon
    <3>4. TcpFirst(p)' <=> TcpFirst(p)
      BY <1>10, <3>3, Zenon DEF TcpFirst
    <3>5. te_canceled'[p] = te_canceled[p] \/ (p \in te_list /\ TcpFirst(p))
      BY <1>1, <1>5, <1>7, <2>0, <2>2, Zenon
    <3>6. TcpCreateOK(p)
      BY Zenon DEF TcpEnvInv
    <3>7. te_io[p] = "waiting" => te_result[p] = "pending" /\ TcpFirst(p)
      BY <1>2, <2>0, <3>6, Zenon DEF TcpCreateOK, TcpEnv!TypeOK
    <3>8. "pending" \notin TcpEnv!Done /\ TcpEnv!Done' = TcpEnv!Done
      BY Zenon DEF TcpEnv!Done
    <3> QED
      BY <2>0, <3>1, <3>2, <3>3, <3>4, <3>5, <3>6, <3>7, <3>8, Zenon DEF TcpCreateOK
  <2> QED  BY <2>1, <2>2, Zenon
<1>16. ASSUME NEW p \in TcpOpens PROVE TcpOpenOK(p)'
  <2>1. p \in TcpEnv!Ops /\ p \notin TcpCreates /\ p \notin hit /\ p \notin atOnce
    BY <1>2, <1>4, <1>7, WaitNames, Zenon DEF TcpEnv!Ops
  <2> QED
    BY <1>1, <1>13, <2>1, TcpOpenUntouched, Zenon DEF TcpEnvInv
<1> QED  BY <1>11, <1>14, <1>15, <1>16, Zenon DEF TcpEnvInv

\* The timer of a create_pipe cancels that operation if it is still listed, and preserves
\* the invariant.
LEMMA TcpOnTimeoutStep ==
  ASSUME LeastNumbers, TcpEnvInv, NEW o \in TcpCreates, TcpEnv!OnTimeout(o)
  PROVE  TcpEnvInv'
<1>1. TcpEnv!TypeOK /\ TcpNumbers /\ o \in TcpEnv!Ops
        /\ te_timer' = [te_timer EXCEPT ![o] = FALSE]
        /\ UNCHANGED <<te_nextId, te_opening, te_started, te_socket, te_backlog>>
  BY Zenon DEF TcpEnvInv, TcpEnv!OnTimeout, TcpEnv!Ops
<1>2. te_timer' \in [TcpEnv!Ops -> BOOLEAN]
  BY <1>1, Zenon DEF TcpEnv!TypeOK
<1>3. CASE o \in te_list
  BY <1>1, <1>2, <1>3, TcpCancelCreatesStep, Zenon DEF TcpEnv!OnTimeout
<1>4. CASE o \notin te_list
  <2>1. UNCHANGED <<te_canceled, te_io, te_list, te_result, te_settled, te_after>>
    BY <1>4, Zenon DEF TcpEnv!OnTimeout
  <2>2. TcpNumbers' /\ \A p : TcpFirst(p)' <=> TcpFirst(p)
    BY <1>1, <2>1, TcpSameList, Zenon
  <2>3. TcpEnv!TypeOK'
    BY <1>1, <1>2, <2>1, Zenon DEF TcpEnv!TypeOK
  <2>4. \A p \in TcpCreates : TcpCreateOK(p)'
    BY <1>1, <2>1, <2>2, TcpCreateUntouched, Zenon DEF TcpEnvInv
  <2>5. \A p \in TcpOpens : TcpOpenOK(p)'
    BY <1>1, <2>1, TcpOpenUntouched, Zenon DEF TcpEnvInv
  <2> QED  BY <2>2, <2>3, <2>4, <2>5, Zenon DEF TcpEnvInv
<1> QED  BY <1>3, <1>4, Zenon

\* cancel_pending_server_endpoints cancels the listed operations and preserves the invariant.
LEMMA TcpCancelPendingServerStep ==
  ASSUME LeastNumbers, TcpEnvInv, NEW S, TcpEnv!CancelPendingServer(S)
  PROVE  TcpEnvInv'
<1> DEFINE mine == {o \in te_list : TcpEnv!Client(o) \in S}
<1>1. /\ te_timer' = [o \in TcpEnv!Ops |-> te_timer[o] /\ o \notin mine]
      /\ TcpEnv!CancelCreates(mine, "user")
      /\ UNCHANGED <<te_nextId, te_opening, te_started, te_socket, te_backlog>>
      /\ mine \in SUBSET te_list
  BY Zenon DEF TcpEnv!CancelPendingServer
<1> HIDE DEF mine
<1>2. te_timer' \in [TcpEnv!Ops -> BOOLEAN]
  BY <1>1
<1> QED  BY <1>1, <1>2, TcpCancelCreatesStep, Zenon

\* The invariant is inductive: every step of the TCP server, the client and the network
\* preserves it.
LEMMA TcpEnvStep ==
  ASSUME LeastNumbers, TcpEnvInv, [TcpEnv!Next]_teVars
  PROVE  TcpEnvInv'
<1>1. CASE UNCHANGED teVars
  <2>1. UNCHANGED <<te_list, te_nextId, te_opening, te_started, te_canceled, te_io, te_socket,
                    te_timer, te_result, te_settled, te_after, te_backlog>>
    BY <1>1, Zenon DEF teVars
  <2>2. TcpEnv!TypeOK'
    BY <2>1, Zenon DEF TcpEnvInv, TcpEnv!TypeOK
  <2>3. TcpNumbers' /\ \A p \in TcpCreates : TcpCreateOK(p)'
    BY <2>1, TcpClientSteps, Zenon
  <2>4. \A p \in TcpOpens : TcpOpenOK(p)'
    BY <2>1, TcpOpenUntouched, Zenon DEF TcpEnvInv
  <2> QED  BY <2>2, <2>3, <2>4, Zenon DEF TcpEnvInv
<1>2. ASSUME NEW o \in TcpCreates,
             TcpEnv!CreatePipe(o) \/ TcpEnv!Accept(o) \/ TcpEnv!CreateStep(o)
      PROVE  TcpEnvInv'
  BY <1>2, TcpCreatePipeStep, TcpAcceptStep, TcpAcceptHandlerStep, TcpOnCompletedStep,
     TcpOnTimeoutStep, Zenon DEF TcpEnv!CreateStep
<1>3. ASSUME NEW o \in TcpOpens, TcpEnv!OpenTimeout(o) PROVE TcpEnvInv'
  <2>1. TcpEnv!TypeOK /\ {o} \cap te_opening \in SUBSET te_opening
          /\ te_timer' = [te_timer EXCEPT ![o] = FALSE]
          /\ TcpEnv!CancelOpens({o} \cap te_opening, "timer")
          /\ UNCHANGED <<te_list, te_nextId, te_opening, te_started, te_result, te_settled,
                         te_after, te_backlog>>
    BY <1>3, Zenon DEF TcpEnvInv, TcpEnv!OpenTimeout
  <2>2. te_timer' \in [TcpEnv!Ops -> BOOLEAN]
    BY <2>1, Zenon DEF TcpEnv!TypeOK
  <2> QED  BY <2>1, <2>2, TcpCancelOpensStep, Zenon
<1>4. ASSUME NEW o \in TcpOpens, TcpEnv!OpenPipe(o) \/ TcpEnv!Connect(o) \/ TcpEnv!OpenStep(o)
      PROVE  TcpEnvInv'
  BY <1>3, <1>4, TcpOpenPipeStep, TcpConnectStep, TcpConnectHandlerStep, TcpOpenCompletedStep,
     Zenon DEF TcpEnv!OpenStep
<1>5. ASSUME NEW S, TcpEnv!CancelPendingClient(S) PROVE TcpEnvInv'
  <2> DEFINE mine == {o \in te_opening : TcpEnv!Client(o) \in S}
  <2>1. /\ mine \in SUBSET te_opening
        /\ TcpEnv!CancelOpens(mine, "user")
        /\ UNCHANGED <<te_list, te_nextId, te_opening, te_started, te_timer, te_result,
                       te_settled, te_after, te_backlog>>
    BY <1>5, Zenon DEF TcpEnv!CancelPendingClient
  <2>2. te_timer' \in [TcpEnv!Ops -> BOOLEAN]
    BY <2>1, Zenon DEF TcpEnvInv, TcpEnv!TypeOK
  <2> HIDE DEF mine
  <2> QED  BY <2>1, <2>2, TcpCancelOpensStep, Zenon
<1> QED
  BY <1>1, <1>2, <1>4, <1>5, TcpCancelPendingServerStep, Zenon DEF TcpEnv!Next

-----------------------------------------------------------------------------
(* The Windows environments.                                               *)

\* What the read I/O thread may have to do
WinTasks == {"create", "connect", "canceled", "timeout"} \X WinCreates

\* The tasks that work on a create, other than those that cancel it
WinMaking(i) == we_thread[i][1] \in {"create", "connect"}

\* A create is in one place: a task of the thread, the kernel, or its promise is set
WinThreadOK ==
  \A i \in 1..Len(we_thread) :
    WinMaking(i) =>
      LET c == we_thread[i][2]
      IN  /\ we_io[c] = "none" /\ we_resolved[c] = 0 /\ we_result[c] # "idle"
          /\ we_thread[i][1] = "connect" => we_instance[c] \in {"free", "taken"}
          /\ \A j \in 1..Len(we_thread) : WinMaking(j) /\ we_thread[j][2] = c => i = j

\* The promise of a call is set once, and not before the call.
WinOpOK(o) ==
  /\ we_result[o] = "idle" => we_resolved[o] = 0
  /\ we_resolved[o] \in {0, 1}
  /\ we_resolved[o] = 0 => we_value[o] = "unknown"
  /\ we_resolved[o] = 1 => we_value[o] # "unknown"

\* A create_pipe in the kernel has its promise to set, a client that ended its wait has the
\* instance, and an instance goes with a success or is closed.
WinCreateOK(c) ==
  /\ we_io[c] # "none" => /\ we_resolved[c] = 0 /\ we_result[c] # "idle"
                          /\ we_io[c] = "success" => we_instance[c] = "taken"
  /\ we_resolved[c] = 0 => we_res[c] \in {"unknown", "canceled", "timeout"}
  /\ we_value[c] = "success" => we_instance[c] = "taken"
  /\ we_value[c] \in WinEnv!Known \ {"success"} => we_instance[c] = "closed"

\* The thread of an open_pipe runs until it sets the promise.
WinOpenOK(o) == we_trying[o] # "no" => we_resolved[o] = 0 /\ we_result[o] # "idle"

\* What the steps of the Windows environments preserve.
WinEnvInv ==
  /\ WinEnv!TypeOK
  /\ WinThreadOK
  /\ \A o \in WinEnv!Ops : WinOpOK(o)
  /\ \A c \in WinCreates : WinCreateOK(c)
  /\ \A o \in WinOpens : WinOpenOK(o)

\* New Windows environments satisfy the invariant.
LEMMA WinEnvInitially == WinEnv!Init => WinEnvInv
<1> SUFFICES ASSUME WinEnv!Init PROVE WinEnvInv
  OBVIOUS
<1>1. /\ we_thread = <<>>
      /\ we_instance = [c \in WinCreates |-> "none"]
      /\ we_io = [c \in WinCreates |-> "none"]
      /\ we_res = [o \in WinEnv!Ops |-> "unknown"]
      /\ we_trying = [o \in WinOpens |-> "no"]
      /\ we_listed = {}
      /\ we_cancels = [o \in WinEnv!Ops |-> {}]
      /\ we_timer = [o \in WinEnv!Ops |-> FALSE]
      /\ we_value = [o \in WinEnv!Ops |-> "unknown"]
      /\ we_resolved = [o \in WinEnv!Ops |-> 0]
      /\ we_result = [o \in WinEnv!Ops |-> "idle"]
  BY Zenon DEF WinEnv!Init
<1>2. WinEnv!TypeOK
  <2>1. we_resolved \in [WinEnv!Ops -> 0..2] /\ we_thread \in Seq(WinTasks)
    BY <1>1
  <2> QED  BY <1>1, <2>1, Zenon DEF WinEnv!TypeOK, WinTasks
<1>3. WinThreadOK
  BY <1>1 DEF WinThreadOK
<1>4. WinCreates \subseteq WinEnv!Ops /\ WinOpens \subseteq WinEnv!Ops
  BY Zenon DEF WinEnv!Ops
<1>5. \A o \in WinEnv!Ops : we_resolved[o] = 0 /\ 0 # 1
  BY <1>1
<1>6. \A o \in WinEnv!Ops : WinOpOK(o)
  BY <1>1, <1>5, Zenon DEF WinOpOK
<1>7. \A c \in WinCreates : WinCreateOK(c)
  BY <1>1, <1>4, <1>5, Zenon DEF WinCreateOK, WinEnv!Known
<1>8. \A o \in WinOpens : WinOpenOK(o)
  BY <1>1, <1>4, Zenon DEF WinOpenOK
<1> QED  BY <1>2, <1>3, <1>6, <1>7, <1>8, Zenon DEF WinEnvInv

\* The invariant gives what is promised of the Windows environments: each promise is set once.
LEMMA WinEnvPromises == WinEnvInv => WinEnv!TypeOK /\ WinEnv!PipesAreResolvedOnce
<1> SUFFICES ASSUME WinEnvInv PROVE WinEnv!TypeOK /\ WinEnv!PipesAreResolvedOnce
  OBVIOUS
<1>1. \A o \in WinEnv!Ops : we_resolved[o] <= 1 /\ (we_resolved[o] = 1 => we_value[o] # "unknown")
  <2> TAKE o \in WinEnv!Ops
  <2>1. we_resolved[o] \in {0, 1} /\ (we_resolved[o] = 1 => we_value[o] # "unknown")
    BY Zenon DEF WinEnvInv, WinOpOK
  <2> QED  BY <2>1
<1>2. \A c \in WinCreates :
        /\ we_value[c] = "success" \/ we_io[c] = "success" => we_instance[c] = "taken"
        /\ we_value[c] \in WinEnv!Known \ {"success"} => we_instance[c] = "closed"
  BY Zenon DEF WinEnvInv, WinCreateOK
<1> QED  BY <1>1, <1>2, Zenon DEF WinEnvInv, WinEnv!PipesAreResolvedOnce

\* What a step has not touched stays in order: a create that is neither in the kernel nor
\* set keeps the task that works on it.
WinKept(c) ==
  /\ we_io'[c] = "none"
  /\ we_resolved'[c] = we_resolved[c]
  /\ we_result[c] # "idle" => we_result'[c] # "idle"
  /\ we_instance[c] \in {"free", "taken"} => we_instance'[c] \in {"free", "taken"}

\* The tasks posted to the thread of the environment are a sequence of known tasks.
LEMMA WinThreadType ==
  ASSUME WinEnvInv
  PROVE  /\ we_thread \in Seq(WinTasks) /\ Len(we_thread) \in Nat
         /\ \A i \in 1..Len(we_thread) : /\ we_thread[i] \in WinTasks
                                         /\ we_thread[i][2] \in WinCreates
<1>1. we_thread \in Seq(WinTasks)
  BY Zenon DEF WinEnvInv, WinEnv!TypeOK, WinTasks
<1>2. Len(we_thread) \in Nat /\ \A i \in 1..Len(we_thread) : we_thread[i] \in WinTasks
  BY <1>1
<1>3. \A t \in WinTasks : t[2] \in WinCreates
  BY DEF WinTasks
<1> QED  BY <1>1, <1>2, <1>3, Zenon

\* A step that does not touch the queue of the thread keeps its tasks in order.
LEMMA WinThreadSame ==
  ASSUME WinEnvInv, UNCHANGED we_thread,
         \A c \in WinCreates : we_io[c] = "none" => WinKept(c)
  PROVE  WinThreadOK'
<1> SUFFICES ASSUME NEW i \in 1..Len(we_thread), WinMaking(i)
             PROVE  LET c == we_thread[i][2]
                    IN  /\ we_io'[c] = "none" /\ we_resolved'[c] = 0 /\ we_result'[c] # "idle"
                        /\ we_thread[i][1] = "connect" => we_instance'[c] \in {"free", "taken"}
                        /\ \A j \in 1..Len(we_thread) : WinMaking(j) /\ we_thread[j][2] = c => i = j
  BY Zenon DEF WinThreadOK, WinMaking
<1> DEFINE c == we_thread[i][2]
<1>1. c \in WinCreates
  BY WinThreadType, Zenon
<1>2. /\ we_io[c] = "none" /\ we_resolved[c] = 0 /\ we_result[c] # "idle"
      /\ we_thread[i][1] = "connect" => we_instance[c] \in {"free", "taken"}
      /\ \A j \in 1..Len(we_thread) : WinMaking(j) /\ we_thread[j][2] = c => i = j
  BY Zenon DEF WinEnvInv, WinThreadOK
<1> HIDE DEF c
<1>3. WinKept(c)
  BY <1>1, <1>2, Zenon
<1>4. /\ we_io'[c] = "none" /\ we_resolved'[c] = 0 /\ we_result'[c] # "idle"
      /\ we_thread[i][1] = "connect" => we_instance'[c] \in {"free", "taken"}
      /\ \A j \in 1..Len(we_thread) : WinMaking(j) /\ we_thread[j][2] = c => i = j
  BY <1>2, <1>3, Zenon DEF WinKept
<1> QED  BY <1>4, Zenon DEF c

\* A step in which the thread takes its first task keeps the others in order.
LEMMA WinThreadTail ==
  ASSUME WinEnvInv, we_thread # <<>>, we_thread' = Tail(we_thread),
         \A c \in WinCreates : we_io[c] = "none" =>
           WinKept(c) \/ (WinMaking(1) /\ c = we_thread[1][2])
  PROVE  /\ WinThreadOK' /\ we_thread' \in Seq(WinTasks)
         /\ Head(we_thread) = we_thread[1] /\ we_thread[1] \in WinTasks /\ 1 \in 1..Len(we_thread)
<1>1. we_thread \in Seq(WinTasks) /\ Len(we_thread) \in Nat
  BY WinThreadType, Zenon
<1>2. /\ we_thread' \in Seq(WinTasks)
      /\ Head(we_thread) = we_thread[1] /\ we_thread[1] \in WinTasks /\ 1 \in 1..Len(we_thread)
      /\ \A i \in 1..Len(we_thread') : i + 1 \in 1..Len(we_thread) /\ we_thread'[i] = we_thread[i + 1]
                                         /\ i + 1 # 1
      /\ \A i, j \in 1..Len(we_thread') : i + 1 = j + 1 => i = j
  BY <1>1
<1>3. ASSUME NEW i \in 1..Len(we_thread'), WinMaking(i)'
      PROVE  LET c == we_thread'[i][2]
             IN  /\ we_io'[c] = "none" /\ we_resolved'[c] = 0 /\ we_result'[c] # "idle"
                 /\ we_thread'[i][1] = "connect" => we_instance'[c] \in {"free", "taken"}
                 /\ \A j \in 1..Len(we_thread') : WinMaking(j)' /\ we_thread'[j][2] = c => i = j
  <2> DEFINE c == we_thread[i + 1][2]
  <2>1. we_thread'[i] = we_thread[i + 1] /\ i + 1 \in 1..Len(we_thread) /\ WinMaking(i + 1)
          /\ c \in WinCreates /\ i + 1 # 1
    BY <1>2, <1>3, WinThreadType, Zenon DEF WinMaking
  <2>2. /\ we_io[c] = "none" /\ we_resolved[c] = 0 /\ we_result[c] # "idle"
        /\ we_thread[i + 1][1] = "connect" => we_instance[c] \in {"free", "taken"}
        /\ \A j \in 1..Len(we_thread) : WinMaking(j) /\ we_thread[j][2] = c => i + 1 = j
    BY <2>1, Zenon DEF WinEnvInv, WinThreadOK
  <2>3. WinKept(c)
    BY <1>2, <2>1, <2>2, Zenon
  <2>4. ASSUME NEW j \in 1..Len(we_thread'), WinMaking(j)', we_thread'[j][2] = c PROVE i = j
    <3>1. WinMaking(j + 1) /\ we_thread[j + 1][2] = c /\ j + 1 \in 1..Len(we_thread)
      BY <1>2, <2>4, Zenon DEF WinMaking
    <3> QED  BY <1>2, <2>2, <3>1, Zenon
  <2>5. we_thread'[i][2] = c
    BY <2>1, Zenon
  <2> HIDE DEF c
  <2>6. we_thread'[i][1] = "connect" => we_thread[i + 1][1] = "connect"
    BY <2>1, Zenon
  <2> QED  BY <2>2, <2>3, <2>4, <2>5, <2>6, Zenon DEF WinKept
<1> QED  BY <1>2, <1>3, Zenon DEF WinThreadOK

\* A step that posts tasks which cancel, or none, keeps the queue in order: only a task that
\* makes an instance has its create to itself.
LEMMA WinThreadCancels ==
  ASSUME WinEnvInv, NEW more \in Seq(WinTasks), we_thread' = we_thread \o more,
         \A k \in 1..Len(more) : more[k][1] \in {"canceled", "timeout"},
         UNCHANGED <<we_io, we_resolved, we_result, we_instance>>
  PROVE  WinThreadOK' /\ we_thread' \in Seq(WinTasks)
<1>1. we_thread \in Seq(WinTasks) /\ Len(we_thread) \in Nat
  BY WinThreadType, Zenon
<1>2. /\ we_thread' \in Seq(WinTasks)
      /\ \A i \in 1..Len(we_thread) : i \in 1..Len(we_thread') /\ we_thread'[i] = we_thread[i]
      /\ \A i \in 1..Len(we_thread') : i \in 1..Len(we_thread)
           \/ (i - Len(we_thread) \in 1..Len(more) /\ we_thread'[i] = more[i - Len(we_thread)])
  BY <1>1
<1>3. \A i \in 1..Len(we_thread') :
        WinMaking(i)' => i \in 1..Len(we_thread) /\ WinMaking(i) /\ we_thread'[i] = we_thread[i]
  BY <1>2, Zenon DEF WinMaking
<1>4. WinThreadOK
  BY Zenon DEF WinEnvInv
<1>5. ASSUME NEW i \in 1..Len(we_thread'), WinMaking(i)'
      PROVE  LET c == we_thread'[i][2]
             IN  /\ we_io'[c] = "none" /\ we_resolved'[c] = 0 /\ we_result'[c] # "idle"
                 /\ we_thread'[i][1] = "connect" => we_instance'[c] \in {"free", "taken"}
                 /\ \A j \in 1..Len(we_thread') : WinMaking(j)' /\ we_thread'[j][2] = c => i = j
  <2> DEFINE c == we_thread[i][2]
  <2>1. i \in 1..Len(we_thread) /\ WinMaking(i) /\ we_thread'[i] = we_thread[i]
    BY <1>3, <1>5, Zenon
  <2>2. /\ we_io[c] = "none" /\ we_resolved[c] = 0 /\ we_result[c] # "idle"
        /\ we_thread[i][1] = "connect" => we_instance[c] \in {"free", "taken"}
        /\ \A j \in 1..Len(we_thread) : WinMaking(j) /\ we_thread[j][2] = c => i = j
    BY <1>4, <2>1, Zenon DEF WinThreadOK
  <2>3. \A j \in 1..Len(we_thread') : WinMaking(j)' /\ we_thread'[j][2] = c => i = j
    BY <1>3, <2>2, Zenon
  <2> QED  BY <2>1, <2>2, <2>3, Zenon
<1> QED  BY <1>2, <1>5, Zenon DEF WinThreadOK

\* Operations that a step does not touch keep what the invariant says of them.
LEMMA WinUntouched ==
  ASSUME WinEnvInv
  PROVE  /\ \A o \in WinEnv!Ops :
              /\ we_result'[o] = we_result[o] /\ we_resolved'[o] = we_resolved[o]
              /\ we_value'[o] = we_value[o]
              => WinOpOK(o)'
         /\ \A c \in WinCreates :
              /\ we_io'[c] = we_io[c] /\ we_resolved'[c] = we_resolved[c]
              /\ we_result'[c] = we_result[c] /\ we_instance'[c] = we_instance[c]
              /\ we_res'[c] = we_res[c] /\ we_value'[c] = we_value[c]
              => WinCreateOK(c)'
         /\ \A o \in WinOpens :
              /\ we_trying'[o] = we_trying[o] /\ we_resolved'[o] = we_resolved[o]
              /\ we_result'[o] = we_result[o]
              => WinOpenOK(o)'
<1>1. /\ \A o \in WinEnv!Ops : WinOpOK(o)
      /\ \A c \in WinCreates : WinCreateOK(c)
      /\ \A o \in WinOpens : WinOpenOK(o)
  BY Zenon DEF WinEnvInv
<1>2. WinEnv!Known' = WinEnv!Known
  BY Zenon DEF WinEnv!Known
<1>3. ASSUME NEW o \in WinEnv!Ops, we_result'[o] = we_result[o],
             we_resolved'[o] = we_resolved[o], we_value'[o] = we_value[o]
      PROVE  WinOpOK(o)'
  BY <1>1, <1>3, Zenon DEF WinOpOK
<1>4. ASSUME NEW c \in WinCreates, we_io'[c] = we_io[c], we_resolved'[c] = we_resolved[c],
             we_result'[c] = we_result[c], we_instance'[c] = we_instance[c],
             we_res'[c] = we_res[c], we_value'[c] = we_value[c]
      PROVE  WinCreateOK(c)'
  BY <1>1, <1>2, <1>4, Zenon DEF WinCreateOK
<1>5. ASSUME NEW o \in WinOpens, we_trying'[o] = we_trying[o],
             we_resolved'[o] = we_resolved[o], we_result'[o] = we_result[o]
      PROVE  WinOpenOK(o)'
  BY <1>1, <1>5, Zenon DEF WinOpenOK
<1> QED  BY <1>3, <1>4, <1>5, Zenon

\* No operation is both a create_pipe and an open_pipe.
LEMMA WinSides ==
  /\ \A c \in WinCreates : c \in WinEnv!Ops /\ c \notin WinOpens
  /\ \A o \in WinOpens : o \in WinEnv!Ops /\ o \notin WinCreates
  BY WaitNames, Zenon DEF WinEnv!Ops

\* set_value of a promise of the environment that was not set before sets it once.
LEMMA WinResolves ==
  ASSUME WinEnvInv, NEW o \in WinEnv!Ops, NEW r \in WinEnv!Known, we_resolved[o] = 0,
         WinEnv!Resolve(o, r)
  PROVE  /\ we_value' \in [WinEnv!Ops -> {"unknown"} \cup WinEnv!Known]
         /\ we_resolved' \in [WinEnv!Ops -> 0..2]
         /\ we_value'[o] = r /\ we_resolved'[o] = 1 /\ r # "unknown"
         /\ \A p \in WinEnv!Ops \ {o} : we_value'[p] = we_value[p] /\ we_resolved'[p] = we_resolved[p]
<1>1. /\ we_value \in [WinEnv!Ops -> {"unknown"} \cup WinEnv!Known]
      /\ we_resolved \in [WinEnv!Ops -> 0..2]
  BY Zenon DEF WinEnvInv, WinEnv!TypeOK
<1>2. /\ we_value' = [we_value EXCEPT ![o] = r]
      /\ we_resolved' = [we_resolved EXCEPT ![o] = IF we_resolved[o] < 2 THEN we_resolved[o] + 1
                                                       ELSE we_resolved[o]]
  BY Zenon DEF WinEnv!Resolve
<1>3. we_resolved' = [we_resolved EXCEPT ![o] = 1] /\ 1 \in 0..2
  BY <1>2
<1>4. r # "unknown"
  BY Zenon DEF WinEnv!Known
<1> QED  BY <1>1, <1>2, <1>3, <1>4, Zenon

\* A create whose promise is set, by the thread or by a worker, and which was in no other
\* place
LEMMA WinCreateEnds ==
  ASSUME WinEnvInv, NEW c \in WinCreates, NEW r \in WinEnv!Known, we_resolved[c] = 0,
         r = "success" => we_instance[c] = "taken", WinEnv!ResolveCreate(c, r),
         we_result[c] # "idle", we_io'[c] = "none",
         we_io' \in [WinCreates -> {"none", "pending", "success", "error"}],
         \A d \in WinCreates : d # c => we_io'[d] = we_io[d],
         WinThreadOK', we_thread' \in Seq(WinTasks),
         UNCHANGED <<we_trying, we_listed, we_cancels, we_timer, we_result>>
  PROVE  WinEnvInv'
<1>1. /\ we_value' \in [WinEnv!Ops -> {"unknown"} \cup WinEnv!Known]
      /\ we_resolved' \in [WinEnv!Ops -> 0..2]
      /\ we_value'[c] = r /\ we_resolved'[c] = 1 /\ r # "unknown"
      /\ \A p \in WinEnv!Ops \ {c} : we_value'[p] = we_value[p] /\ we_resolved'[p] = we_resolved[p]
  BY WinResolves, WinSides, Zenon DEF WinEnv!ResolveCreate
<1>2. WinEnv!TypeOK /\ c \in WinEnv!Ops
        /\ we_res' = [we_res EXCEPT ![c] = r]
        /\ we_instance' = [we_instance EXCEPT ![c] = IF r = "success" THEN we_instance[c] ELSE "closed"]
  BY WinSides, Zenon DEF WinEnvInv, WinEnv!ResolveCreate
<1>3. /\ we_res' \in [WinEnv!Ops -> {"unknown"} \cup WinEnv!Known]
      /\ we_instance' \in [WinCreates -> {"none", "free", "taken", "closed"}]
      /\ r = "success" => we_instance'[c] = "taken"
      /\ r # "success" => we_instance'[c] = "closed"
      /\ \A d \in WinCreates : d # c => we_res'[d] = we_res[d] /\ we_instance'[d] = we_instance[d]
  BY <1>2, WinSides, Zenon DEF WinEnv!TypeOK
<1>4. WinEnv!TypeOK'
  BY <1>1, <1>2, <1>3, Zenon DEF WinEnv!TypeOK, WinTasks
<1>5. WinOpOK(c)' /\ WinCreateOK(c)'
  <2>1. we_resolved'[c] # 0 /\ we_resolved'[c] \in {0, 1}
    BY <1>1
  <2>2. we_result'[c] # "idle"
    OBVIOUS
  <2> QED  BY <1>1, <1>3, <2>1, <2>2, Zenon DEF WinOpOK, WinCreateOK
<1>6. \A o \in WinEnv!Ops : WinOpOK(o)'
  BY <1>1, <1>5, WinUntouched, Zenon
<1>7. \A d \in WinCreates : WinCreateOK(d)'
  BY <1>1, <1>3, <1>5, WinUntouched, WinSides, Zenon
<1>8. \A o \in WinOpens : WinOpenOK(o)'
  BY <1>1, WinUntouched, WinSides, Zenon
<1> QED  BY <1>4, <1>6, <1>7, <1>8, Zenon DEF WinEnvInv

\* The first task of the thread is of a create_pipe.
LEMMA WinFirstTask ==
  ASSUME WinEnvInv, NEW t, WinEnv!NextTask(t)
  PROVE  /\ we_thread # <<>> /\ we_thread[1] \in WinTasks /\ 1 \in 1..Len(we_thread)
         /\ Head(we_thread) = we_thread[1] /\ we_thread[1][1] = t
         /\ WinEnv!TaskOp = we_thread[1][2] /\ WinEnv!TaskOp \in WinCreates
         /\ Tail(we_thread) \in Seq(WinTasks)
<1>1. we_thread \in Seq(WinTasks) /\ Len(we_thread) \in Nat /\ we_thread # <<>>
  BY WinThreadType, Zenon DEF WinEnv!NextTask
<1>2. /\ we_thread[1] \in WinTasks /\ 1 \in 1..Len(we_thread) /\ Head(we_thread) = we_thread[1]
      /\ Tail(we_thread) \in Seq(WinTasks)
  BY <1>1
<1> QED  BY <1>1, <1>2, WinThreadType, Zenon DEF WinEnv!NextTask, WinEnv!TaskOp

\* A failure does not replace the result that a cancelation stored.
LEMMA WinFailure ==
  ASSUME WinEnvInv, NEW c \in WinCreates, we_resolved[c] = 0
  PROVE  /\ WinEnv!SetIfPossible(we_res[c], "failed") \in WinEnv!Known
         /\ WinEnv!SetIfPossible(we_res[c], "failed") # "success"
<1>1. we_res[c] \in {"unknown", "canceled", "timeout"}
  BY Zenon DEF WinEnvInv, WinCreateOK
<1> QED  BY <1>1, Zenon DEF WinEnv!SetIfPossible, WinEnv!Known

\* The worker takes the completion of ConnectNamedPipe from the port and sets the promise.
LEMMA WinWorkerTakesStep ==
  ASSUME WinEnvInv, NEW c \in WinCreates, WinEnv!WorkerTakes(c)
  PROVE  WinEnvInv'
<1> DEFINE r == WinEnv!CreateOutcome(c)
<1>1. /\ WinEnv!TypeOK /\ we_io[c] \in {"success", "error"} /\ WinEnv!ResolveCreate(c, r)
      /\ we_io' = [we_io EXCEPT ![c] = "none"]
      /\ UNCHANGED <<we_thread, we_trying, we_listed, we_cancels, we_timer, we_result>>
  BY Zenon DEF WinEnvInv, WinEnv!WorkerTakes
<1>2. we_resolved[c] = 0 /\ we_result[c] # "idle" /\ (we_io[c] = "success" => we_instance[c] = "taken")
  BY <1>1, Zenon DEF WinEnvInv, WinCreateOK
<1>3. r \in WinEnv!Known /\ (r = "success" => we_instance[c] = "taken")
  BY <1>2, WinFailure, Zenon DEF WinEnv!CreateOutcome, WinEnv!Known
<1> HIDE DEF r
<1>4. /\ we_io' \in [WinCreates -> {"none", "pending", "success", "error"}] /\ we_io'[c] = "none"
      /\ \A d \in WinCreates : d # c => we_io'[d] = we_io[d]
  BY <1>1, Zenon DEF WinEnv!TypeOK
<1>5. ASSUME NEW d \in WinCreates, we_io[d] = "none" PROVE WinKept(d)
  <2>1. d # c
    BY <1>1, <1>5, Zenon
  <2>2. we_resolved'[d] = we_resolved[d]
    BY <1>1, <1>2, <1>3, <2>1, WinResolves, WinSides, Zenon DEF WinEnv!ResolveCreate
  <2>3. we_instance'[d] = we_instance[d]
    BY <1>1, <2>1, Zenon DEF WinEnv!ResolveCreate, WinEnv!TypeOK
  <2> QED  BY <1>1, <1>4, <1>5, <2>1, <2>2, <2>3, Zenon DEF WinKept
<1>6. WinThreadOK' /\ we_thread' \in Seq(WinTasks)
  BY <1>1, <1>5, WinThreadSame, WinThreadType, Zenon
<1> QED  BY <1>1, <1>2, <1>3, <1>4, <1>6, WinCreateEnds, Zenon

\* A task of the thread that ends its create_pipe sets the promise, which nobody else holds.
LEMMA WinTaskEnds ==
  ASSUME WinEnvInv, NEW t \in {"create", "connect"}, WinEnv!NextTask(t),
         we_thread' = Tail(we_thread), NEW r \in WinEnv!Known,
         r = "success" => we_instance[WinEnv!TaskOp] = "taken",
         WinEnv!ResolveCreate(WinEnv!TaskOp, r),
         UNCHANGED <<we_io, we_trying, we_listed, we_cancels, we_timer, we_result>>
  PROVE  WinEnvInv'
<1> DEFINE c == WinEnv!TaskOp
<1>1. /\ we_thread # <<>> /\ 1 \in 1..Len(we_thread) /\ we_thread[1][1] = t
      /\ c = we_thread[1][2] /\ c \in WinCreates /\ Tail(we_thread) \in Seq(WinTasks)
  BY WinFirstTask, Zenon
<1>2. WinEnv!ResolveCreate(c, r) /\ (r = "success" => we_instance[c] = "taken")
  BY Zenon
<1> HIDE DEF c
<1>3. WinMaking(1)
  BY <1>1, Zenon DEF WinMaking
<1>4. we_io[c] = "none" /\ we_resolved[c] = 0 /\ we_result[c] # "idle"
  BY <1>1, <1>3, Zenon DEF WinEnvInv, WinThreadOK
<1>5. ASSUME NEW d \in WinCreates, we_io[d] = "none", d # c PROVE WinKept(d)
  <2>1. we_resolved'[d] = we_resolved[d]
    <3>1. WinEnv!Resolve(c, r) /\ c \in WinEnv!Ops /\ d \in WinEnv!Ops \ {c}
      BY <1>1, <1>2, <1>5, WinSides, Zenon DEF WinEnv!ResolveCreate
    <3> QED  BY <1>4, <3>1, WinResolves, Zenon
  <2>2. we_instance'[d] = we_instance[d]
    BY <1>2, <1>5, Zenon DEF WinEnvInv, WinEnv!ResolveCreate, WinEnv!TypeOK
  <2> QED  BY <1>5, <2>1, <2>2, Zenon DEF WinKept
<1>6. WinThreadOK' /\ we_thread' \in Seq(WinTasks)
  BY <1>1, <1>3, <1>5, WinThreadTail, Zenon
<1>7. we_io' \in [WinCreates -> {"none", "pending", "success", "error"}]
  BY Zenon DEF WinEnvInv, WinEnv!TypeOK
<1>8. we_io'[c] = "none" /\ \A d \in WinCreates : d # c => we_io'[d] = we_io[d]
  BY <1>4, Zenon
<1> QED  BY <1>1, <1>2, <1>4, <1>6, <1>7, <1>8, WinCreateEnds, Zenon

\* The task of create_pipe_async preserves the invariant: it goes on to wait for a client or,
\* when it cannot make the instance, sets the promise.
LEMMA WinRunCreateStep ==
  ASSUME WinEnvInv, WinEnv!RunCreate
  PROVE  WinEnvInv'
<1>1. /\ WinEnv!NextTask("create")
      /\ UNCHANGED <<we_io, we_trying, we_listed, we_cancels, we_timer, we_result>>
  BY Zenon DEF WinEnv!RunCreate
<1> PICK c \in WinCreates : c = WinEnv!TaskOp
  BY <1>1, WinFirstTask, Zenon
<1>2. /\ we_thread \in Seq(WinTasks) /\ Len(we_thread) \in Nat
      /\ 1 \in 1..Len(we_thread) /\ we_thread[1][1] = "create"
      /\ c = we_thread[1][2] /\ c \in WinCreates
  BY <1>1, WinFirstTask, WinThreadType, Zenon
<1>3. WinMaking(1)
  BY <1>2, Zenon DEF WinMaking
<1>4. /\ we_io[c] = "none" /\ we_resolved[c] = 0 /\ we_result[c] # "idle"
      /\ \A j \in 1..Len(we_thread) : WinMaking(j) /\ we_thread[j][2] = c => 1 = j
  BY <1>2, <1>3, Zenon DEF WinEnvInv, WinThreadOK
<1>5. CASE /\ we_thread' = Tail(we_thread)
           /\ WinEnv!ResolveCreate(c, WinEnv!SetIfPossible(we_res[c], "failed"))
  BY <1>1, <1>2, <1>4, <1>5, WinFailure, WinTaskEnds, Zenon
<1>6. CASE /\ we_thread' = [we_thread EXCEPT ![1] = <<"connect", c>>]
           /\ we_instance' = [we_instance EXCEPT ![c] = "free"]
           /\ UNCHANGED <<we_res, we_value, we_resolved>>
  <2>1. <<"connect", c>> \in WinTasks
    BY <1>2, Zenon DEF WinTasks
  <2>2. /\ we_thread' \in Seq(WinTasks) /\ Len(we_thread') = Len(we_thread)
        /\ we_thread'[1] = <<"connect", c>>
        /\ \A i \in 1..Len(we_thread) : i # 1 => we_thread'[i] = we_thread[i]
    BY <1>2, <1>6, <2>1
  <2>3. we_thread'[1][1] = "connect" /\ we_thread'[1][2] = c
    BY <2>2
  <2>4. WinEnv!TypeOK /\ we_value[c] = "unknown"
    BY <1>2, <1>4, WinSides, Zenon DEF WinEnvInv, WinOpOK
  <2>5. /\ we_instance' \in [WinCreates -> {"none", "free", "taken", "closed"}]
        /\ we_instance'[c] = "free"
        /\ \A d \in WinCreates : d # c => we_instance'[d] = we_instance[d]
    BY <1>2, <1>6, <2>4, Zenon DEF WinEnv!TypeOK
  <2>6. WinEnv!TypeOK'
    BY <1>1, <1>6, <2>2, <2>4, <2>5, Zenon DEF WinEnv!TypeOK, WinTasks
  <2>7. WinThreadOK'
    <3>1. \A i \in 1..Len(we_thread') :
            /\ i \in 1..Len(we_thread) /\ we_thread'[i][2] = we_thread[i][2]
            /\ WinMaking(i)' => WinMaking(i)
            /\ i # 1 => we_thread'[i] = we_thread[i]
      BY <1>2, <1>3, <2>2, <2>3, Zenon DEF WinMaking
    <3>2. ASSUME NEW i \in 1..Len(we_thread'), WinMaking(i)'
          PROVE  LET d == we_thread'[i][2]
                 IN  /\ we_io'[d] = "none" /\ we_resolved'[d] = 0 /\ we_result'[d] # "idle"
                     /\ we_thread'[i][1] = "connect" => we_instance'[d] \in {"free", "taken"}
                     /\ \A j \in 1..Len(we_thread') : WinMaking(j)' /\ we_thread'[j][2] = d => i = j
      <4> DEFINE d == we_thread[i][2]
      <4>1. /\ i \in 1..Len(we_thread) /\ WinMaking(i) /\ we_thread'[i][2] = d
            /\ d \in WinCreates
        BY <3>1, <3>2, WinThreadType, Zenon
      <4>2. /\ we_io[d] = "none" /\ we_resolved[d] = 0 /\ we_result[d] # "idle"
            /\ we_thread[i][1] = "connect" => we_instance[d] \in {"free", "taken"}
            /\ \A j \in 1..Len(we_thread) : WinMaking(j) /\ we_thread[j][2] = d => i = j
        BY <4>1, Zenon DEF WinEnvInv, WinThreadOK
      <4>3. \A j \in 1..Len(we_thread') : WinMaking(j)' /\ we_thread'[j][2] = d => i = j
        BY <3>1, <4>2, Zenon
      <4> HIDE DEF d
      <4>4. we_thread'[i][1] = "connect" => we_instance'[d] \in {"free", "taken"}
        <5>1. CASE d = c
          BY <2>5, <5>1, Zenon
        <5>2. CASE d # c
          <6>1. i # 1
            BY <1>2, <5>2, Zenon DEF d
          <6> QED  BY <2>5, <3>1, <3>2, <4>1, <4>2, <5>2, <6>1, Zenon
        <5> QED  BY <5>1, <5>2, Zenon
      <4> QED  BY <1>1, <1>6, <4>1, <4>2, <4>3, <4>4, Zenon
    <3> QED  BY <3>2, Zenon DEF WinThreadOK
  <2>8. WinCreateOK(c)'
    <3>1. WinCreateOK(c)
      BY <1>2, Zenon DEF WinEnvInv
    <3> QED  BY <1>1, <1>4, <1>6, <2>4, <3>1, Zenon DEF WinCreateOK, WinEnv!Known
  <2>9. \A d \in WinCreates : WinCreateOK(d)'
    BY <1>1, <1>6, <2>5, <2>8, WinUntouched, Zenon
  <2> QED  BY <1>1, <1>6, <2>6, <2>7, <2>9, WinUntouched, Zenon DEF WinEnvInv
<1> QED  BY <1>5, <1>6, Zenon DEF WinEnv!RunCreate, WinEnv!NotResolved

\* start_wait_connect preserves the invariant: it leaves the create_pipe to the completion
\* port, or ends it when a client is there already or the call failed.
LEMMA WinRunConnectStep ==
  ASSUME WinEnvInv, WinEnv!RunConnect
  PROVE  WinEnvInv'
<1>1. /\ WinEnv!NextTask("connect") /\ we_thread' = Tail(we_thread)
      /\ UNCHANGED <<we_trying, we_listed, we_cancels, we_timer, we_result>>
  BY Zenon DEF WinEnv!RunConnect
<1> PICK c \in WinCreates : c = WinEnv!TaskOp
  BY <1>1, WinFirstTask, Zenon
<1>2. /\ we_thread # <<>> /\ 1 \in 1..Len(we_thread) /\ we_thread[1][1] = "connect"
      /\ c = we_thread[1][2] /\ c \in WinCreates
  BY <1>1, WinFirstTask, Zenon
<1>3. WinMaking(1)
  BY <1>2, Zenon DEF WinMaking
<1>4. we_io[c] = "none" /\ we_resolved[c] = 0 /\ we_result[c] # "idle"
  BY <1>2, <1>3, Zenon DEF WinEnvInv, WinThreadOK
<1>5. CASE we_instance[c] = "taken" /\ WinEnv!ResolveCreate(c, "success") /\ UNCHANGED we_io
  <2>1. "success" \in WinEnv!Known
    BY Zenon DEF WinEnv!Known
  <2> QED  BY <1>1, <1>5, <2>1, WinTaskEnds, Zenon
<1>6. CASE /\ WinEnv!ResolveCreate(c, WinEnv!SetIfPossible(we_res[c], "failed"))
           /\ UNCHANGED we_io
  BY <1>1, <1>2, <1>4, <1>6, WinFailure, WinTaskEnds, Zenon
<1>7. CASE /\ we_io' = [we_io EXCEPT ![c] = "pending"]
           /\ UNCHANGED <<we_instance, we_res, we_value, we_resolved>>
  <2>1. WinEnv!TypeOK
    BY Zenon DEF WinEnvInv
  <2>2. /\ we_io' \in [WinCreates -> {"none", "pending", "success", "error"}]
        /\ we_io'[c] = "pending" /\ \A d \in WinCreates : d # c => we_io'[d] = we_io[d]
    BY <1>2, <1>7, <2>1, Zenon DEF WinEnv!TypeOK
  <2>3. ASSUME NEW d \in WinCreates, we_io[d] = "none", d # c PROVE WinKept(d)
    BY <1>1, <1>7, <2>2, <2>3, Zenon DEF WinKept
  <2>4. WinThreadOK' /\ we_thread' \in Seq(WinTasks)
    BY <1>1, <1>2, <1>3, <2>3, WinThreadTail, Zenon
  <2>5. WinEnv!TypeOK'
    BY <1>1, <1>7, <2>1, <2>2, <2>4, Zenon DEF WinEnv!TypeOK, WinTasks
  <2>6. WinCreateOK(c)'
    <3>1. WinCreateOK(c) /\ WinEnv!Known' = WinEnv!Known
      BY <1>2, Zenon DEF WinEnvInv, WinEnv!Known
    <3> QED  BY <1>1, <1>4, <1>7, <2>2, <3>1, Zenon DEF WinCreateOK
  <2>7. \A d \in WinCreates : WinCreateOK(d)'
    BY <1>1, <1>7, <2>2, <2>6, WinUntouched, Zenon
  <2> QED  BY <1>1, <1>7, <2>4, <2>5, <2>7, WinUntouched, Zenon DEF WinEnvInv
<1> QED  BY <1>5, <1>6, <1>7, Zenon DEF WinEnv!RunConnect, WinEnv!NotResolved

\* win_pipe_create_operation::cancel preserves the invariant: it stores the result and, when
\* a wait is pending, leaves the promise to the completion that CancelIo makes.
LEMMA WinRunCancelStep ==
  ASSUME WinEnvInv, WinEnv!RunCancel
  PROVE  WinEnvInv'
<1> PICK c \in WinCreates : c = WinEnv!TaskOp
  BY WinFirstTask, Zenon DEF WinEnv!RunCancel
<1> DEFINE new == WinEnv!SetIfPossible(we_res[c], Head(we_thread)[1])
<1>1. /\ WinEnv!TypeOK
      /\ we_thread' = Tail(we_thread)
      /\ we_res' = [we_res EXCEPT ![c] = new]
      /\ we_io' = [we_io EXCEPT ![c] = IF we_io[c] = "pending" THEN "error" ELSE we_io[c]]
      /\ UNCHANGED <<we_instance, we_trying, we_listed, we_cancels, we_timer, we_value,
                     we_resolved, we_result>>
  BY Zenon DEF WinEnvInv, WinEnv!RunCancel
<1>2. /\ we_thread # <<>> /\ Head(we_thread)[1] \in {"canceled", "timeout"}
      /\ c \in WinCreates /\ c \in WinEnv!Ops
  BY WinFirstTask, WinSides, Zenon DEF WinEnv!RunCancel
<1>3. /\ new \in {"unknown"} \cup WinEnv!Known
      /\ we_res[c] \in {"unknown", "canceled", "timeout"} => new \in {"canceled", "timeout"}
  BY <1>1, <1>2, Zenon DEF WinEnv!SetIfPossible, WinEnv!TypeOK, WinEnv!Known
<1> HIDE DEF new
<1>4. /\ we_res' \in [WinEnv!Ops -> {"unknown"} \cup WinEnv!Known] /\ we_res'[c] = new
      /\ \A d \in WinCreates : d # c => we_res'[d] = we_res[d]
  BY <1>1, <1>2, <1>3, WinSides, Zenon DEF WinEnv!TypeOK
<1>5. /\ we_io' \in [WinCreates -> {"none", "pending", "success", "error"}]
      /\ we_io'[c] = we_io[c] \/ (we_io[c] = "pending" /\ we_io'[c] = "error")
      /\ \A d \in WinCreates : d # c => we_io'[d] = we_io[d]
  BY <1>1, <1>2, Zenon DEF WinEnv!TypeOK
<1>6. ASSUME NEW d \in WinCreates, we_io[d] = "none" PROVE WinKept(d)
  BY <1>1, <1>5, <1>6, Zenon DEF WinKept
<1>7. WinThreadOK' /\ we_thread' \in Seq(WinTasks)
  BY <1>1, <1>2, <1>6, WinThreadTail, Zenon
<1>8. WinEnv!TypeOK'
  BY <1>1, <1>4, <1>5, <1>7, Zenon DEF WinEnv!TypeOK, WinTasks
<1>9. WinCreateOK(c)'
  <2>1. WinCreateOK(c) /\ WinEnv!Known' = WinEnv!Known
    BY <1>2, Zenon DEF WinEnvInv, WinEnv!Known
  <2> QED  BY <1>1, <1>3, <1>4, <1>5, <2>1, Zenon DEF WinCreateOK
<1>10. \A d \in WinCreates : WinCreateOK(d)'
  BY <1>1, <1>4, <1>5, <1>9, WinUntouched, Zenon
<1> QED  BY <1>1, <1>7, <1>8, <1>10, WinUntouched, Zenon DEF WinEnvInv

\* A call that begins leaves a new operation with an unset promise.
LEMMA WinBegins ==
  ASSUME WinEnvInv, NEW o \in WinEnv!Ops, WinEnv!Begin(o)
  PROVE  /\ we_result[o] = "idle" /\ we_resolved[o] = 0 /\ we_value[o] = "unknown"
         /\ we_result' \in [WinEnv!Ops -> {"idle", "pending", "exception"} \cup WinEnv!Known]
         /\ we_result'[o] = "pending"
         /\ \A p \in WinEnv!Ops \ {o} : we_result'[p] = we_result[p]
         /\ we_listed' \subseteq WinEnv!Ops
         /\ we_timer' \in [WinEnv!Ops -> BOOLEAN]
<1>1. /\ WinEnv!TypeOK
      /\ we_result[o] = "idle"
      /\ we_result' = [we_result EXCEPT ![o] = "pending"]
      /\ we_listed' = we_listed \cup {o}
      /\ we_timer' = [we_timer EXCEPT ![o] = o \in WinTimedWaits]
  BY Zenon DEF WinEnvInv, WinEnv!Begin
<1>2. (o \in WinTimedWaits) \in BOOLEAN
  OBVIOUS
<1>3. we_resolved[o] = 0 /\ we_value[o] = "unknown"
  BY <1>1, Zenon DEF WinEnvInv, WinOpOK
<1> QED  BY <1>1, <1>2, <1>3, Zenon DEF WinEnv!TypeOK

\* create_pipe and create_pipe_async preserve the invariant: the call lists its operation and
\* posts the task that makes the instance.
LEMMA WinCreatePipeStep ==
  ASSUME WinEnvInv, NEW c \in WinCreates, WinEnv!CreatePipe(c)
  PROVE  WinEnvInv'
<1>1. /\ WinEnv!TypeOK /\ c \in WinEnv!Ops /\ WinEnv!Begin(c)
      /\ we_thread' = Append(we_thread, <<"create", c>>)
      /\ UNCHANGED <<we_instance, we_io, we_res, we_trying, we_cancels, we_value, we_resolved>>
  BY WinSides, Zenon DEF WinEnvInv, WinEnv!CreatePipe
<1>2. /\ we_result[c] = "idle" /\ we_resolved[c] = 0 /\ we_value[c] = "unknown"
      /\ we_result' \in [WinEnv!Ops -> {"idle", "pending", "exception"} \cup WinEnv!Known]
      /\ we_result'[c] = "pending"
      /\ \A p \in WinEnv!Ops \ {c} : we_result'[p] = we_result[p]
      /\ we_listed' \subseteq WinEnv!Ops
      /\ we_timer' \in [WinEnv!Ops -> BOOLEAN]
  BY <1>1, WinBegins, Zenon
<1>3. WinCreateOK(c) /\ we_io[c] = "none"
  BY <1>2, Zenon DEF WinEnvInv, WinCreateOK
<1>4. /\ we_thread' \in Seq(WinTasks)
      /\ Len(we_thread') = Len(we_thread) + 1 /\ Len(we_thread) \in Nat
      /\ we_thread'[Len(we_thread) + 1] = <<"create", c>>
      /\ \A i \in 1..Len(we_thread) : we_thread'[i] = we_thread[i]
  <2>1. we_thread \in Seq(WinTasks) /\ <<"create", c>> \in WinTasks
    BY WinThreadType, Zenon DEF WinTasks
  <2> QED  BY <1>1, <2>1
<1>5. WinEnv!TypeOK'
  BY <1>1, <1>2, <1>4, Zenon DEF WinEnv!TypeOK, WinTasks
<1>6. WinThreadOK'
  <2> DEFINE n == Len(we_thread) + 1
  <2>1. we_thread'[n][1] = "create" /\ we_thread'[n][2] = c
    BY <1>4
  <2>2. \A i \in 1..Len(we_thread') : i = n \/ i \in 1..Len(we_thread)
    BY <1>4
  <2> HIDE DEF n
  <2>3. \A i \in 1..Len(we_thread) :
          /\ we_thread'[i] = we_thread[i] /\ we_thread[i][2] \in WinCreates
          /\ WinMaking(i)' <=> WinMaking(i)
          /\ WinMaking(i) => we_thread[i][2] # c
    <3>1. \A i \in 1..Len(we_thread) : we_thread'[i] = we_thread[i]
      BY <1>4, Zenon
    <3>2. \A i \in 1..Len(we_thread) : we_thread[i][2] \in WinCreates
      BY WinThreadType, Zenon DEF WinEnvInv
    <3>3. \A i \in 1..Len(we_thread) : WinMaking(i)' <=> WinMaking(i)
      BY <3>1, Zenon DEF WinMaking
    <3>4. \A i \in 1..Len(we_thread) : WinMaking(i) => we_thread[i][2] # c
      BY <1>2, Zenon DEF WinEnvInv, WinThreadOK
    <3> QED  BY <3>1, <3>2, <3>3, <3>4, Zenon
  <2>4. ASSUME NEW i \in 1..Len(we_thread'), WinMaking(i)'
        PROVE  LET d == we_thread'[i][2]
               IN  /\ we_io'[d] = "none" /\ we_resolved'[d] = 0 /\ we_result'[d] # "idle"
                   /\ we_thread'[i][1] = "connect" => we_instance'[d] \in {"free", "taken"}
                   /\ \A j \in 1..Len(we_thread') : WinMaking(j)' /\ we_thread'[j][2] = d => i = j
    <3>1. CASE i = n
      <4>1. \A j \in 1..Len(we_thread') : WinMaking(j)' /\ we_thread'[j][2] = c => j = n
        BY <2>2, <2>3, Zenon
      <4> QED  BY <1>1, <1>2, <1>3, <2>1, <3>1, <4>1, Zenon
    <3>2. CASE i # n
      <4> DEFINE d == we_thread[i][2]
      <4>1. i \in 1..Len(we_thread) /\ we_thread'[i] = we_thread[i] /\ WinMaking(i)
              /\ d \in WinCreates /\ d # c
        BY <2>2, <2>3, <2>4, <3>2, Zenon
      <4>2. /\ we_io[d] = "none" /\ we_resolved[d] = 0 /\ we_result[d] # "idle"
            /\ we_thread[i][1] = "connect" => we_instance[d] \in {"free", "taken"}
            /\ \A j \in 1..Len(we_thread) : WinMaking(j) /\ we_thread[j][2] = d => i = j
        BY <4>1, Zenon DEF WinEnvInv, WinThreadOK
      <4>3. \A j \in 1..Len(we_thread') : WinMaking(j)' /\ we_thread'[j][2] = d => i = j
        BY <2>1, <2>2, <2>3, <4>1, <4>2, Zenon
      <4>4. we_result'[d] # "idle"
        BY <1>2, <4>1, <4>2, WinSides, Zenon
      <4> QED  BY <1>1, <4>1, <4>2, <4>3, <4>4, Zenon
    <3> QED  BY <3>1, <3>2, Zenon
  <2> QED  BY <2>4, Zenon DEF WinThreadOK
<1>7. WinOpOK(c)' /\ WinCreateOK(c)'
  <2>1. WinOpOK(c) /\ WinEnv!Known' = WinEnv!Known
    BY <1>1, Zenon DEF WinEnvInv, WinEnv!Known
  <2> QED  BY <1>1, <1>2, <1>3, <2>1, Zenon DEF WinOpOK, WinCreateOK
<1>8. \A o \in WinEnv!Ops : WinOpOK(o)'
  BY <1>1, <1>2, <1>7, WinUntouched, Zenon
<1>9. \A d \in WinCreates : WinCreateOK(d)'
  BY <1>1, <1>2, <1>7, WinUntouched, WinSides, Zenon
<1>10. \A o \in WinOpens : WinOpenOK(o)'
  BY <1>1, <1>2, WinUntouched, WinSides, Zenon
<1> QED  BY <1>5, <1>6, <1>8, <1>9, <1>10, Zenon DEF WinEnvInv

\* The kernel ends the wait of ConnectNamedPipe with an error: the completion is queued.
LEMMA WinConnectBreaksStep ==
  ASSUME WinEnvInv, NEW c \in WinCreates, WinEnv!ConnectBreaks(c)
  PROVE  WinEnvInv'
<1>1. /\ WinEnv!TypeOK /\ we_io[c] = "pending" /\ we_io' = [we_io EXCEPT ![c] = "error"]
      /\ UNCHANGED <<we_thread, we_instance, we_res, we_trying, we_listed, we_cancels, we_timer,
                     we_value, we_resolved, we_result>>
  BY Zenon DEF WinEnvInv, WinEnv!ConnectBreaks
<1>2. /\ we_io' \in [WinCreates -> {"none", "pending", "success", "error"}] /\ we_io'[c] = "error"
      /\ \A d \in WinCreates : d # c => we_io'[d] = we_io[d]
  BY <1>1, Zenon DEF WinEnv!TypeOK
<1>3. ASSUME NEW d \in WinCreates, we_io[d] = "none" PROVE WinKept(d)
  BY <1>1, <1>2, <1>3, Zenon DEF WinKept
<1>4. WinThreadOK'
  BY <1>1, <1>3, WinThreadSame, Zenon
<1>5. WinEnv!TypeOK'
  BY <1>1, <1>2, Zenon DEF WinEnv!TypeOK
<1>6. WinCreateOK(c)'
  <2>1. WinCreateOK(c) /\ WinEnv!Known' = WinEnv!Known
    BY Zenon DEF WinEnvInv, WinEnv!Known
  <2> QED  BY <1>1, <1>2, <2>1, Zenon DEF WinCreateOK
<1>7. \A d \in WinCreates : WinCreateOK(d)'
  BY <1>1, <1>2, <1>6, WinUntouched, Zenon
<1> QED  BY <1>1, <1>4, <1>5, <1>7, WinUntouched, Zenon DEF WinEnvInv

\* The continuations of a promise that was set take its operation out of the list.
LEMMA WinFinallyStep ==
  ASSUME WinEnvInv, NEW o \in WinEnv!Ops, NEW r \in {"exception"} \cup WinEnv!Known \cup {we_value[o]},
         WinEnv!Finally(o, r),
         UNCHANGED <<we_thread, we_instance, we_io, we_res, we_trying, we_cancels, we_value,
                     we_resolved>>
  PROVE  WinEnvInv'
<1>1. /\ WinEnv!TypeOK /\ we_resolved[o] > 0 /\ we_result[o] = "pending"
      /\ we_result' = [we_result EXCEPT ![o] = r]
      /\ we_listed' = we_listed \ {o}
      /\ we_timer' = [we_timer EXCEPT ![o] = FALSE]
  BY Zenon DEF WinEnvInv, WinEnv!Finally
<1>2. WinOpOK(o) /\ we_resolved[o] # 0 /\ we_value[o] \in WinEnv!Known
  <2>1. we_resolved[o] # 0
    BY <1>1
  <2> QED  BY <1>1, <2>1, Zenon DEF WinEnvInv, WinOpOK, WinEnv!TypeOK
<1>3. r \in {"exception"} \cup WinEnv!Known /\ r # "idle"
  BY <1>2, Zenon DEF WinEnv!Known
<1>4. /\ we_result' \in [WinEnv!Ops -> {"idle", "pending", "exception"} \cup WinEnv!Known]
      /\ we_result'[o] = r /\ \A p \in WinEnv!Ops \ {o} : we_result'[p] = we_result[p]
  BY <1>1, <1>3, Zenon DEF WinEnv!TypeOK
<1>5. WinEnv!TypeOK'
  BY <1>1, <1>4, Zenon DEF WinEnv!TypeOK
<1>6. ASSUME NEW d \in WinCreates, we_io[d] = "none" PROVE WinKept(d)
  BY <1>3, <1>4, <1>6, WinSides, Zenon DEF WinKept
<1>7. WinThreadOK'
  BY <1>6, WinThreadSame, Zenon
<1>8. WinOpOK(o)'
  BY <1>2, <1>3, <1>4, Zenon DEF WinOpOK
<1>9. \A p \in WinEnv!Ops : WinOpOK(p)'
  BY <1>4, <1>8, WinUntouched, Zenon
<1>10. ASSUME NEW c \in WinCreates PROVE WinCreateOK(c)'
  <2>1. WinCreateOK(c) /\ WinEnv!Known' = WinEnv!Known
    BY Zenon DEF WinEnvInv, WinEnv!Known
  <2>2. we_result[c] # "idle" => we_result'[c] # "idle"
    BY <1>3, <1>4, WinSides, Zenon
  <2> QED  BY <2>1, <2>2, Zenon DEF WinCreateOK
<1>11. ASSUME NEW p \in WinOpens PROVE WinOpenOK(p)'
  <2>1. WinOpenOK(p)
    BY Zenon DEF WinEnvInv
  <2>2. we_result[p] # "idle" => we_result'[p] # "idle"
    BY <1>3, <1>4, WinSides, Zenon
  <2> QED  BY <2>1, <2>2, Zenon DEF WinOpenOK
<1> QED  BY <1>5, <1>7, <1>9, <1>10, <1>11, Zenon DEF WinEnvInv

\* A step of an open's thread leaves the creates in order, whatever instance it takes.
LEMMA WinOpenSteps ==
  ASSUME WinEnvInv, NEW o \in WinOpens, WinEnv!TypeOK', UNCHANGED we_thread,
         \A c \in WinCreates :
           /\ we_resolved'[c] = we_resolved[c] /\ we_value'[c] = we_value[c]
           /\ we_result'[c] = we_result[c] /\ we_res'[c] = we_res[c]
           /\ \/ we_instance'[c] = we_instance[c] /\ we_io'[c] = we_io[c]
              \/ /\ we_instance[c] = "free" /\ we_instance'[c] = "taken"
                 /\ we_io'[c] = we_io[c] \/ (we_io[c] = "pending" /\ we_io'[c] = "success"),
         \A p \in WinOpens \ {o} :
           /\ we_resolved'[p] = we_resolved[p] /\ we_value'[p] = we_value[p]
           /\ we_result'[p] = we_result[p] /\ we_trying'[p] = we_trying[p],
         WinOpOK(o)', WinOpenOK(o)'
  PROVE  WinEnvInv'
<1>1. ASSUME NEW c \in WinCreates, we_io[c] = "none" PROVE WinKept(c)
  BY <1>1, Zenon DEF WinKept
<1>2. WinThreadOK'
  BY <1>1, WinThreadSame, Zenon
<1>3. \A p \in WinEnv!Ops : WinOpOK(p)'
  BY WinUntouched, Zenon DEF WinEnv!Ops
<1>4. \A p \in WinOpens : WinOpenOK(p)'
  BY WinUntouched, Zenon
<1>5. ASSUME NEW c \in WinCreates PROVE WinCreateOK(c)'
  <2>1. CASE we_instance'[c] = we_instance[c] /\ we_io'[c] = we_io[c]
    BY <2>1, WinUntouched, Zenon
  <2>2. CASE /\ we_instance[c] = "free" /\ we_instance'[c] = "taken"
             /\ we_io'[c] = we_io[c] \/ (we_io[c] = "pending" /\ we_io'[c] = "success")
    <3>1. WinCreateOK(c) /\ WinEnv!Known' = WinEnv!Known
      BY Zenon DEF WinEnvInv, WinEnv!Known
    <3>2. we_value[c] \notin WinEnv!Known
      BY <2>2, <3>1, Zenon DEF WinCreateOK
    <3>3. we_value'[c] = we_value[c] /\ we_resolved'[c] = we_resolved[c]
            /\ we_result'[c] = we_result[c] /\ we_res'[c] = we_res[c]
      BY Zenon
    <3> QED  BY <2>2, <3>1, <3>2, <3>3, Zenon DEF WinCreateOK
  <2> QED  BY <2>1, <2>2, Zenon
<1> QED  BY <1>2, <1>3, <1>4, <1>5, Zenon DEF WinEnvInv

\* open_pipe and open_pipe_async preserve the invariant: they list the operation and start a
\* thread of its own for it.
LEMMA WinOpenPipeStep ==
  ASSUME WinEnvInv, NEW o \in WinOpens, WinEnv!OpenPipe(o)
  PROVE  WinEnvInv'
<1>1. /\ WinEnv!TypeOK /\ o \in WinEnv!Ops /\ WinEnv!Begin(o)
      /\ we_trying' = [we_trying EXCEPT ![o] = "open"]
      /\ UNCHANGED <<we_thread, we_instance, we_io, we_res, we_cancels, we_value, we_resolved>>
  BY WinSides, Zenon DEF WinEnvInv, WinEnv!OpenPipe
<1>2. /\ we_result[o] = "idle" /\ we_resolved[o] = 0 /\ we_value[o] = "unknown"
      /\ we_result' \in [WinEnv!Ops -> {"idle", "pending", "exception"} \cup WinEnv!Known]
      /\ we_result'[o] = "pending"
      /\ \A p \in WinEnv!Ops \ {o} : we_result'[p] = we_result[p]
      /\ we_listed' \subseteq WinEnv!Ops
      /\ we_timer' \in [WinEnv!Ops -> BOOLEAN]
  BY <1>1, WinBegins, Zenon
<1>3. /\ we_trying' \in [WinOpens -> {"no", "open", "wait"}]
      /\ \A p \in WinOpens \ {o} : we_trying'[p] = we_trying[p]
  BY <1>1, Zenon DEF WinEnv!TypeOK
<1>4. WinEnv!TypeOK'
  BY <1>1, <1>2, <1>3, Zenon DEF WinEnv!TypeOK
<1>5. WinOpOK(o)' /\ WinOpenOK(o)'
  <2>1. WinOpOK(o)
    BY <1>1, Zenon DEF WinEnvInv
  <2> QED  BY <1>1, <1>2, <2>1, Zenon DEF WinOpOK, WinOpenOK
<1>6. \A c \in WinCreates : we_result'[c] = we_result[c]
  BY <1>2, WinSides, Zenon
<1>7. \A p \in WinOpens \ {o} : we_result'[p] = we_result[p]
  BY <1>2, WinSides, Zenon
<1> QED  BY <1>1, <1>3, <1>4, <1>5, <1>6, <1>7, WinOpenSteps, Zenon

\* The thread of an open_pipe sets its promise, which nobody else holds, and stops.
LEMMA WinOpenEnds ==
  ASSUME WinEnvInv, NEW o \in WinOpens, we_trying[o] # "no", NEW r \in WinEnv!Known,
         WinEnv!Resolve(o, r), we_trying' = [we_trying EXCEPT ![o] = "no"],
         UNCHANGED <<we_thread, we_res, we_listed, we_cancels, we_timer, we_result>>,
         we_instance' \in [WinCreates -> {"none", "free", "taken", "closed"}],
         we_io' \in [WinCreates -> {"none", "pending", "success", "error"}],
         \A c \in WinCreates :
           \/ we_instance'[c] = we_instance[c] /\ we_io'[c] = we_io[c]
           \/ /\ we_instance[c] = "free" /\ we_instance'[c] = "taken"
              /\ we_io'[c] = we_io[c] \/ (we_io[c] = "pending" /\ we_io'[c] = "success")
  PROVE  WinEnvInv'
<1>1. WinEnv!TypeOK /\ o \in WinEnv!Ops /\ we_resolved[o] = 0 /\ we_result[o] # "idle"
  BY WinSides, Zenon DEF WinEnvInv, WinOpenOK
<1>2. /\ we_value' \in [WinEnv!Ops -> {"unknown"} \cup WinEnv!Known]
      /\ we_resolved' \in [WinEnv!Ops -> 0..2]
      /\ we_value'[o] = r /\ we_resolved'[o] = 1 /\ r # "unknown"
      /\ \A p \in WinEnv!Ops \ {o} : we_value'[p] = we_value[p] /\ we_resolved'[p] = we_resolved[p]
  BY <1>1, WinResolves, Zenon
<1>3. /\ we_trying' \in [WinOpens -> {"no", "open", "wait"}] /\ we_trying'[o] = "no"
      /\ \A p \in WinOpens \ {o} : we_trying'[p] = we_trying[p]
  BY <1>1, Zenon DEF WinEnv!TypeOK
<1>4. WinEnv!TypeOK'
  BY <1>1, <1>2, <1>3, Zenon DEF WinEnv!TypeOK
<1>5. WinOpOK(o)' /\ WinOpenOK(o)'
  <2>1. we_resolved'[o] # 0 /\ we_resolved'[o] \in {0, 1}
    BY <1>2
  <2> QED  BY <1>1, <1>2, <1>3, <2>1, Zenon DEF WinOpOK, WinOpenOK
<1>6. \A c \in WinCreates : we_resolved'[c] = we_resolved[c] /\ we_value'[c] = we_value[c]
  BY <1>2, WinSides, Zenon
<1>7. \A p \in WinOpens \ {o} : we_resolved'[p] = we_resolved[p] /\ we_value'[p] = we_value[p]
  BY <1>2, WinSides, Zenon
<1>8. \A c \in WinCreates :
        /\ we_resolved'[c] = we_resolved[c] /\ we_value'[c] = we_value[c]
        /\ we_result'[c] = we_result[c] /\ we_res'[c] = we_res[c]
        /\ \/ we_instance'[c] = we_instance[c] /\ we_io'[c] = we_io[c]
           \/ /\ we_instance[c] = "free" /\ we_instance'[c] = "taken"
              /\ we_io'[c] = we_io[c] \/ (we_io[c] = "pending" /\ we_io'[c] = "success")
  BY <1>6, Zenon
<1>9. \A p \in WinOpens \ {o} :
        /\ we_resolved'[p] = we_resolved[p] /\ we_value'[p] = we_value[p]
        /\ we_result'[p] = we_result[p] /\ we_trying'[p] = we_trying[p]
  BY <1>3, <1>7, Zenon
<1> QED  BY <1>4, <1>5, <1>8, <1>9, WinOpenSteps, Zenon

\* CreateFile takes a free instance or fails for good, and the promise is set.
LEMMA WinOpenFileStep ==
  ASSUME WinEnvInv, NEW o \in WinOpens, WinEnv!OpenFile(o)
  PROVE  WinEnvInv'
<1>1. /\ WinEnv!TypeOK /\ we_trying[o] # "no" /\ we_trying' = [we_trying EXCEPT ![o] = "no"]
      /\ UNCHANGED <<we_thread, we_res, we_listed, we_cancels, we_timer, we_result>>
  BY Zenon DEF WinEnvInv, WinEnv!OpenFile
<1>2. "success" \in WinEnv!Known /\ "failed" \in WinEnv!Known
  BY Zenon DEF WinEnv!Known
<1>3. CASE WinEnv!Resolve(o, "failed") /\ UNCHANGED <<we_instance, we_io>>
  <2>1. /\ we_instance' \in [WinCreates -> {"none", "free", "taken", "closed"}]
        /\ we_io' \in [WinCreates -> {"none", "pending", "success", "error"}]
    BY <1>1, <1>3, Zenon DEF WinEnv!TypeOK
  <2> QED  BY <1>1, <1>2, <1>3, <2>1, WinOpenEnds, Zenon
<1>4. ASSUME NEW c \in WinCreates, we_instance[c] = "free",
             we_instance' = [we_instance EXCEPT ![c] = "taken"],
             we_io' = [we_io EXCEPT ![c] = IF we_io[c] = "pending" THEN "success" ELSE we_io[c]],
             NEW r \in {"success", "failed"}, WinEnv!Resolve(o, r)
      PROVE  WinEnvInv'
  <2>1. /\ we_instance' \in [WinCreates -> {"none", "free", "taken", "closed"}]
        /\ we_instance'[c] = "taken"
        /\ \A d \in WinCreates : d # c => we_instance'[d] = we_instance[d]
    BY <1>1, <1>4, Zenon DEF WinEnv!TypeOK
  <2>2. /\ we_io' \in [WinCreates -> {"none", "pending", "success", "error"}]
        /\ we_io'[c] = we_io[c] \/ (we_io[c] = "pending" /\ we_io'[c] = "success")
        /\ \A d \in WinCreates : d # c => we_io'[d] = we_io[d]
    BY <1>1, <1>4, Zenon DEF WinEnv!TypeOK
  <2>3. \A d \in WinCreates :
          \/ we_instance'[d] = we_instance[d] /\ we_io'[d] = we_io[d]
          \/ /\ we_instance[d] = "free" /\ we_instance'[d] = "taken"
             /\ we_io'[d] = we_io[d] \/ (we_io[d] = "pending" /\ we_io'[d] = "success")
    BY <1>4, <2>1, <2>2, Zenon
  <2>4. r \in WinEnv!Known /\ WinEnv!Resolve(o, r)
    BY <1>2, <1>4, Zenon
  <2> QED  BY <1>1, <2>1, <2>2, <2>3, <2>4, WinOpenEnds, Zenon
<1> QED  BY <1>3, <1>4, Zenon DEF WinEnv!OpenFile

\* The thread of an open_pipe that found no free instance is going to wait, and after 100 ms
\* tries again.
LEMMA WinOpenRetriesStep ==
  ASSUME WinEnvInv, NEW o \in WinOpens, we_trying[o] # "no", NEW t \in {"open", "wait"},
         we_trying' = [we_trying EXCEPT ![o] = t],
         UNCHANGED <<we_thread, we_instance, we_io, we_res, we_listed, we_cancels, we_timer,
                     we_value, we_resolved, we_result>>
  PROVE  WinEnvInv'
<1>1. WinEnv!TypeOK /\ WinOpOK(o) /\ WinOpenOK(o)
  BY WinSides, Zenon DEF WinEnvInv
<1>2. /\ we_trying' \in [WinOpens -> {"no", "open", "wait"}]
      /\ \A p \in WinOpens \ {o} : we_trying'[p] = we_trying[p]
  BY <1>1, Zenon DEF WinEnv!TypeOK
<1>3. WinEnv!TypeOK'
  BY <1>1, <1>2, Zenon DEF WinEnv!TypeOK
<1>4. WinOpOK(o)' /\ WinOpenOK(o)'
  BY <1>1, Zenon DEF WinOpOK, WinOpenOK
<1> QED  BY <1>2, <1>3, <1>4, WinOpenSteps, Zenon

\* The wait of an open_pipe between two tries ends with its cancelation or for another try.
LEMMA WinWaitForCancelStep ==
  ASSUME WinEnvInv, NEW o \in WinOpens, WinEnv!WaitForCancel(o)
  PROVE  WinEnvInv'
<1>1. /\ WinEnv!TypeOK /\ we_trying[o] # "no" /\ o \in WinEnv!Ops
      /\ UNCHANGED <<we_thread, we_instance, we_io, we_res, we_listed, we_cancels, we_timer,
                     we_result>>
  BY WinSides, Zenon DEF WinEnvInv, WinEnv!WaitForCancel
<1>2. CASE /\ we_res[o] # "unknown" /\ we_trying' = [we_trying EXCEPT ![o] = "no"]
           /\ WinEnv!Resolve(o, we_res[o])
  <2>1. we_res[o] \in WinEnv!Known
    BY <1>1, <1>2, Zenon DEF WinEnv!TypeOK
  <2>2. /\ we_instance' \in [WinCreates -> {"none", "free", "taken", "closed"}]
        /\ we_io' \in [WinCreates -> {"none", "pending", "success", "error"}]
    BY <1>1, Zenon DEF WinEnv!TypeOK
  <2> QED  BY <1>1, <1>2, <2>1, <2>2, WinOpenEnds, Zenon
<1>3. CASE we_trying' = [we_trying EXCEPT ![o] = "open"] /\ UNCHANGED <<we_value, we_resolved>>
  BY <1>1, <1>3, WinOpenRetriesStep, Zenon
<1> QED  BY <1>2, <1>3, Zenon DEF WinEnv!WaitForCancel, WinEnv!NotResolved

\* A client that ended the wait of a create is served: whoever sets the promise of a create
\* that has its client's completion is the worker, and it stores success over a cancelation.
LEMMA WinServesClients ==
  ASSUME WinEnvInv, [WinEnv!Next]_weVars
  PROVE  WinEnv!ServesConnectedClients
<1> SUFFICES ASSUME NEW c \in WinCreates, we_io[c] = "success"
             PROVE  we_value'[c] \in {"unknown", "success"}
  BY Zenon DEF WinEnv!ServesConnectedClients
<1>1. /\ c \in WinEnv!Ops /\ c \notin WinOpens
      /\ we_value \in [WinEnv!Ops -> {"unknown"} \cup WinEnv!Known]
  BY WinSides, Zenon DEF WinEnvInv, WinEnv!TypeOK
<1>2. we_value[c] = "unknown"
  BY <1>1, Zenon DEF WinEnvInv, WinCreateOK, WinOpOK
<1>3. ASSUME NEW o, NEW r, WinEnv!Resolve(o, r), o = c => r = "success"
      PROVE  we_value'[c] \in {"unknown", "success"}
  <2>1. we_value' = [we_value EXCEPT ![o] = r]
    BY <1>3, Zenon DEF WinEnv!Resolve
  <2> QED  BY <1>1, <1>2, <1>3, <2>1, Zenon
<1>4. ASSUME NEW t \in {"create", "connect"}, WinEnv!NextTask(t) PROVE WinEnv!TaskOp # c
  <2>1. 1 \in 1..Len(we_thread) /\ we_thread[1][1] = t /\ WinEnv!TaskOp = we_thread[1][2]
    BY <1>4, WinFirstTask, Zenon
  <2>2. WinMaking(1)
    BY <2>1, Zenon DEF WinMaking
  <2>3. we_io[we_thread[1][2]] = "none"
    BY <2>1, <2>2, Zenon DEF WinEnvInv, WinThreadOK
  <2> QED  BY <2>1, <2>3, Zenon
<1>5. CASE UNCHANGED we_value
  BY <1>2, <1>5, Zenon
<1>6. CASE WinEnv!RunCreate
  BY <1>3, <1>4, <1>5, <1>6, Zenon DEF WinEnv!RunCreate, WinEnv!ResolveCreate, WinEnv!NotResolved
<1>7. CASE WinEnv!RunConnect
  BY <1>3, <1>4, <1>5, <1>7, Zenon DEF WinEnv!RunConnect, WinEnv!ResolveCreate, WinEnv!NotResolved
<1>8. ASSUME NEW d \in WinCreates, WinEnv!WorkerTakes(d) PROVE we_value'[c] \in {"unknown", "success"}
  <2>1. WinEnv!Resolve(d, WinEnv!CreateOutcome(d))
    BY <1>8, Zenon DEF WinEnv!WorkerTakes, WinEnv!ResolveCreate
  <2>2. d = c => WinEnv!CreateOutcome(d) = "success"
    BY Zenon DEF WinEnv!CreateOutcome
  <2> QED  BY <1>3, <2>1, <2>2, Zenon
<1>9. ASSUME NEW o \in WinOpens, WinEnv!OpenFile(o) \/ WinEnv!WaitForCancel(o)
      PROVE  we_value'[c] \in {"unknown", "success"}
  <2>1. UNCHANGED we_value \/ \E r : WinEnv!Resolve(o, r)
    BY <1>9, Zenon DEF WinEnv!OpenFile, WinEnv!WaitForCancel, WinEnv!NotResolved
  <2> QED  BY <1>1, <1>3, <1>5, <2>1, Zenon
<1>10. CASE UNCHANGED weVars
  BY <1>5, <1>10, Zenon DEF weVars
<1>11. ASSUME NEW d, \/ WinEnv!CreatePipe(d) \/ WinEnv!ConnectBreaks(d) \/ WinEnv!CreateFinally(d)
                     \/ WinEnv!OpenPipe(d) \/ WinEnv!NoFreeInstance(d) \/ WinEnv!OpenFinally(d)
                     \/ WinEnv!OnTimeout(d) \/ WinEnv!CancelPending(d) \/ WinEnv!RunCancel
       PROVE  UNCHANGED we_value
  BY <1>11, Zenon DEF WinEnv!CreatePipe, WinEnv!ConnectBreaks, WinEnv!CreateFinally,
     WinEnv!OpenPipe, WinEnv!NoFreeInstance, WinEnv!OpenFinally, WinEnv!OnTimeout,
     WinEnv!CancelPending, WinEnv!RunCancel
<1> QED
  BY <1>5, <1>6, <1>7, <1>8, <1>9, <1>10, <1>11, Zenon DEF WinEnv!Next

\* A cancelation or a timeout of any set of operations preserves the invariant: it posts one
\* task for each create_pipe that has none of the kind, and stores the result of an open_pipe.
LEMMA WinCancelOpsStep ==
  ASSUME CreatesCount, WinEnvInv, NEW S, NEW how \in {"canceled", "timeout"},
         WinEnv!CancelOps(S, how), we_timer' \in [WinEnv!Ops -> BOOLEAN],
         UNCHANGED <<we_instance, we_io, we_trying, we_listed, we_value, we_resolved, we_result>>
  PROVE  WinEnvInv'
<1> DEFINE new == {o \in S \cap we_listed : how \notin we_cancels[o]}
<1>1. /\ we_cancels' = [o \in WinEnv!Ops |-> IF o \in new THEN we_cancels[o] \cup {how} ELSE we_cancels[o]]
      /\ \E f \in WinEnv!Orders(new \cap WinCreates) :
           we_thread' = we_thread \o [i \in 1..Len(f) |-> <<how, f[i]>>]
      /\ we_res' = [o \in WinEnv!Ops |-> IF o \in new \cap WinOpens
                                         THEN WinEnv!SetIfPossible(we_res[o], how) ELSE we_res[o]]
  BY Zenon DEF WinEnv!CancelOps
<1> HIDE DEF new
<1>2. WinEnv!TypeOK
  BY Zenon DEF WinEnvInv
<1>3. we_cancels' \in [WinEnv!Ops -> SUBSET {"canceled", "timeout"}]
  <2>1. \A o \in WinEnv!Ops : we_cancels[o] \in SUBSET {"canceled", "timeout"}
                                /\ we_cancels[o] \cup {how} \in SUBSET {"canceled", "timeout"}
    BY <1>2, Zenon DEF WinEnv!TypeOK
  <2> QED  BY <1>1, <2>1, Zenon
<1>4. we_res' \in [WinEnv!Ops -> {"unknown"} \cup WinEnv!Known]
  BY <1>1, <1>2, Zenon DEF WinEnv!TypeOK, WinEnv!SetIfPossible, WinEnv!Known
<1>5. \A c \in WinCreates : we_res'[c] = we_res[c]
  BY <1>1, WinSides, Zenon
<1>6. WinThreadOK' /\ we_thread' \in Seq(WinTasks)
  <2> DEFINE C == new \cap WinCreates
             n == WinEnv!Cardinality(C)
  <2>1. PICK f \in WinEnv!Orders(C) : we_thread' = we_thread \o [i \in 1..Len(f) |-> <<how, f[i]>>]
    BY <1>1, Zenon
  <2>2. f \in [1..n -> C]
    <3>1. WinEnv!Orders(C) \subseteq [1..WinEnv!Cardinality(C) -> C]
      BY Zenon DEF WinEnv!Orders
    <3> HIDE DEF C
    <3> QED  BY <2>1, <3>1, Zenon
  <2>3. n \in Nat /\ C \subseteq WinCreates
    BY Zenon DEF CreatesCount
  <2> HIDE DEF C, n
  <2> DEFINE more == [i \in 1..Len(f) |-> <<how, f[i]>>]
  <2>4. f \in Seq(WinCreates) /\ Len(f) = n
    BY <2>2, <2>3
  <2>5. \A i \in 1..Len(f) : <<how, f[i]>> \in WinTasks
    BY <2>4 DEF WinTasks
  <2>6. more \in Seq(WinTasks) /\ Len(more) = n
    BY <2>3, <2>4, <2>5
  <2>7. \A k \in 1..Len(more) : more[k][1] \in {"canceled", "timeout"}
    BY <2>4, <2>6
  <2>8. we_thread' = we_thread \o more
    BY <2>1, Zenon
  <2> HIDE DEF more
  <2> QED  BY <2>6, <2>7, <2>8, WinThreadCancels, Zenon
<1>7. WinEnv!TypeOK'
  BY <1>2, <1>3, <1>4, <1>6, Zenon DEF WinEnv!TypeOK, WinTasks
<1> QED  BY <1>5, <1>6, <1>7, WinUntouched, Zenon DEF WinEnvInv

\* Every step of the Windows environments preserves the invariant.
LEMMA WinEnvStep ==
  ASSUME CreatesCount, WinEnvInv, [WinEnv!Next]_weVars
  PROVE  WinEnvInv'
<1>1. CASE UNCHANGED weVars
  <2>1. UNCHANGED <<we_thread, we_instance, we_io, we_res, we_trying, we_listed, we_cancels,
                    we_timer, we_value, we_resolved, we_result>>
    BY <1>1, Zenon DEF weVars
  <2>2. WinEnv!TypeOK'
    BY <2>1, Zenon DEF WinEnvInv, WinEnv!TypeOK
  <2>3. WinThreadOK'
    <3>1. \A c \in WinCreates : we_io[c] = "none" => WinKept(c)
      BY <2>1, Zenon DEF WinKept
    <3> QED  BY <2>1, <3>1, WinThreadSame, Zenon
  <2> QED  BY <2>1, <2>2, <2>3, WinUntouched, Zenon DEF WinEnvInv
<1>2. ASSUME NEW c \in WinCreates, WinEnv!CreateFinally(c) PROVE WinEnvInv'
  BY <1>2, WinFinallyStep, WinSides, Zenon DEF WinEnv!CreateFinally
<1>3. ASSUME NEW o \in WinOpens, WinEnv!OpenFinally(o) PROVE WinEnvInv'
  <2>1. PICK r \in IF we_value[o] = "success" THEN {"success", "exception"} ELSE {we_value[o]} :
             WinEnv!Finally(o, r)
    BY <1>3, Zenon DEF WinEnv!OpenFinally
  <2>2. r \in {"exception"} \cup WinEnv!Known \cup {we_value[o]}
    BY Zenon DEF WinEnv!Known
  <2>3. UNCHANGED <<we_thread, we_instance, we_io, we_res, we_trying, we_cancels, we_value,
                    we_resolved>>
    BY <1>3, Zenon DEF WinEnv!OpenFinally
  <2> QED  BY <2>1, <2>2, <2>3, WinFinallyStep, WinSides, Zenon
<1>4. ASSUME NEW o \in WinOpens, WinEnv!NoFreeInstance(o) PROVE WinEnvInv'
  <2>1. /\ we_trying[o] # "no" /\ we_trying' = [we_trying EXCEPT ![o] = "wait"]
        /\ UNCHANGED <<we_thread, we_instance, we_io, we_res, we_listed, we_cancels, we_timer,
                       we_value, we_resolved, we_result>>
    BY <1>4, Zenon DEF WinEnv!NoFreeInstance
  <2> QED  BY <2>1, WinOpenRetriesStep, Zenon
<1>5. ASSUME NEW o \in WinEnv!Ops, WinEnv!OnTimeout(o) PROVE WinEnvInv'
  <2>1. /\ WinEnv!TypeOK /\ we_timer' = [we_timer EXCEPT ![o] = FALSE]
        /\ WinEnv!CancelOps({o}, "timeout")
        /\ UNCHANGED <<we_instance, we_io, we_trying, we_listed, we_value, we_resolved, we_result>>
    BY <1>5, Zenon DEF WinEnvInv, WinEnv!OnTimeout
  <2>2. we_timer' \in [WinEnv!Ops -> BOOLEAN]
    BY <2>1, Zenon DEF WinEnv!TypeOK
  <2> QED  BY <2>1, <2>2, WinCancelOpsStep, Zenon
<1>6. ASSUME NEW S, WinEnv!CancelPending(S) PROVE WinEnvInv'
  <2>1. /\ WinEnv!TypeOK /\ WinEnv!CancelOps(S, "canceled")
        /\ UNCHANGED <<we_instance, we_io, we_trying, we_listed, we_timer, we_value, we_resolved,
                       we_result>>
    BY <1>6, Zenon DEF WinEnvInv, WinEnv!CancelPending
  <2>2. we_timer' \in [WinEnv!Ops -> BOOLEAN]
    BY <2>1, Zenon DEF WinEnv!TypeOK
  <2> QED  BY <2>1, <2>2, WinCancelOpsStep, Zenon
<1> QED
  BY <1>1, <1>2, <1>3, <1>4, <1>5, <1>6, WinCreatePipeStep, WinWorkerTakesStep,
     WinConnectBreaksStep, WinOpenPipeStep, WinOpenFileStep, WinWaitForCancelStep,
     WinRunCreateStep, WinRunConnectStep, WinRunCancelStep, Zenon DEF WinEnv!Next

-----------------------------------------------------------------------------
(* The facts about numbers and finite sets, and the theorems.              *)

LOCAL Library == INSTANCE FiniteSetTheorems

\* A set of numbers that is not empty has a least one: a list of operations that its code
\* numbers has an oldest.
LEMMA NumbersHaveALeast == LeastNumbers
<1> SUFFICES ASSUME NEW S \in SUBSET Nat, S # {}
             PROVE  \E x \in S : \A y \in S : x <= y
  BY Zenon DEF LeastNumbers
<1> DEFINE Less == Library!OpToRel(<, Nat)
<1>1. \A x, y \in Nat : <<y, x>> \in Less <=> y < x
  BY Zenon DEF Library!OpToRel
<1>2. Library!IsWellFoundedOn(Less, Nat)
  BY Library!NatLessThanWellFounded, Zenon
<1> HIDE DEF Less
<1>3. PICK x \in S : \A y \in S : ~(<<y, x>> \in Less)
  BY <1>2, Library!WFMin, Zenon
<1>4. \A y \in S : ~(y < x) /\ y \in Nat /\ x \in Nat
  BY <1>1, <1>3, Zenon
<1>5. \A y \in S : x <= y
  BY <1>4
<1> QED  BY <1>5, Zenon

\* A cancelation that reaches some of the create_pipe calls posts a number of tasks.
LEMMA CreatesAreCounted == CreatesCount
<1> SUFFICES ASSUME NEW S \in SUBSET WinCreates PROVE WinEnv!Cardinality(S) \in Nat
  BY Zenon DEF CreatesCount
<1>1. Library!IsFiniteSet(WinCreates)
  BY WaitNames DEF IsFiniteSet, Library!IsFiniteSet
<1>2. Library!IsFiniteSet(S)
  BY <1>1, Library!FS_Subset, Zenon
<1>3. Library!Cardinality(S) \in Nat
  BY <1>2, Library!FS_CardinalityType, Zenon
<1> QED  BY <1>3, Zenon DEF Library!Cardinality, WinEnv!Cardinality

\* The inductive invariant holds in every state of the environment.
THEOREM Invariance == Spec => []IInv
<1>1. IInv /\ [Next]_vars => IInv'
  BY NextStep, NumbersHaveALeast, Zenon
<1> QED  BY <1>1, InitIInv, PTL DEF Spec

\* Ends of the two sides never wait beside each other in mem_pipe_env.
THEOREM NoTwoSidesWaitHolds == Spec => []NoTwoSidesWait
  BY Invariance, PTL DEF IInv

\* Every pipe mem_pipe_env makes has two ends that were both told of it, whatever races
\* their meeting.
THEOREM PipesHaveTwoEndsHolds == Spec => []PipesHaveTwoEnds
  BY Invariance, PTL DEF IInv

\* No promise of mem_pipe_env is lost.
THEOREM PendingEndsAreWaitingHolds == Spec => []PendingEndsAreWaiting
  BY Invariance, PTL DEF IInv

\* create_new_pipe_end serves the end that has waited longest, for any number of ends.
THEOREM FirstComeFirstServedHolds == Spec => FirstComeFirstServed
<1> DEFINE Fair == \A e, f \in Ends :
                     /\ result[e] = "pending" /\ result[f] = "pending"
                     /\ Side(e) = Side(f) /\ promiseId[e] < promiseId[f]
                     /\ result'[f] = "success"
                     => result'[e] = "success"
<1>1. IInv /\ [Next]_vars => [Fair]_vars
  BY ServesTheFirst, NumbersHaveALeast, Zenon
<1> QED
  BY <1>1, Invariance, PTL DEF Spec, FirstComeFirstServed

\* Two ends of opposite sides form each pipe, and an end without a result is in the queue of
\* its side, so that the next end of the other side or its timer completes it.
THEOREM PipesPairWaitingEndsHolds == Spec => []PipesPairWaitingEnds
<1>1. PipesHaveTwoEnds /\ PendingEndsAreWaiting => PipesPairWaitingEnds
  BY Zenon DEF PipesPairWaitingEnds
<1> QED
  BY <1>1, PipesHaveTwoEndsHolds, PendingEndsAreWaitingHolds, PTL

=============================================================================
