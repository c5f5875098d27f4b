--------------------------- MODULE MemBufferProofs ---------------------------
(***************************************************************************)
(* Proofs about MemBuffer and MemBuffers, for any sets of reads and        *)
(* writes.                                                                 *)
(***************************************************************************)
EXTENDS MemBuffer, MemBuffers, Integers, TLAPS

-----------------------------------------------------------------------------
(* Sequences without repetitions, used as queues of owned things: what     *)
(* appending, taking the head and removing an element do to the set of     *)
(* elements.                                                               *)

\* The empty queue is one of any elements.
LEMMA EmptyQueue == ASSUME NEW S PROVE <<>> \in Seq(S)
OBVIOUS

\* What a queue is that is put together from two.
LEMMA JoinedQueue ==
  ASSUME NEW S, NEW s \in Seq(S), NEW t \in Seq(S)
  PROVE  /\ s \o t \in Seq(S) /\ Len(s \o t) = Len(s) + Len(t)
         /\ \A j \in 1..(Len(s) + Len(t)) :
              (s \o t)[j] = IF j <= Len(s) THEN s[j] ELSE t[j - Len(s)]
OBVIOUS

\* A new queue holds nothing.
LEMMA ToSetEmpty == Range(<<>>) = {} /\ IsInjective(<<>>)
  BY DEF Range, IsInjective

\* push_back adds its argument, and keeps a queue free of repetitions if it was not there.
LEMMA ToSetAppend ==
  ASSUME NEW S, NEW s \in Seq(S), NEW x \in S
  PROVE  /\ Append(s, x) \in Seq(S)
         /\ Append(s, x) # <<>>
         /\ Range(Append(s, x)) = Range(s) \cup {x}
         /\ IsInjective(s) /\ x \notin Range(s) => IsInjective(Append(s, x))
<1> DEFINE t == Append(s, x)
<1>1. /\ t \in Seq(S) /\ Len(t) = Len(s) + 1 /\ t[Len(s) + 1] = x
      /\ \A i \in 1..Len(s) : t[i] = s[i]
  OBVIOUS
<1>2. DOMAIN s = 1..Len(s) /\ DOMAIN t = 1..Len(t) /\ Len(s) \in Nat
  BY <1>1
<1> HIDE DEF t
<1>3. t # <<>>
  BY <1>1, <1>2
<1>4. Range(t) = Range(s) \cup {x}
  <2>1. ASSUME NEW y \in Range(t) PROVE y \in Range(s) \cup {x}
    <3>1. PICK i \in DOMAIN t : y = t[i]
      BY <2>1, Zenon DEF Range
    <3>2. CASE i = Len(s) + 1
      BY <3>1, <3>2, <1>1, Zenon
    <3>3. CASE i \in 1..Len(s)
      BY <3>1, <3>3, <1>1, <1>2 DEF Range
    <3> QED
      BY <3>1, <3>2, <3>3, <1>1, <1>2
  <2>2. x \in Range(t)
    <3>1. Len(s) + 1 \in DOMAIN t
      BY <1>1, <1>2
    <3> QED
      BY <3>1, <1>1 DEF Range
  <2>3. ASSUME NEW y \in Range(s) PROVE y \in Range(t)
    <3>1. PICK i \in DOMAIN s : y = s[i]
      BY <2>3, Zenon DEF Range
    <3>2. i \in DOMAIN t /\ t[i] = y
      BY <3>1, <1>1, <1>2
    <3> QED
      BY <3>2, Zenon DEF Range
  <2> QED
    BY <2>1, <2>2, <2>3, Zenon
<1>5. ASSUME IsInjective(s), x \notin Range(s) PROVE IsInjective(t)
  <2>1. \A i \in 1..Len(s) : s[i] # x
    BY <1>2, <1>5, Zenon DEF Range
  <2>2. \A i, j \in 1..Len(s) : s[i] = s[j] => i = j
    BY <1>2, <1>5, Zenon DEF IsInjective
  <2> QED
    BY <2>1, <2>2, <1>1, <1>2 DEF IsInjective
<1> QED
  BY <1>1, <1>3, <1>4, <1>5 DEF t

\* pop_front of a queue free of repetitions removes the head and nothing else.
LEMMA ToSetTail ==
  ASSUME NEW S, NEW s \in Seq(S), s # <<>>
  PROVE  /\ Head(s) \in S /\ Head(s) \in Range(s)
         /\ Tail(s) \in Seq(S)
         /\ IsInjective(s) => /\ IsInjective(Tail(s))
                              /\ Range(Tail(s)) = Range(s) \ {Head(s)}
<1> DEFINE t == Tail(s)
<1>1. /\ t \in Seq(S) /\ Len(s) \in Nat \ {0} /\ Len(t) = Len(s) - 1
      /\ \A i \in 1..Len(t) : t[i] = s[i + 1]
      /\ Head(s) = s[1] /\ s[1] \in S
  OBVIOUS
<1>2. DOMAIN s = 1..Len(s) /\ DOMAIN t = 1..Len(t)
  BY <1>1
<1>3. 1 \in DOMAIN s
  BY <1>1, <1>2
<1>4. Head(s) \in Range(s)
  BY <1>1, <1>3, Zenon DEF Range
<1> HIDE DEF t
<1>5. ASSUME IsInjective(s) PROVE IsInjective(t) /\ Range(t) = Range(s) \ {s[1]}
  <2>1. \A i, j \in 1..Len(s) : s[i] = s[j] => i = j
    BY <1>2, <1>5, Zenon DEF IsInjective
  <2>2. \A i, j \in 1..Len(t) : t[i] = t[j] => i = j
    BY <2>1, <1>1
  <2>3. ASSUME NEW y \in Range(t) PROVE y \in Range(s) /\ y # s[1]
    <3>1. PICK i \in DOMAIN t : y = t[i]
      BY <2>3, Zenon DEF Range
    <3>2. i + 1 \in DOMAIN s /\ y = s[i + 1] /\ i + 1 # 1
      BY <3>1, <1>1, <1>2
    <3> QED
      BY <3>2, <2>1, <1>2, <1>3, Zenon DEF Range
  <2>4. ASSUME NEW y \in Range(s), y # s[1] PROVE y \in Range(t)
    <3>1. PICK i \in DOMAIN s : y = s[i]
      BY <2>4, Zenon DEF Range
    <3>2. i - 1 \in DOMAIN t /\ t[i - 1] = y
      BY <3>1, <2>4, <1>1, <1>2
    <3> QED
      BY <3>2, Zenon DEF Range
  <2> QED
    BY <2>2, <2>3, <2>4, <1>2, Zenon DEF IsInjective
<1> QED
  BY <1>1, <1>4, <1>5 DEF t

\* erase of an entry of a queue free of repetitions removes that entry and nothing else.
LEMMA ToSetRemoveAt ==
  ASSUME NEW S, NEW s \in Seq(S), NEW i \in DOMAIN s
  PROVE  /\ Erase(s, i) \in Seq(S)
         /\ IsInjective(s) => /\ IsInjective(Erase(s, i))
                              /\ Range(Erase(s, i)) = Range(s) \ {s[i]}
<1> DEFINE a == SubSeq(s, 1, i - 1)
           b == SubSeq(s, i + 1, Len(s))
           t == Erase(s, i)
<1>1. Len(s) \in Nat /\ DOMAIN s = 1..Len(s) /\ i \in 1..Len(s)
  OBVIOUS
<1>2. /\ a \in Seq(S) /\ Len(a) = i - 1
      /\ \A j \in 1..(i - 1) : a[j] = s[j]
  BY <1>1
<1>3. /\ b \in Seq(S) /\ Len(b) = Len(s) - i
      /\ \A j \in 1..(Len(s) - i) : b[j] = s[i + j]
  BY <1>1
<1>4. t = a \o b
  BY Zenon DEF Erase
<1> HIDE DEF a, b, t
<1>5. /\ t \in Seq(S) /\ Len(t) = Len(s) - 1
      /\ \A j \in 1..(Len(s) - 1) : t[j] = IF j < i THEN s[j] ELSE s[j + 1]
  <2>1. /\ t \in Seq(S) /\ Len(t) = Len(a) + Len(b)
        /\ \A j \in 1..(Len(a) + Len(b)) : t[j] = IF j <= Len(a) THEN a[j] ELSE b[j - Len(a)]
    BY <1>2, <1>3, <1>4, JoinedQueue
  <2>2. ASSUME NEW j \in 1..(Len(s) - 1) PROVE t[j] = IF j < i THEN s[j] ELSE s[j + 1]
    <3>1. CASE j < i
      BY <3>1, <2>1, <1>1, <1>2, <1>3
    <3>2. CASE ~(j < i)
      <4>1. j - (i - 1) \in 1..(Len(s) - i) /\ i + (j - (i - 1)) = j + 1
        BY <3>2, <1>1
      <4>2. t[j] = b[j - (i - 1)]
        BY <3>2, <2>1, <1>1, <1>2, <1>3
      <4> QED
        BY <3>2, <4>1, <4>2, <1>3, Zenon
    <3> QED
      BY <3>1, <3>2
  <2> QED
    BY <2>1, <2>2, <1>1, <1>2, <1>3
<1>6. DOMAIN t = 1..(Len(s) - 1)
  BY <1>5, <1>1
<1>7. ASSUME IsInjective(s) PROVE IsInjective(t) /\ Range(t) = Range(s) \ {s[i]}
  <2>1. \A j, k \in 1..Len(s) : s[j] = s[k] => j = k
    BY <1>1, <1>7, Zenon DEF IsInjective
  <2>2. \A j, k \in 1..(Len(s) - 1) : t[j] = t[k] => j = k
    BY <2>1, <1>1, <1>5
  <2>3. ASSUME NEW y \in Range(t) PROVE y \in Range(s) /\ y # s[i]
    <3>1. PICK j \in DOMAIN t : y = t[j]
      BY <2>3, Zenon DEF Range
    <3>2. \E k \in DOMAIN s : y = s[k] /\ k # i
      BY <3>1, <1>1, <1>5, <1>6
    <3> QED
      BY <3>2, <2>1, <1>1, Zenon DEF Range
  <2>4. ASSUME NEW y \in Range(s), y # s[i] PROVE y \in Range(t)
    <3>1. PICK j \in DOMAIN s : y = s[j]
      BY <2>4, Zenon DEF Range
    <3>2. \E k \in DOMAIN t : y = t[k]
      <4>1. CASE j < i
        BY <4>1, <3>1, <1>1, <1>5, <1>6
      <4>2. CASE ~(j < i)
        <5>1. j - 1 \in DOMAIN t /\ t[j - 1] = y
          BY <4>2, <3>1, <2>4, <1>1, <1>5, <1>6
        <5> QED
          BY <5>1, Zenon
      <4> QED
        BY <4>1, <4>2
    <3> QED
      BY <3>2, Zenon DEF Range
  <2> QED
    BY <2>2, <2>3, <2>4, <1>6, Zenon DEF IsInjective
<1> QED
  BY <1>5, <1>7, Zenon DEF t

-----------------------------------------------------------------------------
(* The buffer.                                                             *)

\* A new mem_buffer satisfies the inductive invariant.
LEMMA InitIInv == Init => IInv
<1> SUFFICES ASSUME Init PROVE IInv
  BY Zenon
<1> USE DEF Init
<1>1. TypeOK
  <2>1. isValid \in BOOLEAN /\ resolving \in BOOLEAN
    BY Zenon
  <2> QED
    BY <2>1, EmptyQueue, Zenon DEF TypeOK, PromiseState, TimerState
<1>2. NoLostWakeup
  BY Zenon DEF NoLostWakeup
<1>3. PendingReadsAreOwned
  BY ToSetEmpty, Zenon DEF PendingReadsAreOwned
<1>4. AcceptedMessagesAreConserved
  BY ToSetEmpty, Zenon DEF AcceptedMessagesAreConserved
<1>5. Bookkeeping
  BY ToSetEmpty, Zenon DEF Bookkeeping
<1> QED
  BY <1>1, <1>2, <1>3, <1>4, <1>5 DEF IInv

\* Types; resolve_read_promise pops the task that runs it, hence Bookkeeping.
LEMMA TypeStep == TypeOK /\ Bookkeeping /\ [Next]_vars => TypeOK'
<1> SUFFICES ASSUME TypeOK, Bookkeeping, [Next]_vars PROVE TypeOK'
  BY Zenon
<1> USE DEF TypeOK, PromiseState, OpResult, TimerState
<1>1. ASSUME NEW w \in Writes, NEW timed \in BOOLEAN, WriteAsync(w, timed) PROVE TypeOK'
  <2>1. CASE ~isValid
    BY <1>1, <2>1, Zenon DEF WriteAsync
  <2>2. CASE isValid
    <3>1. writeStrand' = Append(writeStrand, w)
      BY <1>1, <2>2, Zenon DEF WriteAsync
    <3>2. writeStrand' \in Seq(Writes)
      BY <3>1, ToSetAppend, Zenon
    <3>3. /\ writeTimed' \in [Writes -> BOOLEAN]
          /\ writeResult' \in [Writes -> PromiseState]
          /\ UNCHANGED <<isValid, readInvalidationResult, buffer, readPromises, readStrand,
                         resolving, timers, readTimed, startedWhileValid, readResult, readMsg>>
      BY <1>1, <2>2, Zenon DEF WriteAsync
    <3> QED
      BY <3>2, <3>3, Zenon
  <2> QED
    BY <2>1, <2>2, Zenon
<1>2. ASSUME NEW r \in Reads, NEW timed \in BOOLEAN, ReadAsync(r, timed) PROVE TypeOK'
  BY <1>2 DEF ReadAsync
<1>3. ASSUME NEW cancelRead \in BOOLEAN, Invalidate(cancelRead) PROVE TypeOK'
  <2> DEFINE result == IF cancelRead THEN "canceled" ELSE "failed"
  <2>1. result \in {"canceled", "failed"}
    BY Zenon
  <2>2. /\ isValid' = FALSE /\ readInvalidationResult' = result
        /\ buffer' = <<>> /\ readPromises' = <<>>
        /\ readResult' = [r \in Reads |-> IF r \in Range(readPromises) THEN result
                                          ELSE readResult[r]]
        /\ CancelTimers(Reads)
        /\ UNCHANGED <<readStrand, writeStrand, resolving, readTimed, writeTimed,
                       startedWhileValid, readMsg, writeResult>>
    BY <1>3, Zenon DEF Invalidate, calls, InvalidationResult
  <2>3. isValid' \in BOOLEAN /\ resolving' \in BOOLEAN
    BY <2>2, Zenon
  <2> HIDE DEF result
  <2>4. buffer' \in Seq(Writes) /\ readPromises' \in Seq(Reads)
    BY <2>2, EmptyQueue, Zenon
  <2>5. readResult' \in [Reads -> PromiseState] /\ timers' \in [Reads -> TimerState]
    BY <2>1, <2>2, Zenon DEF CancelTimers
  <2> QED
    BY <2>1, <2>2, <2>3, <2>4, <2>5, Zenon
<1>4. CASE WriteImpl
  <2>1. Head(writeStrand) \in Writes
    BY <1>4, ToSetTail, Zenon DEF WriteImpl, SettleWrite
  <2>2. isValid' \in BOOLEAN /\ resolving' \in BOOLEAN
    BY <1>4, Zenon DEF WriteImpl, SettleWrite
  <2>3. buffer' \in Seq(Writes)
    <3>1. CASE buffer' = Append(buffer, Head(writeStrand))
      BY <2>1, <3>1, ToSetAppend
    <3>2. CASE buffer' = buffer
      BY <3>2, Zenon
    <3> QED
      BY <1>4, <3>1, <3>2, Zenon DEF WriteImpl, SettleWrite
  <2>4. writeResult' \in [Writes -> PromiseState]
    BY <1>4, <2>1, Zenon DEF WriteImpl, SettleWrite
  <2>5. UNCHANGED <<readInvalidationResult, readPromises, readStrand, writeStrand, timers,
                    readTimed, writeTimed, startedWhileValid, readResult, readMsg>>
    BY <1>4, Zenon DEF WriteImpl, calls, SettleWrite
  <2> QED
    BY <2>2, <2>3, <2>4, <2>5, Zenon
<1>5. CASE ResolveReadPromise
  <2>1. writeStrand' \in Seq(Writes)
    BY <1>5, ToSetTail, Zenon DEF ResolveReadPromise, Bookkeeping, CanHandOver
  <2>2. isValid' \in BOOLEAN /\ resolving' \in BOOLEAN
    BY <1>5, Zenon DEF ResolveReadPromise, CanHandOver
  <2>3. UNCHANGED <<readInvalidationResult, readStrand, readTimed, writeTimed,
                    startedWhileValid, writeResult>>
    BY <1>5, Zenon DEF ResolveReadPromise, calls, CanHandOver
  <2>4. CASE readPromises = <<>> \/ buffer = <<>>
    BY <1>5, <2>1, <2>2, <2>3, <2>4, Zenon DEF ResolveReadPromise, CanHandOver
  <2>5. CASE readPromises # <<>> /\ buffer # <<>>
    <3>1. /\ Head(readPromises) \in Reads /\ Tail(readPromises) \in Seq(Reads)
          /\ Head(buffer) \in Writes /\ Tail(buffer) \in Seq(Writes)
      BY <2>5, ToSetTail, Zenon
    <3>2. /\ Deliver(Head(readPromises)) /\ CancelTimers({Head(readPromises)})
          /\ readPromises' = Tail(readPromises)
      BY <1>5, <2>5, Zenon DEF ResolveReadPromise, CanHandOver
    <3>3. timers' \in [Reads -> TimerState]
      BY <3>2, Zenon DEF CancelTimers
    <3>4. /\ buffer' \in Seq(Writes) /\ readResult' \in [Reads -> PromiseState]
          /\ readMsg' \in [Reads -> Writes \cup {NoMsg}]
      BY <3>1, <3>2, Zenon DEF Deliver
    <3> QED
      BY <2>1, <2>2, <2>3, <3>1, <3>2, <3>3, <3>4, Zenon
  <2> QED
    BY <2>4, <2>5, Zenon
<1>6. CASE ReadImpl
  <2> DEFINE r == Head(readStrand)
  <2>0. r \in Reads /\ readStrand' \in Seq(Reads)
    BY <1>6, ToSetTail, Zenon DEF ReadImpl, InvalidReadResult
  <2>1. CASE ~isValid
    <3>1. /\ readResult' = [readResult EXCEPT ![r] =
                 IF startedWhileValid[r] THEN readInvalidationResult ELSE "failed"]
          /\ UNCHANGED <<isValid, readInvalidationResult, buffer, readPromises, writeStrand,
                         resolving, timers, readTimed, writeTimed, startedWhileValid,
                         readMsg, writeResult>>
      BY <1>6, <2>1, Zenon DEF ReadImpl, calls, InvalidReadResult
    <3> HIDE DEF r
    <3> QED
      BY <2>0, <3>1, Zenon
  <2>2. CASE isValid /\ buffer # <<>>
    <3>1. /\ Deliver(r)
          /\ UNCHANGED <<isValid, readInvalidationResult, readPromises, writeStrand,
                         resolving, timers, readTimed, writeTimed, startedWhileValid,
                         writeResult>>
      BY <1>6, <2>2, Zenon DEF ReadImpl, calls, InvalidReadResult
    <3> HIDE DEF r
    <3>2. Head(buffer) \in Writes /\ Tail(buffer) \in Seq(Writes)
      BY <2>2, ToSetTail, Zenon
    <3> QED
      BY <2>0, <3>1, <3>2, Zenon DEF Deliver
  <2>3. CASE isValid /\ buffer = <<>>
    <3>1. /\ readPromises' = Append(readPromises, r)
          /\ timers' = [timers EXCEPT ![r] = IF readTimed[r] THEN "armed" ELSE @]
          /\ UNCHANGED <<isValid, readInvalidationResult, buffer, writeStrand, resolving,
                         readTimed, writeTimed, startedWhileValid, readResult, readMsg,
                         writeResult>>
      BY <1>6, <2>3, Zenon DEF ReadImpl, calls, InvalidReadResult
    <3> HIDE DEF r
    <3> QED
      BY <2>0, <3>1
  <2> QED
    BY <2>1, <2>2, <2>3, Zenon
<1>7. ASSUME NEW r \in Reads, TimerExpires(r) PROVE TypeOK'
  BY <1>7, Zenon DEF TimerExpires, calls
<1>8. ASSUME NEW r \in Reads, TimeoutCallback(r) PROVE TypeOK'
  <2>1. readPromises' \in Seq(Reads)
    <3>1. ASSUME NEW i \in DOMAIN readPromises, readPromises' = Erase(readPromises, i)
          PROVE  readPromises' \in Seq(Reads)
      BY <3>1, ToSetRemoveAt, Zenon
    <3>2. CASE readPromises' = readPromises
      BY <3>2, Zenon
    <3> QED
      BY <1>8, <3>1, <3>2, Zenon DEF TimeoutCallback
  <2>2. readResult' \in [Reads -> PromiseState] /\ timers' \in [Reads -> TimerState]
    BY <1>8, Zenon DEF TimeoutCallback
  <2>3. UNCHANGED <<isValid, readInvalidationResult, buffer, readStrand, writeStrand, resolving,
                    readTimed, writeTimed, startedWhileValid, readMsg, writeResult>>
    BY <1>8, Zenon DEF TimeoutCallback, calls
  <2> QED
    BY <2>1, <2>2, <2>3, Zenon
<1>9. CASE UNCHANGED vars
  BY <1>9, Zenon DEF vars, calls
<1> QED
  BY <1>1, <1>2, <1>3, <1>4, <1>5, <1>6, <1>7, <1>8, <1>9, Zenon DEF Next

\* The window of write_impl and resolve_read_promise holds one message at most: before
\* write_impl of the next task either no read waits or the buffer is empty.
LEMMA WakeupStep == IInv /\ [Next]_vars => NoLostWakeup'
<1> SUFFICES ASSUME IInv, [Next]_vars PROVE NoLostWakeup'
  BY Zenon
<1> USE DEF NoLostWakeup
<1>0. /\ NoLostWakeup
      /\ buffer \in Seq(Writes) /\ readPromises \in Seq(Reads)
  BY Zenon DEF IInv, TypeOK
<1>1. ASSUME NEW w \in Writes, NEW timed \in BOOLEAN, WriteAsync(w, timed) PROVE NoLostWakeup'
  BY <1>0, <1>1, Zenon DEF WriteAsync
<1>2. ASSUME NEW r \in Reads, NEW timed \in BOOLEAN, ReadAsync(r, timed) PROVE NoLostWakeup'
  BY <1>0, <1>2, Zenon DEF ReadAsync
<1>3. ASSUME NEW cancelRead \in BOOLEAN, Invalidate(cancelRead) PROVE NoLostWakeup'
  BY <1>3, Zenon DEF Invalidate, InvalidationResult
<1>4. CASE WriteImpl
  <2>1. CASE buffer' = buffer
    BY <1>0, <1>4, <2>1, Zenon DEF WriteImpl, SettleWrite
  <2>2. CASE buffer' = Append(buffer, Head(writeStrand))
    <3>1. readPromises' = readPromises /\ ~resolving /\ resolving'
      BY <1>4, Zenon DEF WriteImpl, SettleWrite
    <3>2. readPromises # <<>> => Len(buffer') = 1
      BY <1>0, <2>2, <3>1
    <3> QED
      BY <3>1, <3>2, Zenon
  <2> QED
    BY <1>4, <2>1, <2>2, Zenon DEF WriteImpl, SettleWrite
<1>5. CASE ResolveReadPromise
  <2>1. CASE readPromises = <<>> \/ buffer = <<>>
    BY <1>5, <2>1, Zenon DEF ResolveReadPromise, CanHandOver
  <2>2. CASE readPromises # <<>> /\ buffer # <<>>
    <3>1. Len(buffer) = 1 /\ buffer' = Tail(buffer)
      BY <1>0, <1>5, <2>2, Zenon DEF ResolveReadPromise, Deliver, CanHandOver
    <3>2. buffer' = <<>>
      BY <1>0, <3>1
    <3> QED
      BY <3>2, Zenon
  <2> QED
    BY <2>1, <2>2, Zenon
<1>6. CASE ReadImpl
  <2>1. CASE ~isValid
    BY <1>0, <1>6, <2>1, Zenon DEF ReadImpl, InvalidReadResult
  <2>2. CASE isValid /\ buffer # <<>>
    <3>1. buffer' = Tail(buffer) /\ readPromises' = readPromises
      BY <1>6, <2>2, Zenon DEF ReadImpl, Deliver, InvalidReadResult
    <3>2. readPromises # <<>> => buffer' = <<>>
      BY <1>0, <2>2, <3>1
    <3> QED
      BY <3>1, <3>2, Zenon
  <2>3. CASE isValid /\ buffer = <<>>
    BY <1>6, <2>3, Zenon DEF ReadImpl, InvalidReadResult
  <2> QED
    BY <2>1, <2>2, <2>3, Zenon
<1>7. ASSUME NEW r \in Reads, TimerExpires(r) PROVE NoLostWakeup'
  BY <1>0, <1>7, Zenon DEF TimerExpires
<1>8. ASSUME NEW r \in Reads, TimeoutCallback(r) PROVE NoLostWakeup'
  <2>1. readPromises' # <<>> => readPromises # <<>>
    <3>1. readPromises' = readPromises \/ \E i \in DOMAIN readPromises : TRUE
      BY <1>8, Zenon DEF TimeoutCallback
    <3>2. (\E i \in DOMAIN readPromises : TRUE) => readPromises # <<>>
      BY <1>0
    <3> QED
      BY <3>1, <3>2, Zenon
  <2> QED
    BY <1>0, <1>8, <2>1, Zenon DEF TimeoutCallback
<1>9. CASE UNCHANGED vars
  BY <1>0, <1>9, Zenon DEF vars
<1> QED
  BY <1>1, <1>2, <1>3, <1>4, <1>5, <1>6, <1>7, <1>8, <1>9, Zenon DEF Next

\* read_impl moves a promise from its task to the queue or settles it; the write task,
\* the timer callback and invalidate take it out of the queue when they settle it.
LEMMA OwnershipStep == IInv /\ [Next]_vars => PendingReadsAreOwned'
<1> SUFFICES ASSUME IInv, [Next]_vars PROVE PendingReadsAreOwned'
  BY Zenon
<1> DEFINE Pending == {r \in Reads : readResult[r] = "pending"}
<1>0. /\ IsInjective(readStrand) /\ IsInjective(readPromises)
      /\ Range(readStrand) \cap Range(readPromises) = {}
      /\ Range(readStrand) \cup Range(readPromises) = Pending
      /\ readPromises \in Seq(Reads) /\ readStrand \in Seq(Reads)
      /\ readResult \in [Reads -> PromiseState]
  BY Zenon DEF IInv, TypeOK, PendingReadsAreOwned
<1>same. ASSUME UNCHANGED <<readStrand, readPromises, readResult>> PROVE PendingReadsAreOwned'
  BY <1>0, <1>same, Zenon DEF PendingReadsAreOwned
<1>1. ASSUME NEW w \in Writes, NEW timed \in BOOLEAN, WriteAsync(w, timed)
      PROVE PendingReadsAreOwned'
  BY <1>same, <1>1, Zenon DEF WriteAsync
<1>2. ASSUME NEW r \in Reads, NEW timed \in BOOLEAN, ReadAsync(r, timed)
      PROVE PendingReadsAreOwned'
  <2>1. /\ readResult[r] = "idle" /\ readResult' = [readResult EXCEPT ![r] = "pending"]
        /\ readStrand' = Append(readStrand, r) /\ readPromises' = readPromises
    BY <1>2, Zenon DEF ReadAsync
  <2>2. r \notin Pending /\ Pending' = Pending \cup {r}
    BY <1>0, <2>1, Zenon
  <2>3. IsInjective(readStrand') /\ Range(readStrand') = Range(readStrand) \cup {r}
    BY <1>0, <2>1, <2>2, ToSetAppend
  <2> QED
    BY <1>0, <2>1, <2>2, <2>3, Zenon DEF PendingReadsAreOwned
<1>3. ASSUME NEW cancelRead \in BOOLEAN, Invalidate(cancelRead) PROVE PendingReadsAreOwned'
  <2> DEFINE result == IF cancelRead THEN "canceled" ELSE "failed"
  <2>1. /\ readPromises' = <<>> /\ readStrand' = readStrand
        /\ readResult' = [r \in Reads |-> IF r \in Range(readPromises) THEN result
                                          ELSE readResult[r]]
    BY <1>3, Zenon DEF Invalidate, InvalidationResult
  <2>2. result # "pending"
    BY Zenon
  <2> HIDE DEF result
  <2>3. Pending' = Pending \ Range(readPromises)
    BY <2>1, <2>2, Zenon
  <2> QED
    BY <1>0, <2>1, <2>3, ToSetEmpty, Zenon DEF PendingReadsAreOwned
<1>4. CASE WriteImpl
  BY <1>same, <1>4, Zenon DEF WriteImpl, SettleWrite
<1>5. CASE ResolveReadPromise
  <2>1. CASE readPromises = <<>> \/ buffer = <<>>
    BY <1>same, <1>5, <2>1, Zenon DEF ResolveReadPromise, CanHandOver
  <2>2. CASE readPromises # <<>> /\ buffer # <<>>
    <3>1. /\ readResult' = [readResult EXCEPT ![Head(readPromises)] = "success"]
          /\ readPromises' = Tail(readPromises) /\ readStrand' = readStrand
      BY <1>5, <2>2, Zenon DEF ResolveReadPromise, Deliver, CanHandOver
    <3>2. /\ Head(readPromises) \in Reads /\ Head(readPromises) \in Range(readPromises)
          /\ IsInjective(readPromises')
          /\ Range(readPromises') = Range(readPromises) \ {Head(readPromises)}
      BY <1>0, <2>2, <3>1, ToSetTail, Zenon
    <3>3. Pending' = Pending \ {Head(readPromises)}
      BY <1>0, <3>1, <3>2, Zenon
    <3> QED
      BY <1>0, <3>1, <3>2, <3>3, Zenon DEF PendingReadsAreOwned
  <2> QED
    BY <2>1, <2>2, Zenon
<1>6. CASE ReadImpl
  <2> DEFINE r == Head(readStrand)
  <2>1. /\ r \in Reads /\ r \in Range(readStrand) /\ IsInjective(readStrand')
        /\ Range(readStrand') = Range(readStrand) \ {r}
    BY <1>0, <1>6, ToSetTail, Zenon DEF ReadImpl, InvalidReadResult
  <2>2. CASE ~isValid \/ buffer # <<>>
    <3>1. /\ readPromises' = readPromises
          /\ \E res \in {"failed", "canceled", "success"} :
               readResult' = [readResult EXCEPT ![r] = res]
      BY <1>6, <2>2, Zenon DEF ReadImpl, Deliver, IInv, TypeOK, InvalidReadResult
    <3> HIDE DEF r
    <3>2. Pending' = Pending \ {r}
      BY <1>0, <2>1, <3>1, Zenon
    <3> QED
      BY <1>0, <2>1, <3>1, <3>2, Zenon DEF PendingReadsAreOwned
  <2>3. CASE isValid /\ buffer = <<>>
    <3>1. readPromises' = Append(readPromises, r) /\ readResult' = readResult
      BY <1>6, <2>3, Zenon DEF ReadImpl, InvalidReadResult
    <3> HIDE DEF r
    <3>2. IsInjective(readPromises') /\ Range(readPromises') = Range(readPromises) \cup {r}
      BY <1>0, <2>1, <3>1, ToSetAppend
    <3> QED
      BY <1>0, <2>1, <3>1, <3>2, Zenon DEF PendingReadsAreOwned
  <2> QED
    BY <2>2, <2>3, Zenon
<1>7. ASSUME NEW r \in Reads, TimerExpires(r) PROVE PendingReadsAreOwned'
  BY <1>same, <1>7, Zenon DEF TimerExpires
<1>8. ASSUME NEW r \in Reads, TimeoutCallback(r) PROVE PendingReadsAreOwned'
  <2>1. CASE UNCHANGED <<readPromises, readResult>>
    BY <1>same, <1>8, <2>1, Zenon DEF TimeoutCallback
  <2>2. ASSUME NEW i \in DOMAIN readPromises, readPromises[i] = r,
               readPromises' = Erase(readPromises, i),
               readResult' = [readResult EXCEPT ![r] = "timeout"]
        PROVE  PendingReadsAreOwned'
    <3>1. /\ IsInjective(readPromises')
          /\ Range(readPromises') = Range(readPromises) \ {r}
      BY <1>0, <2>2, ToSetRemoveAt, Zenon
    <3>2. r \in Range(readPromises)
      BY <2>2, Zenon DEF Range
    <3>3. Pending' = Pending \ {r}
      BY <1>0, <2>2, Zenon
    <3>4. readStrand' = readStrand
      BY <1>8, Zenon DEF TimeoutCallback
    <3> QED
      BY <1>0, <3>1, <3>2, <3>3, <3>4, Zenon DEF PendingReadsAreOwned
  <2> QED
    BY <1>8, <2>1, <2>2, Zenon DEF TimeoutCallback
<1>9. CASE UNCHANGED vars
  BY <1>same, <1>9 DEF vars
<1> QED
  BY <1>1, <1>2, <1>3, <1>4, <1>5, <1>6, <1>7, <1>8, <1>9, Zenon DEF Next

\* A message enters the buffer with the success of its write and leaves it for one read.
LEMMA ConservationStep == IInv /\ [Next]_vars => AcceptedMessagesAreConserved'
<1> SUFFICES ASSUME IInv, [Next]_vars PROVE AcceptedMessagesAreConserved'
  BY Zenon
<1> DEFINE Delivered == {readMsg[r] : r \in Reads} \ {NoMsg}
           Accepted == {w \in Writes : writeResult[w] = "success"}
           Unique == \A q, r \in Reads : readMsg[q] = readMsg[r] => q = r \/ readMsg[r] = NoMsg
<1>0. /\ IsInjective(buffer) /\ Unique /\ Range(buffer) \cap Delivered = {}
      /\ isValid => Range(buffer) \cup Delivered = Accepted
      /\ buffer \in Seq(Writes)
      /\ readMsg \in [Reads -> Writes \cup {NoMsg}]
      /\ writeResult \in [Writes -> PromiseState]
  BY Zenon DEF IInv, TypeOK, AcceptedMessagesAreConserved
<1>same. ASSUME UNCHANGED <<buffer, readMsg>>, isValid' => isValid,
                isValid' => Accepted' = Accepted
         PROVE  AcceptedMessagesAreConserved'
  BY <1>0, <1>same DEF AcceptedMessagesAreConserved
<1>1. ASSUME NEW w \in Writes, NEW timed \in BOOLEAN, WriteAsync(w, timed)
      PROVE AcceptedMessagesAreConserved'
  <2>1. Accepted' = Accepted
    BY <1>0, <1>1, Zenon DEF WriteAsync
  <2> QED
    BY <1>same, <1>1, <2>1, Zenon DEF WriteAsync
<1>2. ASSUME NEW r \in Reads, NEW timed \in BOOLEAN, ReadAsync(r, timed)
      PROVE AcceptedMessagesAreConserved'
  BY <1>same, <1>2, Zenon DEF ReadAsync
<1>3. ASSUME NEW cancelRead \in BOOLEAN, Invalidate(cancelRead)
      PROVE AcceptedMessagesAreConserved'
  <2>1. buffer' = <<>> /\ readMsg' = readMsg /\ ~isValid'
    BY <1>3, Zenon DEF Invalidate, InvalidationResult
  <2> QED
    BY <1>0, <2>1, ToSetEmpty, Zenon DEF AcceptedMessagesAreConserved
<1>4. CASE WriteImpl
  <2> DEFINE w == Head(writeStrand)
  <2>1. w \in Writes /\ w \in Range(writeStrand) /\ writeResult[w] = "pending"
    <3>1. /\ w \in Writes /\ w \in Range(writeStrand)
      BY <1>4, ToSetTail, Zenon DEF WriteImpl, IInv, TypeOK, SettleWrite
    <3> QED
      BY <1>4, <3>1, Zenon DEF WriteImpl, IInv, Bookkeeping, SettleWrite
  <2>2. readMsg' = readMsg /\ isValid' = isValid
    BY <1>4, Zenon DEF WriteImpl, SettleWrite
  <2>3. ASSUME buffer' = buffer, NEW res \in {"canceled", "timeout", "failed"},
               writeResult' = [writeResult EXCEPT ![w] = res]
        PROVE  AcceptedMessagesAreConserved'
    <3> HIDE DEF w
    <3>1. Accepted' = Accepted
      BY <1>0, <2>1, <2>3, Zenon
    <3> QED
      BY <1>same, <2>2, <2>3, <3>1, Zenon
  <2>4. ASSUME isValid, buffer' = Append(buffer, w),
               writeResult' = [writeResult EXCEPT ![w] = "success"]
        PROVE  AcceptedMessagesAreConserved'
    <3> HIDE DEF w
    <3>1. Accepted' = Accepted \cup {w} /\ w \notin Accepted
      BY <1>0, <2>1, <2>4
    <3>2. IsInjective(buffer') /\ Range(buffer') = Range(buffer) \cup {w}
      BY <1>0, <2>1, <2>4, <3>1, ToSetAppend
    <3>3. Delivered' = Delivered /\ Unique'
      BY <1>0, <2>2
    <3> QED
      BY <1>0, <2>2, <2>4, <3>1, <3>2, <3>3 DEF AcceptedMessagesAreConserved
  <2> QED
    BY <1>4, <2>3, <2>4, Zenon DEF WriteImpl, SettleWrite
<1>deliver. ASSUME NEW r \in Reads, readResult[r] = "pending", buffer # <<>>, Deliver(r),
                   UNCHANGED <<isValid, writeResult>>
            PROVE  AcceptedMessagesAreConserved'
  <2>1. isValid /\ readMsg[r] = NoMsg
    BY <1>deliver, Zenon DEF IInv, Bookkeeping
  <2>2. /\ Head(buffer) \in Writes /\ Head(buffer) \in Range(buffer)
        /\ IsInjective(buffer') /\ Range(buffer') = Range(buffer) \ {Head(buffer)}
    BY <1>0, <1>deliver, ToSetTail, Zenon DEF Deliver
  <2>3. readMsg' = [readMsg EXCEPT ![r] = Head(buffer)] /\ Head(buffer) # NoMsg
    BY <1>deliver, <2>2, NoMsgAssumption, Zenon DEF Deliver
  <2>4. Head(buffer) \notin Delivered
    BY <1>0, <2>2, Zenon
  <2> DEFINE m == Head(buffer)
  <2> HIDE DEF m
  <2>5. readMsg' = [readMsg EXCEPT ![r] = m] /\ m # NoMsg /\ m \notin Delivered
    BY <2>3, <2>4, Zenon DEF m
  <2>6. Delivered' = Delivered \cup {m}
    BY <1>0, <2>1, <2>5
  <2>7. Unique'
    BY <1>0, <2>1, <2>5, Zenon
  <2>8. /\ m \in Range(buffer) /\ Range(buffer') = Range(buffer) \ {m}
        /\ Accepted' = Accepted
    BY <2>2, <1>deliver, Zenon DEF m
  <2> HIDE DEF Delivered, Accepted, Unique
  <2>9. /\ Range(buffer') \cap Delivered' = {}
        /\ Range(buffer') \cup Delivered' = Accepted'
    BY <1>0, <2>1, <2>5, <2>6, <2>8, Zenon
  <2> QED
    BY <2>2, <2>7, <2>9, Zenon DEF AcceptedMessagesAreConserved, Delivered, Accepted, Unique
<1>5. CASE ResolveReadPromise
  <2>1. CASE readPromises = <<>> \/ buffer = <<>>
    BY <1>same, <1>5, <2>1, Zenon DEF ResolveReadPromise, CanHandOver
  <2>2. CASE readPromises # <<>> /\ buffer # <<>>
    <3>1. Head(readPromises) \in Reads /\ readResult[Head(readPromises)] = "pending"
      BY <2>2, ToSetTail, Zenon DEF IInv, TypeOK, PendingReadsAreOwned
    <3> QED
      BY <1>5, <1>deliver, <2>2, <3>1, Zenon DEF ResolveReadPromise, CanHandOver
  <2> QED
    BY <2>1, <2>2, Zenon
<1>6. CASE ReadImpl
  <2>1. CASE isValid /\ buffer # <<>>
    <3>1. Head(readStrand) \in Reads /\ readResult[Head(readStrand)] = "pending"
      BY <1>6, ToSetTail, Zenon DEF ReadImpl, IInv, TypeOK, PendingReadsAreOwned, InvalidReadResult
    <3> QED
      BY <1>6, <1>deliver, <2>1, <3>1, Zenon DEF ReadImpl, InvalidReadResult
  <2>2. CASE ~(isValid /\ buffer # <<>>)
    <3>1. UNCHANGED <<buffer, readMsg, isValid, writeResult>>
      BY <1>6, <2>2, Zenon DEF ReadImpl, Deliver, InvalidReadResult
    <3> QED
      BY <1>same, <3>1, Zenon
  <2> QED
    BY <2>1, <2>2, Zenon
<1>7. ASSUME NEW r \in Reads, TimerExpires(r) PROVE AcceptedMessagesAreConserved'
  BY <1>same, <1>7, Zenon DEF TimerExpires
<1>8. ASSUME NEW r \in Reads, TimeoutCallback(r) PROVE AcceptedMessagesAreConserved'
  BY <1>same, <1>8, Zenon DEF TimeoutCallback
<1>9. CASE UNCHANGED vars
  BY <1>same, <1>9 DEF vars
<1> QED
  BY <1>1, <1>2, <1>3, <1>4, <1>5, <1>6, <1>7, <1>8, <1>9, Zenon DEF Next

\* The strands run a task once, and invalidate leaves no message and no waiting read.
LEMMA BookkeepingStep == IInv /\ [Next]_vars => Bookkeeping'
<1> SUFFICES ASSUME IInv, [Next]_vars PROVE Bookkeeping'
  BY Zenon
<1> DEFINE Idle == {w \in Writes : writeResult[w] = "idle"}
           Pending == {w \in Writes : writeResult[w] = "pending"}
           Running == IF resolving THEN {Head(writeStrand)} ELSE {}
           WritesOK == /\ resolving => writeStrand # <<>>
                       /\ IsInjective(writeStrand)
                       /\ Range(writeStrand) \cap Idle = {}
                       /\ Pending = Range(writeStrand) \ Running
           Closed == ~isValid => buffer = <<>> /\ readPromises = <<>>
           ReadsOK == \A r \in Reads :
                        /\ readResult[r] = "pending" /\ ~startedWhileValid[r] => ~isValid
                        /\ readResult[r] # "success" => readMsg[r] = NoMsg
<1>0. TypeOK /\ PendingReadsAreOwned /\ WritesOK /\ Closed /\ ReadsOK
  BY Zenon DEF IInv, Bookkeeping
<1>w. ASSUME UNCHANGED <<writeStrand, resolving, writeResult>> PROVE WritesOK'
  BY <1>0, <1>w, Zenon
<1>r. ASSUME UNCHANGED <<isValid, startedWhileValid, readResult, readMsg>> PROVE ReadsOK'
  BY <1>0, <1>r, Zenon
<1>q. ASSUME WritesOK', Closed', ReadsOK' PROVE Bookkeeping'
  BY <1>q, Zenon DEF Bookkeeping
<1>1. ASSUME NEW w \in Writes, NEW timed \in BOOLEAN, WriteAsync(w, timed) PROVE Bookkeeping'
  <2>1. WritesOK'
    <3>1. CASE ~isValid
      <4>1. /\ writeResult[w] = "idle" /\ writeResult' = [writeResult EXCEPT ![w] = "failed"]
            /\ UNCHANGED <<writeStrand, resolving>>
        BY <1>1, <3>1, Zenon DEF WriteAsync
      <4>2. Idle' = Idle \ {w} /\ Pending' = Pending
        BY <1>0, <4>1, Zenon DEF TypeOK
      <4> QED
        BY <1>0, <4>1, <4>2, Zenon
    <3>2. CASE isValid
      <4>1. /\ writeResult[w] = "idle" /\ writeResult' = [writeResult EXCEPT ![w] = "pending"]
            /\ writeStrand' = Append(writeStrand, w) /\ resolving' = resolving
        BY <1>1, <3>2, Zenon DEF WriteAsync
      <4>2. Idle' = Idle \ {w} /\ Pending' = Pending \cup {w} /\ w \notin Range(writeStrand)
        BY <1>0, <4>1, Zenon DEF TypeOK
      <4>3. /\ IsInjective(writeStrand') /\ Range(writeStrand') = Range(writeStrand) \cup {w}
            /\ writeStrand' # <<>>
        BY <1>0, <4>1, <4>2, ToSetAppend DEF TypeOK
      <4>4. Running' = Running
        <5>1. writeStrand # <<>> => Head(writeStrand') = Head(writeStrand)
          BY <1>0, <4>1 DEF TypeOK
        <5> QED
          BY <1>0, <4>1, <5>1, Zenon
      <4>5. w \notin Running
        <5>1. resolving => Head(writeStrand) \in Range(writeStrand)
          BY <1>0, ToSetTail, Zenon DEF TypeOK
        <5> QED
          BY <4>2, <5>1, Zenon
      <4> HIDE DEF Running, Idle, Pending
      <4> QED
        BY <1>0, <4>1, <4>2, <4>3, <4>4, <4>5, Zenon
    <3> QED
      BY <3>1, <3>2, Zenon
  <2>2. Closed' /\ ReadsOK'
    BY <1>0, <1>1, Zenon DEF WriteAsync
  <2> QED
    BY <1>q, <2>1, <2>2, Zenon
<1>2. ASSUME NEW r \in Reads, NEW timed \in BOOLEAN, ReadAsync(r, timed) PROVE Bookkeeping'
  <2>1. WritesOK' /\ Closed'
    BY <1>0, <1>2, <1>w, Zenon DEF ReadAsync
  <2>2. ReadsOK'
    BY <1>0, <1>2, Zenon DEF ReadAsync, TypeOK
  <2> QED
    BY <1>q, <2>1, <2>2, Zenon
<1>3. ASSUME NEW cancelRead \in BOOLEAN, Invalidate(cancelRead) PROVE Bookkeeping'
  <2>1. WritesOK' /\ Closed'
    BY <1>3, <1>w, Zenon DEF Invalidate, InvalidationResult
  <2>2. ReadsOK'
    <3>1. /\ ~isValid' /\ readMsg' = readMsg
          /\ \A r \in Reads : readResult'[r] = readResult[r] \/ r \in Range(readPromises)
      BY <1>3, Zenon DEF Invalidate, InvalidationResult
    <3>2. \A r \in Reads : r \in Range(readPromises) => readMsg[r] = NoMsg
      BY <1>0, Zenon DEF PendingReadsAreOwned
    <3> QED
      BY <1>0, <3>1, <3>2, Zenon
  <2> QED
    BY <1>q, <2>1, <2>2, Zenon
<1>4. CASE WriteImpl
  <2> DEFINE w == Head(writeStrand)
  <2>0. w \in Writes /\ w \in Range(writeStrand)
    BY <1>0, <1>4, ToSetTail, Zenon DEF WriteImpl, TypeOK, SettleWrite
  <2>1. \E res \in OpResult : writeResult' = [writeResult EXCEPT ![w] = res]
    BY <1>4, Zenon DEF WriteImpl, OpResult, SettleWrite
  <2>2. writeStrand # <<>> /\ ~resolving /\ resolving' /\ writeStrand' = writeStrand
    BY <1>4, Zenon DEF WriteImpl, SettleWrite
  <2>3. Idle' = Idle \ {w} /\ Pending' = Pending \ {w}
    <3> HIDE DEF w
    <3> QED
      BY <1>0, <2>0, <2>1, Zenon DEF TypeOK, OpResult
  <2>4. WritesOK'
    BY <1>0, <2>0, <2>2, <2>3, Zenon
  <2>5. Closed' /\ ReadsOK'
    BY <1>0, <1>4, Zenon DEF WriteImpl, calls, SettleWrite
  <2> QED
    BY <1>q, <2>4, <2>5, Zenon
<1>deliver. ASSUME NEW r \in Reads, readResult[r] = "pending", Deliver(r),
                   UNCHANGED <<isValid, startedWhileValid>>
            PROVE  ReadsOK'
  BY <1>0, <1>deliver, Zenon DEF Deliver, TypeOK
<1>5. CASE ResolveReadPromise
  <2>1. WritesOK'
    <3>1. resolving /\ ~resolving' /\ writeStrand' = Tail(writeStrand) /\ writeResult' = writeResult
      BY <1>5, Zenon DEF ResolveReadPromise, CanHandOver
    <3>2. /\ IsInjective(writeStrand')
          /\ Range(writeStrand') = Range(writeStrand) \ {Head(writeStrand)}
      BY <1>0, <3>1, ToSetTail, Zenon DEF TypeOK
    <3> QED
      BY <1>0, <3>1, <3>2, Zenon
  <2>2. CASE readPromises = <<>> \/ buffer = <<>>
    BY <1>0, <1>5, <1>q, <1>r, <2>1, <2>2 DEF ResolveReadPromise, calls, CanHandOver
  <2>3. CASE readPromises # <<>> /\ buffer # <<>>
    <3>1. Head(readPromises) \in Reads /\ readResult[Head(readPromises)] = "pending"
      BY <1>0, <2>3, ToSetTail, Zenon DEF TypeOK, PendingReadsAreOwned
    <3>2. Closed' /\ ReadsOK'
      BY <1>0, <1>5, <1>deliver, <2>3, <3>1, Zenon DEF ResolveReadPromise, calls, CanHandOver
    <3> QED
      BY <1>q, <2>1, <3>2, Zenon
  <2> QED
    BY <2>2, <2>3, Zenon
<1>6. CASE ReadImpl
  <2> DEFINE r == Head(readStrand)
  <2>0. r \in Reads /\ readResult[r] = "pending"
    BY <1>0, <1>6, ToSetTail, Zenon DEF ReadImpl, TypeOK, PendingReadsAreOwned, InvalidReadResult
  <2>1. WritesOK' /\ UNCHANGED <<isValid, startedWhileValid>>
    BY <1>6, <1>w, Zenon DEF ReadImpl, calls, InvalidReadResult
  <2>2. CASE ~isValid
    <3>1. /\ UNCHANGED <<buffer, readPromises, readMsg>>
          /\ readResult' = [readResult EXCEPT ![r] =
                 IF startedWhileValid[r] THEN readInvalidationResult ELSE "failed"]
      BY <1>6, <2>2, Zenon DEF ReadImpl, InvalidReadResult
    <3> HIDE DEF r
    <3>2. Closed' /\ ReadsOK'
      BY <1>0, <2>0, <2>1, <2>2, <3>1, Zenon DEF TypeOK
    <3> QED
      BY <1>q, <2>1, <3>2, Zenon
  <2>3. CASE isValid /\ buffer # <<>>
    <3>1. Closed' /\ Deliver(r)
      BY <1>0, <1>6, <2>3, Zenon DEF ReadImpl, InvalidReadResult
    <3> QED
      BY <1>q, <1>deliver, <2>0, <2>1, <3>1, Zenon
  <2>4. CASE isValid /\ buffer = <<>>
    <3>1. Closed' /\ UNCHANGED <<readResult, readMsg>>
      BY <1>6, <2>4, Zenon DEF ReadImpl, InvalidReadResult
    <3> QED
      BY <1>q, <1>r, <2>1, <3>1, Zenon
  <2> QED
    BY <2>2, <2>3, <2>4, Zenon
<1>7. ASSUME NEW r \in Reads, TimerExpires(r) PROVE Bookkeeping'
  BY <1>0, <1>7, <1>q, <1>w, <1>r, Zenon DEF TimerExpires, calls
<1>8. ASSUME NEW r \in Reads, TimeoutCallback(r) PROVE Bookkeeping'
  <2>1. WritesOK' /\ UNCHANGED <<isValid, startedWhileValid, readMsg, buffer>>
    BY <1>8, <1>w, Zenon DEF TimeoutCallback, calls
  <2>2. CASE UNCHANGED <<readPromises, readResult>>
    BY <1>0, <1>q, <1>r, <2>1, <2>2, Zenon
  <2>3. ASSUME NEW i \in DOMAIN readPromises, readPromises[i] = r,
               readResult' = [readResult EXCEPT ![r] = "timeout"]
        PROVE  Bookkeeping'
    <3>1. r \in Range(readPromises) /\ readPromises # <<>>
      BY <2>3 DEF Range
    <3>2. readResult[r] = "pending" /\ isValid
      BY <1>0, <3>1, Zenon DEF PendingReadsAreOwned
    <3>3. Closed' /\ ReadsOK'
      BY <1>0, <2>1, <2>3, <3>2, Zenon DEF TypeOK
    <3> QED
      BY <1>q, <2>1, <3>3, Zenon
  <2> QED
    BY <1>8, <2>2, <2>3, Zenon DEF TimeoutCallback
<1>9. CASE UNCHANGED vars
  BY <1>0, <1>9, <1>q, <1>w, <1>r, Zenon DEF vars, calls
<1> QED
  BY <1>1, <1>2, <1>3, <1>4, <1>5, <1>6, <1>7, <1>8, <1>9, Zenon DEF Next

\* The inductive invariant holds in every state mem_buffer reaches.
THEOREM Invariance == Spec => []IInv
<1>1. IInv /\ [Next]_vars => IInv'
  BY TypeStep, WakeupStep, OwnershipStep, ConservationStep, BookkeepingStep, Zenon DEF IInv
<1> QED
  BY <1>1, InitIInv, PTL DEF Spec

\* Every variable of mem_buffer keeps its type.
THEOREM TypeCorrect == Spec => []TypeOK
  BY Invariance, PTL DEF IInv

\* No read is left waiting beside a message (read_impl against write_impl and
\* resolve_read_promise), for any number of concurrent reads and writes.
THEOREM NoLostWakeupHolds == Spec => []NoLostWakeup
  BY Invariance, PTL DEF IInv

\* The promise of every unsettled read is held by exactly one of its task and the
\* waiting queue.
THEOREM OwnershipHolds == Spec => []PendingReadsAreOwned
  BY Invariance, PTL DEF IInv

\* Messages are neither lost nor duplicated before invalidate.
THEOREM ConservationHolds == Spec => []AcceptedMessagesAreConserved
  BY Invariance, PTL DEF IInv

-----------------------------------------------------------------------------
(* mem_buffer implements FifoPipe.                                         *)

\* the state of a read as its caller sees it
readState == [r \in Reads |-> IF readResult[r] = "pending" /\ ~startedWhileValid[r]
                              THEN "late" ELSE readResult[r]]

\* An initial buffer is an initial pipe direction.
LEMMA RefinesInit == Init => Contract!Init
  BY Zenon DEF Init, Contract!Init

\* Every step of the buffer is a step of the pipe direction or leaves it unchanged.
LEMMA RefinesNext == IInv /\ IInv' /\ [Next]_vars => [Contract!Next]_(Contract!vars)
<1> SUFFICES ASSUME IInv, IInv', [Next]_vars PROVE Contract!Next \/ UNCHANGED Contract!vars
  BY Zenon
<1>0. TypeOK /\ TypeOK' /\ PendingReadsAreOwned /\ Bookkeeping
  BY Zenon DEF IInv
<1>1. ASSUME NEW w \in Writes, NEW timed \in BOOLEAN, WriteAsync(w, timed) PROVE Contract!Next
  <2>1. Contract!StartWrite(w)
    <3>1. CASE isValid
      BY <1>1, <3>1, Zenon DEF WriteAsync, Contract!StartWrite
    <3>2. CASE ~isValid
      BY <1>1, <3>2, Zenon DEF WriteAsync, Contract!StartWrite
    <3> QED
      BY <3>1, <3>2, Zenon
  <2> QED
    BY <2>1, Zenon DEF Contract!Next
<1>2. ASSUME NEW r \in Reads, NEW timed \in BOOLEAN, ReadAsync(r, timed) PROVE Contract!Next
  <2>1. /\ readState[r] = "idle"
        /\ readState' = [readState EXCEPT ![r] = IF isValid THEN "pending" ELSE "late"]
    BY <1>0, <1>2, Zenon DEF ReadAsync, readState, TypeOK
  <2>2. Contract!StartRead(r)
    BY <1>2, <2>1, Zenon DEF ReadAsync, Contract!StartRead, readState
  <2> QED
    BY <2>2, Zenon DEF Contract!Next
<1>3. ASSUME NEW cancelRead \in BOOLEAN, Invalidate(cancelRead) PROVE Contract!Next
  <2>1. PICK result \in {"failed", "canceled"}, S \in SUBSET Reads :
          /\ S = Range(readPromises)
          /\ readInvalidationResult' = result
          /\ readResult' = [r \in Reads |-> IF r \in S THEN result ELSE readResult[r]]
    BY <1>0, <1>3, {r \in Reads : readResult[r] = "pending"} \in SUBSET Reads, Zenon
       DEF Invalidate, PendingReadsAreOwned, InvalidationResult
  <2>2. /\ isValid /\ isValid' = FALSE /\ buffer' = <<>>
        /\ UNCHANGED <<readMsg, writeResult, startedWhileValid>>
    BY <1>3, Zenon DEF Invalidate, calls, InvalidationResult
  <2>3. \A r \in S : readResult[r] = "pending" /\ startedWhileValid[r]
    BY <1>0, <2>1, <2>2, Zenon DEF PendingReadsAreOwned, Bookkeeping
  <2>4. /\ \A r \in S : readState[r] = "pending"
        /\ readState' = [r \in Reads |-> IF r \in S THEN result ELSE readState[r]]
    BY <2>1, <2>2, <2>3, Zenon DEF readState
  <2>5. Contract!Close(result, S)
    BY <2>1, <2>2, <2>4, Zenon DEF Contract!Close, readState
  <2> QED
    BY <2>5, Zenon DEF Contract!Next
<1>4. CASE WriteImpl
  <2> DEFINE w == Head(writeStrand)
  <2>1. w \in Writes /\ writeResult[w] = "pending"
    <3>1. w \in Writes /\ w \in Range(writeStrand) /\ ~resolving
      BY <1>0, <1>4, ToSetTail, Zenon DEF WriteImpl, TypeOK, SettleWrite
    <3> QED
      BY <1>0, <3>1, Zenon DEF Bookkeeping
  <2>2. UNCHANGED <<isValid, readInvalidationResult, readResult, startedWhileValid, readMsg>>
    BY <1>4, Zenon DEF WriteImpl, calls, SettleWrite
  <2>3. readState' = readState
    BY <2>2, Zenon DEF readState
  <2>4. ASSUME NEW res \in {"timeout", "failed", "canceled"}, buffer' = buffer,
               res \in IF isValid THEN {"timeout", "failed"} ELSE {"canceled"},
               writeResult' = [writeResult EXCEPT ![w] = res]
        PROVE  Contract!Next
    <3>1. Contract!Refuse(w, res)
      BY <2>1, <2>2, <2>3, <2>4, Zenon DEF Contract!Refuse, readState
    <3> QED
      BY <2>1, <2>4, <3>1, Zenon DEF Contract!Next
  <2>5. ASSUME isValid, buffer' = Append(buffer, w),
               writeResult' = [writeResult EXCEPT ![w] = "success"]
        PROVE  Contract!Next
    <3>1. Contract!Accept(w)
      BY <2>1, <2>2, <2>3, <2>5, Zenon DEF Contract!Accept, readState
    <3> QED
      BY <2>1, <3>1, Zenon DEF Contract!Next
  <2>6. \/ /\ ~isValid /\ buffer' = buffer
           /\ writeResult' = [writeResult EXCEPT ![w] = "canceled"]
        \/ /\ isValid /\ buffer' = buffer
           /\ writeResult' = [writeResult EXCEPT ![w] = "timeout"]
        \/ /\ isValid /\ buffer' = buffer
           /\ writeResult' = [writeResult EXCEPT ![w] = "failed"]
        \/ /\ isValid /\ buffer' = Append(buffer, w)
           /\ writeResult' = [writeResult EXCEPT ![w] = "success"]
    BY <1>4, Zenon DEF WriteImpl, SettleWrite
  <2> QED
    BY <2>4, <2>5, <2>6, Zenon
<1>deliver. ASSUME NEW r \in Reads, readResult[r] = "pending", buffer # <<>>, Deliver(r),
                   UNCHANGED <<isValid, readInvalidationResult, startedWhileValid, writeResult>>
            PROVE  Contract!Next
  <2>1. isValid /\ startedWhileValid[r]
    BY <1>0, <1>deliver, Zenon DEF Bookkeeping
  <2>2. readState[r] = "pending" /\ readState' = [readState EXCEPT ![r] = "success"]
    BY <1>0, <1>deliver, <2>1, Zenon DEF Deliver, readState, TypeOK
  <2>3. Contract!Deliver(r)
    BY <1>deliver, <2>1, <2>2, Zenon DEF Deliver, Contract!Deliver, readState
  <2> QED
    BY <2>3, Zenon DEF Contract!Next
<1>same. ASSUME UNCHANGED <<isValid, readInvalidationResult, buffer, readResult, readMsg,
                            startedWhileValid, writeResult>>
         PROVE  UNCHANGED Contract!vars
  BY <1>same, Zenon DEF Contract!vars
<1>5. CASE ResolveReadPromise
  <2>1. CASE readPromises = <<>> \/ buffer = <<>>
    BY <1>same, <1>5, <2>1, Zenon DEF ResolveReadPromise, calls, CanHandOver
  <2>2. CASE readPromises # <<>> /\ buffer # <<>>
    <3>1. Head(readPromises) \in Reads /\ readResult[Head(readPromises)] = "pending"
      BY <1>0, <2>2, ToSetTail, Zenon DEF TypeOK, PendingReadsAreOwned
    <3> QED
      BY <1>5, <1>deliver, <2>2, <3>1, Zenon DEF ResolveReadPromise, calls, CanHandOver
  <2> QED
    BY <2>1, <2>2, Zenon
<1>6. CASE ReadImpl
  <2>0. PICK r \in Reads : r = Head(readStrand) /\ readResult[r] = "pending"
    BY <1>0, <1>6, ToSetTail, Zenon DEF ReadImpl, TypeOK, PendingReadsAreOwned, InvalidReadResult
  <2>1. UNCHANGED <<isValid, readInvalidationResult, startedWhileValid, writeResult>>
    BY <1>6, Zenon DEF ReadImpl, calls, InvalidReadResult
  <2>2. CASE ~isValid
    <3>1. /\ UNCHANGED <<buffer, readMsg>>
          /\ readResult' = [readResult EXCEPT ![r] =
                 IF startedWhileValid[r] THEN readInvalidationResult ELSE "failed"]
      BY <1>6, <2>0, <2>2, Zenon DEF ReadImpl, InvalidReadResult
    <3>2. CASE startedWhileValid[r]
      <4>1. /\ readState[r] = "pending"
            /\ readState' = [readState EXCEPT ![r] = readInvalidationResult]
        BY <1>0, <2>0, <2>1, <3>1, <3>2, Zenon DEF readState, TypeOK
      <4>2. Contract!FailRead(r)
        BY <2>1, <2>2, <3>1, <4>1, Zenon DEF Contract!FailRead, readState
      <4> QED
        BY <4>2, Zenon DEF Contract!Next
    <3>3. CASE ~startedWhileValid[r]
      <4>1. readState[r] = "late" /\ readState' = [readState EXCEPT ![r] = "failed"]
        BY <1>0, <2>0, <2>1, <3>1, <3>3, Zenon DEF readState, TypeOK
      <4>2. Contract!FailRead(r)
        BY <2>1, <2>2, <3>1, <4>1, Zenon DEF Contract!FailRead, readState
      <4> QED
        BY <4>2, Zenon DEF Contract!Next
    <3> QED
      BY <3>2, <3>3, Zenon
  <2>3. CASE isValid /\ buffer # <<>>
    <3>1. Deliver(r)
      BY <1>6, <2>0, <2>3, Zenon DEF ReadImpl, InvalidReadResult
    <3> QED
      BY <1>deliver, <2>0, <2>1, <2>3, <3>1, Zenon
  <2>4. CASE isValid /\ buffer = <<>>
    <3>1. UNCHANGED <<buffer, readResult, readMsg>>
      BY <1>6, <2>4, Zenon DEF ReadImpl, InvalidReadResult
    <3> QED
      BY <1>same, <2>1, <3>1, Zenon
  <2> QED
    BY <2>2, <2>3, <2>4, Zenon
<1>7. ASSUME NEW r \in Reads, TimerExpires(r) PROVE UNCHANGED Contract!vars
  BY <1>7, <1>same, Zenon DEF TimerExpires, calls
<1>8. ASSUME NEW r \in Reads, TimeoutCallback(r) PROVE Contract!Next \/ UNCHANGED Contract!vars
  <2>1. UNCHANGED <<isValid, readInvalidationResult, buffer, startedWhileValid, readMsg, writeResult>>
    BY <1>8, Zenon DEF TimeoutCallback, calls
  <2>2. CASE readResult' = readResult
    BY <1>same, <2>1, <2>2, Zenon
  <2>3. ASSUME NEW i \in DOMAIN readPromises, readPromises[i] = r,
               readResult' = [readResult EXCEPT ![r] = "timeout"]
        PROVE  Contract!Next
    <3>1. r \in Range(readPromises) /\ readPromises # <<>>
      BY <2>3 DEF Range
    <3>2. readResult[r] = "pending" /\ isValid /\ startedWhileValid[r]
      BY <1>0, <3>1, Zenon DEF PendingReadsAreOwned, Bookkeeping
    <3>3. readState[r] = "pending" /\ readState' = [readState EXCEPT ![r] = "timeout"]
      BY <1>0, <2>1, <2>3, <3>2, Zenon DEF readState, TypeOK
    <3>4. Contract!TimeoutRead(r)
      BY <2>1, <3>2, <3>3, Zenon DEF Contract!TimeoutRead, readState
    <3> QED
      BY <3>4, Zenon DEF Contract!Next
  <2> QED
    BY <1>8, <2>2, <2>3, Zenon DEF TimeoutCallback
<1>9. CASE UNCHANGED vars
  BY <1>9, <1>same, Zenon DEF vars, calls
<1> QED
  BY <1>1, <1>2, <1>3, <1>4, <1>5, <1>6, <1>7, <1>8, <1>9, Zenon DEF Next

\* mem_buffer implements one direction of a pipe as ipipe-endpoint.h asks for it:
\* FIFO delivery, single completion and the result codes, for any sets of operations.
THEOREM Refinement == Spec => ImplementsFifoPipe
<1>1. Spec => Contract!Init
  BY RefinesInit, Zenon DEF Spec
<1>2. Spec => [][Contract!Next]_(Contract!vars)
  BY RefinesNext, Invariance, PTL DEF Spec
<1> QED
  BY <1>1, <1>2, Zenon DEF ImplementsFifoPipe, Contract!Spec

-----------------------------------------------------------------------------
(* The two directions of a pipe in memory (MemBuffers): what overlapping   *)
(* calls of invalidate leave behind.                                       *)
(*                                                                         *)
(* The properties speak of what is closed and reported.  What makes them   *)
(* inductive is where the calls of invalidate_impl are: a call that is     *)
(* past a direction has left it closed, whoever closed it, and whoever is  *)
(* inside has been counted among the invalidators, so that a direction     *)
(* that is closed has one.                                                 *)

\* A call of invalidate_impl has left closed what it has passed
PassedIsClosed ==
  \A side \in PipeSides : /\ pc[side] \in {"closeS2C", "notify"} => ~c2sOpen
                          /\ pc[side] = "notify" => ~s2cOpen

\* Whoever is inside invalidate_impl, or closed a direction, is an invalidator
ClosersAreKnown ==
  /\ \A side \in PipeSides : pc[side] # "idle" => side \in invalidators
  /\ ~c2sOpen \/ ~s2cOpen => invalidators # {}

BuffersInv ==
  /\ ClosesOnce
  /\ ReadResultNamesTheCloser
  /\ PassedIsClosed
  /\ ClosersAreKnown

-----------------------------------------------------------------------------
\* A new pipe has two open directions and nobody inside invalidate.
LEMMA BuffersInitially == BuffersInit => BuffersInv
<1> SUFFICES ASSUME BuffersInit PROVE BuffersInv
  BY Zenon
<1>1. /\ c2sOpen = TRUE /\ s2cOpen = TRUE /\ invalidated = FALSE
      /\ c2sCloseResult = "failed" /\ s2cCloseResult = "failed"
  BY Zenon DEF BuffersInit, ClientToServer!Init, ServerToClient!Init
<1>2. c2sOpen \in BOOLEAN /\ s2cOpen \in BOOLEAN /\ invalidated \in BOOLEAN
  BY <1>1, Zenon
<1>3. BuffersTypeOK
  BY <1>1, <1>2, Zenon DEF BuffersInit, BuffersTypeOK
<1> QED
  BY <1>1, <1>3 DEF BuffersInit, BuffersInv, ClosesOnce, CloseOrder, CallbackRunsOnce, ReadResultNamesTheCloser,
     PassedIsClosed, ClosersAreKnown

\* Reads, writes, timeouts and deliveries neither open nor close a direction.
LEMMA UseKeepsOpen ==
  /\ UseClientToServer => UNCHANGED <<c2sOpen, c2sCloseResult>>
  /\ UseServerToClient => UNCHANGED <<s2cOpen, s2cCloseResult>>
<1>1. ASSUME UseClientToServer PROVE UNCHANGED <<c2sOpen, c2sCloseResult>>
  BY <1>1, Zenon DEF UseClientToServer, ClientToServer!StartRead, ClientToServer!Deliver,
     ClientToServer!TimeoutRead, ClientToServer!FailRead, ClientToServer!StartWrite,
     ClientToServer!Decide, ClientToServer!Accept, ClientToServer!Refuse
<1>2. ASSUME UseServerToClient PROVE UNCHANGED <<s2cOpen, s2cCloseResult>>
  BY <1>2, Zenon DEF UseServerToClient, ServerToClient!StartRead, ServerToClient!Deliver,
     ServerToClient!TimeoutRead, ServerToClient!FailRead, ServerToClient!StartWrite,
     ServerToClient!Decide, ServerToClient!Accept, ServerToClient!Refuse
<1> QED  BY <1>1, <1>2, Zenon

\* What the invariant depends on: the flags of the directions, not their contents
flags == <<c2sOpen, c2sCloseResult, s2cOpen, s2cCloseResult, invalidated, callbackVars, pc,
           invalidators>>

\* A step that leaves the flags alone keeps the invariant.
LEMMA SameFlags == BuffersInv /\ UNCHANGED flags => BuffersInv'
BY DEF flags, callbackVars, BuffersInv, ClosesOnce, BuffersTypeOK, CloseOrder, CallbackRunsOnce,
   ReadResultNamesTheCloser, PassedIsClosed, ClosersAreKnown

\* set_invalidate_callback: the list while the pipe is up, at once when it is down; never both.
LEMMA SetCallbackStep ==
  ASSUME BuffersInv, NEW cb \in Callbacks, SetInvalidateCallback(cb)
  PROVE  BuffersInv'
<1>1. BuffersTypeOK' /\ CallbackRunsOnce'
  BY DEF SetInvalidateCallback, BuffersInv, ClosesOnce, BuffersTypeOK, CloseOrder, CallbackRunsOnce, c2sVars, s2cVars
<1> QED
  BY <1>1, Zenon DEF SetInvalidateCallback, BuffersInv, ClosesOnce, CloseOrder, ReadResultNamesTheCloser,
     PassedIsClosed, ClosersAreKnown, c2sVars, s2cVars

\* The caller of invalidate becomes an invalidator before it closes anything.
LEMMA InvalidateBegins ==
  ASSUME BuffersInv, NEW side \in PipeSides, InvalidateEndpoint(side)
  PROVE  BuffersInv'
<1>1. ClosesOnce'
  BY Zenon DEF InvalidateEndpoint, BuffersInv, ClosesOnce, BuffersTypeOK, CloseOrder, CallbackRunsOnce, c2sVars, s2cVars,
     callbackVars
<1>2. PassedIsClosed' /\ ClosersAreKnown'
  BY Zenon DEF InvalidateEndpoint, BuffersInv, ClosesOnce, BuffersTypeOK, PassedIsClosed, ClosersAreKnown, c2sVars, s2cVars
<1>3. ReadResultNamesTheCloser'
  BY Zenon DEF InvalidateEndpoint, BuffersInv, ClosersAreKnown, ReadResultNamesTheCloser, c2sVars, s2cVars, PipeSides
<1> QED  BY <1>1, <1>2, <1>3, Zenon DEF BuffersInv

\* The first direction: closed now with the result of this side, or closed before.
LEMMA CloseC2SStep ==
  ASSUME BuffersInv, NEW side \in PipeSides, CloseClientToServer(side)
  PROVE  BuffersInv'
<1>1. /\ c2sOpen' = FALSE
      /\ c2sCloseResult' = IF c2sOpen THEN CloseResult("server", side) ELSE c2sCloseResult
      /\ UNCHANGED <<s2cOpen, s2cCloseResult, invalidated, callbackVars, invalidators>>
      /\ pc' = [pc EXCEPT ![side] = "closeS2C"]
      /\ side \in invalidators
  BY Zenon DEF CloseClientToServer, ClientToServer!Close, BuffersInv, ClosersAreKnown, ClosesOnce, BuffersTypeOK,
     c2sVars, s2cVars
<1>2. ClosesOnce'
  BY <1>1, Zenon DEF BuffersInv, ClosesOnce, BuffersTypeOK, CloseOrder, CallbackRunsOnce, callbackVars, CloseResult
<1>3. PassedIsClosed' /\ ClosersAreKnown'
  <2>1. \A t \in PipeSides : pc'[t] = IF t = side THEN "closeS2C" ELSE pc[t]
    BY <1>1, Zenon DEF BuffersInv, ClosesOnce, BuffersTypeOK
  <2>2. PassedIsClosed'
    <3>1. ~c2sOpen' /\ s2cOpen' = s2cOpen
      BY <1>1, Zenon
    <3>2. \A t \in PipeSides : pc'[t] = "notify" => pc[t] = "notify"
      BY <2>1, Zenon
    <3> QED  BY <3>1, <3>2, Zenon DEF BuffersInv, PassedIsClosed
  <2>3. ClosersAreKnown'
    BY <1>1, <2>1, Zenon DEF BuffersInv, ClosersAreKnown
  <2> QED  BY <2>2, <2>3, Zenon
<1>4. ReadResultNamesTheCloser'
  BY <1>1, Zenon DEF BuffersInv, ReadResultNamesTheCloser, CloseResult, PipeSides
<1> QED  BY <1>2, <1>3, <1>4, Zenon DEF BuffersInv

\* The second direction: the first one is closed by now.
LEMMA CloseS2CStep ==
  ASSUME BuffersInv, NEW side \in PipeSides, CloseServerToClient(side)
  PROVE  BuffersInv'
<1>1. /\ s2cOpen' = FALSE
      /\ s2cCloseResult' = IF s2cOpen THEN CloseResult("client", side) ELSE s2cCloseResult
      /\ UNCHANGED <<c2sOpen, c2sCloseResult, invalidated, callbackVars, invalidators>>
      /\ pc' = [pc EXCEPT ![side] = "notify"]
      /\ side \in invalidators
      /\ ~c2sOpen
  BY Zenon DEF CloseServerToClient, ServerToClient!Close, BuffersInv, ClosersAreKnown, PassedIsClosed, ClosesOnce,
     BuffersTypeOK, c2sVars, s2cVars
<1>2. ClosesOnce'
  BY <1>1, Zenon DEF BuffersInv, ClosesOnce, BuffersTypeOK, CloseOrder, CallbackRunsOnce, callbackVars, CloseResult
<1>3. PassedIsClosed' /\ ClosersAreKnown'
  <2>1. \A t \in PipeSides : pc'[t] = IF t = side THEN "notify" ELSE pc[t]
    BY <1>1, Zenon DEF BuffersInv, ClosesOnce, BuffersTypeOK
  <2>2. PassedIsClosed'
    BY <1>1, <2>1, Zenon DEF BuffersInv, PassedIsClosed
  <2>3. ClosersAreKnown'
    BY <1>1, <2>1, Zenon DEF BuffersInv, ClosersAreKnown
  <2> QED  BY <2>2, <2>3, Zenon
<1>4. ReadResultNamesTheCloser'
  BY <1>1, Zenon DEF BuffersInv, ReadResultNamesTheCloser, CloseResult, PipeSides
<1> QED  BY <1>2, <1>3, <1>4, Zenon DEF BuffersInv

\* The end of invalidate_impl empties the list: the call that overlapped it finds nothing.
LEMMA RunCallbacksStep ==
  ASSUME BuffersInv, NEW side \in PipeSides, RunInvalidateCallbacks(side)
  PROVE  BuffersInv'
<1>1. ~c2sOpen /\ ~s2cOpen
  BY DEF RunInvalidateCallbacks, BuffersInv, PassedIsClosed
<1>2. BuffersTypeOK'
  <2>1. /\ onInvalidate' \subseteq Callbacks /\ invalidated' \in BOOLEAN
        /\ pc' \in [PipeSides -> {"idle", "closeC2S", "closeS2C", "notify"}]
        /\ UNCHANGED <<c2sOpen, s2cOpen, c2sCloseResult, s2cCloseResult, unsetCallbacks, invalidators>>
    BY Zenon DEF RunInvalidateCallbacks, BuffersInv, ClosesOnce, BuffersTypeOK, c2sVars, s2cVars
  <2>2. executions' \in [Callbacks -> Nat]
    BY DEF RunInvalidateCallbacks, BuffersInv, ClosesOnce, BuffersTypeOK
  <2> QED  BY <2>1, <2>2, Zenon DEF BuffersInv, ClosesOnce, BuffersTypeOK
<1>3. CallbackRunsOnce'
  BY <1>1 DEF RunInvalidateCallbacks, BuffersInv, ClosesOnce, BuffersTypeOK, CallbackRunsOnce, c2sVars, s2cVars
<1>4. CloseOrder'
  BY <1>1, Zenon DEF RunInvalidateCallbacks, CloseOrder, c2sVars, s2cVars
<1>5. PassedIsClosed' /\ ClosersAreKnown' /\ ReadResultNamesTheCloser'
  <2>1. \A t \in PipeSides : pc'[t] = IF t = side THEN "idle" ELSE pc[t]
    BY Zenon DEF RunInvalidateCallbacks, BuffersInv, ClosesOnce, BuffersTypeOK
  <2>2. UNCHANGED <<c2sOpen, c2sCloseResult, s2cOpen, s2cCloseResult, invalidators>>
    BY Zenon DEF RunInvalidateCallbacks, c2sVars, s2cVars
  <2>3. PassedIsClosed' /\ ClosersAreKnown'
    BY <2>1, <2>2, Zenon DEF BuffersInv, PassedIsClosed, ClosersAreKnown
  <2>4. ReadResultNamesTheCloser'
    BY <2>2, Zenon DEF BuffersInv, ReadResultNamesTheCloser
  <2> QED  BY <2>3, <2>4, Zenon
<1> QED  BY <1>2, <1>3, <1>4, <1>5, Zenon DEF BuffersInv, ClosesOnce

\* Every step of the endpoints and of their calls of invalidate keeps the invariant.
LEMMA BuffersNextStep == BuffersInv /\ [BuffersNext]_buffersVars => BuffersInv'
<1> SUFFICES ASSUME BuffersInv, [BuffersNext]_buffersVars PROVE BuffersInv'
  BY Zenon
<1>1. CASE UseClientToServer \/ UseServerToClient
  <2>1. UNCHANGED flags
    BY <1>1, UseKeepsOpen, Zenon DEF UseClientToServer, UseServerToClient, flags, c2sVars, s2cVars
  <2> QED  BY <2>1, SameFlags, Zenon
<1>2. CASE UNCHANGED buffersVars
  <2>1. UNCHANGED flags
    BY <1>2, Zenon DEF buffersVars, flags, c2sVars, s2cVars
  <2> QED  BY <2>1, SameFlags, Zenon
<1> QED
  BY <1>1, <1>2, SetCallbackStep, InvalidateBegins, CloseC2SStep, CloseS2CStep, RunCallbacksStep, Zenon
     DEF BuffersNext, InvalidateStep

\* The invariant holds however the calls of invalidate, the reads and the writes interleave.
THEOREM BuffersInvariance == BuffersSpec => []BuffersInv
BY BuffersInitially, BuffersNextStep, PTL DEF BuffersSpec

\* The directions close in one order, the pipe is said to be disconnected last, and each
\* disconnect callback runs once, however many calls of invalidate overlap.
THEOREM ClosesOnceHolds == BuffersSpec => []ClosesOnce
BY BuffersInvariance, PTL DEF BuffersInv

\* While one side alone has invalidated, its reads end as canceled and its peer's as failed.
THEOREM ReadResultNamesTheCloserHolds == BuffersSpec => []ReadResultNamesTheCloser
BY BuffersInvariance, PTL DEF BuffersInv

=============================================================================
