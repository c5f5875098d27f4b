----------------------- MODULE WinPipeEndpointProofs ------------------------
(***************************************************************************)
(* Proofs about the endpoint of a Windows named pipe, for any operations   *)
(* and timeouts.                                                           *)
(*                                                                         *)
(* The promises of an operation can be resolved by the I/O threads, by the *)
(* worker and by an invalidation.  The invariant says who works on the     *)
(* oldest operation of a list: a task of the I/O thread, the kernel or a   *)
(* continuation, and never two of them; and that a cancel task finds the   *)
(* operation it is for, or one that will be started after it.              *)
(***************************************************************************)
EXTENDS WinPipeEndpoint, WellFoundedInduction, TLAPS

\* A set of numbers that is not empty has a least one.
LEMMA LeastNumber ==
  ASSUME NEW S \in SUBSET Nat, S # {}
  PROVE  \E x \in S : \A y \in S : x <= y
<1> DEFINE Less == OpToRel(<, Nat)
<1>1. \A x, y \in Nat : <<y, x>> \in Less <=> y < x
  BY Zenon DEF OpToRel
<1>2. IsWellFoundedOn(Less, Nat)
  BY NatLessThanWellFounded, Zenon
<1> HIDE DEF Less
<1>3. PICK x \in S : \A y \in S : ~(<<y, x>> \in Less)
  BY <1>2, WFMin, Zenon
<1>4. \A y \in S : ~(y < x) /\ y \in Nat /\ x \in Nat
  BY <1>1, <1>3, Zenon
<1>5. \A y \in S : x <= y
  BY <1>4
<1> QED  BY <1>5, Zenon

\* A test of membership is a Boolean.
LEMMA MembershipIsBoolean ==
  ASSUME NEW x, NEW S
  PROVE  (x \in S) \in BOOLEAN
OBVIOUS

-----------------------------------------------------------------------------
(* The endpoint over a Windows named pipe.                                 *)

\* The oldest operation of its list
WinFirst(o) ==
  /\ o \in queue[Kind(o)]
  /\ \A p \in queue[Kind(o)] : p = o \/ Earlier(o, p)

\* Tasks that work on an operation
Working == {"start", "rest"}
WinTasked(o) ==
  \E i \in 1..Len(thread[Kind(o)]), task \in Working : thread[Kind(o)][i] = <<task, o>>

\* Only the oldest operation of a list is in the kernel or has been resolved, and something
\* works on it; who is resolved, or will be by the kernel, has a result
WinOperation(o) ==
  /\ \A p \in WinOps : Earlier(p, o) /\ result[o] # "idle" => result[p] # "idle"
  /\ result[o] = "idle" => o \notin queue[Kind(o)] /\ stage[o] = "none"
  /\ result[o] = "pending" =>
       o \in queue[Kind(o)] \/ stage[o] \in {"posted", "completing"}
  /\ io[o] # "none" => WinFirst(o) /\ stage[o] = "none"
  /\ o \in queue[Kind(o)] /\ stage[o] # "none" => WinFirst(o) /\ stage[o] # "over"
  /\ WinFirst(o) => WinTasked(o) \/ io[o] # "none" \/ stage[o] # "none"
  /\ IF stage[o] = "none" THEN resolved[o] = 0
     ELSE resolved[o] = 1 /\ value[o] # "unknown"
  /\ io[o] = "aborted" => res[o] # "unknown"
  /\ io[o] = "more_data" => Kind(o) = "read"

\* A task that works on an operation is the only one and nothing else works on it.  A cancel
\* is for the oldest operation, or the oldest will be started after it: it stops no other
WinTask(k, i) ==
  \A task \in Working \cup {"cancel"}, o \in WinOps : thread[k][i] = <<task, o>> =>
    /\ Kind(o) = k
    /\ task = "rest" => k = "read"
    /\ task \in Working =>
         /\ WinFirst(o) /\ io[o] = "none" /\ stage[o] = "none"
         /\ \A j \in 1..Len(thread[k]) : thread[k][j][1] \in Working => j = i
    /\ task = "cancel" =>
         /\ res[o] # "unknown"
         /\ \/ WinFirst(o)
            \/ \A p \in queue[k] : WinFirst(p) =>
                 \E j \in (i + 1)..Len(thread[k]) : thread[k][j] = <<"start", p>>

WinInv ==
  /\ TypeOK
  /\ \A k \in Kinds : \A o \in queue[k] : Kind(o) = k
  /\ \A o \in WinOps : WinOperation(o)
  /\ \A k \in Kinds : \A i \in 1..Len(thread[k]) : WinTask(k, i)

\* Operations of one kind are ordered by their numbers.
LEMMA WinOrder ==
  /\ \A o \in WinOps : Kind(o) \in Kinds
  /\ \A o, p \in WinOps : Kind(o) = Kind(p) => o = p \/ Earlier(o, p) \/ Earlier(p, o)
  /\ \A o, p \in WinOps : Earlier(o, p) => Kind(o) = Kind(p) /\ o # p /\ ~Earlier(p, o)
<1>1. \A o \in WinOps : o = <<o[1], o[2]>> /\ o[1] \in {"write", "read"} /\ o[2] \in Nat
  BY WinNames
<1> QED  BY <1>1 DEF Kind, Kinds, Earlier

\* A list that is not empty has an oldest operation.
LEMMA WinOldest ==
  ASSUME NEW S \in SUBSET WinOps, NEW k, \A o \in S : Kind(o) = k, S # {}
  PROVE  /\ Oldest(S) \in S
         /\ \A p \in S : p = Oldest(S) \/ Earlier(Oldest(S), p)
         /\ \A o \in S : (\A p \in S : p = o \/ Earlier(o, p)) => o = Oldest(S)
<1> DEFINE Ids == {o[2] : o \in S}
<1>1. Ids \in SUBSET Nat /\ Ids # {}
  BY WinNames, Zenon
<1>2. \E x \in Ids : \A y \in Ids : x <= y
  <2> HIDE DEF Ids
  <2> QED  BY <1>1, LeastNumber, Zenon
<1>3. PICK o \in S : \A p \in S : o[2] <= p[2]
  BY <1>2, Zenon
<1>4. \A p \in S : ~Earlier(p, o)
  BY <1>1, <1>3, WinNames DEF Earlier
<1>5. \A p \in S : p = o \/ Earlier(o, p)
  BY <1>4, WinOrder, Zenon
<1>6. /\ Oldest(S) \in S
      /\ \A p \in S : p = Oldest(S) \/ Earlier(Oldest(S), p)
  BY <1>5, Zenon DEF Oldest
<1> QED  BY <1>6, WinOrder, Zenon

\* The oldest operation of a list, in the words of the invariant.
LEMMA WinFirstIsOldest ==
  ASSUME WinInv, NEW k \in Kinds
  PROVE  /\ queue[k] \in SUBSET WinOps
         /\ \A o \in queue[k] : Kind(o) = k /\ (WinFirst(o) <=> o = Oldest(queue[k]))
         /\ queue[k] # {} => Oldest(queue[k]) \in queue[k]
<1>1. queue[k] \in SUBSET WinOps /\ \A o \in queue[k] : Kind(o) = k
  BY Zenon DEF WinInv, TypeOK
<1>2. CASE queue[k] # {}
  BY <1>1, <1>2, WinOldest, Zenon DEF WinFirst
<1> QED  BY <1>1, <1>2, Zenon

\* Two operations are not both the oldest of a list.
LEMMA WinFirstIsUnique ==
  ASSUME WinInv, NEW o \in WinOps, NEW p \in WinOps, WinFirst(o), WinFirst(p), Kind(o) = Kind(p)
  PROVE  o = p
BY WinOrder, Zenon DEF WinFirst

\* Being the oldest depends on the list only.
LEMMA WinFirstStays ==
  ASSUME NEW k, queue'[k] = queue[k], NEW p, Kind(p) = k
  PROVE  WinFirst(p)' <=> WinFirst(p)
BY Zenon DEF WinFirst, Kind, Earlier

\* A step that leaves the list and the tasks of a kind alone keeps what is known of the tasks, if
\* nothing else begins to work on an operation and results stay.
LEMMA WinTaskStays ==
  ASSUME NEW k, NEW i, WinTask(k, i), thread'[k] = thread[k], queue'[k] = queue[k],
         \A p \in queue[k] : Kind(p) = k,
         \A p \in WinOps : Kind(p) = k =>
           /\ io[p] = "none" /\ stage[p] = "none" => io'[p] = "none" /\ stage'[p] = "none"
           /\ res[p] # "unknown" => res'[p] # "unknown"
  PROVE  WinTask(k, i)'
<1>1. ASSUME NEW task \in Working \cup {"cancel"}, NEW o \in WinOps, thread'[k][i] = <<task, o>>
      PROVE  /\ Kind(o) = k
             /\ task = "rest" => k = "read"
             /\ task \in Working =>
                  /\ WinFirst(o)' /\ io'[o] = "none" /\ stage'[o] = "none"
                  /\ \A j \in 1..Len(thread'[k]) : thread'[k][j][1] \in Working => j = i
             /\ task = "cancel" =>
                  /\ res'[o] # "unknown"
                  /\ \/ WinFirst(o)'
                     \/ \A p \in queue'[k] : WinFirst(p)' =>
                          \E j \in (i + 1)..Len(thread'[k]) : thread'[k][j] = <<"start", p>>
  <2>1. thread[k][i] = <<task, o>>
    BY <1>1, Zenon
  <2>2. Kind(o) = k /\ (task = "rest" => k = "read")
    BY <2>1, Zenon DEF WinTask
  <2>3. WinFirst(o)' <=> WinFirst(o)
    BY <2>2, WinFirstStays, Zenon
  <2>4. ASSUME task \in Working
        PROVE  /\ WinFirst(o)' /\ io'[o] = "none" /\ stage'[o] = "none"
               /\ \A j \in 1..Len(thread'[k]) : thread'[k][j][1] \in Working => j = i
    <3>1. /\ WinFirst(o) /\ io[o] = "none" /\ stage[o] = "none"
          /\ \A j \in 1..Len(thread[k]) : thread[k][j][1] \in Working => j = i
      BY <2>1, <2>4, Zenon DEF WinTask
    <3>2. \A j \in 1..Len(thread'[k]) : thread'[k][j][1] \in Working => j = i
      BY <3>1, Zenon
    <3> QED  BY <2>2, <2>3, <3>1, <3>2, Zenon
  <2>5. ASSUME task = "cancel"
        PROVE  /\ res'[o] # "unknown"
               /\ \/ WinFirst(o)'
                  \/ \A p \in queue'[k] : WinFirst(p)' =>
                       \E j \in (i + 1)..Len(thread'[k]) : thread'[k][j] = <<"start", p>>
    <3>1. /\ res[o] # "unknown"
          /\ \/ WinFirst(o)
             \/ \A p \in queue[k] : WinFirst(p) =>
                  \E j \in (i + 1)..Len(thread[k]) : thread[k][j] = <<"start", p>>
      BY <2>1, <2>5, Zenon DEF WinTask
    <3>2. res'[o] # "unknown"
      BY <2>2, <3>1, Zenon
    <3>3. \A p \in queue[k] : WinFirst(p)' <=> WinFirst(p)
      BY WinFirstStays, Zenon
    <3>4. ASSUME ~WinFirst(o), NEW p \in queue'[k], WinFirst(p)'
          PROVE  \E j \in (i + 1)..Len(thread'[k]) : thread'[k][j] = <<"start", p>>
      BY <3>1, <3>3, <3>4, Zenon
    <3> QED  BY <2>3, <3>2, <3>4, Zenon
  <2> QED  BY <2>2, <2>4, <2>5, Zenon
<1> QED  BY <1>1, Zenon DEF WinTask, Kind

\* A step that leaves the lists and the tasks alone and changes results and completions
\* only as the kernel, invalidate() and a failure do keeps the invariant.
LEMMA WinQuiet ==
  ASSUME WinInv, TypeOK',
         UNCHANGED <<queue, thread, result, resolved, value>>,
         \A p \in WinOps :
           /\ io'[p] = "none" <=> io[p] = "none"
           /\ stage'[p] = stage[p] \/ (stage[p] = "posted" /\ stage'[p] = "completing")
           /\ res[p] # "unknown" => res'[p] # "unknown"
           /\ io'[p] = "aborted" => res'[p] # "unknown"
           /\ io'[p] = "more_data" => Kind(p) = "read"
  PROVE  WinInv'
<1>1. ASSUME NEW p  PROVE (WinFirst(p)' <=> WinFirst(p)) /\ (WinTasked(p)' <=> WinTasked(p))
  BY DEF WinFirst, WinTasked, Kind, Earlier
<1>2. ASSUME NEW p \in WinOps  PROVE WinOperation(p)'
  <2>1. WinOperation(p)
    BY Zenon DEF WinInv
  <2> QED  BY <1>1, <2>1, Zenon DEF WinOperation, Kind, Earlier
<1>3. ASSUME NEW k \in Kinds, NEW i \in 1..Len(thread[k])  PROVE WinTask(k, i)'
  <2>1. WinTask(k, i)
    BY Zenon DEF WinInv
  <2>2. \A p \in queue[k] : Kind(p) = k
    BY Zenon DEF WinInv
  <2> QED  BY <2>1, <2>2, WinTaskStays
<1>4. \A k \in Kinds : \A o \in queue'[k] : Kind(o) = k
  BY Zenon DEF WinInv
<1> QED  BY <1>2, <1>3, <1>4, Zenon DEF WinInv, Kind

\* Closing the handle gives every operation in the kernel a result.
LEMMA WinInvalidates ==
  ASSUME WinInv, NEW byCancel \in BOOLEAN, InvalidateImpl(byCancel)
  PROVE  /\ open' \in BOOLEAN /\ callback' \in {"none", "stored", "posted"}
         /\ io' \in [WinOps -> {"none", "pending"} \cup Completions]
         /\ res' \in [WinOps -> {"unknown"} \cup Known]
         /\ \A p \in WinOps :
              /\ io'[p] = "none" <=> io[p] = "none"
              /\ res[p] # "unknown" => res'[p] # "unknown"
              /\ io'[p] = "aborted" => res'[p] # "unknown"
              /\ io'[p] = "more_data" => Kind(p) = "read"
<1>1. TypeOK
  BY Zenon DEF WinInv
<1>2. /\ open' = FALSE
      /\ callback' = IF callback = "stored" THEN "posted" ELSE callback
      /\ io' = [o \in WinOps |-> IF io[o] = "pending" THEN "aborted" ELSE io[o]]
  BY Zenon DEF InvalidateImpl, ClosePipe
<1>3. \A o \in WinOps : 
        /\ res'[o] \in {res[o], "canceled", "failed"}
        /\ o \in queue["write"] \cup queue["read"] => res'[o] # "unknown"
        /\ res[o] # "unknown" => res'[o] # "unknown"
  BY Zenon DEF InvalidateImpl, SetCanceledIfPossible, SetFailedIfPossible
<1>4. res' \in [WinOps -> {"unknown"} \cup Known]
  <2>1. res' = [o \in WinOps |-> res'[o]]
    BY Zenon DEF InvalidateImpl
  <2>2. \A o \in WinOps : res'[o] \in {"unknown"} \cup Known
    BY <1>1, <1>3, Zenon DEF TypeOK, Known
  <2> QED  BY <2>1, <2>2, Zenon
<1>5. ASSUME NEW p \in WinOps, io[p] # "none"  PROVE p \in queue["write"] \cup queue["read"]
  <2>1. p \in queue[Kind(p)] /\ Kind(p) \in {"write", "read"}
    BY <1>5, WinOrder, Zenon DEF WinInv, WinOperation, WinFirst, Kinds
  <2> QED  BY <2>1, Zenon
<1>6. \A p \in WinOps :
         /\ io'[p] = "none" <=> io[p] = "none"
         /\ io'[p] = "aborted" => io[p] # "none"
         /\ io'[p] = "more_data" => io[p] = "more_data"
  BY <1>2, Zenon
<1>7. /\ open' \in BOOLEAN /\ callback' \in {"none", "stored", "posted"}
      /\ io' \in [WinOps -> {"none", "pending"} \cup Completions]
  BY <1>1, <1>2, Zenon DEF TypeOK, Completions
<1>8. \A p \in WinOps : io[p] = "more_data" => Kind(p) = "read"
  BY Zenon DEF WinInv, WinOperation
<1> QED  BY <1>3, <1>4, <1>5, <1>6, <1>7, <1>8, Zenon

\* invalidate(), a failed continuation, the kernel and a disconnect callback keep the
\* invariant.
LEMMA WinQuietSteps ==
  ASSUME WinInv,
         \/ Invalidate \/ SetDisconnectCallback
         \/ \E o \in WinOps : InvalidateByFailure(o) \/ KernelCompletes(o)
  PROVE  WinInv'
<1>1. TypeOK /\ TRUE \in BOOLEAN /\ FALSE \in BOOLEAN
  BY Zenon DEF WinInv
<1>2. ASSUME NEW p \in WinOps
      PROVE  /\ io[p] = "aborted" => res[p] # "unknown"
             /\ io[p] = "more_data" => Kind(p) = "read"
  BY Zenon DEF WinInv, WinOperation
<1>3. CASE Invalidate
  <2>1. /\ InvalidateImpl(TRUE)
        /\ UNCHANGED <<queue, thread, chunks, resolved, value, stage, result, timed>>
    BY <1>3, Zenon DEF Invalidate
  <2>2. TypeOK'
    BY <1>1, <2>1, WinInvalidates, Zenon DEF TypeOK, Known, Completions
  <2> QED  BY <1>1, <2>1, <2>2, WinInvalidates, WinQuiet, Zenon
<1>4. CASE SetDisconnectCallback
  <2>1. /\ callback' \in {"none", "stored", "posted"}
        /\ UNCHANGED <<open, queue, thread, io, chunks, res, resolved, value,
                       stage, result, timed>>
    BY <1>4, Zenon DEF SetDisconnectCallback
  <2>2. TypeOK'
    BY <1>1, <2>1, Zenon DEF TypeOK, Known, Completions
  <2> QED  BY <1>2, <2>1, <2>2, WinQuiet, Zenon
<1>5. ASSUME NEW o \in WinOps, InvalidateByFailure(o)  PROVE WinInv'
  <2>1. /\ stage[o] = "posted" /\ stage' = [stage EXCEPT ![o] = "completing"]
        /\ UNCHANGED <<queue, thread, chunks, resolved, value, result, timed>>
    BY <1>5, Zenon DEF InvalidateByFailure
  <2>2. InvalidateImpl(FALSE) \/ UNCHANGED <<open, callback, io, res>>
    BY <1>5, Zenon DEF InvalidateByFailure
  <2>3. \A p \in WinOps : stage'[p] = stage[p] \/ (stage[p] = "posted" /\ stage'[p] = "completing")
    BY <1>1, <2>1, Zenon DEF TypeOK
  <2>4. CASE InvalidateImpl(FALSE)
    <3>1. TypeOK'
      BY <1>1, <2>1, <2>4, WinInvalidates, Zenon DEF TypeOK, Known, Completions
    <3> QED  BY <1>1, <2>1, <2>3, <2>4, <3>1, WinInvalidates, WinQuiet, Zenon
  <2>5. CASE UNCHANGED <<open, callback, io, res>>
    <3>1. TypeOK'
      BY <1>1, <2>1, <2>5, Zenon DEF TypeOK, Known, Completions
    <3> QED  BY <1>2, <2>1, <2>3, <2>5, <3>1, WinQuiet, Zenon
  <2> QED  BY <2>2, <2>4, <2>5, Zenon
<1>6. ASSUME NEW o \in WinOps, KernelCompletes(o)  PROVE WinInv'
  <2>1. PICK status \in {"success", "more_data", "error"} :
           /\ status = "more_data" => Kind(o) = "read"
           /\ io' = [io EXCEPT ![o] = status]
    BY <1>6, Zenon DEF KernelCompletes
  <2>2. /\ io[o] = "pending"
        /\ UNCHANGED <<open, callback, queue, thread, chunks, res, resolved, value,
                       stage, result, timed>>
    BY <1>6, Zenon DEF KernelCompletes
  <2>3. TypeOK'
    BY <1>1, <2>1, <2>2, Zenon DEF TypeOK, Known, Completions
  <2>4. \A p \in WinOps :
           /\ io'[p] = "none" <=> io[p] = "none"
           /\ io'[p] = "aborted" => res'[p] # "unknown"
           /\ io'[p] = "more_data" => Kind(p) = "read"
    BY <1>1, <1>2, <2>1, <2>2, Zenon DEF TypeOK
  <2> QED  BY <2>2, <2>3, <2>4, WinQuiet, Zenon
<1> QED  BY <1>3, <1>4, <1>5, <1>6, Zenon

\* What is left of the tasks of a thread when it has run the first.
LEMMA WinTail ==
  ASSUME TypeOK, NEW k \in Kinds, thread[k] # <<>>, TaskDone(k)
  PROVE  /\ thread' \in [Kinds -> Seq({"start", "rest", "cancel"} \X WinOps)]
         /\ \A m \in Kinds : m # k => thread'[m] = thread[m]
         /\ Len(thread[k]) \in Nat \ {0} /\ Len(thread'[k]) = Len(thread[k]) - 1
         /\ \A i \in 1..Len(thread'[k]) : thread'[k][i] = thread[k][i + 1]
         /\ Head(thread[k]) = thread[k][1]
         /\ thread[k][1] \in {"start", "rest", "cancel"} \X WinOps
<1>1. PICK s \in Seq({"start", "rest", "cancel"} \X WinOps) : s = thread[k]
  BY Zenon DEF TypeOK
<1>2. /\ Len(s) \in Nat \ {0} /\ Len(Tail(s)) = Len(s) - 1 /\ Head(s) = s[1]
      /\ Tail(s) \in Seq({"start", "rest", "cancel"} \X WinOps)
      /\ \A i \in 1..Len(Tail(s)) : Tail(s)[i] = s[i + 1]
      /\ s[1] \in {"start", "rest", "cancel"} \X WinOps
  BY <1>1
<1>3. thread' = [thread EXCEPT ![k] = Tail(s)]
  BY <1>1, Zenon DEF TaskDone
<1>4. thread \in [Kinds -> Seq({"start", "rest", "cancel"} \X WinOps)]
  BY Zenon DEF TypeOK
<1>5. thread'[k] = Tail(s) /\ \A m \in Kinds : m # k => thread'[m] = thread[m]
  BY <1>3, <1>4, Zenon
<1>6. thread' \in [Kinds -> Seq({"start", "rest", "cancel"} \X WinOps)]
  BY <1>2, <1>3, <1>4, Zenon
<1> QED  BY <1>1, <1>2, <1>5, <1>6, Zenon

\* What a task may do to an operation p: nothing but give an I/O that is pending an end, or,
\* if it works on p, start the I/O or resolve p
Left(p) ==
  /\ stage'[p] = stage[p] /\ resolved'[p] = resolved[p] /\ value'[p] = value[p]
  /\ res'[p] = res[p]
  /\ io'[p] = "none" <=> io[p] = "none"
  /\ io'[p] = "aborted" => res[p] # "unknown"
  /\ io'[p] = "more_data" => io[p] = "more_data"

ResolvedNow(p) ==
  /\ io'[p] = "none" /\ stage'[p] = "posted"
  /\ resolved'[p] = resolved[p] + 1
  /\ value'[p] # "unknown" /\ res'[p] # "unknown"

Worked(p) ==
  \/ /\ io'[p] = "pending"
     /\ stage'[p] = stage[p] /\ resolved'[p] = resolved[p] /\ value'[p] = value[p]
     /\ res'[p] = res[p]
  \/ ResolvedNow(p)

\* Such a task keeps the invariant.
LEMMA WinTaskKeeps ==
  ASSUME WinInv, TypeOK', NEW k \in Kinds, thread[k] # <<>>, TaskDone(k),
         UNCHANGED <<queue, result>>,
         \A p \in WinOps : \/ p = thread[k][1][2] /\ thread[k][1][1] \in Working /\ Worked(p)
                           \/ ~(p = thread[k][1][2] /\ thread[k][1][1] \in Working) /\ Left(p)
  PROVE  WinInv'
<1>1. /\ \A m \in Kinds : m # k => thread'[m] = thread[m]
      /\ Len(thread[k]) \in Nat \ {0} /\ Len(thread'[k]) = Len(thread[k]) - 1
      /\ \A i \in 1..Len(thread'[k]) : thread'[k][i] = thread[k][i + 1]
      /\ thread[k][1] \in {"start", "rest", "cancel"} \X WinOps
  BY WinTail, Zenon DEF WinInv
<1>2. PICK t \in Working \cup {"cancel"}, o \in WinOps : thread[k][1] = <<t, o>>
  BY <1>1 DEF Working
<1>3. WinTask(k, 1) /\ 1 \in 1..Len(thread[k])
  BY <1>1 DEF WinInv
<1>4. /\ Kind(o) = k
      /\ t \in Working =>
           /\ WinFirst(o) /\ io[o] = "none" /\ stage[o] = "none"
           /\ \A j \in 1..Len(thread[k]) : thread[k][j][1] \in Working => j = 1
  BY <1>2, <1>3, Zenon DEF WinTask
<1>5. ASSUME NEW p  PROVE WinFirst(p)' <=> WinFirst(p)
  BY Zenon DEF WinFirst, Kind, Earlier
<1>6. ASSUME NEW p \in WinOps, ~(p = o /\ t \in Working), WinTasked(p)  PROVE WinTasked(p)'
  <2>1. PICK i \in 1..Len(thread[Kind(p)]), task \in Working : thread[Kind(p)][i] = <<task, p>>
    BY <1>6, Zenon DEF WinTasked
  <2>2. CASE Kind(p) = k
    <3>1. i # 1
      BY <1>2, <1>6, <2>1, <2>2
    <3>2. i - 1 \in 1..Len(thread'[k]) /\ thread'[k][i - 1] = thread[k][i]
      BY <1>1, <2>1, <2>2, <3>1
    <3> QED  BY <2>1, <2>2, <3>2, Zenon DEF WinTasked, Kind
  <2>3. CASE Kind(p) # k
    <3>1. thread'[Kind(p)] = thread[Kind(p)]
      BY <1>1, <2>3, WinOrder, Zenon
    <3> QED  BY <2>1, <3>1, Zenon DEF WinTasked, Kind
  <2> QED  BY <2>2, <2>3, Zenon
<1>7. \A p \in WinOps : (p = o /\ t \in Working /\ Worked(p)) \/ (~(p = o /\ t \in Working) /\ Left(p))
  BY <1>2
<1>8. ASSUME NEW p \in WinOps  PROVE WinOperation(p)'
  <2>1. WinOperation(p)
    BY Zenon DEF WinInv
  <2>2. CASE p = o /\ t \in Working /\ Worked(p)
    <3>1. /\ WinFirst(o)' /\ WinFirst(o) /\ stage[o] = "none" /\ resolved[o] = 0
          /\ o \in queue[Kind(o)]
      BY <1>4, <1>5, <2>1, <2>2, Zenon DEF WinOperation, WinFirst
    <3>2. \/ io'[o] = "pending" /\ stage'[o] = "none" /\ resolved'[o] = 0
          \/ /\ io'[o] = "none" /\ stage'[o] = "posted" /\ resolved'[o] = 1
             /\ value'[o] # "unknown"
      <4>1. Worked(o)
        BY <2>2, Zenon
      <4>2. CASE io'[o] = "pending" /\ stage'[o] = stage[o] /\ resolved'[o] = resolved[o]
        BY <3>1, <4>2, Zenon
      <4>3. CASE ResolvedNow(o)
        <5>1. io'[o] = "none" /\ stage'[o] = "posted" /\ resolved'[o] = resolved[o] + 1 /\ value'[o] # "unknown"
          BY <4>3, Zenon DEF ResolvedNow
        <5> QED  BY <3>1, <5>1
      <4> QED  BY <4>1, <4>2, <4>3, Zenon DEF Worked
    <3>3. /\ \A q \in WinOps : Earlier(q, o) /\ result[o] # "idle" => result[q] # "idle"
          /\ result[o] # "idle"
      BY <2>1, <2>2, <3>1, Zenon DEF WinOperation
    <3> QED  BY <2>2, <3>1, <3>2, <3>3, Zenon DEF WinOperation, Kind, Earlier
  <2>3. CASE ~(p = o /\ t \in Working) /\ Left(p)
    BY <1>5, <1>6, <2>1, <2>3, Zenon DEF WinOperation, Left, Kind, Earlier
  <2> QED  BY <1>7, <2>2, <2>3, Zenon
<1>9. ASSUME NEW p \in WinOps, res[p] # "unknown"  PROVE res'[p] # "unknown"
  BY <1>7, <1>9, Zenon DEF Left, Worked, ResolvedNow
<1>10. ASSUME NEW m \in Kinds, m # k, NEW i \in 1..Len(thread'[m])  PROVE WinTask(m, i)'
  <2>1. thread'[m] = thread[m] /\ i \in 1..Len(thread[m])
    BY <1>1, <1>10, Zenon
  <2>2. WinTask(m, i)
    BY <2>1, Zenon DEF WinInv
  <2>3. ASSUME NEW q \in WinOps, Kind(q) = m  PROVE Left(q)
    BY <1>4, <1>7, <1>10, <2>3, Zenon
  <2>4. \A p \in queue[m] : Kind(p) = m
    BY Zenon DEF WinInv
  <2> QED  BY <2>1, <2>2, <2>3, <2>4, WinTaskStays DEF Left
<1>11. ASSUME NEW i \in 1..Len(thread'[k])  PROVE WinTask(k, i)'
  <2> SUFFICES ASSUME NEW task \in Working \cup {"cancel"}, NEW q \in WinOps, thread'[k][i] = <<task, q>>
               PROVE  /\ Kind(q) = k
                      /\ task = "rest" => k = "read"
                      /\ task \in Working =>
                           /\ WinFirst(q)' /\ io'[q] = "none" /\ stage'[q] = "none"
                           /\ \A j \in 1..Len(thread'[k]) : thread'[k][j][1] \in Working => j = i
                      /\ task = "cancel" =>
                           /\ res'[q] # "unknown"
                           /\ \/ WinFirst(q)'
                              \/ \A p \in queue'[k] : WinFirst(p)' =>
                                   \E j \in (i + 1)..Len(thread'[k]) : thread'[k][j] = <<"start", p>>
    BY Zenon DEF WinTask, Kind
  <2>1. /\ i + 1 \in 1..Len(thread[k]) /\ i + 1 # 1
        /\ thread[k][i + 1] = <<task, q>>
    BY <1>1
  <2>2. WinTask(k, i + 1)
    BY <2>1, Zenon DEF WinInv
  <2>3. /\ Kind(q) = k
        /\ task = "rest" => k = "read"
    BY <2>1, <2>2, Zenon DEF WinTask
  <2>4. ASSUME task \in Working
        PROVE  /\ WinFirst(q)' /\ io'[q] = "none" /\ stage'[q] = "none"
               /\ \A j \in 1..Len(thread'[k]) : thread'[k][j][1] \in Working => j = i
    <3>1. /\ WinFirst(q) /\ io[q] = "none" /\ stage[q] = "none"
          /\ \A j \in 1..Len(thread[k]) : thread[k][j][1] \in Working => j = i + 1
      BY <2>1, <2>2, <2>4, Zenon DEF WinTask
    <3>2. t \notin Working
      BY <1>2, <1>3, <2>1, <3>1
    <3>3. Left(q)
      BY <1>7, <3>2, Zenon
    <3>4. ASSUME NEW j \in 1..Len(thread'[k]), thread'[k][j][1] \in Working  PROVE j = i
      <4>1. j + 1 \in 1..Len(thread[k]) /\ thread'[k][j] = thread[k][j + 1]
        BY <1>1
      <4> QED  BY <3>1, <3>4, <4>1
    <3> QED  BY <1>5, <3>1, <3>3, <3>4, Zenon DEF Left
  <2>5. ASSUME task = "cancel"
        PROVE  /\ res'[q] # "unknown"
               /\ \/ WinFirst(q)'
                  \/ \A p \in queue'[k] : WinFirst(p)' =>
                       \E j \in (i + 1)..Len(thread'[k]) : thread'[k][j] = <<"start", p>>
    <3>1. /\ res[q] # "unknown"
          /\ \/ WinFirst(q)
             \/ \A p \in queue[k] : WinFirst(p) =>
                  \E j \in (i + 1 + 1)..Len(thread[k]) : thread[k][j] = <<"start", p>>
      BY <2>1, <2>2, <2>5, Zenon DEF WinTask
    <3>2. ASSUME NEW p, NEW j \in (i + 1 + 1)..Len(thread[k]), thread[k][j] = <<"start", p>>
          PROVE  \E h \in (i + 1)..Len(thread'[k]) : thread'[k][h] = <<"start", p>>
      <4>1. j - 1 \in (i + 1)..Len(thread'[k]) /\ j - 1 \in 1..Len(thread'[k]) /\ j - 1 + 1 = j
        BY <1>1, <3>2
      <4>2. thread'[k][j - 1] = thread[k][j]
        BY <1>1, <4>1, Zenon
      <4> QED  BY <3>2, <4>1, <4>2, Zenon
    <3> QED  BY <1>5, <1>9, <3>1, <3>2, Zenon
  <2> QED  BY <2>3, <2>4, <2>5, Zenon
<1>12. \A m \in Kinds : \A q \in queue'[m] : Kind(q) = m
  BY Zenon DEF WinInv
<1>13. \A m \in Kinds : \A i \in 1..Len(thread'[m]) : WinTask(m, i)'
  BY <1>10, <1>11, Zenon
<1> QED  BY <1>8, <1>12, <1>13, Zenon DEF WinInv, Kind

\* resolve() of an operation that was not resolved.
LEMMA WinResolves ==
  ASSUME TypeOK, NEW o \in WinOps, NEW r \in Known, Resolve(o, r), resolved[o] = 0
  PROVE  /\ res' \in [WinOps -> {"unknown"} \cup Known]
         /\ resolved' \in [WinOps -> 0..2]
         /\ value' \in [WinOps -> {"unknown"} \cup Known]
         /\ stage' \in [WinOps -> {"none", "posted", "completing", "over"}]
         /\ res'[o] = r /\ value'[o] = r /\ resolved'[o] = 1 /\ stage'[o] = "posted"
         /\ res'[o] # "unknown" /\ value'[o] # "unknown"
         /\ \A p \in WinOps : p # o => /\ res'[p] = res[p] /\ value'[p] = value[p]
                                       /\ resolved'[p] = resolved[p] /\ stage'[p] = stage[p]
<1>1. /\ res \in [WinOps -> {"unknown"} \cup Known] /\ resolved \in [WinOps -> 0..2]
      /\ value \in [WinOps -> {"unknown"} \cup Known]
      /\ stage \in [WinOps -> {"none", "posted", "completing", "over"}]
  BY Zenon DEF TypeOK
<1>2. /\ res' = [res EXCEPT ![o] = r] /\ value' = [value EXCEPT ![o] = r]
      /\ resolved' = [resolved EXCEPT ![o] = 1] /\ stage' = [stage EXCEPT ![o] = "posted"]
  BY <1>1 DEF Resolve
<1>3. r # "unknown"
  BY Zenon DEF Known
<1> QED  BY <1>1, <1>2, <1>3

\* Results that are set if possible are known afterwards.
LEMMA WinSetIfPossible ==
  ASSUME NEW r \in {"unknown"} \cup Known
  PROVE  /\ SetFailedIfPossible(r) \in Known
         /\ SetTimeoutIfPossible(r) \in Known
BY Zenon DEF SetFailedIfPossible, SetTimeoutIfPossible, Known

\* start(): the I/O is pending, or the operation is resolved.
LEMMA WinStartsIo ==
  ASSUME WinInv, NEW o \in WinOps, StartIo(o), io[o] = "none", resolved[o] = 0
  PROVE  /\ io' \in [WinOps -> {"none", "pending"} \cup Completions]
         /\ chunks' \in [WinOps -> 0..MaxChunks]
         /\ res' \in [WinOps -> {"unknown"} \cup Known] /\ resolved' \in [WinOps -> 0..2]
         /\ value' \in [WinOps -> {"unknown"} \cup Known]
         /\ stage' \in [WinOps -> {"none", "posted", "completing", "over"}]
         /\ Worked(o)
         /\ \A p \in WinOps : p # o => Left(p)
<1>1. TypeOK
  BY Zenon DEF WinInv
<1>2. ASSUME NEW p \in WinOps  PROVE io[p] = "aborted" => res[p] # "unknown"
  BY Zenon DEF WinInv, WinOperation
<1>3. CASE /\ io' = [io EXCEPT ![o] = "pending"] /\ NotResolved
           /\ \E n \in chunks[o]..(IF Kind(o) = "read" THEN MaxChunks - 1 ELSE chunks[o]) :
                chunks' = [chunks EXCEPT ![o] = n]
  <2>1. chunks \in [WinOps -> 0..MaxChunks] /\ io \in [WinOps -> {"none", "pending"} \cup Completions]
    BY <1>1, Zenon DEF TypeOK
  <2>2. PICK n \in chunks[o]..(IF Kind(o) = "read" THEN MaxChunks - 1 ELSE chunks[o]) :
          chunks' = [chunks EXCEPT ![o] = n]
    BY <1>3, Zenon
  <2>3. n \in 0..MaxChunks
    BY <2>1, <2>2, WinNames
  <2>4. chunks' \in [WinOps -> 0..MaxChunks]
    BY <2>1, <2>2, <2>3, Zenon
  <2>5. UNCHANGED <<res, resolved, value, stage>>
    BY <1>3, Zenon DEF NotResolved
  <2>6. /\ io' \in [WinOps -> {"none", "pending"} \cup Completions]
        /\ io'[o] = "pending" /\ \A p \in WinOps : p # o => io'[p] = io[p]
    BY <1>3, <2>1, Zenon
  <2> QED  BY <1>1, <1>2, <2>4, <2>5, <2>6, Zenon DEF TypeOK, Worked, Left
<1>4. CASE Resolve(o, SetFailedIfPossible(res[o])) /\ UNCHANGED <<io, chunks>>
  <2>1. PICK r \in Known : r = SetFailedIfPossible(res[o])
    BY <1>1, WinSetIfPossible, Zenon DEF TypeOK
  <2>2. Resolve(o, r)
    BY <1>4, <2>1, Zenon
  <2>3. /\ io' \in [WinOps -> {"none", "pending"} \cup Completions]
        /\ chunks' \in [WinOps -> 0..MaxChunks]
    BY <1>1, <1>4, Zenon DEF TypeOK
  <2>4. Worked(o)
    BY <1>1, <1>4, <2>2, WinResolves DEF Worked, ResolvedNow
  <2>5. ASSUME NEW p \in WinOps, p # o  PROVE Left(p)
    BY <1>1, <1>2, <1>4, <2>2, <2>5, WinResolves DEF Left
  <2> QED  BY <1>1, <2>2, <2>3, <2>4, <2>5, WinResolves, Zenon
<1> QED  BY <1>3, <1>4, Zenon DEF StartIo

\* What the thread of a kind finds first.
LEMMA WinNextTask ==
  ASSUME WinInv, NEW k \in Kinds, NEW t \in Working \cup {"cancel"}, NextTask(k, t)
  PROVE  \E o \in WinOps :
           /\ thread[k] # <<>> /\ thread[k][1] = <<t, o>> /\ Head(thread[k])[2] = o
           /\ Kind(o) = k
           /\ t \in Working => io[o] = "none" /\ stage[o] = "none" /\ resolved[o] = 0
           /\ t = "cancel" => \A p \in WinOps : io[p] = "pending" /\ Kind(p) = k => res[p] # "unknown"
<1>1. PICK s \in Seq({"start", "rest", "cancel"} \X WinOps) : s = thread[k]
  BY Zenon DEF WinInv, TypeOK
<1>2. s # <<>> /\ Head(s)[1] = t /\ Head(s) = s[1] /\ 1 \in 1..Len(s) /\ s[1] \in {"start", "rest", "cancel"} \X WinOps
  BY <1>1 DEF NextTask
<1>3. PICK o \in WinOps : s[1] = <<t, o>> /\ Head(s)[2] = o
  BY <1>2
<1>4. WinTask(k, 1)
  BY <1>1, <1>2, Zenon DEF WinInv
<1>5. Kind(o) = k
  BY <1>1, <1>3, <1>4, Zenon DEF WinTask
<1>6. t \in Working => io[o] = "none" /\ stage[o] = "none" /\ resolved[o] = 0
  <2>1. WinOperation(o)
    BY Zenon DEF WinInv
  <2> QED  BY <1>1, <1>3, <1>4, <2>1, Zenon DEF WinTask, WinOperation
<1>7. ASSUME t = "cancel", NEW p \in WinOps, io[p] = "pending", Kind(p) = k  PROVE res[p] # "unknown"
  <2>1. WinFirst(p) /\ p \in queue[k]
    BY <1>7, Zenon DEF WinInv, WinOperation, WinFirst
  <2>2. CASE WinFirst(o)
    <3>1. o = p
      BY <1>5, <1>7, <2>1, <2>2, WinFirstIsUnique, Zenon
    <3> QED  BY <1>1, <1>3, <1>4, <1>7, <3>1, Zenon DEF WinTask
  <2>3. CASE ~WinFirst(o)
    <3>1. PICK j \in 2..Len(thread[k]) : thread[k][j] = <<"start", p>>
      BY <1>1, <1>3, <1>4, <1>7, <2>1, <2>3 DEF WinTask
    <3>2. WinTask(k, j)
      BY <1>1, <3>1 DEF WinInv
    <3>3. io[p] = "none"
      BY <3>1, <3>2, Zenon DEF WinTask, Working
    <3> QED  BY <1>7, <3>3, Zenon
  <2> QED  BY <2>2, <2>3, Zenon
<1> QED  BY <1>1, <1>2, <1>3, <1>5, <1>6, <1>7, Zenon

\* The tasks of the I/O threads keep the invariant.
LEMMA WinRunsTask ==
  ASSUME WinInv, NEW k \in Kinds,
         RunStart(k) \/ RunCancel(k) \/ (k = "read" /\ RunRest)
  PROVE  WinInv'
<1>1. TypeOK
  BY Zenon DEF WinInv
<1>2. /\ TaskDone(k) /\ UNCHANGED <<open, callback, queue, result, timed>>
  BY Zenon DEF RunStart, RunCancel, RunRest
<1>3. ASSUME NEW t \in Working, NextTask(k, t), NEW o \in WinOps, Head(thread[k])[2] = o,
             StartIo(o) \/ (res[o] # "unknown" /\ Resolve(o, res[o]) /\ UNCHANGED <<io, chunks>>)
      PROVE  WinInv'
  <2>1. /\ thread[k] # <<>> /\ thread[k][1] = <<t, o>>
        /\ io[o] = "none" /\ stage[o] = "none" /\ resolved[o] = 0
    BY <1>3, WinNextTask, Zenon
  <2>2. /\ io' \in [WinOps -> {"none", "pending"} \cup Completions]
        /\ chunks' \in [WinOps -> 0..MaxChunks]
        /\ res' \in [WinOps -> {"unknown"} \cup Known] /\ resolved' \in [WinOps -> 0..2]
        /\ value' \in [WinOps -> {"unknown"} \cup Known]
        /\ stage' \in [WinOps -> {"none", "posted", "completing", "over"}]
        /\ Worked(o)
        /\ \A p \in WinOps : p # o => Left(p)
    <3>1. CASE StartIo(o)
      BY <2>1, <3>1, WinStartsIo, Zenon
    <3>2. CASE res[o] # "unknown" /\ Resolve(o, res[o]) /\ UNCHANGED <<io, chunks>>
      <4>1. PICK r \in Known : r = res[o]
        BY <1>1, <3>2, Zenon DEF TypeOK
      <4>2. Resolve(o, r)
        BY <3>2, <4>1, Zenon
      <4>3. Worked(o)
        BY <1>1, <2>1, <3>2, <4>2, WinResolves DEF Worked, ResolvedNow
      <4>4. ASSUME NEW p \in WinOps, p # o  PROVE Left(p)
        <5>1. io[p] = "aborted" => res[p] # "unknown"
          BY Zenon DEF WinInv, WinOperation
        <5> QED  BY <1>1, <2>1, <3>2, <4>2, <4>4, <5>1, WinResolves DEF Left
      <4>5. /\ io' \in [WinOps -> {"none", "pending"} \cup Completions]
            /\ chunks' \in [WinOps -> 0..MaxChunks]
        BY <1>1, <3>2, Zenon DEF TypeOK
      <4> QED  BY <1>1, <2>1, <4>2, <4>3, <4>4, <4>5, WinResolves, Zenon
    <3> QED  BY <1>3, <3>1, <3>2, Zenon
  <2>3. TypeOK'
    BY <1>1, <1>2, <2>1, <2>2, WinTail, Zenon DEF TypeOK, Known, Completions
  <2>4. \A p \in WinOps : \/ p = thread[k][1][2] /\ thread[k][1][1] \in Working /\ Worked(p)
                          \/ ~(p = thread[k][1][2] /\ thread[k][1][1] \in Working) /\ Left(p)
    BY <1>3, <2>1, <2>2
  <2> QED  BY <1>2, <2>1, <2>3, <2>4, WinTaskKeeps, Zenon
<1>4. CASE RunStart(k)
  <2>1. NextTask(k, "start") /\ "start" \in Working
    BY <1>4, Zenon DEF RunStart, Working
  <2>2. PICK o \in WinOps : Head(thread[k])[2] = o
    BY <2>1, WinNextTask, Zenon
  <2>3. StartIo(o) \/ (res[o] # "unknown" /\ Resolve(o, res[o]) /\ UNCHANGED <<io, chunks>>)
    BY <1>4, <2>2, Zenon DEF RunStart
  <2> QED  BY <1>3, <2>1, <2>2, <2>3, Zenon
<1>5. CASE k = "read" /\ RunRest
  <2>1. NextTask(k, "rest") /\ "rest" \in Working
    BY <1>5, Zenon DEF RunRest, Working
  <2>2. PICK o \in WinOps : Head(thread[k])[2] = o
    BY <2>1, WinNextTask, Zenon
  <2>3. StartIo(o)
    BY <1>5, <2>2, Zenon DEF RunRest
  <2> QED  BY <1>3, <2>1, <2>2, <2>3, Zenon
<1>6. CASE RunCancel(k)
  <2>1. NextTask(k, "cancel") /\ "cancel" \in Working \cup {"cancel"} /\ "cancel" \notin Working
    BY <1>6, Zenon DEF RunCancel, Working
  <2>2. PICK o \in WinOps :
          /\ thread[k] # <<>> /\ thread[k][1] = <<"cancel", o>> /\ Head(thread[k])[2] = o
          /\ \A p \in WinOps : io[p] = "pending" /\ Kind(p) = k => res[p] # "unknown"
    BY <2>1, WinNextTask, Zenon
  <2>3. UNCHANGED <<chunks, res, resolved, value, stage>>
    BY <1>6, Zenon DEF RunCancel, NotResolved
  <2>4. /\ io' = [p \in WinOps |-> io'[p]]
        /\ \A p \in WinOps : \/ io'[p] = io[p]
                             \/ Kind(p) = k /\ io[p] = "pending" /\ io'[p] = "aborted"
    BY <1>6, Zenon DEF RunCancel
  <2>5. ASSUME NEW p \in WinOps  PROVE Left(p)
    <3>1. io[p] = "aborted" => res[p] # "unknown"
      BY Zenon DEF WinInv, WinOperation
    <3>2. io'[p] = io[p] \/ (io[p] = "pending" /\ io'[p] = "aborted" /\ res[p] # "unknown")
      BY <2>2, <2>4, Zenon
    <3> QED  BY <2>3, <3>1, <3>2, Zenon DEF Left
  <2>6. io' \in [WinOps -> {"none", "pending"} \cup Completions]
    <3>1. \A p \in WinOps : io'[p] \in {"none", "pending"} \cup Completions
      BY <1>1, <2>4, Zenon DEF TypeOK, Completions
    <3> QED  BY <2>4, <3>1, Zenon
  <2>7. TypeOK'
    BY <1>1, <1>2, <2>2, <2>3, <2>6, WinTail, Zenon DEF TypeOK, Known, Completions
  <2>8. \A p \in WinOps : \/ p = thread[k][1][2] /\ thread[k][1][1] \in Working /\ Worked(p)
                          \/ ~(p = thread[k][1][2] /\ thread[k][1][1] \in Working) /\ Left(p)
    BY <2>1, <2>2, <2>5
  <2> QED  BY <1>2, <2>2, <2>7, <2>8, WinTaskKeeps, Zenon
<1> QED  BY <1>4, <1>5, <1>6, Zenon

\* The tasks of a thread when one is posted to it.
LEMMA WinAppend ==
  ASSUME TypeOK, NEW k \in Kinds, NEW task \in {"start", "rest", "cancel"}, NEW o \in WinOps,
         Post(k, task, o)
  PROVE  /\ thread' \in [Kinds -> Seq({"start", "rest", "cancel"} \X WinOps)]
         /\ \A m \in Kinds : m # k => thread'[m] = thread[m]
         /\ Len(thread[k]) \in Nat /\ Len(thread'[k]) = Len(thread[k]) + 1
         /\ \A i \in 1..Len(thread[k]) : thread'[k][i] = thread[k][i]
         /\ thread'[k][Len(thread[k]) + 1] = <<task, o>>
<1>1. PICK s \in Seq({"start", "rest", "cancel"} \X WinOps) : s = thread[k]
  BY Zenon DEF TypeOK
<1>2. PICK t \in {"start", "rest", "cancel"} \X WinOps : t = <<task, o>>
  BY Zenon
<1>3. /\ Append(s, t) \in Seq({"start", "rest", "cancel"} \X WinOps)
      /\ Len(s) \in Nat /\ Len(Append(s, t)) = Len(s) + 1
      /\ \A i \in 1..Len(s) : Append(s, t)[i] = s[i]
      /\ Append(s, t)[Len(s) + 1] = t
  OBVIOUS
<1>4. thread' = [thread EXCEPT ![k] = Append(s, t)]
  BY <1>1, <1>2, Zenon DEF Post
<1>5. thread \in [Kinds -> Seq({"start", "rest", "cancel"} \X WinOps)]
  BY Zenon DEF TypeOK
<1>6. thread'[k] = Append(s, t) /\ \A m \in Kinds : m # k => thread'[m] = thread[m]
  BY <1>4, <1>5, Zenon
<1>7. thread' \in [Kinds -> Seq({"start", "rest", "cancel"} \X WinOps)]
  BY <1>3, <1>4, <1>5, Zenon
<1> QED  BY <1>1, <1>2, <1>3, <1>6, <1>7, Zenon

\* Tasks stay posted when another one is.
LEMMA WinStaysTasked ==
  ASSUME TypeOK, NEW k \in Kinds, NEW task \in {"start", "rest", "cancel"}, NEW o \in WinOps,
         Post(k, task, o) \/ UNCHANGED thread, NEW p \in WinOps, WinTasked(p)
  PROVE  WinTasked(p)'
<1>1. PICK i \in 1..Len(thread[Kind(p)]), t \in Working : thread[Kind(p)][i] = <<t, p>>
  BY Zenon DEF WinTasked
<1>2. PICK m \in Kinds : m = Kind(p)
  BY WinOrder, Zenon
<1>3. i \in 1..Len(thread'[m]) /\ thread'[m][i] = <<t, p>>
  <2>1. CASE m = k /\ Post(k, task, o)
    BY <1>1, <1>2, <2>1, WinAppend
  <2>2. CASE m # k /\ Post(k, task, o)
    BY <1>1, <1>2, <2>2, WinAppend, Zenon
  <2> QED  BY <1>1, <1>2, <2>1, <2>2, Zenon
<1> QED  BY <1>2, <1>3, Zenon DEF WinTasked, Kind

\* Who was told by a task to work, before the step
NobodyWorks(k) == \A i \in 1..Len(thread[k]) : thread[k][i][1] \notin Working

\* A task that is posted for the oldest operation keeps what is known of the tasks: nothing
\* else works on it, and what a cancel before it was for is the oldest still or comes before.
LEMMA WinPosts ==
  ASSUME WinInv, NEW k \in Kinds, NEW task \in Working \cup {"cancel"}, NEW o \in WinOps, Post(k, task, o),
         Kind(o) = k, WinFirst(o)',
         \A p \in queue'[k] : p \in WinOps /\ Kind(p) = k,
         \A p \in WinOps :
           /\ io[p] = "none" /\ stage[p] = "none" => io'[p] = "none" /\ stage'[p] = "none"
           /\ res[p] # "unknown" => res'[p] # "unknown",
         task = "rest" => k = "read",
         task \in Working => NobodyWorks(k) /\ io'[o] = "none" /\ stage'[o] = "none",
         task = "cancel" => res'[o] # "unknown",
         queue'[k] = queue[k] \/ task = "start",
         NEW i \in 1..Len(thread'[k])
  PROVE  WinTask(k, i)'
<1>0. TypeOK
  BY Zenon DEF WinInv
<1>1. task \in {"start", "rest", "cancel"}
  BY Zenon DEF Working
<1>2. /\ Len(thread[k]) \in Nat /\ Len(thread'[k]) = Len(thread[k]) + 1
      /\ \A j \in 1..Len(thread[k]) : thread'[k][j] = thread[k][j]
      /\ thread'[k][Len(thread[k]) + 1] = <<task, o>>
  BY <1>0, <1>1, WinAppend, Zenon
<1>3. SUFFICES ASSUME NEW t \in Working \cup {"cancel"}, NEW q \in WinOps, thread'[k][i] = <<t, q>>
               PROVE  /\ Kind(q) = k
                      /\ t = "rest" => k = "read"
                      /\ t \in Working =>
                           /\ WinFirst(q)' /\ io'[q] = "none" /\ stage'[q] = "none"
                           /\ \A j \in 1..Len(thread'[k]) : thread'[k][j][1] \in Working => j = i
                      /\ t = "cancel" =>
                           /\ res'[q] # "unknown"
                           /\ \/ WinFirst(q)'
                              \/ \A p \in queue'[k] : WinFirst(p)' =>
                                   \E j \in (i + 1)..Len(thread'[k]) : thread'[k][j] = <<"start", p>>
  BY Zenon DEF WinTask, Kind
<1>4. CASE i = Len(thread[k]) + 1
  <2>1. t = task /\ q = o
    BY <1>2, <1>3, <1>4
  <2>2. ASSUME task \in Working, NEW j \in 1..Len(thread'[k]), thread'[k][j][1] \in Working  PROVE j = i
    <3>1. j \notin 1..Len(thread[k])
      BY <1>2, <2>2, Zenon DEF NobodyWorks
    <3> QED  BY <1>2, <1>4, <3>1
  <2> QED  BY <2>1, <2>2, Zenon DEF Working
<1>5. CASE i \in 1..Len(thread[k])
  <2>1. thread[k][i] = <<t, q>> /\ WinTask(k, i)
    BY <1>2, <1>3, <1>5, Zenon DEF WinInv
  <2>2. Kind(q) = k /\ (t = "rest" => k = "read")
    BY <2>1, Zenon DEF WinTask
  <2>3. ASSUME t \in Working
        PROVE  /\ WinFirst(q)' /\ io'[q] = "none" /\ stage'[q] = "none"
               /\ \A j \in 1..Len(thread'[k]) : thread'[k][j][1] \in Working => j = i
    <3>1. /\ WinFirst(q) /\ io[q] = "none" /\ stage[q] = "none"
          /\ \A j \in 1..Len(thread[k]) : thread[k][j][1] \in Working => j = i
      BY <2>1, <2>3, Zenon DEF WinTask
    <3>2. task = "cancel" /\ task \notin Working
      BY <1>5, <2>1, <2>3 DEF NobodyWorks, Working
    <3>3. WinFirst(q)'
      <4>1. queue'[k] = queue[k]
        BY <3>2, Zenon
      <4> QED  BY <2>2, <3>1, <4>1, WinFirstStays, Zenon
    <3>4. ASSUME NEW j \in 1..Len(thread'[k]), thread'[k][j][1] \in Working  PROVE j = i
      <4>1. j # Len(thread[k]) + 1
        BY <1>2, <3>2, <3>4
      <4>2. j \in 1..Len(thread[k]) /\ thread[k][j] = thread'[k][j]
        BY <1>2, <4>1
      <4> QED  BY <3>1, <3>4, <4>2, Zenon
    <3> QED  BY <3>1, <3>3, <3>4, Zenon
  <2>4. ASSUME t = "cancel"
        PROVE  /\ res'[q] # "unknown"
               /\ \/ WinFirst(q)'
                  \/ \A p \in queue'[k] : WinFirst(p)' =>
                       \E j \in (i + 1)..Len(thread'[k]) : thread'[k][j] = <<"start", p>>
    <3>1. /\ res[q] # "unknown"
          /\ \/ WinFirst(q)
             \/ \A p \in queue[k] : WinFirst(p) =>
                  \E j \in (i + 1)..Len(thread[k]) : thread[k][j] = <<"start", p>>
      BY <2>1, <2>4, Zenon DEF WinTask
    <3>2. CASE task = "start"
      <4>1. ASSUME NEW p \in queue'[k], WinFirst(p)'  PROVE p = o
        <5>1. p \in WinOps /\ Kind(p) = k
          BY Zenon
        <5> QED  BY <4>1, <5>1, WinOrder, Zenon DEF WinFirst, Kind, Earlier
      <4>2. Len(thread[k]) + 1 \in (i + 1)..Len(thread'[k])
        BY <1>2, <1>5
      <4> QED  BY <1>2, <3>1, <3>2, <4>1, <4>2
    <3>3. CASE queue'[k] = queue[k]
      <4>1. \A p \in WinOps : Kind(p) = k => (WinFirst(p)' <=> WinFirst(p))
        BY <3>3, WinFirstStays, Zenon
      <4>2. ASSUME NEW p, NEW j \in (i + 1)..Len(thread[k]), thread[k][j] = <<"start", p>>
            PROVE  \E h \in (i + 1)..Len(thread'[k]) : thread'[k][h] = <<"start", p>>
        <5>1. PICK n \in Nat : n = Len(thread[k]) /\ Len(thread'[k]) = n + 1
          BY <1>2, Zenon
        <5>2. i \in 1..n /\ j \in (i + 1)..n
          BY <1>5, <5>1, Zenon
        <5>3. j \in (i + 1)..(n + 1) /\ j \in 1..n
          BY <5>2
        <5> QED  BY <1>2, <4>2, <5>1, <5>3, Zenon
      <4>3. ASSUME ~WinFirst(q), NEW p \in queue'[k], WinFirst(p)'
            PROVE  \E h \in (i + 1)..Len(thread'[k]) : thread'[k][h] = <<"start", p>>
        BY <3>1, <3>3, <4>1, <4>2, <4>3, Zenon
      <4> QED  BY <2>2, <3>1, <4>1, <4>3, Zenon
    <3> QED  BY <3>2, <3>3, Zenon
  <2> QED  BY <2>2, <2>3, <2>4, Zenon
<1>6. i = Len(thread[k]) + 1 \/ i \in 1..Len(thread[k])
  BY <1>2
<1> QED  BY <1>4, <1>5, <1>6, Zenon

\* No task works on a list whose oldest operation is in the kernel or resolved.
LEMMA WinNobodyWorks ==
  ASSUME WinInv, NEW k \in Kinds,
         \A q \in queue[k] : WinFirst(q) => io[q] # "none" \/ stage[q] # "none"
  PROVE  NobodyWorks(k)
<1> SUFFICES ASSUME NEW i \in 1..Len(thread[k]), thread[k][i][1] \in Working  PROVE FALSE
  BY Zenon DEF NobodyWorks
<1>1. thread[k][i] \in {"start", "rest", "cancel"} \X WinOps /\ WinTask(k, i)
  BY DEF WinInv, TypeOK
<1>2. PICK t \in {"start", "rest", "cancel"}, q \in WinOps : thread[k][i] = <<t, q>>
  BY <1>1
<1>3. t \in Working
  BY <1>2
<1>4. Kind(q) = k /\ WinFirst(q) /\ io[q] = "none" /\ stage[q] = "none"
  BY <1>1, <1>2, <1>3, Zenon DEF WinTask
<1>5. q \in queue[k]
  BY <1>4, Zenon DEF WinFirst
<1> QED  BY <1>4, <1>5, Zenon

\* An operation of which a step changes nothing, and whose list and tasks it leaves alone or
\* only adds to, stays as the invariant says.
LEMMA WinOperationStays ==
  ASSUME NEW p \in WinOps, WinOperation(p),
         WinFirst(p)' <=> WinFirst(p),
         p \in queue'[Kind(p)] <=> p \in queue[Kind(p)],
         WinTasked(p) => WinTasked(p)',
         io'[p] = io[p], stage'[p] = stage[p], resolved'[p] = resolved[p],
         value'[p] = value[p], res[p] # "unknown" => res'[p] # "unknown",
         result'[p] = result[p],
         \A q \in WinOps : result[q] # "idle" => result'[q] # "idle"
  PROVE  WinOperation(p)'
<1>1. \A q \in WinOps : Earlier(q, p) /\ result'[p] # "idle" => result'[q] # "idle"
  BY Zenon DEF WinOperation
<1>2. /\ result'[p] = "idle" => p \notin queue'[Kind(p)] /\ stage'[p] = "none"
      /\ result'[p] = "pending" =>
           p \in queue'[Kind(p)] \/ stage'[p] \in {"posted", "completing"}
  BY Zenon DEF WinOperation
<1>3. /\ io'[p] # "none" => WinFirst(p)' /\ stage'[p] = "none"
      /\ p \in queue'[Kind(p)] /\ stage'[p] # "none" => WinFirst(p)' /\ stage'[p] # "over"
      /\ WinFirst(p)' => WinTasked(p)' \/ io'[p] # "none" \/ stage'[p] # "none"
  BY Zenon DEF WinOperation
<1>4. /\ IF stage'[p] = "none" THEN resolved'[p] = 0
         ELSE resolved'[p] = 1 /\ value'[p] # "unknown"
      /\ io'[p] = "aborted" => res'[p] # "unknown"
      /\ io'[p] = "more_data" => Kind(p) = "read"
  BY Zenon DEF WinOperation
<1> QED  BY <1>1, <1>2, <1>3, <1>4, Zenon DEF WinOperation, Kind, Earlier

\* A completion is taken from the port: the read goes on, or the operation is resolved.
LEMMA WinWorkerKeeps ==
  ASSUME WinInv, NEW o \in WinOps, WorkerTakes(o)
  PROVE  WinInv'
<1>1. TypeOK /\ WinOperation(o)
  BY Zenon DEF WinInv
<1>2. /\ io[o] \in Completions /\ io' = [io EXCEPT ![o] = "none"]
      /\ UNCHANGED <<open, callback, queue, result, timed>>
  BY Zenon DEF WorkerTakes
<1>3. /\ io' \in [WinOps -> {"none", "pending"} \cup Completions] /\ io'[o] = "none"
      /\ \A p \in WinOps : p # o => io'[p] = io[p]
  BY <1>1, <1>2, Zenon DEF TypeOK
<1>4. /\ io[o] # "none" /\ WinFirst(o) /\ stage[o] = "none" /\ resolved[o] = 0
      /\ o \in queue[Kind(o)]
      /\ io[o] = "aborted" => res[o] # "unknown"
      /\ io[o] = "more_data" => Kind(o) = "read"
  BY <1>1, <1>2, Zenon DEF WinOperation, WinFirst, Completions
<1>5. \A p \in WinOps : WinFirst(p)' <=> WinFirst(p)
  BY <1>2, WinFirstStays, Zenon
<1>6. PICK k \in Kinds : k = Kind(o)
  BY WinOrder, Zenon
<1>7. NobodyWorks(k)
  <2>1. ASSUME NEW q \in queue[k], WinFirst(q)  PROVE io[q] # "none"
    <3>1. q \in WinOps /\ Kind(q) = k
      BY WinFirstIsOldest, Zenon
    <3>2. q = o
      BY <1>4, <1>6, <2>1, <3>1, WinFirstIsUnique, Zenon
    <3> QED  BY <1>4, <3>2, Zenon
  <2> QED  BY <2>1, WinNobodyWorks, Zenon
<1>8. \A m \in Kinds : \A p \in queue[m] : p \in WinOps /\ Kind(p) = m
  BY WinFirstIsOldest, Zenon
<1>9. CASE /\ chunks' = [chunks EXCEPT ![o] = chunks[o] + 1] /\ chunks[o] + 1 < MaxChunks
           /\ io[o] = "more_data" /\ Post("read", "rest", o) /\ NotResolved
  <2>1. UNCHANGED <<res, resolved, value, stage>> /\ k = "read"
    BY <1>4, <1>6, <1>9, Zenon DEF NotResolved
  <2>2. chunks' \in [WinOps -> 0..MaxChunks]
    <3>1. chunks \in [WinOps -> 0..MaxChunks]
      BY <1>1, Zenon DEF TypeOK
    <3>2. chunks[o] + 1 \in 0..MaxChunks
      BY <1>9, <3>1, WinNames
    <3> QED  BY <1>9, <3>1, <3>2, Zenon
  <2>3. "rest" \in {"start", "rest", "cancel"} /\ "rest" \in Working /\ "rest" # "cancel" /\ Post(k, "rest", o)
    BY <1>9, <2>1, Zenon DEF Working
  <2>4. /\ thread' \in [Kinds -> Seq({"start", "rest", "cancel"} \X WinOps)]
        /\ \A m \in Kinds : m # k => thread'[m] = thread[m]
        /\ Len(thread[k]) \in Nat /\ Len(thread'[k]) = Len(thread[k]) + 1
        /\ thread'[k][Len(thread[k]) + 1] = <<"rest", o>>
    BY <1>1, <2>3, WinAppend, Zenon
  <2>5. TypeOK'
    BY <1>1, <1>2, <1>3, <2>1, <2>2, <2>4, Zenon DEF TypeOK, Known, Completions
  <2>6. ASSUME NEW p \in WinOps  PROVE WinOperation(p)'
    <3>1. WinOperation(p)
      BY Zenon DEF WinInv
    <3>2. CASE p # o
      <4>1. WinTasked(p) => WinTasked(p)'
        BY <1>1, <2>3, WinStaysTasked, Zenon
      <4> QED  BY <1>2, <1>3, <1>5, <2>1, <3>1, <3>2, <4>1, WinOperationStays, Zenon
    <3>3. CASE p = o
      <4>1. WinTasked(o)'
        <5>1. Len(thread[k]) + 1 \in 1..Len(thread'[k])
          BY <2>4
        <5> QED  BY <1>6, <2>3, <2>4, <5>1, Zenon DEF WinTasked, Kind
      <4>2. WinFirst(o)'
        BY <1>4, <1>5, Zenon
      <4>3. /\ \A q \in WinOps : Earlier(q, o) /\ result[o] # "idle" => result[q] # "idle"
            /\ result[o] # "idle"
        BY <1>1, <1>4, Zenon DEF WinOperation
      <4> QED  BY <1>2, <1>3, <1>4, <2>1, <3>3, <4>1, <4>2, <4>3, Zenon DEF WinOperation, Kind, Earlier
    <3> QED  BY <3>2, <3>3, Zenon
  <2>7. ASSUME NEW m \in Kinds, NEW i \in 1..Len(thread'[m])  PROVE WinTask(m, i)'
    <3>1. \A p \in WinOps : /\ io[p] = "none" /\ stage[p] = "none" => io'[p] = "none" /\ stage'[p] = "none"
                            /\ res[p] # "unknown" => res'[p] # "unknown"
      BY <1>3, <2>1, Zenon
    <3>2. CASE m = k
      <4>1. /\ queue'[k] = queue[k] /\ WinFirst(o)'
            /\ \A p \in queue'[k] : p \in WinOps /\ Kind(p) = k
        BY <1>2, <1>4, <1>5, <1>8, Zenon
      <4> QED  BY <1>3, <1>4, <1>6, <1>7, <2>1, <2>3, <3>1, <3>2, <4>1, WinPosts, Zenon
    <3>3. CASE m # k
      <4>1. thread'[m] = thread[m] /\ WinTask(m, i)
        BY <2>4, <3>3, Zenon DEF WinInv
      <4> QED  BY <1>2, <1>8, <3>1, <4>1, WinTaskStays, Zenon
    <3> QED  BY <3>2, <3>3, Zenon
  <2> QED  BY <1>2, <1>8, <2>5, <2>6, <2>7, Zenon DEF WinInv, Kind
<1>10. CASE Resolve(o, Outcome(o, io[o])) /\ UNCHANGED <<chunks, thread>>
  <2>1. PICK r \in Known : r = Outcome(o, io[o])
    BY <1>1, <1>2, <1>4, WinSetIfPossible, Zenon DEF Outcome, TypeOK, Known
  <2>2. Resolve(o, r)
    BY <1>10, <2>1, Zenon
  <2>3. /\ res' \in [WinOps -> {"unknown"} \cup Known]
        /\ resolved' \in [WinOps -> 0..2]
        /\ value' \in [WinOps -> {"unknown"} \cup Known]
        /\ stage' \in [WinOps -> {"none", "posted", "completing", "over"}]
        /\ resolved'[o] = 1 /\ stage'[o] = "posted" /\ res'[o] # "unknown" /\ value'[o] # "unknown"
        /\ \A p \in WinOps : p # o => /\ res'[p] = res[p] /\ value'[p] = value[p]
                                      /\ resolved'[p] = resolved[p] /\ stage'[p] = stage[p]
    BY <1>1, <1>4, <2>2, WinResolves, Zenon
  <2>4. TypeOK'
    BY <1>1, <1>2, <1>3, <1>10, <2>3, Zenon DEF TypeOK, Known, Completions
  <2>5. ASSUME NEW p \in WinOps  PROVE WinOperation(p)'
    <3>1. WinOperation(p)
      BY Zenon DEF WinInv
    <3>2. CASE p # o
      <4>1. WinTasked(p) => WinTasked(p)'
        BY <1>10, Zenon DEF WinTasked, Kind
      <4> QED  BY <1>2, <1>3, <1>5, <2>3, <3>1, <3>2, <4>1, WinOperationStays, Zenon
    <3>3. CASE p = o
      <4>1. WinFirst(o)'
        BY <1>4, <1>5, Zenon
      <4>2. /\ \A q \in WinOps : Earlier(q, o) /\ result[o] # "idle" => result[q] # "idle"
            /\ result[o] # "idle"
        BY <1>1, <1>4, Zenon DEF WinOperation
      <4> QED  BY <1>2, <1>3, <1>4, <2>3, <3>3, <4>1, <4>2, Zenon DEF WinOperation, Kind, Earlier
    <3> QED  BY <3>2, <3>3, Zenon
  <2>6. ASSUME NEW m \in Kinds, NEW i \in 1..Len(thread'[m])  PROVE WinTask(m, i)'
    <3>1. WinTask(m, i) /\ thread'[m] = thread[m]
      BY <1>10, Zenon DEF WinInv
    <3>2. CASE m = k
      <4>1. ASSUME NEW t \in Working \cup {"cancel"}, NEW q \in WinOps, thread[k][i] = <<t, q>>
            PROVE  t = "cancel" /\ t \notin Working
        <5>1. i \in 1..Len(thread[k])
          BY <3>1, <3>2, Zenon
        <5> QED  BY <1>7, <4>1, <5>1 DEF NobodyWorks, Working
      <4>2. \A q \in WinOps : res[q] # "unknown" => res'[q] # "unknown"
        BY <2>3, Zenon
      <4>3. SUFFICES ASSUME NEW t \in Working \cup {"cancel"}, NEW q \in WinOps, thread'[k][i] = <<t, q>>
                     PROVE  /\ Kind(q) = k /\ t = "cancel" /\ t \notin Working /\ res'[q] # "unknown"
                            /\ \/ WinFirst(q)'
                               \/ \A p \in queue'[k] : WinFirst(p)' =>
                                    \E j \in (i + 1)..Len(thread'[k]) : thread'[k][j] = <<"start", p>>
        BY <3>2, Zenon DEF WinTask, Kind
      <4>4. thread[k][i] = <<t, q>>
        BY <3>1, <3>2, <4>3, Zenon
      <4>5. t = "cancel" /\ t \notin Working
        BY <4>1, <4>4, Zenon
      <4>6. /\ Kind(q) = k /\ res[q] # "unknown"
            /\ \/ WinFirst(q)
               \/ \A p \in queue[k] : WinFirst(p) =>
                    \E j \in (i + 1)..Len(thread[k]) : thread[k][j] = <<"start", p>>
        BY <3>1, <3>2, <4>4, <4>5, Zenon DEF WinTask
      <4>7. ASSUME NEW p \in queue'[k], WinFirst(p)', ~ WinFirst(q)
            PROVE  \E j \in (i + 1)..Len(thread'[k]) : thread'[k][j] = <<"start", p>>
        <5>1. p \in queue[k] /\ WinFirst(p)
          BY <1>2, <1>5, <1>8, <4>7, Zenon
        <5> QED  BY <3>1, <3>2, <4>6, <4>7, <5>1, Zenon
      <4> QED  BY <1>5, <4>2, <4>5, <4>6, <4>7, Zenon
    <3>3. CASE m # k
      <4>1. \A p \in WinOps : Kind(p) = m =>
              /\ io[p] = "none" /\ stage[p] = "none" => io'[p] = "none" /\ stage'[p] = "none"
              /\ res[p] # "unknown" => res'[p] # "unknown"
        BY <1>3, <1>6, <2>3, <3>3, Zenon
      <4> QED  BY <1>2, <1>8, <3>1, <4>1, WinTaskStays, Zenon
    <3> QED  BY <3>2, <3>3, Zenon
  <2> QED  BY <1>2, <1>8, <2>4, <2>5, <2>6, Zenon DEF WinInv, Kind
<1>11. \/ /\ io[o] = "more_data" /\ chunks[o] + 1 < MaxChunks
          /\ chunks' = [chunks EXCEPT ![o] = chunks[o] + 1]
          /\ Post("read", "rest", o) /\ NotResolved
       \/ Resolve(o, Outcome(o, io[o])) /\ UNCHANGED <<chunks, thread>>
  BY Zenon DEF WorkerTakes
<1> QED  BY <1>9, <1>10, <1>11, Zenon

\* A step that leaves the tasks of a kind and the oldest of its list alone keeps what is known of
\* the tasks.
LEMMA WinTaskStaysFirst ==
  ASSUME NEW k \in Kinds, NEW i, WinTask(k, i), thread'[k] = thread[k],
         \A p \in queue'[k] : p \in WinOps /\ Kind(p) = k,
         \A p \in WinOps : Kind(p) = k =>
           /\ WinFirst(p)' <=> WinFirst(p)
           /\ WinFirst(p) => io'[p] = io[p] /\ stage'[p] = stage[p]
           /\ res[p] # "unknown" => res'[p] # "unknown"
  PROVE  WinTask(k, i)'
<1>1. SUFFICES ASSUME NEW t \in Working \cup {"cancel"}, NEW q \in WinOps, thread'[k][i] = <<t, q>>
               PROVE  /\ Kind(q) = k
                      /\ t = "rest" => k = "read"
                      /\ t \in Working =>
                           /\ WinFirst(q)' /\ io'[q] = "none" /\ stage'[q] = "none"
                           /\ \A j \in 1..Len(thread'[k]) : thread'[k][j][1] \in Working => j = i
                      /\ t = "cancel" =>
                           /\ res'[q] # "unknown"
                           /\ \/ WinFirst(q)'
                              \/ \A p \in queue'[k] : WinFirst(p)' =>
                                   \E j \in (i + 1)..Len(thread'[k]) : thread'[k][j] = <<"start", p>>
  BY Zenon DEF WinTask, Kind
<1>2. /\ Kind(q) = k
      /\ t = "rest" => k = "read"
      /\ t \in Working =>
           /\ WinFirst(q) /\ io[q] = "none" /\ stage[q] = "none"
           /\ \A j \in 1..Len(thread[k]) : thread[k][j][1] \in Working => j = i
      /\ t = "cancel" =>
           /\ res[q] # "unknown"
           /\ \/ WinFirst(q)
              \/ \A p \in queue[k] : WinFirst(p) =>
                   \E j \in (i + 1)..Len(thread[k]) : thread[k][j] = <<"start", p>>
  BY <1>1, Zenon DEF WinTask
<1>3. ASSUME t \in Working
      PROVE  /\ WinFirst(q)' /\ io'[q] = "none" /\ stage'[q] = "none"
             /\ \A j \in 1..Len(thread'[k]) : thread'[k][j][1] \in Working => j = i
  BY <1>2, <1>3, Zenon
<1>4. ASSUME t = "cancel", ~ WinFirst(q), NEW p \in queue'[k], WinFirst(p)'
      PROVE  \E j \in (i + 1)..Len(thread'[k]) : thread'[k][j] = <<"start", p>>
  <2>1. p \in WinOps /\ Kind(p) = k /\ WinFirst(p)
    BY <1>4, Zenon
  <2>2. p \in queue[k]
    BY <2>1, Zenon DEF WinFirst
  <2> QED  BY <1>2, <1>4, <2>1, <2>2, Zenon
<1> QED  BY <1>2, <1>3, <1>4, Zenon

\* A timer expires: the oldest operation gets its result and its thread is to cancel it, another
\* operation leaves the list and is resolved.
LEMMA WinTimeoutKeeps ==
  ASSUME WinInv, NEW o \in WinOps, Timeout(o)
  PROVE  WinInv'
<1>1. TypeOK /\ WinOperation(o)
  BY Zenon DEF WinInv
<1>2. PICK k \in Kinds : k = Kind(o)
  BY WinOrder, Zenon
<1>3. /\ o \in queue[k] /\ timed' = [timed EXCEPT ![o] = FALSE]
      /\ UNCHANGED <<open, callback, io, chunks, result>>
  BY <1>2, Zenon DEF Timeout
<1>4. /\ queue[k] \in SUBSET WinOps
      /\ \A p \in queue[k] : Kind(p) = k /\ (WinFirst(p) <=> p = Oldest(queue[k]))
  BY WinFirstIsOldest, Zenon
<1>5. \A m \in Kinds : \A p \in queue[m] : p \in WinOps /\ Kind(p) = m
  BY WinFirstIsOldest, Zenon
<1>6. timed' \in [WinOps -> BOOLEAN] /\ SetTimeoutIfPossible(res[o]) \in Known
  BY <1>1, <1>3, WinSetIfPossible, Zenon DEF TypeOK
<1>7. CASE /\ WinFirst(o) /\ res' = [res EXCEPT ![o] = SetTimeoutIfPossible(res[o])]
           /\ Post(k, "cancel", o)
           /\ UNCHANGED <<queue, resolved, value, stage>>
  <2>1. /\ res' \in [WinOps -> {"unknown"} \cup Known] /\ res'[o] # "unknown"
        /\ \A p \in WinOps : res[p] # "unknown" => res'[p] # "unknown"
    BY <1>1, <1>6, <1>7, Zenon DEF TypeOK, Known
  <2>2. /\ thread' \in [Kinds -> Seq({"start", "rest", "cancel"} \X WinOps)]
        /\ \A m \in Kinds : m # k => thread'[m] = thread[m]
    BY <1>1, <1>7, WinAppend, Zenon
  <2>3. TypeOK'
    BY <1>1, <1>3, <1>6, <1>7, <2>1, <2>2, Zenon DEF TypeOK, Known, Completions
  <2>4. \A p \in WinOps : WinFirst(p)' <=> WinFirst(p)
    BY <1>7, WinFirstStays, Zenon
  <2>5. ASSUME NEW p \in WinOps  PROVE WinOperation(p)'
    <3>1. WinOperation(p)
      BY Zenon DEF WinInv
    <3>2. WinTasked(p) => WinTasked(p)'
      BY <1>1, <1>7, WinStaysTasked, Zenon
    <3> QED  BY <1>3, <1>7, <2>1, <2>4, <3>1, <3>2, WinOperationStays, Zenon
  <2>6. ASSUME NEW m \in Kinds, NEW i \in 1..Len(thread'[m])  PROVE WinTask(m, i)'
    <3>1. \A p \in WinOps : /\ io[p] = "none" /\ stage[p] = "none" => io'[p] = "none" /\ stage'[p] = "none"
                            /\ res[p] # "unknown" => res'[p] # "unknown"
      BY <1>3, <1>7, <2>1, Zenon
    <3>2. CASE m = k
      <4>1. /\ queue'[k] = queue[k] /\ WinFirst(o)' /\ "cancel" \notin Working
            /\ \A p \in queue'[k] : p \in WinOps /\ Kind(p) = k
        BY <1>5, <1>7, <2>4, Zenon DEF Working
      <4> QED  BY <1>2, <1>7, <2>1, <3>1, <3>2, <4>1, WinPosts, Zenon
    <3>3. CASE m # k
      <4>1. thread'[m] = thread[m] /\ WinTask(m, i)
        BY <2>2, <3>3, Zenon DEF WinInv
      <4> QED  BY <1>5, <1>7, <3>1, <4>1, WinTaskStays, Zenon
    <3> QED  BY <3>2, <3>3, Zenon
  <2> QED  BY <1>5, <1>7, <2>3, <2>5, <2>6, Zenon DEF WinInv, Kind
<1>8. CASE /\ ~ WinFirst(o) /\ queue' = [queue EXCEPT ![k] = queue[k] \ {o}]
           /\ Resolve(o, SetTimeoutIfPossible(res[o])) /\ UNCHANGED thread
  <2>1. /\ queue' \in [Kinds -> SUBSET WinOps] /\ queue'[k] = queue[k] \ {o}
        /\ \A m \in Kinds : m # k => queue'[m] = queue[m]
    BY <1>1, <1>8, Zenon DEF TypeOK
  <2>2. io[o] = "none" /\ stage[o] = "none" /\ resolved[o] = 0 /\ result[o] # "idle"
    BY <1>1, <1>2, <1>3, <1>8, Zenon DEF WinOperation
  <2>3. /\ res' \in [WinOps -> {"unknown"} \cup Known]
        /\ resolved' \in [WinOps -> 0..2]
        /\ value' \in [WinOps -> {"unknown"} \cup Known]
        /\ stage' \in [WinOps -> {"none", "posted", "completing", "over"}]
        /\ resolved'[o] = 1 /\ stage'[o] = "posted" /\ res'[o] # "unknown" /\ value'[o] # "unknown"
        /\ \A p \in WinOps : p # o => /\ res'[p] = res[p] /\ value'[p] = value[p]
                                      /\ resolved'[p] = resolved[p] /\ stage'[p] = stage[p]
    BY <1>1, <1>6, <1>8, <2>2, WinResolves, Zenon
  <2>4. TypeOK'
    BY <1>1, <1>3, <1>6, <1>8, <2>1, <2>3, Zenon DEF TypeOK, Known, Completions
  <2>5. ASSUME NEW p \in WinOps  PROVE WinFirst(p)' <=> WinFirst(p)
    <3>1. CASE Kind(p) # k
      <4>1. queue'[Kind(p)] = queue[Kind(p)]
        BY <2>1, <3>1, WinOrder, Zenon
      <4> QED  BY <4>1, WinFirstStays, Zenon
    <3>2. CASE Kind(p) = k
      <4>1. PICK f \in queue[k] : f # o /\ WinFirst(f)
        BY <1>3, <1>4, <1>8, WinFirstIsOldest, Zenon
      <4>2. f \in queue'[k] /\ f \in WinOps /\ Kind(f) = k
        BY <1>4, <2>1, <4>1, Zenon
      <4>3. \A q \in queue[k] : q = f \/ Earlier(f, q)
        BY <4>1, <4>2, Zenon DEF WinFirst
      <4>4. WinFirst(p) <=> p = f
        BY <3>2, <4>1, <4>2, WinFirstIsUnique, Zenon
      <4>5. WinFirst(p)' <=> p \in queue'[k] /\ \A q \in queue'[k] : q = p \/ Earlier(p, q)
        BY <3>2, Zenon DEF WinFirst, Kind, Earlier
      <4>6. p \in queue'[k] /\ p # f => ~ Earlier(p, f)
        BY <2>1, <4>2, <4>3, WinOrder, Zenon
      <4> QED  BY <2>1, <4>2, <4>3, <4>4, <4>5, <4>6, Zenon
    <3> QED  BY <3>1, <3>2, Zenon
  <2>6. ASSUME NEW p \in WinOps  PROVE WinOperation(p)'
    <3>1. WinOperation(p)
      BY Zenon DEF WinInv
    <3>2. CASE p # o
      <4>1. WinTasked(p) => WinTasked(p)'
        BY <1>8, Zenon DEF WinTasked, Kind
      <4>2. p \in queue'[Kind(p)] <=> p \in queue[Kind(p)]
        <5>1. PICK m \in Kinds : m = Kind(p)
          BY WinOrder, Zenon
        <5> QED  BY <2>1, <3>2, <5>1, Zenon
      <4> QED  BY <1>3, <2>3, <2>5, <3>1, <3>2, <4>1, <4>2, WinOperationStays, Zenon
    <3>3. CASE p = o
      <4>1. ~ WinFirst(o)' /\ o \notin queue'[Kind(o)]
        BY <1>2, <1>8, <2>1, <2>5, Zenon
      <4>2. \A q \in WinOps : Earlier(q, o) /\ result[o] # "idle" => result[q] # "idle"
        BY <1>1, Zenon DEF WinOperation
      <4> QED  BY <1>3, <2>2, <2>3, <3>3, <4>1, <4>2, Zenon DEF WinOperation, Kind, Earlier
    <3> QED  BY <3>2, <3>3, Zenon
  <2>7. ASSUME NEW m \in Kinds  PROVE \A p \in queue'[m] : p \in WinOps /\ Kind(p) = m
    BY <1>5, <2>1, Zenon
  <2>8. ASSUME NEW m \in Kinds, NEW i \in 1..Len(thread'[m])  PROVE WinTask(m, i)'
    <3>1. WinTask(m, i) /\ thread'[m] = thread[m]
      BY <1>8, Zenon DEF WinInv
    <3>2. \A p \in WinOps : /\ WinFirst(p) => io'[p] = io[p] /\ stage'[p] = stage[p]
                            /\ res[p] # "unknown" => res'[p] # "unknown"
      BY <1>3, <1>8, <2>3, Zenon
    <3> QED  BY <2>5, <2>7, <3>1, <3>2, WinTaskStaysFirst, Zenon
  <2> QED  BY <2>4, <2>6, <2>7, <2>8, Zenon DEF WinInv, Kind
<1> QED  BY <1>2, <1>3, <1>4, <1>7, <1>8, Zenon DEF Timeout

\* write_async and read_async: the operation is the last of its list, or fails at once.
LEMMA WinStartKeeps ==
  ASSUME WinInv, NEW o \in WinOps, StartOperation(o)
  PROVE  WinInv'
<1>1. TypeOK /\ WinOperation(o)
  BY Zenon DEF WinInv
<1>2. PICK k \in Kinds : k = Kind(o)
  BY WinOrder, Zenon
<1>3. /\ result[o] = "idle" /\ \A p \in WinOps : Earlier(p, o) => result[p] # "idle"
      /\ UNCHANGED <<open, callback, io, chunks, res, resolved, value, stage>>
  BY Zenon DEF StartOperation
<1>4. /\ o \notin queue[k] /\ ~ WinFirst(o) /\ stage[o] = "none" /\ io[o] = "none" /\ resolved[o] = 0
  BY <1>1, <1>2, <1>3, Zenon DEF WinOperation, WinFirst
<1>5. \A m \in Kinds : \A p \in queue[m] : p \in WinOps /\ Kind(p) = m
  BY WinFirstIsOldest, Zenon
<1>6. ASSUME NEW r \in {"pending", "failed"}, result' = [result EXCEPT ![o] = r]
      PROVE  /\ result' \in [WinOps -> {"idle", "pending", "unknown"} \cup Known]
             /\ result'[o] = r /\ \A p \in WinOps : p # o => result'[p] = result[p]
             /\ \A p \in WinOps : result[p] # "idle" => result'[p] # "idle"
  BY <1>1, <1>6, Zenon DEF TypeOK, Known
<1>7. CASE result' = [result EXCEPT ![o] = "failed"] /\ UNCHANGED <<timed, queue, thread>>
  <2>1. /\ result' \in [WinOps -> {"idle", "pending", "unknown"} \cup Known]
        /\ result'[o] = "failed" /\ \A p \in WinOps : p # o => result'[p] = result[p]
        /\ \A p \in WinOps : result[p] # "idle" => result'[p] # "idle"
    BY <1>6, <1>7, Zenon
  <2>2. TypeOK'
    BY <1>1, <1>3, <1>7, <2>1, Zenon DEF TypeOK, Known, Completions
  <2>3. ASSUME NEW p \in WinOps
        PROVE  (WinFirst(p)' <=> WinFirst(p)) /\ (WinTasked(p)' <=> WinTasked(p))
    BY <1>7, Zenon DEF WinFirst, WinTasked, Kind, Earlier
  <2>4. ASSUME NEW p \in WinOps  PROVE WinOperation(p)'
    <3>1. WinOperation(p)
      BY Zenon DEF WinInv
    <3>2. CASE p # o
      BY <1>3, <1>7, <2>1, <2>3, <3>1, <3>2, WinOperationStays, Zenon
    <3>3. CASE p = o
      <4>1. o \notin queue'[Kind(o)] /\ ~ WinFirst(o)'
        BY <1>2, <1>4, <1>7, <2>3, Zenon
      <4>2. \A q \in WinOps : Earlier(q, o) => result'[q] # "idle"
        BY <1>3, <2>1, Zenon
      <4> QED  BY <1>3, <1>4, <2>1, <3>3, <4>1, <4>2, Zenon DEF WinOperation, Kind, Earlier
    <3> QED  BY <3>2, <3>3, Zenon
  <2>5. ASSUME NEW m \in Kinds, NEW i \in 1..Len(thread'[m])  PROVE WinTask(m, i)'
    <3>1. WinTask(m, i) /\ thread'[m] = thread[m]
      BY <1>7, Zenon DEF WinInv
    <3> QED  BY <1>3, <1>5, <1>7, <3>1, WinTaskStays, Zenon
  <2> QED  BY <1>5, <1>7, <2>2, <2>4, <2>5, Zenon DEF WinInv, Kind
<1>8. CASE /\ result' = [result EXCEPT ![o] = "pending"]
           /\ timed' = [timed EXCEPT ![o] = o \in WinTimedOps]
           /\ queue' = [queue EXCEPT ![k] = queue[k] \cup {o}]
           /\ \/ queue[k] = {} /\ Post(k, "start", o)
              \/ queue[k] # {} /\ UNCHANGED thread
  <2>1. /\ result' \in [WinOps -> {"idle", "pending", "unknown"} \cup Known]
        /\ result'[o] = "pending" /\ \A p \in WinOps : p # o => result'[p] = result[p]
        /\ \A p \in WinOps : result[p] # "idle" => result'[p] # "idle"
    BY <1>6, <1>8, Zenon
  <2>2. /\ queue' \in [Kinds -> SUBSET WinOps] /\ queue'[k] = queue[k] \cup {o}
        /\ \A m \in Kinds : m # k => queue'[m] = queue[m]
    BY <1>1, <1>8, Zenon DEF TypeOK
  <2>3. /\ thread' \in [Kinds -> Seq({"start", "rest", "cancel"} \X WinOps)]
        /\ \A m \in Kinds : m # k => thread'[m] = thread[m]
    <3>1. CASE Post(k, "start", o)
      BY <1>1, <3>1, WinAppend, Zenon
    <3>2. CASE UNCHANGED thread
      BY <1>1, <3>2, Zenon DEF TypeOK
    <3> QED  BY <1>8, <3>1, <3>2, Zenon
  <2>4. timed' \in [WinOps -> BOOLEAN]
    <3>1. timed \in [WinOps -> BOOLEAN]
      BY <1>1, Zenon DEF TypeOK
    <3>2. (o \in WinTimedOps) \in BOOLEAN
      BY MembershipIsBoolean, Zenon
    <3> QED  BY <1>8, <3>1, <3>2, Zenon
  <2>5. TypeOK'
    BY <1>1, <1>3, <2>1, <2>2, <2>3, <2>4, Zenon DEF TypeOK, Known, Completions
  <2>6. ASSUME NEW m \in Kinds  PROVE \A p \in queue'[m] : p \in WinOps /\ Kind(p) = m
    BY <1>2, <1>5, <2>2, Zenon
  <2>7. ASSUME NEW p \in queue[k]  PROVE p \in WinOps /\ Kind(p) = k /\ Earlier(p, o) /\ ~ Earlier(o, p)
    <3>1. p \in WinOps /\ Kind(p) = k /\ p # o /\ WinOperation(p)
      BY <1>4, <1>5, Zenon DEF WinInv
    <3>2. result[p] # "idle"
      BY <3>1, Zenon DEF WinOperation
    <3>3. ~ Earlier(o, p)
      BY <1>3, <3>1, <3>2, Zenon DEF WinOperation
    <3> QED  BY <1>2, <3>1, <3>3, WinOrder, Zenon
  <2>8. ASSUME NEW p \in WinOps
        PROVE  /\ Kind(p) # k => (WinFirst(p)' <=> WinFirst(p))
               /\ queue[k] # {} => (WinFirst(p)' <=> WinFirst(p))
               /\ queue[k] = {} /\ p # o => (WinFirst(p)' <=> WinFirst(p))
               /\ queue[k] = {} /\ p = o => WinFirst(p)'
    <3>1. ASSUME Kind(p) # k  PROVE WinFirst(p)' <=> WinFirst(p)
      <4>1. queue'[Kind(p)] = queue[Kind(p)]
        BY <2>2, <3>1, WinOrder, Zenon
      <4> QED  BY <4>1, WinFirstStays, Zenon
    <3>2. ASSUME Kind(p) = k
          PROVE  /\ WinFirst(p)' <=> p \in queue'[k] /\ \A q \in queue'[k] : q = p \/ Earlier(p, q)
                 /\ WinFirst(p) <=> p \in queue[k] /\ \A q \in queue[k] : q = p \/ Earlier(p, q)
      BY <3>2, Zenon DEF WinFirst, Kind, Earlier
    <3>3. ASSUME Kind(p) = k, queue[k] # {}  PROVE WinFirst(p)' <=> WinFirst(p)
      <4>1. CASE p = o
        BY <1>4, <2>2, <2>7, <3>2, <3>3, <4>1, Zenon
      <4>2. CASE p # o
        BY <2>2, <2>7, <3>2, <3>3, <4>2, Zenon
      <4> QED  BY <4>1, <4>2, Zenon
    <3>4. ASSUME Kind(p) = k, queue[k] = {}  PROVE ~ WinFirst(p) /\ (WinFirst(p)' <=> p = o)
      BY <2>2, <3>2, <3>4, Zenon
    <3> QED  BY <1>2, <3>1, <3>3, <3>4, Zenon
  <2>9. ASSUME NEW p \in WinOps  PROVE WinTasked(p) => WinTasked(p)'
    BY <1>1, <1>8, WinStaysTasked, Zenon
  <2>10. ASSUME NEW p \in WinOps  PROVE WinOperation(p)'
    <3>1. WinOperation(p)
      BY Zenon DEF WinInv
    <3>2. CASE p # o
      <4>1. p \in queue'[Kind(p)] <=> p \in queue[Kind(p)]
        <5>1. PICK m \in Kinds : m = Kind(p)
          BY WinOrder, Zenon
        <5> QED  BY <2>2, <3>2, <5>1, Zenon
      <4>2. WinFirst(p)' <=> WinFirst(p)
        BY <2>8, <3>2, Zenon
      <4> QED  BY <1>3, <2>1, <2>9, <3>1, <3>2, <4>1, <4>2, WinOperationStays, Zenon
    <3>3. CASE p = o
      <4>1. WinFirst(o)' => WinTasked(o)'
        <5>1. CASE queue[k] # {}
          BY <1>4, <2>8, <5>1, Zenon
        <5>2. CASE Post(k, "start", o)
          <6>1. /\ Len(thread[k]) \in Nat /\ Len(thread'[k]) = Len(thread[k]) + 1
                /\ thread'[k][Len(thread[k]) + 1] = <<"start", o>>
            BY <1>1, <5>2, WinAppend, Zenon
          <6>2. Len(thread[k]) + 1 \in 1..Len(thread'[k]) /\ "start" \in Working
            BY <6>1 DEF Working
          <6> QED  BY <1>2, <6>1, <6>2, Zenon DEF WinTasked, Kind
        <5> QED  BY <1>8, <5>1, <5>2, Zenon
      <4>2. \A q \in WinOps : Earlier(q, o) => result'[q] # "idle"
        BY <1>3, <2>1, Zenon
      <4>3. o \in queue'[Kind(o)]
        BY <1>2, <2>2, Zenon
      <4> QED  BY <1>3, <1>4, <2>1, <3>3, <4>1, <4>2, <4>3, Zenon DEF WinOperation, Kind, Earlier
    <3> QED  BY <3>2, <3>3, Zenon
  <2>11. ASSUME NEW m \in Kinds, NEW i \in 1..Len(thread'[m])  PROVE WinTask(m, i)'
    <3>1. CASE m # k
      <4>1. thread'[m] = thread[m] /\ WinTask(m, i) /\ queue'[m] = queue[m]
        BY <2>2, <2>3, <3>1, Zenon DEF WinInv
      <4> QED  BY <1>3, <1>5, <4>1, WinTaskStays, Zenon
    <3>2. CASE m = k /\ queue[k] # {} /\ UNCHANGED thread
      <4>1. thread'[k] = thread[k] /\ WinTask(k, i)
        BY <3>2, Zenon DEF WinInv
      <4> QED  BY <1>3, <2>6, <2>8, <3>2, <4>1, WinTaskStaysFirst, Zenon
    <3>3. CASE m = k /\ queue[k] = {} /\ Post(k, "start", o)
      <4>1. NobodyWorks(k)
        BY <3>3, WinNobodyWorks, Zenon
      <4>2. WinFirst(o)' /\ "start" \in Working \cup {"cancel"}
        BY <2>8, <3>3, Zenon DEF Working
      <4>3. \A p \in queue'[k] : p \in WinOps /\ Kind(p) = k
        BY <2>6, Zenon
      <4> QED  BY <1>2, <1>3, <1>4, <3>3, <4>1, <4>2, <4>3, WinPosts, Zenon
    <3> QED  BY <1>8, <3>1, <3>2, <3>3, Zenon
  <2> QED  BY <2>5, <2>6, <2>10, <2>11, Zenon DEF WinInv, Kind
<1> QED  BY <1>2, <1>7, <1>8, Zenon DEF StartOperation

\* complete_write_op and complete_read_op: the oldest operation leaves its list and the next one is
\* started; the caller's future is set.
LEMMA WinCompleteKeeps ==
  ASSUME WinInv, NEW o \in WinOps, CompleteOp(o)
  PROVE  WinInv'
<1>1. TypeOK /\ WinOperation(o)
  BY Zenon DEF WinInv
<1>2. PICK k \in Kinds : k = Kind(o)
  BY WinOrder, Zenon
<1>3. /\ stage[o] \in {"posted", "completing"} /\ stage' = [stage EXCEPT ![o] = "over"]
      /\ result' = [result EXCEPT ![o] = value[o]]
      /\ UNCHANGED <<open, callback, io, chunks, res, resolved, value>>
  BY Zenon DEF CompleteOp
<1>4. /\ io[o] = "none" /\ resolved[o] = 1 /\ value[o] # "unknown"
      /\ o \in queue[k] => WinFirst(o)
      /\ result[o] # "idle"
  BY <1>1, <1>2, <1>3, Zenon DEF WinOperation
<1>5. /\ stage' \in [WinOps -> {"none", "posted", "completing", "over"}] /\ stage'[o] = "over"
      /\ \A p \in WinOps : p # o => stage'[p] = stage[p]
      /\ value[o] \in Known
  BY <1>1, <1>3, <1>4, Zenon DEF TypeOK
<1>6. /\ result' \in [WinOps -> {"idle", "pending", "unknown"} \cup Known]
      /\ result'[o] \notin {"idle", "pending"} /\ \A p \in WinOps : p # o => result'[p] = result[p]
      /\ \A p \in WinOps : result[p] # "idle" => result'[p] # "idle"
  BY <1>1, <1>3, <1>5 DEF TypeOK, Known
<1>7. \A m \in Kinds : \A p \in queue[m] : p \in WinOps /\ Kind(p) = m
  BY WinFirstIsOldest, Zenon
<1>8. \A p \in WinOps : /\ io[p] = "none" /\ stage[p] = "none" => io'[p] = "none" /\ stage'[p] = "none"
                        /\ res[p] # "unknown" => res'[p] # "unknown"
  BY <1>3, <1>5, Zenon
<1>9. ASSUME o \notin queue'[Kind(o)]  PROVE WinOperation(o)'
  <2>1. ~ WinFirst(o)'
    BY <1>9, Zenon DEF WinFirst, Kind
  <2>2. \A q \in WinOps : Earlier(q, o) => result'[q] # "idle"
    BY <1>1, <1>4, <1>6, Zenon DEF WinOperation
  <2> QED  BY <1>3, <1>4, <1>5, <1>6, <1>9, <2>1, <2>2, Zenon DEF WinOperation, Kind, Earlier
<1>10. CASE o \notin queue[k] /\ UNCHANGED <<queue, timed, thread>>
  <2>1. TypeOK'
    BY <1>1, <1>3, <1>5, <1>6, <1>10, Zenon DEF TypeOK, Known, Completions
  <2>2. ASSUME NEW p \in WinOps
        PROVE  (WinFirst(p)' <=> WinFirst(p)) /\ (WinTasked(p)' <=> WinTasked(p))
    BY <1>10, Zenon DEF WinFirst, WinTasked, Kind, Earlier
  <2>3. ASSUME NEW p \in WinOps  PROVE WinOperation(p)'
    <3>1. WinOperation(p)
      BY Zenon DEF WinInv
    <3>2. CASE p # o
      BY <1>3, <1>5, <1>6, <1>10, <2>2, <3>1, <3>2, WinOperationStays, Zenon
    <3>3. CASE p = o
      BY <1>2, <1>9, <1>10, <3>3, Zenon
    <3> QED  BY <3>2, <3>3, Zenon
  <2>4. ASSUME NEW m \in Kinds, NEW i \in 1..Len(thread'[m])  PROVE WinTask(m, i)'
    <3>1. WinTask(m, i) /\ thread'[m] = thread[m]
      BY <1>10, Zenon DEF WinInv
    <3> QED  BY <1>7, <1>8, <1>10, <3>1, WinTaskStays, Zenon
  <2> QED  BY <1>7, <1>10, <2>1, <2>3, <2>4, Zenon DEF WinInv, Kind
<1>11. ASSUME o \in queue[k], queue' = [queue EXCEPT ![k] = queue[k] \ {o}],
              timed' = [timed EXCEPT ![o] = FALSE],
              StartBack(k, queue[k] \ {o})
       PROVE  WinInv'
  <2>1. /\ queue' \in [Kinds -> SUBSET WinOps] /\ queue'[k] = queue[k] \ {o}
        /\ \A m \in Kinds : m # k => queue'[m] = queue[m]
        /\ timed' \in [WinOps -> BOOLEAN]
    BY <1>1, <1>11, Zenon DEF TypeOK
  <2>2. ASSUME NEW m \in Kinds  PROVE \A p \in queue'[m] : p \in WinOps /\ Kind(p) = m
    BY <1>7, <2>1, Zenon
  <2>3. NobodyWorks(k)
    <3>1. ASSUME NEW q \in queue[k], WinFirst(q)  PROVE stage[q] # "none"
      <4>1. q = o
        BY <1>2, <1>4, <1>7, <1>11, <3>1, WinFirstIsUnique, Zenon
      <4> QED  BY <1>3, <4>1, Zenon
    <3> QED  BY <3>1, WinNobodyWorks, Zenon
  <2>4. ASSUME NEW p \in queue'[k]
        PROVE  p \in WinOps /\ p # o /\ ~ WinFirst(p) /\ io[p] = "none" /\ stage[p] = "none"
    <3>1. p \in WinOps /\ p # o /\ p \in queue[k] /\ Kind(p) = k /\ WinOperation(p)
      BY <1>7, <2>1, Zenon DEF WinInv
    <3>2. ~ WinFirst(p)
      BY <1>2, <1>4, <1>11, <3>1, WinFirstIsUnique, Zenon
    <3> QED  BY <3>1, <3>2, Zenon DEF WinOperation
  <2>5. ASSUME NEW p \in WinOps, Kind(p) # k  PROVE WinFirst(p)' <=> WinFirst(p)
    <3>1. queue'[Kind(p)] = queue[Kind(p)]
      BY <2>1, <2>5, WinOrder, Zenon
    <3> QED  BY <3>1, WinFirstStays, Zenon
  <2>6. ASSUME NEW p \in WinOps, p # o
        PROVE  p \in queue'[Kind(p)] <=> p \in queue[Kind(p)]
    <3>1. PICK m \in Kinds : m = Kind(p)
      BY WinOrder, Zenon
    <3> QED  BY <2>1, <2>6, <3>1, Zenon
  <2>7. o \notin queue'[Kind(o)]
    BY <1>2, <2>1, Zenon
  <2>8. CASE queue'[k] = {} /\ UNCHANGED thread
    <3>1. TypeOK'
      BY <1>1, <1>3, <1>5, <1>6, <2>1, <2>8, Zenon DEF TypeOK, Known, Completions
    <3>2. ASSUME NEW p \in WinOps, p # o  PROVE WinFirst(p)' <=> WinFirst(p)
      <4>1. CASE Kind(p) = k
        <5>1. p \notin queue'[Kind(p)] /\ p \notin queue[Kind(p)]
          BY <2>1, <2>8, <3>2, <4>1, Zenon
        <5> QED  BY <5>1, Zenon DEF WinFirst, Kind
      <4> QED  BY <2>5, <4>1, Zenon
    <3>3. ASSUME NEW p \in WinOps  PROVE WinOperation(p)'
      <4>1. WinOperation(p)
        BY Zenon DEF WinInv
      <4>2. CASE p # o
        <5>1. WinTasked(p) => WinTasked(p)'
          BY <2>8, Zenon DEF WinTasked, Kind
        <5> QED  BY <1>3, <1>5, <1>6, <2>6, <3>2, <4>1, <4>2, <5>1, WinOperationStays, Zenon
      <4> QED  BY <1>9, <2>7, <4>2, Zenon
    <3>4. ASSUME NEW m \in Kinds, NEW i \in 1..Len(thread'[m])  PROVE WinTask(m, i)'
      <4>1. WinTask(m, i) /\ thread'[m] = thread[m]
        BY <2>8, Zenon DEF WinInv
      <4>2. CASE m # k
        BY <1>7, <1>8, <2>1, <4>1, <4>2, WinTaskStays, Zenon
      <4>3. CASE m = k
        <5>1. SUFFICES ASSUME NEW t \in Working \cup {"cancel"}, NEW q \in WinOps, thread'[k][i] = <<t, q>>
                       PROVE  Kind(q) = k /\ t \notin Working /\ t # "rest" /\ res'[q] # "unknown"
          BY <2>8, <4>3, Zenon DEF WinTask, Kind
        <5>2. thread[k][i] = <<t, q>> /\ i \in 1..Len(thread[k]) /\ WinTask(k, i)
          BY <4>1, <4>3, <5>1, Zenon
        <5>3. t \notin Working
          BY <2>3, <5>2 DEF NobodyWorks
        <5>4. t = "cancel" /\ t # "rest"
          BY <5>1, <5>3, Zenon DEF Working
        <5> QED  BY <1>3, <5>2, <5>3, <5>4, Zenon DEF WinTask
      <4> QED  BY <4>2, <4>3, Zenon
    <3> QED  BY <2>2, <3>1, <3>3, <3>4, Zenon DEF WinInv, Kind
  <2>9. CASE queue'[k] # {} /\ Post(k, "start", Oldest(queue[k] \ {o}))
    <3>1. PICK n \in queue'[k] :
            /\ n = Oldest(queue[k] \ {o})
            /\ \A p \in queue'[k] : p = n \/ Earlier(n, p)
      <4>1. PICK S \in SUBSET WinOps : S = queue[k] \ {o}
        BY <1>7, Zenon
      <4>2. S # {} /\ \A p \in S : Kind(p) = k
        BY <1>7, <2>1, <2>9, <4>1, Zenon
      <4>3. Oldest(S) \in S /\ \A p \in S : p = Oldest(S) \/ Earlier(Oldest(S), p)
        BY <4>2, WinOldest, Zenon
      <4> QED  BY <2>1, <4>1, <4>3, Zenon
    <3>2. n \in WinOps /\ Kind(n) = k /\ n # o /\ ~ WinFirst(n) /\ io[n] = "none" /\ stage[n] = "none"
      BY <2>2, <2>4, Zenon
    <3>3. Post(k, "start", n)
      BY <2>9, <3>1, Zenon
    <3>4. /\ thread' \in [Kinds -> Seq({"start", "rest", "cancel"} \X WinOps)]
          /\ \A m \in Kinds : m # k => thread'[m] = thread[m]
          /\ Len(thread[k]) \in Nat /\ Len(thread'[k]) = Len(thread[k]) + 1
          /\ thread'[k][Len(thread[k]) + 1] = <<"start", n>>
      BY <1>1, <3>2, <3>3, WinAppend, Zenon
    <3>5. TypeOK'
      BY <1>1, <1>3, <1>5, <1>6, <2>1, <3>4, Zenon DEF TypeOK, Known, Completions
    <3>6. WinFirst(n)'
      BY <3>1, <3>2, Zenon DEF WinFirst, Kind, Earlier
    <3>7. ASSUME NEW p \in WinOps, p # o, p # n  PROVE WinFirst(p)' <=> WinFirst(p)
      <4>1. CASE Kind(p) = k
        <5>1. ~ WinFirst(p)
          BY <1>2, <1>4, <1>11, <3>7, <4>1, WinFirstIsUnique, Zenon
        <5>2. ~ WinFirst(p)'
          <6>1. WinFirst(p)' => p \in queue'[k] /\ \A q \in queue'[k] : q = p \/ Earlier(p, q)
            BY <4>1, Zenon DEF WinFirst, Kind, Earlier
          <6>2. ~ Earlier(p, n) \/ ~ Earlier(n, p)
            BY <3>2, WinOrder, Zenon
          <6> QED  BY <3>1, <3>7, <6>1, <6>2, Zenon
        <5> QED  BY <5>1, <5>2, Zenon
      <4> QED  BY <2>5, <4>1, Zenon
    <3>8. ASSUME NEW p \in WinOps  PROVE WinOperation(p)'
      <4>1. WinOperation(p)
        BY Zenon DEF WinInv
      <4>2. CASE p # o /\ p # n
        <5>1. WinTasked(p) => WinTasked(p)'
          BY <1>1, <3>2, <3>3, WinStaysTasked, Zenon
        <5> QED  BY <1>3, <1>5, <1>6, <2>6, <3>7, <4>1, <4>2, <5>1, WinOperationStays, Zenon
      <4>3. CASE p = n
        <5>1. WinTasked(n)'
          <6>1. Len(thread[k]) + 1 \in 1..Len(thread'[k]) /\ "start" \in Working
            BY <3>4 DEF Working
          <6> QED  BY <3>2, <3>4, <6>1, Zenon DEF WinTasked, Kind
        <5>2. /\ \A q \in WinOps : Earlier(q, n) => result'[q] # "idle"
              /\ result'[n] # "idle" /\ resolved[n] = 0
          <6>1. n \in queue[Kind(n)] /\ WinOperation(n)
            BY <2>1, <3>2, Zenon DEF WinInv
          <6> QED  BY <1>6, <3>2, <6>1, Zenon DEF WinOperation
        <5>3. n \in queue'[Kind(n)] /\ stage'[n] = "none" /\ io'[n] = "none" /\ resolved'[n] = 0
          BY <1>3, <1>5, <3>1, <3>2, <5>2, Zenon
        <5> QED  BY <3>6, <4>3, <5>1, <5>2, <5>3, Zenon DEF WinOperation, Kind, Earlier
      <4> QED  BY <1>9, <2>7, <4>2, <4>3, Zenon
    <3>9. ASSUME NEW m \in Kinds, NEW i \in 1..Len(thread'[m])  PROVE WinTask(m, i)'
      <4>1. CASE m # k
        <5>1. thread'[m] = thread[m] /\ WinTask(m, i) /\ queue'[m] = queue[m]
          BY <2>1, <3>4, <4>1, Zenon DEF WinInv
        <5> QED  BY <1>7, <1>8, <5>1, WinTaskStays, Zenon
      <4>2. CASE m = k
        <5>1. /\ \A p \in queue'[k] : p \in WinOps /\ Kind(p) = k
              /\ "start" \in Working \cup {"cancel"} /\ io'[n] = "none" /\ stage'[n] = "none"
          BY <1>8, <2>2, <3>2, Zenon DEF Working
        <5> QED  BY <1>8, <2>3, <3>2, <3>3, <3>6, <4>2, <5>1, WinPosts, Zenon
      <4> QED  BY <4>1, <4>2, Zenon
    <3> QED  BY <2>2, <3>5, <3>8, <3>9, Zenon DEF WinInv, Kind
  <2> QED  BY <1>11, <2>1, <2>8, <2>9, Zenon DEF StartBack
<1>12. o \in queue[k] => o = Oldest(queue[k])
  BY <1>4, WinFirstIsOldest, Zenon
<1> QED  BY <1>2, <1>10, <1>11, <1>12, Zenon DEF CompleteOp, PopBack

\* The invariant holds of a new endpoint.
LEMMA WinInitially ==
  ASSUME Init
  PROVE  WinInv
<1>1. /\ TypeOK
      /\ \A k \in Kinds : queue[k] = {} /\ thread[k] = <<>>
      /\ \A o \in WinOps : /\ io[o] = "none" /\ stage[o] = "none" /\ resolved[o] = 0
                           /\ result[o] = "idle"
  BY WinNames DEF Init, TypeOK, Known, Completions
<1>2. ASSUME NEW o \in WinOps  PROVE WinOperation(o)
  <2>1. o \notin queue[Kind(o)]
    BY <1>1, WinOrder, Zenon
  <2> QED  BY <1>1, <2>1, Zenon DEF WinOperation, WinFirst
<1>3. \A k \in Kinds : 1..Len(thread[k]) = {}
  BY <1>1
<1> QED  BY <1>1, <1>2, <1>3, Zenon DEF WinInv

\* Every step of a Windows endpoint keeps it.
LEMMA WinStep ==
  ASSUME WinInv, Next
  PROVE  WinInv'
<1>1. \/ \E o \in WinOps : \/ StartOperation(o) \/ WorkerTakes(o) \/ CompleteOp(o) \/ Timeout(o)
                           \/ InvalidateByFailure(o) \/ KernelCompletes(o)
      \/ \E k \in Kinds : RunStart(k) \/ RunCancel(k)
      \/ RunRest \/ SetDisconnectCallback \/ Invalidate
  BY Zenon DEF Next
<1>2. "read" \in Kinds
  BY Zenon DEF Kinds
<1>3. CASE \E o \in WinOps : StartOperation(o) \/ WorkerTakes(o)
  BY <1>3, WinStartKeeps, WinWorkerKeeps, Zenon
<1>4. CASE \E o \in WinOps : CompleteOp(o) \/ Timeout(o)
  BY <1>4, WinCompleteKeeps, WinTimeoutKeeps, Zenon
<1>5. CASE \/ SetDisconnectCallback \/ Invalidate
           \/ \E o \in WinOps : InvalidateByFailure(o) \/ KernelCompletes(o)
  BY <1>5, WinQuietSteps, Zenon
<1>6. CASE RunRest \/ \E k \in Kinds : RunStart(k) \/ RunCancel(k)
  BY <1>2, <1>6, WinRunsTask, Zenon
<1> QED  BY <1>1, <1>3, <1>4, <1>5, <1>6, Zenon

\* The invariant says that something, and one thing only, works on the oldest operation of a list
\* and nothing on the others.
LEMMA WinInFlight ==
  ASSUME WinInv
  PROVE  OneInFlight
<1>1. ASSUME NEW k \in Kinds, NEW o \in queue[k]
      PROVE  /\ o \in WinOps /\ Kind(o) = k /\ WinOperation(o)
             /\ WinFirst(o) <=> o = Oldest(queue[k])
  BY WinFirstIsOldest, Zenon DEF WinInv
<1>2. ASSUME NEW k \in Kinds, NEW o \in WinOps, NEW t \in Working, Posted(k, t, o)
      PROVE  WinFirst(o) /\ io[o] = "none" /\ stage[o] = "none"
  <2>1. PICK i \in 1..Len(thread[k]) : thread[k][i] = <<t, o>>
    BY <1>2, Zenon DEF Posted
  <2> QED  BY <1>2, <2>1 DEF WinInv, WinTask
<1>3. ASSUME NEW k \in Kinds, NEW o \in queue[k], WinFirst(o)
      PROVE  Driver(o)
  <2>1. WinTasked(o) <=> Posted(k, "start", o) \/ Posted(k, "rest", o)
    BY <1>1, Zenon DEF WinTasked, Posted, Working
  <2>2. WinTasked(o) => io[o] = "none" /\ stage[o] = "none"
    BY <1>1, <1>2, <2>1, Zenon DEF Working
  <2>3. /\ WinTasked(o) \/ io[o] # "none" \/ stage[o] # "none"
        /\ io[o] # "none" => stage[o] = "none"
        /\ stage[o] # "over" /\ stage[o] \in {"none", "posted", "completing", "over"}
    BY <1>1, <1>3, Zenon DEF WinOperation, WinInv, TypeOK
  <2> QED  BY <1>1, <2>1, <2>2, <2>3, Zenon DEF Driver
<1>4. ASSUME NEW k \in Kinds, NEW o \in queue[k], ~ WinFirst(o)
      PROVE  io[o] = "none" /\ stage[o] = "none" /\ ~ Posted(k, "start", o)
  <2>1. io[o] = "none" /\ stage[o] = "none"
    BY <1>1, <1>4, Zenon DEF WinOperation
  <2> QED  BY <1>1, <1>2, <1>4, <2>1, Zenon DEF Working
<1>5. \A o \in WinOps : result[o] = "pending" =>
        o \in queue[Kind(o)] \/ stage[o] \in {"posted", "completing"}
  BY Zenon DEF WinInv, WinOperation
<1> QED  BY <1>1, <1>3, <1>4, <1>5, Zenon DEF OneInFlight

\* A promise is resolved at most once, with a result.
LEMMA WinResolvesOnce ==
  ASSUME WinInv
  PROVE  ResolvedOnce
<1>1. ASSUME NEW o \in WinOps  PROVE resolved[o] <= 1 /\ (resolved[o] = 1 => value[o] # "unknown")
  <2>1. IF stage[o] = "none" THEN resolved[o] = 0 ELSE resolved[o] = 1 /\ value[o] # "unknown"
    BY Zenon DEF WinInv, WinOperation
  <2> QED  BY <2>1
<1> QED  BY <1>1, Zenon DEF ResolvedOnce

\* A step of something else keeps the invariant.
LEMMA WinStutters ==
  ASSUME WinInv, UNCHANGED winVars
  PROVE  WinInv'
<1>1. UNCHANGED <<open, callback, queue, thread, io, chunks, res, resolved, value, stage, result, timed>>
  BY Zenon DEF winVars
<1>2. TypeOK'
  BY <1>1, Zenon DEF WinInv, TypeOK, Known, Completions
<1>3. \A p \in WinOps : /\ io[p] = "aborted" => res[p] # "unknown"
                        /\ io[p] = "more_data" => Kind(p) = "read"
  BY Zenon DEF WinInv, WinOperation
<1> QED  BY <1>1, <1>2, <1>3, WinQuiet, Zenon

\* What makes WinInv an invariant, and what it says of the endpoint.
LEMMA WinInductive ==
  /\ Init => WinInv
  /\ WinInv /\ [Next]_winVars => WinInv'
  /\ WinInv => TypeOK /\ OneInFlight /\ ResolvedOnce
<1>1. Init => WinInv
  BY WinInitially, Zenon
<1>2. WinInv /\ [Next]_winVars => WinInv'
  BY WinStep, WinStutters, Zenon
<1>3. WinInv => TypeOK /\ OneInFlight /\ ResolvedOnce
  BY WinInFlight, WinResolvesOnce, Zenon DEF WinInv
<1> QED  BY <1>1, <1>2, <1>3, Zenon

\* The endpoint keeps the invariant, so one operation of a list is in flight and a promise is
\* resolved once, for any operations and timeouts.
THEOREM WinInvariance == Spec => [](WinInv /\ OneInFlight /\ ResolvedOnce)
  BY WinInductive, PTL DEF Spec

=============================================================================
