---------------------------- MODULE FutureProofs -----------------------------
(***************************************************************************)
(* Theorems about Future, for any set of promises and children: no drain   *)
(* and no notification is lost, a child that is made has one driver until  *)
(* it settles, an outcome stays, and it comes from where it should.        *)
(***************************************************************************)
EXTENDS Future, TLAPS

\* The inductive invariant: NoLostDrain and NoLostNotification need only the types and
\* that threads block where a settlement notifies and a child has a source.
IInv ==
  /\ TypeOK
  /\ NoLostDrain
  /\ NoLostNotification
  /\ \A n \in Controllers : blocked[n] => n \in Waited
  /\ \A c \in Made : source[c] \in Controllers
  /\ unregistered \subseteq Made

-----------------------------------------------------------------------------
\* What the four ways of changing a controller (set_on_success_and_fail, set_value_state,
\* set_exception, and leaving it alone) have in common.
Touch ==
  \/ \E n \in Controllers, k \in Continuations : Register(n, k)
  \/ \E n \in Controllers, v \in Controllers \cup {None} : SetValue(n, v)
  \/ \E n \in Controllers, e \in Controllers \cup {None} : SetException(n, e)

\* Registering a continuation or settling a controller keeps the types and loses neither
\* a drain nor a notification, since each posts both drains and settling also notifies.
LEMMA TouchStep ==
  ASSUME IInv, Touch, UNCHANGED blocked
  PROVE  /\ val' \in [Controllers -> Controllers \cup {None}]
         /\ exc' \in [Controllers -> Controllers \cup {None}]
         /\ onSuccess' \in [Controllers -> SUBSET Continuations]
         /\ onFail' \in [Controllers -> SUBSET Continuations]
         /\ successDrains' \in [Controllers -> Nat]
         /\ failDrains' \in [Controllers -> Nat]
         /\ notify' \in [Controllers -> BOOLEAN]
         /\ NoLostDrain'
         /\ NoLostNotification'
<1> USE DEF IInv, NoLostDrain, NoLostNotification, HasValue, HasException, Settled, PostDrains,
        outcomeVars, queueVars, TypeOK
<1>1. CASE \E n \in Controllers, k \in Continuations : Register(n, k)
  BY <1>1 DEF Register
<1>2. CASE \E n \in Controllers, v \in Controllers \cup {None} : SetValue(n, v)
  BY <1>2 DEF SetValue
<1>3. CASE \E n \in Controllers, e \in Controllers \cup {None} : SetException(n, e)
  BY <1>3 DEF SetException
<1> QED  BY <1>1, <1>2, <1>3, Zenon DEF Touch

\* A posted call touches one controller, its target or the future its callback returned,
\* and hands over futures of promises only.
LEMMA CallStep ==
  ASSUME IInv, NEW c \in calls, Call(c)
  PROVE  /\ Touch
         /\ returned' \in [Controllers -> Promises \cup {None}]
         /\ handles' \subseteq Controllers
<1>1. PICK t \in Children, n \in Controllers : t = c.target /\ n = c.at
  BY Zenon DEF IInv, TypeOK, Calls
<1>2. /\ t \in Controllers
      /\ val[n] \in Controllers \cup {None}
      /\ exc[n] \in Controllers \cup {None}
      /\ returned \in [Controllers -> Promises \cup {None}]
      /\ handles \subseteq Controllers
      /\ \A s \in {"own", "inner"} : [target |-> t, stage |-> s] \in Continuations
  BY <1>1, Zenon DEF IInv, TypeOK, Controllers, Continuations
<1> DEFINE Goal == /\ Touch
                   /\ returned' \in [Controllers -> Promises \cup {None}]
                   /\ handles' \subseteq Controllers
<1>3. ASSUME NEW v \in Controllers \cup {None}, Yields(t, v)  PROVE Goal
  BY <1>2, <1>3, Zenon DEF Yields, Touch
<1>4. ASSUME NEW e \in Controllers \cup {None}, Raises(t, e)  PROVE Goal
  BY <1>2, <1>4, Zenon DEF Raises, Touch
<1>5. ASSUME CallbackThrows(t)  PROVE Goal
  BY <1>2, <1>4, <1>5, Zenon DEF CallbackThrows
<1>6. ASSUME CallbackReturnsFuture(t)  PROVE Goal
  BY <1>2, <1>6 DEF CallbackReturnsFuture, Adopt, Touch, Controllers
<1>7. ASSUME OnSuccess(n, t)  PROVE Goal
  <2>1. ASSUME StoreFuture(t)  PROVE Goal
    <3>1. ASSUME NEW m \in handles \cap Promises, SetValue(t, t),
                 returned' = [returned EXCEPT ![t] = m], handles' = handles \ {m}
          PROVE  Goal
      BY <1>2, <3>1, Zenon DEF Touch
    <3> QED  BY <1>2, <1>3, <2>1, <3>1, Zenon DEF StoreFuture
  <2>2. ASSUME FlattenStored(n, t)  PROVE Goal
    <3>1. ASSUME returned[n] # None, Register(returned[n], [target |-> t, stage |-> "inner"]),
                 UNCHANGED <<returned, handles>>
          PROVE  Goal
      BY <1>1, <1>2, <3>1, Zenon DEF Touch, Controllers
    <3> QED  BY <1>5, <2>2, <3>1, Zenon DEF FlattenStored
  <2> QED  BY <1>2, <1>3, <1>5, <1>6, <1>7, <2>1, <2>2, Zenon DEF OnSuccess
<1>8. ASSUME OnFail(n, t)  PROVE Goal
  BY <1>2, <1>3, <1>4, <1>5, <1>6, <1>8, Zenon DEF OnFail
<1>9. ASSUME OnInnerSuccess(n, t)  PROVE Goal
  <2>1. kind[t] = "finallyFuture" => source[t] \in Controllers
    BY <1>1, Zenon DEF IInv, Made
  <2>2. kind[t] = "finallyFuture" => /\ val[source[t]] \in Controllers \cup {None}
                                     /\ exc[source[t]] \in Controllers \cup {None}
    BY <2>1, Zenon DEF IInv, TypeOK
  <2> QED  BY <1>2, <1>3, <1>4, <1>9, <2>2, Zenon DEF OnInnerSuccess
<1>10. ASSUME OnInnerFail(n, t)  PROVE Goal
  BY <1>2, <1>4, <1>10, Zenon DEF OnInnerFail
<1> QED  BY <1>1, <1>7, <1>8, <1>9, <1>10, Zenon DEF Call

\* Every step of the pool, of a promise or of the user preserves the invariant.
LEMMA NextStep == IInv /\ [Next]_vars => IInv'
<1> SUFFICES ASSUME IInv, [Next]_vars  PROVE IInv'
  BY Zenon
<1> USE ControllersAssumption, WaitedAssumption, UsedKindsAssumption
<1> DEFINE Shared == /\ val' \in [Controllers -> Controllers \cup {None}]
                     /\ exc' \in [Controllers -> Controllers \cup {None}]
                     /\ onSuccess' \in [Controllers -> SUBSET Continuations]
                     /\ onFail' \in [Controllers -> SUBSET Continuations]
                     /\ successDrains' \in [Controllers -> Nat]
                     /\ failDrains' \in [Controllers -> Nat]
                     /\ notify' \in [Controllers -> BOOLEAN]
                     /\ NoLostDrain'
                     /\ NoLostNotification'
<1>0. Touch /\ UNCHANGED blocked => Shared
  BY TouchStep, Zenon
<1>1. ASSUME NEW p \in Promises, ClaimCompletion(p)  PROVE IInv'
  BY <1>1 DEF ClaimCompletion, IInv, TypeOK, NoLostDrain, NoLostNotification, HasValue, HasException,
     Settled, Made, outcomeVars, queueVars, drainVars, graphVars
<1>2. ASSUME NEW p \in Promises, Complete(p)  PROVE IInv'
  <2>1. Touch
    BY <1>2, Zenon DEF Complete, Touch, Controllers
  <2>2. Shared
    BY <1>0, <1>2, <2>1, Zenon DEF Complete
  <2>3. claims' \in [Promises -> Nat]
    BY <1>2 DEF Complete, IInv, TypeOK
  <2> QED  BY <1>2, <2>2, <2>3, Zenon DEF Complete, IInv, TypeOK, Made, graphVars
<1>3. ASSUME NEW p \in Promises, Abandon(p)  PROVE IInv'
  <2>1. CASE completionPending[p] /\ SetException(p, p)
    <3>1. Touch
      BY <2>1, Zenon DEF Touch, Controllers
    <3>2. Shared
      BY <1>0, <1>3, <3>1, Zenon DEF Abandon
    <3> QED  BY <1>3, <3>2, Zenon DEF Abandon, IInv, TypeOK, Made, graphVars
  <2>2. CASE UNCHANGED <<outcomeVars, queueVars, drainVars>>
    BY <1>3, <2>2, Zenon DEF Abandon, IInv, TypeOK, NoLostDrain, NoLostNotification, HasValue, HasException,
       Settled, Made, outcomeVars, queueVars, drainVars, graphVars
  <2> QED  BY <1>3, <2>1, <2>2, Zenon DEF Abandon
<1>4. ASSUME NEW n \in Controllers, DrainSuccess(n)  PROVE IInv'
  <2>1. calls' \subseteq Calls
    BY <1>4 DEF DrainSuccess, IInv, TypeOK, Calls, Continuations
  <2>2. /\ successDrains' \in [Controllers -> Nat]
        /\ onSuccess' \in [Controllers -> SUBSET Continuations]
    BY <1>4 DEF DrainSuccess, IInv, TypeOK
  <2>3. NoLostDrain'
    BY <1>4, <2>2, Zenon DEF DrainSuccess, IInv, TypeOK, NoLostDrain, HasValue, HasException, Settled, outcomeVars
  <2> QED  BY <1>4, <2>1, <2>2, <2>3, Zenon DEF DrainSuccess, IInv, TypeOK, NoLostNotification, HasValue,
           HasException, Settled, Made, promiseVars, outcomeVars, graphVars
<1>5. ASSUME NEW n \in Controllers, DrainFail(n)  PROVE IInv'
  <2>1. calls' \subseteq Calls
    BY <1>5 DEF DrainFail, IInv, TypeOK, Calls, Continuations
  <2>2. /\ failDrains' \in [Controllers -> Nat]
        /\ onFail' \in [Controllers -> SUBSET Continuations]
    BY <1>5 DEF DrainFail, IInv, TypeOK
  <2>3. NoLostDrain'
    BY <1>5, <2>2, Zenon DEF DrainFail, IInv, TypeOK, NoLostDrain, HasValue, HasException, Settled, outcomeVars
  <2> QED  BY <1>5, <2>1, <2>2, <2>3, Zenon DEF DrainFail, IInv, TypeOK, NoLostNotification, HasValue,
           HasException, Settled, Made, promiseVars, outcomeVars, graphVars
<1>6. ASSUME NEW n \in Controllers, Wait(n)  PROVE IInv'
  BY <1>6, Zenon DEF Wait, IInv, TypeOK, NoLostDrain, NoLostNotification, HasValue, HasException,
     Settled, Made, promiseVars, outcomeVars, queueVars, drainVars, graphVars
<1>7. ASSUME NEW n \in Controllers, NotifyAll(n)  PROVE IInv'
  BY <1>7 DEF NotifyAll, IInv, TypeOK, NoLostDrain, NoLostNotification, HasValue, HasException,
     Settled, Made, promiseVars, queueVars, drainVars, graphVars
<1>8. ASSUME NEW n \in Controllers, NEW c \in Children, NEW k \in UsedKinds, MakeChild(n, c, k)
      PROVE  IInv'
  <2>1. Touch
    BY <1>8, Zenon DEF MakeChild, Touch, Continuations
  <2>2. Shared
    BY <1>0, <1>8, <2>1, Zenon DEF MakeChild
  <2>3. /\ kind' \in [Children -> Kinds \cup {"none", "flatten"}]
        /\ source' \in [Children -> Controllers \cup {None}]
        /\ unregistered' \subseteq Children
        /\ handles' \subseteq Controllers
    <3>1. /\ kind \in [Children -> Kinds \cup {"none", "flatten"}]
          /\ source \in [Children -> Controllers \cup {None}]
          /\ unregistered \subseteq Children /\ handles \subseteq Controllers
          /\ k \in Kinds
      BY UsedKindsAssumption, Zenon DEF IInv, TypeOK
    <3>2. CASE /\ kind' = [kind EXCEPT ![c] = k] /\ source' = [source EXCEPT ![c] = n]
               /\ handles' = handles \cup {c} /\ UNCHANGED unregistered
      BY <3>1, <3>2, Zenon DEF Controllers
    <3>3. ASSUME NEW d \in Children, kind' = [kind EXCEPT ![c] = k, ![d] = "flatten"],
                 source' = [source EXCEPT ![c] = n, ![d] = c],
                 unregistered' = unregistered \cup {d}, UNCHANGED handles
          PROVE  /\ kind' \in [Children -> Kinds \cup {"none", "flatten"}]
                 /\ source' \in [Children -> Controllers \cup {None}]
                 /\ unregistered' \subseteq Children
                 /\ handles' \subseteq Controllers
      BY <3>1, <3>3, Zenon DEF Controllers
    <3> QED  BY <1>8, <3>2, <3>3, Zenon DEF MakeChild
  <2>4. (\A d \in Made : source[d] \in Controllers)' /\ (unregistered \subseteq Made)'
    <3>1. k # "none" /\ n \in Controllers /\ c \in Controllers
      BY Zenon DEF Kinds, Controllers
    <3>2. CASE k # "thenFuture"
      BY <1>8, <3>1, <3>2 DEF MakeChild, IInv, TypeOK, Made
    <3>3. CASE k = "thenFuture"
      <4>1. PICK d \in Children \ (Made \cup {c}) :
              /\ kind' = [kind EXCEPT ![c] = k, ![d] = "flatten"]
              /\ source' = [source EXCEPT ![c] = n, ![d] = c]
              /\ unregistered' = unregistered \cup {d}
        BY <1>8, <3>3, Zenon DEF MakeChild
      <4> QED  BY <3>1, <3>3, <4>1 DEF IInv, TypeOK, Made
    <3> QED  BY <3>2, <3>3, Zenon
  <2> QED  BY <1>8, <2>2, <2>3, <2>4, Zenon DEF MakeChild, IInv, TypeOK, promiseVars
<1>9. ASSUME NEW d \in Children, FlattenFuture(d)  PROVE IInv'
  <2>1. source[d] \in Controllers
    BY <1>9, Zenon DEF FlattenFuture, IInv
  <2>2. Touch
    BY <1>9, <2>1, Zenon DEF FlattenFuture, Touch, Continuations
  <2>3. Shared
    BY <1>0, <1>9, <2>2, Zenon DEF FlattenFuture
  <2> QED  BY <1>9, <2>3, Zenon DEF FlattenFuture, IInv, TypeOK, Made, promiseVars, Controllers
<1>10. ASSUME NEW c \in calls, Call(c)  PROVE IInv'
  <2>1. /\ Touch
        /\ returned' \in [Controllers -> Promises \cup {None}]
        /\ handles' \subseteq Controllers
    BY <1>10, CallStep, Zenon
  <2>2. Shared
    BY <1>0, <1>10, <2>1, Zenon DEF Call
  <2> QED  BY <1>10, <2>1, <2>2, Zenon DEF Call, IInv, TypeOK, Made, promiseVars, graphVars
<1>11. CASE UNCHANGED vars
  BY <1>11, Zenon DEF vars, IInv, TypeOK, NoLostDrain, NoLostNotification, HasValue, HasException,
     Settled, Made, promiseVars, outcomeVars, queueVars, drainVars, graphVars
<1> QED  BY <1>1, <1>2, <1>3, <1>4, <1>5, <1>6, <1>7, <1>8, <1>9, <1>10, <1>11, Zenon DEF Next

\* The invariant holds in every behaviour of promises, futures and the pool.
THEOREM Invariance == Spec => []IInv
<1>1. Init => IInv
  BY ControllersAssumption DEF Init, IInv, TypeOK, NoLostDrain, NoLostNotification, HasValue,
     HasException, Settled, Made, Controllers
<1> QED  BY <1>1, NextStep, PTL DEF Spec

\* Every variable of the promises, controllers and queues keeps its type.
THEOREM TypeCorrect == Spec => []TypeOK
BY Invariance, PTL DEF IInv

\* However registrations, settlements and drains interleave, a continuation in the queue
\* of a settled controller has a posted drain that will find it.
THEOREM NoLostDrainHolds == Spec => []NoLostDrain
BY Invariance, PTL DEF IInv

\* However waits and settlements interleave, a thread blocked on a settled controller
\* has a notification to come.
THEOREM NoLostNotificationHolds == Spec => []NoLostNotification
BY Invariance, PTL DEF IInv

-----------------------------------------------------------------------------
(* What may settle a child.                                               *)

StageNames == {"own", "inner"}

\* The continuation that will settle t waits at n
WaitsAt(t, n, s) == Queued(n, [target |-> t, stage |-> s])

\* Nothing is left that could settle t, or exactly one thing is
Idle(t) ==
  /\ \A n \in Controllers, s \in StageNames : ~WaitsAt(t, n, s)
  /\ \A c \in calls : c.target # t

DrivenByQueue(t) ==
  /\ \E n \in Controllers, s \in StageNames :
       /\ WaitsAt(t, n, s)
       /\ \A m \in Controllers, r \in StageNames : WaitsAt(t, m, r) => m = n /\ r = s
  /\ \A c \in calls : c.target # t

DrivenByCall(t) ==
  /\ \A n \in Controllers, s \in StageNames : ~WaitsAt(t, n, s)
  /\ \E c \in calls : c.target = t /\ \A d \in calls : d.target = t => d = c

\* The two queues of a controller hold the same until it settles, in one way only
QueuesAgree ==
  \A n \in Controllers : /\ ~Settled(n) => onSuccess[n] = onFail[n]
                         /\ ~(HasValue(n) /\ HasException(n))

\* The completion right of a promise is free, taken or used
ClaimsAreExclusive ==
  \A p \in Promises : /\ claims[p] \in {0, 1}
                      /\ claims[p] = 1 => ~completionPending[p]
                      /\ claims[p] = 1 \/ completionPending[p] => ~Settled(p)

\* A posted call matches the outcome of the controller that posted it
CallsMatchOutcomes ==
  \A c \in calls : /\ c.branch = "success" => HasValue(c.at)
                   /\ c.branch = "fail" => HasException(c.at)

ChildIsDriven(t) ==
  IF t \notin Made \/ t \in unregistered THEN ~Settled(t) /\ Idle(t)
  ELSE IF Settled(t) THEN Idle(t) ELSE DrivenByQueue(t) \/ DrivenByCall(t)

DriverInv ==
  /\ QueuesAgree
  /\ ClaimsAreExclusive
  /\ CallsMatchOutcomes
  /\ \A t \in Children : ChildIsDriven(t)

\* The step leaves what may settle t alone
SameDrivers(t) ==
  /\ \A n \in Controllers, s \in StageNames : WaitsAt(t, n, s)' <=> WaitsAt(t, n, s)
  /\ \A c : c \in calls' /\ c.target = t <=> c \in calls /\ c.target = t

\* Its effect on t: none.
LEMMA SameDriversKeep ==
  ASSUME NEW t \in Children, SameDrivers(t)
  PROVE  /\ Idle(t) => Idle(t)'
         /\ DrivenByQueue(t) => DrivenByQueue(t)'
         /\ DrivenByCall(t) => DrivenByCall(t)'
<1>1. Idle(t) => Idle(t)'
  BY Zenon DEF SameDrivers, Idle
<1>2. DrivenByQueue(t) => DrivenByQueue(t)'
  BY Zenon DEF SameDrivers, DrivenByQueue
<1>3. DrivenByCall(t) => DrivenByCall(t)'
  BY Zenon DEF SameDrivers, DrivenByCall
<1> QED  BY <1>1, <1>2, <1>3, Zenon

\* A child that keeps its drivers, its outcome and its place in the graph stays as it is.
LEMMA ChildUntouched ==
  ASSUME NEW t \in Children, ChildIsDriven(t), SameDrivers(t), Settled(t)' <=> Settled(t),
         t \in Made' <=> t \in Made, t \in unregistered' <=> t \in unregistered
  PROVE  ChildIsDriven(t)'
  BY SameDriversKeep, Zenon DEF ChildIsDriven

\* set_on_success_and_fail puts the continuation in both queues, and nothing else changes.
LEMMA RegisterEffect ==
  ASSUME IInv, DriverInv, NEW n \in Controllers, NEW t \in Children, NEW s \in StageNames,
         Register(n, [target |-> t, stage |-> s])
  PROVE  /\ UNCHANGED <<val, exc>>
         /\ \A m \in Controllers : Settled(m)' <=> Settled(m)
         /\ \A u \in Children, m \in Controllers, r \in StageNames :
              WaitsAt(u, m, r)' <=> WaitsAt(u, m, r) \/ (u = t /\ m = n /\ r = s)
         /\ QueuesAgree'
<1> DEFINE k == [target |-> t, stage |-> s]
<1>1. UNCHANGED <<val, exc>>
  BY Zenon DEF Register, outcomeVars
<1>2. \A m \in Controllers : /\ onSuccess'[m] = IF m = n THEN onSuccess[m] \cup {k} ELSE onSuccess[m]
                             /\ onFail'[m] = IF m = n THEN onFail[m] \cup {k} ELSE onFail[m]
  BY Zenon DEF Register, IInv, TypeOK
<1>3. \A m \in Controllers : /\ HasValue(m)' <=> HasValue(m)
                             /\ HasException(m)' <=> HasException(m)
                             /\ Settled(m)' <=> Settled(m)
  BY <1>1, Zenon DEF HasValue, HasException, Settled
<1>4. ASSUME NEW u \in Children, NEW m \in Controllers, NEW r \in StageNames
      PROVE  WaitsAt(u, m, r)' <=> WaitsAt(u, m, r) \/ (u = t /\ m = n /\ r = s)
  <2> DEFINE j == [target |-> u, stage |-> r]
  <2>1. j = k <=> u = t /\ r = s
    BY Zenon
  <2>2. /\ WaitsAt(u, m, r)' <=> (HasException(m)' \/ j \in onSuccess'[m]) /\ (HasValue(m)' \/ j \in onFail'[m])
        /\ WaitsAt(u, m, r) <=> (HasException(m) \/ j \in onSuccess[m]) /\ (HasValue(m) \/ j \in onFail[m])
    BY Zenon DEF WaitsAt, Queued
  <2> HIDE DEF j, k
  <2>3. /\ m = n /\ j = k => j \in onSuccess'[m] /\ j \in onFail'[m]
        /\ ~(m = n /\ j = k) => /\ j \in onSuccess'[m] <=> j \in onSuccess[m]
                                /\ j \in onFail'[m] <=> j \in onFail[m]
    BY <1>2, Zenon
  <2> QED  BY <1>3, <2>1, <2>2, <2>3, Zenon
<1>5. QueuesAgree'
  BY <1>2, <1>3, Zenon DEF DriverInv, QueuesAgree
<1> QED  BY <1>1, <1>3, <1>4, <1>5, Zenon

\* Settling a controller for the first time moves no continuation.
LEMMA SettleEffect ==
  ASSUME IInv, DriverInv, NEW n \in Controllers, ~Settled(n), NEW v \in Controllers,
         SetValue(n, v) \/ SetException(n, v)
  PROVE  /\ \A m \in Controllers : m # n => val'[m] = val[m] /\ exc'[m] = exc[m]
         /\ Settled(n)'
         /\ \A u \in Children, m \in Controllers, r \in StageNames :
              WaitsAt(u, m, r)' <=> WaitsAt(u, m, r)
         /\ QueuesAgree'
<1>1. UNCHANGED <<onSuccess, onFail>>
  BY Zenon DEF SetValue, SetException, queueVars
<1>2. v # None /\ val[n] = None /\ exc[n] = None /\ onSuccess[n] = onFail[n]
  BY ControllersAssumption, Zenon DEF Settled, HasValue, HasException, DriverInv, QueuesAgree
<1>3. \A m \in Controllers : m # n => val'[m] = val[m] /\ exc'[m] = exc[m]
  BY Zenon DEF SetValue, SetException, IInv, TypeOK
<1>4. \/ val'[n] = v /\ exc'[n] = None
      \/ val'[n] = None /\ exc'[n] = v
  BY <1>2, Zenon DEF SetValue, SetException, IInv, TypeOK
<1>5. Settled(n)'
  BY <1>2, <1>4, Zenon DEF Settled, HasValue, HasException
<1>6. ASSUME NEW u \in Children, NEW m \in Controllers, NEW r \in StageNames
      PROVE  WaitsAt(u, m, r)' <=> WaitsAt(u, m, r)
  BY <1>1, <1>2, <1>3, <1>4, Zenon DEF WaitsAt, Queued, HasValue, HasException
<1>7. QueuesAgree'
  BY <1>1, <1>2, <1>3, <1>4, Zenon DEF DriverInv, QueuesAgree, Settled, HasValue, HasException
<1> QED  BY <1>3, <1>5, <1>6, <1>7, Zenon

\* No outcome that is set changes
OutcomesStay == \A n \in Controllers : Settled(n) => val'[n] = val[n] /\ exc'[n] = exc[n]

\* Calls that were posted still match their outcomes.
LEMMA CallsStillMatch ==
  ASSUME IInv, DriverInv, OutcomesStay, calls' \subseteq calls
  PROVE  CallsMatchOutcomes'
<1>1. \A c \in calls' : c \in calls /\ c.at \in Controllers
  BY Zenon DEF IInv, TypeOK, Calls
<1> QED  BY <1>1, Zenon DEF DriverInv, CallsMatchOutcomes, OutcomesStay, Settled, HasValue, HasException

\* Settling a promise that is not settled keeps every child as it is.
LEMMA PromiseSettles ==
  ASSUME IInv, DriverInv, NEW p \in Promises, ~Settled(p), SetValue(p, p) \/ SetException(p, p),
         UNCHANGED <<calls, graphVars>>
  PROVE  /\ OutcomesStay /\ QueuesAgree' /\ CallsMatchOutcomes'
         /\ \A t \in Children : ChildIsDriven(t)'
         /\ \A q \in Promises : q # p => (Settled(q)' <=> Settled(q))
<1>1. p \in Controllers /\ p \notin Children /\ \A q \in Promises \cup Children : q \in Controllers
  BY ControllersAssumption, Zenon DEF Controllers
<1>2. /\ \A m \in Controllers : m # p => val'[m] = val[m] /\ exc'[m] = exc[m]
      /\ \A u \in Children, m \in Controllers, r \in StageNames : WaitsAt(u, m, r)' <=> WaitsAt(u, m, r)
      /\ QueuesAgree'
  BY <1>1, SettleEffect, Zenon
<1>3. OutcomesStay
  BY <1>2, Zenon DEF OutcomesStay
<1>4. \A m \in Controllers : m # p => (Settled(m)' <=> Settled(m))
  BY <1>2, Zenon DEF Settled, HasValue, HasException
<1>5. ASSUME NEW t \in Children PROVE ChildIsDriven(t)'
  <2>1. SameDrivers(t)
    BY <1>2, Zenon DEF SameDrivers
  <2>2. Settled(t)' <=> Settled(t)
    BY <1>1, <1>4, Zenon
  <2> QED  BY <2>1, <2>2, ChildUntouched, Zenon DEF DriverInv, graphVars, Made
<1> QED  BY <1>1, <1>2, <1>3, <1>4, <1>5, CallsStillMatch, Zenon

\* A continuation registered for a child without drivers becomes its only one; the other
\* children keep theirs.
LEMMA RegisterDrives ==
  ASSUME IInv, DriverInv, NEW n \in Controllers, NEW t \in Children, NEW s \in StageNames,
         Register(n, [target |-> t, stage |-> s]),
         \A m \in Controllers, r \in StageNames : ~WaitsAt(t, m, r),
         \A c \in calls' : c.target # t,
         \A c : c.target # t => (c \in calls' <=> c \in calls)
  PROVE  /\ OutcomesStay /\ QueuesAgree'
         /\ \A m \in Controllers : Settled(m)' <=> Settled(m)
         /\ DrivenByQueue(t)'
         /\ \A u \in Children : u # t => SameDrivers(u)
<1>1. /\ UNCHANGED <<val, exc>> /\ QueuesAgree'
      /\ \A m \in Controllers : Settled(m)' <=> Settled(m)
      /\ \A u \in Children, m \in Controllers, r \in StageNames :
           WaitsAt(u, m, r)' <=> WaitsAt(u, m, r) \/ (u = t /\ m = n /\ r = s)
  BY RegisterEffect
<1>2. OutcomesStay
  BY <1>1, Zenon DEF OutcomesStay
<1>3. \A m \in Controllers, r \in StageNames : WaitsAt(t, m, r)' <=> m = n /\ r = s
  BY <1>1, Zenon
<1>4. DrivenByQueue(t)'
  BY <1>3, Zenon DEF DrivenByQueue
<1>5. ASSUME NEW u \in Children, u # t PROVE SameDrivers(u)
  BY <1>1, <1>5, Zenon DEF SameDrivers
<1> QED  BY <1>1, <1>2, <1>4, <1>5, Zenon

\* The step takes the continuations K out of the queue of n and posts them on branch b
Drains(n, b, K) ==
  /\ calls' = calls \cup {[at |-> n, target |-> k.target, stage |-> k.stage, branch |-> b] : k \in K}
  /\ \A t \in Children, m \in Controllers, s \in StageNames :
       WaitsAt(t, m, s)' <=> WaitsAt(t, m, s) /\ ~(m = n /\ [target |-> t, stage |-> s] \in K)
  /\ \A t \in Children, s \in StageNames : [target |-> t, stage |-> s] \in K => WaitsAt(t, n, s)
  /\ UNCHANGED <<val, exc, graphVars>>

\* A drain turns places in a queue into posted calls, one for one.
LEMMA DrainMoves ==
  ASSUME IInv, DriverInv, NEW n \in Controllers, NEW b, NEW K \in SUBSET Continuations, Drains(n, b, K)
  PROVE  \A t \in Children : ChildIsDriven(t)'
<1> USE DEF Drains
<1> DEFINE Posts(k) == [at |-> n, target |-> k.target, stage |-> k.stage, branch |-> b]
           In(t, s) == [target |-> t, stage |-> s] \in K
<1> SUFFICES ASSUME NEW t \in Children PROVE ChildIsDriven(t)'
  BY Zenon
<1>1. \A k \in K : k.target \in Children /\ k.stage \in StageNames /\ k = [target |-> k.target, stage |-> k.stage]
  BY DEF Continuations, StageNames
<1>2. ASSUME NEW c \in calls', c \notin calls, c.target = t
      PROVE  \E s \in StageNames : In(t, s) /\ c = Posts([target |-> t, stage |-> s])
  <2>1. PICK k \in K : c = Posts(k)
    BY <1>2, Zenon
  <2>2. k.target = t /\ k.stage \in StageNames /\ k = [target |-> t, stage |-> k.stage]
    BY <1>1, <1>2, <2>1, Zenon
  <2> QED  BY <2>1, <2>2, Zenon
<1>3. /\ Settled(t)' <=> Settled(t)
      /\ t \in Made' <=> t \in Made
      /\ t \in unregistered' <=> t \in unregistered
  BY Zenon DEF Settled, HasValue, HasException, Made, graphVars
<1>4. CASE \A s \in StageNames : ~In(t, s)
  <2>1. SameDrivers(t)
    BY <1>2, <1>4, Zenon DEF SameDrivers
  <2> QED  BY <1>3, <2>1, ChildUntouched, Zenon DEF DriverInv
<1>5. ASSUME NEW s \in StageNames, In(t, s) PROVE ChildIsDriven(t)'
  <2>1. WaitsAt(t, n, s)
    BY <1>5, Zenon
  <2>2. /\ t \in Made /\ t \notin unregistered /\ ~Settled(t)
        /\ DrivenByQueue(t)
    BY <2>1, Zenon DEF DriverInv, ChildIsDriven, Idle, DrivenByCall
  <2>3. /\ \A m \in Controllers, r \in StageNames : WaitsAt(t, m, r) => m = n /\ r = s
        /\ \A c \in calls : c.target # t
    BY <2>1, <2>2, Zenon DEF DrivenByQueue
  <2>4. \A m \in Controllers, r \in StageNames : ~WaitsAt(t, m, r)'
    BY <1>5, <2>3, Zenon
  <2> DEFINE new == Posts([target |-> t, stage |-> s])
  <2>5. new \in calls' /\ new.target = t
    BY <1>5
  <2>6. ASSUME NEW c \in calls', c.target = t PROVE c = new
    <3>1. PICK r \in StageNames : In(t, r) /\ c = Posts([target |-> t, stage |-> r])
      BY <1>2, <2>3, <2>6, Zenon
    <3>2. r = s
      BY <2>3, <3>1, Zenon
    <3> QED  BY <3>1, <3>2, Zenon
  <2>7. DrivenByCall(t)'
    BY <2>4, <2>5, <2>6, Zenon DEF DrivenByCall
  <2> QED  BY <1>3, <2>2, <2>7, Zenon DEF ChildIsDriven
<1> QED  BY <1>4, <1>5, Zenon

\* The task of process_on_success_async keeps the invariant.
LEMMA DrainSuccessKeeps ==
  ASSUME IInv, DriverInv, NEW n \in Controllers, DrainSuccess(n)
  PROVE  DriverInv' /\ OutcomesStay
<1> DEFINE K == IF HasValue(n) THEN onSuccess[n] ELSE {}
<1>1. /\ UNCHANGED <<val, exc, onFail, claims, completionPending, graphVars>>
      /\ \A m \in Controllers : onSuccess'[m] = IF m = n /\ Settled(n) THEN {} ELSE onSuccess[m]
      /\ calls' = calls \cup {[at |-> n, target |-> k.target, stage |-> k.stage, branch |-> "success"] : k \in K}
  BY Zenon DEF DrainSuccess, promiseVars, outcomeVars, IInv, TypeOK
<1>2. K \in SUBSET Continuations
  BY Zenon DEF IInv, TypeOK
<1>3. \A m \in Controllers : /\ HasValue(m)' <=> HasValue(m)
                             /\ HasException(m)' <=> HasException(m)
                             /\ Settled(m)' <=> Settled(m)
                             /\ ~(HasValue(m) /\ HasException(m))
                             /\ Settled(m) <=> HasValue(m) \/ HasException(m)
  BY <1>1, Zenon DEF HasValue, HasException, Settled, DriverInv, QueuesAgree
<1>4. ASSUME NEW t \in Children, NEW m \in Controllers, NEW s \in StageNames
      PROVE  WaitsAt(t, m, s)' <=> WaitsAt(t, m, s) /\ ~(m = n /\ [target |-> t, stage |-> s] \in K)
  <2> DEFINE j == [target |-> t, stage |-> s]
  <2>1. /\ WaitsAt(t, m, s)' <=> (HasException(m)' \/ j \in onSuccess'[m]) /\ (HasValue(m)' \/ j \in onFail'[m])
        /\ WaitsAt(t, m, s) <=> (HasException(m) \/ j \in onSuccess[m]) /\ (HasValue(m) \/ j \in onFail[m])
    BY Zenon DEF WaitsAt, Queued
  <2> HIDE DEF j
  <2>2. WaitsAt(t, m, s)' <=> WaitsAt(t, m, s) /\ ~(m = n /\ j \in K)
    BY <1>1, <1>3, <2>1, Zenon
  <2> QED  BY <2>2, Zenon DEF j
<1>5. ASSUME NEW t \in Children, NEW s \in StageNames, [target |-> t, stage |-> s] \in K
      PROVE  WaitsAt(t, n, s)
  BY <1>5, Zenon DEF WaitsAt, Queued
<1>6. \A t \in Children : ChildIsDriven(t)'
  <2> HIDE DEF K
  <2>1. Drains(n, "success", K)
    BY <1>1, <1>4, <1>5, Zenon DEF Drains
  <2> QED  BY <1>2, <2>1, DrainMoves, Zenon
<1>7. QueuesAgree'
  BY <1>1, <1>3, Zenon DEF QueuesAgree, DriverInv
<1>8. ClaimsAreExclusive'
  BY <1>1, Zenon DEF ClaimsAreExclusive, DriverInv, Settled, HasValue, HasException
<1>9. CallsMatchOutcomes'
  <2>1. ASSUME NEW c \in calls' PROVE (c.branch = "success" => HasValue(c.at)') /\ (c.branch = "fail" => HasException(c.at)')
    <3>1. CASE c \in calls
      BY <1>1, <3>1, Zenon DEF DriverInv, CallsMatchOutcomes, HasValue, HasException
    <3>2. CASE c \notin calls
      <4>1. HasValue(n) /\ c.at = n /\ c.branch = "success"
        BY <1>1, <3>2
      <4> QED  BY <1>3, <4>1, Zenon
    <3> QED  BY <3>1, <3>2, Zenon
  <2> QED  BY <2>1, Zenon DEF CallsMatchOutcomes
<1> QED  BY <1>1, <1>6, <1>7, <1>8, <1>9, Zenon DEF DriverInv, OutcomesStay

\* The task of process_on_fail_async keeps the invariant.
LEMMA DrainFailKeeps ==
  ASSUME IInv, DriverInv, NEW n \in Controllers, DrainFail(n)
  PROVE  DriverInv' /\ OutcomesStay
<1> DEFINE K == IF HasException(n) THEN onFail[n] ELSE {}
<1>1. /\ UNCHANGED <<val, exc, onSuccess, claims, completionPending, graphVars>>
      /\ \A m \in Controllers : onFail'[m] = IF m = n /\ Settled(n) THEN {} ELSE onFail[m]
      /\ calls' = calls \cup {[at |-> n, target |-> k.target, stage |-> k.stage, branch |-> "fail"] : k \in K}
  BY Zenon DEF DrainFail, promiseVars, outcomeVars, IInv, TypeOK
<1>2. K \in SUBSET Continuations
  BY Zenon DEF IInv, TypeOK
<1>3. \A m \in Controllers : /\ HasValue(m)' <=> HasValue(m)
                             /\ HasException(m)' <=> HasException(m)
                             /\ Settled(m)' <=> Settled(m)
                             /\ ~(HasValue(m) /\ HasException(m))
                             /\ Settled(m) <=> HasValue(m) \/ HasException(m)
  BY <1>1, Zenon DEF HasValue, HasException, Settled, DriverInv, QueuesAgree
<1>4. ASSUME NEW t \in Children, NEW m \in Controllers, NEW s \in StageNames
      PROVE  WaitsAt(t, m, s)' <=> WaitsAt(t, m, s) /\ ~(m = n /\ [target |-> t, stage |-> s] \in K)
  <2> DEFINE j == [target |-> t, stage |-> s]
  <2>1. /\ WaitsAt(t, m, s)' <=> (HasException(m)' \/ j \in onSuccess'[m]) /\ (HasValue(m)' \/ j \in onFail'[m])
        /\ WaitsAt(t, m, s) <=> (HasException(m) \/ j \in onSuccess[m]) /\ (HasValue(m) \/ j \in onFail[m])
    BY Zenon DEF WaitsAt, Queued
  <2> HIDE DEF j
  <2>2. WaitsAt(t, m, s)' <=> WaitsAt(t, m, s) /\ ~(m = n /\ j \in K)
    BY <1>1, <1>3, <2>1, Zenon
  <2> QED  BY <2>2, Zenon DEF j
<1>5. ASSUME NEW t \in Children, NEW s \in StageNames, [target |-> t, stage |-> s] \in K
      PROVE  WaitsAt(t, n, s)
  BY <1>5, Zenon DEF WaitsAt, Queued
<1>6. \A t \in Children : ChildIsDriven(t)'
  <2> HIDE DEF K
  <2>1. Drains(n, "fail", K)
    BY <1>1, <1>4, <1>5, Zenon DEF Drains
  <2> QED  BY <1>2, <2>1, DrainMoves, Zenon
<1>7. QueuesAgree'
  BY <1>1, <1>3, Zenon DEF QueuesAgree, DriverInv
<1>8. ClaimsAreExclusive'
  BY <1>1, Zenon DEF ClaimsAreExclusive, DriverInv, Settled, HasValue, HasException
<1>9. CallsMatchOutcomes'
  <2>1. ASSUME NEW c \in calls' PROVE (c.branch = "success" => HasValue(c.at)') /\ (c.branch = "fail" => HasException(c.at)')
    <3>1. CASE c \in calls
      BY <1>1, <3>1, Zenon DEF DriverInv, CallsMatchOutcomes, HasValue, HasException
    <3>2. CASE c \notin calls
      <4>1. PICK k \in K : c = [at |-> n, target |-> k.target, stage |-> k.stage, branch |-> "fail"]
        <5> HIDE DEF K
        <5> QED  BY <1>1, <3>2, Zenon
      <4>2. HasException(n)
        BY <4>1, Zenon
      <4>3. c.at = n /\ c.branch = "fail"
        <5> HIDE DEF K
        <5> QED  BY <4>1, Zenon
      <4> QED  BY <1>3, <4>2, <4>3, Zenon
    <3> QED  BY <3>1, <3>2, Zenon
  <2> QED  BY <2>1, Zenon DEF CallsMatchOutcomes
<1> QED  BY <1>1, <1>6, <1>7, <1>8, <1>9, Zenon DEF DriverInv, OutcomesStay

\* What a posted call does to its target: it settles it, or registers it on the future that
\* its callback returned.
LEMMA CallShape ==
  ASSUME IInv, DriverInv, NEW c \in calls, Call(c)
  PROVE  \/ \E v \in Controllers : SetValue(c.target, v) \/ SetException(c.target, v)
         \/ \E m \in Promises : Register(m, [target |-> c.target, stage |-> "inner"])
<1>1. PICK t \in Children, n \in Controllers : t = c.target /\ n = c.at
  BY Zenon DEF IInv, TypeOK, Calls
<1>2. /\ t \in Controllers
      /\ c.branch = "success" => val[n] \in Controllers
      /\ c.branch = "fail" => exc[n] \in Controllers
      /\ \A m \in Controllers : returned[m] # None => returned[m] \in Promises
      /\ \A m \in Controllers : /\ HasValue(m) => val[m] \in Controllers
                                /\ HasException(m) => exc[m] \in Controllers
  BY <1>1 DEF IInv, TypeOK, Controllers, DriverInv, CallsMatchOutcomes, HasValue, HasException
<1> DEFINE Goal == \/ \E v \in Controllers : SetValue(t, v) \/ SetException(t, v)
                   \/ \E m \in Promises : Register(m, [target |-> t, stage |-> "inner"])
<1>3. ASSUME NEW v \in Controllers, Yields(t, v) \/ Raises(t, v)  PROVE Goal
  BY <1>3, Zenon DEF Yields, Raises
<1>4. ASSUME CallbackThrows(t) \/ CallbackReturnsFuture(t)  PROVE Goal
  BY <1>2, <1>4, Zenon DEF CallbackThrows, Raises, CallbackReturnsFuture, Adopt
<1>5. ASSUME c.branch = "success", OnSuccess(n, t)  PROVE Goal
  <2>1. ASSUME StoreFuture(t)  PROVE Goal
    BY <1>2, <2>1, Zenon DEF StoreFuture, Yields
  <2>2. ASSUME FlattenStored(n, t)  PROVE Goal
    BY <1>2, <1>4, <2>2, Zenon DEF FlattenStored
  <2> QED  BY <1>2, <1>3, <1>4, <1>5, <2>1, <2>2, Zenon DEF OnSuccess
<1>6. ASSUME c.branch = "fail", OnFail(n, t)  PROVE Goal
  BY <1>2, <1>3, <1>4, <1>6, Zenon DEF OnFail
<1>7. ASSUME c.branch = "success", OnInnerSuccess(n, t)  PROVE Goal
  <2>1. kind[t] = "finallyFuture" => source[t] \in Controllers
    BY <1>1, Zenon DEF IInv, Made
  <2> QED  BY <1>2, <1>3, <1>7, <2>1, Zenon DEF OnInnerSuccess
<1>8. ASSUME c.branch = "fail", OnInnerFail(n, t)  PROVE Goal
  BY <1>2, <1>3, <1>8, Zenon DEF OnInnerFail
<1> QED  BY <1>1, <1>5, <1>6, <1>7, <1>8, Zenon DEF Call

\* call_success and call_fail use up the driver of their target, and settle the target or
\* give it the next one.
LEMMA CallKeeps ==
  ASSUME IInv, DriverInv, NEW c \in calls, Call(c)
  PROVE  DriverInv' /\ OutcomesStay
<1>1. PICK t \in Children : t = c.target
  BY Zenon DEF IInv, TypeOK, Calls
<1>2. calls' = calls \ {c} /\ UNCHANGED <<claims, completionPending, graphVars>>
  BY Zenon DEF Call, promiseVars
<1>3. t \in Made /\ t \notin unregistered /\ ~Settled(t) /\ DrivenByCall(t)
  BY <1>1, Zenon DEF DriverInv, ChildIsDriven, Idle, DrivenByQueue
<1>4. /\ \A m \in Controllers, r \in StageNames : ~WaitsAt(t, m, r)
      /\ \A d \in calls' : d.target # t
      /\ \A d : d.target # t => (d \in calls' <=> d \in calls)
  BY <1>1, <1>2, <1>3, Zenon DEF DrivenByCall
<1>5. \A u \in Children : (u \in Made' <=> u \in Made) /\ (u \in unregistered' <=> u \in unregistered)
  BY <1>2, Zenon DEF graphVars, Made
<1>6. t \in Controllers /\ t \notin Promises
  BY ControllersAssumption, Zenon DEF Controllers
<1>7. CASE \E v \in Controllers : SetValue(t, v) \/ SetException(t, v)
  <2>1. /\ \A m \in Controllers : m # t => val'[m] = val[m] /\ exc'[m] = exc[m]
        /\ Settled(t)'
        /\ \A u \in Children, m \in Controllers, r \in StageNames : WaitsAt(u, m, r)' <=> WaitsAt(u, m, r)
        /\ QueuesAgree'
    BY <1>3, <1>6, <1>7, SettleEffect, Zenon
  <2>2. OutcomesStay /\ \A m \in Controllers : m # t => (Settled(m)' <=> Settled(m))
    BY <1>3, <2>1, Zenon DEF OutcomesStay, Settled, HasValue, HasException
  <2>3. CallsMatchOutcomes'
    BY <1>2, <2>2, CallsStillMatch, Zenon
  <2>4. ClaimsAreExclusive'
    BY <1>2, <1>6, <2>2, Zenon DEF DriverInv, ClaimsAreExclusive, Controllers
  <2>5. ASSUME NEW u \in Children PROVE ChildIsDriven(u)'
    <3>1. CASE u = t
      <4>1. Idle(t)'
        BY <1>4, <2>1, Zenon DEF Idle
      <4> QED  BY <1>3, <1>5, <2>1, <3>1, <4>1, Zenon DEF ChildIsDriven
    <3>2. CASE u # t
      <4>1. SameDrivers(u)
        BY <1>4, <2>1, <3>2, Zenon DEF SameDrivers
      <4>2. Settled(u)' <=> Settled(u)
        BY <2>2, <3>2, Zenon DEF Controllers
      <4> QED  BY <1>5, <4>1, <4>2, ChildUntouched, Zenon DEF DriverInv
    <3> QED  BY <3>1, <3>2, Zenon
  <2> QED  BY <2>1, <2>2, <2>3, <2>4, <2>5, Zenon DEF DriverInv
<1>8. CASE \E m \in Promises : Register(m, [target |-> t, stage |-> "inner"])
  <2>1. PICK m \in Controllers : Register(m, [target |-> t, stage |-> "inner"])
    BY <1>8, Zenon DEF Controllers
  <2>2. /\ OutcomesStay /\ QueuesAgree'
        /\ \A n \in Controllers : Settled(n)' <=> Settled(n)
        /\ DrivenByQueue(t)'
        /\ \A u \in Children : u # t => SameDrivers(u)
    BY <1>4, <2>1, RegisterDrives, Zenon DEF StageNames
  <2>3. CallsMatchOutcomes'
    BY <1>2, <2>2, CallsStillMatch, Zenon
  <2>4. ClaimsAreExclusive'
    BY <1>2, <2>2, Zenon DEF DriverInv, ClaimsAreExclusive, Controllers
  <2>5. ASSUME NEW u \in Children PROVE ChildIsDriven(u)'
    <3>1. Settled(u)' <=> Settled(u)
      BY <2>2, Zenon DEF Controllers
    <3>2. CASE u = t
      BY <1>3, <1>5, <2>2, <3>1, <3>2, Zenon DEF ChildIsDriven
    <3>3. CASE u # t
      BY <1>5, <2>2, <3>1, <3>3, ChildUntouched, Zenon DEF DriverInv
    <3> QED  BY <3>2, <3>3, Zenon
  <2> QED  BY <2>2, <2>3, <2>4, <2>5, Zenon DEF DriverInv
<1> QED  BY <1>1, <1>7, <1>8, CallShape, Zenon

\* A promise that is completed, or destroyed with its completion right, was not settled.
LEMMA SettlesAnUnsettled ==
  ASSUME DriverInv, NEW p \in Promises, ClaimCompletion(p) \/ Complete(p) \/ Abandon(p)
  PROVE  ~Settled(p) \/ UNCHANGED <<outcomeVars, queueVars>>
<1>1. claims[p] \in {0, 1} /\ (claims[p] = 1 \/ completionPending[p] => ~Settled(p))
  BY Zenon DEF DriverInv, ClaimsAreExclusive
<1>2. CASE ClaimCompletion(p)
  BY <1>2, Zenon DEF ClaimCompletion
<1>3. CASE Complete(p)
  <2>1. claims[p] > 0
    BY <1>3, Zenon DEF Complete
  <2> QED  BY <1>1, <2>1
<1>4. CASE Abandon(p)
  <2>1. completionPending[p] \/ UNCHANGED <<outcomeVars, queueVars>>
    BY <1>4, Zenon DEF Abandon
  <2> QED  BY <1>1, <2>1, Zenon
<1> QED  BY <1>2, <1>3, <1>4, Zenon

\* Taking the completion right of a promise, completing it with that right and destroying
\* it settle the promise once at most.
LEMMA PromiseKeeps ==
  ASSUME IInv, DriverInv, NEW p \in Promises, ClaimCompletion(p) \/ Complete(p) \/ Abandon(p)
  PROVE  DriverInv' /\ OutcomesStay
<1>1. UNCHANGED <<calls, graphVars>>
  BY Zenon DEF ClaimCompletion, Complete, Abandon
<1>2. CASE UNCHANGED <<outcomeVars, queueVars>>
  <2>1. /\ OutcomesStay /\ QueuesAgree'
        /\ \A m \in Controllers : Settled(m)' <=> Settled(m)
        /\ \A t \in Children : SameDrivers(t)
    BY <1>1, <1>2, Zenon DEF OutcomesStay, outcomeVars, queueVars, DriverInv, QueuesAgree, Settled, HasValue,
       HasException, SameDrivers, WaitsAt, Queued
  <2>2. CallsMatchOutcomes'
    BY <1>1, <2>1, CallsStillMatch, Zenon
  <2>3. ClaimsAreExclusive'
    <3>1. \A q \in Promises : q \in Controllers
      BY Zenon DEF Controllers
    <3>2. Complete(p) => FALSE
      <4> SUFFICES ASSUME Complete(p) PROVE FALSE
        BY Zenon
      <4>1. claims[p] > 0 /\ (SetValue(p, p) \/ SetException(p, p))
        BY Zenon DEF Complete
      <4>2. ~Settled(p)
        <5>1. claims[p] \in {0, 1} /\ (claims[p] = 1 => ~Settled(p))
          BY Zenon DEF DriverInv, ClaimsAreExclusive
        <5> QED  BY <4>1, <5>1
      <4>3. Settled(p)'
        BY <3>1, <4>1, <4>2, SettleEffect, Zenon
      <4> QED  BY <2>1, <3>1, <4>2, <4>3, Zenon
    <3>3. /\ claims \in [Promises -> Nat] /\ completionPending \in [Promises -> BOOLEAN]
          /\ ClaimsAreExclusive
      BY Zenon DEF IInv, TypeOK, DriverInv
    <3>4. CASE ClaimCompletion(p)
      BY <2>1, <3>1, <3>3, <3>4 DEF ClaimCompletion, ClaimsAreExclusive
    <3>5. CASE Abandon(p)
      BY <2>1, <3>1, <3>3, <3>5, Zenon DEF Abandon, ClaimsAreExclusive
    <3> QED  BY <3>2, <3>4, <3>5, Zenon
  <2>4. ASSUME NEW t \in Children PROVE ChildIsDriven(t)'
    BY <1>1, <2>1, ChildUntouched, Zenon DEF DriverInv, graphVars, Made, Controllers
  <2> QED  BY <2>1, <2>2, <2>3, <2>4, Zenon DEF DriverInv
<1>3. CASE SetValue(p, p) \/ SetException(p, p)
  <2>1. ~Settled(p) \/ UNCHANGED <<outcomeVars, queueVars>>
    BY SettlesAnUnsettled, Zenon
  <2>2. CASE ~Settled(p)
    <3>1. /\ OutcomesStay /\ QueuesAgree' /\ CallsMatchOutcomes'
          /\ \A t \in Children : ChildIsDriven(t)'
          /\ \A q \in Promises : q # p => (Settled(q)' <=> Settled(q))
          /\ Settled(p)'
      BY <1>1, <1>3, <2>2, PromiseSettles, SettleEffect, Zenon DEF Controllers
    <3>2. claims'[p] = 0 /\ ~completionPending'[p]
      <4>1. CASE Complete(p)
        BY <4>1 DEF Complete, DriverInv, ClaimsAreExclusive, IInv, TypeOK
      <4>2. CASE Abandon(p)
        BY <4>2, Zenon DEF Abandon, IInv, TypeOK
      <4>3. CASE ClaimCompletion(p)
        <5>1. UNCHANGED <<val, exc>>
          BY <4>3, Zenon DEF ClaimCompletion, outcomeVars
        <5> QED  BY <2>2, <3>1, <5>1, Zenon DEF Settled, HasValue, HasException
      <4> QED  BY <4>1, <4>2, <4>3, Zenon
    <3>3. ASSUME NEW q \in Promises, q # p
          PROVE  claims'[q] = claims[q] /\ completionPending'[q] = completionPending[q]
      <4>1. CASE ClaimCompletion(p)
        BY <3>3, <4>1, Zenon DEF ClaimCompletion, IInv, TypeOK
      <4>2. CASE Complete(p)
        BY <3>3, <4>2, Zenon DEF Complete, IInv, TypeOK
      <4>3. CASE Abandon(p)
        BY <3>3, <4>3, Zenon DEF Abandon, IInv, TypeOK
      <4> QED  BY <4>1, <4>2, <4>3, Zenon
    <3>4. ClaimsAreExclusive'
      <4>1. ASSUME NEW q \in Promises, q # p
            PROVE  /\ claims'[q] \in {0, 1}
                   /\ claims'[q] = 1 => ~completionPending'[q]
                   /\ claims'[q] = 1 \/ completionPending'[q] => ~Settled(q)'
        BY <3>1, <3>3, <4>1, Zenon DEF DriverInv, ClaimsAreExclusive
      <4> QED  BY <3>2, <4>1 DEF ClaimsAreExclusive
    <3> QED  BY <3>1, <3>4, Zenon DEF DriverInv
  <2> QED  BY <1>2, <2>1, <2>2, Zenon
<1> QED  BY <1>2, <1>3, Zenon DEF ClaimCompletion, Complete, Abandon

\* then, catched and finally give the new child its driver; a child that flattens another
\* stays idle until it is registered itself.
LEMMA MakeChildKeeps ==
  ASSUME IInv, DriverInv, NEW n \in Controllers, NEW c \in Children, NEW k \in UsedKinds, MakeChild(n, c, k)
  PROVE  DriverInv' /\ OutcomesStay
<1>1. c \notin Made /\ c \notin unregistered /\ Idle(c) /\ ~Settled(c) /\ k # "none"
  BY UsedKindsAssumption, Zenon DEF MakeChild, DriverInv, ChildIsDriven, IInv, Kinds
<1>2. UNCHANGED <<calls, claims, completionPending>>
  BY Zenon DEF MakeChild, promiseVars
<1>3. /\ OutcomesStay /\ QueuesAgree'
      /\ \A m \in Controllers : Settled(m)' <=> Settled(m)
      /\ DrivenByQueue(c)'
      /\ \A u \in Children : u # c => SameDrivers(u)
  BY <1>1, <1>2, RegisterDrives, Zenon DEF MakeChild, Idle, StageNames
<1>4. CallsMatchOutcomes'
  BY <1>2, <1>3, CallsStillMatch, Zenon
<1>5. ClaimsAreExclusive'
  BY <1>2, <1>3, Zenon DEF DriverInv, ClaimsAreExclusive, Controllers
<1>6. ASSUME NEW u \in Children PROVE ChildIsDriven(u)'
  <2>1. Settled(u)' <=> Settled(u)
    BY <1>3, Zenon DEF Controllers
  <2>2. CASE u = c
    <3>1. c \in Made' /\ c \notin unregistered'
      BY <1>1 DEF MakeChild, Made, IInv, TypeOK
    <3> QED  BY <1>1, <1>3, <2>1, <2>2, <3>1, Zenon DEF ChildIsDriven
  <2>3. CASE u # c /\ u \notin unregistered'
    <3>1. (u \in Made' <=> u \in Made) /\ u \notin unregistered
      <4>1. kind \in [Children -> Kinds \cup {"none", "flatten"}]
        BY Zenon DEF IInv, TypeOK
      <4>2. CASE kind' = [kind EXCEPT ![c] = k] /\ UNCHANGED unregistered
        BY <2>3, <4>1, <4>2, Zenon DEF Made
      <4>3. ASSUME NEW d, kind' = [kind EXCEPT ![c] = k, ![d] = "flatten"], unregistered' = unregistered \cup {d}
            PROVE  (u \in Made' <=> u \in Made) /\ u \notin unregistered
        BY <2>3, <4>1, <4>3, Zenon DEF Made
      <4> QED  BY <4>2, <4>3, Zenon DEF MakeChild
    <3> QED  BY <1>3, <2>1, <2>3, <3>1, ChildUntouched, Zenon DEF DriverInv
  <2>4. CASE u # c /\ u \in unregistered'
    <3>1. ~Settled(u) /\ Idle(u)
      BY <2>4, Zenon DEF MakeChild, DriverInv, ChildIsDriven
    <3>2. Idle(u)'
      BY <1>3, <2>4, <3>1, SameDriversKeep, Zenon
    <3> QED  BY <2>1, <2>4, <3>1, <3>2, Zenon DEF ChildIsDriven
  <2> QED  BY <2>2, <2>3, <2>4, Zenon
<1> QED  BY <1>3, <1>4, <1>5, <1>6, Zenon DEF DriverInv

\* flatten_future registers the child that thenFuture left without a driver.
LEMMA FlattenFutureKeeps ==
  ASSUME IInv, DriverInv, NEW d \in Children, FlattenFuture(d)
  PROVE  DriverInv' /\ OutcomesStay
<1>1. d \in Made /\ d \in unregistered /\ Idle(d) /\ ~Settled(d) /\ source[d] \in Controllers
  BY Zenon DEF FlattenFuture, DriverInv, ChildIsDriven, IInv
<1>2. UNCHANGED <<calls, claims, completionPending, kind>> /\ unregistered' = unregistered \ {d}
  BY Zenon DEF FlattenFuture, promiseVars
<1>3. /\ OutcomesStay /\ QueuesAgree'
      /\ \A m \in Controllers : Settled(m)' <=> Settled(m)
      /\ DrivenByQueue(d)'
      /\ \A u \in Children : u # d => SameDrivers(u)
  BY <1>1, <1>2, RegisterDrives, Zenon DEF FlattenFuture, Idle, StageNames
<1>4. CallsMatchOutcomes'
  BY <1>2, <1>3, CallsStillMatch, Zenon
<1>5. ClaimsAreExclusive'
  BY <1>2, <1>3, Zenon DEF DriverInv, ClaimsAreExclusive, Controllers
<1>6. ASSUME NEW u \in Children PROVE ChildIsDriven(u)'
  <2>1. (Settled(u)' <=> Settled(u)) /\ (u \in Made' <=> u \in Made)
    BY <1>2, <1>3, Zenon DEF Controllers, Made
  <2>2. CASE u = d
    BY <1>1, <1>2, <1>3, <2>1, <2>2, Zenon DEF ChildIsDriven
  <2>3. CASE u # d
    BY <1>2, <1>3, <2>1, <2>3, ChildUntouched, Zenon DEF DriverInv
  <2> QED  BY <2>2, <2>3, Zenon
<1> QED  BY <1>3, <1>4, <1>5, <1>6, Zenon DEF DriverInv

\* Every step keeps the drivers' invariant, and no step changes an outcome.
LEMMA DriverStep == IInv /\ DriverInv /\ [Next]_vars => DriverInv' /\ OutcomesStay
<1> SUFFICES ASSUME IInv, DriverInv, [Next]_vars  PROVE DriverInv' /\ OutcomesStay
  BY Zenon
<1>1. ASSUME UNCHANGED <<val, exc, onSuccess, onFail, calls, claims, completionPending, graphVars>>
      PROVE  DriverInv' /\ OutcomesStay
  <2>1. OutcomesStay /\ QueuesAgree' /\ ClaimsAreExclusive'
    BY <1>1, Zenon DEF OutcomesStay, DriverInv, QueuesAgree, ClaimsAreExclusive, Settled, HasValue, HasException
  <2>2. CallsMatchOutcomes'
    BY <1>1, <2>1, CallsStillMatch, Zenon
  <2>3. ASSUME NEW t \in Children PROVE ChildIsDriven(t)'
    <3>1. SameDrivers(t)
      BY <1>1, Zenon DEF SameDrivers, WaitsAt, Queued, HasValue, HasException
    <3> QED  BY <1>1, <3>1, ChildUntouched, Zenon DEF DriverInv, graphVars, Made, Settled, HasValue, HasException
  <2> QED  BY <2>1, <2>2, <2>3, Zenon DEF DriverInv
<1>2. ASSUME NEW n \in Controllers, Wait(n) \/ NotifyAll(n)  PROVE DriverInv' /\ OutcomesStay
  BY <1>1, <1>2, Zenon DEF Wait, NotifyAll, promiseVars, outcomeVars, queueVars
<1>3. CASE UNCHANGED vars
  BY <1>1, <1>3, Zenon DEF vars, promiseVars, outcomeVars, queueVars
<1>4. ASSUME NEW p \in Promises, ClaimCompletion(p) \/ Complete(p) \/ Abandon(p)  PROVE DriverInv' /\ OutcomesStay
  BY <1>4, PromiseKeeps, Zenon
<1>5. ASSUME NEW n \in Controllers, DrainSuccess(n) \/ DrainFail(n)  PROVE DriverInv' /\ OutcomesStay
  BY <1>5, DrainSuccessKeeps, DrainFailKeeps, Zenon
<1>6. ASSUME NEW n \in Controllers, NEW c \in Children, NEW k \in UsedKinds, MakeChild(n, c, k)
      PROVE  DriverInv' /\ OutcomesStay
  BY <1>6, MakeChildKeeps, Zenon
<1>7. ASSUME NEW d \in Children, FlattenFuture(d)  PROVE DriverInv' /\ OutcomesStay
  BY <1>7, FlattenFutureKeeps, Zenon
<1>8. ASSUME NEW c \in calls, Call(c)  PROVE DriverInv' /\ OutcomesStay
  BY <1>8, CallKeeps, Zenon
<1> QED  BY <1>2, <1>3, <1>4, <1>5, <1>6, <1>7, <1>8, Zenon DEF Next

\* The drivers' invariant holds in every behaviour.
THEOREM DriverInvariance == Spec => []DriverInv
<1>1. Init => DriverInv
  <2> SUFFICES ASSUME Init PROVE DriverInv
    BY Zenon
  <2>1. \A n \in Controllers : ~HasValue(n) /\ ~HasException(n) /\ onSuccess[n] = {} /\ onFail[n] = {}
    BY Zenon DEF Init, HasValue, HasException
  <2>2. QueuesAgree /\ ClaimsAreExclusive /\ CallsMatchOutcomes
    BY <2>1 DEF Init, QueuesAgree, ClaimsAreExclusive, CallsMatchOutcomes, Settled, Controllers
  <2>3. ASSUME NEW t \in Children PROVE ChildIsDriven(t)
    BY <2>1, Zenon DEF Init, ChildIsDriven, Made, Settled, Idle, WaitsAt, Queued, Controllers
  <2> QED  BY <2>2, <2>3, Zenon DEF DriverInv
<1> QED  BY <1>1, DriverStep, Invariance, PTL DEF Spec

\* However claims, destructions, drains and posted calls interleave, the value or the
\* exception a controller has is the one it keeps.
THEOREM OutcomeIsFinalHolds == Spec => OutcomeIsFinal
<1>1. IInv /\ DriverInv /\ [Next]_vars
      => [\A n \in Controllers : Settled(n) => val'[n] = val[n] /\ exc'[n] = exc[n]]_vars
  BY DriverStep, Zenon DEF OutcomesStay
<1> QED  BY <1>1, Invariance, DriverInvariance, PTL DEF Spec, OutcomeIsFinal

-----------------------------------------------------------------------------
(* Where the outcome of a child comes from.                                *)

\* The continuation that will settle t is at n, waiting or posted
Driving(t, n, s) == WaitsAt(t, n, s) \/ \E c \in calls : c.target = t /\ c.at = n /\ c.stage = s

\* Why t is registered on m a second time: m is the future that a callback returned
Inner(t, m) ==
  \/ kind[t] = "flatten" /\ HasValue(source[t]) /\ m = returned[source[t]]
  \/ kind[t] = "catchedFuture" /\ HasException(source[t]) /\ m = returned[t]
  \/ kind[t] = "finallyFuture" /\ Settled(source[t]) /\ m = returned[t]

\* Where the continuation of t may be, and since when t has a returned future
InPlace(t) ==
  /\ t \notin Made \/ t \in unregistered => returned[t] = None
  /\ \A n \in Controllers : /\ Driving(t, n, "own") => n = source[t] /\ returned[t] = None
                            /\ Driving(t, n, "inner") => Inner(t, n)

\* Where the outcome of t came from.  As OutcomesPropagate, and the controllers it came
\* from are settled, so that they stay as they are.
Explained(t) ==
  LET n == source[t]
      m == returned[t]
      like(s) == Settled(s) /\ val[t] = val[s] /\ exc[t] = exc[s]
      fails == exc[t] = t
  IN  /\ Settled(n)
      /\ kind[t] \in {"then", "thenFuture"} => IF HasException(n) THEN like(n) ELSE fails \/ val[t] = t
      /\ kind[t] = "flatten" => \/ HasException(n) /\ like(n)
                                \/ HasValue(n) /\ IF returned[n] = None THEN fails ELSE like(returned[n])
      /\ kind[t] = "catched" => IF HasValue(n) THEN like(n) ELSE fails \/ val[t] = t
      /\ kind[t] = "catchedFuture" => IF HasValue(n) THEN like(n)
                                      ELSE IF m = None THEN fails ELSE like(m)
      /\ kind[t] = "finally" => fails \/ like(n)
      /\ kind[t] = "finallyFuture" => IF m = None THEN fails
                                      ELSE Settled(m) /\ IF HasException(m) THEN exc[t] = exc[m] ELSE like(n)

\* A controller that is settled keeps the future its callback returned
ReturnedStay == \A n \in Controllers : Settled(n) => returned'[n] = returned[n]

\* An explained outcome stays explained: everything it rests on is settled.
LEMMA ExplainedStays ==
  ASSUME IInv, OutcomesStay, ReturnedStay, NEW t \in Made, Settled(t), Explained(t),
         kind'[t] = kind[t], source'[t] = source[t]
  PROVE  Explained(t)'
<1>1. t \in Controllers /\ source[t] \in Controllers
  BY Zenon DEF IInv, Made, Controllers
<1>2. returned'[t] = returned[t] /\ val'[t] = val[t] /\ exc'[t] = exc[t]
  BY <1>1, Zenon DEF OutcomesStay, ReturnedStay
<1>3. \A s \in Controllers : Settled(s) =>
        /\ val'[s] = val[s] /\ exc'[s] = exc[s] /\ returned'[s] = returned[s]
        /\ HasValue(s)' <=> HasValue(s)
        /\ HasException(s)' <=> HasException(s)
        /\ Settled(s)'
  BY Zenon DEF OutcomesStay, ReturnedStay, Settled, HasValue, HasException
<1>4. \A s \in Controllers : returned[s] # None => returned[s] \in Controllers
  BY Zenon DEF IInv, TypeOK, Controllers
<1> DEFINE OneOf == {"then", "thenFuture", "flatten", "catched", "catchedFuture", "finally", "finallyFuture"}
<1>5. PICK n, m, r : n \in Controllers /\ n = source[t] /\ m = returned[t] /\ r = returned[n]
  BY <1>1, Zenon
<1>6. Settled(n)
  BY <1>5, Zenon DEF Explained
<1>7. /\ val'[n] = val[n] /\ exc'[n] = exc[n] /\ returned'[n] = r
      /\ HasValue(n)' <=> HasValue(n)
      /\ HasException(n)' <=> HasException(n)
      /\ Settled(n)'
  BY <1>3, <1>5, <1>6, Zenon
<1>8. m # None /\ Settled(m) => /\ val'[m] = val[m] /\ exc'[m] = exc[m]
                                /\ HasException(m)' <=> HasException(m)
                                /\ Settled(m)'
  BY <1>1, <1>3, <1>4, <1>5, Zenon
<1>9. r # None /\ Settled(r) => val'[r] = val[r] /\ exc'[r] = exc[r] /\ Settled(r)'
  BY <1>3, <1>4, <1>5, Zenon
<1>10. source'[t] = n /\ returned'[t] = m
  BY <1>2, <1>5, Zenon
<1>11. CASE kind[t] = "then"
  BY <1>2, <1>5, <1>6, <1>7, <1>10, <1>11, Zenon DEF Explained
<1>12. CASE kind[t] = "thenFuture"
  BY <1>2, <1>5, <1>6, <1>7, <1>10, <1>12, Zenon DEF Explained
<1>13. CASE kind[t] = "flatten"
  BY <1>2, <1>5, <1>6, <1>7, <1>9, <1>10, <1>13, Zenon DEF Explained
<1>14. CASE kind[t] = "catched"
  BY <1>2, <1>5, <1>6, <1>7, <1>10, <1>14, Zenon DEF Explained
<1>15. CASE kind[t] = "catchedFuture"
  <2>1. \/ HasValue(n) /\ val[t] = val[n] /\ exc[t] = exc[n]
        \/ ~HasValue(n) /\ m = None /\ exc[t] = t
        \/ ~HasValue(n) /\ m # None /\ Settled(m) /\ val[t] = val[m] /\ exc[t] = exc[m]
    BY <1>5, <1>15, Zenon DEF Explained
  <2>2. CASE HasValue(n)
    BY <1>2, <1>7, <1>10, <1>15, <2>1, <2>2, Zenon DEF Explained
  <2>3. CASE ~HasValue(n) /\ m = None
    BY <1>2, <1>7, <1>10, <1>15, <2>1, <2>3, Zenon DEF Explained
  <2>4. CASE ~HasValue(n) /\ m # None
    <3>1. Settled(n)' /\ ~HasValue(n)' /\ Settled(m)' /\ val'[t] = val'[m] /\ exc'[t] = exc'[m]
      BY <1>2, <1>7, <1>8, <2>1, <2>4, Zenon
    <3> QED  BY <1>10, <1>15, <2>4, <3>1, Zenon DEF Explained
  <2> QED  BY <2>2, <2>3, <2>4, Zenon
<1>16. CASE kind[t] = "finally"
  BY <1>2, <1>5, <1>6, <1>7, <1>10, <1>16, Zenon DEF Explained
<1>17. CASE kind[t] = "finallyFuture"
  <2>1. \/ m = None /\ exc[t] = t
        \/ m # None /\ Settled(m) /\ HasException(m) /\ exc[t] = exc[m]
        \/ m # None /\ Settled(m) /\ ~HasException(m) /\ val[t] = val[n] /\ exc[t] = exc[n]
    BY <1>5, <1>17, Zenon DEF Explained
  <2>2. CASE m = None
    BY <1>2, <1>7, <1>10, <1>17, <2>1, <2>2, Zenon DEF Explained
  <2>3. CASE m # None /\ HasException(m)
    <3>1. Settled(n)' /\ Settled(m)' /\ HasException(m)' /\ exc'[t] = exc'[m]
      BY <1>2, <1>7, <1>8, <2>1, <2>3, Zenon
    <3> QED  BY <1>10, <1>17, <2>3, <3>1, Zenon DEF Explained
  <2>4. CASE m # None /\ ~HasException(m)
    <3>1. Settled(n)' /\ Settled(m)' /\ ~HasException(m)' /\ val'[t] = val'[n] /\ exc'[t] = exc'[n]
      BY <1>2, <1>7, <1>8, <2>1, <2>4, Zenon
    <3> QED  BY <1>10, <1>17, <2>4, <3>1, Zenon DEF Explained
  <2> QED  BY <2>2, <2>3, <2>4, Zenon
<1>18. CASE kind[t] \notin OneOf
  BY <1>7, <1>10, <1>18, Zenon DEF Explained
<1> QED  BY <1>11, <1>12, <1>13, <1>14, <1>15, <1>16, <1>17, <1>18, Zenon

\* So does the reason for a second registration.
LEMMA InnerStays ==
  ASSUME IInv, OutcomesStay, ReturnedStay, NEW t \in Made, NEW m \in Controllers, Inner(t, m),
         kind'[t] = kind[t], source'[t] = source[t], returned'[t] = returned[t]
  PROVE  Inner(t, m)'
<1>1. source[t] \in Controllers
  BY Zenon DEF IInv
<1>2. Settled(source[t])
  BY Zenon DEF Inner, Settled
<1> QED  BY <1>1, <1>2, Zenon DEF Inner, OutcomesStay, ReturnedStay, Settled, HasValue, HasException

\* The step leaves t where it is, and gives it no new driver
Undisturbed(t) ==
  /\ kind'[t] = kind[t] /\ source'[t] = source[t] /\ returned'[t] = returned[t]
  /\ t \in unregistered' <=> t \in unregistered
  /\ Settled(t)' <=> Settled(t)
  /\ \A n \in Controllers, s \in StageNames : Driving(t, n, s)' => Driving(t, n, s)

\* What the invariant says of one child
ChildInv(t) == InPlace(t) /\ (t \in Made /\ Settled(t) => Explained(t))

\* A child that a step leaves alone keeps its part of the invariant.
LEMMA UndisturbedKeeps ==
  ASSUME IInv, DriverInv, OutcomesStay, ReturnedStay, NEW t \in Children, ChildInv(t), Undisturbed(t)
  PROVE  ChildInv(t)'
<1>1. t \in Made' <=> t \in Made
  BY Zenon DEF Made, Undisturbed
<1>2. t \in Made /\ Settled(t) => Explained(t)'
  BY ExplainedStays, Zenon DEF ChildInv, Undisturbed
<1>3. ASSUME NEW n \in Controllers, Driving(t, n, "inner")'  PROVE Inner(t, n)'
  <2>1. Driving(t, n, "inner") /\ Inner(t, n)
    BY <1>3, Zenon DEF Undisturbed, StageNames, ChildInv, InPlace
  <2>2. t \in Made
    BY <2>1, Zenon DEF Driving, DriverInv, ChildIsDriven, Idle, StageNames
  <2> QED  BY <2>1, <2>2, InnerStays, Zenon DEF Undisturbed
<1>4. ASSUME NEW n \in Controllers, Driving(t, n, "own")'  PROVE (n = source[t] /\ returned[t] = None)'
  BY <1>4, Zenon DEF Undisturbed, StageNames, ChildInv, InPlace
<1>5. InPlace(t)'
  BY <1>1, <1>3, <1>4, Zenon DEF InPlace, ChildInv, Undisturbed
<1> QED  BY <1>1, <1>2, <1>5, Zenon DEF ChildInv, Undisturbed

\* A child keeps its drivers when the queues keep its places and the calls are the same.
LEMMA SameDriving ==
  ASSUME NEW t \in Children, SameDrivers(t), calls' \subseteq calls
  PROVE  \A n \in Controllers, s \in StageNames : Driving(t, n, s)' => Driving(t, n, s)
BY Zenon DEF SameDrivers, Driving

OutcomeInv == \A t \in Children : ChildInv(t)

\* Settling a promise and taking its completion right say nothing of a child.
LEMMA PromiseKeepsOutcomes ==
  ASSUME IInv, DriverInv, OutcomeInv, NEW p \in Promises, ClaimCompletion(p) \/ Complete(p) \/ Abandon(p),
         OutcomesStay
  PROVE  OutcomeInv'
<1>1. UNCHANGED <<calls, graphVars, returned>>
  BY Zenon DEF ClaimCompletion, Complete, Abandon
<1>2. ReturnedStay
  BY <1>1, Zenon DEF ReturnedStay
<1>3. p \in Controllers /\ p \notin Children
  BY ControllersAssumption, Zenon DEF Controllers
<1> SUFFICES ASSUME NEW t \in Children PROVE ChildInv(t)'
  BY Zenon DEF OutcomeInv
<1>4. UNCHANGED <<outcomeVars, queueVars>> \/ SetValue(p, p) \/ SetException(p, p)
  BY Zenon DEF ClaimCompletion, Complete, Abandon
<1>5. UNCHANGED queueVars /\ \A m \in Controllers : m # p => val'[m] = val[m] /\ exc'[m] = exc[m]
  BY <1>4, Zenon DEF SetValue, SetException, outcomeVars, IInv, TypeOK
<1>6. \A m \in Controllers, s \in StageNames : WaitsAt(t, m, s)' => WaitsAt(t, m, s)
  <2>1. CASE UNCHANGED <<outcomeVars, queueVars>>
    BY <2>1, Zenon DEF WaitsAt, Queued, outcomeVars, queueVars, HasValue, HasException
  <2>2. CASE ~Settled(p) /\ (SetValue(p, p) \/ SetException(p, p))
    BY <1>3, <2>2, SettleEffect, Zenon
  <2>3. ~Settled(p) \/ UNCHANGED <<outcomeVars, queueVars>>
    BY SettlesAnUnsettled, Zenon
  <2> QED  BY <1>4, <2>1, <2>2, <2>3, Zenon
<1>7. Settled(t)' <=> Settled(t)
  BY <1>3, <1>5, Zenon DEF Settled, HasValue, HasException, Controllers
<1>8. Undisturbed(t)
  BY <1>1, <1>6, <1>7, Zenon DEF Undisturbed, Driving, graphVars
<1> QED  BY <1>2, <1>8, UndisturbedKeeps, Zenon DEF OutcomeInv

\* Draining a queue turns a place in it into a call at the same controller.
LEMMA DrainKeepsOutcomes ==
  ASSUME IInv, DriverInv, OutcomeInv, NEW n \in Controllers, DrainSuccess(n) \/ DrainFail(n), OutcomesStay
  PROVE  OutcomeInv'
<1>1. UNCHANGED <<val, exc, graphVars, returned>>
  BY Zenon DEF DrainSuccess, DrainFail, outcomeVars
<1>2. ReturnedStay
  BY <1>1, Zenon DEF ReturnedStay
<1>3. \A m \in Controllers : onSuccess'[m] \subseteq onSuccess[m] /\ onFail'[m] \subseteq onFail[m]
  <2>1. CASE DrainSuccess(n)
    BY <2>1, Zenon DEF DrainSuccess, IInv, TypeOK
  <2>2. CASE DrainFail(n)
    BY <2>2, Zenon DEF DrainFail, IInv, TypeOK
  <2> QED  BY <2>1, <2>2, Zenon
<1>4. ASSUME NEW c \in calls', c \notin calls
      PROVE  \E k \in Continuations : /\ c.at = n /\ c.target = k.target /\ c.stage = k.stage
                                      /\ (k \in onSuccess[n] /\ HasValue(n)) \/ (k \in onFail[n] /\ HasException(n))
  <2>1. CASE DrainSuccess(n)
    <3>1. PICK k \in IF HasValue(n) THEN onSuccess[n] ELSE {} :
            c = [at |-> n, target |-> k.target, stage |-> k.stage, branch |-> "success"]
      BY <1>4, <2>1, Zenon DEF DrainSuccess
    <3>2. HasValue(n) /\ k \in onSuccess[n] /\ k \in Continuations
      BY <3>1, Zenon DEF IInv, TypeOK
    <3> QED  BY <3>1, <3>2, Zenon
  <2>2. CASE DrainFail(n)
    <3>1. PICK k \in IF HasException(n) THEN onFail[n] ELSE {} :
            c = [at |-> n, target |-> k.target, stage |-> k.stage, branch |-> "fail"]
      BY <1>4, <2>2, Zenon DEF DrainFail
    <3>2. HasException(n) /\ k \in onFail[n] /\ k \in Continuations
      BY <3>1, Zenon DEF IInv, TypeOK
    <3> QED  BY <3>1, <3>2, Zenon
  <2> QED  BY <2>1, <2>2, Zenon
<1> SUFFICES ASSUME NEW t \in Children PROVE ChildInv(t)'
  BY Zenon DEF OutcomeInv
<1>5. \A m \in Controllers : /\ HasValue(m)' <=> HasValue(m)
                             /\ HasException(m)' <=> HasException(m)
                             /\ Settled(m)' <=> Settled(m)
  BY <1>1, Zenon DEF HasValue, HasException, Settled
<1>6. ASSUME NEW m \in Controllers, NEW s \in StageNames, Driving(t, m, s)'  PROVE Driving(t, m, s)
  <2>1. WaitsAt(t, m, s)' => WaitsAt(t, m, s)
    BY <1>3, <1>5, Zenon DEF WaitsAt, Queued
  <2>2. ASSUME NEW c \in calls', c \notin calls, c.target = t, c.at = m, c.stage = s  PROVE WaitsAt(t, m, s)
    <3>1. PICK k \in Continuations : /\ m = n /\ t = k.target /\ s = k.stage
                                     /\ (k \in onSuccess[n] /\ HasValue(n)) \/ (k \in onFail[n] /\ HasException(n))
      BY <1>4, <2>2, Zenon
    <3>2. k = [target |-> t, stage |-> s]
      BY <3>1, Zenon DEF Continuations
    <3> QED  BY <3>1, <3>2, Zenon DEF WaitsAt, Queued
  <2> QED  BY <1>6, <2>1, <2>2, Zenon DEF Driving
<1>7. Settled(t)' <=> Settled(t)
  BY <1>5, Zenon DEF Controllers
<1>8. Undisturbed(t)
  BY <1>1, <1>6, <1>7, Zenon DEF Undisturbed, graphVars
<1> QED  BY <1>2, <1>8, UndisturbedKeeps, Zenon DEF OutcomeInv

\* then, catched and finally register the new child on the future they are called on.
LEMMA MakeChildKeepsOutcomes ==
  ASSUME IInv, DriverInv, OutcomeInv, NEW n \in Controllers, NEW c \in Children, NEW k \in UsedKinds,
         MakeChild(n, c, k), OutcomesStay
  PROVE  OutcomeInv'
<1>1. /\ c \notin Made /\ c \notin unregistered /\ Idle(c) /\ ~Settled(c) /\ k # "none"
      /\ UNCHANGED <<calls, returned>>
  BY UsedKindsAssumption, Zenon DEF MakeChild, DriverInv, ChildIsDriven, IInv, Kinds
<1>2. ReturnedStay
  BY <1>1, Zenon DEF ReturnedStay
<1>3. /\ \A m \in Controllers : Settled(m)' <=> Settled(m)
      /\ \A u \in Children : u # c => SameDrivers(u)
      /\ \A u \in Children, m \in Controllers, r \in StageNames :
              WaitsAt(u, m, r)' <=> WaitsAt(u, m, r) \/ (u = c /\ m = n /\ r = "own")
  BY <1>1, RegisterDrives, RegisterEffect, Zenon DEF MakeChild, Idle, StageNames
<1> SUFFICES ASSUME NEW t \in Children PROVE ChildInv(t)'
  BY Zenon DEF OutcomeInv
<1>4. Settled(t)' <=> Settled(t)
  BY <1>3, Zenon DEF Controllers
<1>5. ChildInv(t)
  BY Zenon DEF OutcomeInv
<1>6. CASE t = c
  <2>1. \A m \in Controllers, r \in StageNames : Driving(c, m, r)' => m = n /\ r = "own"
    BY <1>1, <1>3, Zenon DEF Driving, Idle
  <2>2. source'[c] = n
    BY Zenon DEF MakeChild, IInv, TypeOK
  <2>3. returned'[c] = None
    BY <1>1, <1>5, <1>6, Zenon DEF ChildInv, InPlace
  <2>4. InPlace(c)'
    BY <2>1, <2>2, <2>3, Zenon DEF InPlace, StageNames
  <2> QED  BY <1>1, <1>4, <1>6, <2>4, Zenon DEF ChildInv
<1>7. CASE t # c /\ kind'[t] = kind[t] /\ source'[t] = source[t] /\ (t \in unregistered' <=> t \in unregistered)
  <2>1. Undisturbed(t)
    BY <1>1, <1>3, <1>4, <1>7, SameDriving, Zenon DEF Undisturbed
  <2> QED  BY <1>2, <1>5, <2>1, UndisturbedKeeps, Zenon
<1>8. CASE t # c /\ t \notin Made
  <2>1. ~Settled(t) /\ Idle(t) /\ returned[t] = None
    BY <1>5, <1>8, Zenon DEF DriverInv, ChildIsDriven, ChildInv, InPlace
  <2>2. \A m \in Controllers, r \in StageNames : ~Driving(t, m, r)'
    BY <1>1, <1>3, <1>8, <2>1, SameDriving, Zenon DEF Idle, Driving
  <2> QED  BY <1>1, <1>4, <2>1, <2>2, Zenon DEF ChildInv, InPlace, StageNames
<1>9. t # c /\ t \in Made => kind'[t] = kind[t] /\ source'[t] = source[t] /\ (t \in unregistered' <=> t \in unregistered)
  <2> SUFFICES ASSUME t # c, t \in Made
               PROVE  /\ kind'[t] = kind[t] /\ source'[t] = source[t]
                      /\ t \in unregistered' <=> t \in unregistered
    BY Zenon
  <2>1. DOMAIN kind = Children /\ DOMAIN source = Children
    BY Zenon DEF IInv, TypeOK
  <2>2. CASE k # "thenFuture"
    BY <2>1, <2>2, Zenon DEF MakeChild
  <2>3. CASE k = "thenFuture"
    <3>1. PICK d \in Children \ (Made \cup {c}) :
            /\ kind' = [kind EXCEPT ![c] = k, ![d] = "flatten"]
            /\ source' = [source EXCEPT ![c] = n, ![d] = c]
            /\ unregistered' = unregistered \cup {d}
      BY <2>3, Zenon DEF MakeChild
    <3> QED  BY <2>1, <3>1, Zenon
  <2> QED  BY <2>2, <2>3, Zenon
<1> QED  BY <1>6, <1>7, <1>8, <1>9, Zenon

\* flatten_future registers the flattening child on the future whose value it unwraps.
LEMMA FlattenFutureKeepsOutcomes ==
  ASSUME IInv, DriverInv, OutcomeInv, NEW d \in Children, FlattenFuture(d), OutcomesStay
  PROVE  OutcomeInv'
<1>1. d \in Made /\ d \in unregistered /\ Idle(d) /\ ~Settled(d) /\ source[d] \in Controllers
  BY Zenon DEF FlattenFuture, DriverInv, ChildIsDriven, IInv
<1>2. UNCHANGED <<calls, kind, source, returned>> /\ unregistered' = unregistered \ {d}
  BY Zenon DEF FlattenFuture
<1>3. ReturnedStay
  BY <1>2, Zenon DEF ReturnedStay
<1>4. /\ \A m \in Controllers : Settled(m)' <=> Settled(m)
      /\ \A u \in Children : u # d => SameDrivers(u)
      /\ \A u \in Children, m \in Controllers, r \in StageNames :
              WaitsAt(u, m, r)' <=> WaitsAt(u, m, r) \/ (u = d /\ m = source[d] /\ r = "own")
  <2>1. "own" \in StageNames /\ Register(source[d], [target |-> d, stage |-> "own"])
    BY Zenon DEF FlattenFuture, StageNames
  <2>2. /\ \A m \in Controllers, r \in StageNames : ~WaitsAt(d, m, r)
        /\ \A c \in calls' : c.target # d
        /\ \A c : c.target # d => (c \in calls' <=> c \in calls)
    BY <1>1, <1>2, Zenon DEF Idle
  <2>3. PICK n \in Controllers : n = source[d]
    BY <1>1, Zenon
  <2>4. Register(n, [target |-> d, stage |-> "own"])
    BY <2>1, <2>3, Zenon
  <2>5. \A u \in Children, m \in Controllers, r \in StageNames :
              WaitsAt(u, m, r)' <=> WaitsAt(u, m, r) \/ (u = d /\ m = source[d] /\ r = "own")
    BY <2>1, <2>3, <2>4, RegisterEffect
  <2>6. /\ \A m \in Controllers : Settled(m)' <=> Settled(m)
        /\ \A u \in Children : u # d => SameDrivers(u)
    BY <2>1, <2>2, <2>4, RegisterDrives, Zenon
  <2> QED  BY <2>5, <2>6, Zenon
<1> SUFFICES ASSUME NEW t \in Children PROVE ChildInv(t)'
  BY Zenon DEF OutcomeInv
<1>5. (Settled(t)' <=> Settled(t)) /\ ChildInv(t)
  BY <1>4, Zenon DEF Controllers, OutcomeInv
<1>6. CASE t = d
  <2>1. \A m \in Controllers, r \in StageNames : Driving(d, m, r)' => m = source[d] /\ r = "own"
    BY <1>1, <1>2, <1>4, Zenon DEF Driving, Idle
  <2>2. returned[d] = None
    BY <1>1, <1>5, <1>6, Zenon DEF ChildInv, InPlace
  <2>3. InPlace(d)'
    BY <1>2, <2>1, <2>2, Zenon DEF InPlace, StageNames
  <2> QED  BY <1>1, <1>5, <1>6, <2>3, Zenon DEF ChildInv
<1>7. CASE t # d
  <2>1. Undisturbed(t)
    BY <1>2, <1>4, <1>5, <1>7, SameDriving, Zenon DEF Undisturbed
  <2> QED  BY <1>3, <1>5, <2>1, UndisturbedKeeps, Zenon
<1> QED  BY <1>6, <1>7, Zenon

\* The call of t at n has its outcome from n, and changes nothing but t's outcome, its
\* returned future and a queue
CallFacts(c, t, n) ==
  /\ t = c.target /\ n = c.at /\ c.stage \in StageNames
  /\ t \in Made /\ t \notin unregistered /\ ~Settled(t) /\ Settled(n) /\ t # n
  /\ c.branch = "success" => val[n] \in Controllers /\ exc[n] = None
  /\ c.branch = "fail" => exc[n] \in Controllers /\ val[n] = None
  /\ c.stage = "own" => n = source[t] /\ returned[t] = None
  /\ c.stage = "inner" => Inner(t, n)
  /\ val'[n] = val[n] /\ exc'[n] = exc[n]
  /\ kind'[t] = kind[t] /\ source'[t] = source[t]
  /\ \A u \in Controllers : u # t => returned'[u] = returned[u]

\* What a posted call finds and leaves alone.
LEMMA CallFinds ==
  ASSUME IInv, DriverInv, OutcomeInv, NEW c \in calls, Call(c), OutcomesStay
  PROVE  \E t \in Children, n \in Controllers : CallFacts(c, t, n)
<1>1. PICK t \in Children, n \in Controllers : t = c.target /\ n = c.at /\ c.stage \in StageNames
  BY Zenon DEF IInv, TypeOK, Calls, StageNames
<1>2. /\ t \in Made /\ t \notin unregistered /\ ~Settled(t)
      /\ c.branch = "success" => HasValue(n)
      /\ c.branch = "fail" => HasException(n)
      /\ c.branch \in {"success", "fail"}
  BY <1>1, Zenon DEF DriverInv, ChildIsDriven, Idle, CallsMatchOutcomes, IInv, TypeOK, Calls
<1>3. Settled(n) /\ t # n /\ val'[n] = val[n] /\ exc'[n] = exc[n]
  BY <1>2, Zenon DEF OutcomesStay, Settled
<1>4. /\ c.branch = "success" => val[n] \in Controllers /\ exc[n] = None
      /\ c.branch = "fail" => exc[n] \in Controllers /\ val[n] = None
  BY <1>2, Zenon DEF DriverInv, QueuesAgree, HasValue, HasException, IInv, TypeOK
<1>5. Driving(t, n, c.stage)
  BY <1>1, Zenon DEF Driving
<1>6. /\ c.stage = "own" => n = source[t] /\ returned[t] = None
      /\ c.stage = "inner" => Inner(t, n)
  BY <1>5, Zenon DEF OutcomeInv, ChildInv, InPlace
<1>7. kind'[t] = kind[t] /\ source'[t] = source[t]
  BY Zenon DEF Call, graphVars
<1>8. ASSUME NEW u \in Controllers, u # t  PROVE returned'[u] = returned[u]
  <2>1. \/ returned' = returned
        \/ \E m : returned' = [returned EXCEPT ![t] = m]
    BY <1>1, Zenon DEF Call, OnSuccess, OnFail, OnInnerSuccess, OnInnerFail, CallbackThrows, Yields, Raises,
       CallbackReturnsFuture, Adopt, StoreFuture, FlattenStored
  <2> QED  BY <1>8, <2>1, Zenon DEF IInv, TypeOK
<1> QED  BY <1>1, <1>2, <1>3, <1>4, <1>6, <1>7, <1>8, Zenon DEF CallFacts

\* A posted call settles its target with an outcome that its source and the future its
\* callback returned explain, or registers the target on that future.
LEMMA CallResult ==
  ASSUME IInv, DriverInv, OutcomeInv, NEW c \in calls, Call(c), OutcomesStay,
         NEW t \in Children, NEW n \in Controllers, CallFacts(c, t, n)
  PROVE  \/ Settled(t)' /\ Explained(t)' /\ \E v \in Controllers : SetValue(t, v) \/ SetException(t, v)
         \/ \E m \in Promises : Register(m, [target |-> t, stage |-> "inner"]) /\ Inner(t, m)'
<1> DEFINE Goal == \/ Settled(t)' /\ Explained(t)' /\ \E v \in Controllers : SetValue(t, v) \/ SetException(t, v)
                   \/ \E m \in Promises : Register(m, [target |-> t, stage |-> "inner"]) /\ Inner(t, m)'
<1>0. ASSUME CallbackReturnsFuture(t)
      PROVE  \E m \in Promises : Register(m, [target |-> t, stage |-> "inner"]) /\ returned'[t] = m
  <2>1. PICK m \in handles \cap Promises : Adopt(t, m)
    BY <1>0, Zenon DEF CallbackReturnsFuture
  <2>2. returned'[t] = m
    BY <2>1, Zenon DEF Adopt, IInv, TypeOK, Controllers
  <2> QED  BY <2>1, <2>2, Zenon DEF Adopt
<1>1. /\ t \in Controllers /\ val[t] = None /\ exc[t] = None
      /\ t = c.target /\ n = c.at /\ t # n
      /\ c.branch = "success" => val[n] \in Controllers /\ exc[n] = None
      /\ c.branch = "fail" => exc[n] \in Controllers /\ val[n] = None
      /\ val'[n] = val[n] /\ exc'[n] = exc[n]
      /\ kind'[t] = kind[t] /\ source'[t] = source[t]
      /\ returned'[n] = returned[n]
      /\ None \notin Controllers
  BY ControllersAssumption, Zenon DEF CallFacts, Settled, HasValue, HasException, Controllers
<1>2. ASSUME NEW v \in Controllers, SetValue(t, v)  PROVE val'[t] = v /\ exc'[t] = None /\ Settled(t)'
  BY <1>1, <1>2, Zenon DEF SetValue, Settled, HasValue, HasException, IInv, TypeOK
<1>3. ASSUME NEW e \in Controllers, SetException(t, e)  PROVE exc'[t] = e /\ val'[t] = None /\ Settled(t)'
  BY <1>1, <1>3, Zenon DEF SetException, Settled, HasValue, HasException, IInv, TypeOK
<1>4. \A s \in Controllers : returned[s] # None => returned[s] \in Promises /\ returned[s] \in Controllers
  BY Zenon DEF IInv, TypeOK, Controllers
<1>5. ASSUME c.stage = "own", c.branch = "success", OnSuccess(n, t)  PROVE Goal
  <2>1. n = source[t] /\ returned[t] = None
    BY <1>5, Zenon DEF CallFacts
  <2>2. HasValue(n)' /\ ~HasException(n)' /\ Settled(n)' /\ source'[t] = n
    BY <1>1, <1>5, <2>1, Zenon DEF HasValue, HasException, Settled
  <2>3. CASE kind[t] \in {"then", "thenFuture", "finally", "finallyFuture"} /\ CallbackThrows(t)
    BY <1>1, <1>3, <2>1, <2>2, <2>3, Zenon DEF CallbackThrows, Raises, Explained
  <2>4. CASE kind[t] = "then" /\ Yields(t, t)
    BY <1>1, <1>2, <2>2, <2>4, Zenon DEF Yields, Explained
  <2>5. CASE kind[t] = "thenFuture" /\ StoreFuture(t)
    BY <1>1, <1>2, <2>2, <2>5, Zenon DEF StoreFuture, Yields, Explained
  <2>6. CASE kind[t] = "flatten" /\ FlattenStored(n, t)
    <3>1. CASE returned[n] = None /\ CallbackThrows(t)
      BY <1>1, <1>3, <2>2, <2>6, <3>1, Zenon DEF CallbackThrows, Raises, Explained
    <3>2. CASE returned[n] # None /\ Register(returned[n], [target |-> t, stage |-> "inner"])
      <4>1. Inner(t, returned[n])'
        BY <1>1, <2>2, <2>6, <3>2, Zenon DEF Inner
      <4>2. returned[n] \in Promises /\ returned'[n] = returned[n]
        BY <1>1, <1>4, <3>2, Zenon
      <4> QED  BY <1>1, <2>2, <2>6, <3>2, <4>2, Zenon DEF Inner
    <3> QED  BY <2>6, <3>1, <3>2, Zenon DEF FlattenStored
  <2>7. CASE kind[t] \in {"catched", "catchedFuture", "finally"} /\ Yields(t, val[n])
    BY <1>1, <1>2, <1>5, <2>2, <2>7, Zenon DEF Yields, Explained
  <2>8. CASE kind[t] = "finallyFuture" /\ CallbackReturnsFuture(t)
    BY <1>1, <1>0, <2>2, <2>8, Zenon DEF Inner
  <2> QED  BY <1>5, <2>3, <2>4, <2>5, <2>6, <2>7, <2>8, Zenon DEF OnSuccess
<1>6. ASSUME c.stage = "own", c.branch = "fail", OnFail(n, t)  PROVE Goal
  <2>1. n = source[t] /\ returned[t] = None
    BY <1>6, Zenon DEF CallFacts
  <2>2. ~HasValue(n)' /\ HasException(n)' /\ Settled(n)' /\ source'[t] = n
    BY <1>1, <1>6, <2>1, Zenon DEF HasValue, HasException, Settled
  <2>3. CASE kind[t] \in {"catched", "catchedFuture", "finally", "finallyFuture"} /\ CallbackThrows(t)
    BY <1>1, <1>3, <2>1, <2>2, <2>3, Zenon DEF CallbackThrows, Raises, Explained
  <2>4. CASE kind[t] \in {"then", "thenFuture", "flatten", "finally"} /\ Raises(t, exc[n])
    BY <1>1, <1>3, <1>6, <2>2, <2>4, Zenon DEF Raises, Explained
  <2>5. CASE kind[t] = "catched" /\ Yields(t, t)
    BY <1>1, <1>2, <2>2, <2>5, Zenon DEF Yields, Explained
  <2>6. CASE kind[t] \in {"catchedFuture", "finallyFuture"} /\ CallbackReturnsFuture(t)
    BY <1>1, <1>0, <2>2, <2>6, Zenon DEF Inner
  <2> QED  BY <1>6, <2>3, <2>4, <2>5, <2>6, Zenon DEF OnFail
<1>7. PICK s \in Controllers : s = source[t]
  BY Zenon DEF CallFacts, IInv
<1>8. ASSUME c.stage = "inner"
      PROVE  /\ Inner(t, n) /\ Settled(s) /\ source'[t] = s
             /\ val'[s] = val[s] /\ exc'[s] = exc[s] /\ returned'[s] = returned[s]
             /\ HasValue(s)' <=> HasValue(s)
             /\ HasException(s)' <=> HasException(s)
             /\ Settled(s)'
             /\ ~(HasValue(s) /\ HasException(s))
  <2>1. Inner(t, n) /\ Settled(s)
    BY <1>7, <1>8, Zenon DEF CallFacts, Inner, Settled
  <2>2. s # t
    BY <2>1, Zenon DEF CallFacts
  <2>3. /\ val'[s] = val[s] /\ exc'[s] = exc[s] /\ returned'[s] = returned[s]
        /\ ~(HasValue(s) /\ HasException(s))
    BY <2>1, <2>2, Zenon DEF OutcomesStay, CallFacts, DriverInv, QueuesAgree
  <2> QED  BY <1>1, <1>7, <2>1, <2>3, Zenon DEF HasValue, HasException, Settled
<1>9. ASSUME c.stage = "inner", c.branch = "success", OnInnerSuccess(n, t)  PROVE Goal
  <2>1. HasValue(n)' /\ ~HasException(n)' /\ Settled(n)'
    BY <1>1, <1>9, Zenon DEF HasValue, HasException, Settled
  <2>2. CASE kind[t] = "flatten" /\ Yields(t, val[n])
    <3>1. HasValue(s) /\ n = returned[s]
      BY <1>7, <1>8, <1>9, <2>2, Zenon DEF Inner
    <3>2. HasValue(s)' /\ returned'[s] = n /\ n # None /\ kind'[t] = "flatten"
      BY <1>1, <1>8, <1>9, <2>2, <3>1, Zenon
    <3>3. val'[t] = val[n] /\ exc'[t] = None /\ Settled(t)' /\ SetValue(t, val[n]) /\ val[n] \in Controllers
      BY <1>1, <1>2, <1>9, <2>2, Zenon DEF Yields
    <3>4. val'[n] = val[n] /\ exc'[n] = None /\ source'[t] = s /\ Settled(s)'
      BY <1>1, <1>8, <1>9, Zenon
    <3>5. Explained(t)'
      BY <2>1, <3>2, <3>3, <3>4, Zenon DEF Explained
    <3> QED  BY <3>3, <3>5, Zenon
  <2>3. CASE kind[t] = "catchedFuture" /\ Yields(t, val[n])
    <3>1. HasException(s) /\ n = returned[t]
      BY <1>7, <1>8, <1>9, <2>3, Zenon DEF Inner
    <3>2. /\ HasException(s)' /\ ~HasValue(s)' /\ Settled(s)' /\ source'[t] = s
          /\ returned'[t] = n /\ n # None /\ kind'[t] = "catchedFuture"
      BY <1>1, <1>8, <1>9, <2>3, <3>1, Zenon DEF Yields
    <3>3. val'[t] = val[n] /\ exc'[t] = None /\ Settled(t)' /\ SetValue(t, val[n]) /\ val[n] \in Controllers
      BY <1>1, <1>2, <1>9, <2>3, Zenon DEF Yields
    <3>4. val'[n] = val[n] /\ exc'[n] = None
      BY <1>1, <1>9, Zenon
    <3>5. Explained(t)'
      BY <2>1, <3>2, <3>3, <3>4, Zenon DEF Explained
    <3> QED  BY <3>3, <3>5, Zenon
  <2>4. CASE kind[t] = "finallyFuture" /\ HasValue(source[t]) /\ Yields(t, val[source[t]])
    <3>1. n = returned[t] /\ val[s] \in Controllers /\ exc[s] = None
      BY <1>7, <1>8, <1>9, <2>4, Zenon DEF Inner, HasValue, HasException, IInv, TypeOK
    <3>2. /\ Settled(s)' /\ source'[t] = s /\ val'[s] = val[s] /\ exc'[s] = None
          /\ returned'[t] = n /\ n # None /\ kind'[t] = "finallyFuture"
      BY <1>1, <1>8, <1>9, <2>4, <3>1, Zenon DEF Yields
    <3>3. val'[t] = val[s] /\ exc'[t] = None /\ Settled(t)' /\ SetValue(t, val[s])
      BY <1>1, <1>2, <1>7, <2>4, <3>1, Zenon DEF Yields
    <3>4. Explained(t)'
      BY <2>1, <3>2, <3>3, Zenon DEF Explained
    <3> QED  BY <3>1, <3>3, <3>4, Zenon
  <2>5. CASE kind[t] = "finallyFuture" /\ HasException(source[t]) /\ Raises(t, exc[source[t]])
    <3>1. n = returned[t] /\ exc[s] \in Controllers /\ val[s] = None
      BY <1>7, <1>8, <1>9, <2>5, Zenon DEF Inner, HasValue, HasException, IInv, TypeOK
    <3>2. /\ Settled(s)' /\ source'[t] = s /\ val'[s] = None /\ exc'[s] = exc[s]
          /\ returned'[t] = n /\ n # None /\ kind'[t] = "finallyFuture"
      BY <1>1, <1>8, <1>9, <2>5, <3>1, Zenon DEF Raises
    <3>3. exc'[t] = exc[s] /\ val'[t] = None /\ Settled(t)' /\ SetException(t, exc[s])
      BY <1>1, <1>3, <1>7, <2>5, <3>1, Zenon DEF Raises
    <3>4. Explained(t)'
      BY <2>1, <3>2, <3>3, Zenon DEF Explained
    <3> QED  BY <3>1, <3>3, <3>4, Zenon
  <2> QED  BY <1>9, <2>2, <2>3, <2>4, <2>5, Zenon DEF OnInnerSuccess
<1>10. ASSUME c.stage = "inner", c.branch = "fail", OnInnerFail(n, t)  PROVE Goal
  <2>1. ~HasValue(n)' /\ HasException(n)' /\ Settled(n)'
    BY <1>1, <1>10, Zenon DEF HasValue, HasException, Settled
  <2>2. /\ exc'[t] = exc[n] /\ val'[t] = None /\ Settled(t)' /\ returned'[t] = returned[t]
        /\ exc[n] \in Controllers /\ SetException(t, exc[n])
    BY <1>1, <1>3, <1>10, Zenon DEF OnInnerFail, Raises
  <2>3. \/ kind[t] = "flatten" /\ HasValue(s) /\ n = returned[s]
        \/ kind[t] = "catchedFuture" /\ HasException(s) /\ n = returned[t]
        \/ kind[t] = "finallyFuture" /\ Settled(s) /\ n = returned[t]
    BY <1>7, <1>8, <1>10, Zenon DEF Inner
  <2>4. /\ val'[n] = None /\ exc'[n] = exc[n] /\ source'[t] = s /\ Settled(s)' /\ n # None
        /\ kind'[t] = kind[t] /\ returned'[s] = returned[s]
        /\ HasValue(s)' <=> HasValue(s)
        /\ HasException(s)' <=> HasException(s)
        /\ ~(HasValue(s) /\ HasException(s))
    BY <1>1, <1>8, <1>10, Zenon
  <2>5. CASE kind[t] = "flatten" /\ HasValue(s) /\ n = returned[s]
    BY <2>1, <2>2, <2>4, <2>5, Zenon DEF Explained
  <2>6. CASE kind[t] = "catchedFuture" /\ HasException(s) /\ n = returned[t]
    BY <2>1, <2>2, <2>4, <2>6, Zenon DEF Explained
  <2>7. CASE kind[t] = "finallyFuture" /\ Settled(s) /\ n = returned[t]
    BY <2>1, <2>2, <2>4, <2>7, Zenon DEF Explained
  <2> QED  BY <2>2, <2>3, <2>5, <2>6, <2>7, Zenon
<1> QED  BY <1>1, <1>5, <1>6, <1>9, <1>10, Zenon DEF Call

\* A posted call keeps the invariant: it gives its target an outcome that is explained, or
\* the future its callback returned for a driver.
LEMMA CallKeepsOutcomes ==
  ASSUME IInv, DriverInv, OutcomeInv, NEW c \in calls, Call(c), OutcomesStay, DriverInv'
  PROVE  OutcomeInv'
<1>1. PICK t \in Children, n \in Controllers : CallFacts(c, t, n)
  BY CallFinds, Zenon
<1>2. /\ t = c.target /\ t \in Made /\ t \notin unregistered /\ ~Settled(t)
      /\ t \in Controllers /\ t \notin Promises
      /\ \A u \in Controllers : u # t => returned'[u] = returned[u]
  BY <1>1, ControllersAssumption, Zenon DEF CallFacts, Controllers
<1>3. calls' = calls \ {c} /\ UNCHANGED graphVars
  BY Zenon DEF Call
<1>4. ReturnedStay
  BY <1>2, Zenon DEF ReturnedStay
<1>5. DrivenByCall(t)
  BY <1>2, Zenon DEF DriverInv, ChildIsDriven, DrivenByQueue
<1>6. /\ \A m \in Controllers, r \in StageNames : ~WaitsAt(t, m, r)
      /\ \A d \in calls' : d.target # t
      /\ \A d : d.target # t => (d \in calls' <=> d \in calls)
  BY <1>2, <1>3, <1>5, Zenon DEF DrivenByCall
<1>7. \A u \in Children : (u \in Made' <=> u \in Made) /\ (u \in unregistered' <=> u \in unregistered)
  BY <1>3, Zenon DEF graphVars, Made
<1>8. ASSUME NEW u \in Children, u # t, Settled(u)' <=> Settled(u), SameDrivers(u)  PROVE ChildInv(u)'
  <2>1. Undisturbed(u)
    BY <1>2, <1>3, <1>7, <1>8, SameDriving, Zenon DEF Undisturbed, graphVars, Controllers
  <2> QED  BY <1>4, <2>1, UndisturbedKeeps, Zenon DEF OutcomeInv
<1>9. CASE Settled(t)' /\ Explained(t)' /\ \E v \in Controllers : SetValue(t, v) \/ SetException(t, v)
  <2>1. /\ \A m \in Controllers : m # t => val'[m] = val[m] /\ exc'[m] = exc[m]
        /\ \A u \in Children, m \in Controllers, r \in StageNames : WaitsAt(u, m, r)' <=> WaitsAt(u, m, r)
    BY <1>2, <1>9, SettleEffect, Zenon
  <2>2. ASSUME NEW u \in Children, u # t  PROVE ChildInv(u)'
    <3>1. SameDrivers(u)
      BY <1>6, <2>1, <2>2, Zenon DEF SameDrivers
    <3>2. Settled(u)' <=> Settled(u)
      BY <2>1, <2>2, Zenon DEF Settled, HasValue, HasException, Controllers
    <3> QED  BY <1>8, <2>2, <3>1, <3>2, Zenon
  <2>3. \A m \in Controllers, r \in StageNames : ~Driving(t, m, r)'
    BY <1>6, <2>1, Zenon DEF Driving
  <2>4. ChildInv(t)'
    BY <1>2, <1>7, <1>9, <2>3, Zenon DEF ChildInv, InPlace, StageNames
  <2> QED  BY <2>2, <2>4, Zenon DEF OutcomeInv
<1>10. CASE \E m \in Promises : Register(m, [target |-> t, stage |-> "inner"]) /\ Inner(t, m)'
  <2>1. PICK m \in Controllers : Register(m, [target |-> t, stage |-> "inner"]) /\ Inner(t, m)'
    BY <1>10, Zenon DEF Controllers
  <2>2. /\ \A s \in Controllers : Settled(s)' <=> Settled(s)
        /\ \A u \in Children : u # t => SameDrivers(u)
        /\ \A u \in Children, s \in Controllers, r \in StageNames :
              WaitsAt(u, s, r)' <=> WaitsAt(u, s, r) \/ (u = t /\ s = m /\ r = "inner")
    BY <1>6, <2>1, RegisterDrives, RegisterEffect, Zenon DEF StageNames
  <2>3. ASSUME NEW u \in Children, u # t  PROVE ChildInv(u)'
    BY <1>8, <2>2, <2>3, Zenon DEF Controllers
  <2>4. \A s \in Controllers, r \in StageNames : Driving(t, s, r)' => s = m /\ r = "inner"
    BY <1>6, <2>2, Zenon DEF Driving
  <2>5. InPlace(t)'
    BY <1>2, <1>7, <2>1, <2>4, Zenon DEF InPlace, StageNames
  <2>6. ChildInv(t)'
    BY <1>2, <2>2, <2>5, Zenon DEF ChildInv
  <2> QED  BY <2>3, <2>6, Zenon DEF OutcomeInv
<1> QED  BY <1>1, <1>9, <1>10, CallResult, Zenon

\* Every step keeps the outcomes explained.
LEMMA OutcomeStep == IInv /\ DriverInv /\ OutcomeInv /\ [Next]_vars => OutcomeInv'
<1> SUFFICES ASSUME IInv, DriverInv, OutcomeInv, [Next]_vars  PROVE OutcomeInv'
  BY Zenon
<1>1. DriverInv' /\ OutcomesStay
  BY DriverStep, Zenon
<1>2. ASSUME UNCHANGED <<val, exc, onSuccess, onFail, calls, graphVars, returned>>  PROVE OutcomeInv'
  <2> SUFFICES ASSUME NEW t \in Children PROVE ChildInv(t)'
    BY Zenon DEF OutcomeInv
  <2>1. ReturnedStay
    BY <1>2, Zenon DEF ReturnedStay
  <2>2. Undisturbed(t)
    BY <1>2, Zenon DEF Undisturbed, Driving, WaitsAt, Queued, graphVars, Settled, HasValue, HasException
  <2> QED  BY <1>1, <2>1, <2>2, UndisturbedKeeps, Zenon DEF OutcomeInv
<1>3. ASSUME NEW n \in Controllers, Wait(n) \/ NotifyAll(n)  PROVE OutcomeInv'
  BY <1>2, <1>3, Zenon DEF Wait, NotifyAll, outcomeVars, queueVars
<1>4. CASE UNCHANGED vars
  BY <1>2, <1>4, Zenon DEF vars, outcomeVars, queueVars
<1> QED  BY <1>1, <1>3, <1>4, PromiseKeepsOutcomes, DrainKeepsOutcomes, MakeChildKeepsOutcomes,
         FlattenFutureKeepsOutcomes, CallKeepsOutcomes, Zenon DEF Next

\* Every outcome of a child is explained in every behaviour.
THEOREM OutcomeInvariance == Spec => []OutcomeInv
<1>1. Init => OutcomeInv
  <2> SUFFICES ASSUME Init, NEW t \in Children PROVE ChildInv(t)
    BY Zenon DEF OutcomeInv
  <2>1. t \in Controllers /\ ~Settled(t) /\ returned[t] = None
    BY Zenon DEF Init, Controllers, Settled, HasValue, HasException
  <2>2. \A n \in Controllers, s \in StageNames : ~Driving(t, n, s)
    BY Zenon DEF Init, Driving, WaitsAt, Queued, HasValue, HasException
  <2> QED  BY <2>1, <2>2, Zenon DEF ChildInv, InPlace, StageNames
<1> QED  BY <1>1, OutcomeStep, Invariance, DriverInvariance, PTL DEF Spec

\* Whatever is chained to what, and in whatever order promises settle and calls run, the
\* outcome of a child is the one its source, its callback and the future that the
\* callback returned give it.
THEOREM OutcomesPropagateHolds == Spec => []OutcomesPropagate
<1>1. OutcomeInv => OutcomesPropagate
  <2>1. ASSUME OutcomeInv, NEW t \in Made, Settled(t)  PROVE Explained(t)
    BY <2>1, Zenon DEF OutcomeInv, ChildInv, Made
  <2> QED  BY <2>1, Zenon DEF OutcomesPropagate, Explained
<1> QED  BY <1>1, OutcomeInvariance, PTL

-----------------------------------------------------------------------------
INSTANCE FiniteSetTheorems

\* However registrations, settlements, drains and posted calls interleave, exactly one
\* continuation or call can settle a child that is made and not settled, and none a
\* settled one.
THEOREM OneDriverHolds == Spec => []OneDriver
<1>1. DriverInv => OneDriver
  <2> SUFFICES ASSUME DriverInv, NEW t \in Made
               PROVE  Cardinality(Drivers(t)) = IF Settled(t) \/ t \in unregistered THEN 0 ELSE 1
    BY Zenon DEF OneDriver
  <2>1. t \in Children /\ ChildIsDriven(t)
    BY Zenon DEF DriverInv, Made
  <2> DEFINE Q == {q \in Controllers \X {"own", "inner"} : Queued(q[1], [target |-> t, stage |-> q[2]])}
             P == {<<c.at, c.stage, c.branch>> : c \in {c \in calls : c.target = t}}
  <2>2. Drivers(t) = Q \cup P
    BY Zenon DEF Drivers
  <2>3. (\A n \in Controllers, s \in StageNames : ~WaitsAt(t, n, s)) => Q = {}
    BY Zenon DEF WaitsAt, StageNames
  <2>4. (\A c \in calls : c.target # t) => P = {}
    BY Zenon
  <2>5. CASE Settled(t) \/ t \in unregistered
    <3>1. Idle(t)
      BY <2>1, <2>5, Zenon DEF ChildIsDriven
    <3> QED  BY <2>2, <2>3, <2>4, <2>5, <3>1, FS_EmptySet, Zenon DEF Idle
  <2>6. CASE ~(Settled(t) \/ t \in unregistered)
    <3>1. \E x : Drivers(t) = {x}
      <4>1. CASE DrivenByQueue(t)
        <5>1. PICK n \in Controllers, s \in StageNames :
                /\ WaitsAt(t, n, s)
                /\ \A m \in Controllers, r \in StageNames : WaitsAt(t, m, r) => m = n /\ r = s
          BY <4>1, Zenon DEF DrivenByQueue
        <5>2. Q = {<<n, s>>}
          BY <5>1 DEF WaitsAt, StageNames
        <5> QED  BY <2>2, <2>4, <4>1, <5>2, Zenon DEF DrivenByQueue
      <4>2. CASE DrivenByCall(t)
        <5>1. PICK c \in calls : c.target = t /\ \A d \in calls : d.target = t => d = c
          BY <4>2, Zenon DEF DrivenByCall
        <5>2. P = {<<c.at, c.stage, c.branch>>}
          BY <5>1, Zenon
        <5> QED  BY <2>2, <2>3, <4>2, <5>2, Zenon DEF DrivenByCall
      <4> QED  BY <2>1, <2>6, <4>1, <4>2, Zenon DEF ChildIsDriven
    <3> QED  BY <2>6, <3>1, FS_Singleton, Zenon
  <2> QED  BY <2>5, <2>6, Zenon
<1> QED  BY <1>1, DriverInvariance, PTL

\* The futures that callbacks return: one driver at a time, and the outcome it brings.
THEOREM ReturnedOutcomesPropagateHolds == Spec => []ReturnedOutcomesPropagate
BY TypeCorrect, OneDriverHolds, OutcomesPropagateHolds, PTL DEF ReturnedOutcomesPropagate

=============================================================================
