------------------------------- MODULE Future --------------------------------
(***************************************************************************)
(* Promises, futures and continuations: cl::promise, cl::future and the    *)
(* future_controller behind them                                           *)
(* (common-lib/common-lib/thread/future/internal).                         *)
(*                                                                         *)
(* A controller belongs to a promise or to the future that then(),         *)
(* catched() or finally() returned.  Registering a continuation, settling  *)
(* a controller, draining its queues and calling a continuation are steps  *)
(* of different threads: the first two post the third to the pool, and it  *)
(* posts the fourth.  A step is one critical section of an ordered_lock,   *)
(* with the posts made inside it.                                          *)
(*                                                                         *)
(* A value is abstracted to the controller where it was first set, an      *)
(* exception likewise, so that it shows where an outcome comes from.  A    *)
(* callback that returns a future returns the future of a promise.         *)
(***************************************************************************)
EXTENDS Naturals, FiniteSets

CONSTANTS
  Promises,   \* controllers of promises
  Children,   \* controllers of futures made by then, catched and finally
  UsedKinds,  \* the continuations a program makes
  Waited,     \* controllers that threads wait on
  None

Controllers == Promises \cup Children

\* thenFuture: then() with a callback that returns a future; flatten: its second controller
Kinds == {"then", "thenFuture", "catched", "catchedFuture", "finally", "finallyFuture"}

ASSUME ControllersAssumption == Promises \cap Children = {} /\ None \notin Controllers
ASSUME WaitedAssumption == Waited \subseteq Controllers
ASSUME UsedKindsAssumption == UsedKinds \subseteq Kinds

VARIABLES
  alive,              \* the promise object exists
  completionPending,  \* m_completion_pending
  claims,             \* set_value and set_exception calls past claim_completion
  val, exc,           \* m_val_state, m_exception: where the outcome was first set
  onSuccess, onFail,  \* m_on_success_queue, m_on_fail_queue
  successDrains, failDrains,  \* posted tasks of process_on_success_async and _fail_async
  calls,              \* posted call_success and call_fail
  kind, source,       \* how a child was made, and from what
  returned,           \* the future a callback returned
  unregistered,       \* flattening children then() has still to register
  handles,            \* future objects the user holds
  blocked, notify     \* a thread blocks in wait(); notify_all is still to come

outcomeVars == <<val, exc, notify>>
drainVars == <<successDrains, failDrains>>
queueVars == <<onSuccess, onFail>>
promiseVars == <<alive, completionPending, claims>>
graphVars == <<kind, source, unregistered>>
vars == <<promiseVars, outcomeVars, queueVars, drainVars, calls, graphVars, returned, handles, blocked>>

\* own: as then, catched, finally or flatten_future registered it;
\* inner: registered on the future a callback returned
Continuations == [target : Children, stage : {"own", "inner"}]
Calls == [at : Controllers, target : Children, stage : {"own", "inner"}, branch : {"success", "fail"}]

Made == {c \in Children : kind[c] # "none"}
HasValue(n) == val[n] # None
HasException(n) == exc[n] # None
Settled(n) == HasValue(n) \/ HasException(n)

TypeOK ==
  /\ alive \in [Promises -> BOOLEAN]
  /\ completionPending \in [Promises -> BOOLEAN]
  /\ claims \in [Promises -> Nat]
  /\ val \in [Controllers -> Controllers \cup {None}]
  /\ exc \in [Controllers -> Controllers \cup {None}]
  /\ onSuccess \in [Controllers -> SUBSET Continuations]
  /\ onFail \in [Controllers -> SUBSET Continuations]
  /\ successDrains \in [Controllers -> Nat]
  /\ failDrains \in [Controllers -> Nat]
  /\ calls \subseteq Calls
  /\ kind \in [Children -> Kinds \cup {"none", "flatten"}]
  /\ source \in [Children -> Controllers \cup {None}]
  /\ returned \in [Controllers -> Promises \cup {None}]
  /\ unregistered \subseteq Children
  /\ handles \subseteq Controllers
  /\ blocked \in [Controllers -> BOOLEAN]
  /\ notify \in [Controllers -> BOOLEAN]

Init ==
  /\ alive = [p \in Promises |-> TRUE]
  /\ completionPending = [p \in Promises |-> TRUE]
  /\ claims = [p \in Promises |-> 0]
  /\ val = [n \in Controllers |-> None]
  /\ exc = [n \in Controllers |-> None]
  /\ onSuccess = [n \in Controllers |-> {}]
  /\ onFail = [n \in Controllers |-> {}]
  /\ successDrains = [n \in Controllers |-> 0]
  /\ failDrains = [n \in Controllers |-> 0]
  /\ calls = {}
  /\ kind = [c \in Children |-> "none"]
  /\ source = [c \in Children |-> None]
  /\ returned = [n \in Controllers |-> None]
  /\ unregistered = {}
  /\ handles = Promises
  /\ blocked = [n \in Controllers |-> FALSE]
  /\ notify = [n \in Controllers |-> FALSE]

-----------------------------------------------------------------------------
(* future_controller.                                                      *)

\* process_on_success_async and process_on_fail_async
PostDrains(n) ==
  /\ successDrains' = [successDrains EXCEPT ![n] = @ + 1]
  /\ failDrains' = [failDrains EXCEPT ![n] = @ + 1]

\* Mutant: registration leaves the draining to whoever settles the controller
RegisterWithoutDrains(n, k) ==
  /\ onSuccess' = [onSuccess EXCEPT ![n] = @ \cup {k}]
  /\ onFail' = [onFail EXCEPT ![n] = @ \cup {k}]
  /\ UNCHANGED <<outcomeVars, drainVars>>

\* set_on_success_and_fail
Register(n, k) ==
  /\ onSuccess' = [onSuccess EXCEPT ![n] = @ \cup {k}]
  /\ onFail' = [onFail EXCEPT ![n] = @ \cup {k}]
  /\ PostDrains(n)
  /\ UNCHANGED outcomeVars

\* set_value, set_value_state: v is where the value was first set
SetValue(n, v) ==
  /\ val' = [val EXCEPT ![n] = v]
  /\ notify' = [notify EXCEPT ![n] = n \in Waited]
  /\ PostDrains(n)
  /\ UNCHANGED <<exc, queueVars>>

\* Mutant: set_exception does not notify
SetExceptionSilently(n, e) ==
  /\ exc' = [exc EXCEPT ![n] = e]
  /\ PostDrains(n)
  /\ UNCHANGED <<val, notify, queueVars>>

\* set_exception
SetException(n, e) ==
  /\ exc' = [exc EXCEPT ![n] = e]
  /\ notify' = [notify EXCEPT ![n] = n \in Waited]
  /\ PostDrains(n)
  /\ UNCHANGED <<val, queueVars>>

\* The task of process_on_success_async: the continuations of a settled controller are
\* posted if it has a value and dropped if it has an exception
DrainSuccess(n) ==
  /\ successDrains[n] > 0
  /\ successDrains' = [successDrains EXCEPT ![n] = @ - 1]
  /\ onSuccess' = [onSuccess EXCEPT ![n] = IF Settled(n) THEN {} ELSE @]
  /\ calls' = calls \cup {[at |-> n, target |-> k.target, stage |-> k.stage, branch |-> "success"] :
                            k \in IF HasValue(n) THEN onSuccess[n] ELSE {}}
  /\ UNCHANGED <<promiseVars, outcomeVars, onFail, failDrains, graphVars, returned, handles, blocked>>

\* Mutant: the queue is copied, not swapped
DrainFailKeeping(n) ==
  /\ failDrains[n] > 0
  /\ failDrains' = [failDrains EXCEPT ![n] = @ - 1]
  /\ calls' = calls \cup {[at |-> n, target |-> k.target, stage |-> k.stage, branch |-> "fail"] :
                            k \in IF HasException(n) THEN onFail[n] ELSE {}}
  /\ UNCHANGED <<promiseVars, outcomeVars, queueVars, successDrains, graphVars, returned, handles, blocked>>

\* The task of process_on_fail_async
DrainFail(n) ==
  /\ failDrains[n] > 0
  /\ failDrains' = [failDrains EXCEPT ![n] = @ - 1]
  /\ onFail' = [onFail EXCEPT ![n] = IF Settled(n) THEN {} ELSE @]
  /\ calls' = calls \cup {[at |-> n, target |-> k.target, stage |-> k.stage, branch |-> "fail"] :
                            k \in IF HasException(n) THEN onFail[n] ELSE {}}
  /\ UNCHANGED <<promiseVars, outcomeVars, onSuccess, successDrains, graphVars, returned, handles, blocked>>

\* Mutant: the predicate is checked before the mutexes are taken
WaitUnchecked(n) ==
  /\ n \in handles \cap Waited
  /\ ~blocked[n]
  /\ blocked' = [blocked EXCEPT ![n] = TRUE]
  /\ UNCHANGED <<promiseVars, outcomeVars, queueVars, drainVars, calls, graphVars, returned, handles>>

\* wait, wait_for and get of a thread that finds the controller unsettled
Wait(n) ==
  /\ n \in handles \cap Waited
  /\ ~Settled(n)
  /\ ~blocked[n]
  /\ blocked' = [blocked EXCEPT ![n] = TRUE]
  /\ UNCHANGED <<promiseVars, outcomeVars, queueVars, drainVars, calls, graphVars, returned, handles>>

\* m_cv.notify_all at the end of set_value_state and set_exception; the woken threads
\* find the controller settled
NotifyAll(n) ==
  /\ notify[n]
  /\ notify' = [notify EXCEPT ![n] = FALSE]
  /\ blocked' = [blocked EXCEPT ![n] = FALSE]
  /\ UNCHANGED <<promiseVars, val, exc, queueVars, drainVars, calls, graphVars, returned, handles>>

-----------------------------------------------------------------------------
(* promise.                                                                *)

\* Mutant: the caller that lost the completion right goes on
ClaimCompletionUnchecked(p) ==
  /\ alive[p]
  /\ claims[p] < 2
  /\ completionPending' = [completionPending EXCEPT ![p] = FALSE]
  /\ claims' = [claims EXCEPT ![p] = @ + 1]
  /\ UNCHANGED <<alive, outcomeVars, queueVars, drainVars, calls, graphVars, returned, handles, blocked>>

\* claim_completion of set_value or set_exception; whoever comes later throws
ClaimCompletion(p) ==
  /\ alive[p]
  /\ completionPending[p]
  /\ completionPending' = [completionPending EXCEPT ![p] = FALSE]
  /\ claims' = [claims EXCEPT ![p] = @ + 1]
  /\ UNCHANGED <<alive, outcomeVars, queueVars, drainVars, calls, graphVars, returned, handles, blocked>>

\* The rest of set_value or set_exception.  A value whose construction throws becomes
\* an exception.
Complete(p) ==
  /\ claims[p] > 0
  /\ claims' = [claims EXCEPT ![p] = @ - 1]
  /\ SetValue(p, p) \/ SetException(p, p)
  /\ UNCHANGED <<alive, completionPending, calls, graphVars, returned, handles, blocked>>

\* Mutant: an unresolved promise goes without broken_promise
AbandonSilently(p) ==
  /\ alive[p]
  /\ claims[p] = 0
  /\ alive' = [alive EXCEPT ![p] = FALSE]
  /\ completionPending' = [completionPending EXCEPT ![p] = FALSE]
  /\ UNCHANGED <<claims, outcomeVars, queueVars, drainVars, calls, graphVars, returned, handles, blocked>>

\* ~promise, or a move assignment to it: abandon.  Nobody else is in a call.
Abandon(p) ==
  /\ alive[p]
  /\ claims[p] = 0
  /\ alive' = [alive EXCEPT ![p] = FALSE]
  /\ completionPending' = [completionPending EXCEPT ![p] = FALSE]
  /\ \/ completionPending[p] /\ SetException(p, p)
     \/ ~completionPending[p] /\ UNCHANGED <<outcomeVars, queueVars, drainVars>>
  /\ UNCHANGED <<claims, calls, graphVars, returned, handles, blocked>>

-----------------------------------------------------------------------------
(* future.                                                                 *)

\* then, catched and finally.  A then() whose callback returns a future makes a second
\* controller d, for the flattened result, and registers it next.
MakeChild(n, c, k) ==
  /\ n \in handles
  /\ c \in Children \ Made
  /\ \/ /\ k # "thenFuture"
        /\ kind' = [kind EXCEPT ![c] = k]
        /\ source' = [source EXCEPT ![c] = n]
        /\ handles' = handles \cup {c}
        /\ UNCHANGED unregistered
     \/ /\ k = "thenFuture"
        /\ \E d \in Children \ (Made \cup {c}) :
             /\ kind' = [kind EXCEPT ![c] = k, ![d] = "flatten"]
             /\ source' = [source EXCEPT ![c] = n, ![d] = c]
             /\ unregistered' = unregistered \cup {d}
             /\ UNCHANGED handles
  /\ Register(n, [target |-> c, stage |-> "own"])
  /\ UNCHANGED <<promiseVars, calls, returned, blocked>>

\* flatten_future, at the end of then
FlattenFuture(d) ==
  /\ d \in unregistered
  /\ unregistered' = unregistered \ {d}
  /\ handles' = handles \cup {d}
  /\ Register(source[d], [target |-> d, stage |-> "own"])
  /\ UNCHANGED <<promiseVars, calls, kind, source, returned, blocked>>

\* A callback of t returns the future m, which registers t once more
Adopt(t, m) ==
  /\ returned' = [returned EXCEPT ![t] = m]
  /\ handles' = handles \ {m}
  /\ Register(m, [target |-> t, stage |-> "inner"])

\* Mutant: an exception is passed on as a new one
RaisesAnew(t, e) == SetException(t, t) /\ UNCHANGED <<returned, handles>>

\* t gets a value, or an exception, and no future changes hands
Yields(t, v) == SetValue(t, v) /\ UNCHANGED <<returned, handles>>
Raises(t, e) == SetException(t, e) /\ UNCHANGED <<returned, handles>>

\* The user's callback throws, or returns an invalid future
CallbackThrows(t) == Raises(t, t)

\* A callback that returns a future returns one of a promise that the user holds
CallbackReturnsFuture(t) == \E m \in handles \cap Promises : Adopt(t, m)

\* then() stores the future its callback returned, or an invalid one, as a value
StoreFuture(t) ==
  \/ Yields(t, t)
  \/ \E m \in handles \cap Promises :
       /\ returned' = [returned EXCEPT ![t] = m]
       /\ handles' = handles \ {m}
       /\ SetValue(t, t)

\* flatten_future's success callback: the stored future of n is to settle t
FlattenStored(n, t) ==
  \/ returned[n] = None /\ CallbackThrows(t)
  \/ /\ returned[n] # None
     /\ Register(returned[n], [target |-> t, stage |-> "inner"])
     /\ UNCHANGED <<returned, handles>>

\* What the success callback of t, registered on n, does: exec_then_on_success, and the
\* closures of flatten_future, get_on_success_for_catched_method and
\* get_on_success_for_finally_method
OnSuccess(n, t) ==
  \/ kind[t] \in {"then", "thenFuture", "finally", "finallyFuture"} /\ CallbackThrows(t)
  \/ kind[t] = "then" /\ Yields(t, t)
  \/ kind[t] = "thenFuture" /\ StoreFuture(t)
  \/ kind[t] = "flatten" /\ FlattenStored(n, t)
  \/ kind[t] \in {"catched", "catchedFuture", "finally"} /\ Yields(t, val[n])
  \/ kind[t] = "finallyFuture" /\ CallbackReturnsFuture(t)

\* What the fail callback does: the closures of then, flatten_future,
\* get_on_fail_for_catched_method and get_on_fail_for_finally_method
OnFail(n, t) ==
  \/ kind[t] \in {"catched", "catchedFuture", "finally", "finallyFuture"} /\ CallbackThrows(t)
  \/ kind[t] \in {"then", "thenFuture", "flatten", "finally"} /\ Raises(t, exc[n])
  \/ kind[t] = "catched" /\ Yields(t, t)
  \/ kind[t] \in {"catchedFuture", "finallyFuture"} /\ CallbackReturnsFuture(t)

\* Mutant: the value of the future that the finally() callback returned gets through
OnInnerSuccessReplacing(n, t) == Yields(t, val[n])

\* The continuation on a returned future n that succeeded: n's value is the value of t,
\* but after a finally the outcome of the source comes through
OnInnerSuccess(n, t) ==
  \/ kind[t] \in {"flatten", "catchedFuture"} /\ Yields(t, val[n])
  \/ kind[t] = "finallyFuture" /\ HasValue(source[t]) /\ Yields(t, val[source[t]])
  \/ kind[t] = "finallyFuture" /\ HasException(source[t]) /\ Raises(t, exc[source[t]])

\* The continuation on a returned future n that failed
OnInnerFail(n, t) == Raises(t, exc[n])

\* call_success and call_fail
Call(c) ==
  /\ c \in calls
  /\ calls' = calls \ {c}
  /\ \/ c.stage = "own" /\ c.branch = "success" /\ OnSuccess(c.at, c.target)
     \/ c.stage = "own" /\ c.branch = "fail" /\ OnFail(c.at, c.target)
     \/ c.stage = "inner" /\ c.branch = "success" /\ OnInnerSuccess(c.at, c.target)
     \/ c.stage = "inner" /\ c.branch = "fail" /\ OnInnerFail(c.at, c.target)
  /\ UNCHANGED <<promiseVars, graphVars, blocked>>

-----------------------------------------------------------------------------
Next ==
  \/ \E p \in Promises : ClaimCompletion(p) \/ Complete(p) \/ Abandon(p)
  \/ \E n \in Controllers : DrainSuccess(n) \/ DrainFail(n) \/ Wait(n) \/ NotifyAll(n)
  \/ \E n \in Controllers, c \in Children, k \in UsedKinds : MakeChild(n, c, k)
  \/ \E d \in Children : FlattenFuture(d)
  \/ \E c \in calls : Call(c)

Spec == Init /\ [][Next]_vars

\* A step of the pool, of a library call under way, or of a promise's destruction
Step ==
  \/ \E p \in Promises : Complete(p) \/ Abandon(p)
  \/ \E n \in Controllers : DrainSuccess(n) \/ DrainFail(n) \/ NotifyAll(n)
  \/ \E d \in Children : FlattenFuture(d)
  \/ \E c \in calls : Call(c)

\* The pool runs what is posted to it, a call of the library runs to its end, and a
\* promise is destroyed some day.  No step enables another for ever, so one condition
\* for all of them is enough.
Fairness == WF_vars(Step)

FairSpec == Spec /\ Fairness

-----------------------------------------------------------------------------
(* Properties.                                                             *)

\* A settled controller keeps its outcome, as assert(!m_val_state) and
\* assert(!(m_val_state && m_exception)) demand: set_value, set_exception and the destructor of
\* a promise race for one completion right, and a continuation runs in one branch, once.
OutcomeIsFinal ==
  [][\A n \in Controllers : Settled(n) => val'[n] = val[n] /\ exc'[n] = exc[n]]_vars

\* k waits at n, in each queue that n's outcome may still need
Queued(n, k) ==
  /\ HasException(n) \/ k \in onSuccess[n]
  /\ HasValue(n) \/ k \in onFail[n]

\* What will settle t: its place in the queues of a controller, or its posted call
Drivers(t) ==
  {q \in Controllers \X {"own", "inner"} : Queued(q[1], [target |-> t, stage |-> q[2]])}
  \cup {<<c.at, c.stage, c.branch>> : c \in {c \in calls : c.target = t}}

\* Between registration, settlement, draining and calling no continuation is lost or
\* doubled: a child has exactly one driver until it settles and none afterwards.
OneDriver ==
  \A t \in Made : Cardinality(Drivers(t)) = IF Settled(t) \/ t \in unregistered THEN 0 ELSE 1

\* A controller that settled while continuations wait in its queue, or that gets one after
\* it settled, has a drain of that queue still to run: registration and settlement hold
\* different mutexes, and each posts its own drains.
NoLostDrain ==
  \A n \in Controllers : /\ HasValue(n) /\ onSuccess[n] # {} => successDrains[n] > 0
                         /\ HasException(n) /\ onFail[n] # {} => failDrains[n] > 0

\* Where the outcome of a child comes from: an exception skips then() and reaches the
\* child as it was, a value skips catched(), a future that a callback returned replaces
\* the callback's result, and a finally() that succeeds lets its source's outcome through
\* while one that fails replaces it.
OutcomesPropagate ==
  \A t \in Made :
    LET n == source[t]
        m == returned[t]
        like(s) == val[t] = val[s] /\ exc[t] = exc[s]
        fails == exc[t] = t
    IN  Settled(t) =>
          /\ kind[t] \in {"then", "thenFuture"} => IF HasException(n) THEN like(n) ELSE fails \/ val[t] = t
          /\ kind[t] = "flatten" => \/ HasException(n) /\ like(n)
                                    \/ HasValue(n) /\ IF returned[n] = None THEN fails ELSE like(returned[n])
          /\ kind[t] = "catched" => IF HasValue(n) THEN like(n) ELSE fails \/ val[t] = t
          /\ kind[t] = "catchedFuture" => IF HasValue(n) THEN like(n)
                                          ELSE IF m = None THEN fails ELSE like(m)
          /\ kind[t] = "finally" => fails \/ like(n)
          /\ kind[t] = "finallyFuture" => IF m = None THEN fails
                                          ELSE IF HasException(m) THEN exc[t] = exc[m] ELSE like(n)

\* Returned futures in particular: the link has one driver, which becomes the future that
\* the callback returned, and takes its outcome.
ReturnedOutcomesPropagate == TypeOK /\ OneDriver /\ OutcomesPropagate

\* A thread blocked in wait() on a settled controller will be notified: the check under
\* both mutexes and the notification after their release do not miss each other.
NoLostNotification == \A n \in Controllers : blocked[n] /\ Settled(n) => notify[n]

\* Once its promises are gone every future settles, however they are chained: an
\* unresolved promise reports broken_promise, and every link passes an outcome on.
FuturesSettle == \A c \in Children : kind[c] # "none" ~> Settled(c)

\* A thread in wait() returns.
WaitersReturn == \A n \in Controllers : blocked[n] ~> ~blocked[n]

\* Both: whoever waits for a future, by a link or blocked, gets its outcome.
FuturesComplete == FuturesSettle /\ WaitersReturn

=============================================================================
