------------------------------- MODULE Event ---------------------------------
(***************************************************************************)
(* cl::event (common-lib/common-lib/synchronization/internal/event/        *)
(* event.cpp): a flag under a spinlock and a condition variable.  set()    *)
(* notifies after it has released the spinlock, so that other calls come   *)
(* between the two.  A step is a critical section or a notification;       *)
(* blocking on the condition variable releases the spinlock atomically.    *)
(***************************************************************************)
EXTENDS Naturals, FiniteSets

CONSTANTS
  Waiters,     \* threads that call wait or wait_for
  Setters,     \* threads that call set
  MaxSets      \* bound on the calls of set

VARIABLES
  manualReset, \* m_manual_reset
  isSet,       \* m_is_set
  waiter,      \* where a waiting thread is
  setter,      \* "notifying": set() has released the spinlock
  sets,        \* calls of set so far
  released     \* waits of an auto-reset event that were signaled so far

eventVars == <<manualReset, isSet, waiter, setter, sets, released>>

TypeOK ==
  /\ manualReset \in BOOLEAN
  /\ isSet \in BOOLEAN
  /\ waiter \in [Waiters -> {"idle", "asleep", "woken"}]
  /\ setter \in [Setters -> {"idle", "notifying"}]
  /\ sets \in Nat
  /\ released \in Nat

Init ==
  /\ manualReset \in BOOLEAN
  /\ isSet \in BOOLEAN
  /\ waiter = [w \in Waiters |-> "idle"]
  /\ setter = [s \in Setters |-> "idle"]
  /\ sets = IF isSet THEN 1 ELSE 0
  /\ released = 0

-----------------------------------------------------------------------------
\* The critical section of set()
Set(s) ==
  /\ setter[s] = "idle"
  /\ sets < MaxSets
  /\ sets' = sets + 1
  /\ isSet' = TRUE
  /\ setter' = [setter EXCEPT ![s] = "notifying"]
  /\ UNCHANGED <<manualReset, waiter, released>>

\* Mutant of Notify: a manual-reset event wakes one thread
NotifyOneOnly(s) ==
  /\ setter[s] = "notifying"
  /\ setter' = [setter EXCEPT ![s] = "idle"]
  /\ \/ \E w \in Waiters : waiter[w] = "asleep" /\ waiter' = [waiter EXCEPT ![w] = "woken"]
     \/ (\A w \in Waiters : waiter[w] # "asleep") /\ UNCHANGED waiter
  /\ UNCHANGED <<manualReset, isSet, sets, released>>

\* The end of set(): notify_all, or notify_one
Notify(s) ==
  /\ setter[s] = "notifying"
  /\ setter' = [setter EXCEPT ![s] = "idle"]
  /\ \/ /\ manualReset
        /\ waiter' = [w \in Waiters |-> IF waiter[w] = "asleep" THEN "woken" ELSE waiter[w]]
     \/ /\ ~manualReset
        /\ \E w \in Waiters : waiter[w] = "asleep" /\ waiter' = [waiter EXCEPT ![w] = "woken"]
     \/ /\ ~manualReset
        /\ \A w \in Waiters : waiter[w] # "asleep"
        /\ UNCHANGED waiter
  /\ UNCHANGED <<manualReset, isSet, sets, released>>

Reset ==
  /\ isSet' = FALSE
  /\ UNCHANGED <<manualReset, waiter, setter, sets, released>>

\* The predicate holds: the wait ends, and takes the signal of an auto-reset event
Take(w) ==
  /\ isSet
  /\ isSet' = manualReset
  /\ waiter' = [waiter EXCEPT ![w] = "idle"]
  /\ released' = IF manualReset THEN released ELSE released + 1

\* wait and wait_for: the predicate is looked at first, and after each wakeup
Check(w) ==
  /\ waiter[w] \in {"idle", "woken"}
  /\ \/ Take(w)
     \/ /\ ~isSet
        /\ waiter' = [waiter EXCEPT ![w] = "asleep"]
        /\ UNCHANGED <<isSet, released>>
  /\ UNCHANGED <<manualReset, setter, sets>>

\* The time of a wait_for passes, asleep or just notified: the predicate decides
WaitForEnds(w) ==
  /\ waiter[w] \in {"asleep", "woken"}
  /\ \/ Take(w)
     \/ /\ ~isSet
        /\ waiter' = [waiter EXCEPT ![w] = "idle"]
        /\ UNCHANGED <<isSet, released>>
  /\ UNCHANGED <<manualReset, setter, sets>>

\* A condition variable may wake a thread by itself
SpuriousWakeup(w) ==
  /\ waiter[w] = "asleep"
  /\ waiter' = [waiter EXCEPT ![w] = "woken"]
  /\ UNCHANGED <<manualReset, isSet, setter, sets, released>>

-----------------------------------------------------------------------------
Next ==
  \/ \E s \in Setters : Set(s) \/ Notify(s)
  \/ \E w \in Waiters : Check(w) \/ WaitForEnds(w) \/ SpuriousWakeup(w)
  \/ Reset

Spec == Init /\ [][Next]_eventVars

\* A thread inside set() notifies, and a woken thread looks at the predicate.
Fairness ==
  /\ \A s \in Setters : WF_eventVars(Notify(s))
  /\ \A w \in Waiters : WF_eventVars(waiter[w] = "woken" /\ Check(w))

-----------------------------------------------------------------------------
(* Properties.                                                             *)

Asleep == {w \in Waiters : waiter[w] = "asleep"}
Woken == {w \in Waiters : waiter[w] = "woken"}
Notifying == {s \in Setters : setter[s] = "notifying"}

\* While the event is set nobody sleeps unnoticed: a notification is still to come, or,
\* for an auto-reset event, a woken thread will take the signal; a thread that times out
\* or comes between set() and its notification does not lose it.
NoLostSignal ==
  isSet /\ Asleep # {} => Notifying # {} \/ (~manualReset /\ Woken # {})

\* One call of set() releases one wait of an auto-reset event at most.
OneReleasePerSet == ~manualReset => released + (IF isSet THEN 1 ELSE 0) <= sets

\* A signal of an event is neither lost nor, if it resets itself, handed out twice.
SignalsAreKept == TypeOK /\ NoLostSignal /\ OneReleasePerSet

\* Threads that should wake up
Due == IF isSet THEN Asleep ELSE {}

\* No thread sleeps on while the event stays set.
SignalsArrive == []<>(Due = {})

=============================================================================
