------------------------------ MODULE OrderedLock ----------------------------
(***************************************************************************)
(* cl::ordered_lock (common-lib/common-lib/synchronization/internal/       *)
(* ordered-lock): several mutexes held together.  They are taken in the    *)
(* order of their order numbers whatever the order they were named in,     *)
(* push_back adds mutexes of higher numbers to a lock, and a mutex that    *)
(* throws makes do_safe_lock give back what it has taken.                  *)
(*                                                                         *)
(* A mutex is its order number.  A thread's lock is the pair of the sets   *)
(* of mutexes that it names in the constructor and in push_back: the       *)
(* static_asserts forbid repetitions, and the order of naming them does    *)
(* not outlast sort_tuple2.  They also make the mutexes of push_back all   *)
(* higher than the others.                                                 *)
(***************************************************************************)
EXTENDS Integers

CONSTANTS Threads, Mutexes, Pairs

VARIABLES
  named,       \* what a thread names: <<lockables, add_lockables>>
  stage,       \* of a thread
  taken        \* the mutexes that a thread holds

lockVars == <<named, stage, taken>>

\* is_ordered_lockable_types_valid and compare_ordered_lockable_tuples
Valid(pair) ==
  /\ pair[1] # {}
  /\ \A m \in pair[1], n \in pair[2] : m < n

TypeOK ==
  /\ named \in [Threads -> Pairs]
  /\ stage \in [Threads -> {"idle", "locking", "locked", "pushing", "held",
                          "undo locking", "undo pushing", "unlocking", "over"}]
  /\ taken \in [Threads -> SUBSET Mutexes]

Init ==
  /\ named \in [Threads -> {p \in Pairs : Valid(p)}]
  /\ stage = [h \in Threads |-> "idle"]
  /\ taken = [h \in Threads |-> {}]

-----------------------------------------------------------------------------
\* Mutant of Compare: everything comes before everything
CompareNothing(m, n) == TRUE

\* order_comparator::compare
Compare(m, n) == m < n

\* sort_tuple2<order_comparator>: the places of the mutexes S in the tuple it returns
IsFirst(m, S) == m \in S /\ \A n \in S \ {m} : Compare(m, n)
IsLast(m, S) == m \in S /\ \A n \in S \ {m} : Compare(n, m)

\* The mutexes of the constructor, or those of push_back, that are still to be taken
ToTake(h) ==
  LET all == CASE stage[h] = "locking" -> named[h][1]
               [] stage[h] = "pushing" -> named[h][2]
               [] OTHER -> {}
  IN  all \ taken[h]

\* The mutexes that an unlock, or the way out of a do_safe_lock, still has to give back
ToGive(h) ==
  LET all == CASE stage[h] = "undo locking" -> named[h][1]
               [] stage[h] = "undo pushing" -> named[h][2]
               [] stage[h] = "unlocking" -> named[h][1] \cup named[h][2]
               [] OTHER -> {}
  IN  all \cap taken[h]

\* The constructor, or lock() of a deferred lock
Lock(h) ==
  /\ stage[h] = "idle"
  /\ stage' = [stage EXCEPT ![h] = "locking"]
  /\ UNCHANGED <<named, taken>>

\* do_safe_lock takes the next one; after the last the lock is complete
TakeNext(h) ==
  /\ \E m \in ToTake(h) :
       /\ IsFirst(m, ToTake(h))
       /\ \A g \in Threads : m \notin taken[g]
       /\ taken' = [taken EXCEPT ![h] = @ \cup {m}]
       /\ stage' = [stage EXCEPT ![h] = CASE ToTake(h) # {m} -> @
                                          [] ToTake(h) = {m} /\ @ = "locking" -> "locked"
                                          [] OTHER -> "held"]
  /\ UNCHANGED named

\* push_back on a lock that is locked
PushBack(h) ==
  /\ stage[h] = "locked"
  /\ named[h][2] # {}
  /\ stage' = [stage EXCEPT ![h] = "pushing"]
  /\ UNCHANGED <<named, taken>>

\* lock() of a mutex throws out of do_safe_lock
LockThrows(h) ==
  /\ ToTake(h) # {}
  /\ stage' = [stage EXCEPT ![h] = IF @ = "locking" THEN "undo locking" ELSE "undo pushing"]
  /\ UNCHANGED <<named, taken>>

\* unlock() and the destructor begin
BeginUnlock(h) ==
  /\ stage[h] \in {"locked", "held"}
  /\ stage' = [stage EXCEPT ![h] = "unlocking"]
  /\ UNCHANGED <<named, taken>>

\* Mutant of Release: what a failed do_safe_lock has taken stays locked
ReleaseNothing(h) ==
  /\ \/ /\ stage[h] = "unlocking"
        /\ \E m \in ToGive(h) : IsLast(m, ToGive(h)) /\ taken' = [taken EXCEPT ![h] = @ \ {m}]
        /\ UNCHANGED stage
     \/ /\ stage[h] \in {"undo locking", "undo pushing"} \/ (stage[h] = "unlocking" /\ ToGive(h) = {})
        /\ stage' = [stage EXCEPT ![h] = IF @ = "undo pushing" THEN "held" ELSE "over"]
        /\ UNCHANGED taken
  /\ UNCHANGED named

\* One unlock, in reverse order.  After a throw the ordered_lock of push_back is still
\* locked, and one under construction does not come to be
Release(h) ==
  /\ stage[h] \in {"undo locking", "undo pushing", "unlocking"}
  /\ \/ /\ \E m \in ToGive(h) : IsLast(m, ToGive(h)) /\ taken' = [taken EXCEPT ![h] = @ \ {m}]
        /\ UNCHANGED stage
     \/ /\ ToGive(h) = {}
        /\ stage' = [stage EXCEPT ![h] = IF @ = "undo pushing" THEN "held" ELSE "over"]
        /\ UNCHANGED taken
  /\ UNCHANGED named

-----------------------------------------------------------------------------
Next ==
  \E h \in Threads : Lock(h) \/ TakeNext(h) \/ PushBack(h) \/ LockThrows(h) \/ BeginUnlock(h) \/ Release(h)

Spec == Init /\ [][Next]_lockVars

\* A thread that can take its next mutex does, and holders unlock in the end.
Fairness == \A h \in Threads : WF_lockVars(TakeNext(h)) /\ WF_lockVars(BeginUnlock(h) \/ Release(h))

-----------------------------------------------------------------------------
(* Properties.                                                             *)

WaitsFor(h, g) == \E m \in taken[g] : IsFirst(m, ToTake(h))

\* No mutex has two holders, and no threads wait for each other: whoever waits, waits for
\* a mutex above all that it holds, also in push_back, so the holder of the highest mutex
\* never waits; and a lock that is over, after an exception too, holds nothing.
NoCircularWait ==
  \A h \in Threads :
    /\ \A m \in taken[h], n \in ToTake(h) : m < n
    /\ \A g \in Threads \ {h} : taken[h] \cap taken[g] = {} /\ ~(WaitsFor(h, g) /\ WaitsFor(g, h))
    /\ stage[h] = "over" => taken[h] = {}

\* Threads that are taking mutexes or hold some
Due == {h \in Threads : stage[h] \notin {"idle", "over"}}

\* Every thread gets its mutexes, or an exception, and gives them back.
LocksAreReturned == []<>(Due = {})

=============================================================================
