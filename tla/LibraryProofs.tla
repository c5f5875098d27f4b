---------------------------- MODULE LibraryProofs ----------------------------
(***************************************************************************)
(* Proofs about the event, the ordered lock, the periodic timer and the    *)
(* thread pool of common-lib, and about the client and a connection of     *)
(* rpc-lib, for any number of threads, mutexes, tasks, stops, calls and    *)
(* requests.                                                               *)
(***************************************************************************)
EXTENDS Library, Connection, TLAPS

-----------------------------------------------------------------------------
(* cl::event.  The properties are inductive together.  NoLostSignal needs  *)
(* to look at where a thread goes to sleep (only while the event is not    *)
(* set) and at who can take its last hope away: the notification that      *)
(* wakes everybody, the one that wakes a thread, and a woken thread that   *)
(* takes the signal and by that resets the event.                          *)

\* set() promises a notification.
LEMMA EventSetStep == ASSUME Event!SignalsAreKept, NEW s \in EventSetters, Event!Set(s) PROVE Event!SignalsAreKept'
<1>1. Event!TypeOK'
  BY DEF Event!SignalsAreKept, Event!TypeOK, Event!Set
<1>2. s \in Event!Notifying'
  BY Zenon DEF Event!SignalsAreKept, Event!TypeOK, Event!Set, Event!Notifying
<1>3. Event!NoLostSignal'
  BY <1>2, Zenon DEF Event!NoLostSignal
<1>4. Event!OneReleasePerSet'
  BY DEF Event!SignalsAreKept, Event!TypeOK, Event!Set, Event!OneReleasePerSet
<1> QED  BY <1>1, <1>3, <1>4, Zenon DEF Event!SignalsAreKept

\* notify_all leaves nobody asleep, notify_one a thread that is woken, unless nobody slept.
LEMMA EventNotifyStep == ASSUME Event!SignalsAreKept, NEW s \in EventSetters, Event!Notify(s) PROVE Event!SignalsAreKept'
<1>1. Event!TypeOK'
  BY Zenon DEF Event!SignalsAreKept, Event!TypeOK, Event!Notify
<1>2. Event!OneReleasePerSet'
  BY Zenon DEF Event!SignalsAreKept, Event!Notify, Event!OneReleasePerSet
<1>3. CASE event_manualReset
  <2>1. Event!Asleep' = {}
    BY <1>3, Zenon DEF Event!SignalsAreKept, Event!TypeOK, Event!Notify, Event!Asleep
  <2> QED  BY <1>1, <1>2, <2>1, Zenon DEF Event!SignalsAreKept, Event!NoLostSignal
<1>4. CASE ~event_manualReset
  <2>1. Event!Woken' # {} \/ Event!Asleep' = {}
    BY <1>4, Zenon DEF Event!SignalsAreKept, Event!TypeOK, Event!Notify, Event!Asleep, Event!Woken
  <2>2. ~event_manualReset'
    BY <1>4, Zenon DEF Event!Notify
  <2> QED  BY <1>1, <1>2, <2>1, <2>2, Zenon DEF Event!SignalsAreKept, Event!NoLostSignal
<1> QED  BY <1>3, <1>4, Zenon

\* A thread that finds the event set takes the signal of an auto-reset event, and one that
\* does not may sleep or give up.
LEMMA EventWaitStep ==
  ASSUME Event!SignalsAreKept, NEW w \in EventWaiters, Event!Check(w) \/ Event!WaitForEnds(w)
  PROVE  Event!SignalsAreKept'
<1>1. Event!TypeOK'
  BY DEF Event!SignalsAreKept, Event!TypeOK, Event!Check, Event!WaitForEnds, Event!Take
<1>2. Event!OneReleasePerSet'
  BY DEF Event!SignalsAreKept, Event!TypeOK, Event!Check, Event!WaitForEnds, Event!Take, Event!OneReleasePerSet
<1>3. Event!NoLostSignal'
  <2>1. CASE event_isSet
    <3>1. CASE event_manualReset
      <4>1. Event!Asleep' \subseteq Event!Asleep /\ Event!Notifying' = Event!Notifying
        BY <2>1, Zenon DEF Event!SignalsAreKept, Event!TypeOK, Event!Check, Event!WaitForEnds, Event!Take, Event!Asleep, Event!Notifying
      <4> QED  BY <2>1, <3>1, <4>1, Zenon DEF Event!SignalsAreKept, Event!NoLostSignal
    <3>2. CASE ~event_manualReset
      <4>1. event_isSet' = FALSE
        BY <2>1, <3>2, Zenon DEF Event!SignalsAreKept, Event!TypeOK, Event!Check, Event!WaitForEnds, Event!Take
      <4> QED  BY <4>1, Zenon DEF Event!NoLostSignal
    <3> QED  BY <3>1, <3>2, Zenon
  <2>2. CASE ~event_isSet
    BY <2>2, Zenon DEF Event!Check, Event!WaitForEnds, Event!Take, Event!NoLostSignal
  <2> QED  BY <2>1, <2>2, Zenon
<1> QED  BY <1>1, <1>2, <1>3, Zenon DEF Event!SignalsAreKept

\* A spurious wakeup only adds to the woken threads, and reset() to the states that promise
\* nothing.
LEMMA EventOtherStep ==
  ASSUME Event!SignalsAreKept, (\E w \in EventWaiters : Event!SpuriousWakeup(w)) \/ Event!Reset \/ UNCHANGED Event!eventVars
  PROVE  Event!SignalsAreKept'
<1>1. ASSUME NEW w \in EventWaiters, Event!SpuriousWakeup(w) PROVE Event!SignalsAreKept'
  <2>1. Event!TypeOK' /\ Event!OneReleasePerSet'
    BY <1>1, Zenon DEF Event!SignalsAreKept, Event!TypeOK, Event!SpuriousWakeup, Event!OneReleasePerSet
  <2>2. Event!Asleep' \subseteq Event!Asleep /\ Event!Woken \subseteq Event!Woken' /\ Event!Notifying' = Event!Notifying
    BY <1>1, Zenon DEF Event!SignalsAreKept, Event!TypeOK, Event!SpuriousWakeup, Event!Asleep, Event!Woken, Event!Notifying
  <2>3. Event!NoLostSignal'
    BY <1>1, <2>2, Zenon DEF Event!SignalsAreKept, Event!SpuriousWakeup, Event!NoLostSignal
  <2> QED  BY <2>1, <2>3, Zenon DEF Event!SignalsAreKept
<1>2. CASE Event!Reset
  <2>1. Event!TypeOK' /\ Event!NoLostSignal'
    BY <1>2, Zenon DEF Event!Reset, Event!SignalsAreKept, Event!TypeOK, Event!NoLostSignal
  <2>2. event_sets \in Nat /\ event_released \in Nat /\ event_isSet \in BOOLEAN
    BY Zenon DEF Event!SignalsAreKept, Event!TypeOK
  <2>3. Event!OneReleasePerSet'
    BY <1>2, <2>2, SMT DEF Event!Reset, Event!SignalsAreKept, Event!OneReleasePerSet
  <2> QED  BY <2>1, <2>3, Zenon DEF Event!SignalsAreKept
<1>3. CASE UNCHANGED Event!eventVars
  BY <1>3, Zenon DEF Event!eventVars, Event!SignalsAreKept, Event!TypeOK, Event!NoLostSignal, Event!OneReleasePerSet, Event!Asleep, Event!Woken, Event!Notifying
<1> QED  BY <1>1, <1>2, <1>3, Zenon

\* Signals are neither lost nor handed out twice, for any number of threads and calls of
\* wait, wait_for, set and reset.
THEOREM SignalsAreKeptHolds == Event!Spec => []SignalsAreKept
<1>1. Event!Init => Event!SignalsAreKept
  BY DEF Event!Init, Event!SignalsAreKept, Event!TypeOK, Event!NoLostSignal, Event!OneReleasePerSet, Event!Asleep
<1>2. Event!SignalsAreKept /\ [Event!Next]_(Event!eventVars) => Event!SignalsAreKept'
  BY EventSetStep, EventNotifyStep, EventWaitStep, EventOtherStep, Zenon DEF Event!Next
<1> QED  BY <1>1, <1>2, PTL DEF Event!Spec, SignalsAreKept

-----------------------------------------------------------------------------
(* cl::ordered_lock.  While mutexes are being taken, those taken are below *)
(* those still to be taken: do_safe_lock takes the lowest, and push_back   *)
(* may name higher ones only.                                              *)

\* The mutexes of the constructor, and those of push_back
Own(h) == lock_named[h][1]
Added(h) == lock_named[h][2]

TakesUpward(h) ==
  /\ \A m \in Own(h), n \in Added(h) : m < n
  /\ lock_taken[h] \subseteq Own(h) \cup Added(h)
  /\ lock_stage[h] \in {"locking", "locked", "undo locking"} => lock_taken[h] \subseteq Own(h)
  /\ lock_stage[h] \in {"idle", "over"} => lock_taken[h] = {}
  /\ \A m \in lock_taken[h], n \in Lock!ToTake(h) : m < n

LockInv ==
  /\ Lock!TypeOK
  /\ \A h \in LockThreads : TakesUpward(h)
  /\ \A h, g \in LockThreads : h # g => lock_taken[h] \cap lock_taken[g] = {}

\* What is named are mutexes, which are integers.
LEMMA NamedMutexes ==
  ASSUME Lock!TypeOK, NEW h \in LockThreads
  PROVE  Own(h) \subseteq Mutexes /\ Added(h) \subseteq Mutexes /\ Mutexes \subseteq Int
  BY LockNames, Zenon DEF Lock!TypeOK, Own, Added

\* A step of one thread takes or gives back mutexes of its own and leaves the others alone.
LEMMA OneThreadSteps ==
  ASSUME LockInv, NEW h \in LockThreads, Lock!TypeOK', TakesUpward(h)', lock_named' = lock_named,
         \A g \in LockThreads \ {h} : lock_stage'[g] = lock_stage[g] /\ lock_taken'[g] = lock_taken[g],
         \A g \in LockThreads \ {h} : lock_taken'[h] \cap lock_taken[g] = {}
  PROVE  LockInv'
<1>1. ASSUME NEW g \in LockThreads, g # h PROVE TakesUpward(g)'
  BY <1>1, Zenon DEF LockInv, TakesUpward, Own, Added, Lock!ToTake
<1>2. ASSUME NEW g \in LockThreads, NEW k \in LockThreads, g # k
      PROVE  lock_taken'[g] \cap lock_taken'[k] = {}
  BY <1>2 DEF LockInv
<1> QED  BY <1>1, <1>2, Zenon DEF LockInv

\* A lock begins, goes on to push_back, begins to unlock, or a mutex throws: nothing is taken.
LEMMA LockTurns ==
  ASSUME LockInv, NEW h \in LockThreads,
         Lock!Lock(h) \/ Lock!PushBack(h) \/ Lock!LockThrows(h) \/ Lock!BeginUnlock(h)
  PROVE  LockInv'
<1>1. Lock!TypeOK' /\ UNCHANGED <<lock_named, lock_taken>>
  BY Zenon DEF LockInv, Lock!TypeOK, Lock!Lock, Lock!PushBack, Lock!LockThrows, Lock!BeginUnlock
<1>2. \A g \in LockThreads \ {h} : lock_stage'[g] = lock_stage[g]
  BY Zenon DEF LockInv, Lock!TypeOK, Lock!Lock, Lock!PushBack, Lock!LockThrows, Lock!BeginUnlock
<1>3. TakesUpward(h)'
  <2>1. TakesUpward(h)
    BY Zenon DEF LockInv
  <2>2. CASE Lock!Lock(h)
    BY <1>1, <2>1, <2>2, Zenon DEF LockInv, Lock!TypeOK, Lock!Lock, TakesUpward, Own, Added, Lock!ToTake
  <2>3. CASE Lock!PushBack(h)
    BY <1>1, <2>1, <2>3, Zenon DEF LockInv, Lock!TypeOK, Lock!PushBack, TakesUpward, Own, Added, Lock!ToTake
  <2>4. CASE Lock!LockThrows(h)
    <3>1. lock_stage[h] \in {"locking", "pushing"}
      BY <2>4, Zenon DEF LockInv, Lock!TypeOK, Lock!LockThrows, Lock!ToTake
    <3>2. lock_stage'[h] = IF lock_stage[h] = "locking" THEN "undo locking" ELSE "undo pushing"
      BY <2>4, Zenon DEF LockInv, Lock!TypeOK, Lock!LockThrows
    <3> QED  BY <1>1, <2>1, <3>1, <3>2, Zenon DEF TakesUpward, Own, Added, Lock!ToTake
  <2>5. CASE Lock!BeginUnlock(h)
    BY <1>1, <2>1, <2>5, Zenon DEF LockInv, Lock!TypeOK, Lock!BeginUnlock, TakesUpward, Own, Added, Lock!ToTake
  <2> QED  BY <2>2, <2>3, <2>4, <2>5, Zenon
<1> QED  BY <1>1, <1>2, <1>3, OneThreadSteps, Zenon DEF LockInv

\* do_safe_lock takes the lowest mutex that is left, when nobody holds it.
LEMMA LockTakes ==
  ASSUME LockInv, NEW h \in LockThreads, Lock!TakeNext(h)
  PROVE  LockInv'
<1>1. PICK m \in Lock!ToTake(h) :
        /\ Lock!IsFirst(m, Lock!ToTake(h))
        /\ \A g \in LockThreads : m \notin lock_taken[g]
        /\ lock_taken' = [lock_taken EXCEPT ![h] = @ \cup {m}]
        /\ lock_stage' = [lock_stage EXCEPT ![h] = CASE Lock!ToTake(h) # {m} -> @
                              [] Lock!ToTake(h) = {m} /\ @ = "locking" -> "locked"
                              [] OTHER -> "held"]
        /\ lock_named' = lock_named
  BY Zenon DEF Lock!TakeNext
<1>2. /\ lock_stage[h] \in {"locking", "pushing"}
      /\ Lock!ToTake(h) = (IF lock_stage[h] = "locking" THEN Own(h) ELSE Added(h)) \ lock_taken[h]
  BY <1>1, Zenon DEF Lock!ToTake, Own, Added
<1>3. m \in Mutexes /\ Mutexes \subseteq Int /\ Lock!ToTake(h) \subseteq Mutexes
  BY <1>1, <1>2, NamedMutexes, Zenon DEF LockInv
<1>4. Lock!TypeOK'
  BY <1>1, <1>2, <1>3, Zenon DEF LockInv, Lock!TypeOK
<1>5. \A n \in Lock!ToTake(h) \ {m} : m < n
  BY <1>1, Zenon DEF Lock!IsFirst, Lock!Compare
<1>6. /\ lock_taken'[h] = lock_taken[h] \cup {m}
      /\ lock_stage'[h] \in {lock_stage[h], "held"} \/ (lock_stage[h] = "locking" /\ lock_stage'[h] = "locked")
      /\ lock_stage[h] = "locking" => lock_stage'[h] \in {"locking", "locked"}
      /\ \A g \in LockThreads \ {h} : lock_stage'[g] = lock_stage[g] /\ lock_taken'[g] = lock_taken[g]
  BY <1>1, <1>2, Zenon DEF LockInv, Lock!TypeOK
<1>7. Lock!ToTake(h)' \subseteq Lock!ToTake(h) \ {m}
  BY <1>1, <1>2, <1>6, Zenon DEF Lock!ToTake, Own, Added
<1>8. TakesUpward(h)'
  <2>1. Own(h)' = Own(h) /\ Added(h)' = Added(h)
    BY <1>1, Zenon DEF Own, Added
  <2>2. TakesUpward(h)
    BY Zenon DEF LockInv
  <2>3. ASSUME NEW k \in lock_taken'[h], NEW n \in Lock!ToTake(h)' PROVE k < n
    <3>1. n \in Lock!ToTake(h) \ {m}
      BY <1>7, Zenon
    <3>2. k \in lock_taken[h] => k < n
      BY <2>2, <3>1, Zenon DEF TakesUpward
    <3> QED  BY <1>5, <1>6, <3>1, <3>2, Zenon
  <2>4. lock_taken'[h] \subseteq Own(h)' \cup Added(h)'
    BY <1>1, <1>2, <1>6, <2>1, <2>2, Zenon DEF TakesUpward
  <2>5. lock_stage'[h] \in {"locking", "locked", "undo locking"} => lock_taken'[h] \subseteq Own(h)'
    BY <1>1, <1>2, <1>6, <2>1, <2>2, Zenon DEF TakesUpward
  <2>6. lock_stage'[h] \notin {"idle", "over"}
    BY <1>2, <1>6, Zenon
  <2>7. \A k \in Own(h)', n \in Added(h)' : k < n
    BY <2>1, <2>2, Zenon DEF TakesUpward
  <2> QED  BY <2>3, <2>4, <2>5, <2>6, <2>7, Zenon DEF TakesUpward
<1>9. \A g \in LockThreads \ {h} : lock_taken'[h] \cap lock_taken[g] = {}
  BY <1>1, <1>6 DEF LockInv
<1> QED  BY <1>1, <1>4, <1>6, <1>8, <1>9, OneThreadSteps, Zenon

\* An unlock gives back a mutex, or was the last.
LEMMA LockReleases ==
  ASSUME LockInv, NEW h \in LockThreads, Lock!Release(h)
  PROVE  LockInv'
<1>1. /\ lock_named' = lock_named
      /\ lock_stage[h] \in {"undo locking", "undo pushing", "unlocking"}
      /\ \A g \in LockThreads \ {h} : lock_stage'[g] = lock_stage[g] /\ lock_taken'[g] = lock_taken[g]
      /\ lock_taken'[h] \subseteq lock_taken[h]
      /\ Lock!TypeOK'
  BY Zenon DEF LockInv, Lock!TypeOK, Lock!Release
<1>2. Own(h)' = Own(h) /\ Added(h)' = Added(h) /\ TakesUpward(h)
  BY <1>1, Zenon DEF Own, Added, LockInv
<1>3. CASE lock_stage' = lock_stage
  <2>1. Lock!ToTake(h)' = {}
    BY <1>1, <1>3, Zenon DEF Lock!ToTake
  <2>2. TakesUpward(h)'
    BY <1>1, <1>2, <1>3, <2>1, Zenon DEF TakesUpward
  <2> QED  BY <1>1, <2>2, OneThreadSteps, Zenon DEF LockInv
<1>4. CASE /\ Lock!ToGive(h) = {} /\ lock_taken' = lock_taken
           /\ lock_stage' = [lock_stage EXCEPT ![h] = IF @ = "undo pushing" THEN "held" ELSE "over"]
  <2>1. /\ lock_stage[h] = "undo locking" => lock_taken[h] \cap Own(h) = {}
        /\ lock_stage[h] = "unlocking" => lock_taken[h] \cap (Own(h) \cup Added(h)) = {}
    BY <1>4, Zenon DEF Lock!ToGive, Own, Added
  <2>2. lock_stage'[h] = IF lock_stage[h] = "undo pushing" THEN "held" ELSE "over"
    BY <1>4, Zenon DEF LockInv, Lock!TypeOK
  <2>3. Lock!ToTake(h)' = {}
    BY <2>2, Zenon DEF Lock!ToTake
  <2>4. lock_taken'[h] \subseteq Own(h) \cup Added(h)
    BY <1>1, <1>2, Zenon DEF TakesUpward
  <2>5. lock_stage'[h] = "over" => lock_taken'[h] = {}
    <3>1. CASE lock_stage[h] = "undo locking"
      <4>1. lock_taken[h] \subseteq Own(h)
        BY <1>2, <3>1, Zenon DEF TakesUpward
      <4> QED  BY <1>4, <2>1, <3>1, <4>1, Zenon
    <3>2. CASE lock_stage[h] = "unlocking"
      BY <1>4, <2>1, <2>4, <3>2, Zenon
    <3> QED  BY <1>1, <2>2, <3>1, <3>2, Zenon
  <2>6. \A m \in Own(h)', n \in Added(h)' : m < n
    BY <1>2, Zenon DEF TakesUpward
  <2>7. TakesUpward(h)'
    BY <1>2, <2>2, <2>3, <2>4, <2>5, <2>6, Zenon DEF TakesUpward
  <2> QED  BY <1>1, <1>4, <2>7, OneThreadSteps, Zenon DEF LockInv
<1> QED  BY <1>3, <1>4, Zenon DEF Lock!Release

\* Mutexes are taken upward, and by one thread at a time.
THEOREM LockInvariance == Lock!Spec => []LockInv
<1>1. Lock!Init => LockInv
  BY Zenon DEF Lock!Init, Lock!Valid, LockInv, Lock!TypeOK, TakesUpward, Own, Added, Lock!ToTake
<1>2. LockInv /\ UNCHANGED Lock!lockVars => LockInv'
  BY Zenon DEF LockInv, Lock!TypeOK, TakesUpward, Own, Added, Lock!ToTake, Lock!lockVars
<1>3. LockInv /\ [Lock!Next]_(Lock!lockVars) => LockInv'
  BY <1>2, LockTurns, LockTakes, LockReleases, Zenon DEF Lock!Next
<1> QED  BY <1>1, <1>3, PTL DEF Lock!Spec

\* Threads that take several mutexes, nested by push_back or not, never wait for each other, and
\* after an exception nothing stays locked: for any threads, mutexes and order of naming them.
THEOREM LocksAreOrderedHolds == Lock!Spec => []LocksAreOrdered
<1>1. LockInv => LocksAreOrdered
  <2> SUFFICES ASSUME LockInv PROVE LocksAreOrdered
    BY Zenon
  <2>1. ASSUME NEW h \in LockThreads, NEW g \in LockThreads, Lock!WaitsFor(h, g), Lock!WaitsFor(g, h)
        PROVE  FALSE
    <3>1. PICK m \in lock_taken[g] : m \in Lock!ToTake(h)
      BY <2>1, Zenon DEF Lock!WaitsFor, Lock!IsFirst
    <3>2. PICK n \in lock_taken[h] : n \in Lock!ToTake(g)
      BY <2>1, Zenon DEF Lock!WaitsFor, Lock!IsFirst
    <3>3. n < m /\ m < n /\ m \in Int /\ n \in Int
      BY <3>1, <3>2, LockNames, Zenon DEF LockInv, Lock!TypeOK, TakesUpward
    <3> QED  BY <3>3
  <2> QED  BY <2>1, Zenon DEF LockInv, TakesUpward, LocksAreOrdered, Lock!NoCircularWait
<1> QED  BY <1>1, LockInvariance, PTL

-----------------------------------------------------------------------------
(* cl::periodic_timer.  A stop is meant for an activation that has begun,  *)
(* which is what keeps a later start from reviving it.                     *)

StopsAreOfThePast == \A s \in TimerStops : timer_stopOf[s] <= timer_starts

TimerInv == Timer!TypeOK /\ Timer!NoCallAfterStop /\ StopsAreOfThePast

\* A timer that was just constructed is not active and has no stops.
LEMMA InitTimer == Timer!Init => TimerInv
<1> SUFFICES ASSUME Timer!Init PROVE TimerInv
  BY Zenon
<1>1. timer_active \in BOOLEAN /\ timer_stopped \in BOOLEAN
  BY Zenon DEF Timer!Init
<1>2. Timer!TypeOK
  BY <1>1, TimerBounds DEF Timer!Init, Timer!TypeOK
<1> QED  BY <1>2 DEF TimerInv, Timer!Init, Timer!NoCallAfterStop, StopsAreOfThePast

\* start begins a new activation; the stops of the ones before it are not for it.
LEMMA TimerStartStep ==
  ASSUME TimerInv, NEW periods \in 0 .. (MaxPeriods + 1), Timer!Start(periods)
  PROVE  TimerInv'
<1>1. Timer!TypeOK'
  <2>1. timer_active' \in BOOLEAN /\ timer_stopped' \in BOOLEAN
    BY Zenon DEF Timer!Start
  <2> QED  BY <2>1, TimerBounds DEF TimerInv, Timer!TypeOK, Timer!Start
<1>2. \A s \in TimerStops : timer_stopOf'[s] < timer_starts'
  BY TimerBounds DEF TimerInv, Timer!TypeOK, Timer!Start, StopsAreOfThePast
<1>3. timer_stop' = timer_stop /\ timer_active' = TRUE /\ timer_wait' = "armed"
  BY Zenon DEF Timer!Start
<1>4. Timer!NoCallAfterStop'
  BY <1>2, <1>3, Zenon DEF Timer!NoCallAfterStop
<1>5. StopsAreOfThePast'
  BY <1>1, <1>2, TimerBounds DEF StopsAreOfThePast, Timer!TypeOK
<1> QED  BY <1>1, <1>4, <1>5, Zenon DEF TimerInv

\* The wait expires, its handler calls the function, and after the call or the cancellation the
\* next period begins or the timer becomes inactive with its stop callbacks posted.
LEMMA TimerHandlerStep ==
  ASSUME TimerInv,
         \/ Timer!Expire \/ Timer!Aborted \/ Timer!Call
         \/ \E continue \in BOOLEAN : Timer!AfterCall(continue)
  PROVE  TimerInv'
<1>1. timer_starts' = timer_starts /\ timer_stopOf' = timer_stopOf
  BY Zenon DEF Timer!Expire, Timer!Aborted, Timer!Call, Timer!AfterCall
<1>2. StopsAreOfThePast'
  BY <1>1, Zenon DEF TimerInv, StopsAreOfThePast
<1>3. CASE Timer!Expire \/ Timer!Call
  BY <1>2, <1>3, Zenon DEF TimerInv, Timer!TypeOK, Timer!NoCallAfterStop, Timer!Expire, Timer!Call
<1>4. CASE Timer!Deactivate /\ timer_stopped' = timer_stopped /\ timer_total' = timer_total
           /\ timer_count' \in 0 .. MaxPeriods
  <2>1. Timer!TypeOK'
    BY <1>1, <1>4, Zenon DEF TimerInv, Timer!TypeOK, Timer!Deactivate
  <2>2. Timer!NoCallAfterStop'
    BY <1>4, Zenon DEF TimerInv, Timer!TypeOK, Timer!NoCallAfterStop, Timer!Deactivate
  <2> QED  BY <1>2, <2>1, <2>2, Zenon DEF TimerInv
<1>5. CASE Timer!Aborted
  BY <1>4, <1>5, Zenon DEF TimerInv, Timer!TypeOK, Timer!Aborted
<1>6. ASSUME NEW continue \in BOOLEAN, Timer!AfterCall(continue) PROVE TimerInv'
  <2>1. timer_count' \in 0 .. MaxPeriods
    BY <1>6, TimerBounds DEF TimerInv, Timer!TypeOK, Timer!AfterCall
  <2>2. CASE timer_wait' = "armed" /\ UNCHANGED <<timer_active, timer_stop>>
    BY <1>1, <1>2, <1>6, <2>1, <2>2, Zenon DEF TimerInv, Timer!TypeOK, Timer!NoCallAfterStop, Timer!AfterCall
  <2>3. CASE Timer!Deactivate
    BY <1>4, <1>6, <2>1, <2>3, Zenon DEF Timer!AfterCall
  <2> QED  BY <1>6, <2>2, <2>3, Zenon DEF Timer!AfterCall
<1> QED  BY <1>3, <1>5, <1>6, Zenon

\* stop_async stores the callback of an active timer and posts that of an inactive one.
LEMMA TimerStopStep ==
  ASSUME TimerInv,
         \/ Timer!StopWithoutCallback
         \/ \E s \in TimerStops : Timer!StopAsync(s) \/ Timer!RunStopCallback(s)
  PROVE  TimerInv'
<1>1. CASE Timer!StopWithoutCallback
  BY <1>1, Zenon DEF TimerInv, Timer!TypeOK, Timer!NoCallAfterStop, StopsAreOfThePast, Timer!StopWithoutCallback
<1>2. ASSUME NEW s \in TimerStops, Timer!StopAsync(s) PROVE TimerInv'
  <2>1. Timer!TypeOK'
    BY <1>2, Zenon DEF TimerInv, Timer!TypeOK, Timer!StopAsync
  <2>2. Timer!NoCallAfterStop'
    BY <1>2, Zenon DEF TimerInv, Timer!TypeOK, Timer!NoCallAfterStop, Timer!StopAsync
  <2>3. StopsAreOfThePast'
    BY <1>2, TimerBounds DEF TimerInv, Timer!TypeOK, StopsAreOfThePast, Timer!StopAsync
  <2> QED  BY <2>1, <2>2, <2>3, Zenon DEF TimerInv
<1>3. ASSUME NEW s \in TimerStops, Timer!RunStopCallback(s) PROVE TimerInv'
  BY <1>3, Zenon DEF TimerInv, Timer!TypeOK, Timer!NoCallAfterStop, StopsAreOfThePast, Timer!RunStopCallback
<1> QED  BY <1>1, <1>2, <1>3, Zenon

\* A stopped activation is never called again: by induction over the steps of the timer.
THEOREM TimerInvariance == Timer!Spec => []TimerInv
<1>1. TimerInv /\ UNCHANGED Timer!timerVars => TimerInv'
  BY DEF TimerInv, Timer!TypeOK, Timer!NoCallAfterStop, StopsAreOfThePast, Timer!timerVars
<1>2. TimerInv /\ [Timer!Next]_(Timer!timerVars) => TimerInv'
  BY <1>1, TimerStartStep, TimerHandlerStep, TimerStopStep, Zenon DEF Timer!Next
<1> QED  BY <1>2, InitTimer, PTL DEF Timer!Spec

-----------------------------------------------------------------------------
(* cl::basic_thread_pool.  What was posted before a stop() began is        *)
(* promised.  The context stops by itself only when nothing is             *)
(* outstanding, so that by then every promised task is done; a thread      *)
(* leaves only a context that has stopped, and stop() returns when all     *)
(* threads have left.                                                      *)

PoolInv ==
  /\ Pool!TypeOK
  /\ \A t \in pool_promised : pool_task[t] # "idle"
  /\ pool_ioStopped => \A t \in pool_promised : pool_task[t] = "done"
  /\ \A h \in PoolThreads : pool_thread[h] = "exited" => pool_ioStopped
  /\ pool_joining = "done" => \A h \in PoolThreads : pool_thread[h] = "exited"
  /\ \A s \in PoolStoppers : pool_stopper[s] = "returned" => pool_joining = "done"

\* A pool that was just constructed promised nothing, and its threads run.
LEMMA InitPool == Pool!Init => PoolInv
<1> SUFFICES ASSUME Pool!Init PROVE PoolInv
  BY Zenon
<1>1. pool_guard \in BOOLEAN /\ pool_ioStopped \in BOOLEAN
  BY Zenon DEF Pool!Init
<1>2. Pool!TypeOK
  BY <1>1, Zenon DEF Pool!Init, Pool!TypeOK
<1> QED  BY <1>2, PoolNames, Zenon DEF PoolInv, Pool!Init

\* Posting a task and taking it from the queue.
LEMMA PoolTakeStep ==
  ASSUME PoolInv, NEW t \in PoolTasks,
         Pool!Post(t) \/ \E h \in PoolThreads : Pool!Take(h, t)
  PROVE  PoolInv'
<1>1. CASE Pool!Post(t)
  BY <1>1, Zenon DEF PoolInv, Pool!TypeOK, Pool!Post
<1>2. ASSUME NEW h \in PoolThreads, Pool!Take(h, t) PROVE PoolInv'
  <2>1. Pool!TypeOK'
    BY <1>2, Zenon DEF PoolInv, Pool!TypeOK, Pool!Take
  <2>2. ASSUME NEW k \in PoolThreads PROVE pool_thread'[k] = "exited" <=> pool_thread[k] = "exited"
    BY <1>2, PoolNames, Zenon DEF PoolInv, Pool!TypeOK, Pool!Take
  <2> QED  BY <1>2, <2>1, <2>2 DEF PoolInv, Pool!TypeOK, Pool!Take
<1> QED  BY <1>1, <1>2, Zenon

\* The last outstanding task of a pool without its guard stops the context.
LEMMA PoolFinishStep ==
  ASSUME PoolInv, NEW h \in PoolThreads, NEW t \in PoolTasks, NEW throws \in BOOLEAN,
         Pool!Finish(h, t, throws)
  PROVE  PoolInv'
<1>1. Pool!TypeOK'
  <2>1. pool_ioStopped' \in BOOLEAN
    BY Zenon DEF PoolInv, Pool!TypeOK, Pool!Finish
  <2> QED  BY <2>1, Zenon DEF PoolInv, Pool!TypeOK, Pool!Finish
<1>2. ASSUME NEW u \in pool_promised
      PROVE  pool_task'[u] # "idle" /\ (pool_ioStopped' => pool_task'[u] = "done")
  BY Zenon DEF PoolInv, Pool!TypeOK, Pool!Finish, Pool!Outstanding
<1>3. ASSUME NEW k \in PoolThreads PROVE pool_thread'[k] = "exited" <=> pool_thread[k] = "exited"
  BY PoolNames, Zenon DEF PoolInv, Pool!TypeOK, Pool!Finish
<1> QED  BY <1>1, <1>2, <1>3, Zenon DEF PoolInv, Pool!Finish

\* A thread leaves its loop only when the context has stopped, after a task that threw too.
LEMMA PoolThreadStep ==
  ASSUME PoolInv, NEW h \in PoolThreads, Pool!Rerun(h) \/ Pool!Leave(h)
  PROVE  PoolInv'
<1>1. Pool!TypeOK'
  BY Zenon DEF PoolInv, Pool!TypeOK, Pool!Rerun, Pool!Leave
<1>2. ASSUME NEW k \in PoolThreads
      PROVE  /\ pool_thread'[k] = "exited" => pool_ioStopped
             /\ pool_thread[k] = "exited" => pool_thread'[k] = "exited"
  BY Zenon DEF PoolInv, Pool!TypeOK, Pool!Rerun, Pool!Leave
<1> QED  BY <1>1, <1>2 DEF PoolInv, Pool!Rerun, Pool!Leave

\* stop(): the tasks that are promised by resetting the guard of an idle pool are done; and when
\* the threads are joined the context has stopped, as there are threads.
LEMMA PoolStopStep ==
  ASSUME PoolInv, NEW s \in PoolStoppers,
         Pool!ResetGuard(s) \/ Pool!JoinThreads(s) \/ Pool!StopReturns(s)
  PROVE  PoolInv'
<1>1. CASE Pool!ResetGuard(s)
  <2>1. Pool!TypeOK'
    <3>1. pool_ioStopped' \in BOOLEAN /\ pool_guard' \in BOOLEAN
      BY <1>1, Zenon DEF PoolInv, Pool!TypeOK, Pool!ResetGuard
    <3> QED  BY <1>1, <3>1, Zenon DEF PoolInv, Pool!TypeOK, Pool!ResetGuard
  <2>2. ASSUME NEW u \in pool_promised'
        PROVE  pool_task'[u] # "idle" /\ (pool_ioStopped' => pool_task'[u] = "done")
    BY <1>1, Zenon DEF PoolInv, Pool!TypeOK, Pool!ResetGuard, Pool!Outstanding
  <2> QED  BY <1>1, <2>1, <2>2, Zenon DEF PoolInv, Pool!TypeOK, Pool!ResetGuard
<1>2. CASE Pool!JoinThreads(s)
  BY <1>2, PoolNames, Zenon DEF PoolInv, Pool!TypeOK, Pool!JoinThreads
<1>3. CASE Pool!StopReturns(s)
  <2>1. pool_ioStopped' /\ pool_ioStopped
    BY <1>3, PoolHasThreads, Zenon DEF PoolInv, Pool!StopReturns
  <2>2. pool_ioStopped' \in BOOLEAN
    BY <1>3, Zenon DEF Pool!StopReturns
  <2> QED  BY <1>3, <2>1, <2>2, Zenon DEF PoolInv, Pool!TypeOK, Pool!StopReturns
<1> QED  BY <1>1, <1>2, <1>3, Zenon

\* What a stop() promised is kept, by induction over the steps of the pool.
THEOREM PoolInvariance == Pool!Spec => []PoolInv
<1>1. PoolInv /\ UNCHANGED Pool!poolVars => PoolInv'
  BY DEF PoolInv, Pool!TypeOK, Pool!poolVars
<1>2. PoolInv /\ Pool!ThreadsJoined => PoolInv'
  BY DEF PoolInv, Pool!TypeOK, Pool!ThreadsJoined
<1>3. PoolInv /\ [Pool!Next]_(Pool!poolVars) => PoolInv'
  BY <1>1, <1>2, PoolTakeStep, PoolFinishStep, PoolThreadStep, PoolStopStep, Zenon DEF Pool!Next
<1> QED  BY <1>3, InitPool, PTL DEF Pool!Spec

\* After stop_async's callback the timer does not call again, and when stop() returns the pool has
\* run every task that was posted before, tasks that throw included, and its threads are gone.
THEOREM StopsAreFinalHolds == Timer!Spec /\ Pool!Spec => []StopsAreFinal
<1>1. TimerInv /\ PoolInv => StopsAreFinal
  <2> SUFFICES ASSUME TimerInv, PoolInv PROVE StopsAreFinal
    BY Zenon
  <2>1. ASSUME NEW s \in PoolStoppers, pool_stopper[s] = "returned"
        PROVE  /\ \A t \in pool_promised : pool_task[t] = "done"
               /\ \A h \in PoolThreads : pool_thread[h] = "exited"
    BY <2>1, PoolHasThreads, Zenon DEF PoolInv
  <2> QED  BY <2>1, Zenon DEF StopsAreFinal, TimerInv, PoolInv, Pool!StopRunsEverything
<1> QED  BY <1>1, TimerInvariance, PoolInvariance, PTL

-----------------------------------------------------------------------------
(* rpc::client_endpoint.  The halves of a handshake know of each other     *)
(* through the request and the response only, so that the invariant says   *)
(* what a message in the pipe tells of the half that wrote it, and that a  *)
(* half that gave up has closed the pipe.                                  *)

\* What each half of the handshake of call a did before the other half's state was reached
Handshake(a) ==
  /\ client_call[a] \in {"idle", "opening"} => client_server[a] = "none"
  /\ client_call[a] \in {"idle", "opening", "writing"} => client_request[a] = "none"
  /\ client_server[a] \in {"writing", "accepted"} => client_request[a] = "good"
  /\ client_server[a] = "refused" => client_pipe[a] = "down"
  /\ client_response[a] => client_request[a] = "good" /\ client_server[a] \in {"accepted", "refused"}
  /\ client_call[a] \in {"installing", "connected"} => client_response[a]

\* The pipe of call a, and the disconnect promise that its connection gets when it is installed
Installed(a) ==
  /\ client_call[a] \in {"writing", "reading", "installing", "connected"} => client_pipe[a] # "none"
  /\ client_disconnect[a] # "none" <=> client_call[a] = "connected"
  /\ client_disconnect[a] = "stored" => client_pipe[a] = "up"
  /\ client_disconnect[a] \in {"posted", "set"} => client_pipe[a] = "down"
  /\ client_call[a] = "connected" /\ a # client_endpoint => client_pipe[a] = "down"

ClientInv ==
  /\ Client!TypeOK
  /\ client_endpoint # NoConnect => client_call[client_endpoint] = "connected"
  /\ \A a \in Connects : Handshake(a) /\ Installed(a)

\* A client that was just constructed has called nothing.
LEMMA InitClient == Client!Init => ClientInv
<1> SUFFICES ASSUME Client!Init PROVE ClientInv
  BY Zenon
<1>1. client_alive \in BOOLEAN
  BY Zenon DEF Client!Init
<1>2. Client!TypeOK
  BY <1>1, Zenon DEF Client!Init, Client!TypeOK
<1> QED  BY <1>2, Zenon DEF ClientInv, Client!Init, Handshake, Installed

\* A step leaves what is known of call b alone
SameCall(b) ==
  /\ client_call'[b] = client_call[b] /\ client_server'[b] = client_server[b]
  /\ client_request'[b] = client_request[b] /\ client_response'[b] = client_response[b]
  /\ client_pipe'[b] = client_pipe[b] /\ client_disconnect'[b] = client_disconnect[b]

\* What a step leaves alone stays as the invariant says.
LEMMA ClientSame ==
  ASSUME NEW b, Handshake(b), Installed(b), SameCall(b), client_endpoint' = client_endpoint
  PROVE  Handshake(b)' /\ Installed(b)'
BY Zenon DEF Handshake, Installed, SameCall

\* A step that is about call a and leaves the endpoint of the client alone keeps the invariant,
\* if it keeps it for a.
LEMMA ClientStepOf ==
  ASSUME ClientInv, NEW a \in Connects, Client!TypeOK', client_endpoint' = client_endpoint,
         client_call[a] = "connected" => client_call'[a] = "connected",
         Handshake(a)', Installed(a)',
         \A b \in Connects : b # a => SameCall(b)
  PROVE  ClientInv'
<1>1. ASSUME NEW b \in Connects PROVE Handshake(b)' /\ Installed(b)'
  <2>1. Handshake(b) /\ Installed(b)
    BY Zenon DEF ClientInv
  <2> QED  BY <2>1, ClientSame, Zenon
<1>2. client_endpoint # NoConnect => client_call'[client_endpoint] = "connected"
  <2>1. client_endpoint \in Connects \cup {NoConnect}
    BY Zenon DEF ClientInv, Client!TypeOK
  <2> QED  BY <2>1, Zenon DEF ClientInv, SameCall
<1> QED  BY <1>1, <1>2, Zenon DEF ClientInv

\* The pipe of a call goes down.
LEMMA PipeGoesDown ==
  ASSUME Client!TypeOK, NEW a \in Connects, Client!Down(a)
  PROVE  /\ client_pipe' \in [Connects -> {"none", "up", "down"}]
         /\ client_disconnect' \in [Connects -> {"none", "stored", "posted", "set"}]
         /\ client_pipe'[a] = "down"
         /\ client_disconnect'[a] = IF client_disconnect[a] = "stored" THEN "posted" ELSE client_disconnect[a]
         /\ \A b \in Connects : b # a => client_pipe'[b] = client_pipe[b] /\ client_disconnect'[b] = client_disconnect[b]
BY Zenon DEF Client!Down, Client!TypeOK

\* A call fails, and lets go of its pipe.
LEMMA CallFails ==
  ASSUME ClientInv, NEW a \in Connects, Client!FailCall(a), client_call[a] # "connected",
         client_server' \in [Connects -> {"none", "reading", "writing", "accepted", "refused"}],
         client_server'[a] \notin {"writing", "accepted"} \/ client_server'[a] = client_server[a],
         client_response[a] => client_server'[a] = client_server[a],
         \A b \in Connects : b # a => client_server'[b] = client_server[b],
         UNCHANGED <<client_alive, client_request, client_response, client_endpoint>>
  PROVE  ClientInv'
<1>1. Client!TypeOK /\ Handshake(a) /\ Installed(a) /\ Client!Down(a)
  BY Zenon DEF ClientInv, Client!FailCall
<1>2. /\ client_call' \in [Connects -> {"idle", "connected", "failed"} \cup Client!Calling]
      /\ client_call'[a] = "failed" /\ \A b \in Connects : b # a => client_call'[b] = client_call[b]
  BY <1>1, Zenon DEF Client!FailCall, Client!TypeOK
<1>3. Client!TypeOK'
  <2>1. client_alive' \in BOOLEAN /\ client_response' \in [Connects -> BOOLEAN]
    BY <1>1, Zenon DEF Client!TypeOK
  <2> QED  BY <1>1, <1>2, <2>1, PipeGoesDown, Zenon DEF Client!TypeOK, Client!Calling
<1>4. \A b \in Connects : b # a => SameCall(b)
  BY <1>1, <1>2, PipeGoesDown, Zenon DEF SameCall
<1>5. /\ client_pipe'[a] = "down"
      /\ client_disconnect'[a] = IF client_disconnect[a] = "stored" THEN "posted" ELSE client_disconnect[a]
  BY <1>1, PipeGoesDown, Zenon
<1>6. Handshake(a)'
  BY <1>1, <1>2, <1>5, Zenon DEF Handshake
<1>7. Installed(a)'
  BY <1>1, <1>2, <1>5, Zenon DEF Installed
<1> QED  BY <1>2, <1>3, <1>4, <1>6, <1>7, ClientStepOf, Zenon

\* A call begins, its pipe opens or not, and the client writes its request.
LEMMA ClientOpens ==
  ASSUME ClientInv, NEW a \in Connects,
         \/ Client!ConnectAsync(a) \/ Client!PipeOpens(a) \/ Client!PipeDoesNotOpen(a)
         \/ Client!RequestWritten(a)
  PROVE  ClientInv'
<1>1. Client!TypeOK /\ Handshake(a) /\ Installed(a)
  BY Zenon DEF ClientInv
<1>2. CASE Client!ConnectAsync(a) \/ Client!PipeDoesNotOpen(a)
  <2>1. /\ client_call[a] \in {"idle", "opening"} /\ client_call'[a] \in {"opening", "failed"}
        /\ client_call' \in [Connects -> {"idle", "connected", "failed"} \cup Client!Calling]
        /\ \A b \in Connects : b # a => client_call'[b] = client_call[b]
        /\ UNCHANGED <<client_alive, client_server, client_request, client_response, client_pipe, client_endpoint,
                       client_disconnect>>
    BY <1>1, <1>2 DEF Client!TypeOK, Client!ConnectAsync, Client!PipeDoesNotOpen, Client!Calling
  <2>2. Client!TypeOK'
    BY <1>1, <2>1, Zenon DEF Client!TypeOK, Client!Calling
  <2>3. Handshake(a)' /\ Installed(a)'
    BY <1>1, <2>1, Zenon DEF Handshake, Installed
  <2> QED  BY <2>1, <2>2, <2>3, ClientStepOf, Zenon DEF SameCall
<1>3. CASE Client!PipeOpens(a)
  <2>1. /\ client_call[a] = "opening" /\ client_server' = [client_server EXCEPT ![a] = "reading"]
        /\ UNCHANGED <<client_alive, client_request, client_response, client_endpoint>>
    BY <1>3, Zenon DEF Client!PipeOpens
  <2>2. /\ client_server' \in [Connects -> {"none", "reading", "writing", "accepted", "refused"}]
        /\ client_server'[a] = "reading"
        /\ \A b \in Connects : b # a => client_server'[b] = client_server[b]
    BY <1>1, <2>1, Zenon DEF Client!TypeOK
  <2>3. ~client_response[a]
    BY <1>1, <2>1, Zenon DEF Handshake
  <2>4. CASE Client!FailCall(a)
    BY <2>1, <2>2, <2>3, <2>4, CallFails, Zenon
  <2>5. CASE /\ client_call' = [client_call EXCEPT ![a] = "writing"]
             /\ client_pipe' = [client_pipe EXCEPT ![a] = "up"] /\ UNCHANGED client_disconnect
    <3>1. Client!TypeOK'
      BY <1>1, <2>1, <2>2, <2>5, Zenon DEF Client!TypeOK, Client!Calling
    <3>2. /\ client_call'[a] = "writing" /\ client_pipe'[a] = "up"
          /\ \A b \in Connects : b # a => client_call'[b] = client_call[b] /\ client_pipe'[b] = client_pipe[b]
      BY <1>1, <2>5, Zenon DEF Client!TypeOK
    <3>3. Handshake(a)' /\ Installed(a)'
      BY <1>1, <2>1, <2>2, <2>3, <2>5, <3>2, Zenon DEF Handshake, Installed
    <3> QED  BY <2>1, <2>2, <2>5, <3>1, <3>2, <3>3, ClientStepOf DEF SameCall
  <2> QED  BY <1>3, <2>4, <2>5, Zenon DEF Client!PipeOpens
<1>4. CASE Client!RequestWritten(a)
  <2>1. client_call[a] = "writing" /\ UNCHANGED <<client_alive, client_server, client_response, client_endpoint>>
    BY <1>4, Zenon DEF Client!RequestWritten
  <2>2. CASE Client!FailCall(a) /\ UNCHANGED client_request
    BY <1>1, <2>1, <2>2, CallFails, Zenon DEF Client!TypeOK
  <2>3. ASSUME NEW r \in {"good", "bad"}, client_call' = [client_call EXCEPT ![a] = "reading"],
               client_request' = [client_request EXCEPT ![a] = r], UNCHANGED <<client_pipe, client_disconnect>>
        PROVE  ClientInv'
    <3>1. Client!TypeOK'
      BY <1>1, <2>1, <2>3, Zenon DEF Client!TypeOK, Client!Calling
    <3>2. /\ client_call'[a] = "reading" /\ client_request'[a] = r
          /\ \A b \in Connects : b # a => client_call'[b] = client_call[b] /\ client_request'[b] = client_request[b]
      BY <1>1, <2>3, Zenon DEF Client!TypeOK
    <3>3. ~client_response[a] /\ client_request[a] = "none" /\ client_server[a] \notin {"writing", "accepted"}
      BY <1>1, <2>1, Zenon DEF Handshake
    <3>4. Handshake(a)' /\ Installed(a)'
      BY <1>1, <2>1, <2>3, <3>2, <3>3, Zenon DEF Handshake, Installed
    <3> QED  BY <2>1, <2>3, <3>1, <3>2, <3>4, ClientStepOf, Zenon DEF SameCall
  <2> QED  BY <1>4, <2>2, <2>3, Zenon DEF Client!RequestWritten
<1> QED  BY <1>2, <1>3, <1>4, Zenon

\* The server gives the pipe up; a response may have been sent if it was being written.
LEMMA ServerRefuses ==
  ASSUME ClientInv, NEW a \in Connects, Client!Refuse(a),
         client_server[a] \in {"reading", "writing"},
         client_response' \in [Connects -> BOOLEAN],
         client_response'[a] => client_server[a] = "writing",
         \A b \in Connects : b # a => client_response'[b] = client_response[b],
         UNCHANGED <<client_alive, client_call, client_request, client_endpoint>>
  PROVE  ClientInv'
<1>1. Client!TypeOK /\ Handshake(a) /\ Installed(a) /\ Client!Down(a)
  BY Zenon DEF ClientInv, Client!Refuse
<1>2. /\ client_server' \in [Connects -> {"none", "reading", "writing", "accepted", "refused"}]
      /\ client_server'[a] = "refused" /\ \A b \in Connects : b # a => client_server'[b] = client_server[b]
  BY <1>1, Zenon DEF Client!Refuse, Client!TypeOK
<1>3. Client!TypeOK'
  <2>1. client_alive' \in BOOLEAN
    BY <1>1, Zenon DEF Client!TypeOK
  <2> QED  BY <1>1, <1>2, <2>1, PipeGoesDown, Zenon DEF Client!TypeOK, Client!Calling
<1>4. \A b \in Connects : b # a => SameCall(b)
  BY <1>1, <1>2, PipeGoesDown, Zenon DEF SameCall
<1>5. /\ client_pipe'[a] = "down"
      /\ client_disconnect'[a] = IF client_disconnect[a] = "stored" THEN "posted" ELSE client_disconnect[a]
  BY <1>1, PipeGoesDown, Zenon
<1>6. ~client_response[a] /\ client_call[a] \notin {"idle", "opening", "installing", "connected"}
  BY <1>1, Zenon DEF Handshake
<1>7. Handshake(a)'
  BY <1>1, <1>2, <1>5, <1>6, Zenon DEF Handshake
<1>8. Installed(a)'
  BY <1>1, <1>5, <1>6, Zenon DEF Installed
<1> QED  BY <1>3, <1>4, <1>6, <1>7, <1>8, ClientStepOf, Zenon

\* The server's half reads the request and writes the response, or gives the pipe up.
LEMMA ServerHalf ==
  ASSUME ClientInv, NEW a \in Connects,
         Client!ServerReads(a) \/ Client!ServerWrites(a) \/ Client!ServerTimesOut(a)
  PROVE  ClientInv'
<1>1. Client!TypeOK /\ Handshake(a) /\ Installed(a)
  BY Zenon DEF ClientInv
<1>2. /\ client_server[a] \in {"reading", "writing"} /\ ~client_response[a]
      /\ UNCHANGED <<client_alive, client_call, client_request, client_endpoint>>
      /\ client_call[a] \notin {"installing", "connected"}
  BY <1>1, Zenon DEF Client!ServerReads, Client!ServerWrites, Client!ServerTimesOut, Handshake
<1>3. CASE Client!Refuse(a) /\ UNCHANGED client_response
  BY <1>1, <1>2, <1>3, ServerRefuses, Zenon DEF Client!TypeOK
<1>4. CASE Client!ServerTimesOut(a)
  <2>1. PICK sent \in BOOLEAN : client_response' = [client_response EXCEPT ![a] = sent] /\ (sent => client_server[a] = "writing")
    BY <1>4, Zenon DEF Client!ServerTimesOut
  <2>2. /\ client_response' \in [Connects -> BOOLEAN] /\ client_response'[a] = sent
        /\ \A b \in Connects : b # a => client_response'[b] = client_response[b]
    BY <1>1, <2>1, Zenon DEF Client!TypeOK
  <2> QED  BY <1>2, <1>4, <2>1, <2>2, ServerRefuses, Zenon DEF Client!ServerTimesOut
<1>5. ASSUME NEW to \in {"writing", "accepted"}, client_server' = [client_server EXCEPT ![a] = to],
             client_request[a] = "good",
             client_response' \in [Connects -> BOOLEAN], client_response'[a] => to = "accepted",
             \A b \in Connects : b # a => client_response'[b] = client_response[b],
             UNCHANGED <<client_pipe, client_disconnect>>
      PROVE  ClientInv'
  <2>1. Client!TypeOK'
    BY <1>1, <1>2, <1>5, Zenon DEF Client!TypeOK, Client!Calling
  <2>2. client_server'[a] = to /\ \A b \in Connects : b # a => client_server'[b] = client_server[b]
    BY <1>1, <1>5, Zenon DEF Client!TypeOK
  <2>3. Handshake(a)' /\ Installed(a)'
    BY <1>1, <1>2, <1>5, <2>2, Zenon DEF Handshake, Installed
  <2> QED  BY <1>2, <1>5, <2>1, <2>2, <2>3, ClientStepOf, Zenon DEF SameCall
<1>6. CASE Client!ServerReads(a) /\ ~Client!Refuse(a)
  <2>1. /\ client_request[a] = "good" /\ client_server' = [client_server EXCEPT ![a] = "writing"]
        /\ UNCHANGED <<client_pipe, client_disconnect, client_response>>
    BY <1>6, Zenon DEF Client!ServerReads, Client!CheckRequest
  <2> QED  BY <1>1, <1>2, <1>5, <2>1, Zenon DEF Client!TypeOK
<1>7. CASE Client!ServerWrites(a) /\ ~Client!Refuse(a)
  <2>1. /\ client_server[a] = "writing" /\ client_server' = [client_server EXCEPT ![a] = "accepted"]
        /\ client_response' = [client_response EXCEPT ![a] = TRUE]
        /\ UNCHANGED <<client_pipe, client_disconnect>>
    BY <1>7, Zenon DEF Client!ServerWrites
  <2>2. client_request[a] = "good"
    BY <1>1, <2>1, Zenon DEF Handshake
  <2>3. /\ client_response' \in [Connects -> BOOLEAN]
        /\ \A b \in Connects : b # a => client_response'[b] = client_response[b]
    BY <1>1, <2>1, Zenon DEF Client!TypeOK
  <2> QED  BY <1>5, <2>1, <2>2, <2>3, Zenon
<1>8. Client!ServerReads(a) => UNCHANGED client_response
  BY Zenon DEF Client!ServerReads
<1>9. Client!ServerWrites(a) /\ Client!Refuse(a) => UNCHANGED client_response
  <2> SUFFICES ASSUME Client!ServerWrites(a), Client!Refuse(a)  PROVE UNCHANGED client_response
    BY Zenon
  <2>1. client_server'[a] = "refused"
    BY <1>1, Zenon DEF Client!Refuse, Client!TypeOK
  <2>2. client_server' # [client_server EXCEPT ![a] = "accepted"]
    BY <1>1, <2>1, Zenon DEF Client!TypeOK
  <2> QED  BY <2>2, Zenon DEF Client!ServerWrites
<1> QED  BY <1>3, <1>4, <1>6, <1>7, <1>8, <1>9, Zenon

\* The client reads the response, or its half times out; the pipe is lost; a disconnect promise
\* is set.
LEMMA ClientHalf ==
  ASSUME ClientInv, NEW a \in Connects,
         \/ \E approved \in BOOLEAN : Client!ResponseRead(a, approved)
         \/ Client!CallTimesOut(a) \/ Client!PipeIsLost(a) \/ Client!RunDisconnectCallback(a)
  PROVE  ClientInv'
<1>1. Client!TypeOK /\ Handshake(a) /\ Installed(a)
  BY Zenon DEF ClientInv
<1>2. ASSUME NEW approved \in BOOLEAN, Client!ResponseRead(a, approved)  PROVE ClientInv'
  <2>1. /\ client_call[a] = "reading"
        /\ UNCHANGED <<client_alive, client_server, client_request, client_response, client_endpoint>>
    BY <1>2, Zenon DEF Client!ResponseRead
  <2>2. CASE Client!FailCall(a)
    BY <1>1, <2>1, <2>2, CallFails, Zenon DEF Client!TypeOK
  <2>3. CASE ~Client!FailCall(a)
    <3>1. /\ client_response[a] /\ client_call' = [client_call EXCEPT ![a] = "installing"]
          /\ UNCHANGED <<client_pipe, client_disconnect>>
      BY <1>2, <2>3, Zenon DEF Client!ResponseRead
    <3>2. Client!TypeOK'
      BY <1>1, <2>1, <3>1, Zenon DEF Client!TypeOK, Client!Calling
    <3>3. client_call'[a] = "installing" /\ \A b \in Connects : b # a => client_call'[b] = client_call[b]
      BY <1>1, <3>1, Zenon DEF Client!TypeOK
    <3>4. Handshake(a)' /\ Installed(a)'
      BY <1>1, <2>1, <3>1, <3>3, Zenon DEF Handshake, Installed
    <3> QED  BY <2>1, <3>1, <3>2, <3>3, <3>4, ClientStepOf, Zenon DEF SameCall
  <2> QED  BY <2>2, <2>3, Zenon
<1>3. CASE Client!CallTimesOut(a)
  <2>1. /\ client_call[a] \in {"writing", "reading"} /\ Client!FailCall(a)
        /\ UNCHANGED <<client_alive, client_server, client_request, client_response, client_endpoint>>
    BY <1>3, Zenon DEF Client!CallTimesOut
  <2> QED  BY <1>1, <2>1, CallFails, Zenon DEF Client!TypeOK
<1>4. CASE Client!PipeIsLost(a) \/ Client!RunDisconnectCallback(a)
  <2>1. UNCHANGED <<client_alive, client_call, client_server, client_request, client_response, client_endpoint>>
    BY <1>4, Zenon DEF Client!PipeIsLost, Client!RunDisconnectCallback
  <2>2. /\ client_pipe' \in [Connects -> {"none", "up", "down"}]
        /\ client_disconnect' \in [Connects -> {"none", "stored", "posted", "set"}]
        /\ \A b \in Connects : b # a => client_pipe'[b] = client_pipe[b] /\ client_disconnect'[b] = client_disconnect[b]
        /\ \/ /\ client_pipe'[a] = "down"
              /\ client_disconnect'[a] = IF client_disconnect[a] = "stored" THEN "posted" ELSE client_disconnect[a]
           \/ client_pipe'[a] = client_pipe[a] /\ client_disconnect[a] = "posted" /\ client_disconnect'[a] = "set"
    <3>1. CASE Client!PipeIsLost(a)
      BY <1>1, <3>1, PipeGoesDown, Zenon DEF Client!PipeIsLost
    <3>2. CASE Client!RunDisconnectCallback(a)
      BY <1>1, <3>2, Zenon DEF Client!RunDisconnectCallback, Client!TypeOK
    <3> QED  BY <1>4, <3>1, <3>2, Zenon
  <2>3. Client!TypeOK'
    BY <1>1, <2>1, <2>2, Zenon DEF Client!TypeOK, Client!Calling
  <2>4. client_server[a] = "refused" => client_pipe'[a] = "down"
    BY <1>1, <2>2, Zenon DEF Handshake
  <2>5. Handshake(a)' /\ Installed(a)'
    BY <1>1, <2>1, <2>2, <2>4, Zenon DEF Handshake, Installed
  <2> QED  BY <2>1, <2>2, <2>3, <2>5, ClientStepOf, Zenon DEF SameCall
<1> QED  BY <1>2, <1>3, <1>4, Zenon

\* A connection that is not installed any longer is closed.
LEMMA ClientCloses ==
  ASSUME NEW b, Handshake(b), Installed(b),
         client_call'[b] = client_call[b], client_server'[b] = client_server[b],
         client_request'[b] = client_request[b], client_response'[b] = client_response[b],
         client_pipe'[b] = "down",
         client_disconnect'[b] = IF client_disconnect[b] = "stored" THEN "posted" ELSE client_disconnect[b]
  PROVE  Handshake(b)' /\ Installed(b)'
BY Zenon DEF Handshake, Installed

\* A connection is installed, and the one before it is closed.
LEMMA ClientInstalls ==
  ASSUME ClientInv, NEW a \in Connects, Client!EstablishEndpoint(a)
  PROVE  ClientInv'
<1>1. /\ Client!TypeOK /\ Handshake(a) /\ Installed(a) /\ client_call[a] = "installing"
      /\ UNCHANGED <<client_alive, client_server, client_request, client_response>>
  BY Zenon DEF ClientInv, Client!EstablishEndpoint
<1>2. CASE ~client_alive
  BY <1>1, <1>2, CallFails, Zenon DEF Client!EstablishEndpoint, Client!TypeOK
<1>3. CASE client_alive
  <2>1. client_endpoint # a /\ a # NoConnect
    BY <1>1, ClientNames, Zenon DEF ClientInv
  <2>2. Client!TypeOK' /\ client_endpoint' = a /\ client_call' = [client_call EXCEPT ![a] = "connected"]
    BY <1>1, <1>3 DEF Client!TypeOK, Client!EstablishEndpoint, Client!InstallOver, Client!Calling
  <2>3. /\ client_pipe'[a] = client_pipe[a]
        /\ client_disconnect'[a] = IF client_pipe[a] = "up" THEN "stored" ELSE "posted"
    BY <1>1, <1>3, <2>1 DEF Client!TypeOK, Client!EstablishEndpoint, Client!InstallOver
  <2>4. ASSUME NEW b \in Connects, b # a
        PROVE  /\ client_call'[b] = client_call[b]
               /\ \/ client_pipe'[b] = client_pipe[b] /\ client_disconnect'[b] = client_disconnect[b]
                     /\ b # client_endpoint
                  \/ client_pipe'[b] = "down" /\ b = client_endpoint
                     /\ client_disconnect'[b] = IF client_disconnect[b] = "stored" THEN "posted" ELSE client_disconnect[b]
    BY <1>1, <1>3, <2>1, <2>4, ClientNames DEF Client!TypeOK, Client!EstablishEndpoint, Client!InstallOver
  <2>5. Handshake(a)' /\ Installed(a)'
    <3>1. client_pipe[a] \in {"up", "down"} /\ client_call'[a] = "connected"
      BY <1>1, <2>2 DEF Installed, Client!TypeOK
    <3> QED  BY <1>1, <2>2, <2>3, <3>1, Zenon DEF Handshake, Installed
  <2>6. ASSUME NEW b \in Connects, b # a PROVE Handshake(b)' /\ Installed(b)'
    <3>1. Handshake(b) /\ Installed(b)
      BY Zenon DEF ClientInv
    <3>2. CASE b = client_endpoint
      BY <1>1, <2>4, <2>6, <3>1, <3>2, ClientCloses, Zenon
    <3>3. CASE b # client_endpoint
      <4>1. /\ client_call'[b] = client_call[b] /\ client_pipe'[b] = client_pipe[b]
            /\ client_disconnect'[b] = client_disconnect[b]
        BY <2>4, <2>6, <3>3, Zenon
      <4> QED  BY <1>1, <2>2, <2>6, <3>1, <3>3, <4>1, Zenon DEF Handshake, Installed
    <3> QED  BY <3>2, <3>3, Zenon
  <2>7. client_endpoint' # NoConnect => client_call'[client_endpoint'] = "connected"
    BY <1>1, <2>2 DEF Client!TypeOK
  <2> QED  BY <2>2, <2>5, <2>6, <2>7, Zenon DEF ClientInv
<1> QED  BY <1>2, <1>3, Zenon

\* disconnect() and the destructor close the connection that is installed.
LEMMA ClientDrops ==
  ASSUME ClientInv, Client!Disconnect \/ Client!Destroy
  PROVE  ClientInv'
<1>1. /\ client_endpoint' = NoConnect
      /\ UNCHANGED <<client_call, client_server, client_request, client_response>>
      /\ Client!Drop(client_endpoint)
  BY Zenon DEF Client!Disconnect, Client!Destroy
<1>2. client_alive' \in BOOLEAN
  BY Zenon DEF ClientInv, Client!TypeOK, Client!Disconnect, Client!Destroy
<1>3. Client!TypeOK'
  BY <1>1, <1>2 DEF ClientInv, Client!TypeOK, Client!Drop, Client!Down
<1>4. ASSUME NEW b \in Connects PROVE Handshake(b)' /\ Installed(b)'
  <2>1. Client!TypeOK /\ Handshake(b) /\ Installed(b) /\ b # NoConnect
    BY ClientNames, Zenon DEF ClientInv
  <2>2. CASE b = client_endpoint
    <3>1. Client!Down(b)
      BY <1>1, <2>1, <2>2, Zenon DEF Client!Drop
    <3> QED  BY <1>1, <2>1, <3>1, PipeGoesDown, ClientCloses, Zenon
  <2>3. CASE b # client_endpoint
    <3>1. client_pipe'[b] = client_pipe[b] /\ client_disconnect'[b] = client_disconnect[b]
      BY <1>1, <2>1, <2>3, Zenon DEF Client!Drop, Client!Down, Client!TypeOK
    <3> QED  BY <1>1, <2>1, <2>3, <3>1, Zenon DEF Handshake, Installed
  <2> QED  BY <2>2, <2>3, Zenon
<1> QED  BY <1>1, <1>3, <1>4, Zenon DEF ClientInv

\* The handshake and the installed connections are as described, whatever the order of their steps.
THEOREM ClientInvariance == Client!Spec => []ClientInv
<1>1. ClientInv /\ UNCHANGED Client!clientVars => ClientInv'
  <2> SUFFICES ASSUME ClientInv, UNCHANGED Client!clientVars  PROVE ClientInv'
    BY Zenon
  <2>1. UNCHANGED <<client_alive, client_call, client_server, client_request, client_response, client_pipe,
                    client_endpoint, client_disconnect>>
    BY Zenon DEF Client!clientVars
  <2>2. Client!TypeOK'
    BY <2>1, Zenon DEF ClientInv, Client!TypeOK, Client!Calling
  <2>3. ASSUME NEW b \in Connects PROVE Handshake(b)' /\ Installed(b)'
    <3>1. Handshake(b) /\ Installed(b) /\ SameCall(b)
      BY <2>1, Zenon DEF ClientInv, SameCall
    <3> QED  BY <2>1, <3>1, ClientSame, Zenon
  <2> QED  BY <2>1, <2>2, <2>3, Zenon DEF ClientInv
<1>2. ClientInv /\ [Client!Next]_(Client!clientVars) => ClientInv'
  BY <1>1, ClientOpens, ServerHalf, ClientHalf, ClientInstalls, ClientDrops, Zenon DEF Client!Next, Client!Progress
<1> QED  BY <1>2, InitClient, PTL DEF Client!Spec

\* A client holds one connection at most, which check_request let in and whose server accepted it
\* too or closed the pipe, and every other one it was given is closed and its disconnect future
\* resolved or about to be: for any number of connect_async calls, timeouts and losses.
THEOREM ClientHasOneConnectionHolds == Client!Spec => []ClientHasOneConnection
<1>1. ClientInv => ClientHasOneConnection
  <2> SUFFICES ASSUME ClientInv PROVE ClientHasOneConnection
    BY Zenon
  <2>1. Client!ConnectedMeansAccepted
    BY Zenon DEF ClientInv, Handshake, Client!ConnectedMeansAccepted
  <2>2. Client!ReplacedConnectionsClose
    BY Zenon DEF ClientInv, Client!TypeOK, Installed, Client!ReplacedConnectionsClose, Client!MakeRequest
  <2> QED  BY <2>1, <2>2, Zenon DEF ClientInv, ClientHasOneConnection
<1> QED  BY <1>1, ClientInvariance, PTL

-----------------------------------------------------------------------------
(* A connection.  A request that is pending has somebody left who will     *)
(* complete it; where a request may be depends on how far its write, the   *)
(* receive loop and the closing have got, and that is what is inductive.   *)

\* The types of the variables that a proof about requests needs.
RequestTypes ==
  /\ mtx \in Requests \cup {"free", "closing"}
  /\ closing \in [Closers -> {"no", "first", "second", "flag", "done"}]
  /\ result \in [Requests -> {"idle", "pending"} \cup Settled]
  /\ inMap \in [Requests -> BOOLEAN]
  /\ isReqSent \in [Requests -> BOOLEAN]
  /\ failReqResult \in [Requests -> {"none", "canceled", "failed"}]
  /\ timer \in [Requests -> {"none", "armed", "expired"}]
  /\ send \in [Requests -> {"none", "writing", "handled"} \cup SendResult]

RInv == RequestTypes /\ PendingRequestHasCompleter /\ RequestLifecycle

\* complete_request keeps the types of the request map.
LEMMA CompleteRequestTypes ==
  ASSUME RequestTypes, NEW q, NEW res \in Settled, CompleteRequest(q, res)
  PROVE  /\ result' \in [Requests -> {"idle", "pending"} \cup Settled]
         /\ inMap' \in [Requests -> BOOLEAN]
         /\ timer' \in [Requests -> {"none", "armed", "expired"}]
         /\ UNCHANGED <<isReqSent, failReqResult>>
  BY Zenon DEF CompleteRequest, RequestTypes

\* process_request_sent keeps the types of the request map.
LEMMA ProcessRequestSentTypes ==
  ASSUME RequestTypes, NEW q \in Requests, ProcessRequestSent(q)
  PROVE  /\ result' \in [Requests -> {"idle", "pending"} \cup Settled]
         /\ inMap' \in [Requests -> BOOLEAN]
         /\ isReqSent' \in [Requests -> BOOLEAN]
         /\ UNCHANGED <<timer, failReqResult>>
<1>1. failReqResult[q] # "none" => failReqResult[q] \in Settled
  BY Zenon DEF RequestTypes, Settled
<1>2. result' \in [Requests -> {"idle", "pending"} \cup Settled]
  BY <1>1, Zenon DEF ProcessRequestSent, RequestTypes
<1>3. inMap' \in [Requests -> BOOLEAN] /\ isReqSent' \in [Requests -> BOOLEAN]
  BY Zenon DEF ProcessRequestSent, RequestTypes
<1> QED
  BY <1>2, <1>3, Zenon DEF ProcessRequestSent

\* A new connection has no request.
LEMMA InitRInv == Init => RInv
  BY RequestsAssumption DEF Init, RInv, RequestTypes, PendingRequestHasCompleter, RequestLifecycle, 
     Closers, Settled, SendResult

\* Every step keeps the types of the request map.
LEMMA TypesStep == RequestTypes /\ [Next]_vars => RequestTypes'
<1> SUFFICES ASSUME RequestTypes, [Next]_vars PROVE RequestTypes'
  BY Zenon
<1> USE DEF RequestTypes, SendResult, Settled, Closers
<1>same. ASSUME UNCHANGED <<mtx, closing, result, inMap, isReqSent, failReqResult, timer, send>>
         PROVE RequestTypes'
  BY <1>same, Zenon
<1>1. ASSUME NEW q \in Requests, RequestAsync(q) \/ AddRequestToMap(q) PROVE RequestTypes'
  BY <1>1 DEF RequestAsync, AddRequestToMap, pipeVars, mapVars
<1>2. ASSUME NEW q \in Requests, SendRequest(q) PROVE RequestTypes'
  BY <1>2, Zenon DEF SendRequest, pipeVars, mapVars
<1>3. ASSUME NEW q \in Requests, NEW res \in SendResult, WriteCompletes(q, res) PROVE RequestTypes'
  BY <1>3, Zenon DEF WriteCompletes, pipeVars, mapVars
<1>4. ASSUME NEW q \in Requests, SendCallback(q) PROVE RequestTypes'
  <2>1. send' \in [Requests -> {"none", "writing", "handled"} \cup SendResult]
        /\ UNCHANGED <<mtx, closing>>
    BY <1>4, Zenon DEF SendCallback, pipeVars
  <2>2. CASE ProcessRequestSent(q)
    <3> HIDE DEF Settled
    <3> QED
      BY <2>1, <2>2, ProcessRequestSentTypes, Zenon
  <2>3. ASSUME NEW res \in Settled, CompleteRequest(q, res) PROVE RequestTypes'
    BY <2>1, <2>3, CompleteRequestTypes
  <2>4. "send_canceled" \in Settled /\ "send_timeout" \in Settled /\ "send_failed" \in Settled
    BY Zenon
  <2> QED
    BY <1>4, <2>2, <2>3, <2>4, Zenon DEF SendCallback
<1>5. ASSUME NEW q \in Requests, TimerExpires(q) PROVE RequestTypes'
  BY <1>5, Zenon DEF TimerExpires, pipeVars, mapVars
<1>6. ASSUME NEW q \in Requests, TimerCallback(q) PROVE RequestTypes'
  BY <1>6, Zenon DEF TimerCallback, pipeVars
<1>7. CASE Start
  BY <1>7, <1>same, Zenon DEF Start, pipeVars, mapVars
<1>8. CASE BeginDeactivate /\ UNCHANGED <<result, mapVars, timer, send>>
  BY <1>8, Zenon DEF BeginDeactivate, mapVars
<1>9. CASE PeerDisconnects
  BY <1>9, Zenon DEF PeerDisconnects, mapVars
<1>10. ASSUME NEW c \in Closers, CloseStep(c) PROVE RequestTypes'
  BY <1>10 DEF CloseStep, mapVars
<1>11. ASSUME NEW m \in Messages, ReceiveMessage(m) PROVE RequestTypes'
  BY <1>11, <1>same, Zenon DEF ReceiveMessage, pipeVars, mapVars
<1>12. CASE DispatchReceiveEvent
  <2>1. UNCHANGED <<mtx, closing, send>>
    BY <1>12, Zenon DEF DispatchReceiveEvent, pipeVars
  <2>2. CASE UNCHANGED <<result, mapVars, timer>>
    BY <1>same, <2>1, <2>2, Zenon DEF mapVars
  <2>3. ASSUME NEW q, CompleteRequest(q, "ok") PROVE RequestTypes'
    <3>1. "ok" \in Settled
      BY Zenon
    <3> HIDE DEF Settled
    <3> QED
      BY <2>1, <2>3, <3>1, CompleteRequestTypes, Zenon
  <2>4. PICK q : q = recv.message.number
    BY Zenon
  <2> QED
    BY <1>12, <2>2, <2>3, <2>4, Zenon DEF DispatchReceiveEvent
<1>13. ASSUME NEW p \in PeerRequests, RespondToPeer(p) PROVE RequestTypes'
  BY <1>13, <1>same, Zenon DEF RespondToPeer, pipeVars, mapVars
<1>14. CASE CompleteReceiveRoutine
  BY <1>14, Zenon DEF CompleteReceiveRoutine, pipeVars, FailRequests
<1>15. CASE ProcessWatchEvent
  BY <1>15, <1>8, <1>same, Zenon DEF ProcessWatchEvent, pipeVars, mapVars, CheckAndDropActivityFlag
<1>16. CASE PingTimeoutPasses \/ WatchTimerStops
  BY <1>16, <1>same, Zenon DEF PingTimeoutPasses, WatchTimerStops, pipeVars, mapVars
<1>17. CASE UNCHANGED vars
  BY <1>17, <1>same, Zenon DEF vars, pipeVars, mapVars
<1>18. CASE Deactivate
  BY <1>18, <1>8, Zenon DEF Deactivate
<1> QED
  BY <1>1, <1>2, <1>3, <1>4, <1>5, <1>6, <1>7, <1>9, <1>10, <1>11, <1>12, <1>13, <1>14,
     <1>15, <1>16, <1>17, <1>18, Zenon DEF Next

\* The two invariants, request by request.
Life(q) ==
  /\ result[q] = "pending" <=> inMap[q]
  /\ inMap[q] => \/ mtx = q
                 \/ send[q] \in {"writing"} \cup SendResult
                 \/ timer[q] \in {"armed", "expired"}
  /\ timer[q] = "armed" => inMap[q]
  /\ result[q] = "idle" => ~isReqSent[q] /\ failReqResult[q] = "none" /\ send[q] = "none"
  /\ inMap[q] /\ failReqResult[q] = "none" => timer[q] # "none"
  /\ inMap[q] /\ failReqResult[q] # "none" => ~isReqSent[q] /\ timer[q] # "armed"
  /\ inMap[q] /\ ~isReqSent[q] => mtx = q \/ send[q] \in {"writing"} \cup SendResult

MtxHolder == mtx = "closing" <=> closing["self"] \in {"first", "second", "flag"}

\* The invariant, request by request.
LEMMA RInvIsLife ==
  RInv <=> RequestTypes /\ MtxHolder /\ \A q \in Requests : Life(q)
  BY Zenon DEF RInv, PendingRequestHasCompleter, RequestLifecycle, Life, MtxHolder

\* complete_request leaves the completed request, and every other, consistent.
LEMMA CompleteRequestLife ==
  ASSUME RequestTypes, NEW q, NEW res \in Settled, CompleteRequest(q, res),
         \A x \in Requests : Life(x), UNCHANGED mtx,
         \A x \in Requests : send'[x] = send[x] \/ (x = q /\ send[x] # "none")
  PROVE  \A x \in Requests : Life(x)'
<1> SUFFICES ASSUME NEW x \in Requests PROVE Life(x)'
  BY Zenon
<1>1. Life(x)
  BY Zenon
<1>2. res \notin {"idle", "pending"}
  BY Zenon DEF Settled
<1>3. CASE x = q
  <2>1. /\ ~inMap'[x]
        /\ inMap[x] => result'[x] = res
        /\ ~inMap[x] => result'[x] = result[x]
        /\ timer'[x] # "armed"
        /\ result[x] = "idle" => send'[x] = send[x]
    BY <1>1, <1>3, Zenon DEF CompleteRequest, RequestTypes, Life
  <2> QED
    BY <1>1, <1>2, <2>1, Zenon DEF CompleteRequest, Life
<1>4. CASE x # q
  <2>1. /\ result'[x] = result[x] /\ inMap'[x] = inMap[x] /\ timer'[x] = timer[x]
        /\ UNCHANGED <<isReqSent, failReqResult, mtx>> /\ send'[x] = send[x]
    BY <1>4, Zenon DEF CompleteRequest, RequestTypes
  <2> QED
    BY <1>1, <2>1, Zenon DEF Life
<1> QED
  BY <1>3, <1>4, Zenon

\* Every step, of whichever completer, keeps every request consistent with its map entry,
\* its timer and its send.
LEMMA LifeStep == RInv /\ [Next]_vars => (\A q \in Requests : Life(q))'
<1> SUFFICES ASSUME RInv, [Next]_vars PROVE (\A q \in Requests : Life(q))'
  BY Zenon
<1>0. RequestTypes /\ MtxHolder /\ \A q \in Requests : Life(q)
  BY RInvIsLife, Zenon
<1>same. ASSUME UNCHANGED <<result, inMap, isReqSent, failReqResult, timer, send>>,
                \A q \in Requests : mtx = q <=> mtx' = q
         PROVE (\A q \in Requests : Life(q))'
  BY <1>0, <1>same, Zenon DEF Life
<1>1. ASSUME NEW q \in Requests, RequestAsync(q) \/ AddRequestToMap(q)
      PROVE (\A x \in Requests : Life(x))'
  <2> SUFFICES ASSUME NEW x \in Requests PROVE Life(x)'
    BY Zenon
  <2>1. CASE x # q
    BY <1>0, <1>1, <2>1, RequestsAssumption
       DEF RequestAsync, AddRequestToMap, RequestTypes, Life, mapVars
  <2>2. CASE x = q
    BY <1>0, <1>1, <2>2 DEF RequestAsync, AddRequestToMap, RequestTypes, Life, mapVars
  <2> QED
    BY <2>1, <2>2, Zenon
<1>2. ASSUME NEW q \in Requests, SendRequest(q) PROVE (\A x \in Requests : Life(x))'
  <2> SUFFICES ASSUME NEW x \in Requests PROVE Life(x)'
    BY Zenon
  <2>1. CASE x # q
    BY <1>0, <1>2, <2>1, RequestsAssumption DEF SendRequest, RequestTypes, Life, mapVars
  <2>2. CASE x = q
    <3>1. send'[q] \in {"writing"} \cup SendResult
      BY <1>0, <1>2, Zenon DEF SendRequest, RequestTypes, SendResult
    <3> QED
      BY <1>0, <1>2, <2>2, <3>1, RequestsAssumption, Zenon DEF SendRequest, RequestTypes, Life, mapVars
  <2> QED
    BY <2>1, <2>2, Zenon
<1>3. ASSUME NEW q \in Requests, NEW res \in SendResult, WriteCompletes(q, res)
      PROVE (\A x \in Requests : Life(x))'
  BY <1>0, <1>3 DEF WriteCompletes, RequestTypes, Life, mapVars
<1>4. ASSUME NEW q \in Requests, SendCallback(q) PROVE (\A x \in Requests : Life(x))'
  <2>1. CASE ProcessRequestSent(q) /\ send[q] = "success"
    <3> SUFFICES ASSUME NEW x \in Requests PROVE Life(x)'
      BY Zenon
    <3>1. CASE x # q
      BY <1>0, <1>4, <2>1, <3>1 DEF SendCallback, ProcessRequestSent, RequestTypes, Life
    <3>2. CASE x = q
      <4>1. Life(q) /\ failReqResult[q] \in {"none", "canceled", "failed"}
        BY <1>0, Zenon DEF RequestTypes
      <4>2. UNCHANGED <<mtx, timer, failReqResult>>
        BY <1>4, <2>1, Zenon DEF SendCallback, ProcessRequestSent
      <4>3. CASE inMap[q] /\ failReqResult[q] # "none"
        <5>1. ~inMap'[q] /\ result'[q] = failReqResult[q]
          BY <1>0, <2>1, <4>3, Zenon DEF ProcessRequestSent, RequestTypes
        <5> QED
          BY <3>2, <4>1, <4>2, <4>3, <5>1, Zenon DEF Life
      <4>4. CASE inMap[q] /\ failReqResult[q] = "none"
        <5>1. inMap'[q] /\ result'[q] = result[q] /\ isReqSent'[q]
          BY <1>0, <2>1, <4>4, Zenon DEF ProcessRequestSent, RequestTypes
        <5>2. timer[q] \in {"none", "armed", "expired"}
          BY <1>0, Zenon DEF RequestTypes
        <5> QED
          BY <3>2, <4>1, <4>2, <4>4, <5>1, <5>2, Zenon DEF Life
      <4>5. CASE ~inMap[q]
        <5>1. ~inMap'[q] /\ result'[q] = result[q] /\ (isReqSent'[q] <=> isReqSent[q])
          BY <1>0, <2>1, <4>5, Zenon DEF ProcessRequestSent, RequestTypes
        <5>2. result[q] # "idle"
          BY <2>1, <4>1, Zenon DEF Life
        <5> QED
          BY <3>2, <4>1, <4>2, <4>5, <5>1, <5>2, Zenon DEF Life
      <4> QED
        BY <4>3, <4>4, <4>5, Zenon
    <3> QED
      BY <3>1, <3>2, Zenon
  <2>2. ASSUME NEW res \in Settled, CompleteRequest(q, res) PROVE (\A x \in Requests : Life(x))'
    <3>1. \A x \in Requests : send'[x] = send[x] \/ (x = q /\ send[x] # "none")
      BY <1>0, <1>4, Zenon DEF SendCallback, SendResult, RequestTypes
    <3>2. UNCHANGED mtx
      BY <1>4, Zenon DEF SendCallback
    <3> QED
      BY <1>0, <2>2, <3>1, <3>2, CompleteRequestLife
  <2>3. "send_canceled" \in Settled /\ "send_timeout" \in Settled /\ "send_failed" \in Settled
    BY Zenon DEF Settled
  <2> QED
    BY <1>4, <2>1, <2>2, <2>3, Zenon DEF SendCallback
<1>5. ASSUME NEW q \in Requests, TimerExpires(q) PROVE (\A x \in Requests : Life(x))'
  BY <1>0, <1>5 DEF TimerExpires, RequestTypes, Life, mapVars
<1>6. ASSUME NEW q \in Requests, TimerCallback(q) PROVE (\A x \in Requests : Life(x))'
  BY <1>0, <1>6 DEF TimerCallback, RequestTypes, Life
<1>7. CASE Start
  BY <1>7, <1>same, Zenon DEF Start, mapVars
<1>8. CASE BeginDeactivate /\ UNCHANGED <<result, mapVars, timer, send>>
  BY <1>8, <1>same, RequestsAssumption, Zenon DEF BeginDeactivate, mapVars
<1>9. CASE PeerDisconnects
  BY <1>9, <1>same, Zenon DEF PeerDisconnects, mapVars
<1>10. ASSUME NEW c \in Closers, CloseStep(c) PROVE (\A x \in Requests : Life(x))'
  <2>1. \A x \in Requests : mtx = x <=> mtx' = x
    <3>1. c = "self" => mtx = "closing"
      BY <1>0, <1>10, Zenon DEF CloseStep, MtxHolder
    <3> QED
      BY <1>10, <3>1, RequestsAssumption, Zenon DEF CloseStep
  <2> QED
    BY <1>10, <1>same, <2>1, Zenon DEF CloseStep, mapVars
<1>11. ASSUME NEW m \in Messages, ReceiveMessage(m) PROVE (\A x \in Requests : Life(x))'
  BY <1>11, <1>same, Zenon DEF ReceiveMessage, mapVars
<1>12. CASE DispatchReceiveEvent
  <2>1. UNCHANGED <<mtx, send>>
    BY <1>12, Zenon DEF DispatchReceiveEvent
  <2>2. CASE UNCHANGED <<result, mapVars, timer>>
    BY <1>same, <2>1, <2>2, Zenon DEF mapVars
  <2>3. ASSUME NEW q, CompleteRequest(q, "ok") PROVE (\A x \in Requests : Life(x))'
    <3>1. "ok" \in Settled
      BY Zenon DEF Settled
    <3> QED
      BY <1>0, <2>1, <2>3, <3>1, CompleteRequestLife, Zenon
  <2>4. PICK q : q = recv.message.number
    BY Zenon
  <2> QED
    BY <1>12, <2>2, <2>3, <2>4, Zenon DEF DispatchReceiveEvent
<1>13. ASSUME NEW p \in PeerRequests, RespondToPeer(p) PROVE (\A x \in Requests : Life(x))'
  BY <1>13, <1>same, Zenon DEF RespondToPeer, mapVars
<1>14. CASE CompleteReceiveRoutine
  BY <1>0, <1>14, Zenon DEF CompleteReceiveRoutine, RequestTypes, Life, FailRequests
<1>15. CASE ProcessWatchEvent
  BY <1>15, <1>8, <1>same, Zenon DEF ProcessWatchEvent, mapVars, CheckAndDropActivityFlag
<1>16. CASE PingTimeoutPasses \/ WatchTimerStops
  BY <1>16, <1>same, Zenon DEF PingTimeoutPasses, WatchTimerStops, mapVars
<1>17. CASE UNCHANGED vars
  BY <1>17, <1>same, Zenon DEF vars, mapVars
<1>18. CASE Deactivate
  BY <1>18, <1>8, Zenon DEF Deactivate
<1> QED
  BY <1>1, <1>2, <1>3, <1>4, <1>5, <1>6, <1>7, <1>9, <1>10, <1>11, <1>12, <1>13, <1>14,
     <1>15, <1>16, <1>17, <1>18, Zenon DEF Next

\* Only deactivate and the steps of the pipe's close move m_mtx and the close together.
LEMMA MtxStep == RInv /\ [Next]_vars => MtxHolder'
<1> SUFFICES ASSUME RInv, [Next]_vars PROVE MtxHolder'
  BY Zenon
<1>0. RequestTypes /\ MtxHolder
  BY RInvIsLife, Zenon
<1> USE DEF MtxHolder
<1>same. ASSUME UNCHANGED <<mtx, closing>> PROVE MtxHolder'
  BY <1>0, <1>same, Zenon
<1>1. ASSUME NEW q \in Requests, RequestAsync(q) \/ AddRequestToMap(q) \/ SendRequest(q)
      PROVE MtxHolder'
  BY <1>0, <1>1, RequestsAssumption, Zenon DEF RequestAsync, AddRequestToMap, SendRequest, pipeVars
<1>2. CASE BeginDeactivate
  BY <1>0, <1>2, Zenon DEF BeginDeactivate, RequestTypes, Closers
<1>3. CASE PeerDisconnects
  BY <1>0, <1>3, Zenon DEF PeerDisconnects, RequestTypes, Closers
<1>4. ASSUME NEW c \in Closers, CloseStep(c) PROVE MtxHolder'
  <2>1. CASE c = "peer"
    <3>1. mtx' = mtx /\ closing'["self"] = closing["self"]
      BY <1>0, <1>4, <2>1, Zenon DEF CloseStep, RequestTypes, Closers
    <3> QED
      BY <1>0, <3>1, Zenon
  <2>2. CASE c = "self"
    <3>1. mtx = "closing" /\ closing'["self"] \in {"second", "flag", "done"}
      BY <1>0, <1>4, <2>2, Zenon DEF CloseStep, RequestTypes, Closers
    <3> QED
      BY <1>4, <2>2, <3>1, Zenon DEF CloseStep
  <2> QED
    BY <2>1, <2>2, Zenon DEF Closers
<1>5. ASSUME NEW q \in Requests, NEW res \in SendResult, WriteCompletes(q, res) PROVE MtxHolder'
  BY <1>5, <1>same, Zenon DEF WriteCompletes, pipeVars
<1>6. ASSUME NEW q \in Requests, SendCallback(q) \/ TimerExpires(q) \/ TimerCallback(q)
      PROVE MtxHolder'
  BY <1>6, <1>same, Zenon DEF SendCallback, TimerExpires, TimerCallback, pipeVars
<1>7. CASE Start \/ DispatchReceiveEvent \/ CompleteReceiveRoutine \/ PingTimeoutPasses \/ WatchTimerStops
  BY <1>7, <1>same, Zenon
     DEF Start, DispatchReceiveEvent, CompleteReceiveRoutine, PingTimeoutPasses, WatchTimerStops, pipeVars, FailRequests
<1>8. ASSUME NEW m \in Messages, ReceiveMessage(m) PROVE MtxHolder'
  BY <1>8, <1>same, Zenon DEF ReceiveMessage, pipeVars
<1>9. ASSUME NEW p \in PeerRequests, RespondToPeer(p) PROVE MtxHolder'
  BY <1>9, <1>same, Zenon DEF RespondToPeer, pipeVars
<1>10. CASE ProcessWatchEvent
  BY <1>2, <1>10, <1>same, Zenon DEF ProcessWatchEvent, pipeVars, CheckAndDropActivityFlag
<1>11. CASE Deactivate
  BY <1>2, <1>11, Zenon DEF Deactivate
<1>12. CASE UNCHANGED vars
  BY <1>12, <1>same, Zenon DEF vars, pipeVars
<1> QED
  BY <1>1, <1>3, <1>4, <1>5, <1>6, <1>7, <1>8, <1>9, <1>10, <1>11, <1>12, Zenon DEF Next

\* The request map is consistent in every state of a connection.
THEOREM RequestInvariance == Spec => []RInv
<1>1. RInv /\ [Next]_vars => RInv'
  BY TypesStep, LifeStep, MtxStep, Zenon
     DEF RInv, PendingRequestHasCompleter, RequestLifecycle, Life, MtxHolder
<1> QED
  BY <1>1, InitRInv, PTL DEF Spec

\* No request is ever left without somebody to complete it, for any number of
\* concurrent requests and any order in which the pipe closes.
THEOREM CompleterExists == Spec => []PendingRequestHasCompleter
  BY RequestInvariance, PTL DEF RInv

-----------------------------------------------------------------------------
(* A request is settled once.                                              *)

\* A step settles only requests that are in the map, and those are pending.
LEMMA SettledOnceStep ==
  RInv /\ [Next]_vars => \A q \in Requests : result[q] \in Settled => result'[q] = result[q]
<1> SUFFICES ASSUME RInv, [Next]_vars, NEW x \in Requests, result[x] \in Settled
             PROVE  result'[x] = result[x]
  BY Zenon
<1>0. RequestTypes /\ ~inMap[x] /\ result[x] # "idle"
  BY RInvIsLife, Zenon DEF Life, Settled
<1>same. ASSUME UNCHANGED result PROVE result'[x] = result[x]
  BY <1>same, Zenon
<1>complete. ASSUME NEW q, NEW res, CompleteRequest(q, res) PROVE result'[x] = result[x]
  BY <1>0, <1>complete, Zenon DEF CompleteRequest, RequestTypes
<1>1. ASSUME NEW q \in Requests, RequestAsync(q) \/ AddRequestToMap(q)
      PROVE result'[x] = result[x]
  BY <1>0, <1>1, Zenon DEF RequestAsync, AddRequestToMap, RequestTypes
<1>2. ASSUME NEW q \in Requests, SendRequest(q) PROVE result'[x] = result[x]
  BY <1>2, Zenon DEF SendRequest
<1>3. ASSUME NEW q \in Requests, NEW res \in SendResult, WriteCompletes(q, res)
      PROVE result'[x] = result[x]
  BY <1>3, Zenon DEF WriteCompletes
<1>4. ASSUME NEW q \in Requests, SendCallback(q) PROVE result'[x] = result[x]
  <2>1. CASE ProcessRequestSent(q)
    BY <1>0, <2>1, Zenon DEF ProcessRequestSent, RequestTypes
  <2> QED
    BY <1>4, <1>complete, <2>1, Zenon DEF SendCallback
<1>5. ASSUME NEW q \in Requests, TimerExpires(q) \/ TimerCallback(q) PROVE result'[x] = result[x]
  BY <1>0, <1>5, Zenon DEF TimerExpires, TimerCallback, RequestTypes
<1>6. ASSUME NEW c \in Closers, CloseStep(c) PROVE result'[x] = result[x]
  BY <1>6, Zenon DEF CloseStep
<1>7. CASE Start \/ Deactivate \/ PeerDisconnects \/ ProcessWatchEvent \/ PingTimeoutPasses \/ WatchTimerStops
  BY <1>7, Zenon DEF Start, Deactivate, PeerDisconnects, ProcessWatchEvent, PingTimeoutPasses, WatchTimerStops, CheckAndDropActivityFlag
<1>8. ASSUME NEW m \in Messages, ReceiveMessage(m) PROVE result'[x] = result[x]
  BY <1>8, Zenon DEF ReceiveMessage
<1>9. CASE DispatchReceiveEvent
  <2>1. PICK q : q = recv.message.number
    BY Zenon
  <2> QED
    BY <1>9, <1>same, <1>complete, <2>1, Zenon DEF DispatchReceiveEvent
<1>10. ASSUME NEW p \in PeerRequests, RespondToPeer(p) PROVE result'[x] = result[x]
  BY <1>10, Zenon DEF RespondToPeer
<1>11. CASE CompleteReceiveRoutine
  BY <1>0, <1>11, Zenon DEF CompleteReceiveRoutine, RequestTypes, FailRequests
<1>12. CASE UNCHANGED vars
  BY <1>12, Zenon DEF vars
<1> QED
  BY <1>1, <1>2, <1>3, <1>4, <1>5, <1>6, <1>7, <1>8, <1>9, <1>10, <1>11, <1>12, Zenon DEF Next

\* Whichever of response, send failure, timeout and end of the receive loop comes first
\* settles a request; the others find it gone.
THEOREM RequestsSettleOnce == Spec => SettledOnce
<1>1. RInv /\ [Next]_vars =>
        [\A q \in Requests : result[q] \in Settled => result'[q] = result[q]]_vars
  BY SettledOnceStep, Zenon
<1> QED
  BY <1>1, RequestInvariance, PTL DEF Spec, SettledOnce

-----------------------------------------------------------------------------
(* After the end of the receive loop.                                      *)

SInv == RInv /\ NothingSentAfterSweep

\* NothingSentAfterSweep is preserved by every step, unless reads close first.
LEMMA SweepStep ==
  ASSUME CloseOrder # "readsFirst", SInv, [Next]_vars
  PROVE  NothingSentAfterSweep'
<1>0. RequestTypes /\ NothingSentAfterSweep /\ \A q \in Requests : Life(q)
  BY RInvIsLife, Zenon DEF SInv
<1> USE DEF NothingSentAfterSweep
<1>same. ASSUME UNCHANGED <<readOpen, writeOpen, closing, recv, inMap, isReqSent, failReqResult, send>>
         PROVE NothingSentAfterSweep'
  BY <1>0, <1>same, Zenon
<1>pipe. ASSUME UNCHANGED <<readOpen, writeOpen, closing, recv>>,
                recv.kind = "ended" =>
                  \A q \in Requests :
                    inMap'[q] => /\ ~isReqSent'[q]
                                 /\ failReqResult'[q] = "none" => send'[q] \notin {"writing", "success"}
         PROVE NothingSentAfterSweep'
  BY <1>0, <1>pipe, Zenon
<1>complete. ASSUME NEW q, NEW res, CompleteRequest(q, res),
                    \A x \in Requests : x # q => send'[x] = send[x],
                    recv.kind = "ended" =>
                      \A x \in Requests : send[x] \notin {"writing", "success"} =>
                                          send'[x] \notin {"writing", "success"}
             PROVE  recv.kind = "ended" =>
                      \A x \in Requests :
                        inMap'[x] => /\ ~isReqSent'[x]
                                     /\ failReqResult'[x] = "none" => send'[x] \notin {"writing", "success"}
  BY <1>0, <1>complete, Zenon DEF CompleteRequest, RequestTypes
<1>1. ASSUME NEW q \in Requests, RequestAsync(q) \/ AddRequestToMap(q)
      PROVE NothingSentAfterSweep'
  <2>1. UNCHANGED <<readOpen, writeOpen, closing, recv, isReqSent, failReqResult, send>>
    BY <1>1, Zenon DEF RequestAsync, AddRequestToMap, pipeVars, mapVars
  <2>2. ASSUME NEW x \in Requests, recv.kind = "ended", inMap'[x]
        PROVE  ~isReqSent[x] /\ (failReqResult[x] = "none" => send[x] \notin {"writing", "success"})
    BY <1>0, <1>1, <2>2 DEF RequestAsync, AddRequestToMap, RequestTypes, Life, mapVars
  <2> QED
    BY <1>pipe, <2>1, <2>2, Zenon
<1>2. ASSUME NEW q \in Requests, SendRequest(q) PROVE NothingSentAfterSweep'
  <2>1. UNCHANGED <<readOpen, writeOpen, closing, recv, inMap, isReqSent, failReqResult>>
    BY <1>2, Zenon DEF SendRequest, pipeVars, mapVars
  <2>2. recv.kind = "ended" => send' = [send EXCEPT ![q] = "failed"]
    BY <1>0, <1>2, Zenon DEF SendRequest
  <2> QED
    BY <1>0, <1>pipe, <2>1, <2>2, Zenon DEF RequestTypes
<1>3. ASSUME NEW q \in Requests, NEW res \in SendResult, WriteCompletes(q, res)
      PROVE NothingSentAfterSweep'
  <2>1. UNCHANGED <<readOpen, writeOpen, closing, recv, inMap, isReqSent, failReqResult>>
    BY <1>3, Zenon DEF WriteCompletes, pipeVars, mapVars
  <2>2. recv.kind = "ended" => ~inMap[q] \/ failReqResult[q] # "none"
    BY <1>0, <1>3, Zenon DEF WriteCompletes
  <2>3. \A x \in Requests : x # q => send'[x] = send[x]
    BY <1>0, <1>3, Zenon DEF WriteCompletes, RequestTypes
  <2> QED
    BY <1>0, <1>pipe, <2>1, <2>2, <2>3, Zenon
<1>4. ASSUME NEW q \in Requests, SendCallback(q) PROVE NothingSentAfterSweep'
  <2>1. UNCHANGED <<readOpen, writeOpen, closing, recv>>
    BY <1>4, Zenon DEF SendCallback, pipeVars
  <2>2. send' = [send EXCEPT ![q] = "handled"]
    BY <1>4, Zenon DEF SendCallback
  <2>3. CASE send[q] = "success" /\ ProcessRequestSent(q)
    <3>1. ASSUME NEW x \in Requests, recv.kind = "ended", inMap'[x]
          PROVE  /\ ~isReqSent'[x]
                 /\ failReqResult'[x] = "none" => send'[x] \notin {"writing", "success"}
      <4>1. CASE x = q
        BY <1>0, <2>3, <3>1, <4>1, Zenon DEF ProcessRequestSent, RequestTypes
      <4>2. CASE x # q
        BY <1>0, <2>2, <2>3, <3>1, <4>2, Zenon DEF ProcessRequestSent, RequestTypes
      <4> QED
        BY <4>1, <4>2, Zenon
    <3> QED
      BY <1>pipe, <2>1, <3>1, Zenon
  <2>4. ASSUME NEW res, CompleteRequest(q, res) PROVE NothingSentAfterSweep'
    BY <1>0, <1>complete, <1>pipe, <2>1, <2>2, <2>4 DEF RequestTypes
  <2> QED
    BY <1>4, <2>3, <2>4, Zenon DEF SendCallback
<1>5. ASSUME NEW q \in Requests, TimerExpires(q) PROVE NothingSentAfterSweep'
  BY <1>5, <1>same, Zenon DEF TimerExpires, pipeVars, mapVars
<1>6. ASSUME NEW q \in Requests, TimerCallback(q) PROVE NothingSentAfterSweep'
  <2>1. UNCHANGED <<readOpen, writeOpen, closing, recv, isReqSent, failReqResult, send>>
    BY <1>6, Zenon DEF TimerCallback, pipeVars
  <2>2. \A x \in Requests : inMap'[x] => inMap[x]
    BY <1>0, <1>6, Zenon DEF TimerCallback, RequestTypes
  <2> QED
    BY <1>0, <1>pipe, <2>1, <2>2, Zenon
<1>7. CASE Start
  BY <1>0, <1>7, Zenon DEF Start, NextRead, pipeVars, mapVars
<1>8. CASE BeginDeactivate /\ UNCHANGED <<recv, mapVars, send>>
  BY <1>0, <1>8, Zenon DEF BeginDeactivate, mapVars, RequestTypes, Closers
<1>9. CASE PeerDisconnects
  BY <1>0, <1>9, Zenon DEF PeerDisconnects, mapVars, RequestTypes, Closers
<1>10. ASSUME NEW c \in Closers, CloseStep(c) PROVE NothingSentAfterSweep'
  <2>1. UNCHANGED <<inMap, isReqSent, failReqResult, send>>
    BY <1>10, Zenon DEF CloseStep, mapVars
  <2>2. recv'.kind = "ended" <=> recv.kind = "ended"
    BY <1>10 DEF CloseStep, CloseReads
  <2>3. /\ recv'.kind \in {"canceled", "failed", "ended"} => ~readOpen'
        /\ ~readOpen' => ~writeOpen'
        /\ \A d \in Closers : closing'[d] = "second" => ~writeOpen'
    BY <1>0, <1>10, CloseOrderAssumption DEF CloseStep, CloseReads, RequestTypes
  <2> QED
    BY <1>0, <2>1, <2>2, <2>3, Zenon
<1>11. ASSUME NEW m \in Messages, ReceiveMessage(m) PROVE NothingSentAfterSweep'
  BY <1>0, <1>11, Zenon DEF ReceiveMessage, pipeVars, mapVars
<1>12. CASE DispatchReceiveEvent
  <2>1. /\ UNCHANGED <<readOpen, writeOpen, closing, send>>
        /\ recv' = NextRead /\ recv.kind = "message"
    BY <1>12, Zenon DEF DispatchReceiveEvent, pipeVars
  <2>2. recv'.kind \in {"reading", "failed"} /\ (recv'.kind = "failed" => ~readOpen)
    BY <2>1, Zenon DEF NextRead
  <2> QED
    BY <1>0, <2>1, <2>2, Zenon
<1>13. ASSUME NEW p \in PeerRequests, RespondToPeer(p) PROVE NothingSentAfterSweep'
  BY <1>13, <1>same, Zenon DEF RespondToPeer, pipeVars, mapVars
<1>14. CASE CompleteReceiveRoutine
  BY <1>0, <1>14, Zenon DEF CompleteReceiveRoutine, RequestTypes, pipeVars, FailRequests
<1>15. CASE ProcessWatchEvent
  BY <1>8, <1>15, <1>same, Zenon DEF ProcessWatchEvent, pipeVars, mapVars, CheckAndDropActivityFlag
<1>16. CASE PingTimeoutPasses \/ WatchTimerStops
  BY <1>16, <1>same, Zenon DEF PingTimeoutPasses, WatchTimerStops, pipeVars, mapVars
<1>17. CASE UNCHANGED vars
  BY <1>17, <1>same, Zenon DEF vars, pipeVars, mapVars
<1>18. CASE Deactivate
  BY <1>8, <1>18, Zenon DEF Deactivate
<1> QED
  BY <1>1, <1>2, <1>3, <1>4, <1>5, <1>6, <1>7, <1>9, <1>10, <1>11, <1>12, <1>13, <1>14,
     <1>15, <1>16, <1>17, <1>18, Zenon DEF Next

\* Where reads do not close before writes (tcp, win, the client end of the in-process
\* pipe) no request waits for its response after the receive loop has ended.
THEOREM StopCompletes ==
  ASSUME CloseOrder # "readsFirst"
  PROVE  Spec => []StopCompletesSentRequests
<1>1. Init => NothingSentAfterSweep
  BY DEF Init, NothingSentAfterSweep, Closers
<1>2. RInv /\ NothingSentAfterSweep /\ [Next]_vars => NothingSentAfterSweep'
  BY SweepStep, Zenon DEF SInv
<1>3. NothingSentAfterSweep => StopCompletesSentRequests
  BY Zenon DEF NothingSentAfterSweep, StopCompletesSentRequests
<1> QED
  BY <1>1, <1>2, <1>3, RequestInvariance, PTL DEF Spec

=============================================================================
