------------------------------- MODULE Library -------------------------------
(***************************************************************************)
(* Components of rpc-lib and common-lib side by side, each with its state: *)
(* a client (ClientEndpoint), an event (Event), an ordered lock            *)
(* (OrderedLock), a periodic timer (PeriodicTimer) and a thread pool       *)
(* (ThreadPool), and what is promised of them.                             *)
(***************************************************************************)
EXTENDS Integers

CONSTANTS
  Connects,    \* calls of the client's connect_async
  NoConnect,
  EventWaiters, EventSetters,
  MaxSets,     \* bound on the calls of the event's set
  LockThreads,
  Mutexes,     \* order numbers
  LockPairs,   \* what a thread's ordered_lock may name: the constructor's mutexes and push_back's
  TimerStops,  \* calls of the timer's stop_async
  MaxPeriods, MaxStarts,
  PoolThreads, PoolTasks, PoolStoppers, Nobody

\* No call is no call of connect_async
ASSUME ClientNames == NoConnect \notin Connects

\* Order numbers are integers
ASSUME LockNames ==
  /\ Mutexes \subseteq Int
  /\ \A pair \in LockPairs : pair[1] \cup pair[2] \subseteq Mutexes

ASSUME TimerBounds == MaxPeriods \in Nat /\ MaxStarts \in Nat

\* What a thread of the pool does is told from the task that it runs, and who joins the threads
\* from their having been joined
ASSUME PoolNames ==
  /\ PoolTasks \cap {"run", "thrown", "exited"} = {}
  /\ "done" \notin PoolStoppers \cup {Nobody}

\* thread_num is at least one: a pool without threads runs nothing, and its stop() joins nothing
ASSUME PoolHasThreads == PoolThreads # {}

VARIABLES
  client_alive, client_call, client_server, client_request, client_response, client_pipe,
  client_endpoint, client_disconnect,
  event_manualReset, event_isSet, event_waiter, event_setter, event_sets, event_released,
  lock_named, lock_stage, lock_taken,
  timer_active, timer_stopped, timer_count, timer_total, timer_wait, timer_starts, timer_stop,
  timer_stopOf,
  pool_task, pool_thread, pool_guard, pool_ioStopped, pool_joining, pool_stopper, pool_promised

clientVars == <<client_alive, client_call, client_server, client_request, client_response,
                client_pipe, client_endpoint, client_disconnect>>
eventVars == <<event_manualReset, event_isSet, event_waiter, event_setter, event_sets,
               event_released>>
lockVars == <<lock_named, lock_stage, lock_taken>>
timerVars == <<timer_active, timer_stopped, timer_count, timer_total, timer_wait, timer_starts,
               timer_stop, timer_stopOf>>
poolVars == <<pool_task, pool_thread, pool_guard, pool_ioStopped, pool_joining, pool_stopper,
              pool_promised>>

Client == INSTANCE ClientEndpoint WITH
  alive <- client_alive, call <- client_call, server <- client_server, request <- client_request,
  response <- client_response, pipe <- client_pipe, endpoint <- client_endpoint,
  disconnect <- client_disconnect

Event == INSTANCE Event WITH
  Waiters <- EventWaiters, Setters <- EventSetters, manualReset <- event_manualReset,
  isSet <- event_isSet, waiter <- event_waiter, setter <- event_setter, sets <- event_sets,
  released <- event_released

Lock == INSTANCE OrderedLock WITH
  Threads <- LockThreads, Pairs <- LockPairs, named <- lock_named, stage <- lock_stage,
  taken <- lock_taken

Timer == INSTANCE PeriodicTimer WITH
  Stops <- TimerStops, active <- timer_active, stopped <- timer_stopped, count <- timer_count,
  total <- timer_total, wait <- timer_wait, starts <- timer_starts, stop <- timer_stop,
  stopOf <- timer_stopOf

Pool == INSTANCE ThreadPool WITH
  Threads <- PoolThreads, Tasks <- PoolTasks, Stoppers <- PoolStoppers, task <- pool_task,
  thread <- pool_thread, guard <- pool_guard, ioStopped <- pool_ioStopped,
  joining <- pool_joining, stopper <- pool_stopper, promised <- pool_promised

-----------------------------------------------------------------------------
(* Properties.                                                             *)

\* The client has one connection at most, which the server's authenticator let in, and the
\* disconnect futures of all others are resolved or about to be.
ClientHasOneConnection ==
  /\ Client!TypeOK
  /\ Client!ConnectedMeansAccepted
  /\ Client!ReplacedConnectionsClose

\* A signal of an event is neither lost nor, if it resets itself, handed out twice.
SignalsAreKept == Event!SignalsAreKept

\* Threads that take several mutexes never wait for each other.
LocksAreOrdered == Lock!TypeOK /\ Lock!NoCircularWait

\* After stop_async's callback the timer does not call again, and after stop() the pool has
\* run everything it took on.
StopsAreFinal ==
  /\ Timer!TypeOK /\ Timer!NoCallAfterStop
  /\ Pool!TypeOK /\ Pool!StopRunsEverything

=============================================================================
