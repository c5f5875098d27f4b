------------------------------ MODULE ThreadPool -----------------------------
(***************************************************************************)
(* cl::basic_thread_pool (common-lib/common-lib/thread/thread-pool/        *)
(* thread-pool.h) over an io_context: the loop of its threads, which       *)
(* survive a task that throws, and stop(), which lets the queue run dry    *)
(* and joins the threads.                                                  *)
(*                                                                         *)
(* The io_context is asio's.  It counts the work that is outstanding: the  *)
(* work guard, queued tasks and running tasks.  When the count falls to    *)
(* zero it stops, and what is posted later is never run.  The guard is     *)
(* reset in one step: reset() is not atomic, and callers of stop() are     *)
(* taken not to be inside it at the same time.                             *)
(***************************************************************************)
EXTENDS FiniteSets

CONSTANTS Threads, Tasks, Stoppers, Nobody

VARIABLES
  task,        \* where a task is
  thread,      \* the loop of a thread; a task while it runs one
  guard,       \* m_executor_work_guard owns work
  ioStopped,   \* m_io_context.stopped()
  joining,     \* m_join_threads_flag: who is inside, then "done"
  stopper,     \* a call of stop()
  promised     \* tasks that were posted before a stop() began

poolVars == <<task, thread, guard, ioStopped, joining, stopper, promised>>

TypeOK ==
  /\ task \in [Tasks -> {"idle", "queued", "running", "done"}]
  /\ thread \in [Threads -> {"run", "thrown", "exited"} \cup Tasks]
  /\ guard \in BOOLEAN
  /\ ioStopped \in BOOLEAN
  /\ joining \in Stoppers \cup {Nobody, "done"}
  /\ stopper \in [Stoppers -> {"no", "reset", "returned"}]
  /\ promised \subseteq Tasks

Init ==
  /\ task = [t \in Tasks |-> "idle"]
  /\ thread = [h \in Threads |-> "run"]
  /\ guard = TRUE
  /\ ioStopped = FALSE
  /\ joining = Nobody
  /\ stopper = [s \in Stoppers |-> "no"]
  /\ promised = {}

Outstanding == {t \in Tasks : task[t] \in {"queued", "running"}}

-----------------------------------------------------------------------------
\* post, from anywhere and also from a running task
Post(t) ==
  /\ task[t] = "idle"
  /\ task' = [task EXCEPT ![t] = "queued"]
  /\ UNCHANGED <<thread, guard, ioStopped, joining, stopper, promised>>

\* run() takes a task
Take(h, t) ==
  /\ thread[h] = "run"
  /\ ~ioStopped
  /\ task[t] = "queued"
  /\ task' = [task EXCEPT ![t] = "running"]
  /\ thread' = [thread EXCEPT ![h] = t]
  /\ UNCHANGED <<guard, ioStopped, joining, stopper, promised>>

\* The task returns, or throws out of run(); its work is finished either way
Finish(h, t, throws) ==
  /\ thread[h] = t
  /\ task' = [task EXCEPT ![t] = "done"]
  /\ thread' = [thread EXCEPT ![h] = IF throws THEN "thrown" ELSE "run"]
  /\ ioStopped' = (ioStopped \/ (~guard /\ Outstanding = {t}))
  /\ UNCHANGED <<guard, joining, stopper, promised>>

\* Mutant of Rerun: a thread does not survive a task that throws
RerunNever(h) ==
  /\ thread[h] = "thrown"
  /\ thread' = [thread EXCEPT ![h] = "exited"]
  /\ UNCHANGED <<task, guard, ioStopped, joining, stopper, promised>>

\* The catch of the thread's loop: run() again unless the context has stopped
Rerun(h) ==
  /\ thread[h] = "thrown"
  /\ thread' = [thread EXCEPT ![h] = IF ioStopped THEN "exited" ELSE "run"]
  /\ UNCHANGED <<task, guard, ioStopped, joining, stopper, promised>>

\* run() returns when the context has stopped
Leave(h) ==
  /\ thread[h] = "run"
  /\ ioStopped
  /\ thread' = [thread EXCEPT ![h] = "exited"]
  /\ UNCHANGED <<task, guard, ioStopped, joining, stopper, promised>>

-----------------------------------------------------------------------------
\* Mutant of ResetGuard: the context is stopped first
ResetGuardStopping(s) ==
  /\ stopper[s] = "no"
  /\ stopper' = [stopper EXCEPT ![s] = "reset"]
  /\ promised' = promised \cup {t \in Tasks : task[t] # "idle" /\ ~ioStopped}
  /\ guard' = FALSE
  /\ ioStopped' = TRUE
  /\ UNCHANGED <<task, thread, joining>>

\* stop(): the work guard is reset
ResetGuard(s) ==
  /\ stopper[s] = "no"
  /\ stopper' = [stopper EXCEPT ![s] = "reset"]
  /\ promised' = promised \cup {t \in Tasks : task[t] # "idle" /\ ~ioStopped}
  /\ guard' = FALSE
  /\ ioStopped' = (ioStopped \/ Outstanding = {})
  /\ UNCHANGED <<task, thread, joining>>

\* The first caller joins the threads; call_once blocks the others until it has
JoinThreads(s) ==
  /\ stopper[s] = "reset"
  /\ joining = Nobody
  /\ joining' = s
  /\ UNCHANGED <<task, thread, guard, ioStopped, stopper, promised>>

ThreadsJoined ==
  /\ joining \in Stoppers
  /\ \A h \in Threads : thread[h] = "exited"
  /\ joining' = "done"
  /\ UNCHANGED <<task, thread, guard, ioStopped, stopper, promised>>

\* m_io_context.stop(), and stop() returns
StopReturns(s) ==
  /\ stopper[s] = "reset"
  /\ joining = "done"
  /\ stopper' = [stopper EXCEPT ![s] = "returned"]
  /\ ioStopped' = TRUE
  /\ UNCHANGED <<task, thread, guard, joining, promised>>

-----------------------------------------------------------------------------
ThreadStep(h) ==
  \/ \E t \in Tasks : Take(h, t) \/ \E throws \in BOOLEAN : Finish(h, t, throws)
  \/ Rerun(h)
  \/ Leave(h)
StopperStep(s) == JoinThreads(s) \/ StopReturns(s)

Next ==
  \/ \E t \in Tasks : Post(t)
  \/ \E h \in Threads, t \in Tasks : Take(h, t) \/ \E throws \in BOOLEAN : Finish(h, t, throws)
  \/ \E h \in Threads : Rerun(h) \/ Leave(h)
  \/ \E s \in Stoppers : ResetGuard(s) \/ JoinThreads(s) \/ StopReturns(s)
  \/ ThreadsJoined

Spec == Init /\ [][Next]_poolVars

\* The threads are scheduled and tasks return.
Fairness ==
  /\ \A h \in Threads : WF_poolVars(ThreadStep(h))
  /\ \A s \in Stoppers : WF_poolVars(StopperStep(s))
  /\ WF_poolVars(ThreadsJoined)

-----------------------------------------------------------------------------
(* Properties.                                                             *)

\* When any call of stop() returns, every task that was posted before it began has run,
\* tasks that throw included, no task is running, and none will run later.
StopRunsEverything ==
  \A s \in Stoppers : stopper[s] = "returned" =>
    /\ \A t \in promised : task[t] = "done"
    /\ \A h \in Threads : thread[h] = "exited"

\* Calls of stop() that have reset the guard
Due == {s \in Stoppers : stopper[s] = "reset"}

\* stop() returns.
StopsReturn == []<>(Due = {})

=============================================================================
