---------------------------- MODULE PeriodicTimer ----------------------------
(***************************************************************************)
(* cl::periodic_timer (common-lib/common-lib/timer/periodic-timer.cpp).    *)
(* Each period is one wait of an asio timer whose handler calls the user's *)
(* function without the lock and then, under m_mtx, starts the next period *)
(* or deactivates.  stop_async may come at any point: before the wait      *)
(* expires, when its handler is queued, or while the function runs.        *)
(***************************************************************************)
EXTENDS Naturals

CONSTANTS
  Stops,       \* calls of stop_async with a callback
  MaxPeriods,  \* the periods that are told apart: MaxPeriods + 1 stands for no end
  MaxStarts    \* bound on the calls of start

VARIABLES
  active,      \* m_is_active
  stopped,     \* m_is_stopped
  count,       \* m_current_periods_count
  total,       \* m_total_periods_count
  wait,        \* the asio wait, or its queued handler, or the function running in it
  starts,      \* calls of start: the number of the current activation
  stop,        \* a stop callback
  stopOf       \* the activation that a stop was meant for

timerVars == <<active, stopped, count, total, wait, starts, stop, stopOf>>

TypeOK ==
  /\ active \in BOOLEAN
  /\ stopped \in BOOLEAN
  /\ count \in 0..MaxPeriods
  /\ total \in 0..(MaxPeriods + 1)
  /\ wait \in {"none", "armed", "expired", "aborted", "calling"}
  /\ starts \in 0..MaxStarts
  /\ stop \in [Stops -> {"none", "stored", "posted", "run"}]
  /\ stopOf \in [Stops -> 0..MaxStarts]

Init ==
  /\ active = FALSE
  /\ stopped = FALSE
  /\ count = 0
  /\ total = 0
  /\ wait = "none"
  /\ starts = 0
  /\ stop = [s \in Stops |-> "none"]
  /\ stopOf = [s \in Stops |-> 0]

-----------------------------------------------------------------------------
\* start; a timer that is active throws
Start(periods) ==
  /\ ~active
  /\ starts < MaxStarts
  /\ starts' = starts + 1
  /\ active' = TRUE
  /\ stopped' = FALSE
  /\ count' = 0
  /\ total' = periods
  /\ wait' = "armed"
  /\ UNCHANGED <<stop, stopOf>>

\* The period passes, and the handler is queued
Expire ==
  /\ wait = "armed"
  /\ wait' = "expired"
  /\ UNCHANGED <<active, stopped, count, total, starts, stop, stopOf>>

\* deactivate, under m_mtx
Deactivate ==
  /\ active' = FALSE
  /\ wait' = "none"
  /\ stop' = [s \in Stops |-> IF stop[s] = "stored" THEN "posted" ELSE stop[s]]

\* The handler of a canceled wait
Aborted ==
  /\ wait = "aborted"
  /\ Deactivate
  /\ UNCHANGED <<stopped, count, total, starts, stopOf>>

\* The handler of an expired wait calls the function
Call ==
  /\ wait = "expired"
  /\ wait' = "calling"
  /\ UNCHANGED <<active, stopped, count, total, starts, stop, stopOf>>

\* Mutant of AfterCall: a stop that came while the function ran is not looked at
AfterCallAgain(continue) ==
  /\ wait = "calling"
  /\ count' = IF count < MaxPeriods THEN count + 1 ELSE count
  /\ IF continue /\ count' < total
     THEN wait' = "armed" /\ UNCHANGED <<active, stop>>
     ELSE Deactivate
  /\ UNCHANGED <<stopped, total, starts, stopOf>>

\* The end of the handler; the function returned Continue, or Abort, or threw
AfterCall(continue) ==
  /\ wait = "calling"
  /\ count' = IF count < MaxPeriods THEN count + 1 ELSE count
  /\ IF continue /\ ~stopped /\ count' < total
     THEN wait' = "armed" /\ UNCHANGED <<active, stop>>
     ELSE Deactivate
  /\ UNCHANGED <<stopped, total, starts, stopOf>>

\* Mutant of StopAsync: the callback of a timer that is being stopped is posted at once
StopAsyncAtOnce(s) ==
  /\ stop[s] = "none"
  /\ stopOf' = [stopOf EXCEPT ![s] = starts]
  /\ stop' = [stop EXCEPT ![s] = IF active /\ ~stopped THEN "stored" ELSE "posted"]
  /\ stopped' = (stopped \/ active)
  /\ wait' = IF active /\ ~stopped /\ wait = "armed" THEN "aborted" ELSE wait
  /\ UNCHANGED <<active, count, total, starts>>

\* stop_async
StopAsync(s) ==
  /\ stop[s] = "none"
  /\ stopOf' = [stopOf EXCEPT ![s] = starts]
  /\ stop' = [stop EXCEPT ![s] = IF active THEN "stored" ELSE "posted"]
  /\ stopped' = (stopped \/ active)
  /\ wait' = IF active /\ ~stopped /\ wait = "armed" THEN "aborted" ELSE wait
  /\ UNCHANGED <<active, count, total, starts>>

\* The destructor: stop_async without a callback
StopWithoutCallback ==
  /\ active
  /\ ~stopped
  /\ stopped' = TRUE
  /\ wait' = IF wait = "armed" THEN "aborted" ELSE wait
  /\ UNCHANGED <<active, count, total, starts, stop, stopOf>>

\* The io_context runs a posted callback
RunStopCallback(s) ==
  /\ stop[s] = "posted"
  /\ stop' = [stop EXCEPT ![s] = "run"]
  /\ UNCHANGED <<active, stopped, count, total, wait, starts, stopOf>>

-----------------------------------------------------------------------------
Next ==
  \/ \E periods \in 0..(MaxPeriods + 1) : Start(periods)
  \/ Expire \/ Aborted \/ Call
  \/ \E continue \in BOOLEAN : AfterCall(continue)
  \/ \E s \in Stops : StopAsync(s) \/ RunStopCallback(s)
  \/ StopWithoutCallback

Spec == Init /\ [][Next]_timerVars

\* Periods pass, the io_context runs handlers, and the user's function returns.
Fairness ==
  /\ WF_timerVars(Expire \/ Aborted \/ Call \/ \E continue \in BOOLEAN : AfterCall(continue))
  /\ \A s \in Stops : WF_timerVars(RunStopCallback(s))

-----------------------------------------------------------------------------
(* Properties.                                                             *)

\* An active timer has exactly one wait, handler or call under way, and an inactive one
\* none and no stop callback left; and when a stop callback has been posted, the function
\* of the activation it was meant for is not running and will not be called again.
NoCallAfterStop ==
  /\ active <=> wait # "none"
  /\ ~active => \A s \in Stops : stop[s] # "stored"
  /\ \A s \in Stops : stop[s] \in {"posted", "run"} => ~active \/ stopOf[s] < starts

\* Stop callbacks that have not run
Due == {s \in Stops : stop[s] \in {"stored", "posted"}}

\* Every stop callback runs.
StopsComplete == []<>(Due = {})

=============================================================================
