---------------------------- MODULE ServerProofs -----------------------------
(***************************************************************************)
(* Proofs about a server.  The continuations and calls of its listener     *)
(* keep one wait per run and an exact map of what is pending, and what its *)
(* callbacks say implements ListenerEvents; its endpoints and its pipes    *)
(* agree with what the user was told.  All for any number of runs,         *)
(* connections and stopping threads.                                       *)
(***************************************************************************)
EXTENDS ServerEndpoint, TLAPS

coreVars == <<isRunning, current, starts, nextConnectionId, run, stage, futureMap, stopCalls>>

CoreTypes ==
  /\ isRunning \in [Runs -> BOOLEAN]
  /\ current \in Runs \cup {NoRun}
  /\ starts \in 0 .. MaxRuns
  /\ nextConnectionId \in 0 .. MaxConnections
  /\ run \in [Ids -> Runs \cup {NoRun}]
  /\ stage \in [Ids -> Stages]
  /\ futureMap \subseteq Ids
  /\ stopCalls \in [Stoppers -> Runs \cup {NoRun, NotCalled}]

\* At most the current run is open, and ids and runs that were not given out are unused
RunsInOrder ==
  /\ \A r \in Runs : isRunning[r] => r = current /\ r <= starts
  /\ \A c \in Ids : run[c] <= starts
  /\ \A c \in Ids : c >= nextConnectionId => run[c] = NoRun /\ stage[c] = "unused"

\* A wait in the environment belongs to the open run
AcceptingInRun == \A c \in Ids : stage[c] = "accepting" => run[c] = current /\ Running(current)

IsTheWait(w) == \A c \in Ids : run[c] = current /\ Waiting(c) <=> c = w

OneWait == Running(current) => \E w \in Ids : IsTheWait(w)

ConnectorInv == CoreTypes /\ RunsInOrder /\ AcceptingInRun /\ OneWait /\ PendingCountIsExact

\* A server that was just constructed satisfies the invariant.
LEMMA InitConnector == Init => ConnectorInv
  BY BoundsAssumption DEF Init, ConnectorInit, ConnectorInv, CoreTypes, RunsInOrder, AcceptingInRun,
     OneWait, PendingCountIsExact, Running, NoRun, Runs, Ids, Stages, NotCalled

\* start() opens a run with one wait of its own.
LEMMA StartStep == ASSUME ConnectorInv, Start PROVE ConnectorInv'
<1> USE BoundsAssumption DEF Runs, NoRun, Ids
<1>1. \A r \in Runs : ~isRunning[r]
  BY DEF Start, ConnectorInv, CoreTypes, RunsInOrder, Running
<1>2. /\ starts + 1 \in Runs
      /\ \A r \in Runs : isRunning'[r] <=> r = starts + 1
      /\ current' = starts + 1
      /\ Running(current)'
  BY <1>1 DEF Start, ConnectorInv, CoreTypes, Running
<1>3. /\ nextConnectionId \in Ids
      /\ \A c \in Ids : run'[c] = IF c = nextConnectionId THEN starts + 1 ELSE run[c]
      /\ \A c \in Ids : stage'[c] = IF c = nextConnectionId THEN "accepting" ELSE stage[c]
      /\ futureMap' = futureMap \cup {nextConnectionId}
  BY DEF Start, StartPipeConnect, ConnectorInv, CoreTypes
<1>4. CoreTypes'
  BY <1>2, <1>3 DEF Start, StartPipeConnect, ConnectorInv, CoreTypes, Stages
<1>5. RunsInOrder'
  <2>1. starts' = starts + 1 /\ nextConnectionId' = nextConnectionId + 1
    BY Zenon DEF Start, StartPipeConnect
  <2>2. \A r \in Runs : isRunning'[r] => r = current' /\ r <= starts'
    BY <1>2, <2>1 DEF ConnectorInv, CoreTypes
  <2>3. \A c \in Ids : run'[c] <= starts'
    BY <1>3, <2>1 DEF ConnectorInv, CoreTypes, RunsInOrder
  <2>4. \A c \in Ids : c >= nextConnectionId' => run'[c] = NoRun /\ stage'[c] = "unused"
    BY <1>3, <2>1 DEF ConnectorInv, CoreTypes, RunsInOrder
  <2> QED  BY <2>2, <2>3, <2>4, Zenon DEF RunsInOrder
<1>6. AcceptingInRun'
  BY <1>1, <1>2, <1>3, Zenon DEF ConnectorInv, AcceptingInRun, Running, CoreTypes
<1>7. \A c \in Ids : (run[c] = current /\ Waiting(c))' <=> c = nextConnectionId
  BY <1>2, <1>3 DEF Waiting, ConnectorInv, RunsInOrder, CoreTypes
<1>8. PendingCountIsExact'
  BY <1>1, <1>2, <1>3 DEF ConnectorInv, PendingCountIsExact, Running, RunsInOrder, CoreTypes
<1> QED  BY <1>3, <1>4, <1>5, <1>6, <1>7, <1>8, Zenon DEF ConnectorInv, OneWait, IsTheWait

\* stop_impl closes the run that it is given, if that is the open one; a wait that failed
\* may end in the same step.
LEMMA StopImplStep ==
  ASSUME ConnectorInv, NEW r \in Runs \cup {NoRun}, NEW stages \in [Ids -> Stages],
         \A c \in Ids : \/ stages[c] = stage[c]
                        \/ stage[c] = "refused" /\ stages[c] = "failed" /\ run[c] = r,
         StopImpl(r, stages),
         stopCalls' \in [Stoppers -> Runs \cup {NoRun, NotCalled}],
         UNCHANGED <<starts, nextConnectionId, run>>
  PROVE  ConnectorInv'
<1> USE BoundsAssumption DEF Runs, NoRun, Ids
<1>1. CASE Running(r)
  <2>1. \A q \in Runs : ~isRunning'[q]
    BY <1>1 DEF StopImpl, ConnectorInv, CoreTypes, RunsInOrder, Running
  <2>2. current' = NoRun /\ futureMap' = {}
    BY <1>1, Zenon DEF StopImpl
  <2>3. stage' = [c \in Ids |-> IF stages[c] = "accepting" THEN "refused" ELSE stages[c]]
    BY <1>1, Zenon DEF StopImpl
  <2>4. CoreTypes'
    <3>1. isRunning' \in [Runs -> BOOLEAN]
      BY <1>1, Zenon DEF StopImpl, ConnectorInv, CoreTypes
    <3>2. stage' \in [Ids -> Stages]
      BY <2>3, Zenon DEF Stages
    <3> QED  BY <2>2, <3>1, <3>2, Zenon DEF ConnectorInv, CoreTypes
  <2>5. RunsInOrder'
    BY <2>1, <2>3, Zenon DEF ConnectorInv, RunsInOrder, CoreTypes
  <2>6. AcceptingInRun'
    BY <2>3, Zenon DEF AcceptingInRun
  <2>7. OneWait'
    BY <2>2, Zenon DEF OneWait, Running
  <2>8. PendingCountIsExact'
    BY <2>1, <2>2 DEF PendingCountIsExact, Running, ConnectorInv, CoreTypes
  <2> QED  BY <2>4, <2>5, <2>6, <2>7, <2>8, Zenon DEF ConnectorInv
<1>2. CASE ~Running(r)
  <2>1. stage' = stages /\ UNCHANGED <<isRunning, current, futureMap>>
    BY <1>2, Zenon DEF StopImpl
  <2>2. CoreTypes' /\ RunsInOrder' /\ AcceptingInRun'
    BY <2>1, Zenon DEF ConnectorInv, CoreTypes, RunsInOrder, AcceptingInRun, Running
  <2>3. OneWait'
    <3> SUFFICES ASSUME Running(current)' PROVE \E w \in Ids : IsTheWait(w)'
      BY Zenon DEF OneWait
    <3>1. Running(current) /\ current # r
      BY <1>2, <2>1, Zenon DEF Running
    <3>2. PICK w \in Ids : IsTheWait(w)
      BY <3>1, Zenon DEF ConnectorInv, OneWait
    <3>3. \A d \in Ids : run[d] = current => stage'[d] = stage[d]
      BY <2>1, <3>1, Zenon
    <3> QED  BY <2>1, <3>2, <3>3, Zenon DEF IsTheWait, Waiting
  <2>4. PendingCountIsExact'
    BY <1>2, <2>1, Zenon DEF ConnectorInv, PendingCountIsExact, Running
  <2> QED  BY <2>2, <2>3, <2>4, Zenon DEF ConnectorInv
<1> QED  BY <1>1, <1>2, Zenon

\* A continuation with a pipe hands the wait over to the next id while its run is open.
LEMMA OnPipeStep == ASSUME ConnectorInv, NEW c \in Ids, OnPipe(c) PROVE ConnectorInv'
<1> USE BoundsAssumption DEF Runs, NoRun, Ids
<1> DEFINE stages == [stage EXCEPT ![c] = "reading"]
<1>1. /\ stages \in [Ids -> Stages]
      /\ \A d \in Ids : stages[d] = IF d = c THEN "reading" ELSE stage[d]
      /\ stage[c] = "connected"
      /\ UNCHANGED <<isRunning, current, starts, stopCalls>>
  BY Zenon DEF OnPipe, ConnectorInv, CoreTypes, Stages
<1>2. CASE Running(run[c])
  <2>1. /\ run[c] \in Runs /\ run[c] = current /\ Running(current)
        /\ IsTheWait(c)
    BY <1>1, <1>2 DEF ConnectorInv, CoreTypes, RunsInOrder, Running, OneWait, IsTheWait, Waiting
  <2>2. StartPipeConnect(run[c], stages)
    BY <1>2, Zenon DEF OnPipe
  <2>3. /\ nextConnectionId \in Ids /\ nextConnectionId # c
        /\ nextConnectionId' = nextConnectionId + 1
        /\ futureMap' = futureMap \cup {nextConnectionId}
    BY <1>1, <2>2 DEF StartPipeConnect, ConnectorInv, CoreTypes, RunsInOrder
  <2>4. /\ run' \in [Ids -> Runs \cup {NoRun}]
        /\ \A d \in Ids : run'[d] = IF d = nextConnectionId THEN current ELSE run[d]
    BY <2>1, <2>2, <2>3, Zenon DEF StartPipeConnect, ConnectorInv, CoreTypes
  <2>5. /\ stage' \in [Ids -> Stages]
        /\ \A d \in Ids : stage'[d] = IF d = nextConnectionId THEN "accepting"
                                      ELSE IF d = c THEN "reading" ELSE stage[d]
    BY SMTT(20), <1>1, <2>2, <2>3 DEF StartPipeConnect, Stages
  <2>6. CoreTypes'
    <3>1. nextConnectionId' \in 0 .. MaxConnections /\ futureMap' \subseteq Ids
      BY <2>3 DEF ConnectorInv, CoreTypes
    <3> QED  BY <1>1, <2>4, <2>5, <3>1, Zenon DEF ConnectorInv, CoreTypes
  <2>7. RunsInOrder'
    <3>1. \A d \in Ids : run'[d] <= starts'
      BY <1>1, <2>1, <2>4, Zenon DEF ConnectorInv, RunsInOrder, Running
    <3>2. \A d \in Ids : d >= nextConnectionId' => run'[d] = NoRun /\ stage'[d] = "unused"
      BY <1>1, <2>3, <2>4, <2>5 DEF ConnectorInv, CoreTypes, RunsInOrder
    <3> QED  BY <1>1, <3>1, <3>2, Zenon DEF ConnectorInv, RunsInOrder
  <2>8. AcceptingInRun'
    BY <1>1, <2>1, <2>4, <2>5 DEF ConnectorInv, AcceptingInRun, Running
  <2>9. \A d \in Ids : (run[d] = current /\ Waiting(d))' <=> d = nextConnectionId
    BY <1>1, <2>1, <2>3, <2>4, <2>5, Zenon DEF IsTheWait, Waiting
  <2>10. PendingCountIsExact'
    BY <1>1, <2>1, <2>3, <2>4, <2>5 DEF ConnectorInv, PendingCountIsExact, Running
  <2> QED  BY <2>3, <2>6, <2>7, <2>8, <2>9, <2>10, Zenon DEF ConnectorInv, OneWait, IsTheWait
<1>3. CASE ~Running(run[c])
  <2>1. stage' = stages /\ UNCHANGED <<nextConnectionId, run, futureMap>>
    BY <1>3, Zenon DEF OnPipe
  <2>2. CoreTypes' /\ RunsInOrder' /\ AcceptingInRun'
    BY <1>1, <2>1, Zenon DEF ConnectorInv, CoreTypes, RunsInOrder, AcceptingInRun, Running
  <2>3. OneWait'
    <3> SUFFICES ASSUME Running(current)' PROVE \E w \in Ids : IsTheWait(w)'
      BY Zenon DEF OneWait
    <3>1. Running(current) /\ current # run[c]
      BY <1>1, <1>3, <2>1, Zenon DEF Running
    <3>2. PICK w \in Ids : IsTheWait(w)
      BY <3>1, Zenon DEF ConnectorInv, OneWait
    <3>3. \A d \in Ids : run[d] = current => stage'[d] = stage[d]
      BY <1>1, <2>1, <3>1, Zenon
    <3> QED  BY <1>1, <2>1, <3>2, <3>3, Zenon DEF IsTheWait, Waiting
  <2>4. PendingCountIsExact'
    BY <1>1, <1>3, <2>1, Zenon DEF ConnectorInv, PendingCountIsExact, Running
  <2> QED  BY <2>2, <2>3, <2>4, Zenon DEF ConnectorInv
<1> QED  BY <1>2, <1>3, Zenon

\* Steps of one continuation that neither end its handshake nor its wait keep the invariant.
LEMMA StageStep ==
  ASSUME ConnectorInv, NEW c \in Ids, NEW s \in Stages \ {"unused", "accepting", "over", "failed"},
         stage' = [stage EXCEPT ![c] = s],
         UNCHANGED <<isRunning, current, starts, nextConnectionId, run, futureMap, stopCalls>>,
         stage[c] \notin {"unused", "over", "failed"},
         s \in {"connected", "refused"} <=> Waiting(c)
  PROVE  ConnectorInv'
<1> USE BoundsAssumption DEF Runs, NoRun, Ids
<1>1. stage' \in [Ids -> Stages] /\ \A d \in Ids : stage'[d] = IF d = c THEN s ELSE stage[d]
  BY Zenon DEF ConnectorInv, CoreTypes
<1>2. CoreTypes' /\ RunsInOrder' /\ AcceptingInRun'
  BY <1>1, Zenon DEF ConnectorInv, CoreTypes, RunsInOrder, AcceptingInRun, Running
<1>3. \A d \in Ids : Waiting(d)' <=> Waiting(d)
  BY <1>1, Zenon DEF Waiting, Stages
<1>4. OneWait'
  BY <1>3, Zenon DEF ConnectorInv, OneWait, IsTheWait, Running
<1>5. PendingCountIsExact'
  BY <1>1, Zenon DEF ConnectorInv, PendingCountIsExact, Running
<1> QED  BY <1>2, <1>4, <1>5, Zenon DEF ConnectorInv

\* The end of a handshake takes its own entry out of the map.
LEMMA EraseStep == ASSUME ConnectorInv, NEW c \in Ids, EraseConnectionFuture(c) PROVE ConnectorInv'
<1> USE BoundsAssumption DEF Runs, NoRun, Ids
<1>1. /\ stage' \in [Ids -> Stages] /\ \A d \in Ids : stage'[d] = IF d = c THEN "over" ELSE stage[d]
      /\ stage[c] = "closing"
      /\ futureMap' = futureMap \ {c}
      /\ UNCHANGED <<isRunning, current, starts, nextConnectionId, run, stopCalls>>
  BY Zenon DEF EraseConnectionFuture, ConnectorInv, CoreTypes, Stages
<1>2. CoreTypes' /\ RunsInOrder' /\ AcceptingInRun'
  BY <1>1, Zenon DEF ConnectorInv, CoreTypes, RunsInOrder, AcceptingInRun, Running
<1>3. \A d \in Ids : Waiting(d)' <=> Waiting(d)
  BY <1>1, Zenon DEF Waiting
<1>4. OneWait'
  BY <1>1, <1>3, Zenon DEF ConnectorInv, OneWait, IsTheWait, Running
<1>5. PendingCountIsExact'
  BY <1>1, Zenon DEF ConnectorInv, PendingCountIsExact, Running
<1> QED  BY <1>2, <1>4, <1>5, Zenon DEF ConnectorInv

\* Steps that do not touch the connector, or only a call of stop(), keep the invariant.
LEMMA CoreUnchanged ==
  ASSUME ConnectorInv, UNCHANGED <<isRunning, current, starts, nextConnectionId, run, stage, futureMap>>,
         stopCalls' \in [Stoppers -> Runs \cup {NoRun, NotCalled}]
  PROVE  ConnectorInv'
  BY DEF ConnectorInv, CoreTypes, RunsInOrder, AcceptingInRun, OneWait, IsTheWait, Waiting,
         PendingCountIsExact, Running

\* Every step of the server keeps the invariant.
LEMMA NextStep == ConnectorInv /\ [Next]_vars => ConnectorInv'
<1> SUFFICES ASSUME ConnectorInv, [Next]_vars PROVE ConnectorInv'
  BY Zenon
<1>1. stopCalls \in [Stoppers -> Runs \cup {NoRun, NotCalled}]
  BY Zenon DEF ConnectorInv, CoreTypes
<1>2. ASSUME NEW s \in Stoppers, BeginStop(s) PROVE ConnectorInv'
  <2>1. stopCalls' \in [Stoppers -> Runs \cup {NoRun, NotCalled}]
    BY <1>2, Zenon DEF BeginStop, ConnectorInv, CoreTypes
  <2> QED  BY <1>2, <2>1, CoreUnchanged, Zenon DEF BeginStop
<1>3. ASSUME NEW s \in Stoppers, EndStop(s) PROVE ConnectorInv'
  <2>1. /\ stopCalls[s] \in Runs \cup {NoRun}
        /\ stopCalls' \in [Stoppers -> Runs \cup {NoRun, NotCalled}]
        /\ stage \in [Ids -> Stages]
    BY <1>1, <1>3, Zenon DEF EndStop, ConnectorInv, CoreTypes
  <2> QED  BY <1>3, <2>1, StopImplStep, Zenon DEF EndStop
<1>4. ASSUME NEW c \in Ids, OnPipeFailure(c) PROVE ConnectorInv'
  <2>1. /\ run[c] \in Runs \cup {NoRun}
        /\ [stage EXCEPT ![c] = "failed"] \in [Ids -> Stages]
        /\ \A d \in Ids : [stage EXCEPT ![c] = "failed"][d] = IF d = c THEN "failed" ELSE stage[d]
    BY Zenon DEF ConnectorInv, CoreTypes, Stages
  <2> QED  BY <1>1, <1>4, <2>1, StopImplStep, Zenon DEF OnPipeFailure
<1>5. ASSUME NEW c \in Ids, PipeFails(c) PROVE ConnectorInv'
  BY <1>5, StageStep, Zenon DEF PipeFails, Stages, Waiting
<1>6. ASSUME NEW c \in Ids, PipeConnects(c) PROVE ConnectorInv'
  BY <1>6, StageStep, Zenon DEF PipeConnects, Stages, Waiting
<1>7. ASSUME NEW c \in Ids, NEW ok \in BOOLEAN, HandshakeRead(c, ok) PROVE ConnectorInv'
  <2>1. CASE ok
    BY <1>7, <2>1, StageStep, Zenon DEF HandshakeRead, Stages, Waiting
  <2>2. CASE ~ok
    BY <1>7, <2>2, StageStep, Zenon DEF HandshakeRead, Stages, Waiting
  <2> QED  BY <2>1, <2>2, Zenon
<1>8. ASSUME NEW c \in Ids, NEW ok \in BOOLEAN, HandshakeWrite(c, ok) PROVE ConnectorInv'
  BY <1>8, StageStep, Zenon DEF HandshakeWrite, Stages, Waiting
<1>9. ASSUME ConnectorStep PROVE ConnectorInv'
  BY <1>2, <1>3, <1>4, <1>5, <1>6, <1>7, <1>8, <1>9, StartStep, OnPipeStep, EraseStep, Zenon
     DEF ConnectorStep, StartListening, StopListening, Background
<1>10. ASSUME RunNotification PROVE ConnectorInv'
  BY <1>1, <1>10, CoreUnchanged, Zenon DEF RunNotification, Notify
<1>11. ASSUME EndpointStep PROVE ConnectorInv'
  <2>1. ASSUME Release PROVE ConnectorInv'
    BY <1>2, <2>1, DestructorStops, Zenon DEF Release
  <2>2. ASSUME NEW c \in Ids, RunDisconnectCallback(c) \/ OnDisconnect(c) \/ TellUser(c) PROVE ConnectorInv'
    BY <1>1, <2>2, CoreUnchanged, Zenon DEF RunDisconnectCallback, OnDisconnect, TellUser, connectorVars
  <2> QED  BY <1>11, <2>1, <2>2, Zenon DEF EndpointStep
<1>12. ASSUME Finalize PROVE ConnectorInv'
  BY <1>1, <1>12, CoreUnchanged, Zenon DEF Finalize, connectorVars
<1>13. ASSUME NEW c \in Ids, PipeIsLost(c) PROVE ConnectorInv'
  BY <1>1, <1>13, CoreUnchanged, Zenon DEF PipeIsLost, connectorVars
<1>14. CASE UNCHANGED vars
  BY <1>1, <1>14, CoreUnchanged, Zenon DEF vars, connectorVars
<1> QED  BY <1>9, <1>10, <1>11, <1>12, <1>13, <1>14, Zenon DEF Next

\* The invariant of the connector holds in every reachable state.
THEOREM Invariance == Spec => []ConnectorInv
  BY InitConnector, NextStep, PTL DEF Spec

\* get_pending_connections_count() is exact, however start(), stop(), the destructor, pipes
\* and handshakes of several runs interleave.
THEOREM PendingCountIsExactHolds == Spec => []PendingCountIsExact
<1>1. ConnectorInv => PendingCountIsExact
  BY Zenon DEF ConnectorInv
<1> QED  BY <1>1, Invariance, PTL

-----------------------------------------------------------------------------
(* The connector implements ListenerEvents.  What the user is told lags    *)
(* behind the runs by the tasks of the strand, so the invariant says what  *)
(* the strand must still hold, and in which order.                         *)

TaskTypes == [kind : {"started", "stopped", "connection"}, of : Nat]
Queued == 1 .. Len(strand)
Posted(k, r) == \E i \in Queued : strand[i].kind = k /\ strand[i].of = r

\* The run a task belongs to
TaskRun(i) == IF strand[i].kind = "connection" THEN run[strand[i].of] ELSE strand[i].of

StrandTypes ==
  /\ strand \in Seq(TaskTypes)
  /\ opened \in 0 .. starts
  /\ told \in {NoRun, opened}
  /\ given \in [Ids -> Nat]

\* The tasks of a run come together: its start, then its connections, then its stop
TasksInOrder ==
  \A i, j \in Queued : i < j =>
    /\ TaskRun(i) <= TaskRun(j)
    /\ TaskRun(i) = TaskRun(j) => strand[i].kind # "stopped" /\ strand[j].kind # "started"

\* No task is about a run whose end was told, nor a start that was told
TasksAreDue ==
  \A i \in Queued :
    /\ TaskRun(i) \in 1 .. starts
    /\ TaskRun(i) >= opened
    /\ strand[i].kind = "started" => TaskRun(i) > opened
    /\ TaskRun(i) = opened => told = opened

\* A connection is posted once, at the end of its handshake, and given after that
ConnectionsPostedOnce ==
  /\ \A i \in Queued : strand[i].kind = "connection" =>
       /\ strand[i].of \in Ids
       /\ stage[strand[i].of] \in {"closing", "over"}
       /\ given[strand[i].of] = NoRun
       /\ \A j \in Queued : strand[j].kind = "connection" /\ strand[j].of = strand[i].of => i = j
  /\ \A c \in Ids : stage[c] \notin {"closing", "over"} => given[c] = NoRun

\* The starts and the stops that were not told are in the strand, and no others
ChangesArePosted ==
  /\ \A r \in 1 .. starts : r > opened => Posted("started", r)
  /\ \A r \in 1 .. starts :
       ~isRunning[r] /\ (r > opened \/ (r = opened /\ told = opened)) => Posted("stopped", r)
  /\ \A r \in Runs : isRunning[r] =>
       /\ r = starts
       /\ ~Posted("stopped", r)
       /\ r = opened => told = opened

StrandInv == StrandTypes /\ TasksInOrder /\ TasksAreDue /\ ConnectionsPostedOnce /\ ChangesArePosted

\* A continuation past the end of its handshake stays there, and keeps its run
HandshakesStay ==
  \A c \in Ids : stage[c] \in {"closing", "over"} =>
    stage'[c] \in {"closing", "over"} /\ run'[c] = run[c]

\* Before anything was posted nothing is due.
LEMMA InitStrand == Init => StrandInv
<1> SUFFICES ASSUME Init PROVE StrandInv
  BY Zenon
<1>1. /\ strand = <<>> /\ opened = 0 /\ told = 0 /\ starts = 0
      /\ isRunning = [r \in Runs |-> FALSE] /\ given = [c \in Ids |-> 0]
  BY Zenon DEF Init, ConnectorInit, NoRun
<1>2. Queued = {} /\ strand \in Seq(TaskTypes)
  BY <1>1 DEF Queued
<1>3. StrandTypes /\ TasksInOrder /\ TasksAreDue /\ ConnectionsPostedOnce
  BY <1>1, <1>2 DEF StrandTypes, TasksInOrder, TasksAreDue, ConnectionsPostedOnce, NoRun
<1>4. ChangesArePosted
  BY <1>1, <1>2 DEF ChangesArePosted, Runs
<1> QED  BY <1>3, <1>4, Zenon DEF StrandInv

\* Steps that post nothing and open or close no run leave what is due alone.
LEMMA QuietStep ==
  ASSUME StrandInv, HandshakesStay, UNCHANGED <<strand, told, opened, given, starts, isRunning>>
  PROVE  StrandInv'
<1>1. /\ Queued' = Queued
      /\ \A i \in Queued : TaskRun(i)' = TaskRun(i)
      /\ \A k, r : Posted(k, r)' <=> Posted(k, r)
  BY Zenon DEF Queued, TaskRun, Posted, HandshakesStay, StrandInv, ConnectionsPostedOnce
<1>2. StrandTypes' /\ TasksInOrder' /\ TasksAreDue'
  BY <1>1 DEF StrandInv, StrandTypes, TasksInOrder, TasksAreDue
<1>3. ConnectionsPostedOnce'
  BY <1>1 DEF StrandInv, ConnectionsPostedOnce, HandshakesStay
<1>4. ChangesArePosted'
  BY <1>1, Zenon DEF StrandInv, ChangesArePosted
<1> QED  BY <1>2, <1>3, <1>4, Zenon DEF StrandInv

\* The step puts a task of kind k about r at the end of the strand, which is place n
PostsLast(n, k, r) ==
  /\ strand' \in Seq(TaskTypes)
  /\ Queued' = Queued \cup {n}
  /\ \A i \in Queued : strand'[i] = strand[i] /\ i \in Nat /\ i < n /\ TaskRun(i)' = TaskRun(i)
  /\ strand'[n].kind = k
  /\ strand'[n].of = r
  /\ \A l, q : Posted(l, q)' <=> Posted(l, q) \/ (l = k /\ q = r)

\* m_notify_strand.post adds its task behind the others.
LEMMA PostFacts ==
  ASSUME StrandInv, HandshakesStay, NEW k \in {"started", "stopped", "connection"}, NEW r \in Nat,
         strand' = Append(strand, [kind |-> k, of |-> r])
  PROVE  \E n \in Nat : PostsLast(n, k, r)
<1>1. strand \in Seq(TaskTypes) /\ [kind |-> k, of |-> r] \in TaskTypes
  BY Zenon DEF StrandInv, StrandTypes, TaskTypes
<1>2. PICK n \in Nat : n = Len(strand) + 1
  BY <1>1
<1>3. /\ strand' \in Seq(TaskTypes) /\ Len(strand) \in Nat
      /\ Len(strand') = n
      /\ \A i \in 1 .. Len(strand) : strand'[i] = strand[i]
      /\ strand'[n] = [kind |-> k, of |-> r]
  BY <1>1, <1>2
<1>4. Queued' = Queued \cup {n}
  BY <1>2, <1>3 DEF Queued
<1>5. \A i \in Queued : strand'[i] = strand[i] /\ i \in Nat /\ i < n
  BY <1>2, <1>3 DEF Queued
<1>6. ASSUME NEW i \in Queued PROVE TaskRun(i)' = TaskRun(i)
  <2>1. strand'[i] = strand[i]
    BY <1>5, Zenon
  <2>2. strand[i].kind = "connection" => run'[strand[i].of] = run[strand[i].of]
    BY Zenon DEF HandshakesStay, StrandInv, ConnectionsPostedOnce
  <2> QED  BY <2>1, <2>2, Zenon DEF TaskRun
<1>7. strand'[n].kind = k /\ strand'[n].of = r
  BY <1>3
<1>8. ASSUME NEW l, NEW q PROVE Posted(l, q)' <=> Posted(l, q) \/ (l = k /\ q = r)
  BY <1>4, <1>5, <1>7, Zenon DEF Posted
<1> QED  BY <1>2, <1>3, <1>4, <1>5, <1>6, <1>7, <1>8, Zenon DEF PostsLast

\* A task about the newest run keeps the strand in order and due, unless it comes after
\* the stop of that run or announces a start again.
LEMMA PostKeepsOrder ==
  ASSUME StrandInv, NEW n \in Nat, NEW k, NEW r, PostsLast(n, k, r),
         NEW q \in Nat, TaskRun(n)' = q,
         starts \in Nat, starts' \in Nat, starts <= starts', q \in 1 .. starts', opened <= q,
         k = "started" => opened < q,
         q = opened => told = opened,
         \A i \in Queued : /\ TaskRun(i) <= q
                           /\ TaskRun(i) = q => strand[i].kind # "stopped" /\ k # "started",
         UNCHANGED <<told, opened>>
  PROVE  TasksInOrder' /\ TasksAreDue'
<1>1. \A i \in Queued : /\ strand'[i] = strand[i] /\ i \in Nat /\ i < n
                        /\ TaskRun(i)' = TaskRun(i)
                        /\ TaskRun(i) \in 1 .. starts
  BY Zenon DEF PostsLast, StrandInv, TasksAreDue
<1>2. Queued' = Queued \cup {n} /\ strand'[n].kind = k
  BY Zenon DEF PostsLast
<1>3. ASSUME NEW i \in Queued', NEW j \in Queued', i < j
      PROVE  /\ TaskRun(i)' <= TaskRun(j)'
             /\ TaskRun(i)' = TaskRun(j)' => strand'[i].kind # "stopped" /\ strand'[j].kind # "started"
  <2>1. i \in Queued
    BY <1>1, <1>2, <1>3
  <2>2. CASE j \in Queued
    BY <1>1, <1>3, <2>1, <2>2, Zenon DEF StrandInv, TasksInOrder
  <2>3. CASE j = n
    BY <1>1, <1>2, <2>1, <2>3, Zenon
  <2> QED  BY <1>2, <2>2, <2>3, Zenon
<1>4. ASSUME NEW i \in Queued'
      PROVE  /\ TaskRun(i)' \in 1 .. starts'
             /\ TaskRun(i)' >= opened'
             /\ strand'[i].kind = "started" => TaskRun(i)' > opened'
             /\ TaskRun(i)' = opened' => told' = opened'
  <2>1. CASE i \in Queued
    BY <1>1, <2>1 DEF StrandInv, TasksAreDue
  <2>2. CASE i = n
    BY <1>2, <2>2, Zenon DEF StrandInv, StrandTypes
  <2> QED  BY <1>2, <2>1, <2>2, Zenon
<1>5. TasksInOrder'
  BY <1>3, Zenon DEF TasksInOrder
<1>6. TasksAreDue'
  BY <1>4, Zenon DEF TasksAreDue
<1> QED  BY <1>5, <1>6, Zenon

\* A connection that was not posted before may be.
LEMMA PostKeepsConnections ==
  ASSUME StrandInv, HandshakesStay, NEW n \in Nat, NEW k, NEW r, PostsLast(n, k, r),
         k = "connection" => /\ r \in Ids /\ given[r] = NoRun
                             /\ stage'[r] \in {"closing", "over"}
                             /\ \A i \in Queued : ~(strand[i].kind = "connection" /\ strand[i].of = r),
         UNCHANGED given
  PROVE  ConnectionsPostedOnce'
<1>1. /\ Queued' = Queued \cup {n} /\ strand'[n].kind = k /\ strand'[n].of = r
      /\ \A i \in Queued : strand'[i] = strand[i]
  BY Zenon DEF PostsLast
<1>2. ASSUME NEW i \in Queued', strand'[i].kind = "connection"
      PROVE  /\ strand'[i].of \in Ids
             /\ stage'[strand'[i].of] \in {"closing", "over"}
             /\ given'[strand'[i].of] = NoRun
             /\ \A j \in Queued' : strand'[j].kind = "connection" /\ strand'[j].of = strand'[i].of => i = j
  <2>1. CASE i \in Queued
    <3>1. /\ strand[i].of \in Ids /\ stage[strand[i].of] \in {"closing", "over"}
          /\ given[strand[i].of] = NoRun
          /\ \A j \in Queued : strand[j].kind = "connection" /\ strand[j].of = strand[i].of => i = j
      BY <1>1, <1>2, <2>1, Zenon DEF StrandInv, ConnectionsPostedOnce
    <3>2. k = "connection" => strand[i].of # r
      BY <1>1, <1>2, <2>1, Zenon
    <3> QED  BY <1>1, <2>1, <3>1, <3>2 DEF HandshakesStay
  <2>2. CASE i = n
    BY <1>1, <1>2, <2>2, Zenon
  <2> QED  BY <1>1, <2>1, <2>2, Zenon
<1>3. \A c \in Ids : stage'[c] \notin {"closing", "over"} => given'[c] = NoRun'
  BY Zenon DEF StrandInv, ConnectionsPostedOnce, HandshakesStay, NoRun
<1> QED  BY <1>2, <1>3, Zenon DEF ConnectionsPostedOnce, NoRun

\* start() posts "started" behind everything about earlier runs.
LEMMA PostStarted ==
  ASSUME ConnectorInv, StrandInv, HandshakesStay,
         starts \in Nat, starts' = starts + 1, starts + 1 \in Runs,
         \A r \in Runs : ~isRunning[r],
         \A r \in Runs : isRunning'[r] <=> r = starts + 1,
         strand' = Append(strand, Started(starts + 1)),
         UNCHANGED <<told, opened, given>>
  PROVE  StrandInv'
<1>1. PICK n \in Nat : PostsLast(n, "started", starts + 1)
  BY PostFacts DEF Started
<1>2. TaskRun(n)' = starts + 1
  BY <1>1, Zenon DEF PostsLast, TaskRun
<1>3. /\ opened \in 0 .. starts /\ told \in {NoRun, opened}
      /\ \A i \in Queued : TaskRun(i) \in 1 .. starts
  BY Zenon DEF StrandInv, StrandTypes, TasksAreDue, Queued
<1>4. StrandTypes'
  BY <1>1 DEF PostsLast, StrandInv, StrandTypes
<1>5. \A i \in Queued : TaskRun(i) <= starts + 1 /\ TaskRun(i) # starts + 1
  BY <1>3
<1>6. TasksInOrder' /\ TasksAreDue'
  BY <1>1, <1>2, <1>3, <1>5, PostKeepsOrder
<1>7. ConnectionsPostedOnce'
  BY <1>1, PostKeepsConnections, Zenon
<1>8. ~Posted("stopped", starts + 1)
  BY <1>3 DEF Posted, TaskRun, StrandInv
<1>9. \A l, q : Posted(l, q)' <=> Posted(l, q) \/ (l = "started" /\ q = starts + 1)
  BY <1>1, Zenon DEF PostsLast
<1>10. \A q \in 1 .. starts' : q > opened => Posted("started", q)'
  BY <1>3, <1>9 DEF StrandInv, ChangesArePosted
<1>11. \A q \in 1 .. starts' :
         ~isRunning'[q] /\ (q > opened \/ (q = opened /\ told = opened)) => Posted("stopped", q)'
  <2>1. \A q \in 1 .. starts' : ~isRunning'[q] => q \in 1 .. starts /\ ~isRunning[q]
    BY BoundsAssumption DEF Runs
  <2> QED  BY <1>9, <2>1, Zenon DEF StrandInv, ChangesArePosted
<1>12. \A q \in Runs : isRunning'[q] => q = starts' /\ ~Posted("stopped", q)' /\ q # opened
  BY <1>3, <1>8, <1>9
<1>13. ChangesArePosted'
  BY <1>10, <1>11, <1>12, Zenon DEF ChangesArePosted, Runs
<1> QED  BY <1>4, <1>6, <1>7, <1>13, Zenon DEF StrandInv

\* stop_impl posts "stopped" behind everything about the run it closes.
LEMMA PostStopped ==
  ASSUME ConnectorInv, StrandInv, HandshakesStay, NEW r \in Runs, isRunning[r],
         isRunning' = [isRunning EXCEPT ![r] = FALSE],
         strand' = Append(strand, Stopped(r)),
         UNCHANGED <<told, opened, given, starts>>
  PROVE  StrandInv'
<1>1. PICK n \in Nat : PostsLast(n, "stopped", r)
  BY PostFacts, BoundsAssumption DEF Stopped, Runs
<1>2. TaskRun(n)' = r
  BY <1>1, Zenon DEF PostsLast, TaskRun
<1>3. /\ starts \in Nat /\ opened \in 0 .. starts /\ told \in {NoRun, opened}
      /\ \A i \in Queued : TaskRun(i) \in 1 .. starts
      /\ r = starts /\ r \in Nat \ {0} /\ ~Posted("stopped", r) /\ (r = opened => told = opened)
      /\ \A q \in Runs : isRunning'[q] <=> isRunning[q] /\ q # r
  BY BoundsAssumption
     DEF ConnectorInv, CoreTypes, StrandInv, StrandTypes, TasksAreDue, ChangesArePosted, Queued, Runs
<1>4. StrandTypes'
  BY <1>1, Zenon DEF PostsLast, StrandInv, StrandTypes
<1>5. \A i \in Queued : TaskRun(i) = r => strand[i].kind # "stopped"
  BY <1>3, Zenon DEF Posted, TaskRun
<1>6. \A i \in Queued : TaskRun(i) <= r
  BY <1>3
<1>7. TasksInOrder' /\ TasksAreDue'
  BY <1>1, <1>2, <1>3, <1>5, <1>6, PostKeepsOrder
<1>8. ConnectionsPostedOnce'
  BY <1>1, PostKeepsConnections, Zenon
<1>9. ChangesArePosted'
  BY <1>1, <1>3, BoundsAssumption DEF PostsLast, StrandInv, ChangesArePosted, Runs, ConnectorInv, CoreTypes
<1> QED  BY <1>4, <1>7, <1>8, <1>9, Zenon DEF StrandInv

\* notify_on_new_connection posts a connection while its run is open, before its "stopped".
LEMMA PostConnection ==
  ASSUME ConnectorInv, StrandInv, NEW c \in Ids, stage[c] = "writing", Running(run[c]),
         stage' = [stage EXCEPT ![c] = "closing"],
         strand' = Append(strand, NewConnection(c)),
         UNCHANGED <<run, told, opened, given, starts, isRunning>>
  PROVE  StrandInv'
<1>r. PICK r : r = run[c]
  BY Zenon
<1>0. /\ r \in Runs /\ isRunning[r]
      /\ c \in Nat
      /\ \A d \in Ids : stage'[d] = IF d = c THEN "closing" ELSE stage[d]
      /\ HandshakesStay
  BY <1>r, BoundsAssumption DEF ConnectorInv, CoreTypes, Running, HandshakesStay, Ids
<1>1. PICK n \in Nat : PostsLast(n, "connection", c)
  BY SMTT(20), <1>0, PostFacts DEF NewConnection
<1>2. TaskRun(n)' = r
  BY ZenonT(30), <1>1, <1>r DEF PostsLast, TaskRun
<1>3. /\ starts \in Nat /\ opened \in 0 .. starts /\ told \in {NoRun, opened}
      /\ \A i \in Queued : TaskRun(i) \in 1 .. starts
      /\ r = starts /\ r \in Nat \ {0} /\ ~Posted("stopped", r) /\ (r = opened => told = opened)
  <2>1. starts \in Nat
    BY BoundsAssumption DEF ConnectorInv, CoreTypes
  <2>2. /\ opened \in 0 .. starts /\ told \in {NoRun, opened}
        /\ \A i \in Queued : TaskRun(i) \in 1 .. starts
    BY Zenon DEF StrandInv, StrandTypes, TasksAreDue
  <2>3. r = starts /\ ~Posted("stopped", r) /\ (r = opened => told = opened)
    BY <1>0, Zenon DEF StrandInv, ChangesArePosted
  <2>4. r \in Nat \ {0}
    BY <1>0, BoundsAssumption DEF Runs
  <2> QED  BY <2>1, <2>2, <2>3, <2>4, Zenon
<1>4. \A i \in Queued : /\ TaskRun(i) = r => strand[i].kind # "stopped"
                        /\ ~(strand[i].kind = "connection" /\ strand[i].of = c)
  BY <1>3, Zenon DEF Posted, TaskRun, StrandInv, ConnectionsPostedOnce
<1>5. given[c] = NoRun
  BY Zenon DEF StrandInv, ConnectionsPostedOnce
<1>6. StrandTypes'
  BY <1>1, Zenon DEF PostsLast, StrandInv, StrandTypes
<1>7. \A i \in Queued : TaskRun(i) <= r
  BY <1>3
<1>8. TasksInOrder' /\ TasksAreDue'
  BY <1>1, <1>2, <1>3, <1>4, <1>7, PostKeepsOrder
<1>9. ConnectionsPostedOnce'
  BY <1>0, <1>1, <1>4, <1>5, PostKeepsConnections, Zenon
<1>10. ChangesArePosted'
  BY <1>1, Zenon DEF PostsLast, StrandInv, ChangesArePosted
<1> QED  BY <1>6, <1>8, <1>9, <1>10, Zenon DEF StrandInv

\* The first task of the strand is the one the contract allows: a start only when the user
\* knows of no open run, and of the next one; a stop or a connection only in its own run.
LEMMA HeadIsAllowed ==
  ASSUME ConnectorInv, StrandInv, strand # <<>>
  PROVE  /\ 1 \in Queued
         /\ strand[1] \in TaskTypes
         /\ strand[1].kind = "started" => told = NoRun /\ TaskRun(1) = opened + 1
         /\ strand[1].kind # "started" => told = opened /\ TaskRun(1) = opened
<1>1. /\ Len(strand) \in Nat /\ 1 \in Queued /\ strand[1] \in TaskTypes
      /\ \A i \in Queued : i \in Nat /\ (i # 1 => 1 < i)
      /\ starts \in Nat /\ opened \in 0 .. starts /\ told \in {NoRun, opened}
      /\ \A i \in Queued : TaskRun(i) \in 1 .. starts
      /\ starts <= MaxRuns
  <2>1. strand \in Seq(TaskTypes) /\ opened \in 0 .. starts /\ told \in {NoRun, opened}
    BY Zenon DEF StrandInv, StrandTypes
  <2>2. Len(strand) \in Nat /\ 1 \in Queued /\ strand[1] \in TaskTypes
    BY <2>1 DEF Queued
  <2>3. \A i \in Queued : i \in Nat /\ (i # 1 => 1 < i)
    BY <2>2 DEF Queued
  <2>4. starts \in Nat /\ starts <= MaxRuns
    BY BoundsAssumption DEF ConnectorInv, CoreTypes
  <2>5. \A i \in Queued : TaskRun(i) \in 1 .. starts
    BY Zenon DEF StrandInv, TasksAreDue
  <2> QED  BY <2>1, <2>2, <2>3, <2>4, <2>5, Zenon
<1>2. \A i \in Queued : i # 1 =>
        /\ TaskRun(1) <= TaskRun(i)
        /\ TaskRun(1) = TaskRun(i) => strand[1].kind # "stopped" /\ strand[i].kind # "started"
  BY <1>1, Zenon DEF StrandInv, TasksInOrder
<1>3. /\ TaskRun(1) >= opened
      /\ strand[1].kind = "started" => TaskRun(1) > opened
      /\ TaskRun(1) = opened => told = opened
  BY <1>1, Zenon DEF StrandInv, TasksAreDue
<1>4. ASSUME strand[1].kind = "started" PROVE told = NoRun /\ TaskRun(1) = opened + 1
  <2>1. TaskRun(1) = opened + 1
    <3>1. opened + 1 \in 1 .. starts /\ opened + 1 > opened
      BY <1>1, <1>3, <1>4
    <3>2. PICK i \in Queued : strand[i].kind = "started" /\ strand[i].of = opened + 1
      BY <3>1, Zenon DEF StrandInv, ChangesArePosted, Posted
    <3>3. TaskRun(i) = opened + 1
      BY <3>2, Zenon DEF TaskRun
    <3> QED  BY <1>1, <1>2, <1>3, <1>4, <3>3
  <2>2. told = NoRun
    <3> SUFFICES ASSUME told # NoRun PROVE FALSE
      BY Zenon
    <3>1. told = opened /\ opened \in 1 .. starts /\ opened # starts
      BY <1>1, <2>1 DEF NoRun
    <3>2. opened \in Runs /\ ~isRunning[opened]
      BY <1>1, <3>1, BoundsAssumption DEF StrandInv, ChangesArePosted, Runs
    <3>3. PICK i \in Queued : strand[i].kind = "stopped" /\ strand[i].of = opened
      BY <3>1, <3>2, Zenon DEF StrandInv, ChangesArePosted, Posted
    <3>4. TaskRun(i) = opened
      BY <3>3, Zenon DEF TaskRun
    <3> QED  BY <1>1, <1>2, <1>4, <2>1, <3>3, <3>4
  <2> QED  BY <2>1, <2>2, Zenon
<1>5. ASSUME strand[1].kind # "started" PROVE told = opened /\ TaskRun(1) = opened
  <2> SUFFICES ASSUME TaskRun(1) > opened PROVE FALSE
    BY <1>1, <1>3
  <2>1. PICK i \in Queued : strand[i].kind = "started" /\ strand[i].of = TaskRun(1)
    BY <1>1, Zenon DEF StrandInv, ChangesArePosted, Posted
  <2>2. TaskRun(i) = TaskRun(1)
    BY <2>1, Zenon DEF TaskRun
  <2> QED  BY <1>2, <1>5, <2>1, <2>2, Zenon
<1> QED  BY <1>1, <1>4, <1>5, Zenon

\* Running the first task leaves the others in their order.
LEMMA TailFacts ==
  ASSUME StrandInv, strand # <<>>, strand' = Tail(strand), UNCHANGED run
  PROVE  /\ Head(strand) = strand[1]
         /\ strand' \in Seq(TaskTypes)
         /\ \A i \in Queued' : /\ i \in Nat /\ i + 1 \in Queued /\ 1 < i + 1
                               /\ strand'[i] = strand[i + 1]
                               /\ TaskRun(i)' = TaskRun(i + 1)
         /\ \A k, r : /\ Posted(k, r)' => Posted(k, r)
                      /\ Posted(k, r) => Posted(k, r)' \/ (strand[1].kind = k /\ strand[1].of = r)
<1>1. strand \in Seq(TaskTypes)
  BY Zenon DEF StrandInv, StrandTypes
<1>2. /\ Head(strand) = strand[1] /\ strand' \in Seq(TaskTypes)
      /\ Len(strand) \in Nat /\ Len(strand') = Len(strand) - 1
      /\ \A i \in 1 .. Len(strand') : strand'[i] = strand[i + 1]
  BY <1>1
<1>3. \A i \in Queued' : i \in Nat /\ i + 1 \in Queued /\ 1 < i + 1 /\ strand'[i] = strand[i + 1]
  BY <1>2 DEF Queued
<1>4. ASSUME NEW i \in Queued' PROVE TaskRun(i)' = TaskRun(i + 1)
  BY <1>3, Zenon DEF TaskRun
<1>5. \A i \in Queued : i = 1 \/ (i - 1 \in Queued' /\ (i - 1) + 1 = i)
  BY <1>2 DEF Queued
<1>6. ASSUME NEW k, NEW r PROVE Posted(k, r)' => Posted(k, r)
  BY <1>3, Zenon DEF Posted
<1>7. ASSUME NEW k, NEW r, Posted(k, r), ~(strand[1].kind = k /\ strand[1].of = r)
      PROVE  Posted(k, r)'
  <2>1. PICK i \in Queued : strand[i].kind = k /\ strand[i].of = r
    BY <1>7, Zenon DEF Posted
  <2>2. i - 1 \in Queued' /\ strand'[i - 1] = strand[i]
    BY <1>3, <1>5, <1>7, <2>1, Zenon
  <2> QED  BY <2>1, <2>2, Zenon DEF Posted
<1> QED  BY <1>2, <1>3, <1>4, <1>6, <1>7, Zenon

\* The strand minus its first task is still in order, and posts each connection once.
LEMMA NotifyKeepsOrder ==
  ASSUME ConnectorInv, StrandInv, Notify
  PROVE  TasksInOrder' /\ ConnectionsPostedOnce' /\ given' \in [Ids -> Nat]
<1>1. /\ strand # <<>> /\ strand' = Tail(strand) /\ UNCHANGED <<run, stage>>
      /\ given' = IF Head(strand).kind = "connection"
                  THEN [given EXCEPT ![Head(strand).of] = run[Head(strand).of]]
                  ELSE given
  BY Zenon DEF Notify
<1>2. /\ Head(strand) = strand[1]
      /\ \A i \in Queued' : /\ i \in Nat /\ i + 1 \in Queued /\ 1 < i + 1
                            /\ strand'[i] = strand[i + 1]
                            /\ TaskRun(i)' = TaskRun(i + 1)
  BY <1>1, TailFacts, Zenon
<1>3. 1 \in Queued
  BY <1>1, HeadIsAllowed, Zenon
<1>4. TasksInOrder'
  <2>1. ASSUME NEW i \in Queued', NEW j \in Queued', i < j
        PROVE  /\ TaskRun(i)' <= TaskRun(j)'
               /\ TaskRun(i)' = TaskRun(j)' => strand'[i].kind # "stopped" /\ strand'[j].kind # "started"
    <3>1. i + 1 \in Queued /\ j + 1 \in Queued /\ i + 1 < j + 1
      BY <1>2, <2>1
    <3> QED  BY <1>2, <3>1, Zenon DEF StrandInv, TasksInOrder
  <2> QED  BY <2>1, Zenon DEF TasksInOrder
<1>5. \A c \in Ids : given'[c] = IF strand[1].kind = "connection" /\ strand[1].of = c THEN run[c] ELSE given[c]
  BY <1>1, <1>2, Zenon DEF StrandInv, StrandTypes
<1>6. given' \in [Ids -> Nat]
  <2>1. \A c \in Ids : run[c] \in Nat
    BY BoundsAssumption DEF ConnectorInv, CoreTypes, Runs, NoRun
  <2>2. strand[1].kind = "connection" => strand[1].of \in Ids
    BY <1>3, Zenon DEF StrandInv, ConnectionsPostedOnce
  <2> QED  BY <1>1, <1>2, <2>1, <2>2, Zenon DEF StrandInv, StrandTypes
<1>7. ConnectionsPostedOnce'
  <2>1. ASSUME NEW i \in Queued', strand'[i].kind = "connection"
        PROVE  /\ strand'[i].of \in Ids
               /\ stage'[strand'[i].of] \in {"closing", "over"}
               /\ given'[strand'[i].of] = NoRun
               /\ \A j \in Queued' : strand'[j].kind = "connection" /\ strand'[j].of = strand'[i].of => i = j
    <3> DEFINE m == i + 1
    <3>1. /\ m \in Queued /\ m # 1 /\ strand'[i] = strand[m] /\ i \in Nat
      BY <1>2
    <3>2. /\ strand[m].of \in Ids /\ stage[strand[m].of] \in {"closing", "over"}
          /\ given[strand[m].of] = NoRun
          /\ \A j \in Queued : strand[j].kind = "connection" /\ strand[j].of = strand[m].of => m = j
      BY <2>1, <3>1, Zenon DEF StrandInv, ConnectionsPostedOnce
    <3>3. given'[strand[m].of] = NoRun
      BY <1>3, <1>5, <3>1, <3>2, Zenon
    <3>4. ASSUME NEW j \in Queued', strand'[j].kind = "connection", strand'[j].of = strand'[i].of PROVE i = j
      <4>1. j \in Nat /\ j + 1 \in Queued /\ strand'[j] = strand[j + 1]
        BY <1>2, Zenon
      <4>2. m = j + 1
        BY <3>1, <3>2, <3>4, <4>1, Zenon
      <4> QED  BY <3>1, <4>1, <4>2
    <3> QED  BY <1>1, <3>1, <3>2, <3>3, <3>4, Zenon
  <2>2. ASSUME NEW c \in Ids, stage'[c] \notin {"closing", "over"} PROVE given'[c] = NoRun
    BY <1>1, <1>3, <1>5, <2>2, Zenon DEF StrandInv, ConnectionsPostedOnce
  <2> QED  BY <2>1, <2>2, Zenon DEF ConnectionsPostedOnce, NoRun
<1> QED  BY <1>4, <1>6, <1>7, Zenon

\* Running the first task keeps the invariant.
LEMMA NotifyStep == ASSUME ConnectorInv, StrandInv, Notify PROVE StrandInv'
<1>1. /\ strand # <<>> /\ strand' = Tail(strand) /\ UNCHANGED <<run, starts, isRunning>>
      /\ told' = CASE Head(strand).kind = "started" -> Head(strand).of
                   [] Head(strand).kind = "stopped" -> NoRun
                   [] OTHER -> told
      /\ opened' = IF Head(strand).kind = "started" THEN Head(strand).of ELSE opened
  BY Zenon DEF Notify
<1>2. /\ Head(strand) = strand[1] /\ strand' \in Seq(TaskTypes)
      /\ \A i \in Queued' : /\ i \in Nat /\ i + 1 \in Queued /\ 1 < i + 1
                            /\ strand'[i] = strand[i + 1]
                            /\ TaskRun(i)' = TaskRun(i + 1)
      /\ \A k, r : /\ Posted(k, r)' => Posted(k, r)
                   /\ Posted(k, r) => Posted(k, r)' \/ (strand[1].kind = k /\ strand[1].of = r)
  BY <1>1, TailFacts, Zenon
<1>3. /\ 1 \in Queued /\ strand[1].kind \in {"started", "stopped", "connection"}
      /\ strand[1].kind = "started" => told = NoRun /\ TaskRun(1) = opened + 1
      /\ strand[1].kind # "started" => told = opened /\ TaskRun(1) = opened
  BY <1>1, HeadIsAllowed, Zenon DEF TaskTypes
<1>4. /\ starts \in Nat /\ opened \in 0 .. starts /\ TaskRun(1) \in 1 .. starts
      /\ strand[1].kind # "connection" => TaskRun(1) = strand[1].of
  <2>1. starts \in Nat
    BY BoundsAssumption DEF ConnectorInv, CoreTypes
  <2>2. opened \in 0 .. starts /\ TaskRun(1) \in 1 .. starts
    BY <1>3, Zenon DEF StrandInv, StrandTypes, TasksAreDue
  <2>3. strand[1].kind # "connection" => TaskRun(1) = strand[1].of
    BY Zenon DEF TaskRun
  <2> QED  BY <2>1, <2>2, <2>3, Zenon
<1>5. \A i \in Queued' :
        /\ TaskRun(i)' \in 1 .. starts
        /\ TaskRun(i)' >= TaskRun(1)
        /\ TaskRun(i)' = TaskRun(1) => strand[1].kind # "stopped" /\ strand'[i].kind # "started"
  BY <1>2, <1>3 DEF StrandInv, TasksInOrder, TasksAreDue
<1>6. TasksInOrder' /\ ConnectionsPostedOnce' /\ given' \in [Ids -> Nat]
  BY NotifyKeepsOrder, Zenon
<1>7. \A r \in Runs : isRunning[r] => r = starts /\ ~Posted("stopped", r) /\ (r = opened => told = opened)
  BY Zenon DEF StrandInv, ChangesArePosted
<1>8. /\ \A r \in 1 .. starts : r > opened => Posted("started", r)
      /\ \A r \in 1 .. starts :
           ~isRunning[r] /\ (r > opened \/ (r = opened /\ told = opened)) => Posted("stopped", r)
  BY Zenon DEF StrandInv, ChangesArePosted
<1>9. CASE strand[1].kind = "started"
  <2>1. told' = opened + 1 /\ opened' = opened + 1 /\ strand[1].of = opened + 1
    BY <1>1, <1>2, <1>3, <1>4, <1>9, Zenon
  <2>2. StrandTypes'
    BY <1>1, <1>2, <1>3, <1>4, <1>6, <1>9, <2>1 DEF StrandTypes
  <2>3. TasksAreDue'
    <3>1. ASSUME NEW i \in Queued'
          PROVE  /\ TaskRun(i)' \in 1 .. starts
                 /\ TaskRun(i)' >= opened + 1
                 /\ strand'[i].kind = "started" => TaskRun(i)' > opened + 1
      <4>1. TaskRun(1) = opened + 1 /\ opened \in Nat /\ starts \in Nat
        BY <1>3, <1>4, <1>9
      <4>2. /\ TaskRun(i)' \in 1 .. starts
            /\ TaskRun(i)' >= TaskRun(1)
            /\ strand'[i].kind = "started" => TaskRun(i)' # TaskRun(1)
        BY <1>5, Zenon
      <4> QED  BY <4>1, <4>2
    <3> QED  BY <1>1, <2>1, <3>1, Zenon DEF TasksAreDue
  <2>4. ChangesArePosted'
    BY <1>1, <1>2, <1>4, <1>7, <1>8, <1>9, <2>1 DEF ChangesArePosted, Runs
  <2> QED  BY <1>6, <2>2, <2>3, <2>4, Zenon DEF StrandInv
<1>10. CASE strand[1].kind = "stopped"
  <2>1. told' = NoRun /\ opened' = opened /\ strand[1].of = opened /\ opened # 0
    BY <1>1, <1>2, <1>3, <1>4, <1>10
  <2>2. StrandTypes'
    BY <1>1, <1>2, <1>4, <1>6, <2>1, Zenon DEF StrandTypes
  <2>3. TasksAreDue'
    BY <1>1, <1>3, <1>4, <1>5, <1>10, <2>1 DEF TasksAreDue
  <2>4. Posted("stopped", opened)
    BY <1>3, <1>10, <2>1, Zenon DEF Posted
  <2>5. ChangesArePosted'
    BY <1>1, <1>2, <1>4, <1>7, <1>8, <1>10, <2>1, <2>4 DEF ChangesArePosted, Runs, NoRun
  <2> QED  BY <1>6, <2>2, <2>3, <2>5, Zenon DEF StrandInv
<1>11. CASE strand[1].kind = "connection"
  <2>1. told' = told /\ opened' = opened /\ told = opened
    BY <1>1, <1>2, <1>3, <1>11, Zenon
  <2>2. StrandTypes'
    BY <1>1, <1>2, <1>4, <1>6, <2>1, Zenon DEF StrandTypes
  <2>3. TasksAreDue'
    BY <1>1, <1>2, <1>4, <2>1, Zenon DEF TasksAreDue, StrandInv
  <2>4. ChangesArePosted'
    BY <1>1, <1>2, <1>4, <1>7, <1>8, <1>11, <2>1 DEF ChangesArePosted, Runs
  <2> QED  BY <1>6, <2>2, <2>3, <2>4, Zenon DEF StrandInv
<1> QED  BY <1>3, <1>9, <1>10, <1>11, Zenon

\* A call of stop(), or a wait that failed, closes its run or nothing.
LEMMA StopImplPosts ==
  ASSUME ConnectorInv, StrandInv, NEW r \in Runs \cup {NoRun}, NEW stages \in [Ids -> Stages],
         \A c \in Ids : stages[c] = stage[c] \/ (stage[c] = "refused" /\ stages[c] = "failed"),
         StopImpl(r, stages), UNCHANGED <<starts, run, told, opened, given>>
  PROVE  StrandInv'
<1>1. \A c \in Ids : stages[c] \in {"closing", "over"} => stage'[c] = stages[c]
  BY Zenon DEF StopImpl
<1>2. HandshakesStay
  BY <1>1, Zenon DEF HandshakesStay
<1>3. CASE Running(r)
  <2>1. /\ r \in Runs /\ isRunning[r]
        /\ isRunning' = [isRunning EXCEPT ![r] = FALSE]
        /\ strand' = Append(strand, Stopped(r))
    BY <1>3, Zenon DEF Running, StopImpl
  <2> QED  BY <1>2, <2>1, PostStopped, Zenon
<1>4. CASE ~Running(r)
  BY <1>2, <1>4, QuietStep, Zenon DEF StopImpl
<1> QED  BY <1>3, <1>4, Zenon

\* start() opens a run, asks for a pipe and posts its "started".
LEMMA StartPosts == ASSUME ConnectorInv, StrandInv, Start PROVE StrandInv'
<1> USE BoundsAssumption
<1>1. \A r \in Runs : ~isRunning[r]
  BY DEF Start, ConnectorInv, CoreTypes, RunsInOrder, Running, Runs, NoRun
<1>2. /\ starts \in Nat /\ starts' = starts + 1 /\ starts + 1 \in Runs
      /\ \A r \in Runs : isRunning'[r] <=> r = starts + 1
      /\ strand' = Append(strand, Started(starts + 1))
      /\ UNCHANGED <<told, opened, given>>
  BY <1>1 DEF Start, ConnectorInv, CoreTypes, Runs
<1>3. HandshakesStay
  BY DEF Start, StartPipeConnect, HandshakesStay, ConnectorInv, CoreTypes, RunsInOrder, Ids
<1> QED  BY <1>1, <1>2, <1>3, PostStarted, Zenon

\* A continuation of a handshake, or of a wait, moves on without touching the strand.
LEMMA StageMoves ==
  ASSUME ConnectorInv, StrandInv, NEW c \in Ids, NEW s,
         stage' = [stage EXCEPT ![c] = s], stage[c] \notin {"closing", "over"} \/ s = "over",
         UNCHANGED <<run, strand, told, opened, given, starts, isRunning>>
  PROVE  StrandInv'
<1>1. HandshakesStay
  BY Zenon DEF HandshakesStay, ConnectorInv, CoreTypes
<1> QED  BY <1>1, QuietStep, Zenon

\* Every step of the server keeps what the strand must hold.
LEMMA StrandStep == ConnectorInv /\ StrandInv /\ [Next]_vars => StrandInv'
<1> SUFFICES ASSUME ConnectorInv, StrandInv, [Next]_vars PROVE StrandInv'
  BY Zenon
<1>1. ASSUME NEW s \in Stoppers, EndStop(s) PROVE StrandInv'
  <2>1. stopCalls[s] \in Runs \cup {NoRun} /\ stage \in [Ids -> Stages]
    BY <1>1, Zenon DEF EndStop, ConnectorInv, CoreTypes
  <2> QED  BY <1>1, <2>1, StopImplPosts, Zenon DEF EndStop
<1>2. ASSUME NEW c \in Ids, OnPipeFailure(c) PROVE StrandInv'
  <2>1. /\ run[c] \in Runs \cup {NoRun}
        /\ [stage EXCEPT ![c] = "failed"] \in [Ids -> Stages]
        /\ \A d \in Ids : [stage EXCEPT ![c] = "failed"][d] = IF d = c THEN "failed" ELSE stage[d]
    BY Zenon DEF ConnectorInv, CoreTypes, Stages
  <2> QED  BY <1>2, <2>1, StopImplPosts, Zenon DEF OnPipeFailure
<1>3. ASSUME NEW c \in Ids, OnPipe(c) PROVE StrandInv'
  <2>1. HandshakesStay
    BY <1>3, BoundsAssumption
       DEF OnPipe, StartPipeConnect, HandshakesStay, ConnectorInv, CoreTypes, RunsInOrder, Ids
  <2> QED  BY <1>3, <2>1, QuietStep, Zenon DEF OnPipe
<1>4. ASSUME NEW c \in Ids, PipeFails(c) \/ PipeConnects(c) PROVE StrandInv'
  BY <1>4, StageMoves, Zenon DEF PipeFails, PipeConnects
<1>5. ASSUME NEW c \in Ids, EraseConnectionFuture(c) PROVE StrandInv'
  BY <1>5, StageMoves, Zenon DEF EraseConnectionFuture
<1>6. ASSUME NEW c \in Ids, NEW ok \in BOOLEAN, HandshakeRead(c, ok) PROVE StrandInv'
  BY <1>6, StageMoves, Zenon DEF HandshakeRead
<1>7. ASSUME NEW c \in Ids, NEW ok \in BOOLEAN, HandshakeWrite(c, ok) PROVE StrandInv'
  <2>1. CASE ok /\ Running(run[c])
    BY <1>7, <2>1, PostConnection, Zenon DEF HandshakeWrite, Announce
  <2>2. CASE ~(ok /\ Running(run[c]))
    BY <1>7, <2>2, StageMoves, Zenon DEF HandshakeWrite, Announce
  <2> QED  BY <2>1, <2>2, Zenon
<1>8. ASSUME UNCHANGED <<run, stage, strand, told, opened, given, starts, isRunning>> PROVE StrandInv'
  <2>1. HandshakesStay
    BY <1>8, Zenon DEF HandshakesStay
  <2> QED  BY <1>8, <2>1, QuietStep, Zenon
<1>9. ASSUME NEW s \in Stoppers, BeginStop(s) PROVE StrandInv'
  BY <1>8, <1>9, Zenon DEF BeginStop
<1>10. ASSUME ConnectorStep PROVE StrandInv'
  BY <1>1, <1>2, <1>3, <1>4, <1>5, <1>6, <1>7, <1>9, <1>10, StartPosts, Zenon
     DEF ConnectorStep, StartListening, StopListening, Background
<1>11. ASSUME RunNotification PROVE StrandInv'
  BY <1>11, NotifyStep, Zenon DEF RunNotification
<1>12. ASSUME EndpointStep PROVE StrandInv'
  <2>1. ASSUME Release PROVE StrandInv'
    BY <1>9, <2>1, DestructorStops, Zenon DEF Release
  <2>2. ASSUME NEW c \in Ids, RunDisconnectCallback(c) \/ OnDisconnect(c) \/ TellUser(c) PROVE StrandInv'
    BY <1>8, <2>2, Zenon DEF RunDisconnectCallback, OnDisconnect, TellUser, connectorVars
  <2> QED  BY <1>12, <2>1, <2>2, Zenon DEF EndpointStep
<1>13. ASSUME Finalize \/ (\E c \in Ids : PipeIsLost(c)) PROVE StrandInv'
  BY <1>8, <1>13, Zenon DEF Finalize, PipeIsLost, connectorVars
<1>14. CASE UNCHANGED vars
  BY <1>8, <1>14, Zenon DEF vars, connectorVars
<1> QED  BY <1>10, <1>11, <1>12, <1>13, <1>14, Zenon DEF Next

\* The strand holds what the user is still to be told, in every reachable state.
THEOREM StrandInvariance == Spec => []StrandInv
  BY InitStrand, StrandStep, Invariance, PTL DEF Spec

\* The user's view before anything was told is an initial state of the contract.
LEMMA RefinesInit == Init => Listener!Init
  BY Zenon DEF Init, ConnectorInit, Listener!Init, NoRun

\* Running a task of the strand is a step of the contract.
LEMMA NotifyRefines == ASSUME ConnectorInv, StrandInv, Notify PROVE Listener!Next
<1>1. /\ strand # <<>> /\ UNCHANGED run
      /\ told' = CASE Head(strand).kind = "started" -> Head(strand).of
                   [] Head(strand).kind = "stopped" -> NoRun
                   [] OTHER -> told
      /\ opened' = IF Head(strand).kind = "started" THEN Head(strand).of ELSE opened
      /\ given' = IF Head(strand).kind = "connection"
                  THEN [given EXCEPT ![Head(strand).of] = run[Head(strand).of]]
                  ELSE given
      /\ strand' = Tail(strand)
  BY Zenon DEF Notify
<1>2. Head(strand) = strand[1]
  BY <1>1, TailFacts, Zenon
<1>3. /\ 1 \in Queued /\ strand[1].kind \in {"started", "stopped", "connection"}
      /\ strand[1].kind = "started" => told = NoRun /\ TaskRun(1) = opened + 1
      /\ strand[1].kind # "started" => told = opened /\ TaskRun(1) = opened
  BY <1>1, HeadIsAllowed, Zenon DEF TaskTypes
<1>4. TaskRun(1) # 0 /\ NoRun = 0
  BY <1>3 DEF StrandInv, TasksAreDue, NoRun
<1>5. CASE strand[1].kind = "started"
  BY <1>1, <1>2, <1>3, <1>4, <1>5, Zenon DEF TaskRun, Listener!Next, Listener!Started
<1>6. CASE strand[1].kind = "stopped"
  BY <1>1, <1>2, <1>3, <1>4, <1>6, Zenon DEF TaskRun, Listener!Next, Listener!Stopped
<1>7. CASE strand[1].kind = "connection"
  <2>1. strand[1].of \in Ids /\ given[strand[1].of] = 0 /\ run[strand[1].of] = told /\ told # 0
    BY <1>3, <1>4, <1>7, Zenon DEF TaskRun, StrandInv, ConnectionsPostedOnce
  <2>2. Listener!NewConnection(strand[1].of)
    BY <1>1, <1>2, <1>7, <2>1, Zenon DEF Listener!NewConnection
  <2> QED  BY <2>1, <2>2, Zenon DEF Listener!Next
<1> QED  BY <1>3, <1>5, <1>6, <1>7, Zenon

\* Every step of the server is a step of the contract or leaves the user's view alone.
LEMMA RefinesNext ==
  ConnectorInv /\ StrandInv /\ [Next]_vars => [Listener!Next]_(Listener!eventVars)
<1> SUFFICES ASSUME ConnectorInv, StrandInv, [Next]_vars
             PROVE  Listener!Next \/ UNCHANGED <<told, opened, given>>
  BY Zenon DEF Listener!eventVars
<1>1. ASSUME ConnectorStep PROVE UNCHANGED <<told, opened, given>>
  BY <1>1, Zenon DEF ConnectorStep, StartListening, Start, StopListening, BeginStop, EndStop, Background,
     PipeFails, PipeConnects, OnPipe, OnPipeFailure, HandshakeRead, HandshakeWrite, EraseConnectionFuture
<1>2. ASSUME RunNotification PROVE Listener!Next
  BY <1>2, NotifyRefines, Zenon DEF RunNotification
<1>3. ASSUME EndpointStep \/ Finalize \/ (\E c \in Ids : PipeIsLost(c)) \/ UNCHANGED vars
      PROVE  UNCHANGED <<told, opened, given>>
  BY <1>3, Zenon DEF EndpointStep, Release, BeginStop, RunDisconnectCallback, OnDisconnect, TellUser,
     Finalize, PipeIsLost, vars, connectorVars
<1> QED  BY <1>1, <1>2, <1>3, Zenon DEF Next

\* server_connector keeps the contract of its two callbacks for any number of runs,
\* connections and stopping threads: "started" and "stopped" alternate, no run is skipped, and
\* each connection is given at most once, in the run that accepted it and while the user
\* believes that run open.
THEOREM ListenerRefinement == Spec => ImplementsListener
<1>1. Spec => Listener!Init
  BY RefinesInit, Zenon DEF Spec
<1>2. Spec => [][Listener!Next]_(Listener!eventVars)
  BY RefinesNext, Invariance, StrandInvariance, PTL DEF Spec
<1> QED  BY <1>1, <1>2, Zenon DEF ImplementsListener, Listener!Spec

-----------------------------------------------------------------------------
(* The endpoints of the server.  A connection's history is told by its     *)
(* disconnect callback: not given yet, stored in the pipe, posted and run  *)
(* when the pipe is down, and over when the user's notification is posted. *)

\* What the user was told or will be told of a connection: its beginning before its end
Reported(c) ==
  CASE disconnect[c] = "none" -> seen[c] = <<>> /\ connStrand[c] = <<>>
    [] disconnect[c] = "over" ->
         \/ seen[c] = <<>> /\ connStrand[c] = <<"connected", "disconnected">>
         \/ seen[c] = <<"connected">> /\ connStrand[c] = <<"disconnected">>
         \/ seen[c] = <<"connected", "disconnected">> /\ connStrand[c] = <<>>
    [] OTHER ->
         \/ seen[c] = <<>> /\ connStrand[c] = <<"connected">>
         \/ seen[c] = <<"connected">> /\ connStrand[c] = <<>>

EndpointTypes ==
  /\ owner \in {"alive", "finalized", "released"}
  /\ endpoints \subseteq Ids
  /\ pipe \in [Ids -> {"up", "down"}]
  /\ disconnect \in [Ids -> {"none", "stored", "posted", "promised", "over"}]
  /\ connStrand \in [Ids -> Seq(States)]
  /\ seen \in [Ids -> Seq(States)]
  /\ given \in [Ids -> Runs \cup {NoRun}]

\* A callback is stored only in a pipe that is up, under an endpoint that is in the map;
\* an endpoint is in the map from the first notification to the last
EndpointsMatch(c) ==
  /\ given[c] = NoRun => disconnect[c] = "none"
  /\ disconnect[c] = "stored" <=> pipe[c] = "up" /\ disconnect[c] # "none"
  /\ disconnect[c] = "stored" => c \in endpoints
  /\ c \in endpoints => disconnect[c] \in {"stored", "posted", "promised"}

EndpointInv ==
  /\ EndpointTypes
  /\ owner = "released" => endpoints = {}
  /\ \A c \in Ids : EndpointsMatch(c) /\ Reported(c)

\* A server that was just constructed has no endpoints and has told nothing.
LEMMA InitEndpoint == Init => EndpointInv
  BY DEF Init, ConnectorInit, EndpointInv, EndpointTypes, EndpointsMatch, Reported, NoRun, States

\* Queues of a connection's strand, which hold at most its two notifications.
LEMMA ShortQueues ==
  ASSUME NEW a, NEW b
  PROVE  /\ Append(<<>>, a) = <<a>> /\ Append(<<a>>, b) = <<a, b>>
         /\ Head(<<a>>) = a /\ Tail(<<a>>) = <<>>
         /\ Head(<<a, b>>) = a /\ Tail(<<a, b>>) = <<b>>
         /\ <<a>> # <<>> /\ <<a, b>> # <<>> /\ <<a>> # <<a, b>>
<1>1. Len(<<>>) = 0 /\ Len(<<a>>) = 1 /\ Len(<<a, b>>) = 2
  BY Zenon
<1>2. Append(<<>>, a) = <<a>>
  OBVIOUS
<1>3. Append(<<a>>, b) = <<a, b>>
  <2> DEFINE s == Append(<<a>>, b)
  <2>1. <<a>> \in Seq({a, b}) /\ b \in {a, b}
    OBVIOUS
  <2>2. s \in Seq({a, b}) /\ Len(s) = 2 /\ s[1] = a /\ s[2] = b
    BY <1>1, <2>1
  <2> HIDE DEF s
  <2>3. s = <<s[1], s[2]>>
    BY <2>2
  <2> QED  BY <2>2, <2>3, Zenon DEF s
<1>4. Head(<<a>>) = a /\ Head(<<a, b>>) = a
  OBVIOUS
<1>5. Tail(<<a>>) = <<>>
  OBVIOUS
<1>6. Tail(<<a, b>>) = <<b>>
  OBVIOUS
<1> QED  BY <1>1, <1>2, <1>3, <1>4, <1>5, <1>6, Zenon

\* The values that the queue and the log of a connection can have, and how they follow each other.
LEMMA Reports ==
  /\ <<>> \in Seq(States) /\ <<"connected">> \in Seq(States) /\ <<"disconnected">> \in Seq(States)
  /\ <<"connected", "disconnected">> \in Seq(States)
  /\ Append(<<>>, "connected") = <<"connected">> /\ Append(<<>>, "disconnected") = <<"disconnected">>
  /\ Append(<<"connected">>, "disconnected") = <<"connected", "disconnected">>
  /\ Head(<<"connected">>) = "connected" /\ Tail(<<"connected">>) = <<>>
  /\ Head(<<"disconnected">>) = "disconnected" /\ Tail(<<"disconnected">>) = <<>>
  /\ Head(<<"connected", "disconnected">>) = "connected"
  /\ Tail(<<"connected", "disconnected">>) = <<"disconnected">>
<1>1. /\ <<>> \in Seq(States) /\ <<"connected">> \in Seq(States) /\ <<"disconnected">> \in Seq(States)
      /\ <<"connected", "disconnected">> \in Seq(States)
  BY DEF States
<1> QED  BY ONLY <1>1, ShortQueues

\* Pipes that go down post the callbacks that they hold.
LEMMA GoDownStep ==
  ASSUME EndpointInv, NEW S \in SUBSET Ids, GoDown(S), UNCHANGED <<seen, connStrand>>,
         given' \in [Ids -> Runs \cup {NoRun}],
         \A c \in Ids : given'[c] = NoRun => given[c] = NoRun,
         owner' \in {"alive", "finalized", "released"},
         \/ endpoints' = endpoints /\ (owner' = "released" => owner = "released")
         \/ endpoints' = {} /\ S = endpoints
  PROVE  EndpointInv'
<1>1. EndpointTypes'
  BY Zenon DEF EndpointInv, EndpointTypes, GoDown
<1>2. owner' = "released" => endpoints' = {}
  BY Zenon DEF EndpointInv
<1>3. ASSUME NEW c \in Ids PROVE EndpointsMatch(c)'
  BY Zenon DEF EndpointInv, EndpointTypes, EndpointsMatch, GoDown
<1>4. ASSUME NEW c \in Ids PROVE Reported(c)'
  BY Zenon DEF EndpointInv, EndpointTypes, Reported, GoDown
<1> QED  BY <1>1, <1>2, <1>3, <1>4, Zenon DEF EndpointInv

\* A connection is processed once, so that it had no endpoint and nothing was told of it.
LEMMA NotificationStep ==
  ASSUME ConnectorInv, StrandInv, EndpointInv, RunNotification
  PROVE  EndpointInv'
<1>1. /\ strand # <<>> /\ UNCHANGED <<run, owner, seen>>
      /\ given' = IF Head(strand).kind = "connection"
                  THEN [given EXCEPT ![Head(strand).of] = run[Head(strand).of]]
                  ELSE given
      /\ strand' = Tail(strand)
  BY Zenon DEF RunNotification, Notify
<1>2. Head(strand) = strand[1] /\ 1 \in Queued
  BY <1>1, TailFacts, HeadIsAllowed, Zenon
<1>3. CASE Head(strand).kind # "connection"
  <2>1. UNCHANGED <<owner, endpoints, pipe, disconnect, connStrand, seen, given>>
    BY <1>1, <1>3, Zenon DEF RunNotification
  <2> QED  BY <2>1 DEF EndpointInv, EndpointTypes, EndpointsMatch, Reported
<1>4. CASE Head(strand).kind = "connection"
  <2>1. PICK c \in Ids : c = Head(strand).of /\ given[c] = NoRun
    BY <1>2, <1>4, Zenon DEF StrandInv, ConnectionsPostedOnce
  <2>2. /\ run[c] \in Runs \cup {NoRun}
        /\ given' = [given EXCEPT ![c] = run[c]]
        /\ ProcessNewConnection(c)
    BY <1>1, <1>4, <2>1, Zenon DEF RunNotification, ConnectorInv, CoreTypes
  <2>3. run[c] # NoRun
    <3>1. TaskRun(1) = run[c] /\ TaskRun(1) \in 1 .. starts
      BY <1>2, <1>4, <2>1, Zenon DEF TaskRun, StrandInv, TasksAreDue
    <3> QED  BY <3>1 DEF NoRun
  <2>4. /\ given' \in [Ids -> Runs \cup {NoRun}]
        /\ \A d \in Ids : given'[d] = NoRun => given[d] = NoRun /\ d # c
    BY <2>1, <2>2, <2>3, Zenon DEF EndpointInv, EndpointTypes
  <2>5. disconnect[c] = "none" /\ seen[c] = <<>> /\ connStrand[c] = <<>>
    BY <2>1, Zenon DEF EndpointInv, EndpointsMatch, Reported
  <2>6. CASE owner # "alive"
    <3>1. GoDown({c}) /\ UNCHANGED <<endpoints, connStrand>>
      BY <2>2, <2>6, Zenon DEF ProcessNewConnection
    <3>2. owner' \in {"alive", "finalized", "released"} /\ {c} \in SUBSET Ids
      BY <1>1, Zenon DEF EndpointInv, EndpointTypes
    <3> QED  BY <1>1, <2>4, <3>1, <3>2, GoDownStep, Zenon
  <2>7. CASE owner = "alive"
    <3>1. /\ disconnect' = [disconnect EXCEPT ![c] = IF pipe[c] = "up" THEN "stored" ELSE "posted"]
          /\ endpoints' = endpoints \cup {c}
          /\ connStrand' = [connStrand EXCEPT ![c] = Append(@, "connected")]
          /\ UNCHANGED pipe
      BY <2>2, <2>7, Zenon DEF ProcessNewConnection
    <3>2. connStrand'[c] = <<"connected">>
      BY <2>5, <3>1, ShortQueues, Zenon DEF EndpointInv, EndpointTypes
    <3>3. EndpointTypes'
      <4>1. connStrand' \in [Ids -> Seq(States)]
        BY <3>1, <3>2, Reports, Zenon DEF EndpointInv, EndpointTypes
      <4> QED  BY <1>1, <2>4, <3>1, <4>1, Zenon DEF EndpointInv, EndpointTypes
    <3>4. ASSUME NEW d \in Ids PROVE EndpointsMatch(d)'
      BY <2>4, <2>5, <3>1, Zenon DEF EndpointInv, EndpointTypes, EndpointsMatch
    <3>5. ASSUME NEW d \in Ids PROVE Reported(d)'
      <4>1. CASE d = c
        <5>1. disconnect'[c] \in {"stored", "posted"}
          BY <3>1, Zenon DEF EndpointInv, EndpointTypes
        <5> QED  BY <1>1, <2>5, <3>2, <4>1, <5>1, Zenon DEF Reported
      <4>2. CASE d # c
        BY <1>1, <3>1, <4>2, Zenon DEF EndpointInv, EndpointTypes, Reported
      <4> QED  BY <4>1, <4>2, Zenon
    <3> QED  BY <1>1, <2>7, <3>3, <3>4, <3>5, Zenon DEF EndpointInv
  <2> QED  BY <2>6, <2>7, Zenon
<1> QED  BY <1>3, <1>4, Zenon

\* The disconnect callback, its continuation and the strand of a connection, one after the other.
LEMMA DisconnectStep ==
  ASSUME EndpointInv, NEW c \in Ids, RunDisconnectCallback(c) \/ OnDisconnect(c) \/ TellUser(c)
  PROVE  EndpointInv'
<1>0. UNCHANGED given
  BY Zenon DEF RunDisconnectCallback, OnDisconnect, TellUser, connectorVars
<1>1. CASE RunDisconnectCallback(c)
  <2>1. EndpointTypes' /\ (owner' = "released" => endpoints' = {})
    BY <1>0, <1>1, Zenon DEF RunDisconnectCallback, EndpointInv, EndpointTypes
  <2>2. ASSUME NEW d \in Ids PROVE EndpointsMatch(d)' /\ Reported(d)'
    BY <1>0, <1>1, Zenon DEF RunDisconnectCallback, EndpointInv, EndpointTypes, EndpointsMatch, Reported
  <2> QED  BY <2>1, <2>2, Zenon DEF EndpointInv
<1>2. CASE OnDisconnect(c)
  <2>1. /\ disconnect[c] = "promised"
        /\ \/ seen[c] = <<>> /\ connStrand'[c] = <<"connected", "disconnected">>
           \/ seen[c] = <<"connected">> /\ connStrand'[c] = <<"disconnected">>
    BY <1>2, Reports, Zenon DEF OnDisconnect, EndpointInv, EndpointTypes, Reported
  <2>2. EndpointTypes' /\ (owner' = "released" => endpoints' = {})
    <3>1. connStrand' \in [Ids -> Seq(States)]
      BY <1>2, <2>1, Reports, Zenon DEF OnDisconnect, EndpointInv, EndpointTypes
    <3> QED  BY <1>0, <1>2, <3>1, Zenon DEF OnDisconnect, EndpointInv, EndpointTypes
  <2>3. ASSUME NEW d \in Ids PROVE EndpointsMatch(d)'
    BY <1>0, <1>2, Zenon DEF OnDisconnect, EndpointInv, EndpointTypes, EndpointsMatch
  <2>4. ASSUME NEW d \in Ids PROVE Reported(d)'
    <3>1. CASE d = c
      <4>1. disconnect'[c] = "over" /\ UNCHANGED seen
        BY <1>2, Zenon DEF OnDisconnect, EndpointInv, EndpointTypes
      <4> QED  BY <2>1, <3>1, <4>1, Zenon DEF Reported
    <3>2. CASE d # c
      BY <1>2, <3>2, Zenon DEF OnDisconnect, EndpointInv, EndpointTypes, Reported
    <3> QED  BY <3>1, <3>2, Zenon
  <2> QED  BY <2>2, <2>3, <2>4, Zenon DEF EndpointInv
<1>3. CASE TellUser(c)
  <2>1. /\ connStrand[c] # <<>>
        /\ seen'[c] = Append(seen[c], Head(connStrand[c]))
        /\ connStrand'[c] = Tail(connStrand[c])
        /\ \A d \in Ids \ {c} : seen'[d] = seen[d] /\ connStrand'[d] = connStrand[d]
        /\ UNCHANGED <<owner, endpoints, pipe, disconnect>>
    BY <1>3, Zenon DEF TellUser, EndpointInv, EndpointTypes
  <2>2. Reported(c)'
    <3>1. Reported(c)
      BY Zenon DEF EndpointInv
    <3>2. CASE /\ disconnect[c] \notin {"none", "over"}
               /\ seen[c] = <<>> /\ connStrand[c] = <<"connected">>
      <4>1. seen'[c] = <<"connected">> /\ connStrand'[c] = <<>> /\ disconnect'[c] = disconnect[c]
        BY <2>1, <3>2, Reports, Zenon
      <4> QED  BY <3>2, <4>1, Zenon DEF Reported
    <3>3. CASE /\ disconnect[c] = "over"
               /\ seen[c] = <<>> /\ connStrand[c] = <<"connected", "disconnected">>
      <4>1. seen'[c] = <<"connected">> /\ connStrand'[c] = <<"disconnected">> /\ disconnect'[c] = disconnect[c]
        BY <2>1, <3>3, Reports, Zenon
      <4> QED  BY <3>3, <4>1, Zenon DEF Reported
    <3>4. CASE /\ disconnect[c] = "over"
               /\ seen[c] = <<"connected">> /\ connStrand[c] = <<"disconnected">>
      <4>1. seen'[c] = <<"connected", "disconnected">> /\ connStrand'[c] = <<>> /\ disconnect'[c] = disconnect[c]
        BY <2>1, <3>4, Reports, Zenon
      <4> QED  BY <3>4, <4>1, Zenon DEF Reported
    <3> QED  BY <2>1, <3>1, <3>2, <3>3, <3>4, Zenon DEF Reported
  <2>3. seen'[c] \in Seq(States) /\ connStrand'[c] \in Seq(States)
    BY <2>2, Reports, Zenon DEF Reported
  <2>4. EndpointTypes' /\ (owner' = "released" => endpoints' = {})
    <3>1. seen' \in [Ids -> Seq(States)] /\ connStrand' \in [Ids -> Seq(States)]
      BY <1>3, <2>3, Zenon DEF TellUser, EndpointInv, EndpointTypes
    <3> QED  BY <1>0, <2>1, <3>1, Zenon DEF EndpointInv, EndpointTypes
  <2>5. ASSUME NEW d \in Ids PROVE EndpointsMatch(d)'
    BY <1>0, <2>1, Zenon DEF EndpointInv, EndpointsMatch
  <2>6. ASSUME NEW d \in Ids, d # c PROVE Reported(d)'
    <3>1. seen'[d] = seen[d] /\ connStrand'[d] = connStrand[d] /\ disconnect'[d] = disconnect[d]
      BY <2>1, <2>6, Zenon
    <3>2. Reported(d)
      BY Zenon DEF EndpointInv
    <3> QED  BY <3>1, <3>2, Zenon DEF Reported
  <2> QED  BY <2>2, <2>4, <2>5, <2>6, Zenon DEF EndpointInv
<1> QED  BY <1>1, <1>2, <1>3, Zenon

\* Every step of the server keeps its endpoints and its reports in agreement.
LEMMA EndpointStepKeeps ==
  ConnectorInv /\ StrandInv /\ EndpointInv /\ [Next]_vars => EndpointInv'
<1> SUFFICES ASSUME ConnectorInv, StrandInv, EndpointInv, [Next]_vars PROVE EndpointInv'
  BY Zenon
<1>1. ASSUME UNCHANGED endpointVars, UNCHANGED given PROVE EndpointInv'
  BY <1>1 DEF endpointVars, EndpointInv, EndpointTypes, EndpointsMatch, Reported
<1>2. CASE ConnectorStep
  <2>1. UNCHANGED given
    BY <1>2, Zenon DEF ConnectorStep, StartListening, Start, StopListening, BeginStop, EndStop, Background,
       PipeFails, PipeConnects, OnPipe, OnPipeFailure, HandshakeRead, HandshakeWrite, EraseConnectionFuture
  <2> QED  BY <1>1, <1>2, <2>1, Zenon DEF ConnectorStep
<1>3. CASE RunNotification
  BY <1>3, NotificationStep, Zenon
<1>4. ASSUME NEW c \in Ids, PipeIsLost(c) PROVE EndpointInv'
  <2>1. /\ GoDown({c}) /\ UNCHANGED <<owner, endpoints, connStrand, seen, given>>
        /\ {c} \in SUBSET Ids
        /\ owner \in {"alive", "finalized", "released"} /\ given \in [Ids -> Runs \cup {NoRun}]
    BY <1>4, Zenon DEF PipeIsLost, connectorVars, EndpointInv, EndpointTypes
  <2> QED  BY <2>1, GoDownStep, Zenon
<1>5. CASE Finalize \/ Release
  <2>1. /\ GoDown(endpoints) /\ UNCHANGED <<connStrand, seen, given>>
        /\ endpoints \in SUBSET Ids
        /\ owner' \in {"alive", "finalized", "released"} /\ given \in [Ids -> Runs \cup {NoRun}]
        /\ (owner' = "finalized" /\ endpoints' = endpoints) \/ endpoints' = {}
    BY <1>5, Zenon DEF Finalize, Release, BeginStop, connectorVars, EndpointInv, EndpointTypes
  <2> QED  BY <2>1, GoDownStep, Zenon
<1>6. CASE UNCHANGED vars
  BY <1>1, <1>6, Zenon DEF vars, connectorVars
<1> QED  BY <1>2, <1>3, <1>4, <1>5, <1>6, DisconnectStep, Zenon DEF Next, EndpointStep

\* The endpoints, the pipes and the reports agree in every reachable state.
THEOREM EndpointInvariance == Spec => []EndpointInv
  BY InitEndpoint, EndpointStepKeeps, Invariance, StrandInvariance, PTL DEF Spec

\* The tasks of the strand are the three that the connector posts.
LEMMA StrandHasTasks ==
  ASSUME ConnectorInv, StrandInv
  PROVE  strand \in Seq({Started(r) : r \in Runs} \cup {Stopped(r) : r \in Runs} \cup {NewConnection(c) : c \in Ids})
<1> DEFINE Tasks == {Started(r) : r \in Runs} \cup {Stopped(r) : r \in Runs} \cup {NewConnection(c) : c \in Ids}
<1>1. strand \in Seq(TaskTypes) /\ starts \in 0 .. MaxRuns
  BY Zenon DEF StrandInv, StrandTypes, ConnectorInv, CoreTypes
<1>2. ASSUME NEW i \in 1 .. Len(strand) PROVE strand[i] \in Tasks
  <2>1. strand[i] \in TaskTypes /\ i \in Queued
    BY <1>1 DEF Queued
  <2>2. strand[i] = [kind |-> strand[i].kind, of |-> strand[i].of]
        /\ strand[i].kind \in {"started", "stopped", "connection"}
    BY <2>1, Zenon DEF TaskTypes
  <2>3. CASE strand[i].kind = "connection"
    <3>1. strand[i].of \in Ids /\ strand[i] = NewConnection(strand[i].of)
      BY <2>1, <2>2, <2>3, Zenon DEF StrandInv, ConnectionsPostedOnce, NewConnection
    <3> QED  BY <3>1, Zenon
  <2>4. CASE strand[i].kind # "connection"
    <3>1. strand[i].of \in 1 .. starts
      BY <2>1, <2>4, Zenon DEF StrandInv, TasksAreDue, TaskRun
    <3>2. strand[i].of \in Runs
      BY <1>1, <3>1, BoundsAssumption DEF Runs
    <3>3. strand[i] = Started(strand[i].of) \/ strand[i] = Stopped(strand[i].of)
      BY <2>2, <2>4, Zenon DEF Started, Stopped
    <3> QED  BY <3>2, <3>3, Zenon
  <2> QED  BY <2>3, <2>4, Zenon
<1> HIDE DEF Tasks
<1>3. strand \in Seq(Tasks)
  BY <1>1, <1>2
<1> QED  BY <1>3, Zenon DEF Tasks

\* What on_connection_change told and what make_request does agree, and no endpoint outlives
\* its connection, for any number of connections, runs and stopping threads, through the
\* destruction of the server.
THEOREM ConnectionsAreReportedHolds == Spec => []ConnectionsAreReported
<1>1. ASSUME ConnectorInv, StrandInv, EndpointInv PROVE ConnectionsAreReported
  <2>1. ConnectorTypeOK
    <3>1. starts \in Runs \cup {0} /\ told \in Runs \cup {NoRun} /\ opened \in Runs \cup {NoRun}
      BY <1>1, BoundsAssumption DEF ConnectorInv, CoreTypes, StrandInv, StrandTypes, Runs, NoRun
    <3> QED  BY <1>1, <3>1, StrandHasTasks, Zenon
             DEF ConnectorTypeOK, ConnectorInv, CoreTypes, EndpointInv, EndpointTypes
  <2>2. TypeOK
    BY <1>1, <2>1, Zenon DEF TypeOK, EndpointInv, EndpointTypes
  <2>3. NoStaleEndpoint
    BY <1>1, Zenon DEF NoStaleEndpoint, EndpointInv, EndpointTypes, EndpointsMatch
  <2>4. ASSUME NEW c \in Ids
        PROVE  /\ seen[c] \in {<<>>, <<"connected">>, <<"connected", "disconnected">>}
               /\ seen[c] = <<"connected">> /\ pipe[c] = "up" => MakeRequest(c) = "forwarded"
               /\ seen[c] = <<"connected", "disconnected">> => c \notin endpoints
    <3>1. /\ EndpointsMatch(c) /\ Reported(c)
          /\ pipe[c] \in {"up", "down"}
          /\ disconnect[c] \in {"none", "stored", "posted", "promised", "over"}
      BY <1>1, Zenon DEF EndpointInv, EndpointTypes
    <3>2. seen[c] = <<"connected">> => disconnect[c] # "none"
      BY <3>1, ShortQueues, Zenon DEF Reported
    <3>3. seen[c] = <<"connected", "disconnected">> => disconnect[c] = "over"
      BY <3>1, ShortQueues, Zenon DEF Reported
    <3> QED  BY <3>1, <3>2, <3>3, Zenon DEF Reported, EndpointsMatch, MakeRequest
  <2> QED  BY <2>2, <2>3, <2>4, Zenon DEF ConnectionsAreReported, RequestsFollowNotifications
<1> QED  BY <1>1, Invariance, StrandInvariance, EndpointInvariance, PTL

-----------------------------------------------------------------------------
INSTANCE FiniteSetTheorems

\* An open run has one continuation that waits for a pipe or is about to ask for the next,
\* and no wait outlives its run.
THEOREM OneWaitPerRunHolds == Spec => []OneWaitPerRun
<1>1. ASSUME ConnectorInv PROVE OneWaitPerRun
  <2>1. ASSUME Running(current)
        PROVE  Cardinality({c \in Ids : run[c] = current /\ Waiting(c)}) = 1
    <3>1. PICK w \in Ids : IsTheWait(w)
      BY <1>1, <2>1, Zenon DEF ConnectorInv, OneWait
    <3>2. {c \in Ids : run[c] = current /\ Waiting(c)} = {w}
      BY <3>1, Zenon DEF IsTheWait
    <3> QED  BY <3>2, FS_Singleton, Zenon
  <2>2. \A c \in Ids : stage[c] = "accepting" => run[c] = current
    BY <1>1, Zenon DEF ConnectorInv, AcceptingInRun
  <2> QED  BY <2>1, <2>2, Zenon DEF OneWaitPerRun
<1> QED  BY <1>1, Invariance, PTL

=============================================================================
