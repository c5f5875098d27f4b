----------------------------- MODULE PipesProofs -----------------------------
(***************************************************************************)
(* What the proofs about the environments, the TCP endpoints and the       *)
(* Windows endpoint say of the system in which they stand side by side     *)
(* (Pipes).                                                                *)
(*                                                                         *)
(* The proofs of an endpoint are in a module of their own, about the state *)
(* of that endpoint alone; here they are instantiated with its variables   *)
(* in Pipes.  A definition that is reached through the model and the same  *)
(* one reached through its proofs (Tcp!Next, TcpP!Next) are the same       *)
(* formula once they are expanded, which the first lemmas show.            *)
(***************************************************************************)
EXTENDS Pipes, PipeEnvProofs, TLAPS

TcpP == INSTANCE TcpPipeEndpointProofs WITH
  open <- tcp_open, byFail <- tcp_byFail,
  callback <- tcp_callback, queue <- tcp_queue, flight <- tcp_flight, size <- tcp_size,
  transferred <- tcp_transferred, place <- tcp_place, result <- tcp_result, timed <- tcp_timed,
  moved <- tcp_moved

WinP == INSTANCE WinPipeEndpointProofs WITH
  open <- win_open, callback <- win_callback, queue <- win_queue, thread <- win_thread, io <- win_io,
  chunks <- win_chunks, res <- win_res, resolved <- win_resolved, value <- win_value,
  stage <- win_stage, result <- win_result, timed <- win_timed

\* New TCP endpoints, in Pipes and in their proofs.
LEMMA TcpInit == Tcp!Init => TcpP!Init
  BY DEF Tcp!Init, TcpP!Init, Tcp!Ends, TcpP!Ends, Tcp!Kinds, TcpP!Kinds

\* A new Windows endpoint, in Pipes and in its proofs.
LEMMA WinInit == Win!Init => WinP!Init
  BY DEF Win!Init, WinP!Init, Win!Kinds, WinP!Kinds

\* The invariant of the TCP endpoints gives what Pipes promises of them.
LEMMA TcpPromises ==
  TcpP!TcpInv => Tcp!TypeOK /\ Tcp!ListsAreDriven /\ Tcp!ReadsGetWholeMessages
<1>1. TcpP!TypeOK /\ TcpP!ListsAreDriven => Tcp!TypeOK /\ Tcp!ListsAreDriven
  BY DEF Tcp!TypeOK, TcpP!TypeOK, Tcp!ListsAreDriven, TcpP!ListsAreDriven, Tcp!Ends, TcpP!Ends,
         Tcp!Kinds, TcpP!Kinds, Tcp!Completed, TcpP!Completed, Tcp!End, TcpP!End, Tcp!Kind,
         TcpP!Kind, Tcp!List, TcpP!List
<1>2. TcpP!ReadsGetWholeMessages => Tcp!ReadsGetWholeMessages
  BY DEF Tcp!ReadsGetWholeMessages, TcpP!ReadsGetWholeMessages, Tcp!Reads, TcpP!Reads, Tcp!Whole,
         TcpP!Whole, Tcp!Kind, TcpP!Kind, Tcp!End, TcpP!End, Tcp!Earlier, TcpP!Earlier, Tcp!Peer,
         TcpP!Peer
<1> QED  BY <1>1, <1>2, TcpP!TcpInductive, TcpNames, WinNames

\* The invariant of the Windows endpoint gives what Pipes promises of it.
LEMMA WinPromises ==
  WinP!WinInv => Win!TypeOK /\ Win!OneInFlight /\ Win!ResolvedOnce
<1>1. WinP!TypeOK /\ WinP!OneInFlight /\ WinP!ResolvedOnce
        => Win!TypeOK /\ Win!OneInFlight /\ Win!ResolvedOnce
  BY DEF Win!TypeOK, WinP!TypeOK, Win!OneInFlight, WinP!OneInFlight, Win!ResolvedOnce,
         WinP!ResolvedOnce, Win!Kinds, WinP!Kinds, Win!Kind, WinP!Kind, Win!Known, WinP!Known,
         Win!Completions, WinP!Completions, Win!Earlier, WinP!Earlier, Win!Oldest, WinP!Oldest,
         Win!Driver, WinP!Driver, Win!Posted, WinP!Posted
<1> QED  BY <1>1, WinP!WinInductive, TcpNames, WinNames

\* A step of the TCP endpoints, in Pipes and in their proofs.
LEMMA TcpNext == Tcp!Next => TcpP!Next
  BY DEF Tcp!Next, TcpP!Next, Tcp!Ends, TcpP!Ends, Tcp!Kinds, TcpP!Kinds, Tcp!Peer, TcpP!Peer,
         Tcp!End, TcpP!End, Tcp!Kind, TcpP!Kind, Tcp!List, TcpP!List, Tcp!Earlier, TcpP!Earlier,
         Tcp!Oldest, TcpP!Oldest, Tcp!InvalidateUnsafe, TcpP!InvalidateUnsafe, Tcp!CloseResult,
         TcpP!CloseResult, Tcp!Settle, TcpP!Settle, Tcp!CompleteAll, TcpP!CompleteAll,
         Tcp!Invalidate, TcpP!Invalidate, Tcp!SetDisconnectCallback, TcpP!SetDisconnectCallback,
         Tcp!StartOperation, TcpP!StartOperation, Tcp!WriteAsync, TcpP!WriteAsync, Tcp!ReadAsync,
         TcpP!ReadAsync, Tcp!AfterTimeout, TcpP!AfterTimeout, Tcp!Timeout, TcpP!Timeout,
         Tcp!OperationFails, TcpP!OperationFails, Tcp!StartNext, TcpP!StartNext,
         Tcp!FinishOperation, TcpP!FinishOperation, Tcp!Continue, TcpP!Continue, Tcp!Remaining,
         TcpP!Remaining, Tcp!PlaceOf, TcpP!PlaceOf, Tcp!Transfer, TcpP!Transfer,
         Tcp!BytesWritten, TcpP!BytesWritten, Tcp!FramesAt, TcpP!FramesAt, Tcp!SizeInHeader,
         TcpP!SizeInHeader, Tcp!BytesRead, TcpP!BytesRead

\* A step of the Windows endpoint, in Pipes and in its proofs.
LEMMA WinNext == Win!Next => WinP!Next
  BY DEF Win!Next, WinP!Next, Win!Completions, WinP!Completions, Win!Known, WinP!Known,
         Win!Kinds, WinP!Kinds, Win!Kind, WinP!Kind, Win!Earlier, WinP!Earlier, Win!Oldest, WinP!Oldest, Win!SetCanceledIfPossible,
         WinP!SetCanceledIfPossible, Win!SetTimeoutIfPossible, WinP!SetTimeoutIfPossible,
         Win!SetFailedIfPossible, WinP!SetFailedIfPossible, Win!Resolve, WinP!Resolve,
         Win!NotResolved, WinP!NotResolved, Win!Post, WinP!Post, Win!StartOperation,
         WinP!StartOperation, Win!SetDisconnectCallback, WinP!SetDisconnectCallback,
         Win!ClosePipe, WinP!ClosePipe, Win!InvalidateImpl, WinP!InvalidateImpl, Win!Invalidate,
         WinP!Invalidate, Win!NextTask, WinP!NextTask, Win!TaskDone, WinP!TaskDone, Win!StartIo,
         WinP!StartIo, Win!RunStart, WinP!RunStart, Win!RunRest, WinP!RunRest, Win!RunCancel,
         WinP!RunCancel, Win!KernelCompletes, WinP!KernelCompletes, Win!Outcome, WinP!Outcome,
         Win!WorkerTakes, WinP!WorkerTakes, Win!InvalidateByFailure, WinP!InvalidateByFailure,
         Win!PopBack, WinP!PopBack, Win!StartBack, WinP!StartBack, Win!CompleteOp,
         WinP!CompleteOp, Win!Timeout, WinP!Timeout, Win!Tasks, WinP!Tasks

\* Every step of Pipes is one of the TCP endpoints or leaves them alone.
LEMMA TcpAmongPipes ==
  ASSUME TcpP!TcpInv, [PipesNext]_pipeVars
  PROVE  TcpP!TcpInv' /\ [TcpP!Next]_(TcpP!tcpVars)
<1>1. Tcp!Next \/ UNCHANGED tcpVars
  BY DEF PipesNext, pipeVars
<1>2. [TcpP!Next]_(TcpP!tcpVars)
  BY <1>1, TcpNext DEF tcpVars, TcpP!tcpVars
<1> QED  BY <1>2, TcpP!TcpInductive, TcpNames, WinNames

\* Every step of Pipes is one of the Windows endpoint or leaves it alone.
LEMMA WinAmongPipes ==
  ASSUME WinP!WinInv, [PipesNext]_pipeVars
  PROVE  WinP!WinInv'
<1>1. Win!Next \/ UNCHANGED winVars
  BY DEF PipesNext, pipeVars
<1>2. [WinP!Next]_(WinP!winVars)
  BY <1>1, WinNext DEF winVars, WinP!winVars
<1> QED  BY <1>2, WinP!WinInductive, TcpNames, WinNames

\* tcp_pipe_endpoint reads whole messages, in the order of the peer's writes, for any number
\* of operations, any sizes and wherever the stream cuts or breaks.
THEOREM TcpReadsGetWholeMessagesHolds == PipesSpec => []TcpReadsGetWholeMessages
<1>1. PipesInit => TcpP!TcpInv
  BY TcpInit, TcpP!TcpInductive, TcpNames, WinNames DEF PipesInit
<1>2. TcpP!TcpInv /\ [PipesNext]_pipeVars => TcpP!TcpInv'
  BY TcpAmongPipes
<1>3. TcpP!TcpInv => TcpReadsGetWholeMessages
  BY TcpPromises DEF TcpReadsGetWholeMessages
<1> QED  BY <1>1, <1>2, <1>3, PTL DEF PipesSpec

\* The oldest operation of a TCP list is in flight and no other, one operation of a kind at
\* most is in the Windows kernel, and a promise of a Windows endpoint is resolved once.
THEOREM PipeOperationsAreDrivenHolds == PipesSpec => []PipeOperationsAreDriven
<1>1. PipesInit => TcpP!TcpInv /\ WinP!WinInv
  BY TcpInit, TcpP!TcpInductive, WinInit, WinP!WinInductive, TcpNames, WinNames DEF PipesInit
<1>2. TcpP!TcpInv /\ WinP!WinInv /\ [PipesNext]_pipeVars => TcpP!TcpInv' /\ WinP!WinInv'
  BY TcpAmongPipes, WinAmongPipes
<1>3. TcpP!TcpInv /\ WinP!WinInv => PipeOperationsAreDriven
  BY TcpPromises, WinPromises DEF PipeOperationsAreDriven
<1> QED  BY <1>1, <1>2, <1>3, PTL DEF PipesSpec

\* Every step of Pipes is one of the environment of the memory pipes, one of the TCP
\* environments, one of the Windows environments, or leaves the three alone.
LEMMA EnvironmentsAmongPipes ==
  ASSUME IInv, TcpEnvInv, WinEnvInv, [PipesNext]_pipeVars
  PROVE  IInv' /\ TcpEnvInv' /\ WinEnvInv' /\ WinEnv!ServesConnectedClients
<1>1. [Next]_vars /\ [TcpEnv!Next]_teVars /\ [WinEnv!Next]_weVars
  BY Zenon DEF PipesNext, pipeVars
<1> QED
  BY <1>1, NextStep, TcpEnvStep, WinEnvStep, WinServesClients, NumbersHaveALeast,
     CreatesAreCounted, Zenon

\* The invariants of the environments hold when they are constructed.
LEMMA EnvironmentsInitially == PipesInit => IInv /\ TcpEnvInv /\ WinEnvInv
  BY InitIInv, TcpEnvInitially, WinEnvInitially, Zenon DEF PipesInit

\* The oldest listed create_pipe has the accept of a TCP server, and every pipe of the TCP and
\* the Windows environments is handed out once or closed, for any number of calls and whatever
\* timeouts, cancelations and completions meet.
THEOREM EnvironmentWaitsAreDrivenHolds == PipesSpec => []EnvironmentWaitsAreDriven
<1>1. IInv /\ TcpEnvInv /\ WinEnvInv /\ [PipesNext]_pipeVars => IInv' /\ TcpEnvInv' /\ WinEnvInv'
  BY EnvironmentsAmongPipes, Zenon
<1>2. IInv /\ TcpEnvInv /\ WinEnvInv => EnvironmentWaitsAreDriven
  BY TcpEnvPromises, WinEnvPromises, NumbersHaveALeast, Zenon DEF EnvironmentWaitsAreDriven, IInv
<1> QED  BY <1>1, <1>2, EnvironmentsInitially, PTL DEF PipesSpec

\* What Pipes asks of a step of the TCP endpoints, in Pipes and in their proofs.
LEMMA TcpCloser == TcpP!NamesTheCloser => Tcp!NamesTheCloser
  BY Zenon DEF Tcp!NamesTheCloser, TcpP!NamesTheCloser, Tcp!CloseResult, TcpP!CloseResult,
     Tcp!TooLarge, TcpP!TooLarge, Tcp!List, TcpP!List, Tcp!End, TcpP!End, Tcp!Kind, TcpP!Kind

\* What is pending on a TCP endpoint when it is closed says who closed it, and a client whose
\* connection ended the wait of a Windows create_pipe is served though a cancelation or a
\* timeout came before its completion was taken.
THEOREM ResultsTellWhatHappenedHolds == PipesSpec => ResultsTellWhatHappened
<1> DEFINE Inv == /\ TcpP!TcpInv /\ TcpP!CallbacksPosted
                  /\ IInv /\ TcpEnvInv /\ WinEnvInv
<1>1. PipesInit => Inv
  BY EnvironmentsInitially, TcpInit, TcpP!TcpInductive, TcpP!TcpCloserNamed, TcpNames, WinNames,
     Zenon DEF PipesInit
<1>2. ASSUME Inv, [PipesNext]_pipeVars
      PROVE  Inv' /\ Tcp!NamesTheCloser /\ WinEnv!ServesConnectedClients
  <2>1. IInv' /\ TcpEnvInv' /\ WinEnvInv' /\ WinEnv!ServesConnectedClients
    BY <1>2, EnvironmentsAmongPipes, Zenon
  <2>2. TcpP!TcpInv' /\ [TcpP!Next]_(TcpP!tcpVars)
    BY <1>2, TcpAmongPipes, Zenon
  <2>3. TcpP!CallbacksPosted' /\ TcpP!NamesTheCloser
    BY <1>2, <2>2, TcpP!TcpCloserNamed, TcpNames, WinNames, Zenon
  <2> QED  BY <2>1, <2>2, <2>3, TcpCloser, Zenon
<1>3. Inv /\ [PipesNext]_pipeVars
        => Inv' /\ [Tcp!NamesTheCloser /\ WinEnv!ServesConnectedClients]_pipeVars
  BY <1>2, Zenon
<1> HIDE DEF Inv
<1> QED  BY <1>1, <1>3, PTL DEF PipesSpec, ResultsTellWhatHappened

=============================================================================
