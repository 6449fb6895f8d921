------------------------- MODULE AbortLayersProofs -------------------------
(***************************************************************************)
(* Layers 2 and 4, with no bound on the number of activations, failures,   *)
(* shutdowns or restarts: what they report is true, nothing of them        *)
(* outlives deactivate, and the ETW session and its consumer handle are    *)
(* released exactly once.                                                  *)
(***************************************************************************)
EXTENDS AbortLayers, TLAPS

\* What the UI thread's place and the worker's place say of the shared handle: a handle
\* that is still stored has not been closed, and outside the activation that opened it
\* only a worker, or the UI thread after a failed spawn, can hold it.
HandleFits ==
  /\ handle => closes = 0
  /\ ui \in {"enable", "open", "startStop"} => ~handle /\ closes = 0
  /\ ui = "spawn" => handle
  /\ ui \in Starting => thread["local"] = "none"
  /\ thread["local"] \in {"stop", "stopOnly", "drop"} => ~handle

\* A worker about to return has tried to stop the session.
SessionFits == thread["local"] = "drop" /\ session => orphan # "no"

\* The poll that a stop request finds under way is the only one it can be late for.
PollFits ==
  /\ late > 0 => stop
  /\ thread["remote"] \in {"first", "poll"} => late = 0

IInv ==
  /\ TypeOK
  /\ ActiveMeansWatching
  /\ OffMeansSilent
  /\ ConsumerClosedOnce
  /\ SessionHasOwner
  /\ OneLateAbort
  /\ HandleFits
  /\ SessionFits
  /\ PollFits

USE DEF Layers, Starting, Stopping, LocalPlaces, RemotePlaces

\* A process that has just started satisfies the invariant.
LEMMA InitIInv == Init => IInv
<1> SUFFICES ASSUME Init PROVE IInv
  OBVIOUS
<1>1. /\ session \in BOOLEAN /\ handle \in BOOLEAN /\ consumer \in BOOLEAN
      /\ event \in BOOLEAN /\ stop \in BOOLEAN
      /\ worker \in [Layers -> BOOLEAN] /\ active \in [Layers -> BOOLEAN]
  BY Zenon DEF Init
<1> QED
  BY <1>1 DEF Init, IInv, TypeOK, ActiveMeansWatching, OffMeansSilent, ConsumerClosedOnce,
              SessionHasOwner, OneLateAbort, HandleFits, SessionFits, PollFits

\* SharedProcessTraceHandle::close takes the handle, and counts one more CloseTrace only
\* when there was one.
LEMMA CloseHandleOnce ==
  ASSUME handle \in BOOLEAN, consumer \in BOOLEAN, CloseHandle
  PROVE  /\ handle' \in BOOLEAN /\ consumer' \in BOOLEAN /\ ~handle'
         /\ handle => closes' = closes + 1
         /\ ~handle => closes' = closes
BY Zenon DEF CloseHandle

\* Every step of the two controllers, of the two workers and of Windows preserves the
\* invariant.
LEMMA NextIInv == IInv /\ [Next]_vars => IInv'
<1> SUFFICES ASSUME IInv, [Next]_vars PROVE IInv'
  OBVIOUS
<1> USE DEF IInv, TypeOK, ActiveMeansWatching, OffMeansSilent, ConsumerClosedOnce,
            SessionHasOwner, OneLateAbort, HandleFits, SessionFits, PollFits, Goto
<1>1. CASE ActivateLocal
  <2>1. session' \in BOOLEAN /\ event' \in BOOLEAN
    BY <1>1, Zenon DEF ActivateLocal, StillWorking
  <2> QED
    BY <1>1, <2>1 DEF ActivateLocal, StillWorking
<1>2. CASE DeactivateLocal
  BY <1>2 DEF DeactivateLocal, StillWorking
<1>3. CASE EnableTrace
  BY <1>3 DEF EnableTrace
<1>4. CASE OpenTrace
  <2>1. handle' \in BOOLEAN /\ consumer' \in BOOLEAN
    BY <1>4, Zenon DEF OpenTrace
  <2> QED
    BY <1>4, <2>1 DEF OpenTrace
<1>5. CASE StopUnusedSession
  <2>1. session' \in BOOLEAN /\ event' \in BOOLEAN
    BY <1>5, Zenon DEF StopUnusedSession, StopTraceSession
  <2> QED
    BY <1>5, <2>1 DEF StopUnusedSession, StopTraceSession
<1>6. CASE SpawnLocal
  <2>1. CASE UNCHANGED <<worker, thread>>
    BY <1>6, <2>1 DEF SpawnLocal
  <2>2. CASE ui' = "idle" /\ Goto("local", "start") /\ worker' = [worker EXCEPT !["local"] = TRUE]
    BY <1>6, <2>2 DEF SpawnLocal
  <2> QED
    BY <1>6, <2>1, <2>2 DEF SpawnLocal
<1>7. CASE CloseUnspawned
  BY <1>7, CloseHandleOnce DEF CloseUnspawned
<1>8. CASE StopSession
  <2>1. session' \in BOOLEAN /\ event' \in BOOLEAN
    BY <1>8, Zenon DEF StopSession, StopTraceSession
  <2> QED
    BY <1>8, <2>1 DEF StopSession, StopTraceSession
<1>9. CASE CancelTraceProcessing
  BY <1>9, CloseHandleOnce DEF CancelTraceProcessing
<1>10. CASE JoinLocal
  BY <1>10 DEF JoinLocal
<1>11. CASE TakeRawHandle
  BY <1>11 DEF TakeRawHandle
<1>12. CASE RaiseFlag("local", "process")
  BY <1>12 DEF RaiseFlag
<1>13. CASE ProcessTraceEnds \/ ProcessTraceFails
  BY <1>13 DEF ProcessTraceEnds, ProcessTraceFails
<1>14. CASE WorkerCloses
  BY <1>14, CloseHandleOnce DEF WorkerCloses
<1>15. CASE WorkerStops
  <2>1. session' \in BOOLEAN /\ event' \in BOOLEAN
    BY <1>15, Zenon DEF WorkerStops, StopTraceSession
  <2> QED
    BY <1>15, <2>1 DEF WorkerStops, StopTraceSession
<1>16. CASE DropGuard("local")
  BY <1>16 DEF DropGuard
<1>17. CASE HandleEventRecord
  <2>1. event' \in BOOLEAN
    BY <1>17, Zenon DEF HandleEventRecord, AbortPendingShutdown
  <2> QED
    BY <1>17, <2>1 DEF HandleEventRecord, AbortPendingShutdown
<1>18. CASE ActivateRemote
  <2>1. stop' \in BOOLEAN
    BY <1>18, Zenon DEF ActivateRemote
  <2> QED
    BY <1>18, <2>1 DEF ActivateRemote
<1>19. CASE BeginForcedShutdownCleanup
  BY <1>19 DEF BeginForcedShutdownCleanup
<1>20. CASE DeactivateRemote
  BY <1>20 DEF DeactivateRemote
<1>21. CASE JoinRemote
  BY <1>21 DEF JoinRemote
<1>22. CASE PollRemoteShutdown
  BY <1>22 DEF PollRemoteShutdown, AbortPendingShutdown
<1>23. CASE RaiseFlag("remote", "wait")
  BY <1>23 DEF RaiseFlag
<1>24. CASE IntervalElapses
  BY <1>24 DEF IntervalElapses
<1>25. CASE StopReceived
  BY <1>25 DEF StopReceived
<1>26. CASE DropGuard("remote")
  BY <1>26 DEF DropGuard
<1>27. CASE ShutdownLaunched
  BY <1>27 DEF ShutdownLaunched
<1>28. CASE ShutdownPending
  BY <1>28 DEF ShutdownPending
<1>29. CASE SessionStopped
  <2>1. session' \in BOOLEAN /\ event' \in BOOLEAN
    BY <1>29, Zenon DEF SessionStopped
  <2> QED
    BY <1>29, <2>1 DEF SessionStopped
<1>30. CASE Crash
  <2>1. /\ handle' \in BOOLEAN /\ consumer' \in BOOLEAN /\ stop' \in BOOLEAN
        /\ worker' \in [Layers -> BOOLEAN] /\ active' \in [Layers -> BOOLEAN]
    BY <1>30, Zenon DEF Crash
  <2> QED
    BY <1>30, <2>1 DEF Crash
<1>31. CASE UNCHANGED vars
  BY <1>31 DEF vars
<1> QED
  BY <1>1, <1>2, <1>3, <1>4, <1>5, <1>6, <1>7, <1>8, <1>9, <1>10, <1>11, <1>12, <1>13,
     <1>14, <1>15, <1>16, <1>17, <1>18, <1>19, <1>20, <1>21, <1>22, <1>23, <1>24, <1>25,
     <1>26, <1>27, <1>28, <1>29, <1>30, <1>31, Zenon
  DEF Next, LocalUiStep, LocalWorkerStep, RemoteWorkerStep

\* The invariant holds in every reachable state.
THEOREM AbortInvariance == Spec => []IInv
BY InitIInv, NextIInv, PTL DEF Spec

\* Every variable keeps its type.
THEOREM TypeCorrect == Spec => []TypeOK
<1>1. IInv => TypeOK
  BY DEF IInv
<1> QED BY <1>1, AbortInvariance, PTL

\* A layer that reports itself active has a worker that watches.
THEOREM ActiveIsTrue == Spec => []ActiveMeansWatching
<1>1. IInv => ActiveMeansWatching
  BY DEF IInv
<1> QED BY <1>1, AbortInvariance, PTL

\* No thread of a layer that is off can still abort a shutdown.
THEOREM OffIsSilent == Spec => []OffMeansSilent
<1>1. IInv => OffMeansSilent
  BY DEF IInv
<1> QED BY <1>1, AbortInvariance, PTL

\* The two threads close their shared consumer handle once, and never forget it.
THEOREM ClosedOnce == Spec => []ConsumerClosedOnce
<1>1. IInv => ConsumerClosedOnce
  BY DEF IInv
<1> QED BY <1>1, AbortInvariance, PTL

\* No path of the code forgets a running ETW session.
THEOREM SessionOwned == Spec => []SessionHasOwner
<1>1. IInv => SessionHasOwner
  BY DEF IInv
<1> QED BY <1>1, AbortInvariance, PTL

\* A stop request is followed by at most one abort of Layer 4.
THEOREM LateAbortBound == Spec => []OneLateAbort
<1>1. IInv => OneLateAbort
  BY DEF IInv
<1> QED BY <1>1, AbortInvariance, PTL
=============================================================================
