---------------------------- MODULE AbortLayers ----------------------------
(***************************************************************************)
(* Layers 2 and 4 (blocker/local.rs, remote.rs, abort.rs): the two layers  *)
(* that call AbortSystemShutdownW.                                         *)
(*                                                                         *)
(* Layer 2 owns a real-time ETW session and a consumer handle.  The worker *)
(* blocks in ProcessTrace; the UI thread ends it by stopping the session   *)
(* and closing the handle, which both threads share.  Layer 4 polls.       *)
(* Every Windows call may fail.  The session, the consumer, the events and *)
(* the shutdown itself are Windows's: ProcessTrace returns once the        *)
(* session is stopped or the handle closed, a session outlives the process *)
(* that started it, and a pending shutdown stays abortable until aborted.  *)
(***************************************************************************)
EXTENDS Naturals

VARIABLES
  ui,        \* "idle", or the next call of activate or deactivate
  worker,    \* worker[l]: worker.is_some()
  thread,    \* thread[l]: where run_worker is, "none" once it returned
  active,    \* active[l]: active_state
  session,   \* external: the ETW session of this activation runs
  handle,    \* SharedProcessTraceHandle is Some
  consumer,  \* external: the consumer handle is open
  event,     \* external: the start of shutdown.exe waits in the session
  stop,      \* a stop message is in Layer 4's channel
  shutdown,  \* external: "none", "launched" (shutdown.exe runs) or "pending"
  closes,    \* history: how often CloseTrace was called on this consumer
  orphan,    \* history: why the session has no owner: "no", "refused" or "ended"
  late       \* history: Layer 4's abort calls since it was told to stop

vars == <<ui, worker, thread, active, session, handle, consumer, event, stop, shutdown,
          closes, orphan, late>>

Layers == {"local", "remote"}

\* The UI thread's calls on Layer 2 between StartTraceW and the spawned thread.
Starting == {"enable", "open", "startStop", "spawn", "spawnClose", "spawnStop"}
\* ... and in deactivate, up to the join.
Stopping == {"stop", "close", "join"}

\* Where the two run_worker functions can be.
LocalPlaces  == {"none", "start", "guard", "process", "close", "stop", "stopOnly", "drop"}
RemotePlaces == {"none", "first", "guard", "wait", "poll", "drop"}

Init ==
  /\ ui = "idle"
  /\ worker = [l \in Layers |-> FALSE]
  /\ thread = [l \in Layers |-> "none"]
  /\ active = [l \in Layers |-> FALSE]
  /\ session = FALSE /\ handle = FALSE /\ consumer = FALSE /\ event = FALSE
  /\ stop = FALSE /\ shutdown = "none"
  /\ closes = 0 /\ orphan = "no" /\ late = 0

Goto(l, next) == thread' = [thread EXCEPT ![l] = next]

-----------------------------------------------------------------------------
(***************************************************************************)
(* Calls both threads make.                                                *)
(***************************************************************************)
\* stop_trace_session: ControlTraceW stops the session, finds it gone, or fails.
StopTraceSession ==
  \/ session' = FALSE /\ event' = FALSE /\ orphan' = "no"
  \/ /\ orphan' = IF session THEN "refused" ELSE orphan
     /\ UNCHANGED <<session, event>>

\* Mutant: the handle is closed but not taken.
CloseWithoutTake ==
  IF handle
  THEN /\ closes' = closes + 1
       /\ consumer' \in {FALSE, consumer}
       /\ UNCHANGED handle
  ELSE UNCHANGED <<handle, consumer, closes>>

\* SharedProcessTraceHandle::close: whoever takes the handle calls CloseTrace on it, which
\* may fail; the other thread finds nothing to close.
CloseHandle ==
  IF handle
  THEN /\ handle' = FALSE
       /\ closes' = closes + 1
       /\ consumer' \in {FALSE, consumer}
  ELSE UNCHANGED <<handle, consumer, closes>>

\* abort_pending_shutdown: aborted or nothing pending (ok), or the privilege or the call
\* is refused.
AbortPendingShutdown(ok) ==
  IF ok THEN shutdown' = IF shutdown = "pending" THEN "none" ELSE shutdown
        ELSE UNCHANGED shutdown

-----------------------------------------------------------------------------
(***************************************************************************)
(* Layer 2, the UI thread.                                                 *)
(***************************************************************************)
\* cleanup_finished_worker, the first thing activate and deactivate do.
StillWorking == worker["local"] /\ thread["local"] # "none"

\* activate: nothing to do while a worker lives; without the abort privilege (preflight)
\* or an ETW session the layer stays off, without an error.
ActivateLocal ==
  /\ ui = "idle"
  /\ worker' = [worker EXCEPT !["local"] = StillWorking]
  /\ \/ /\ ~StillWorking
        /\ ui' = "enable"                            \* StartTraceW
        /\ session' = TRUE /\ event' = FALSE /\ orphan' = "no" /\ closes' = 0
     \/ UNCHANGED <<ui, session, event, orphan, closes>>
  /\ UNCHANGED <<thread, active, handle, consumer, stop, shutdown, late>>

EnableTrace ==
  /\ ui = "enable"
  /\ ui' \in {"open", "startStop"}
  /\ UNCHANGED <<worker, thread, active, session, handle, consumer, event, stop, shutdown,
                 closes, orphan, late>>

OpenTrace ==
  /\ ui = "open"
  /\ \/ ui' = "spawn" /\ handle' = TRUE /\ consumer' = TRUE
     \/ ui' = "startStop" /\ UNCHANGED <<handle, consumer>>
  /\ UNCHANGED <<worker, thread, active, session, event, stop, shutdown, closes, orphan, late>>

\* LocalTraceSubscription::start gives up after its session was started, or the thread
\* could not be spawned and the subscription was closed.
StopUnusedSession ==
  /\ ui \in {"startStop", "spawnStop"}
  /\ ui' = "idle"
  /\ StopTraceSession
  /\ UNCHANGED <<worker, thread, active, handle, consumer, stop, shutdown, closes, late>>

SpawnLocal ==
  /\ ui = "spawn"
  /\ \/ ui' = "idle" /\ worker' = [worker EXCEPT !["local"] = TRUE] /\ Goto("local", "start")
     \/ ui' = "spawnClose" /\ UNCHANGED <<worker, thread>>
  /\ UNCHANGED <<active, session, handle, consumer, event, stop, shutdown, closes, orphan, late>>

\* LocalTraceSubscription::shutdown after a failed spawn.
CloseUnspawned ==
  /\ ui = "spawnClose"
  /\ ui' = "spawnStop"
  /\ CloseHandle
  /\ UNCHANGED <<worker, thread, active, session, event, stop, shutdown, orphan, late>>

\* deactivate and drop: take the worker, clear the flag ...
DeactivateLocal ==
  /\ ui = "idle"
  /\ worker' = [worker EXCEPT !["local"] = FALSE]
  /\ active' = [active EXCEPT !["local"] = @ /\ ~StillWorking]
  /\ ui' = IF StillWorking THEN "stop" ELSE "idle"
  /\ UNCHANGED <<thread, session, handle, consumer, event, stop, shutdown, closes, orphan, late>>

\* ... stop the session ...
StopSession ==
  /\ ui = "stop"
  /\ ui' = "close"
  /\ StopTraceSession
  /\ UNCHANGED <<worker, thread, active, handle, consumer, stop, shutdown, closes, late>>

\* Mutant: deactivate relies on the stopped session alone.
SkipCancel ==
  /\ ui = "close"
  /\ ui' = "join"
  /\ UNCHANGED <<worker, thread, active, session, handle, consumer, event, stop, shutdown,
                 closes, orphan, late>>

\* ... cancel_trace_processing, whether or not the stop succeeded ...
CancelTraceProcessing ==
  /\ ui = "close"
  /\ ui' = "join"
  /\ CloseHandle
  /\ UNCHANGED <<worker, thread, active, session, event, stop, shutdown, orphan, late>>

\* ... and join the thread.
JoinLocal ==
  /\ ui = "join" /\ thread["local"] = "none"
  /\ ui' = "idle"
  /\ UNCHANGED <<worker, thread, active, session, handle, consumer, event, stop, shutdown,
                 closes, orphan, late>>

-----------------------------------------------------------------------------
(***************************************************************************)
(* Layer 2, the worker thread.                                             *)
(***************************************************************************)
\* run_worker copies the handle; without one it only stops the session.
TakeRawHandle ==
  /\ thread["local"] = "start"
  /\ Goto("local", IF handle THEN "guard" ELSE "stopOnly")
  /\ UNCHANGED <<ui, worker, active, session, handle, consumer, event, stop, shutdown,
                 closes, orphan, late>>

\* A worker publishes its flag: ActiveStateGuard::activate.
RaiseFlag(l, next) ==
  /\ thread[l] = "guard"
  /\ Goto(l, next)
  /\ active' = [active EXCEPT ![l] = TRUE]
  /\ UNCHANGED <<ui, worker, session, handle, consumer, event, stop, shutdown, closes,
                 orphan, late>>

\* handle_event_record, called by ProcessTrace: shutdown.exe has started, so abort; a
\* refused abort is only logged, and an event without a readable image name is ignored.
HandleEventRecord ==
  /\ thread["local"] = "process" /\ event
  /\ event' = FALSE
  /\ \E ok \in BOOLEAN : AbortPendingShutdown(ok)
  /\ UNCHANGED <<ui, worker, thread, active, session, handle, consumer, stop, closes,
                 orphan, late>>

\* ProcessTrace returns: the session was stopped, or the copied handle was closed, also
\* when that happened before the call.
ProcessTraceEnds ==
  /\ thread["local"] = "process" /\ (~session \/ ~consumer)
  /\ Goto("local", "close")
  /\ UNCHANGED <<ui, worker, active, session, handle, consumer, event, stop, shutdown,
                 closes, orphan, late>>

\* ProcessTrace fails by itself.
ProcessTraceFails ==
  /\ thread["local"] = "process"
  /\ Goto("local", "close")
  /\ UNCHANGED <<ui, worker, active, session, handle, consumer, event, stop, shutdown,
                 closes, orphan, late>>

WorkerCloses ==
  /\ thread["local"] = "close"
  /\ Goto("local", "stop")
  /\ CloseHandle
  /\ UNCHANGED <<ui, worker, active, session, event, stop, shutdown, orphan, late>>

\* Mutant: the worker leaves the session to the UI thread.
WorkerSkipsStop ==
  /\ thread["local"] \in {"stop", "stopOnly"}
  /\ Goto("local", IF thread["local"] = "stop" THEN "drop" ELSE "none")
  /\ UNCHANGED <<ui, worker, active, session, handle, consumer, event, stop, shutdown,
                 closes, orphan, late>>

WorkerStops ==
  /\ thread["local"] \in {"stop", "stopOnly"}
  /\ Goto("local", IF thread["local"] = "stop" THEN "drop" ELSE "none")
  /\ StopTraceSession
  /\ UNCHANGED <<ui, worker, active, handle, consumer, stop, shutdown, closes, late>>

\* A worker returns: its ActiveStateGuard clears the flag.
DropGuard(l) ==
  /\ thread[l] = "drop"
  /\ Goto(l, "none")
  /\ active' = [active EXCEPT ![l] = FALSE]
  /\ UNCHANGED <<ui, worker, session, handle, consumer, event, stop, shutdown, closes,
                 orphan, late>>

-----------------------------------------------------------------------------
(***************************************************************************)
(* Layer 4.                                                                *)
(***************************************************************************)
\* activate: a stored worker counts, also one whose thread has returned.
ActivateRemote ==
  /\ ui = "idle" /\ ~worker["remote"]
  /\ worker' = [worker EXCEPT !["remote"] = TRUE]
  /\ Goto("remote", "first")
  /\ stop' = FALSE /\ late' = 0
  /\ UNCHANGED <<ui, active, session, handle, consumer, event, shutdown, closes, orphan>>

\* begin_forced_shutdown_cleanup: signal the worker, keep its handle, do not join.
BeginForcedShutdownCleanup ==
  /\ ui = "idle" /\ worker["remote"]
  /\ active' = [active EXCEPT !["remote"] = FALSE]
  /\ stop' = TRUE
  /\ UNCHANGED <<ui, worker, thread, session, handle, consumer, event, shutdown, closes,
                 orphan, late>>

\* Mutant: deactivate does not wait for the worker.
DeactivateRemoteDetaches ==
  /\ ui = "idle" /\ worker["remote"]
  /\ active' = [active EXCEPT !["remote"] = FALSE]
  /\ stop' = TRUE
  /\ worker' = [worker EXCEPT !["remote"] = FALSE]
  /\ UNCHANGED <<ui, thread, session, handle, consumer, event, shutdown, closes, orphan, late>>

\* deactivate and drop: the same signal, then take the worker ...
DeactivateRemote ==
  /\ ui = "idle" /\ worker["remote"]
  /\ active' = [active EXCEPT !["remote"] = FALSE]
  /\ stop' = TRUE
  /\ worker' = [worker EXCEPT !["remote"] = FALSE]
  /\ ui' = "joinRemote"
  /\ UNCHANGED <<thread, session, handle, consumer, event, shutdown, closes, orphan, late>>

\* ... and join its thread.
JoinRemote ==
  /\ ui = "joinRemote" /\ thread["remote"] = "none"
  /\ ui' = "idle"
  /\ UNCHANGED <<worker, thread, active, session, handle, consumer, event, stop, shutdown,
                 closes, orphan, late>>

\* poll_remote_shutdown, once before the flag goes up and once per elapsed interval.  A
\* refused abort ends the worker.
PollRemoteShutdown ==
  /\ thread["remote"] \in {"first", "poll"}
  /\ \E ok \in BOOLEAN :
       /\ AbortPendingShutdown(ok)
       /\ Goto("remote", CASE ok /\ thread["remote"] = "first" -> "guard"
                           [] ok /\ thread["remote"] = "poll" -> "wait"
                           [] ~ok /\ thread["remote"] = "first" -> "none"
                           [] OTHER -> "drop")
  /\ late' = IF stop THEN late + 1 ELSE late
  /\ UNCHANGED <<ui, worker, active, session, handle, consumer, event, stop, closes, orphan>>

\* Mutant: an elapsed interval comes before a stop message that is already there.
IntervalElapsesFirst ==
  /\ thread["remote"] = "wait"
  /\ Goto("remote", "poll")
  /\ UNCHANGED <<ui, worker, active, session, handle, consumer, event, stop, shutdown,
                 closes, orphan, late>>

\* Mutant: recv without a timeout returns for the stop message only.
RecvWithoutTimeout ==
  /\ thread["remote"] = "wait" /\ stop
  /\ Goto("remote", "drop")
  /\ UNCHANGED <<ui, worker, active, session, handle, consumer, event, stop, shutdown,
                 closes, orphan, late>>

\* recv_timeout: the interval elapses ...
IntervalElapses ==
  /\ thread["remote"] = "wait" /\ ~stop
  /\ Goto("remote", "poll")
  /\ UNCHANGED <<ui, worker, active, session, handle, consumer, event, stop, shutdown,
                 closes, orphan, late>>

\* ... or the stop message ends the loop.
StopReceived ==
  /\ thread["remote"] = "wait" /\ stop
  /\ Goto("remote", "drop")
  /\ UNCHANGED <<ui, worker, active, session, handle, consumer, event, stop, shutdown,
                 closes, orphan, late>>

-----------------------------------------------------------------------------
(***************************************************************************)
(* Windows and other programs.                                             *)
(***************************************************************************)
\* shutdown.exe starts; a running session records it.
ShutdownLaunched ==
  /\ shutdown = "none"
  /\ shutdown' = "launched" /\ event' = (event \/ session)
  /\ UNCHANGED <<ui, worker, thread, active, session, handle, consumer, stop, closes,
                 orphan, late>>

\* A shutdown is pending: shutdown.exe got that far, or it was asked for remotely.
ShutdownPending ==
  /\ shutdown \in {"none", "launched"}
  /\ shutdown' = "pending"
  /\ UNCHANGED <<ui, worker, thread, active, session, handle, consumer, event, stop, closes,
                 orphan, late>>

\* An administrator stops the ETW session.
SessionStopped ==
  /\ session
  /\ session' = FALSE /\ event' = FALSE /\ orphan' = "no"
  /\ UNCHANGED <<ui, worker, thread, active, handle, consumer, stop, shutdown, closes, late>>

\* The process ends without cleanup and starts again; an ETW session survives it.
Crash ==
  /\ ui' = "idle"
  /\ worker' = [l \in Layers |-> FALSE]
  /\ thread' = [l \in Layers |-> "none"]
  /\ active' = [l \in Layers |-> FALSE]
  /\ handle' = FALSE /\ consumer' = FALSE /\ stop' = FALSE
  /\ closes' = 0 /\ late' = 0
  /\ orphan' = IF session THEN "ended" ELSE "no"
  /\ UNCHANGED <<session, event, shutdown>>

-----------------------------------------------------------------------------
LocalUiStep ==
  \/ EnableTrace \/ OpenTrace \/ StopUnusedSession \/ SpawnLocal \/ CloseUnspawned
  \/ StopSession \/ CancelTraceProcessing \/ JoinLocal

LocalWorkerStep ==
  \/ TakeRawHandle \/ RaiseFlag("local", "process") \/ ProcessTraceEnds
  \/ WorkerCloses \/ WorkerStops \/ DropGuard("local")

RemoteWorkerStep ==
  \/ PollRemoteShutdown \/ RaiseFlag("remote", "wait") \/ IntervalElapses
  \/ StopReceived \/ DropGuard("remote")

Next ==
  \/ ActivateLocal \/ DeactivateLocal \/ LocalUiStep
  \/ LocalWorkerStep \/ HandleEventRecord \/ ProcessTraceFails
  \/ ActivateRemote \/ BeginForcedShutdownCleanup \/ DeactivateRemote \/ JoinRemote
  \/ RemoteWorkerStep
  \/ ShutdownLaunched \/ ShutdownPending \/ SessionStopped \/ Crash

Spec == Init /\ [][Next]_vars

\* Each thread keeps running, and recv_timeout returns.  Nothing is assumed of failures,
\* of events, or of when the UI thread calls a layer.
Fairness ==
  /\ WF_vars(LocalUiStep) /\ WF_vars(JoinRemote)
  /\ WF_vars(LocalWorkerStep) /\ WF_vars(RemoteWorkerStep)

FairSpec == Spec /\ Fairness

-----------------------------------------------------------------------------
\* The variables' types; a worker is taken out of its controller before it is joined.
TypeOK ==
  /\ ui \in {"idle", "joinRemote"} \cup Starting \cup Stopping
  /\ worker \in [Layers -> BOOLEAN] /\ active \in [Layers -> BOOLEAN]
  /\ thread \in [Layers -> LocalPlaces \cup RemotePlaces]
  /\ thread["local"] \in LocalPlaces /\ thread["remote"] \in RemotePlaces
  /\ session \in BOOLEAN /\ handle \in BOOLEAN /\ consumer \in BOOLEAN
  /\ event \in BOOLEAN /\ stop \in BOOLEAN
  /\ shutdown \in {"none", "launched", "pending"}
  /\ closes \in Nat /\ late \in Nat /\ orphan \in {"no", "refused", "ended"}
  /\ ui \in Stopping => ~worker["local"]
  /\ ui = "joinRemote" => ~worker["remote"]

\* Neither layer reports itself active without a worker that watches, whatever the order
\* in which the UI thread clears the flag and the worker raises it.
ActiveMeansWatching ==
  \A l \in Layers : active[l] => thread[l] \in {"process", "close", "stop", "wait", "poll", "drop"}

\* Once a layer's deactivate has returned (and before activate), no thread of that layer
\* is left that could still abort a shutdown.
OffMeansSilent ==
  /\ thread["local"] # "none" => worker["local"] \/ ui \in Stopping
  /\ thread["remote"] # "none" => worker["remote"] \/ ui = "joinRemote"

\* The UI thread and the worker share one consumer handle: CloseTrace is called at most
\* once on it, and it is not forgotten when the worker has returned.
ConsumerClosedOnce ==
  /\ closes <= 1
  /\ handle => ui \in {"spawn", "spawnClose"} \/ thread["local"] # "none"

\* An ETW session without a worker is one that Windows refused to stop, or one whose
\* process was ended: no path through activate, deactivate and run_worker forgets it.
SessionHasOwner ==
  session => ui \in Starting \/ thread["local"] # "none" \/ orphan # "no"

\* A stop request that is not joined (forced cleanup) lets Layer 4 abort at most one more
\* shutdown: the poll already under way, or the first one, made before the channel is read.
OneLateAbort == late <= 1

\* Stopping the session and closing the handle both failed: nothing ends ProcessTrace.
TraceUnstoppable == session /\ consumer /\ ~handle /\ thread["local"] = "process"

\* deactivate of Layer 2 returns unless Windows refused both ways of ending the trace, and
\* that of Layer 4 always, wherever the worker was when it was told to stop.
DeactivateReturns ==
  /\ ui \in Stopping ~> ui = "idle" \/ []TraceUnstoppable
  /\ ui = "joinRemote" ~> ui = "idle"

\* While Layer 4 reports itself active, a pending shutdown does not stay pending; this
\* includes one that Layer 2 looked for too early, before shutdown.exe had asked for it.
PendingShutdownAborted ==
  shutdown = "pending" /\ active["remote"] ~> shutdown # "pending" \/ ~active["remote"]
=============================================================================
