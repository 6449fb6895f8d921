---------------------------- MODULE UpdateLayer ----------------------------
(***************************************************************************)
(* Layer 3 (blocker/update.rs): the worker that keeps the                  *)
(* UpdateOrchestrator reboot task disabled while Block mode is on and      *)
(* re-enables it on the way out when it was enabled to begin with.         *)
(*                                                                         *)
(* Actors: the UI thread (activate, deactivate, forced cleanup), the       *)
(* worker thread, Windows or an administrator changing the task, and the   *)
(* end of the process without cleanup.  Every Task Scheduler call may fail.*)
(***************************************************************************)
EXTENDS Naturals

CONSTANT MaxCrashes  \* bound: how often the process ends without cleanup

ASSUME CrashAssumption == MaxCrashes \in Nat

VARIABLES
  ui,        \* "idle", or "joining" inside deactivate
  worker,    \* worker.is_some()
  thread,    \* where run_worker is, "none" once it returned
  stop,      \* a stop message is in the worker's channel
  guard,     \* the worker holds its ActiveStateGuard
  active,    \* active_state
  rs,        \* restore_state, as one of RestoreStates
  task,      \* the scheduled task: "enabled", "disabled" or "missing"
  crashes,   \* how often the process has ended without cleanup
  original,  \* history: the task when this activation first looked at it
  ours,      \* history: the task is disabled because Wardoff disabled it, to be restored
  excused    \* history: why ours outlives a worker: "no", restore "failed", process "ended"

updateVars == <<ui, worker, thread, stop, guard, active, rs, task, crashes, original, ours, excused>>

TaskStates == {"enabled", "disabled", "missing"}

\* RestoreState: original_state_recorded is false, true, or true together with
\* restore_enabled_on_exit.
RestoreStates == {"unrecorded", "recorded", "restore"}

UpdateInit ==
  /\ ui = "idle" /\ worker = FALSE /\ thread = "none" /\ stop = FALSE
  /\ guard = FALSE /\ active = FALSE /\ rs = "unrecorded"
  /\ task \in TaskStates /\ crashes = 0
  /\ original = "missing" /\ ours = FALSE /\ excused = "no"

-----------------------------------------------------------------------------
(***************************************************************************)
(* The UI thread.                                                          *)
(***************************************************************************)
\* Mutant: the restore state of the previous activation is kept.
ActivateKeepsState ==
  /\ ui = "idle" /\ ~worker
  /\ worker' = TRUE /\ thread' = "start" /\ stop' = FALSE
  /\ UNCHANGED <<ui, guard, active, rs, task, crashes, original, ours, excused>>

\* activate without a worker: forget the recorded state, then spawn unless the process
\* is not elevated or the thread cannot be created.
Activate ==
  /\ ui = "idle" /\ ~worker
  /\ rs' = "unrecorded"
  /\ \/ worker' = TRUE /\ thread' = "start" /\ stop' = FALSE
     \/ UNCHANGED <<worker, thread, stop>>
  /\ UNCHANGED <<ui, guard, active, task, crashes, original, ours, excused>>

\* Mutant: forced cleanup gives the worker handle away.
ForcedCleanupTakesWorker ==
  /\ ui = "idle" /\ worker
  /\ active' = FALSE /\ stop' = TRUE /\ worker' = FALSE
  /\ UNCHANGED <<ui, thread, guard, rs, task, crashes, original, ours, excused>>

\* begin_forced_shutdown_cleanup: signal the worker, keep its handle, do not join.
BeginForcedShutdownCleanup ==
  /\ ui = "idle" /\ worker
  /\ active' = FALSE /\ stop' = TRUE
  /\ UNCHANGED <<ui, worker, thread, guard, rs, task, crashes, original, ours, excused>>

\* Mutant: the thread is joined without being told to stop.
DeactivateWithoutStop ==
  /\ ui = "idle" /\ worker
  /\ active' = FALSE /\ worker' = FALSE /\ ui' = "joining"
  /\ UNCHANGED <<thread, stop, guard, rs, task, crashes, original, ours, excused>>

\* deactivate (and drop): signal the worker, take its handle ...
Deactivate ==
  /\ ui = "idle" /\ worker
  /\ active' = FALSE /\ stop' = TRUE /\ worker' = FALSE /\ ui' = "joining"
  /\ UNCHANGED <<thread, guard, rs, task, crashes, original, ours, excused>>

\* ... and join the thread.
Joined ==
  /\ ui = "joining" /\ thread = "none"
  /\ ui' = "idle"
  /\ UNCHANGED <<worker, thread, stop, guard, active, rs, task, crashes, original, ours, excused>>

-----------------------------------------------------------------------------
(***************************************************************************)
(* The worker thread.  ensure_reboot_task_disabled runs once at the start  *)
(* and once per elapsed recheck interval; it reads the task (Ensure) and,  *)
(* when the task is enabled, disables it (Disable).                        *)
(***************************************************************************)
\* Ok(true): the first success creates the guard, a later one goes back to waiting.
Ensured ==
  /\ thread' = "wait"
  /\ guard' = TRUE
  /\ active' = (active \/ ~guard)

\* Ok(false) or Err: at the start the worker returns, later it leaves its loop.
NotEnsured ==
  /\ thread' = IF guard THEN "restore" ELSE "none"
  /\ guard' = FALSE
  /\ active' = (active /\ ~guard)

Ensure ==
  /\ thread \in {"start", "recheck"}
  /\ original' = IF thread = "start" THEN task ELSE original
  /\ \/ /\ NotEnsured /\ UNCHANGED rs            \* an error, or no such task
     \/ /\ task = "disabled"
        /\ Ensured /\ rs' = IF rs = "unrecorded" THEN "recorded" ELSE rs
     \/ /\ task = "enabled"
        /\ thread' = IF rs = "unrecorded" THEN "disable" ELSE "redisable"
        /\ rs' = IF rs = "unrecorded" THEN "recorded" ELSE rs
        /\ UNCHANGED <<guard, active>>
  /\ UNCHANGED <<ui, worker, stop, task, crashes, ours, excused>>

\* set_task_enabled(false).  Only the first time is restore_enabled_on_exit set.
Disable ==
  /\ thread \in {"disable", "redisable"}
  /\ \/ NotEnsured /\ UNCHANGED <<rs, task, ours>>
     \/ /\ task # "missing"
        /\ Ensured
        /\ task' = "disabled"
        /\ rs' = IF thread = "disable" THEN "restore" ELSE rs
        /\ ours' = (ours \/ (task = "enabled" /\ rs' = "restore"))
  /\ UNCHANGED <<ui, worker, stop, crashes, original, excused>>

\* recv_timeout: the interval elapses, or the stop message ends the loop.
Recheck ==
  /\ thread = "wait" /\ ~stop
  /\ thread' = "recheck"
  /\ UNCHANGED <<ui, worker, stop, guard, active, rs, task, crashes, original, ours, excused>>

Stop ==
  /\ thread = "wait" /\ stop
  /\ thread' = "restore" /\ stop' = FALSE
  /\ guard' = FALSE /\ active' = FALSE
  /\ UNCHANGED <<ui, worker, rs, task, crashes, original, ours, excused>>

\* restore_task_if_needed reads the task; a failed read gives the restore up.
Restore ==
  /\ thread = "restore"
  /\ \/ /\ thread' = IF rs = "restore" /\ task = "disabled" THEN "enable" ELSE "none"
        /\ UNCHANGED excused
     \/ /\ rs = "restore"
        /\ thread' = "none" /\ excused' = IF ours THEN "failed" ELSE excused
  /\ UNCHANGED <<ui, worker, stop, guard, active, rs, task, crashes, original, ours>>

\* set_task_enabled(true); its failure is only logged.
Enable ==
  /\ thread = "enable"
  /\ thread' = "none"
  /\ \/ /\ task # "missing"
        /\ task' = "enabled" /\ ours' = FALSE /\ excused' = "no"
     \/ /\ excused' = IF ours THEN "failed" ELSE excused
        /\ UNCHANGED <<task, ours>>
  /\ UNCHANGED <<ui, worker, stop, guard, active, rs, crashes, original>>

-----------------------------------------------------------------------------
\* Windows or an administrator enables, disables, creates or removes the task.
WindowsChangesTask ==
  /\ task' \in TaskStates \ {task}
  /\ ours' = FALSE /\ excused' = "no"
  /\ UNCHANGED <<ui, worker, thread, stop, guard, active, rs, crashes, original>>

\* The process ends without cleanup and starts again: only the task persists.
Crash ==
  /\ crashes < MaxCrashes
  /\ crashes' = crashes + 1
  /\ ui' = "idle" /\ worker' = FALSE /\ thread' = "none" /\ stop' = FALSE
  /\ guard' = FALSE /\ active' = FALSE /\ rs' = "unrecorded"
  /\ original' = "missing"
  /\ excused' = IF ours THEN "ended" ELSE excused
  /\ UNCHANGED <<task, ours>>

WorkerStep == Ensure \/ Disable \/ Stop \/ Restore \/ Enable

UpdateNext ==
  \/ Activate \/ BeginForcedShutdownCleanup \/ Deactivate \/ Joined
  \/ WorkerStep \/ Recheck
  \/ WindowsChangesTask \/ Crash

UpdateSpec == UpdateInit /\ [][UpdateNext]_updateVars

\* The worker thread and the joining UI thread keep running.  A pending stop message
\* ends the wait; that the interval ever elapses is not assumed.
UpdateFairSpec == UpdateSpec /\ WF_updateVars(WorkerStep) /\ WF_updateVars(Joined)

-----------------------------------------------------------------------------
\* The variables' types; the handle is taken before its thread is joined, and the guard
\* lives only inside run_worker's loop.
UpdateTypeOK ==
  /\ ui \in {"idle", "joining"}
  /\ thread \in {"none", "start", "recheck", "disable", "redisable", "wait", "restore", "enable"}
  /\ worker \in BOOLEAN /\ stop \in BOOLEAN /\ guard \in BOOLEAN /\ active \in BOOLEAN
  /\ rs \in RestoreStates
  /\ task \in TaskStates /\ original \in TaskStates
  /\ ours \in BOOLEAN /\ excused \in {"no", "failed", "ended"}
  /\ crashes \in 0..MaxCrashes
  /\ ui = "joining" => ~worker
  /\ guard => thread \in {"wait", "recheck", "redisable"}

\* Layer 3 reports itself active only while its worker is in its loop, whatever the order
\* of the UI thread's store(false) and the worker's store(true).
ActiveMeansWatching == active => guard /\ thread # "none"

\* A task that Wardoff disabled is enabled again once the worker has returned, unless a
\* Task Scheduler call failed on the way or the process was ended.
TaskRestored == ours /\ thread = "none" => excused # "no"

\* The worker re-enables the task only if it was enabled when this activation first saw
\* it: a task that somebody else had disabled stays disabled.
EnablesOnlyOriginallyEnabled ==
  [][Enable /\ task' = "enabled" /\ task # "enabled" => original = "enabled"]_updateVars

\* deactivate returns: the join never waits for a worker that missed its stop message.
DeactivateReturns == ui = "joining" ~> ui = "idle"
=============================================================================
