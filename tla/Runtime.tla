------------------------------ MODULE Runtime ------------------------------
(***************************************************************************)
(* The primary Wardoff process as its UI thread sees it: the Application   *)
(* of main.rs, the BlockerCoordinator of blocker/mod.rs with its five      *)
(* layers, the tray thread it synchronises with, the worker threads of     *)
(* Layers 2-4, and the Windows session and power notifications.            *)
(*                                                                         *)
(* Every UI-thread handler runs to completion without pumping messages, so *)
(* a handler is one action.  A Windows call that may fail is a choice:     *)
(* each fallible operation is the SET of its possible outcomes, and a      *)
(* handler composes those sets in the order in which the code makes the    *)
(* calls.  Worker threads and the tray thread interleave between handlers. *)
(***************************************************************************)
EXTENDS Naturals, Sequences

CONSTANT MaxTrayBacklog  \* bound: SetMode commands the tray thread has not handled

ASSUME BacklogAssumption == MaxTrayBacklog \in Nat

VARIABLES
  phase,           \* "boot", "booted" (bootstrap returned), "running" (in run), "stopped"
  surface,         \* TraySurface chosen at startup
  blk,             \* BlockerCoordinator, BLOCKER_ACTIVE and the layers' workers
  tray,            \* the tray thread: state.mode and its unhandled SetMode commands
  pending,         \* pending_block_restore_after_wake
  forced,          \* forced_shutdown_cleanup_completed
  cleanupStarted,  \* END_SESSION_CLEANUP_STARTED
  ended,           \* history: a confirmed WM_ENDSESSION was delivered
  owed,            \* history: a tray suspend left Block and nothing cancelled its restore
  reply            \* history: what the last handler answered

vars == <<phase, surface, blk, tray, pending, forced, cleanupStarted, ended, owed, reply>>

Modes        == {"Block", "Allow"}
Surfaces     == {"Visible", "Hidden", "Headless"}
Background   == {"local", "update", "remote"}        \* Layers 2, 3 and 4
PowerActions == {"Shutdown", "Reboot", "Sleep", "Hibernate"}
Suspends     == {"Sleep", "Hibernate"}
Threads      == {"none", "starting", "running"}

\* The coordinator with every layer off, as BlockerCoordinator::new builds it.
BlockerOff ==
  [mode     |-> "Allow",
   reason   |-> FALSE,                               \* Layer 1: reason_registered
   veto     |-> FALSE,                               \* Layer 1: BLOCKER_ACTIVE
   sleep    |-> FALSE,                               \* SleepBlocker::is_active
   worker   |-> [l \in Background |-> FALSE],        \* worker.is_some()
   thread   |-> [l \in Background |-> "none"],       \* "none": not spawned, or finished
   stopping |-> [l \in Background |-> FALSE],        \* a stop message waits for the thread
   active   |-> [l \in Background |-> FALSE]]        \* active_state

NoRestore == [state |-> "None", action |-> "None"]

PendingSuspend(a) == [state |-> "PendingSuspend", action |-> a]

NoReply == [to |-> "None", ok |-> TRUE]

\* An outcome of an operation on the coordinator.
Outcome(ok, b) == [ok |-> ok, b |-> b]

\* The outcomes of `Op` run after those of `R` that succeeded (the code's `?`).
AndThen(R, Op(_)) == UNION {IF r.ok THEN Op(r.b) ELSE {r} : r \in R}

-----------------------------------------------------------------------------
(***************************************************************************)
(* Layers 2-4: a controller that owns an Option<worker> and a worker       *)
(* thread that publishes active_state.                                     *)
(***************************************************************************)
Spawn(b, l) ==
  [b EXCEPT !.worker[l] = TRUE, !.thread[l] = "starting", !.stopping[l] = FALSE]

\* Layer 2's cleanup_finished_worker: joins a worker whose thread has returned.
CleanupFinishedWorker(b) ==
  IF b.worker["local"] /\ b.thread["local"] = "none"
  THEN [b EXCEPT !.worker["local"] = FALSE]
  ELSE b

\* Layer 2 stays inactive, without an error, when its preflight or ETW session fails.
LocalActivate(b) ==
  LET c == CleanupFinishedWorker(b) IN
  IF c.worker["local"]
  THEN {Outcome(TRUE, c)}
  ELSE {Outcome(TRUE, c), Outcome(TRUE, Spawn(c, "local")), Outcome(FALSE, c)}

\* Layer 3 skips itself, without an error, in a process that is not elevated.
UpdateActivate(b) ==
  IF b.worker["update"]
  THEN {Outcome(TRUE, b)}
  ELSE {Outcome(TRUE, b), Outcome(TRUE, Spawn(b, "update")), Outcome(FALSE, b)}

RemoteActivate(b) ==
  IF b.worker["remote"]
  THEN {Outcome(TRUE, b)}
  ELSE {Outcome(TRUE, Spawn(b, "remote")), Outcome(FALSE, b)}

\* deactivate of a background layer: stop, take the worker, join its thread.
BackgroundDeactivate(b, l) ==
  IF b.worker[l]
  THEN [b EXCEPT !.worker[l] = FALSE, !.thread[l] = "none",
                 !.stopping[l] = FALSE, !.active[l] = FALSE]
  ELSE b

\* begin_forced_shutdown_cleanup of Layers 3 and 4: signal, keep the worker, do not join.
\* The stop message reaches nobody when the thread has already returned.
BeginForcedCleanup(b, l) ==
  IF b.worker[l]
  THEN [b EXCEPT !.active[l] = FALSE, !.stopping[l] = (b.thread[l] # "none")]
  ELSE b
-----------------------------------------------------------------------------
(***************************************************************************)
(* The sleep layer (its request pair is detailed in PowerRequests) and     *)
(* Layer 1, the shutdown block reason and the WM_QUERYENDSESSION veto.     *)
(***************************************************************************)
SleepActivate(b) ==
  IF b.sleep
  THEN {Outcome(TRUE, b)}
  ELSE {Outcome(TRUE, [b EXCEPT !.sleep = TRUE]), Outcome(FALSE, b)}

SleepDeactivate(b) == [b EXCEPT !.sleep = FALSE]

ShutdownActivate(b) ==
  IF b.reason
  THEN {Outcome(TRUE, b)}
  ELSE {Outcome(TRUE, [b EXCEPT !.reason = TRUE, !.veto = TRUE]), Outcome(FALSE, b)}

\* Mutant: BLOCKER_ACTIVE cleared before ShutdownBlockReasonDestroy may fail.
ShutdownDeactivateFlagFirst(b) ==
  IF b.reason
  THEN {Outcome(TRUE, [b EXCEPT !.reason = FALSE, !.veto = FALSE]),
        Outcome(FALSE, [b EXCEPT !.veto = FALSE])}
  ELSE {Outcome(TRUE, [b EXCEPT !.veto = FALSE])}

\* Mutant: the early return looks at BLOCKER_ACTIVE instead of reason_registered.
ShutdownDeactivateIfActive(b) ==
  IF b.veto
  THEN {Outcome(TRUE, [b EXCEPT !.reason = FALSE, !.veto = FALSE]), Outcome(FALSE, b)}
  ELSE {Outcome(TRUE, b)}

ShutdownDeactivate(b) ==
  IF b.reason
  THEN {Outcome(TRUE, [b EXCEPT !.reason = FALSE, !.veto = FALSE]), Outcome(FALSE, b)}
  ELSE {Outcome(TRUE, [b EXCEPT !.veto = FALSE])}
-----------------------------------------------------------------------------
(***************************************************************************)
(* BlockerCoordinator.                                                     *)
(***************************************************************************)
\* Sleep, remote, update and local go off, in that order and without errors.
DeactivateOtherLayers(b) ==
  BackgroundDeactivate(
    BackgroundDeactivate(
      BackgroundDeactivate(SleepDeactivate(b), "remote"), "update"), "local")

\* Mutant: the rollback forgets the remote worker.
RollbackWithoutRemote(b) ==
  {Outcome(FALSE, d.b) :
     d \in ShutdownDeactivate(
             BackgroundDeactivate(BackgroundDeactivate(SleepDeactivate(b), "update"), "local"))}

RollbackFailedBlockActivation(b) ==
  {Outcome(FALSE, d.b) : d \in ShutdownDeactivate(DeactivateOtherLayers(b))}

ActivateBlockMode(b) ==
  LET activation == AndThen(AndThen(AndThen(AndThen(
                      LocalActivate(b),
                      UpdateActivate), RemoteActivate), SleepActivate), ShutdownActivate)
  IN UNION {IF r.ok THEN {r} ELSE RollbackFailedBlockActivation(r.b) : r \in activation}

\* Layer 1 first; its error is returned after the other layers went off as well.
ActivateAllowMode(b) ==
  {Outcome(d.ok, DeactivateOtherLayers(d.b)) : d \in ShutdownDeactivate(b)}

CoordinatorSetMode(b, m) ==
  IF b.mode = m
  THEN {Outcome(TRUE, b)}
  ELSE {IF r.ok THEN Outcome(TRUE, [r.b EXCEPT !.mode = m]) ELSE r :
          r \in IF m = "Block" THEN ActivateBlockMode(b) ELSE ActivateAllowMode(b)}

\* The end-session cleanup: Layers 3, 4 and sleep; neither Layer 1 nor Layer 2.
ForcedShutdownCleanup(b) ==
  [BeginForcedCleanup(SleepDeactivate(BeginForcedCleanup(b, "update")), "remote")
     EXCEPT !.mode = "Allow"]

\* A resumed runtime still in Block replaces its power requests; either step may fail.
RenewSleepRequests(b) ==
  IF b.mode = "Block"
  THEN {[b EXCEPT !.sleep = held] : held \in BOOLEAN}
  ELSE {b}

\* Field destructors of the coordinator; the block reason goes with its window.
DropCoordinator(b) == [DeactivateOtherLayers(b) EXCEPT !.reason = FALSE, !.veto = FALSE]
-----------------------------------------------------------------------------
(***************************************************************************)
(* Application: mode changes that keep the tray in step.                   *)
(***************************************************************************)
\* TrayServiceHandle::set_mode.  The tray thread handles its commands in order, so an
\* answer means that every earlier one was handled too; a timeout leaves the command queued.
SyncTray(t, m) ==
  LET handled == [t EXCEPT !.mode = m, !.cmds = << >>] IN
  IF surface = "Headless" THEN {[ok |-> TRUE, t |-> t]}
  ELSE IF ~t.alive THEN {[ok |-> FALSE, t |-> t]}
  ELSE {[ok |-> TRUE, t |-> handled]}
       \cup (IF surface = "Visible" THEN {[ok |-> FALSE, t |-> handled]} ELSE {})
       \cup (IF Len(t.cmds) < MaxTrayBacklog
             THEN {[ok |-> FALSE, t |-> [t EXCEPT !.cmds = Append(@, m)]]} ELSE {})

\* Mutant: the rolled-back mode is not sent to the tray again.
RollbackModeOnly(b, t, previous) ==
  {[ok |-> FALSE, b |-> r.b, t |-> t] : r \in CoordinatorSetMode(b, previous)}

\* A tray that could not follow makes the mode change roll back; both repairs may fail.
RollbackMode(b, t, previous) ==
  UNION {{[ok |-> FALSE, b |-> r.b, t |-> s.t] : s \in SyncTray(t, r.b.mode)} :
           r \in CoordinatorSetMode(b, previous)}

ApplicationSetMode(b, t, m) ==
  IF b.mode = m
  THEN {[ok |-> s.ok, b |-> b, t |-> s.t] : s \in SyncTray(t, m)}
  ELSE UNION {IF r.ok
              THEN UNION {IF s.ok THEN {[ok |-> TRUE, b |-> r.b, t |-> s.t]}
                                  ELSE RollbackMode(r.b, s.t, b.mode) :
                            s \in SyncTray(t, m)}
              ELSE {[ok |-> FALSE, b |-> r.b, t |-> t]} :
                r \in CoordinatorSetMode(b, m)}

\* Mutant: the restore is queued without looking at the mode the action began from.
PendingRestoreAlways(previous, a) ==
  IF a \in Suspends THEN PendingSuspend(a) ELSE NoRestore

PendingRestoreFor(previous, a) ==
  IF previous = "Block" /\ a \in Suspends THEN PendingSuspend(a) ELSE NoRestore

\* execute_power_action refused the action: back to Block if that is where it began.
RestoreAfterFailedAction(r, previous) ==
  IF previous = "Block"
  THEN {[ok |-> FALSE, b |-> x.b, t |-> x.t, pending |-> NoRestore] :
          x \in ApplicationSetMode(r.b, r.t, "Block")}
  ELSE {[ok |-> FALSE, b |-> r.b, t |-> r.t, pending |-> NoRestore]}

RunPowerAction(b, t, a) ==
  UNION {IF r.ok
         THEN {[ok |-> TRUE, b |-> r.b, t |-> r.t, pending |-> PendingRestoreFor(b.mode, a)]}
              \cup RestoreAfterFailedAction(r, b.mode)
         ELSE {[ok |-> FALSE, b |-> r.b, t |-> r.t, pending |-> NoRestore]} :
           r \in ApplicationSetMode(b, t, "Allow")}

\* restore_block_after_wake_if_needed: a failed restore leaves the tray alone, a failed
\* tray update leaves the restored mode alone.
RestoreBlockAfterWake(b, t) ==
  UNION {IF r.ok THEN {[b |-> r.b, t |-> s.t] : s \in SyncTray(t, r.b.mode)}
                 ELSE {[b |-> r.b, t |-> t]} :
           r \in CoordinatorSetMode(b, "Block")}
-----------------------------------------------------------------------------
(***************************************************************************)
(* The process: startup, the handlers of the UI thread, the other threads. *)
(***************************************************************************)
Init ==
  /\ phase = "boot"
  /\ surface = "Headless"
  /\ blk = BlockerOff
  /\ tray = [alive |-> FALSE, mode |-> "Block", cmds |-> << >>]
  /\ pending = NoRestore
  /\ forced = FALSE
  /\ cleanupStarted = FALSE
  /\ ended = FALSE
  /\ owed = FALSE
  /\ reply = NoReply

\* runtime_options_for the four actions that start a runtime.
RuntimeOptions ==
  {[initial_mode |-> "Block", tray_surface |-> "Visible"],    \* Default
   [initial_mode |-> "Block", tray_surface |-> "Headless"],   \* Block
   [initial_mode |-> "Allow", tray_surface |-> "Visible"],    \* Allow
   [initial_mode |-> "Block", tray_surface |-> "Hidden"]}     \* Hide

\* A failed coordinator, tray or pipe server drops what bootstrap built so far.
Bootstrap ==
  /\ phase = "boot"
  /\ \E o \in RuntimeOptions : \E c \in CoordinatorSetMode(BlockerOff, o.initial_mode) :
         \/ /\ c.ok
            /\ phase' = "booted"
            /\ surface' = o.tray_surface
            /\ blk' = c.b
            /\ tray' = [alive |-> o.tray_surface # "Headless", mode |-> c.b.mode, cmds |-> << >>]
         \/ /\ phase' = "stopped"
            /\ blk' = DropCoordinator(c.b)
            /\ UNCHANGED <<surface, tray>>
  /\ UNCHANGED <<pending, forced, cleanupStarted, ended, owed, reply>>

\* run: publishes the application and registers both window callbacks.
Run ==
  /\ phase = "booted"
  /\ phase' = "running"
  /\ cleanupStarted' = FALSE
  /\ UNCHANGED <<surface, blk, tray, pending, forced, ended, owed, reply>>

\* SetMode from the control pipe, and the tray's Block and Allow items: the pending
\* restore is cancelled before the mode change is tried.
RequestMode(m) ==
  /\ phase = "running"
  /\ pending' = NoRestore
  /\ \E r \in ApplicationSetMode(blk, tray, m) :
       /\ blk' = r.b
       /\ tray' = r.t
       /\ reply' = [to |-> m, ok |-> r.ok]
  /\ owed' = FALSE
  /\ UNCHANGED <<phase, surface, forced, cleanupStarted, ended>>

\* The tray's Shutdown, Reboot, Sleep and Hibernate items; only a tray that is there
\* can send one, possibly several in one drained batch.
TrayPowerAction(a) ==
  /\ phase = "running"
  /\ surface # "Headless"
  /\ \E r \in RunPowerAction(blk, tray, a) :
       /\ blk' = r.b
       /\ tray' = r.t
       /\ pending' = r.pending
       /\ reply' = [to |-> "Power", ok |-> r.ok]
       /\ owed' = (a \in Suspends /\ IF blk.mode = "Block" THEN r.ok ELSE owed)
  /\ UNCHANGED <<phase, surface, forced, cleanupStarted, ended>>

\* WM_POWERBROADCAST, suspend.
PowerSuspend ==
  /\ phase = "running"
  /\ pending' = IF pending = NoRestore THEN NoRestore
                ELSE [pending EXCEPT !.state = "WaitingForResume"]
  /\ reply' = NoReply
  /\ UNCHANGED <<phase, surface, blk, tray, forced, cleanupStarted, ended, owed>>

\* WM_POWERBROADCAST, resume: renew the sleep requests, then restore Block if it is due,
\* whether or not the suspend was seen.
PowerResume ==
  /\ phase = "running"
  /\ \E b \in RenewSleepRequests(blk) :
       IF pending = NoRestore
       THEN blk' = b /\ tray' = tray
       ELSE \E r \in RestoreBlockAfterWake(b, tray) : blk' = r.b /\ tray' = r.t
  /\ pending' = NoRestore
  /\ owed' = FALSE
  /\ reply' = NoReply
  /\ UNCHANGED <<phase, surface, forced, cleanupStarted, ended>>

\* WM_QUERYENDSESSION: refused exactly while BLOCKER_ACTIVE.
QueryEndSession ==
  /\ phase \in {"booted", "running"}
  /\ reply' = [to |-> "Query", ok |-> ~blk.veto]
  /\ UNCHANGED <<phase, surface, blk, tray, pending, forced, cleanupStarted, ended, owed>>

\* A confirmed WM_ENDSESSION.  It can reach the window while bootstrap runs
\* ensure_message_queue, before run has registered the cleanup callback.
EndSession ==
  LET callback == ~cleanupStarted /\ phase = "running" /\ ~forced IN
  /\ phase \in {"booted", "running"}
  /\ ended' = TRUE
  /\ cleanupStarted' = TRUE
  /\ IF callback
     THEN /\ forced' = TRUE
          /\ pending' = NoRestore
          /\ owed' = FALSE
          /\ blk' = ForcedShutdownCleanup([blk EXCEPT !.veto = FALSE])
     ELSE /\ blk' = [blk EXCEPT !.veto = FALSE]
          /\ UNCHANGED <<forced, pending, owed>>
  /\ reply' = NoReply
  /\ UNCHANGED <<phase, surface, tray>>

\* Quit, WM_QUIT or a failed WaitMessage: callbacks are cleared, shutdown turns the
\* coordinator to Allow and stops the tray, and the destructors run.
Shutdown ==
  /\ phase = "running"
  /\ phase' = "stopped"
  /\ \E r \in CoordinatorSetMode(blk, "Allow") : blk' = DropCoordinator(r.b)
  /\ tray' = [tray EXCEPT !.alive = FALSE, !.cmds = << >>]
  /\ cleanupStarted' = FALSE
  /\ reply' = NoReply
  /\ UNCHANGED <<surface, pending, forced, ended, owed>>

\* A worker's first check succeeded: it publishes its flag before it looks for a stop.
ThreadStarts(l) ==
  /\ blk.thread[l] = "starting"
  /\ blk' = [blk EXCEPT !.thread[l] = "running", !.active[l] = TRUE]
  /\ UNCHANGED <<phase, surface, tray, pending, forced, cleanupStarted, ended, owed, reply>>

ThreadReturns(l) ==
  /\ blk' = [blk EXCEPT !.thread[l] = "none", !.stopping[l] = FALSE, !.active[l] = FALSE]
  /\ UNCHANGED <<phase, surface, tray, pending, forced, cleanupStarted, ended, owed, reply>>

\* Mutant: the loop looks for the stop only while its own flag is up.
ThreadStopsIfActive(l) ==
  /\ blk.thread[l] = "running"
  /\ blk.stopping[l]
  /\ blk.active[l]
  /\ ThreadReturns(l)

\* A worker that received its stop leaves its loop.
ThreadStops(l) ==
  /\ blk.thread[l] = "running"
  /\ blk.stopping[l]
  /\ ThreadReturns(l)

\* A worker returns by itself: a failed start, poll, trace or task check.
ThreadFails(l) ==
  /\ blk.thread[l] # "none"
  /\ ThreadReturns(l)

\* The tray thread handles a SetMode whose sender has stopped waiting.
TrayThreadHandlesCommand ==
  /\ tray.alive
  /\ tray.cmds # << >>
  /\ tray' = [tray EXCEPT !.mode = Head(tray.cmds), !.cmds = Tail(tray.cmds)]
  /\ UNCHANGED <<phase, surface, blk, pending, forced, cleanupStarted, ended, owed, reply>>

\* The tray thread is gone (its set_mode then answers "lost contact").
TrayThreadDies ==
  /\ tray.alive
  /\ phase # "stopped"
  /\ tray' = [tray EXCEPT !.alive = FALSE, !.cmds = << >>]
  /\ UNCHANGED <<phase, surface, blk, pending, forced, cleanupStarted, ended, owed, reply>>

Terminated == phase = "stopped" /\ UNCHANGED vars

Next ==
  \/ Bootstrap
  \/ Run
  \/ \E m \in Modes : RequestMode(m)
  \/ \E a \in PowerActions : TrayPowerAction(a)
  \/ PowerSuspend
  \/ PowerResume
  \/ QueryEndSession
  \/ EndSession
  \/ Shutdown
  \/ \E l \in Background : ThreadStarts(l) \/ ThreadStops(l) \/ ThreadFails(l)
  \/ TrayThreadHandlesCommand
  \/ TrayThreadDies
  \/ Terminated

Spec == Init /\ [][Next]_vars

\* The threads are scheduled, and neither a worker's start nor the tray loop blocks for ever.
Fairness ==
  /\ \A l \in Background : WF_vars(ThreadStarts(l)) /\ WF_vars(ThreadStops(l))
  /\ WF_vars(TrayThreadHandlesCommand)

FairSpec == Spec /\ Fairness
-----------------------------------------------------------------------------
(***************************************************************************)
(* Properties.                                                             *)
(***************************************************************************)
BlockerType ==
  [mode : Modes, reason : BOOLEAN, veto : BOOLEAN, sleep : BOOLEAN,
   worker : [Background -> BOOLEAN], thread : [Background -> Threads],
   stopping : [Background -> BOOLEAN], active : [Background -> BOOLEAN]]

TrayType == [alive : BOOLEAN, mode : Modes, cmds : Seq(Modes)]

PendingType ==
  {NoRestore} \cup [state : {"PendingSuspend", "WaitingForResume"}, action : Suspends]

\* Every variable holds a value of its Rust type; in particular only a suspend action
\* is ever queued for restoration, and no more tray commands pile up than the bound.
TypeOK ==
  /\ phase \in {"boot", "booted", "running", "stopped"}
  /\ surface \in Surfaces
  /\ blk \in BlockerType
  /\ tray \in TrayType
  /\ Len(tray.cmds) <= MaxTrayBacklog
  /\ pending \in PendingType
  /\ forced \in BOOLEAN /\ cleanupStarted \in BOOLEAN
  /\ ended \in BOOLEAN /\ owed \in BOOLEAN
  /\ reply \in [to : Modes \cup {"None", "Power", "Query"}, ok : BOOLEAN]

LayersOff(b) ==
  /\ ~b.sleep
  /\ \A l \in Background :
       ~b.worker[l] /\ b.thread[l] = "none" /\ ~b.active[l] /\ ~b.stopping[l]

Released(b) == ~b.reason /\ ~b.veto /\ LayersOff(b)

\* Nothing the coordinator starts outlives Block mode: until Windows ends the session, a
\* runtime in Allow, and a stopped one, holds no block reason, veto, sleep request,
\* worker or worker thread, however many activations failed half-way (ARCHITECTURE.md:
\* "so the process does not remain half-armed").
AllowMeansReleased ==
  (blk.mode = "Allow" /\ ~ended) \/ phase = "stopped" => Released(blk)

\* Until Windows ends the session, a runtime in Block refuses WM_QUERYENDSESSION with its
\* reason registered, even when an attempt to leave Block failed.
BlockMeansVeto ==
  blk.mode = "Block" /\ ~ended /\ phase # "stopped" => blk.reason /\ blk.veto

\* The mode the tray thread was last told, whether or not it has handled it yet.
LastMode(t) == IF t.cmds = << >> THEN t.mode ELSE t.cmds[Len(t.cmds)]

\* The last mode the UI thread told a living tray thread is the coordinator's mode, across
\* timeouts, rollbacks, failed rollbacks and restores after wake.
TrayFollowsMode ==
  tray.alive /\ phase \in {"booted", "running"} /\ ~ended => LastMode(tray) = blk.mode

\* A queued restore exists only in Allow, and only if a tray suspend left Block and nobody
\* asked for a mode, or for a shutdown or reboot, since.
PendingIsOwed == pending # NoRestore => owed /\ blk.mode = "Allow"

\* The mode never changes by itself.  Block comes from startup, a Block request or an owed
\* restore; it goes with an Allow request, a power action, the end of the
\* session or the end of the process: no failure, rollback or resume switches it.
ModeChangesOnlyWhenAsked ==
  [][/\ blk.mode = "Allow" /\ blk'.mode = "Block" =>
          phase = "boot" \/ owed \/ reply'.to = "Block"
     /\ blk.mode = "Block" /\ blk'.mode = "Allow" =>
          reply'.to \in {"Allow", "Power"} \/ ended' \/ phase' = "stopped"]_vars

\* A process that survives WM_ENDSESSION keeps what the window procedure and the forced
\* cleanup leave behind: reason_registered without a veto, worker handles, Layer 2.  Every
\* later switch from Block to Allow that succeeds clears all of it, so that the Block after
\* it arms every layer again instead of returning early.
SurvivorReleases ==
  [][blk.mode = "Block" /\ blk'.mode = "Allow" =>
       Released(blk') \/ forced' # forced]_vars

\* Forced cleanup does not join its workers, but every worker it signalled ends, also one
\* that publishes active_state after the cleanup had cleared it.  (Its thread may have been
\* joined and replaced by a new one within one handler, so the stop itself is followed.)
ForcedCleanupStopsWorkers ==
  \A l \in Background : blk.stopping[l] ~> ~blk.stopping[l]

\* A tray thread that answers late still catches up: while it lives and the mode stays,
\* it shows that mode again and again.
TrayConverges ==
  \A m \in Modes :
    <>[](tray.alive /\ phase = "running" /\ ~ended /\ blk.mode = m) => []<>(tray.mode = m)

\* The runtime implements ProtectionMode; a stopped process counts as Allow.
Abstract ==
  INSTANCE ProtectionMode WITH
    mode <- IF phase = "stopped" THEN "Allow" ELSE blk.mode,
    veto <- blk.veto,
    committed <- ended

ImplementsProtectionMode == Abstract!Spec
=============================================================================
