# A TLA+ model of Wardoff

Wardoff keeps a Windows session from being shut down, restarted or put to idle sleep while it
is in *Block* mode, and lets everything through in *Allow* mode. This directory holds TLA+
modules for its concurrent core, the TLC configurations that check them on small instances,
and TLAPS proofs of the main safety properties for every value of the constants. Paths are
relative to the repository; line numbers of every definition are in `PROJECT.json` ("map").

## The system: an inventory

| Part | State | Operations | What is hard about it |
|---|---|---|---|
| `Application` (`src/main.rs`) | the coordinator, the tray handle, the IPC queue, `pending_block_restore_after_wake`, `forced_shutdown_cleanup_completed` | bootstrap, message loop, IPC and tray requests, power and session callbacks, shutdown | several failing steps with rollback; notifications missing, doubled or late |
| `BlockerCoordinator` (`src/blocker/mod.rs`) | `mode`, five layers | `set_mode`, rollback, forced cleanup, renewal, drop | one of five layers fails half-way |
| Layer 1, veto (`blocker/shutdown.rs`) | `reason_registered`, `BLOCKER_ACTIVE`, callbacks | activate, deactivate, `WM_QUERYENDSESSION`, `WM_ENDSESSION`, `WM_POWERBROADCAST` | a process that survives the end of its session |
| Layer 2, local (`blocker/local.rs`, `abort.rs`) | worker, ETW session and consumer handle | activate, deactivate, event callback | a blocking `ProcessTrace`, a handle closed by two threads |
| Layer 3, update task (`blocker/update.rs`) | worker, `active_state`, `RestoreState`, the scheduled task | activate, deactivate, forced cleanup, worker loop | the task outlives the process and others change it |
| Layer 4, remote (`blocker/remote.rs`, `abort.rs`) | worker, `active_state` | activate, deactivate, forced cleanup, polling | stop racing start |
| Sleep requests (`blocker/sleep.rs`) | handle, `acquired`, counts in the kernel | activate, release, renew | every Win32 call may fail, sleep ends requests silently |
| IPC (`src/ipc.rs`) | two workers, two one-instance pipes, request and response channels, `StatusShutdown` | startup handshake, serve, shutdown, client retries | threads that wait for each other |
| Tray (`src/tray/mod.rs`) | thread state, command and action channels, icon | `set_mode` with a timeout, autostart, Explorer restart | a late answer after a timeout |
| Policy (`src/runtime_policy.rs`) | none | pure decisions | |
| Autostart (`src/autostart.rs`) | the logon task, the tray's check mark | enable, disable, read | check mark stale against the task, a click that toggles it before anything happened |
| Instance and entry points (`src/instance.rs`, `session_scope.rs`, `windows_util.rs`, `main.rs`) | the session's mutex, the processes of the session | claim, probe, retry, forward, relaunch elevated or detached | probes, hand-offs and lost answers overlap |
| Logger (`src/logger/mod.rs`) | channel, writer thread, active and rotated files | log, rotate, append, read, shutdown | many small file steps, each of which may fail or be the last |
| Command line (`cli.rs`) | none | parsing | pure input |

The UI thread owns the `Application`. Requests reach it through a channel filled by the two
pipe workers, which wake it with a posted message and then wait for its answer; the tray
thread sends actions the same way and receives `SetMode` commands, waited for at most two
seconds. Layers 2-4 own a worker thread each. Windows calls the window procedure on the UI
thread.

## Modules

| Module | Models |
|---|---|
| `ProtectionMode` | abstract: the mode and the answer to `WM_QUERYENDSESSION` change together, in one step, until Windows commits to the end of the session |
| `Runtime` | `Application`, `BlockerCoordinator`, Layer 1, the controllers and lives of the workers of Layers 2-4, the tray thread's mode and command queue |
| `IpcServer` | both pipe workers, startup, the UI thread's side of requests and shutdown, clients |
| `UpdateLayer` | Layer 3 in detail: controller, worker, restore state, scheduled task, end of the process |
| `PowerRequests` | the sleep layer in detail, one action per Win32 call |
| `AbortLayers` | Layers 2 and 4 in detail: controllers, workers, the ETW session and its shared consumer handle, forced cleanup, aborts |
| `Autostart` | operators: reading and changing the logon task |
| `Tray` | the tray thread: commands, icon creation, Explorer restarts, menu clicks; the UI thread's autostart handlers (extends `Autostart`) |
| `Launch` | the processes of one session: claim, probe, forward, relaunch, run, quit |
| `Logger` | the structured log: writer, rotation, reader, end of the process |
| `MCRuntime`, `MCIpcServer` | instances for TLC, and statements of documents or comments that the code contradicts |
| `RuntimeProofs` (`Runtime`, `UpdateLayer` and `PowerRequests`), `AbortLayersProofs`, `IpcServerProofs`, `LaunchProofs`, `TrayProofs`, `LoggerWriterProofs`, `LoggerReaderProofs`, `LoggerProofs` | theorems and proofs |

Operators with a comment beginning "Mutant:" are plausible bugs of the definition
that follows them. They are not part of a specification; substituted for that definition,
each makes a property fail, which shows that the property depends on that line of the code.

### Runtime

A handler of the UI thread is one action, because none of them pumps messages: they wait only
in joins and on channels. A fallible call is the *set* of its outcomes, and
`AndThen` composes them like the code's `?`. `blk` is the coordinator with
`reason_registered`, `BLOCKER_ACTIVE`, the sleep pair as one flag, and for each background
layer `worker.is_some()`, where its thread is, whether a stop waits for it, and
`active_state`. `tray` holds the thread's mode and the `SetMode` commands whose sender timed
out. `owed`, `ended` and `reply` are history variables.

- `RequestMode` is `SetMode` from the pipe and the tray's Block and Allow items;
  `TrayPowerAction` the four power items; `PowerSuspend`, `PowerResume`, `QueryEndSession`,
  `EndSession` the window procedure; `Bootstrap`, `Run`, `Shutdown` the process.
- A visible tray may answer with an error after it has stored the mode; a hidden one has no
  icon to fail on; a headless runtime has none.
- `WM_ENDSESSION` is also allowed before `run` registers its callback: `bootstrap` peeks at
  the message queue after it has created the window, which lets Windows deliver sent messages.
- A join is taken as returning. `UpdateLayer` shows this for Layer 3 and `AbortLayers` for
  Layers 2 and 4, except for Layer 2 when Windows refuses both ways of ending its trace.

### IpcServer

`pc[w]` is the worker's place in its loop and `pipe[w]` the single instance of its pipe:
absent, free, or held by a caller. `Leave` ends the service of a caller with an answer and
drops the handle. The startup results are a queue, so they arrive in either order. The UI
thread's `ui` walks through `wait_for_server_startup`, the message loop, and then
`Application::shutdown` or `cleanup_failed_server_startup`, call by call. `SpawnFails` is a thread
that cannot be spawned: `start` returns at once, and a control worker that runs already serves
without anybody to stop it until the process ends. Timing assumption:
a caller's retry window (20 attempts, 100 ms apart) outlasts the gap between two instances of
a pipe, so a caller gives up only on a pipe whose worker is gone or that stays busy. Each
client sends one request.

### UpdateLayer

`Ensure` and `Disable` are the two Task Scheduler calls of `ensure_reboot_task_disabled`, so
somebody else may change the task between them; likewise `Restore` and `Enable`. `rs` merges
the two Booleans of `RestoreState` (the fourth combination does not occur). `Crash` ends the process without destructors:
everything but the task is lost.

### PowerRequests

One action per call of `PowerApi`; `ActivateRequests` and `DeactivateRequests` are
`SleepBlocker`'s `activate` and `deactivate` (these names, `RequestSpec` and `UpdateSpec` keep
`PowerRequests`, `UpdateLayer` and `Runtime` apart in `RuntimeProofs`). `held` counts the requests on the kernel object (external).
`WindowsEndsRequests` is the documented end of requests at user-initiated sleep.

### AbortLayers

The UI thread's calls on Layer 2 are one step each (`StartTraceW`, `EnableTraceEx2`,
`OpenTraceW`, spawn; then stop, close, join), because the worker runs between them. `handle`
is the shared `Option` the consumer handle is taken from, `consumer` the trace behind it.
`ProcessTrace` returns when the session is stopped or the consumer closed. `session` lives in
Windows: it survives `Crash`. `event` is an undelivered start of `shutdown.exe`; a shutdown
is `launched` before it is `pending`, so Layer 2 may look too early. A pending shutdown is
taken to stay abortable until it is aborted. `late` counts Layer 4's aborts after a forced
cleanup, which signals its worker and does not wait.

### Tray and Autostart

The thread's loop is pump, drain, wait. `controller` is the icon with its menu as the thread
knows it: `mode` and `autostart` are its fields, `box` the check mark the user sees, which
Windows toggles on a click before any handler runs. A click remembers what was shown.
`created` is `TASKBAR_CREATED_PENDING`, raised by the listener window when Explorer starts;
`setup` says whether the tray is visible, hidden, or visible without that window. Creation
succeeds when Explorer is up, and is retried when `due`. The UI thread's `batch` holds the
actions it has drained. `SetAutostartEnabled` is the whole of `set_autostart_enabled`: read,
change, and after a failure read again and send what was found. `stale` marks that somebody
else changed the task, or that it could not be read.

Consequences seen while modelling: a second click on the autostart item before the first is
answered sends the same request again; while Explorer is down the first mode change may fail
and be rolled back, and the next succeeds because no controller is left; without the
listener window the icon need not return.

### Launch

A process is its place in `main`, its command line, token and console. The named mutex exists
while anybody has a handle, so `handles` is the set of processes with one: a process that only
looks holds one between `ClaimSecondary` and `CloseProbe`. The pipes are reduced to whether a
primary serves them and what it answers; `IpcServer` has the rest. "Block" stands for the
Block, Allow and Hide actions. `Kill` may end any process anywhere. A primary may also hang for
ever while it starts, runs or stops (`Hang`): `IpcServer` shows two joins that need not return, and
`AbortLayers` one. Its clients wait with it, because the read of the answer has no timeout, or are
turned away by a worker that still lives (`ReplyOfStuck`). Timing assumption
(`ParentGone`): the connect attempts of a relaunched process, two seconds in all, outlast its
parent, which has nothing left to do but return from `main`.

Consequences seen while modelling: of two overlapping `--status` commands without a primary
one may take the other's probe for a primary and report an error instead of "inactive"; the
local `--autostart` path gives the session back before it changes the task.

### Logger

One step per file system call of `write_record` and `rotate_logs`, and per file of
`read_recent_lines`; each may fail, and `EndProcess` may come between any two. A record is
its number. A text is the sequence of its records, each with whether the end of its line has
followed, because the code writes that with a call of its own; a record without it shares its
line with the next. A failed append may leave the active file created and empty; that it
leaves part of a record is not modelled. Sizes are counted in records; all records have the
same size. One process writes at a time.

`ReadFile` is one step for all the calls that read a file up to its first end: a rotated file no
longer changes, and whatever is appended to the active one before its end is met is returned as if
it had been there, so those reads commute with the writer's steps until the last of them. What
follows does not: `BufRead::lines` returns an unfinished last line like any other, the `for` loop
asks for more, and `lines` looks at the file again. `ReadTail` is one such further look, `unread`
what the open file got since the last one, wherever a rotation renames it to (`Following`,
`Rename`). If only the end of the line has come since, the iterator returns an empty line.

Consequences: a command that reads while a record is written may print an empty line, which takes
the place of an entry of the tail (`README.md:165` says that `--log --tail 10` prints the newest 10
entries; `TailIsNewest` states what is printed and where an empty line can be);
a reader that meets a rotation may miss a file or fail, but never reorders or
repeats; records logged after the shutdown message are lost silently; a rename that keeps
failing loses retained files, but never the order.

## Runs

| Run | Configuration | Shows |
|---|---|---|
| `runtime` | `Runtime.cfg`, 42240 states | `AllowMeansReleased`: nothing outlives Block, however many activations failed. `BlockMeansVeto`: Block always vetoes until the session ends. `ModeChangesOnlyWhenAsked`: Block returns after wake only if it is owed. `TrayConverges`: the tray catches up with the mode across timeouts and rollbacks. `SurvivorReleases`: a process that survives the end of its session, left with a registered reason and no veto, gives everything back on its next change to Allow. `ForcedCleanupStopsWorkers`: a worker signalled before it has started still ends. `ImplementsProtectionMode`: refinement |
| `ipc` | `IpcServer.cfg`, two control clients and a status client, 279985 states | `OkMeansHandled`, `HandledAtMostOnce`; `ControlClientsAnswered`; `StopSettles`: a stop ends, or hangs in one of exactly two joins. Deadlock is checked: `Quiet` allows only a finished server and a join on a worker whose answer only the UI thread could give |
| `update` | `UpdateLayer.cfg`, two crashes, 912 states | `TaskRestored`, `EnablesOnlyOriginallyEnabled`, `DeactivateReturns` |
| `power_requests` | `PowerRequests.cfg` | `AllOrNothing`, `RenewalLeavesOnePair` |
| `abort_layers` | `AbortLayers.cfg`, 18356 states | `ConsumerClosedOnce`: two threads share a handle and close it once. `SessionHasOwner`: no path forgets an ETW session. `OffMeansSilent`: a stopped layer aborts nothing. `OneLateAbort`: after forced cleanup Layer 4 aborts at most once more. `DeactivateReturns`: the joins return. `PendingShutdownAborted`: Layer 4 catches what Layer 2 looked for too early |
| `tray` | `Tray.cfg`, 253488 states | `ControllerShowsState`, `CheckMarkSettles`, `ToggleMeansShown`: what the icon shows, what the thread knows, what the task is and what a click asks for agree, across refusals and rebuilds. `IconReturns`, `ClicksHandled`, `TrayShutdownReturns` |
| `launch` | `Launch.cfg`, 296474 states | `OnePrimary`, `EffectAtMostOnce`, `ExitOkMeansDone`, `HandOffSucceeds`; `SessionSettles`: every command ends, except at a primary that hangs |
| `logger` | `Logger.cfg`, 279229 states | `RetainsSuffix`, `RetentionBounds`: what a rotation keeps, half way through and after a crash in it too. `TailInOrder`, `TailIsNewest`: what a concurrent reader prints. `ShutdownFlushes`: shutdown returns, with everything queued dealt with |

Only `tray` checks `TypeOK`, which also says that a thread which has returned leaves no icon. The other type invariants, and a few more invariants named under "Proofs", are proved
for every instance and not checked again.

Deadlock is not checked where the system really may stop: a tray thread and an application
that have ended, a session in which nothing more is started, a log nobody writes to.

Four runs end in a violation: the code does not do what a comment or a document says.

| Run | What happens |
|---|---|
| `owed_restore` | a second tray suspend before the first resume replaces the queued restore by none |
| `accepted_block` | a failed switch to Allow stops Layers 2-4 but leaves the mode at Block; the next Block request answers Ok and starts nothing |
| `ipc_shutdown` | a status request sent after `reject_pending_ipc_requests`, by a worker that had tested the flag before, makes shutdown join for ever |
| `ipc_startup` | the status claim fails before the control worker's success is received: nobody stops the control worker, and the cleanup joins it for ever |

Three more statements are contradicted by single steps one can read off the models; they have
no run of their own. After a confirmed `WM_ENDSESSION` Layer 1's `is_active` still answers
true although nothing is vetoed (`src/blocker/shutdown.rs:146`). `forced_shutdown_cleanup`
does not signal Layer 2's worker (`docs/WINDOWS_SHUTDOWN_LAYERS.md:235`). After a process that
ended while the update task was disabled, the next one takes that for the original state and
does not restore it (`docs/WINDOWS_SHUTDOWN_LAYERS.md:150`).

### Bounds

- `MaxTrayBacklog = 2`: commands that timed out. Two are needed for a mode and its rollback
  to be queued together; longer backlogs add only older commands. The theorems hold for every
  bound.
- IPC: the two pipes share only the request queue and the UI thread. Two control clients let
  one be served while the next waits or is turned away; one status client meets every place of
  the status worker. Both initial claims may fail. The theorems hold for every set of clients.
- `MaxCrashes = 2`: a crash during an activation that itself followed a crash. The theorems
  hold for every number.
- `AbortLayers` needs no bound: every counter is bounded by the code.
- Tray: `MaxClicks = 1` menu event on its way to the UI thread and `MaxCommands = 1` command
  queued before a request is taken. A further click can come while the command that answers
  the first is still queued, which is when the check mark is not the state. All behaviours are
  unbounded in length, and the safety theorems hold for every bound.
- Launch: `MaxProcs = 3` is the smallest number in which a relaunched process, its parent and
  a stranger meet; two attempts each are the smallest number that has a first and a last. The
  theorems hold for every number.
- Logger: `MaxLogFiles = 3` has an oldest, a middle and an active file; `MaxLogRecords = 2`
  files that are partly full; `FullFiles = 2` makes the first record rotate; `Limit = 3`
  cuts inside a file; `MaxEvents = 8` is two rotations in a row. The safety theorems hold for
  every number of files from two on, every size, limit and number of records.

### Fairness

Only that threads keep running. `Runtime`: a started worker reaches its loop, a worker with a
stop message leaves it, and the tray thread handles its commands. `IpcServer`: each worker and
the UI thread take their enabled steps, and a posted wake-up brings the UI thread to its queue;
`read_request` is released by its one-second deadline. `UpdateLayer`: the worker and the join
proceed; that the recheck interval elapses is not assumed.
`AbortLayers`: each thread takes its enabled steps and `recv_timeout` returns. `Launch`: each
process takes its steps, and a primary starts, stops and answers unless it hangs, which it may do
at any time; that the clients of one that hangs are released is not assumed, and nobody need start
or quit anything. `Logger`: the writer and the join
proceed. `Tray`: both threads proceed, the retry time comes, a posted wake-up is received (that one
is posted is not assumed), and
requests do not come so fast that the tray thread never finds its queue empty (strong
fairness of the empty drain: the loop drains until `try_recv` fails, and requests are made by
people and commands). No client, failure, crash, outside change, Explorer restart or end of
the message loop is assumed to happen.

## Proofs

`RuntimeProofs` proves, for every `MaxTrayBacklog \in Nat`, `AllowMeansReleased`,
`BlockMeansVeto`, `TrayFollowsMode` (the last mode sent to a living tray is the coordinator's),
`PendingIsOwed` (a queued restore stems from a tray suspend out of Block),
`ModeChangesOnlyWhenAsked`, `SurvivorReleases` and the refinement of `ProtectionMode`. The invariants
of the runtime are not inductive alone: an activation that meets a worker thread without an
owner could leave it behind in Allow. `IInv` adds `Owned` (a thread, a stop and an active flag
belong to a worker the coordinator holds), that a living tray has a surface, and what holds
before startup. The argument follows the code's layers: lemmas say what each operator's
outcomes satisfy (`BackgroundDeactivateLemma` up to `ApplicationSetModeLemma` and
`RunPowerActionLemma`), in particular that a failed `set_mode` keeps the mode and the veto,
and one lemma per handler lifts this to the step. `Refinement` maps a stopped process to
Allow; a handler that fails and rolls back is a stutter of the abstract specification.

`RuntimeProofs` also holds the proofs of the two layers that have a module of their own. About
`UpdateLayer` it proves, for every `MaxCrashes \in Nat`, `ActiveMeansWatching`, `TaskRestored`
and `EnablesOnlyOriginallyEnabled`. `UpdateIInv` adds that the restore state
agrees with where the worker is, that no worker thread runs without a handle or a join (which
is why resetting the restore state in `activate` loses nothing), and that a task disabled by
Wardoff is marked for restoration while the worker lives.

About `PowerRequests` it proves `AllOrNothing`, `RenewalLeavesOnePair`, `NeverAccumulates` (no
request is set twice on a live object), `ActiveMeansHeld` and `NothingOutlivesItsHandle`.
`RequestIInv` adds what is counted on the object at each place (`Counted`), how far an acquisition has
come (`Progress`), and that a release inside an activation or renewal follows a failure.

`AbortLayersProofs` proves `ActiveMeansWatching` (a layer that says it is active watches),
`OffMeansSilent`, `ConsumerClosedOnce`, `SessionHasOwner` and `OneLateAbort`. Its `IInv` adds
`HandleFits` (a handle still stored has not been closed, and which places of the two threads
exclude one), `SessionFits` (a worker about to return has tried to stop its session) and
`PollFits` (only the poll that a stop request finds under way can be late).

`IpcServerProofs` proves `OkMeansHandled` and `HandledAtMostOnce` for
every set of clients. Its `IInv` adds whom a worker is connected to at each place (`Served`),
that a request is untouched until its worker has sent it and then queued or answered
(`Followed`), and that the queue holds each request once and none that was carried out or
answered (`QueueFresh`).

`LaunchProofs` proves `OnePrimary`, `EffectAtMostOnce`, `ExitOkMeansDone`, `HandOffSucceeds`
and `ElevatesOnce` (no chain of relaunches asks for elevation twice) for any number of
processes and attempts. A lemma reduces every step to one of a few shapes (a process moves,
relaunches itself, or ends), and one lemma per part of `IInv` shows that each shape keeps it.
`OnePrimary` needs that everybody who acts holds the mutex; `EffectAtMostOnce` that nobody has
an effect before the step that ends or starts its runtime; `HandOffSucceeds` that whoever
reclaims without having met a stranger has a parent that is gone.

`TrayProofs` proves `ControllerShowsState`, `ToggleMeansShown` and `CheckMarkSettles` for any
number of clicks and commands on their way. `ToggleMeansShown` needs `ClicksFit`: a click that
counts waits only until the thread has pumped its messages, so no command comes between what
the user saw and what the toggle negates. `CheckMarkSettles` needs `Informed` and `BoxFits`:
the last autostart command on its way carries the task's state, and a check mark that a click
has toggled has that click, its action or a command still to come. One lemma says what a
command does to the controller, three what sending and receiving do to `Informed`, and one
lemma per group of actions combines them.

`LoggerProofs`, on top of `LoggerWriterProofs` and `LoggerReaderProofs`, proves `RetainsSuffix`, `RetentionBounds`,
`TailInOrder`, `TailIsNewest` and `Flushed` (the safety half of `ShutdownFlushes`) for any
number and size of files, any limit and any number of records. Its `IInv`:

- `QueueFits`, `Ordered`, `Accounted`: the queue holds records in order, behind everything
  written, and the stop message last; every record is written, failed, or still queued.
- `Divides`: there are marks that divide the end of the log among the files, file i holding the
  records between marks i + 1 and i. Every step of a rotation shifts the marks: removing the
  oldest file raises the last one, a rename makes one interval empty. This is why a rotation
  that fails or is interrupted anywhere leaves neither a gap nor a repetition.
- `Steady`: until a rotation is cut short, all files but `Hole`, the one a rotation has just
  moved on, are full and without a gap, and all are there once a record was dropped. Counting
  full files between the first and the last mark gives the bound of `RetentionBounds`.
- `OneToALine`, `ReaderFits`: a record has a line of its own unless the end of one is missing;
  the reader holds only records older than those in the files it has still to read, which an
  append and a rename keep and which makes `TailInOrder` inductive.
- `UnreadFits`: what the open file got behind an end that was met too early is in order and newer
  than what the reader holds, and only its last record can still be without the end of its line.
- `CaughtUp`: undisturbed by a rotation, the reader holds the newest lines of what is retained
  in the files it has passed (`Held`); behind an early end, what it holds goes up to the record
  whose line was unfinished and `unread` goes on from there to the end of the log, with at most one
  empty line, its first (`HeldTail`); when it is done, it holds the log up to where it ended at
  some moment since the start (`HeldAll`).

`LoggerWriterProofs` shows what each of the writer's steps does to the files and that it keeps
the parts about queue, files and marks, and that lines which show a part of the log go on doing so
when more are put behind them, the first are dropped, or the log grows; `LoggerReaderProofs` does the same for the reader's steps
and its parts, under the hypothesis `LinesCounted` about the operators that select the newest
lines; `LoggerProofs` proves that hypothesis from the theorems on finite sets, and then the
theorems, none of which assumes it. What the recursive function behind `Retained` computes is
proved by induction: the provers cannot instantiate an induction theorem over an operator, but
they can use one over a *set* of natural numbers that holds 0 and is closed under successor
(`Induction`, from the least element of a set).

The type invariant of every component is proved too. The proofs assume only the named assumptions on
the constants. Model-checked only: all liveness properties, which are outside what the prover
supports, among them that `shutdown_structured_logging` returns.

## Not modelled

- Pipes: message framing, size limits, security descriptors, and the two-second budget that
  the status pipe shares with its fallback (real time). The control pipe is tried at least
  once even when the budget is used up.
- Tray: drawing the icons, menu layout, tooltips.
- Autostart: the contents of the task definition, reading access control lists.
- Logger: JSON, time stamps, validation of the directory beyond "may fail"; two processes that
  write at once, which the local `--autostart` path allows for a moment.
- Names of mutex and pipes (`session_scope.rs`), command-line parsing, dialogs: no state.
- The modules are checked one by one. What one assumes of another is named above: `Runtime`
  takes joins as returning, `Launch` takes a primary's answers, `Tray` leaves the result of a
  mode change to `Runtime`. Their product is too large to explore, and the parts share no
  state but these calls.
