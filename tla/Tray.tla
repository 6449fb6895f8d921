-------------------------------- MODULE Tray --------------------------------
(***************************************************************************)
(* The tray service (tray/mod.rs) and Start with Windows (autostart.rs and *)
(* the handlers of main.rs): the tray thread's loop, the UI thread that    *)
(* sends it commands and carries out its menu actions, the scheduled task  *)
(* \Wardoff, and Explorer, which may end and restart at any moment.        *)
(*                                                                         *)
(* Explorer, the user, other programs that change the task, and the menu   *)
(* library are external.  The library toggles the check mark of a clicked  *)
(* check item by itself; MenuEvents are kept in a queue that outlives the  *)
(* controller.  Only the autostart item depends on the tray's state and is *)
(* followed from click to effect.  The others reach the UI thread the same *)
(* way: Block, Allow and the power items are SetMode commands it may send  *)
(* at any time (Runtime models the rest of them), Quit is LeaveLoop.       *)
(***************************************************************************)
EXTENDS Naturals, Sequences, Autostart

CONSTANTS
  MaxClicks,    \* bound: menu events between the menu and the UI thread
  MaxCommands,  \* bound: commands queued when the UI thread accepts a new request
  Modes,        \* the modes the runtime starts in and is asked for
  Setups        \* "visible", "hidden", and "deaf": visible without a listener window

ASSUME BoundsAssumption == MaxClicks \in Nat /\ MaxCommands \in Nat
ASSUME ModesAssumption == Modes \subseteq {"Block", "Allow"}
ASSUME SetupsAssumption == Setups \subseteq {"visible", "hidden", "deaf"}

VARIABLES
  at,          \* where run_tray_thread is in its loop, "gone" once it returned
  mode,        \* TrayThreadState::mode
  autostart,   \* TrayThreadState::autostart_enabled
  due,         \* next_retry_at has been reached (of no account with a controller)
  controller,  \* NoController, or what the controller shows
  clicks,      \* external: the MenuEvent queue
  created,     \* external: TaskbarCreated waits for the listener window
  commands,    \* command_tx ... command_rx
  actions,     \* action_tx ... action_rx
  posted,      \* a TRAY_ACTION_WAKE_MESSAGE waits in the UI thread's queue
  batch,       \* the drained actions process_tray_actions still has to handle
  ui,          \* where the UI thread is
  task,        \* external: the scheduled task
  explorer,    \* external: whether Explorer accepts icons
  icon,        \* external: the notification area shows the icon
  setup,       \* the TrayVisibility, and whether the listener window was created
  stale        \* history: the task was changed, or not read, since the UI thread knew it

vars == <<at, mode, autostart, due, controller, clicks, created, commands, actions,
          posted, batch, ui, task, explorer, icon, setup, stale>>

threadVars == <<mode, autostart, due, controller, icon>>
uiVars     == <<batch, ui, stale>>

Opposite == [on |-> "off", off |-> "on"]

NoController == [mode |-> "none"]
HasController == controller # NoController

SetMode(m)      == [kind |-> "SetMode", mode |-> m]
SetAutostart(v) == [kind |-> "SetAutostart", value |-> v]
Shutdown        == [kind |-> "Shutdown"]

Init ==
  /\ at = "pump" /\ mode \in Modes /\ autostart = "off" /\ due = TRUE
  /\ controller = NoController /\ clicks = <<>> /\ created = FALSE
  /\ commands = <<>> /\ actions = <<>> /\ posted = FALSE
  /\ batch = <<>> /\ ui = "boot"
  /\ task \in TaskStates /\ explorer \in {"up", "down"}
  /\ icon = FALSE /\ setup \in Setups
  /\ stale = TRUE

-----------------------------------------------------------------------------
(***************************************************************************)
(* The tray thread.                                                        *)
(***************************************************************************)
\* reset_tray_controller: the icon goes with its controller, a retry is due at once.
Reset ==
  /\ controller' = NoController /\ icon' = FALSE /\ due' = TRUE
  /\ clicks' = [i \in DOMAIN clicks |-> "other"]

\* Mutant: the toggle negates the check mark, which the click has already toggled.
ActionNegatesBox(shown) == [value |-> Opposite[controller.box], shown |-> shown]

\* action_for_menu_id: the toggle negates the state the controller was last told.
ActionFor(shown) == [value |-> Opposite[controller.autostart], shown |-> shown]

\* forward_tray_actions: without a controller the events wait for the next one; the UI
\* thread is woken once for all of them, and a failed wake-up is only logged.
ForwardActions ==
  IF HasController /\ clicks # <<>>
  THEN /\ actions' = actions \o [i \in DOMAIN clicks |-> ActionFor(clicks[i])]
       /\ clicks' = <<>>
       /\ posted' \in {TRUE, posted}
  ELSE UNCHANGED <<actions, clicks, posted>>

\* Mutant: TaskbarCreated is not acted upon.
PumpIgnoresRestart ==
  /\ at = "pump"
  /\ at' = "drain"
  /\ created' = FALSE
  /\ ForwardActions
  /\ UNCHANGED <<controller, icon, due, mode, autostart, commands, uiVars, task, explorer,
                 setup>>

\* Mutant: TASKBAR_CREATED_PENDING is read without being cleared.
PumpKeepsPending ==
  /\ at = "pump"
  /\ at' = "drain"
  /\ UNCHANGED created
  /\ \/ created /\ Reset /\ UNCHANGED <<actions, posted>>
     \/ ~created /\ ForwardActions /\ UNCHANGED <<controller, icon, due>>
  /\ UNCHANGED <<mode, autostart, commands, uiVars, task, explorer, setup>>

\* The top of the loop: pump_windows_messages, handle_taskbar_created and, when that has
\* not taken the controller away, forward_tray_actions.
PumpMessages ==
  /\ at = "pump"
  /\ at' = "drain"
  /\ created' = FALSE
  /\ \/ created /\ Reset /\ UNCHANGED <<actions, posted>>
     \/ ~created /\ ForwardActions /\ UNCHANGED <<controller, icon, due>>
  /\ UNCHANGED <<mode, autostart, commands, uiVars, task, explorer, setup>>

Shown(m, v) == [mode |-> m, autostart |-> v, box |-> v]

\* apply_current_tray_state with the new state: nothing to do without a controller; one
\* whose icon the notification area has lost may refuse, and is then thrown away.
Apply(m, v) ==
  /\ mode' = m /\ autostart' = v
  /\ \/ /\ controller' = IF HasController THEN Shown(m, v) ELSE NoController
        /\ UNCHANGED <<icon, due, clicks>>
     \/ HasController /\ setup # "hidden" /\ ~icon /\ Reset

\* Mutant: the thread returns without dropping its controller.
ShutdownLeavesIcon(next) ==
  LET c == Head(commands) IN
  /\ commands' = Tail(commands)
  /\ \/ c.kind = "SetMode" /\ at' = next /\ Apply(c.mode, autostart)
     \/ c.kind = "SetAutostart" /\ at' = next /\ Apply(mode, c.value)
     \/ c.kind = "Shutdown" /\ at' = "gone" /\ UNCHANGED <<threadVars, clicks>>

\* handle_tray_command
HandleCommand(next) ==
  LET c == Head(commands) IN
  /\ commands' = Tail(commands)
  /\ \/ /\ c.kind = "SetMode"
        /\ at' = next
        /\ Apply(c.mode, autostart)
     \/ /\ c.kind = "SetAutostart"
        /\ at' = next
        /\ Apply(mode, c.value)
     \/ /\ c.kind = "Shutdown"
        /\ at' = "gone" /\ controller' = NoController /\ icon' = FALSE
        /\ UNCHANGED <<mode, autostart, due, clicks>>

\* Mutant: a rebuilt controller keeps the state it was built with.
AttemptAsBuilt ==
  IF ~HasController /\ due
  THEN IF explorer = "up"
       THEN controller' = Shown("Block", "off") /\ icon' = (setup # "hidden") /\ UNCHANGED due
       ELSE due' = FALSE /\ UNCHANGED <<controller, icon>>
  ELSE UNCHANGED <<controller, icon, due>>

\* attempt_tray_creation: the controller is built in Block mode with the box off, then
\* brought to the thread's state; a failure is retried after two seconds.
AttemptCreation ==
  IF ~HasController /\ due
  THEN IF explorer = "up"
       THEN controller' = Shown(mode, autostart) /\ icon' = (setup # "hidden") /\ UNCHANGED due
       ELSE due' = FALSE /\ UNCHANGED <<controller, icon>>
  ELSE UNCHANGED <<controller, icon, due>>

\* The rest of the loop: every command already queued, then a missing controller.
DrainCommands ==
  /\ at = "drain"
  /\ \/ commands # <<>> /\ HandleCommand("drain")
     \/ /\ commands = <<>> /\ AttemptCreation
        /\ at' = "wait"
        /\ UNCHANGED <<mode, autostart, clicks, commands>>
  /\ UNCHANGED <<created, actions, posted, uiVars, task, explorer, setup>>

\* recv_timeout: one command, a timeout, or the end when bootstrap dropped the service.
WaitCommand ==
  /\ at = "wait"
  /\ IF commands # <<>> THEN HandleCommand("pump")
     ELSE /\ at' = IF ui = "failed" THEN "gone" ELSE "pump"
          /\ IF ui = "failed" THEN controller' = NoController /\ icon' = FALSE
                              ELSE UNCHANGED <<controller, icon>>
          /\ UNCHANGED <<mode, autostart, due, clicks, commands>>
  /\ UNCHANGED <<created, actions, posted, uiVars, task, explorer, setup>>

\* TRAY_RETRY_INTERVAL has passed.
RetryDue ==
  /\ ~due
  /\ due' = TRUE
  /\ UNCHANGED <<at, mode, autostart, controller, icon, clicks, created, commands,
                 actions, posted, uiVars, task, explorer, setup>>

ThreadStep == PumpMessages \/ DrainCommands \/ WaitCommand

-----------------------------------------------------------------------------
(***************************************************************************)
(* The UI thread.                                                          *)
(***************************************************************************)
\* TrayServiceHandle::set_autostart_enabled: a lost tray thread is only logged.
SyncAutostart(v) == commands' = Append(commands, SetAutostart(v))

\* refresh_autostart_tray_state at the end of bootstrap: an unreadable task counts as off.
RefreshAutostart ==
  /\ ui = "boot"
  /\ ui' = "loop"
  /\ \E r \in IsEnabled(task) :
       /\ stale' = (r = "unknown")
       /\ SyncAutostart(IF r = "unknown" THEN "off" ELSE r)
  /\ UNCHANGED <<at, threadVars, clicks, created, actions, posted, batch, task, explorer, setup>>

\* The pipe servers could not start: bootstrap returns and drops the tray service.
BootstrapFails ==
  /\ ui = "boot"
  /\ ui' = "failed"
  /\ UNCHANGED <<at, threadVars, clicks, created, commands, actions, posted, batch,
                 task, explorer, setup, stale>>

\* A message arrives: process_tray_actions drains the channel.
TakeActions ==
  /\ ui = "loop" /\ batch = <<>> /\ (posted \/ actions # <<>>)
  /\ batch' = [i \in DOMAIN actions |-> actions[i].value]
  /\ actions' = <<>> /\ posted' = FALSE
  /\ UNCHANGED <<at, threadVars, clicks, created, commands, ui, task,
                 explorer, setup, stale>>

\* autostart::set_enabled, by a process elevated or not, wherever it is installed.
Outcomes(v) == UNION {SetEnabled(v, task, e, w) : e \in BOOLEAN, w \in Locations}

\* Mutant: after a failure the check mark is set to what was asked for.
SetRestoresWanted(v) ==
  /\ \E o \in Outcomes(v) :
       /\ task' = o.task
       /\ stale' = IF o.result = "Ok" THEN FALSE ELSE stale
       /\ SyncAutostart(v)
  /\ UNCHANGED <<at, threadVars, clicks, created, actions, posted, ui, explorer, setup>>

\* Application::set_autostart_enabled, for a menu action or an IPC request: the previous
\* state is read and the task is changed.  After a failure the state resolved from both
\* readings restores the check mark; without one it is left as it is.
SetAutostartEnabled(v) ==
  /\ \E o \in Outcomes(v), previous, current \in IsEnabled(task) :
       LET known == IF o.result = "Ok" THEN v ELSE Resolved(previous, current) IN
       /\ task' = o.task
       /\ stale' = (known = "unknown")
       /\ IF known = "unknown" THEN UNCHANGED commands ELSE SyncAutostart(known)
  /\ UNCHANGED <<at, threadVars, clicks, created, actions, posted, ui, explorer, setup>>

\* TrayServiceHandle::set_mode.  That the UI thread waits up to two seconds for the result,
\* and what it makes of it, is modelled in Runtime; here it may go on at once.
SendMode(m) ==
  /\ commands' = Append(commands, SetMode(m))
  /\ UNCHANGED <<at, threadVars, clicks, created, actions, posted, ui, task,
                 explorer, setup, stale>>

\* handle_tray_action for the next drained action.
HandleTrayAction ==
  /\ ui = "loop" /\ batch # <<>>
  /\ batch' = Tail(batch)
  /\ SetAutostartEnabled(Head(batch))

\* A mode or autostart request over the control pipe, or a resume that restores Block.
HandleRequest ==
  /\ ui = "loop" /\ batch = <<>> /\ Len(commands) < MaxCommands
  /\ \/ \E v \in Switch : SetAutostartEnabled(v)
     \/ \E m \in Modes : SendMode(m)
  /\ UNCHANGED batch

\* Mutant: the tray thread is joined without being told to end.
JoinSilently ==
  /\ ui = "quit"
  /\ ui' = "join"
  /\ UNCHANGED <<at, threadVars, clicks, created, commands, actions, posted, batch,
                 task, explorer, setup, stale>>

\* TrayServiceHandle::shutdown: tell the thread ...
ShutdownTray ==
  /\ ui = "quit"
  /\ ui' = "join"
  /\ commands' = Append(commands, Shutdown)
  /\ UNCHANGED <<at, threadVars, clicks, created, actions, posted, batch, task, explorer, setup, stale>>

\* ... and join it.
JoinTray ==
  /\ ui = "join" /\ at = "gone"
  /\ ui' = "done"
  /\ UNCHANGED <<at, threadVars, clicks, created, commands, actions, posted, batch,
                 task, explorer, setup, stale>>

\* A Quit action, which leaves the rest of its batch, or the end of the message loop.
LeaveLoop ==
  /\ ui = "loop"
  /\ ui' = "quit" /\ batch' = <<>>
  /\ UNCHANGED <<at, threadVars, clicks, created, commands, actions, posted, task, explorer, setup, stale>>

-----------------------------------------------------------------------------
(***************************************************************************)
(* The user, Explorer and other programs.                                  *)
(***************************************************************************)
\* A click while the tray thread dispatches messages.  `shown` is the check mark the user
\* saw, or "other" when an earlier click had toggled it.
Click ==
  /\ at = "pump" /\ icon /\ HasController
  /\ Len(clicks) + Len(actions) + Len(batch) < MaxClicks
  /\ clicks' = Append(clicks, IF controller.box = controller.autostart
                              THEN controller.box ELSE "other")
  /\ controller' = [controller EXCEPT !.box = Opposite[@]]
  /\ UNCHANGED <<at, mode, autostart, due, icon, created, commands, actions, posted,
                 uiVars, task, explorer, setup>>

ExplorerEnds ==
  /\ explorer = "up" /\ at # "gone"
  /\ explorer' = "down" /\ icon' = FALSE
  /\ UNCHANGED <<at, mode, autostart, due, controller, clicks, created, commands,
                 actions, posted, uiVars, task, setup>>

\* A new Explorer broadcasts TaskbarCreated.
ExplorerStarts ==
  /\ explorer = "down" /\ at # "gone"
  /\ explorer' = "up" /\ created' = (setup # "deaf")
  /\ UNCHANGED <<at, threadVars, clicks, commands, actions, posted, uiVars, task, setup>>

\* Another program, or an administrator, changes the task while the UI thread uses it.
TaskChanged ==
  /\ ui \in {"boot", "loop"}
  /\ task' \in TaskStates \ {task}
  /\ stale' = TRUE
  /\ UNCHANGED <<at, threadVars, clicks, created, commands, actions, posted, batch,
                 ui, explorer, setup>>

-----------------------------------------------------------------------------
UiStep ==
  \/ RefreshAutostart \/ BootstrapFails \/ HandleTrayAction \/ ShutdownTray \/ JoinTray

Next ==
  \/ ThreadStep \/ RetryDue
  \/ TakeActions \/ HandleRequest \/ LeaveLoop \/ UiStep
  \/ Click
  \/ ExplorerEnds \/ ExplorerStarts \/ TaskChanged

Spec == Init /\ [][Next]_vars

\* Both threads keep running, bootstrap ends, time passes, a posted wake-up is received,
\* and requests do not come so fast that the tray thread never finds its queue empty.
Fairness ==
  /\ WF_vars(ThreadStep) /\ WF_vars(RetryDue) /\ SF_vars(commands = <<>> /\ DrainCommands)
  /\ WF_vars(UiStep) /\ WF_vars(posted /\ TakeActions)

FairSpec == Spec /\ Fairness

-----------------------------------------------------------------------------
Seen    == Switch \cup {"other"}
Actions == [value : Switch, shown : Seen]
Commands ==
  [kind : {"SetMode"}, mode : Modes] \cup
  [kind : {"SetAutostart"}, value : Switch] \cup {Shutdown}

\* The variables' types; a thread that has returned leaves no icon behind.
TypeOK ==
  /\ at \in {"pump", "drain", "wait", "gone"}
  /\ mode \in Modes /\ autostart \in Switch /\ due \in BOOLEAN
  /\ controller \in {NoController} \cup [mode : Modes, autostart : Switch, box : Switch]
  /\ clicks \in Seq(Seen) /\ created \in BOOLEAN
  /\ commands \in Seq(Commands)
  /\ actions \in Seq(Actions) /\ posted \in BOOLEAN /\ batch \in Seq(Switch)
  /\ ui \in {"boot", "failed", "loop", "quit", "join", "done"}
  /\ task \in TaskStates /\ explorer \in {"up", "down"}
  /\ icon \in BOOLEAN /\ setup \in Setups
  /\ stale \in BOOLEAN
  /\ at = "gone" => ~HasController /\ ~icon

\* Whatever was refused and rebuilt, the controller shows the mode and the autostart state
\* the thread was last told, never the Block and off it is built with.
ControllerShowsState ==
  HasController => controller.mode = mode /\ controller.autostart = autostart

NoSync == \A i \in DOMAIN commands : commands[i].kind # "SetAutostart"

\* Once every request has been answered and applied, the tray thread's autostart state is
\* the task's, unless another program changed the task since, or it could not be read; and
\* the check mark the user sees is that state, although every click toggles it.
CheckMarkSettles ==
  ui = "loop" /\ NoSync /\ ~stale =>
    /\ autostart = TaskEnabled(task)
    /\ HasController /\ clicks = <<>> /\ actions = <<>> /\ batch = <<>> => controller.box = autostart

\* The toggle sent to the UI thread is the opposite of what the user saw, except for a
\* second click before the first was answered, or a controller rebuilt in between.
ToggleMeansShown ==
  \A i \in DOMAIN actions :
    actions[i].shown # "other" => actions[i].value = Opposite[actions[i].shown]

\* After a restart of Explorer the icon comes back, and keeps coming back, if there is a
\* listener window and Explorer stays up.
IconReturns ==
  setup = "visible" /\ <>[](explorer = "up") => []<>(icon \/ at = "gone")

\* A menu action is forwarded even if the controller is rebuilt under it, and the UI thread
\* handles what the tray thread sent it, or is leaving.  A wake-up that could not be posted
\* loses no action: it stays in the channel and goes with the next wake-up that arrives.
ClicksHandled ==
  /\ <>[](explorer = "up") => (clicks # <<>> ~> clicks = <<>> \/ at = "gone")
  /\ actions # <<>> ~>
       actions = <<>> \/ ui \in {"failed", "quit", "join", "done"} \/ []~posted

\* The orderly shutdown does not wait for ever for the tray thread.
TrayShutdownReturns == ui = "join" ~> ui = "done"
=============================================================================
