----------------------------- MODULE TrayProofs -----------------------------
(***************************************************************************)
(* Proofs about Tray, for any number of clicks and commands on their way:  *)
(* the icon shows what the tray thread knows, a toggle means what was      *)
(* shown, and the check mark settles on the state of the scheduled task.   *)
(***************************************************************************)
EXTENDS Tray, TLAPS

Controllers == [mode : Modes, autostart : Switch, box : Switch]

\* A click that still counts waits only until the thread has pumped its messages, so no
\* command comes between what the user saw and what the toggle negates.
ClicksFit ==
  \A i \in DOMAIN clicks :
    clicks[i] # "other" => at = "pump" /\ HasController /\ clicks[i] = controller.autostart

\* The last autostart command on its way carries the task's state; without one the thread
\* has it already.
Informed ==
  \/ stale
  \/ NoSync /\ autostart = TaskEnabled(task)
  \/ \E i \in DOMAIN commands :
       /\ commands[i].kind = "SetAutostart" /\ commands[i].value = TaskEnabled(task)
       /\ \A j \in DOMAIN commands : j > i => commands[j].kind # "SetAutostart"

\* A check mark that a click has toggled is on its way to be set again.
BoxFits ==
  /\ ui = "loop" /\ NoSync /\ ~stale /\ HasController
  /\ clicks = <<>> /\ actions = <<>> /\ batch = <<>>
  => controller.box = autostart

IInv ==
  /\ TypeOK
  /\ ControllerShowsState
  /\ ToggleMeansShown
  /\ ClicksFit
  /\ Informed
  /\ BoxFits

USE ModesAssumption, SetupsAssumption DEF Switch, Seen
-----------------------------------------------------------------------------
(***************************************************************************)
(* Sequences and records.                                                  *)
(***************************************************************************)
\* Receiving the head of a queue, as the tray thread and process_tray_actions do.
LEMMA TailFacts ==
  ASSUME NEW S, NEW q \in Seq(S), q # <<>>
  PROVE  /\ Tail(q) \in Seq(S) /\ Head(q) = q[1] /\ 1 \in DOMAIN q /\ q[1] \in S
         /\ \A i \in DOMAIN Tail(q) : i + 1 \in DOMAIN q /\ Tail(q)[i] = q[i + 1] /\ i \in Nat
         /\ \A i \in DOMAIN q : i # 1 => i - 1 \in DOMAIN Tail(q) /\ Tail(q)[i - 1] = q[i]
         /\ \A i \in DOMAIN q : i \in Nat
OBVIOUS

\* Sending to a queue, as the UI thread and the menu do.
LEMMA AppendFacts ==
  ASSUME NEW S, NEW q \in Seq(S), NEW e \in S
  PROVE  /\ Append(q, e) \in Seq(S)
         /\ Len(q) \in Nat /\ DOMAIN q = 1 .. Len(q)
         /\ DOMAIN Append(q, e) = 1 .. (Len(q) + 1)
         /\ Append(q, e)[Len(q) + 1] = e
         /\ \A i \in DOMAIN q : Append(q, e)[i] = q[i]
OBVIOUS

\* Converting every element of a queue keeps its length.
LEMMA MapFacts ==
  ASSUME NEW S, NEW T, NEW q \in Seq(S), NEW f \in [DOMAIN q -> T]
  PROVE  /\ f \in Seq(T) /\ DOMAIN f = DOMAIN q
         /\ f = <<>> => q = <<>>
OBVIOUS

\* A batch of events appended to a queue: each element comes from one of the two.
LEMMA ConcatFacts ==
  ASSUME NEW S, NEW q \in Seq(S), NEW r \in Seq(S)
  PROVE  /\ q \o r \in Seq(S)
         /\ \A i \in DOMAIN (q \o r) :
              \/ i \in DOMAIN q /\ (q \o r)[i] = q[i]
              \/ \E j \in DOMAIN r : (q \o r)[i] = r[j]
         /\ q \o r = <<>> => q = <<>> /\ r = <<>>
OBVIOUS

\* What handle_tray_command finds in a command.
LEMMA CommandFacts ==
  ASSUME NEW c \in Commands
  PROVE  \/ c.kind = "SetMode" /\ c.mode \in Modes
         \/ c.kind = "SetAutostart" /\ c.value \in Switch
         \/ c.kind = "Shutdown"
BY DEF Commands, Shutdown

\* A controller brought to a state is one, and shows it.
LEMMA ShownFacts ==
  ASSUME NEW m \in Modes, NEW v \in Switch
  PROVE  /\ Shown(m, v) \in Controllers /\ Shown(m, v) # NoController
         /\ Shown(m, v).mode = m /\ Shown(m, v).autostart = v /\ Shown(m, v).box = v
BY DEF Shown, Controllers, NoController

-----------------------------------------------------------------------------
(***************************************************************************)
(* What the tray thread's operations do.                                   *)
(***************************************************************************)
\* reset_tray_controller turns the waiting clicks into ones about no controller.
LEMMA ResetFacts ==
  ASSUME TypeOK, Reset
  PROVE  /\ clicks' \in Seq(Seen) /\ \A i \in DOMAIN clicks' : clicks'[i] = "other"
         /\ controller' = NoController
         /\ clicks' = <<>> => clicks = <<>>
<1>1. clicks' \in [DOMAIN clicks -> Seen]
  BY DEF Reset, TypeOK
<1>2. /\ clicks' \in Seq(Seen) /\ DOMAIN clicks' = DOMAIN clicks
      /\ clicks' = <<>> => clicks = <<>>
  BY <1>1, MapFacts DEF TypeOK
<1>3. \A i \in DOMAIN clicks' : clicks'[i] = "other"
  BY DEF Reset
<1>. QED
  BY <1>2, <1>3 DEF Reset

\* handle_tray_command leaves no controller, or one that shows the thread's state; none of the
\* clicks that still wait counts.
LEMMA HandleCommandFacts ==
  ASSUME IInv, NEW next \in {"drain", "pump"}, at # "pump", commands # <<>>,
         HandleCommand(next)
  PROVE  /\ at' \in {next, "gone"} /\ mode' \in Modes /\ autostart' \in Switch
         /\ commands' = Tail(commands)
         /\ \/ controller' = NoController
            \/ at' # "gone" /\ HasController /\ controller' = Shown(mode', autostart')
         /\ clicks' \in Seq(Seen) /\ \A i \in DOMAIN clicks' : clicks'[i] = "other"
         /\ at' = "gone" => ~icon'
         /\ IF Head(commands).kind = "SetAutostart" THEN autostart' = Head(commands).value
                                                    ELSE autostart' = autostart
<1> DEFINE c == Head(commands)
<1>1. c \in Commands
  BY TailFacts DEF IInv, TypeOK
<1>2. \A i \in DOMAIN clicks : clicks[i] = "other"
  BY DEF IInv, ClicksFit
<1>3. CASE c.kind = "SetMode" /\ at' = next /\ Apply(c.mode, autostart)
  <2>1. c.mode \in Modes
    BY <1>1, <1>3, CommandFacts
  <2>2. autostart \in Switch /\ TypeOK
    BY DEF IInv, TypeOK
  <2> HIDE DEF c
  <2>3. /\ mode' = c.mode /\ autostart' = autostart
        /\ controller' = NoController \/ (HasController /\ controller' = Shown(c.mode, autostart))
        /\ clicks' \in Seq(Seen)
        /\ clicks' = clicks \/ (\A i \in DOMAIN clicks' : clicks'[i] = "other")
    BY <2>2, <1>3, ResetFacts DEF Apply, TypeOK
  <2>. QED
    BY <2>1, <2>2, <2>3, <1>2, <1>3 DEF HandleCommand, c
<1>4. CASE c.kind = "SetAutostart" /\ at' = next /\ Apply(mode, c.value)
  <2>1. c.value \in Switch
    BY <1>1, <1>4, CommandFacts
  <2>2. mode \in Modes /\ TypeOK
    BY DEF IInv, TypeOK
  <2> HIDE DEF c
  <2>3. /\ mode' = mode /\ autostart' = c.value
        /\ controller' = NoController \/ (HasController /\ controller' = Shown(mode, c.value))
        /\ clicks' \in Seq(Seen)
        /\ clicks' = clicks \/ (\A i \in DOMAIN clicks' : clicks'[i] = "other")
    BY <2>2, <1>4, ResetFacts DEF Apply, TypeOK
  <2>. QED
    BY <2>1, <2>2, <2>3, <1>2, <1>4 DEF HandleCommand, c
<1>5. CASE /\ c.kind = "Shutdown"
           /\ at' = "gone" /\ controller' = NoController /\ icon' = FALSE
           /\ UNCHANGED <<mode, autostart, due, clicks>>
  <2>1. ~icon'
    BY <1>5, Zenon
  <2>. QED
    BY <2>1, <1>2, <1>5 DEF IInv, TypeOK, HandleCommand
<1>. QED
  BY <1>3, <1>4, <1>5, Zenon DEF HandleCommand

\* The types of the Boolean variables.
Booleans ==
  /\ due \in BOOLEAN /\ created \in BOOLEAN /\ posted \in BOOLEAN
  /\ icon \in BOOLEAN /\ stale \in BOOLEAN

\* Every action assigns them truth values only.
LEMMA BooleanStep ==
  ASSUME Booleans, Next
  PROVE  Booleans'
<1>1. CASE PumpMessages
  <2>1. created' \in BOOLEAN /\ stale' \in BOOLEAN
    BY <1>1, Zenon DEF PumpMessages, uiVars, Booleans
  <2>2. CASE Reset /\ UNCHANGED posted
    BY <2>1, <2>2, Zenon DEF Reset, Booleans
  <2>3. CASE ForwardActions /\ UNCHANGED <<icon, due>>
    <3>1. posted' \in BOOLEAN
      BY <2>3, Zenon DEF ForwardActions, Booleans
    <3>. QED
      BY <2>1, <2>3, <3>1, Zenon DEF Booleans
  <2>. QED
    BY <1>1, <2>2, <2>3, Zenon DEF PumpMessages
<1>2. ASSUME NEW next, HandleCommand(next)
      PROVE  icon' \in BOOLEAN /\ due' \in BOOLEAN
  <2>1. CASE Reset
    BY <2>1, Zenon DEF Reset
  <2>2. CASE UNCHANGED <<icon, due>>
    BY <2>2, Zenon DEF Booleans
  <2>3. CASE icon' = FALSE /\ UNCHANGED due
    BY <2>3, Zenon DEF Booleans
  <2>. QED
    BY <1>2, <2>1, <2>2, <2>3, Zenon DEF HandleCommand, Apply
<1>3. CASE DrainCommands
  <2>1. created' \in BOOLEAN /\ stale' \in BOOLEAN /\ posted' \in BOOLEAN
    BY <1>3, Zenon DEF DrainCommands, uiVars, Booleans
  <2>2. CASE AttemptCreation
    BY <2>2, <2>1, Zenon DEF AttemptCreation, Booleans
  <2>. QED
    BY <1>2, <1>3, <2>1, <2>2, Zenon DEF DrainCommands, Booleans
<1>4. CASE WaitCommand
  <2>1. created' \in BOOLEAN /\ stale' \in BOOLEAN /\ posted' \in BOOLEAN
    BY <1>4, Zenon DEF WaitCommand, uiVars, Booleans
  <2>. QED
    BY <1>2, <1>4, <2>1, Zenon DEF WaitCommand, Booleans
<1>5. CASE RetryDue
  BY <1>5, Zenon DEF RetryDue, uiVars, Booleans
<1>6. CASE RefreshAutostart
  BY <1>6, Zenon DEF RefreshAutostart, threadVars, Booleans
<1>7. CASE TakeActions
  BY <1>7, Zenon DEF TakeActions, threadVars, Booleans
<1>8. ASSUME NEW v, SetAutostartEnabled(v)
      PROVE  Booleans'
  BY <1>8, Zenon DEF SetAutostartEnabled, threadVars, Booleans
<1>9. CASE HandleTrayAction
  BY <1>9, Zenon DEF HandleTrayAction, SetAutostartEnabled, threadVars, Booleans
<1>10. CASE HandleRequest
  <2>1. CASE \E m \in Modes : SendMode(m)
    BY <2>1, Zenon DEF SendMode, threadVars, Booleans
  <2>. QED
    BY <1>8, <1>10, <2>1, Zenon DEF HandleRequest
<1>11. CASE BootstrapFails \/ ShutdownTray \/ JoinTray \/ LeaveLoop
  BY <1>11, Zenon DEF BootstrapFails, ShutdownTray, JoinTray, LeaveLoop, threadVars, Booleans
<1>12. CASE Click
  BY <1>12, Zenon DEF Click, uiVars, Booleans
<1>13. CASE ExplorerEnds
  BY <1>13, Zenon DEF ExplorerEnds, uiVars, Booleans
<1>14. CASE ExplorerStarts
  BY <1>14, Zenon DEF ExplorerStarts, threadVars, uiVars, Booleans
<1>15. CASE TaskChanged
  BY <1>15, Zenon DEF TaskChanged, threadVars, Booleans
<1>. QED
  BY <1>1, <1>3, <1>4, <1>5, <1>6, <1>7, <1>9, <1>10, <1>11, <1>12, <1>13, <1>14, <1>15, Zenon
  DEF Next, ThreadStep, UiStep

-----------------------------------------------------------------------------
(***************************************************************************)
(* The command channel.                                                    *)
(***************************************************************************)
\* Applying a command leaves the thread informed, whether or not it was the last of its kind.
LEMMA ReceiveInformed ==
  ASSUME IInv, commands # <<>>, commands' = Tail(commands), UNCHANGED <<task, stale>>,
         IF Head(commands).kind = "SetAutostart" THEN autostart' = Head(commands).value
                                                 ELSE autostart' = autostart
  PROVE  Informed'
<1>1. commands \in Seq(Commands)
  BY DEF IInv, TypeOK
<1>2. CASE stale
  BY <1>2 DEF Informed
<1>3. CASE NoSync /\ autostart = TaskEnabled(task)
  BY <1>1, <1>3, TailFacts DEF Informed, NoSync
<1>4. ASSUME NEW i \in DOMAIN commands,
             commands[i].kind = "SetAutostart", commands[i].value = TaskEnabled(task),
             \A j \in DOMAIN commands : j > i => commands[j].kind # "SetAutostart"
      PROVE  Informed'
  <2>1. CASE i = 1
    <3>1. autostart' = TaskEnabled(task')
      BY <1>1, <1>4, <2>1, TailFacts
    <3>2. NoSync'
      BY <1>1, <1>4, <2>1, TailFacts DEF NoSync
    <3>. QED
      BY <3>1, <3>2 DEF Informed
  <2>2. CASE i # 1
    <3>1. /\ i - 1 \in DOMAIN commands'
          /\ commands'[i - 1].kind = "SetAutostart"
          /\ commands'[i - 1].value = TaskEnabled(task')
      BY <1>1, <1>4, <2>2, TailFacts
    <3>2. \A j \in DOMAIN commands' : j > i - 1 => commands'[j].kind # "SetAutostart"
      <4> SUFFICES ASSUME NEW j \in DOMAIN commands', j > i - 1
                   PROVE  commands'[j].kind # "SetAutostart"
        OBVIOUS
      <4>1. j + 1 \in DOMAIN commands /\ commands'[j] = commands[j + 1] /\ j \in Nat /\ i \in Nat
        BY <1>1, TailFacts
      <4>. QED
        BY <1>4, <4>1
    <3>. QED
      BY <3>1, <3>2 DEF Informed
  <2>. QED
    BY <2>1, <2>2
<1>. QED
  BY <1>2, <1>3, <1>4 DEF IInv, Informed

\* A SetAutostart command with the task's state is now the last one.
LEMMA SyncInformed ==
  ASSUME TypeOK, task' \in TaskStates, SyncAutostart(TaskEnabled(task'))
  PROVE  /\ commands' \in Seq(Commands)
         /\ Informed' /\ ~NoSync'
<1> DEFINE c == SetAutostart(TaskEnabled(task'))
<1>1. c \in Commands /\ c.kind = "SetAutostart" /\ c.value = TaskEnabled(task')
  BY DEF SetAutostart, Commands, TaskEnabled
<1>2. commands \in Seq(Commands) /\ commands' = Append(commands, c)
  BY DEF TypeOK, SyncAutostart
<1> HIDE DEF c
<1>3. /\ commands' \in Seq(Commands) /\ Len(commands) \in Nat
      /\ DOMAIN commands' = 1 .. (Len(commands) + 1)
      /\ commands'[Len(commands) + 1] = c
  BY <1>1, <1>2, AppendFacts
<1>. QED
  BY <1>1, <1>3 DEF Informed, NoSync

\* Any other command leaves the last SetAutostart the last.
LEMMA SendInformed ==
  ASSUME IInv, NEW c \in Commands, c.kind # "SetAutostart", commands' = Append(commands, c),
         UNCHANGED <<task, stale, autostart>>
  PROVE  /\ commands' \in Seq(Commands)
         /\ Informed' /\ (NoSync' => NoSync)
<1>1. commands \in Seq(Commands)
  BY DEF IInv, TypeOK
<1>2. /\ commands' \in Seq(Commands) /\ Len(commands) \in Nat
      /\ DOMAIN commands = 1 .. Len(commands)
      /\ DOMAIN commands' = 1 .. (Len(commands) + 1)
      /\ commands'[Len(commands) + 1] = c
      /\ \A i \in DOMAIN commands : commands'[i] = commands[i]
  BY <1>1, AppendFacts
<1>3. NoSync' <=> NoSync
  BY <1>2 DEF NoSync
<1>4. Informed'
  <2>1. CASE stale \/ NoSync
    BY <1>2, <1>3, <2>1 DEF IInv, Informed, NoSync
  <2>2. ASSUME NEW i \in DOMAIN commands,
               commands[i].kind = "SetAutostart", commands[i].value = TaskEnabled(task),
               \A j \in DOMAIN commands : j > i => commands[j].kind # "SetAutostart"
        PROVE  Informed'
    <3>1. \A j \in DOMAIN commands' : j > i => commands'[j].kind # "SetAutostart"
      BY <1>2, <2>2
    <3>. QED
      BY <1>2, <2>2, <3>1 DEF Informed
  <2>. QED
    BY <2>1, <2>2 DEF IInv, Informed
<1>. QED
  BY <1>2, <1>3, <1>4

\* set_enabled: Ok means that the task is as asked for, an error that it is as before.
LEMMA OutcomeFacts ==
  ASSUME NEW v \in Switch, NEW t \in TaskStates, NEW e, NEW w, NEW o \in SetEnabled(v, t, e, w)
  PROVE  /\ o.task \in TaskStates
         /\ o.result = "Ok" => TaskEnabled(o.task) = v
         /\ o.result # "Ok" => o.task = t
BY DEF SetEnabled, RegisterTask, RemoveTask, TaskStates, TaskEnabled

\* Application::set_autostart_enabled either tells the tray the task's state or, when that
\* is not known, leaves it alone.
LEMMA SetAutostartFacts ==
  ASSUME IInv, NEW v \in Switch, SetAutostartEnabled(v)
  PROVE  /\ task' \in TaskStates
         /\ \/ stale' /\ UNCHANGED commands
            \/ SyncAutostart(TaskEnabled(task'))
         /\ UNCHANGED <<at, threadVars, clicks, created, actions, posted, ui, explorer, setup>>
<1>1. task \in TaskStates
  BY DEF IInv, TypeOK
<1>2. PICK o \in Outcomes(v), previous \in IsEnabled(task), current \in IsEnabled(task) :
        LET known == IF o.result = "Ok" THEN v ELSE Resolved(previous, current) IN
        /\ task' = o.task
        /\ stale' = (known = "unknown")
        /\ IF known = "unknown" THEN UNCHANGED commands ELSE SyncAutostart(known)
  BY DEF SetAutostartEnabled
<1>3. PICK e \in BOOLEAN, w \in Locations : o \in SetEnabled(v, task, e, w)
  BY <1>2 DEF Outcomes
<1>4. /\ o.task \in TaskStates
      /\ o.result = "Ok" => TaskEnabled(o.task) = v
      /\ o.result # "Ok" => o.task = task
  BY <1>1, <1>3, OutcomeFacts
<1> DEFINE known == IF o.result = "Ok" THEN v ELSE Resolved(previous, current)
<1>5. known = "unknown" \/ known = TaskEnabled(task')
  BY <1>2, <1>4 DEF Resolved, IsEnabled
<1>6. CASE known = "unknown"
  <2>1. stale' /\ UNCHANGED commands
    BY <1>2, <1>6, Zenon
  <2>. QED
    BY <1>2, <1>4, <2>1 DEF SetAutostartEnabled
<1>7. CASE known # "unknown"
  BY <1>2, <1>4, <1>5, <1>7 DEF SetAutostartEnabled, SyncAutostart
<1>. QED
  BY <1>6, <1>7

-----------------------------------------------------------------------------
(***************************************************************************)
(* The inductive invariant.                                                *)
(***************************************************************************)
\* run_tray_thread starts without a controller, and nothing is known of the task.
LEMMA InitIInv == Init => IInv
<1> SUFFICES ASSUME Init PROVE IInv
  OBVIOUS
<1>1. Booleans
  BY Zenon DEF Init, Booleans
<1>2. TypeOK
  BY <1>1 DEF Init, TypeOK, Booleans, TaskStates, HasController
<1>3. ControllerShowsState /\ ToggleMeansShown /\ ClicksFit
  BY DEF Init, ControllerShowsState, ToggleMeansShown, ClicksFit, HasController
<1>4. Informed /\ BoxFits
  BY DEF Init, Informed, BoxFits
<1>. QED
  BY <1>2, <1>3, <1>4 DEF IInv

\* The parts of TypeOK that are not Boolean.
Typed ==
  /\ at \in {"pump", "drain", "wait", "gone"}
  /\ mode \in Modes /\ autostart \in Switch
  /\ controller \in {NoController} \cup Controllers
  /\ clicks \in Seq(Seen) /\ commands \in Seq(Commands)
  /\ actions \in Seq(Actions) /\ batch \in Seq(Switch)
  /\ ui \in {"boot", "failed", "loop", "quit", "join", "done"}
  /\ task \in TaskStates /\ explorer \in {"up", "down"} /\ setup \in Setups
  /\ at = "gone" => ~HasController /\ ~icon

\* TypeOK is the two parts together.
LEMMA TypeSplit == TypeOK <=> Booleans /\ Typed
BY DEF TypeOK, Booleans, Typed, Controllers

\* What an action has to keep besides the Boolean types.
Rest == Typed /\ ControllerShowsState /\ ToggleMeansShown /\ ClicksFit /\ Informed /\ BoxFits

\* The top of the loop hands on what the user saw.
LEMMA PumpStep ==
  ASSUME IInv, PumpMessages
  PROVE  Rest'
<1>1. Typed /\ TypeOK
  BY TypeSplit DEF IInv
<1>2. /\ at = "pump" /\ at' = "drain"
      /\ UNCHANGED <<mode, autostart, commands, batch, ui, stale, task, explorer, setup>>
  BY DEF PumpMessages, uiVars
<1>3. Informed'
  BY <1>2 DEF IInv, Informed, NoSync
<1>4. CASE Reset /\ UNCHANGED actions
  <2>1. Typed'
    BY <1>1, <1>2, <1>4, ResetFacts DEF Typed
  <2>2. ControllerShowsState' /\ ToggleMeansShown' /\ ClicksFit' /\ BoxFits'
    BY <1>1, <1>4, ResetFacts
    DEF IInv, ControllerShowsState, ToggleMeansShown, ClicksFit, BoxFits, HasController
  <2>. QED
    BY <1>3, <2>1, <2>2 DEF Rest
<1>5. CASE HasController /\ clicks # <<>> /\ ForwardActions /\ UNCHANGED controller
  <2> DEFINE sent == [i \in DOMAIN clicks |-> ActionFor(clicks[i])]
  <2>1. controller \in Controllers /\ clicks \in Seq(Seen) /\ actions \in Seq(Actions)
    BY <1>1, <1>5 DEF Typed, HasController
  <2>2. \A i \in DOMAIN clicks :
          /\ ActionFor(clicks[i]) \in Actions
          /\ ActionFor(clicks[i]).shown # "other" =>
               ActionFor(clicks[i]).value = Opposite[ActionFor(clicks[i]).shown]
    BY <2>1 DEF ActionFor, Actions, Controllers, Opposite, IInv, ClicksFit
  <2>3. sent \in [DOMAIN clicks -> Actions]
    BY <2>2
  <2>4. sent \in Seq(Actions) /\ DOMAIN sent = DOMAIN clicks /\ sent # <<>>
    BY <1>5, <2>1, <2>3, MapFacts
  <2>5. actions' = actions \o sent /\ clicks' = <<>>
    BY <1>5 DEF ForwardActions
  <2>6. \A j \in DOMAIN sent : sent[j].shown # "other" => sent[j].value = Opposite[sent[j].shown]
    BY <2>2
  <2> HIDE DEF sent
  <2>7. /\ actions' \in Seq(Actions) /\ actions' # <<>>
        /\ \A i \in DOMAIN actions' :
             \/ i \in DOMAIN actions /\ actions'[i] = actions[i]
             \/ \E j \in DOMAIN sent : actions'[i] = sent[j]
    BY <2>1, <2>4, <2>5, ConcatFacts
  <2>8. ToggleMeansShown'
    BY <2>6, <2>7 DEF IInv, ToggleMeansShown
  <2>9. Typed'
    BY <1>1, <1>2, <1>5, <2>5, <2>7 DEF Typed
  <2>10. ControllerShowsState' /\ ClicksFit' /\ BoxFits'
    BY <1>2, <1>5, <2>5, <2>7 DEF IInv, ControllerShowsState, ClicksFit, BoxFits, HasController
  <2>. QED
    BY <1>3, <2>8, <2>9, <2>10 DEF Rest
<1>6. CASE UNCHANGED <<actions, clicks, controller>> /\ ~(HasController /\ clicks # <<>>)
  <2>1. Typed'
    BY <1>1, <1>2, <1>6 DEF Typed, HasController
  <2>2. ControllerShowsState' /\ ToggleMeansShown' /\ ClicksFit' /\ BoxFits'
    BY <1>1, <1>2, <1>6 DEF IInv, ControllerShowsState, ToggleMeansShown, ClicksFit, BoxFits,
                            HasController, NoSync
  <2>. QED
    BY <1>3, <2>1, <2>2 DEF Rest
<1>. QED
  BY <1>4, <1>5, <1>6, Zenon DEF PumpMessages, ForwardActions

\* A command brings controller and thread to the same state.
LEMMA CommandStep ==
  ASSUME IInv, NEW next \in {"drain", "pump"}, at # "pump", commands # <<>>,
         HandleCommand(next),
         UNCHANGED <<actions, batch, ui, stale, task, explorer, setup>>
  PROVE  Rest'
<1>1. Typed /\ TypeOK
  BY TypeSplit DEF IInv
<1>2. /\ at' \in {next, "gone"} /\ mode' \in Modes /\ autostart' \in Switch
      /\ commands' = Tail(commands)
      /\ \/ controller' = NoController
         \/ at' # "gone" /\ HasController /\ controller' = Shown(mode', autostart')
      /\ clicks' \in Seq(Seen) /\ (\A i \in DOMAIN clicks' : clicks'[i] = "other")
      /\ at' = "gone" => ~icon'
      /\ IF Head(commands).kind = "SetAutostart" THEN autostart' = Head(commands).value
                                                 ELSE autostart' = autostart
  BY HandleCommandFacts
<1>3. Informed'
  BY <1>2, ReceiveInformed
<1>4. \/ controller' = NoController
      \/ /\ at' # "gone" /\ controller' \in Controllers
         /\ controller'.mode = mode' /\ controller'.autostart = autostart'
         /\ controller'.box = autostart'
  BY <1>2, ShownFacts
<1>5. Typed'
  <2>1. commands' \in Seq(Commands)
    BY <1>1, <1>2, TailFacts DEF Typed
  <2>. QED
    BY <1>1, <1>2, <1>4, <2>1 DEF Typed, HasController
<1>6. ControllerShowsState' /\ ClicksFit' /\ BoxFits' /\ ToggleMeansShown'
  BY <1>2, <1>4 DEF IInv, ControllerShowsState, ToggleMeansShown, ClicksFit, BoxFits, HasController
<1>. QED
  BY <1>3, <1>5, <1>6 DEF Rest

\* The rest of the loop.
LEMMA ThreadRest ==
  ASSUME IInv, DrainCommands \/ WaitCommand
  PROVE  Rest'
<1>1. Typed /\ TypeOK
  BY TypeSplit DEF IInv
<1>2. at \in {"drain", "wait"} /\ UNCHANGED <<actions, batch, ui, stale, task, explorer, setup>>
  BY DEF DrainCommands, WaitCommand, uiVars
<1>3. CASE commands # <<>>
  <2>1. HandleCommand("drain") \/ HandleCommand("pump")
    BY <1>3, Zenon DEF DrainCommands, WaitCommand
  <2>. QED
    BY <1>2, <1>3, <2>1, CommandStep
<1>4. ASSUME UNCHANGED <<mode, autostart, clicks, commands>>, at' \in {"wait", "pump", "gone"},
             \/ controller' = NoController
             \/ at' # "gone" /\ UNCHANGED controller
             \/ at' # "gone" /\ controller' = Shown(mode, autostart),
             at' = "gone" => ~HasController' /\ ~icon'
      PROVE  Rest'
  <2>1. \/ controller' = NoController
        \/ UNCHANGED controller
        \/ /\ controller' \in Controllers
           /\ controller'.mode = mode' /\ controller'.autostart = autostart'
           /\ controller'.box = autostart'
    BY <1>1, <1>4, ShownFacts DEF Typed
  <2>2. Typed'
    BY <1>1, <1>2, <1>4, <2>1 DEF Typed
  <2>3. ControllerShowsState' /\ ToggleMeansShown' /\ ClicksFit'
    BY <1>2, <1>4, <2>1 DEF IInv, ControllerShowsState, ToggleMeansShown, ClicksFit, HasController
  <2>4. Informed' /\ BoxFits'
    BY <1>2, <1>4, <2>1 DEF IInv, Informed, BoxFits, NoSync, HasController
  <2>. QED
    BY <2>2, <2>3, <2>4 DEF Rest
<1>5. CASE commands = <<>>
  <2>1. CASE DrainCommands
    <3>1. at' = "wait" /\ AttemptCreation /\ UNCHANGED <<mode, autostart, clicks, commands>>
      BY <1>5, <2>1 DEF DrainCommands
    <3>. QED
      BY <1>4, <3>1 DEF AttemptCreation
  <2>2. CASE WaitCommand /\ ui = "failed"
    <3>1. /\ at' = "gone" /\ controller' = NoController /\ ~icon'
          /\ UNCHANGED <<mode, autostart, clicks, commands>>
      BY <1>5, <2>2 DEF WaitCommand
    <3>. QED
      BY <1>4, <3>1 DEF HasController
  <2>3. CASE WaitCommand /\ ui # "failed"
    <3>1. at' = "pump" /\ UNCHANGED <<controller, mode, autostart, clicks, commands>>
      BY <1>5, <2>3 DEF WaitCommand
    <3>. QED
      BY <1>4, <3>1
  <2>. QED
    BY <2>1, <2>2, <2>3
<1>. QED
  BY <1>3, <1>5

\* A change of the task, by a menu action or a request, reaches the tray or is owned up to.
LEMMA ChangeStep ==
  ASSUME IInv, NEW v \in Switch, SetAutostartEnabled(v), batch' \in Seq(Switch)
  PROVE  Rest'
<1>1. Typed /\ TypeOK
  BY TypeSplit DEF IInv
<1>2. /\ task' \in TaskStates
      /\ \/ stale' /\ UNCHANGED commands
         \/ SyncAutostart(TaskEnabled(task'))
      /\ UNCHANGED <<at, mode, autostart, controller, icon, clicks, actions, ui, explorer, setup>>
  BY SetAutostartFacts DEF threadVars
<1>3. /\ commands' \in Seq(Commands)
      /\ Informed' /\ (stale' \/ ~NoSync')
  <2>1. CASE stale' /\ UNCHANGED commands
    BY <1>1, <2>1 DEF Typed, Informed
  <2>2. CASE SyncAutostart(TaskEnabled(task'))
    BY <1>1, <1>2, <2>2, SyncInformed
  <2>. QED
    BY <1>2, <2>1, <2>2
<1>4. Typed'
  BY <1>1, <1>2, <1>3 DEF Typed, HasController
<1>5. ControllerShowsState' /\ ToggleMeansShown' /\ ClicksFit'
  BY <1>2 DEF IInv, ControllerShowsState, ToggleMeansShown, ClicksFit, HasController
<1>6. BoxFits'
  BY <1>3 DEF BoxFits
<1>. QED
  BY <1>3, <1>4, <1>5, <1>6 DEF Rest

\* The other steps of the UI thread.
LEMMA UiRest ==
  ASSUME IInv, \/ RefreshAutostart \/ BootstrapFails \/ TakeActions \/ LeaveLoop
               \/ ShutdownTray \/ JoinTray \/ \E m \in Modes : SendMode(m) /\ UNCHANGED batch
  PROVE  Rest'
<1>1. Typed /\ TypeOK
  BY TypeSplit DEF IInv
<1>2. UNCHANGED <<at, mode, autostart, controller, icon, clicks, task, explorer, setup>>
  BY DEF RefreshAutostart, BootstrapFails, TakeActions, LeaveLoop, ShutdownTray, JoinTray,
         SendMode, threadVars
<1>3. ControllerShowsState' /\ ClicksFit'
  BY <1>2 DEF IInv, ControllerShowsState, ClicksFit, HasController
<1>4. ASSUME commands' \in Seq(Commands), Informed', BoxFits', UNCHANGED actions,
             batch' \in Seq(Switch), ui' \in {"boot", "failed", "loop", "quit", "join", "done"}
      PROVE  Rest'
  <2>1. Typed'
    BY <1>1, <1>2, <1>4 DEF Typed, HasController
  <2>2. ToggleMeansShown'
    BY <1>4 DEF IInv, ToggleMeansShown
  <2>. QED
    BY <1>3, <1>4, <2>1, <2>2 DEF Rest
<1>5. CASE RefreshAutostart
  <2>1. PICK r \in IsEnabled(task) :
          /\ stale' = (r = "unknown")
          /\ SyncAutostart(IF r = "unknown" THEN "off" ELSE r)
    BY <1>5 DEF RefreshAutostart
  <2>2. UNCHANGED <<actions, batch>> /\ ui' = "loop"
    BY <1>5 DEF RefreshAutostart
  <2>3. CASE r = "unknown"
    <3>1. stale'
      BY <2>1, <2>3, Zenon
    <3>2. SetAutostart("off") \in Commands
      BY DEF SetAutostart, Commands
    <3>3. commands' = Append(commands, SetAutostart("off"))
      BY <2>1, <2>3 DEF SyncAutostart
    <3>4. commands' \in Seq(Commands)
      BY <1>1, <3>2, <3>3, AppendFacts DEF Typed
    <3>. QED
      BY <1>1, <1>4, <2>2, <3>1, <3>4 DEF Informed, BoxFits, Typed
  <2>4. CASE r = TaskEnabled(task) /\ r # "unknown"
    <3>1. task' \in TaskStates /\ SyncAutostart(TaskEnabled(task'))
      BY <1>1, <1>2, <2>1, <2>4 DEF Typed, SyncAutostart
    <3>2. commands' \in Seq(Commands) /\ Informed' /\ ~NoSync'
      BY <1>1, <3>1, SyncInformed
    <3>. QED
      BY <1>1, <1>4, <2>2, <3>2 DEF BoxFits, Typed
  <2>. QED
    BY <2>3, <2>4 DEF IsEnabled
<1>6. CASE BootstrapFails \/ JoinTray \/ LeaveLoop
  <2>1. /\ UNCHANGED <<commands, actions, stale>> /\ batch' \in Seq(Switch)
        /\ ui' \in {"failed", "quit", "done"}
    <3>1. batch \in Seq(Switch) /\ <<>> \in Seq(Switch)
      BY <1>1 DEF Typed
    <3>. QED
      BY <1>6, <3>1, Zenon DEF BootstrapFails, JoinTray, LeaveLoop
  <2>2. Informed' /\ BoxFits'
    BY <1>2, <2>1 DEF IInv, Informed, BoxFits, NoSync
  <2>. QED
    BY <1>1, <1>4, <2>1, <2>2 DEF Typed
<1>7. CASE ShutdownTray
  <2>1. Shutdown \in Commands /\ Shutdown.kind # "SetAutostart"
    BY DEF Shutdown, Commands
  <2>2. /\ commands' = Append(commands, Shutdown) /\ UNCHANGED <<task, stale, autostart>>
        /\ UNCHANGED <<actions, batch>> /\ ui' = "join"
    BY <1>2, <1>7 DEF ShutdownTray
  <2>3. commands' \in Seq(Commands) /\ Informed'
    BY <2>1, <2>2, SendInformed
  <2>. QED
    BY <1>1, <1>4, <2>2, <2>3 DEF BoxFits, Typed
<1>8. ASSUME NEW m \in Modes, SendMode(m), UNCHANGED batch
      PROVE  Rest'
  <2>1. SetMode(m) \in Commands /\ SetMode(m).kind # "SetAutostart"
    BY DEF SetMode, Commands
  <2>2. /\ commands' = Append(commands, SetMode(m)) /\ UNCHANGED <<task, stale, autostart>>
        /\ UNCHANGED <<actions, batch, ui>>
    BY <1>2, <1>8 DEF SendMode
  <2>3. commands' \in Seq(Commands) /\ Informed' /\ (NoSync' => NoSync)
    BY <2>1, <2>2, SendInformed
  <2>4. BoxFits'
    BY <1>2, <2>2, <2>3 DEF IInv, BoxFits, HasController
  <2>. QED
    BY <1>1, <1>4, <2>2, <2>3, <2>4 DEF Typed
<1>9. CASE TakeActions
  <2>1. /\ batch = <<>> /\ batch' = [i \in DOMAIN actions |-> actions[i].value]
        /\ actions' = <<>> /\ UNCHANGED <<commands, ui, stale>>
    BY <1>9 DEF TakeActions
  <2>2. batch' \in [DOMAIN actions -> Switch]
    <3>1. \A i \in DOMAIN actions : actions[i] \in Actions
      BY <1>1 DEF Typed
    <3>2. \A i \in DOMAIN actions : actions[i].value \in Switch
      BY <3>1 DEF Actions
    <3>. QED
      BY <2>1, <3>2
  <2>3. batch' \in Seq(Switch) /\ (batch' = <<>> => actions = <<>>)
    BY <1>1, <2>2, MapFacts DEF Typed
  <2>4. Typed'
    BY <1>1, <1>2, <2>1, <2>3 DEF Typed, HasController
  <2>5. Informed' /\ BoxFits' /\ ToggleMeansShown'
    BY <1>2, <2>1, <2>3, SMTT(60) DEF IInv, Informed, BoxFits, NoSync, HasController, ToggleMeansShown
  <2>. QED
    BY <1>3, <2>4, <2>5 DEF Rest
<1>. QED
  BY <1>5, <1>6, <1>7, <1>8, <1>9

\* A click is about the controller the tray thread still has when it pumps.
LEMMA ClickStep ==
  ASSUME IInv, Click
  PROVE  Rest'
<1>1. Typed
  BY TypeSplit DEF IInv
<1> DEFINE e == IF controller.box = controller.autostart THEN controller.box ELSE "other"
<1>2. /\ at = "pump" /\ HasController /\ clicks' = Append(clicks, e)
      /\ controller' = [controller EXCEPT !.box = Opposite[@]]
      /\ UNCHANGED <<at, mode, autostart, icon, commands, actions, batch, ui, stale, task,
                     explorer, setup>>
  BY DEF Click, uiVars
<1>3. controller \in Controllers
  BY <1>1, <1>2 DEF Typed, HasController
<1>4. /\ controller' \in Controllers /\ controller' # NoController
      /\ controller'.mode = controller.mode /\ controller'.autostart = controller.autostart
  BY <1>2, <1>3 DEF Controllers, Opposite, NoController
<1>5. e \in Seen /\ (e # "other" => e = controller.autostart)
  BY <1>3 DEF Controllers
<1> HIDE DEF e
<1>6. /\ clicks' \in Seq(Seen) /\ clicks' # <<>>
      /\ \A i \in DOMAIN clicks' :
           \/ i \in DOMAIN clicks /\ clicks'[i] = clicks[i]
           \/ clicks'[i] = e
  <2>1. clicks \in Seq(Seen)
    BY <1>1 DEF Typed
  <2>2. /\ Append(clicks, e) \in Seq(Seen) /\ Len(clicks) \in Nat
        /\ DOMAIN clicks = 1 .. Len(clicks)
        /\ DOMAIN Append(clicks, e) = 1 .. (Len(clicks) + 1)
        /\ Append(clicks, e)[Len(clicks) + 1] = e
        /\ \A i \in DOMAIN clicks : Append(clicks, e)[i] = clicks[i]
    BY <1>5, <2>1, AppendFacts
  <2>. QED
    BY <1>2, <2>2
<1>7. Typed'
  BY <1>1, <1>2, <1>4, <1>6 DEF Typed
<1>8. ControllerShowsState' /\ ToggleMeansShown' /\ ClicksFit'
  BY <1>2, <1>4, <1>5, <1>6
  DEF IInv, ControllerShowsState, ToggleMeansShown, ClicksFit, HasController
<1>9. Informed' /\ BoxFits'
  BY <1>2, <1>6 DEF IInv, Informed, BoxFits, NoSync
<1>. QED
  BY <1>7, <1>8, <1>9 DEF Rest

\* Time, Explorer and other programs.
LEMMA OutsideStep ==
  ASSUME IInv, RetryDue \/ ExplorerEnds \/ ExplorerStarts \/ TaskChanged \/ UNCHANGED vars
  PROVE  Rest'
<1>1. Typed
  BY TypeSplit DEF IInv
<1>2. /\ UNCHANGED <<at, mode, autostart, controller, clicks, commands, actions, batch, ui, setup>>
      /\ icon' => icon
      /\ explorer' \in {"up", "down"}
      /\ task' \in TaskStates
      /\ stale' \/ UNCHANGED <<task, stale>>
  <2>1. explorer \in {"up", "down"} /\ task \in TaskStates
    BY <1>1 DEF Typed
  <2>2. CASE RetryDue
    BY <2>1, <2>2, Zenon DEF RetryDue, uiVars
  <2>3. CASE ExplorerEnds
    BY <2>1, <2>3, Zenon DEF ExplorerEnds, uiVars
  <2>4. CASE ExplorerStarts
    BY <2>1, <2>4, Zenon DEF ExplorerStarts, uiVars, threadVars
  <2>5. CASE TaskChanged
    BY <2>1, <2>5, Zenon DEF TaskChanged, threadVars
  <2>6. CASE UNCHANGED vars
    BY <2>1, <2>6, Zenon DEF vars
  <2>. QED
    BY <2>2, <2>3, <2>4, <2>5, <2>6
<1>3. Typed'
  BY <1>1, <1>2 DEF Typed, HasController
<1>4. ControllerShowsState' /\ ToggleMeansShown' /\ ClicksFit'
  BY <1>2 DEF IInv, ControllerShowsState, ToggleMeansShown, ClicksFit, HasController
<1>5. Informed' /\ BoxFits'
  BY <1>2, SMTT(60) DEF IInv, Informed, BoxFits, NoSync, HasController
<1>. QED
  BY <1>3, <1>4, <1>5 DEF Rest

\* Every step of the two threads, the user and the outside keeps the invariant.
LEMMA StepIInv == IInv /\ [Next]_vars => IInv'
<1> SUFFICES ASSUME IInv, [Next]_vars PROVE IInv'
  OBVIOUS
<1>1. Typed /\ Booleans
  BY TypeSplit DEF IInv
<1>2. Booleans'
  <2>1. CASE Next
    BY <1>1, <2>1, BooleanStep
  <2>2. CASE UNCHANGED vars
    BY <1>1, <2>2, Zenon DEF vars, Booleans
  <2>. QED
    BY <2>1, <2>2
<1>3. Rest'
  <2>1. CASE PumpMessages
    BY <2>1, PumpStep
  <2>2. CASE DrainCommands \/ WaitCommand
    BY <2>2, ThreadRest
  <2>3. CASE HandleTrayAction
    <3>1. batch \in Seq(Switch) /\ batch # <<>> /\ batch' = Tail(batch)
      BY <1>1, <2>3 DEF Typed, HandleTrayAction
    <3>2. PICK v \in Switch : v = Head(batch)
      BY <3>1, TailFacts
    <3>3. SetAutostartEnabled(v)
      BY <2>3, <3>2 DEF HandleTrayAction, SetAutostartEnabled, Outcomes, SyncAutostart
    <3>4. batch' \in Seq(Switch)
      BY <3>1, TailFacts
    <3>. QED
      BY <3>3, <3>4, ChangeStep
  <2>4. CASE HandleRequest
    <3>1. batch' \in Seq(Switch) /\ UNCHANGED batch
      BY <1>1, <2>4 DEF HandleRequest, Typed
    <3>2. CASE \E v \in Switch : SetAutostartEnabled(v)
      BY <3>1, <3>2, ChangeStep, Zenon
    <3>3. CASE \E m \in Modes : SendMode(m)
      BY <3>1, <3>3, UiRest, Zenon
    <3>. QED
      BY <2>4, <3>2, <3>3, Zenon DEF HandleRequest
  <2>5. CASE \/ RefreshAutostart \/ BootstrapFails \/ TakeActions
             \/ LeaveLoop \/ ShutdownTray \/ JoinTray
    BY <2>5, UiRest, Zenon
  <2>6. CASE Click
    BY <2>6, ClickStep
  <2>7. CASE RetryDue \/ ExplorerEnds \/ ExplorerStarts \/ TaskChanged \/ UNCHANGED vars
    BY <2>7, OutsideStep
  <2>. QED
    BY <2>1, <2>2, <2>3, <2>4, <2>5, <2>6, <2>7, Zenon DEF Next, ThreadStep, UiStep
<1>. QED
  BY <1>2, <1>3 DEF IInv, Rest, TypeOK, Typed, Booleans, Controllers

-----------------------------------------------------------------------------
(***************************************************************************)
(* The theorems.                                                           *)
(***************************************************************************)
\* The inductive invariant holds in every behaviour of the tray.
LEMMA IInvHolds == Spec => []IInv
BY InitIInv, StepIInv, PTL DEF Spec

\* The variables keep their types, and run_tray_thread returns only without its icon.
THEOREM TypeCorrect == Spec => []TypeOK
<1>1. IInv => TypeOK
  BY DEF IInv
<1>. QED
  BY <1>1, IInvHolds, PTL

\* Whatever apply_current_tray_state was refused and attempt_tray_creation rebuilt, the
\* controller shows the mode and the autostart state the thread was last told.
THEOREM ShowsState == Spec => []ControllerShowsState
<1>1. IInv => ControllerShowsState
  BY DEF IInv
<1>. QED
  BY <1>1, IInvHolds, PTL

\* However many clicks wait, the toggle that forward_tray_actions sends is the opposite of
\* what the user saw when clicking.
THEOREM ToggleIsOpposite == Spec => []ToggleMeansShown
<1>1. IInv => ToggleMeansShown
  BY DEF IInv
<1>. QED
  BY <1>1, IInvHolds, PTL

\* However many requests and clicks overlap, once Application::set_autostart_enabled has
\* answered them all and the tray thread has applied its commands, the check mark is the
\* state of the scheduled task.
THEOREM CheckMarkIsTask == Spec => []CheckMarkSettles
<1>1. IInv => CheckMarkSettles
  BY DEF IInv, CheckMarkSettles, Informed, BoxFits, NoSync
<1>. QED
  BY <1>1, IInvHolds, PTL

=============================================================================
