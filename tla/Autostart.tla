----------------------------- MODULE Autostart -----------------------------
(***************************************************************************)
(* Start with Windows (autostart.rs): the scheduled task \Wardoff of the   *)
(* current user, how it is read and how it is changed.  Task Scheduler and *)
(* the permissions of the install location are external.                   *)
(***************************************************************************)

Switch == {"on", "off"}

\* external: what Task Scheduler holds under the name \Wardoff.
TaskStates == {"missing", "disabled", "enabled"}

\* task_enabled: a task that is missing or disabled does not start Wardoff.
TaskEnabled(task) == IF task = "enabled" THEN "on" ELSE "off"

\* is_enabled: the answer, or "unknown" when Task Scheduler cannot be asked.
IsEnabled(task) == {TaskEnabled(task), "unknown"}

\* What the user's non-elevated token may write of the install location.
Locations == SUBSET {"executable", "directory"}

\* ensure_trusted_autostart_location
EnsureTrusted(writable) == "executable" \notin writable /\ "directory" \notin writable

\* register_autostart_task: TASK_CREATE_OR_UPDATE of a definition that is enabled.
RegisterTask(task) == {[result |-> "Ok", task |-> "enabled"], [result |-> "Err", task |-> task]}

\* remove_autostart_task: a task that is not there is no failure.
RemoveTask(task) == {[result |-> "Ok", task |-> "missing"], [result |-> "Err", task |-> task]}

\* set_enabled: only an elevated process changes the task, and only one in a location that
\* others cannot write registers it; removing it is possible from everywhere.
SetEnabled(v, task, elevated, writable) ==
  IF ~elevated \/ (v = "on" /\ ~EnsureTrusted(writable))
  THEN {[result |-> "Err", task |-> task]}
  ELSE IF v = "on" THEN RegisterTask(task) ELSE RemoveTask(task)

\* resolved_autostart_state_for_tray: the state read after a failed change, else the one
\* read before it, else none.
Resolved(previous, current) == IF current # "unknown" THEN current ELSE previous
=============================================================================
