------------------------------- MODULE Launch -------------------------------
(***************************************************************************)
(* How the Wardoff processes of one session share it (main.rs, instance.rs *)
(* and windows_util.rs): every command claims the session's named mutex,   *)
(* becomes the primary runtime or forwards its request to the one that is  *)
(* there, and may relaunch itself elevated or without its shell console.   *)
(*                                                                         *)
(* The mutex exists while any process has a handle to it, so a process     *)
(* that only looks keeps it alive until it has closed its handle.  Block   *)
(* stands for the Block, Allow and Hide actions, which take the same path. *)
(* The pipes are those of IpcServer, seen from here as connect and reply.  *)
(***************************************************************************)
EXTENDS Naturals, FiniteSets

CONSTANTS
  MaxProcs,         \* bound: processes started in the session
  ClaimAttempts,    \* ELEVATED_RELAUNCH_MUTEX_RETRY_ATTEMPTS
  ConnectAttempts   \* PIPE_CONNECT_ATTEMPTS

ASSUME AttemptsAssumption ==
  MaxProcs \in Nat /\ ClaimAttempts \in Nat \ {0} /\ ConnectAttempts \in Nat \ {0}

Procs == 1..MaxProcs

VARIABLES
  pc,        \* where each process is
  info,      \* its command line, token and console
  parent,    \* the process that relaunched itself as this one, 0 for a user's command
  tries,     \* attempts left in the loop it is in
  conn,      \* the primary whose pipe it has connected to, or 0
  handles,   \* external: the processes with an open handle to the mutex
  exit,      \* how it ended
  effects,   \* history: how often its request was carried out
  crowded    \* history: relaunched, it met a handle that is not its parent's

vars == <<pc, info, parent, tries, conn, handles, exit, effects, crowded>>

Actions  == {"Default", "Block", "Autostart", "Status"}
Consoles == {"None", "Inherited"}   \* an Owned console has been freed by run_main

\* --wardoff-elevated-relaunch, --wardoff-detached-runtime, and an elevated token.
Marks == {"relaunched", "detached", "elevated"}

Infos == [act : Actions, marks : SUBSET Marks, console : Consoles]

NoInfo == [act |-> "Status", marks |-> {}, console |-> "None"]

Is(p, mark) == mark \in info[p].marks

Init ==
  /\ pc = [p \in Procs |-> "fresh"] /\ info = [p \in Procs |-> NoInfo]
  /\ parent = [p \in Procs |-> 0] /\ tries = [p \in Procs |-> 0]
  /\ conn = [p \in Procs |-> 0] /\ handles = {}
  /\ exit = [p \in Procs |-> "none"] /\ effects = [p \in Procs |-> 0] /\ crowded = {}

-----------------------------------------------------------------------------
\* The next process the session starts.
NextProc(q) == q \in Procs /\ pc[q] = "fresh" /\ \A r \in 1..(q - 1) : pc[r] # "fresh"

Goto(p, place) == pc' = [pc EXCEPT ![p] = place]

\* main: the process ends, and with it its handle to the mutex.
Exit(p, code) ==
  /\ Goto(p, "exited")
  /\ exit' = [exit EXCEPT ![p] = code]
  /\ handles' = handles \ {p}
  /\ info' = [info EXCEPT ![p] = NoInfo]
  /\ tries' = [tries EXCEPT ![p] = 0] /\ conn' = [conn EXCEPT ![p] = 0]

\* run_main: only the default and the explicit runtime actions look at token and console.
Launch(q) ==
  /\ NextProc(q)
  /\ \E i \in Infos :
       /\ i.marks \subseteq (IF i.act = "Default" THEN {"elevated"} ELSE {})
       /\ i.act \in {"Autostart", "Status"} => i.console = "None"
       /\ info' = [info EXCEPT ![q] = i]
  /\ Goto(q, "claim")
  /\ tries' = [tries EXCEPT ![q] = 1]
  /\ UNCHANGED <<parent, conn, handles, exit, effects, crowded>>

\* The process starts itself again and returns; it holds the mutex until it has ended.
Relaunch(p, child) ==
  \E q \in Procs :
    /\ NextProc(q)
    /\ pc' = [pc EXCEPT ![p] = "leaving", ![q] = "claim"]
    /\ info' = [info EXCEPT ![q] = child]
    /\ parent' = [parent EXCEPT ![q] = p]
    /\ tries' = [tries EXCEPT ![q] = IF child.act = "Default" /\ "relaunched" \in child.marks
                                     THEN ClaimAttempts ELSE 1]
    /\ UNCHANGED <<conn, handles, exit, effects, crowded>>

-----------------------------------------------------------------------------
(***************************************************************************)
(* Claiming the session.                                                   *)
(***************************************************************************)
Claiming(p) == pc[p] \in {"claim", "reclaim"}

\* Mutant: the second claim does not look at GetLastError.
ReclaimAnyway(p) ==
  /\ pc[p] = "reclaim" \/ (Claiming(p) /\ handles = {})
  /\ handles' = handles \cup {p}
  /\ Goto(p, "primary")
  /\ tries' = [tries EXCEPT ![p] = 0]
  /\ UNCHANGED <<info, parent, conn, exit, effects, crowded>>

\* claim_primary_instance: the name did not exist.
ClaimPrimary(p) ==
  /\ Claiming(p) /\ handles = {}
  /\ handles' = {p}
  /\ Goto(p, "primary")
  /\ tries' = [tries EXCEPT ![p] = 0]
  /\ UNCHANGED <<info, parent, conn, exit, effects, crowded>>

\* ERROR_ALREADY_EXISTS, or access denied to a mutex that can be opened: for a moment the
\* process has a handle of its own.
ClaimSecondary(p) ==
  /\ Claiming(p) /\ handles # {}
  /\ handles' = handles \cup {p}
  /\ crowded' = IF handles \subseteq {parent[p]} \/ parent[p] = 0 THEN crowded ELSE crowded \cup {p}
  /\ Goto(p, IF pc[p] = "claim" THEN "probe" ELSE "reprobe")
  /\ UNCHANGED <<info, parent, tries, conn, exit, effects>>

\* The mutex can be neither created nor opened.
ClaimFails(p) ==
  /\ Claiming(p)
  /\ Exit(p, "error")
  /\ UNCHANGED <<parent, effects, crowded>>

\* Mutant: the relaunched process claims until it succeeds.
RetryForEver(p) ==
  /\ pc[p] = "probe"
  /\ handles' = handles \ {p}
  /\ IF Is(p, "relaunched")
     THEN Goto(p, "claim") /\ UNCHANGED tries
     ELSE Goto(p, "connect") /\ tries' = [tries EXCEPT ![p] = ConnectAttempts]
  /\ UNCHANGED <<info, parent, conn, exit, effects, crowded>>

\* The handle is closed; claim_primary_instance_with_retry tries again, everyone else, and
\* the last attempt, turns to the primary.
CloseProbe(p) ==
  /\ pc[p] = "probe"
  /\ handles' = handles \ {p}
  /\ IF tries[p] > 1
     THEN Goto(p, "claim") /\ tries' = [tries EXCEPT ![p] = @ - 1]
     ELSE Goto(p, "connect") /\ tries' = [tries EXCEPT ![p] = ConnectAttempts]
  /\ UNCHANGED <<info, parent, conn, exit, effects, crowded>>

\* forward_request_to_primary: somebody has the mutex and nobody answers.
GiveUp(p) ==
  /\ pc[p] = "reprobe"
  /\ Exit(p, "unavailable")
  /\ UNCHANGED <<parent, effects, crowded>>

-----------------------------------------------------------------------------
(***************************************************************************)
(* Forwarding the request.                                                 *)
(***************************************************************************)
\* ClientError::Unavailable: no pipe for all attempts.
Unavailable(p) ==
  IF info[p].act = "Status"
  THEN Exit(p, "unavailable")
  ELSE Goto(p, "reclaim") /\ tries' = [tries EXCEPT ![p] = 0]
       /\ UNCHANGED <<info, conn, handles, exit>>

NoServer == \A q \in Procs : pc[q] # "running"

\* The attempts together take two seconds, which the parent of a relaunched process, having
\* nothing left to do, does not need to end.
ParentGone(p) == \A q \in Procs : q = parent[p] => pc[q] = "exited"

\* Mutant: a command that finds no pipe does not claim the session again.
ConnectOnly(p) ==
  /\ pc[p] = "connect"
  /\ \/ \E q \in Procs : /\ pc[q] \in {"running", "stuck"}
                         /\ Goto(p, "await") /\ conn' = [conn EXCEPT ![p] = q]
                         /\ tries' = [tries EXCEPT ![p] = 0]
                         /\ UNCHANGED <<info, handles, exit>>
     \/ /\ NoServer /\ tries[p] > 1
        /\ tries' = [tries EXCEPT ![p] = @ - 1]
        /\ UNCHANGED <<pc, info, conn, handles, exit>>
     \/ NoServer /\ tries[p] = 1 /\ ParentGone(p) /\ Exit(p, "unavailable")
  /\ UNCHANGED <<parent, effects, crowded>>

\* connect_control_pipe, connect_status_pipe: one attempt; an error other than a missing or
\* busy pipe ends the command.
Connect(p) ==
  /\ pc[p] = "connect"
  /\ \/ \E q \in Procs : /\ pc[q] \in {"running", "stuck"}
                         /\ Goto(p, "await") /\ conn' = [conn EXCEPT ![p] = q]
                         /\ tries' = [tries EXCEPT ![p] = 0]
                         /\ UNCHANGED <<info, handles, exit>>
     \/ /\ NoServer /\ tries[p] > 1
        /\ tries' = [tries EXCEPT ![p] = @ - 1]
        /\ UNCHANGED <<pc, info, conn, handles, exit>>
     \/ NoServer /\ tries[p] = 1 /\ ParentGone(p) /\ Unavailable(p)
     \/ Exit(p, "error")
  /\ UNCHANGED <<parent, effects, crowded>>

\* The request is carried out, a status is printed.
Served(p) ==
  IF info[p].act = "Status"
  THEN UNCHANGED effects /\ Exit(p, "status")
  ELSE effects' = [effects EXCEPT ![p] = @ + 1] /\ Exit(p, "ok")

\* The request has been carried out, but the answer does not arrive.
Unanswered(p) ==
  effects' = IF info[p].act = "Status" THEN effects ELSE [effects EXCEPT ![p] = @ + 1]

\* Mutant: a primary that was lost is treated like one that was never there.
ReplyLostReclaims(p) ==
  /\ pc[p] = "await" /\ pc[conn[p]] # "stuck"
  /\ \/ pc[conn[p]] = "running" /\ Served(p)
     \/ pc[conn[p]] = "running" /\ Unanswered(p) /\ Unavailable(p)
     \/ UNCHANGED effects /\ Exit(p, "error")
  /\ UNCHANGED <<parent, crowded>>

\* Mutant: an error response is not looked at.
ReplyIgnored(p) ==
  /\ pc[p] = "await" /\ pc[conn[p]] # "stuck"
  /\ \/ pc[conn[p]] = "running" /\ Served(p)
     \/ pc[conn[p]] = "running" /\ Unanswered(p) /\ Exit(p, "error")
     \/ UNCHANGED effects /\ Exit(p, "ok")
  /\ UNCHANGED <<parent, crowded>>

\* The primary's answer: Ok, or none although it may have carried out the request, or an
\* Error; a primary that has left its message loop answers Error or not at all.
Reply(p) ==
  /\ pc[p] = "await" /\ pc[conn[p]] # "stuck"
  /\ \/ pc[conn[p]] = "running" /\ Served(p)
     \/ pc[conn[p]] = "running" /\ Unanswered(p) /\ Exit(p, "error")
     \/ UNCHANGED effects /\ Exit(p, "error")
  /\ UNCHANGED <<parent, crowded>>

\* A primary that hangs may still have a worker that turns the request away, or may have
\* been carrying it out; the client's read has no timeout, so it need not end at all.
ReplyOfStuck(p) ==
  /\ pc[p] = "await" /\ pc[conn[p]] = "stuck"
  /\ UNCHANGED effects \/ Unanswered(p)
  /\ Exit(p, "error")
  /\ UNCHANGED <<parent, crowded>>

-----------------------------------------------------------------------------
(***************************************************************************)
(* Acting as the primary.                                                  *)
(***************************************************************************)
\* handle_status_request: no runtime holds the session, which is what is printed.
StatusInactive(p) ==
  /\ pc[p] = "primary" /\ info[p].act = "Status"
  /\ Exit(p, "status")
  /\ UNCHANGED <<parent, effects, crowded>>

\* handle_local_autostart_request gives the session back first ...
DropClaim(p) ==
  /\ pc[p] = "primary" /\ info[p].act = "Autostart"
  /\ handles' = handles \ {p}
  /\ Goto(p, "local")
  /\ UNCHANGED <<info, parent, tries, conn, exit, effects, crowded>>

\* ... and then calls autostart::set_enabled.
SetLocally(p) ==
  /\ pc[p] = "local"
  /\ \/ effects' = [effects EXCEPT ![p] = @ + 1] /\ Exit(p, "ok")
     \/ UNCHANGED effects /\ Exit(p, "error")
  /\ UNCHANGED <<parent, crowded>>

\* ShellExecuteW "runas" passes only the internal argument; the new process may turn out
\* not to be elevated.
ElevatedChildren ==
  [act : {"Default"}, marks : {{"relaunched"}, {"relaunched", "elevated"}}, console : {"None"}]

\* prepare_default_launch: an elevated process goes on, another one relaunches itself
\* unless it is the result of that; the token cannot be read, the user cancels, or the
\* relaunch fails.
PrepareDefault(p) ==
  /\ pc[p] = "primary" /\ info[p].act = "Default"
  /\ \/ /\ Is(p, "elevated")
        /\ Goto(p, "console")
        /\ UNCHANGED <<info, parent, tries, conn, handles, exit, effects, crowded>>
     \/ /\ ~Is(p, "elevated") /\ ~Is(p, "relaunched")
        /\ \E child \in ElevatedChildren : Relaunch(p, child)
     \/ Exit(p, "error") /\ UNCHANGED <<parent, effects, crowded>>

\* handle_primary_runtime_request for the explicit runtime actions.
PrepareExplicit(p) ==
  /\ pc[p] = "primary" /\ info[p].act = "Block"
  /\ Goto(p, "console")
  /\ UNCHANGED <<info, parent, tries, conn, handles, exit, effects, crowded>>

\* prepare_runtime_console_launch: a process of a shell starts itself again without the
\* console, with the same arguments and --wardoff-detached-runtime.
PrepareConsole(p) ==
  /\ pc[p] = "console"
  /\ \/ /\ info[p].console = "None" \/ Is(p, "detached")
        /\ Goto(p, "bootstrap")
        /\ UNCHANGED <<info, parent, tries, conn, handles, exit, effects, crowded>>
     \/ /\ info[p].console = "Inherited" /\ ~Is(p, "detached")
        /\ Relaunch(p, [act |-> info[p].act, marks |-> info[p].marks \cup {"detached"},
                        console |-> "None"])
     \/ Exit(p, "error") /\ UNCHANGED <<parent, effects, crowded>>

\* bootstrap: the pipes are the last thing that can fail.
Bootstrap(p) ==
  /\ pc[p] = "bootstrap"
  /\ \/ /\ Goto(p, "running")
        /\ effects' = [effects EXCEPT ![p] = @ + 1]
        /\ UNCHANGED <<info, tries, conn, handles, exit>>
     \/ UNCHANGED effects /\ Exit(p, "error")
  /\ UNCHANGED <<parent, crowded>>

\* The message loop ends and Application::shutdown takes the pipes away ...
Quit(p) ==
  /\ pc[p] = "running"
  /\ Goto(p, "stopping")
  /\ UNCHANGED <<info, parent, tries, conn, handles, exit, effects, crowded>>

\* ... stops the layers and the tray; the mutex goes with the Application.
Stop(p) ==
  /\ pc[p] = "stopping"
  /\ \E code \in {"ok", "error"} : Exit(p, code)
  /\ UNCHANGED <<parent, effects, crowded>>

\* The UI thread waits for ever: IpcServer::start and IpcServer::shutdown may join a worker
\* that was not told to stop or waits for the UI thread (IpcServer), and a mode change or
\* the shutdown may join a trace that Windows refused to end (AbortLayers).
Hang(p) ==
  /\ pc[p] \in {"bootstrap", "running", "stopping"}
  /\ Goto(p, "stuck")
  /\ UNCHANGED <<info, parent, tries, conn, handles, exit, effects, crowded>>

\* A process that has relaunched itself returns from main.
Leave(p) ==
  /\ pc[p] = "leaving"
  /\ Exit(p, "ok")
  /\ UNCHANGED <<parent, effects, crowded>>

\* external: a process is ended from outside, wherever it is.
Kill(p) ==
  /\ pc[p] \notin {"fresh", "exited"}
  /\ Exit(p, "error")
  /\ UNCHANGED <<parent, effects, crowded>>

-----------------------------------------------------------------------------
Step(p) ==
  \/ ClaimPrimary(p) \/ ClaimSecondary(p) \/ ClaimFails(p) \/ CloseProbe(p) \/ GiveUp(p)
  \/ Connect(p) \/ Reply(p)
  \/ StatusInactive(p) \/ DropClaim(p) \/ SetLocally(p)
  \/ PrepareDefault(p) \/ PrepareExplicit(p) \/ PrepareConsole(p) \/ Bootstrap(p)
  \/ Stop(p) \/ Leave(p)

Next ==
  \E p \in Procs :
    Launch(p) \/ Step(p) \/ ReplyOfStuck(p) \/ Quit(p) \/ Hang(p) \/ Kill(p)

Spec == Init /\ [][Next]_vars

\* Every process keeps running, the user answers the elevation prompt, and a primary whose
\* UI thread does not hang starts, stops and answers.  Whether and when one hangs, and that
\* its clients are ever released, is left open; nobody need start, quit or kill anything.
FairSpec == Spec /\ \A p \in Procs : WF_vars(Step(p))

-----------------------------------------------------------------------------
Places ==
  {"fresh", "claim", "probe", "connect", "await", "reclaim", "reprobe", "primary", "local",
   "console", "bootstrap", "running", "stopping", "stuck", "leaving", "exited"}

Acting == {"primary", "console", "bootstrap", "running", "stopping", "stuck", "leaving"}

Holding == {"probe", "reprobe"} \cup Acting

\* The variables' types; a process has a handle to the mutex exactly where the code has one.
TypeOK ==
  /\ pc \in [Procs -> Places] /\ info \in [Procs -> Infos]
  /\ parent \in [Procs -> 0..MaxProcs] /\ tries \in [Procs -> Nat]
  /\ conn \in [Procs -> 0..MaxProcs]
  /\ exit \in [Procs -> {"none", "ok", "error", "unavailable", "status"}]
  /\ effects \in [Procs -> Nat] /\ crowded \subseteq Procs
  /\ handles = {p \in Procs : pc[p] \in Holding}

\* At any time at most one process of the session acts as the primary, from the moment it
\* has claimed the mutex until its runtime has been torn down: no two runtimes overlap, not
\* across a hand-off and not while the old one is still cleaning up.
OnePrimary == \A p, q \in Procs : pc[p] \in Acting /\ pc[q] \in Acting => p = q

\* A command has its effect once: what a primary has, or may have, carried out is never
\* carried out again by a runtime or a local change of the process that asked for it.
EffectAtMostOnce == \A p \in Procs : effects[p] <= 1

\* Exit code 0 of a command that changes something is never empty: its request was carried
\* out, or it has handed over to another process of its own.
ExitOkMeansDone ==
  \A p \in Procs :
    exit[p] = "ok" => effects[p] = 1 \/ \E q \in Procs : parent[q] = p

\* No chain of relaunches asks for elevation twice: a relaunched default start either goes
\* on elevated or fails.
ElevatesOnce ==
  \A p, q \in Procs :
    parent[q] = p /\ Is(q, "relaunched") /\ ~Is(q, "detached") => parent[p] = 0

\* A relaunched process is never turned away because of its own parent, which still holds
\* the mutex when it starts: it gives up only after it has met somebody else.
HandOffSucceeds ==
  \A p \in Procs : parent[p] # 0 /\ exit[p] = "unavailable" => p \in crowded

\* Every command ends, whatever was started, relaunched, quit or killed: the session settles
\* with nothing but a runtime, or nothing at all.  Only a primary that hangs stays, and with
\* it the clients connected to it; whoever else finds it there still ends.
SessionSettles ==
  <>[](\A p \in Procs :
         \/ pc[p] \in {"fresh", "running", "stuck", "exited"}
         \/ pc[p] = "await" /\ pc[conn[p]] = "stuck")
=============================================================================
