---------------------------- MODULE MCIpcServer ----------------------------
(***************************************************************************)
(* IpcServer for TLC, and what documents say of it that the code does not  *)
(* do.                                                                     *)
(***************************************************************************)
EXTENDS IpcServer

\* ipc.rs:319 and CHANGELOG.md:14: shutdown joins the workers and comes to an end.
ShutdownCompletes == closing = "orderly" ~> ui = "done"

\* SECURITY_AUDIT.md:38: startup owns both pipes or fails; it does not hang.  (A control
\* worker that refused the ShutdownServer request is set aside.)
StartupSettles == <>(ui \in {"loop", "done"} \/ cl["ui"] \in {"Error", "Transport"})
=============================================================================
