--------------------------- MODULE ProtectionMode ---------------------------
(***************************************************************************)
(* What the runtime promises whoever asks Windows to end the session: the  *)
(* answer to WM_QUERYENDSESSION changes together with the mode, in single  *)
(* steps, until Windows commits to ending the session.  No failed or       *)
(* rolled-back transition is visible.  After the commit nothing is         *)
(* promised.                                                               *)
(***************************************************************************)
VARIABLES
  mode,       \* "Block" or "Allow"
  veto,       \* TRUE: WM_QUERYENDSESSION is refused
  committed   \* a confirmed WM_ENDSESSION was delivered

vars == <<mode, veto, committed>>

Init == mode = "Allow" /\ veto = FALSE /\ committed = FALSE

Arm ==
  /\ ~committed
  /\ mode = "Allow"
  /\ mode' = "Block"
  /\ veto' = TRUE
  /\ UNCHANGED committed

Disarm ==
  /\ ~committed
  /\ mode = "Block"
  /\ mode' = "Allow"
  /\ veto' = FALSE
  /\ UNCHANGED committed

\* The veto is lifted at once; the mode may fall back to Allow with it.
Commit ==
  /\ committed' = TRUE
  /\ veto' = FALSE
  /\ mode' \in {mode, "Allow"}

AfterCommit ==
  /\ committed
  /\ mode' \in {"Block", "Allow"}
  /\ veto' \in BOOLEAN
  /\ UNCHANGED committed

Next == Arm \/ Disarm \/ Commit \/ AfterCommit

Spec == Init /\ [][Next]_vars
=============================================================================
