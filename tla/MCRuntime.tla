------------------------------ MODULE MCRuntime -----------------------------
(***************************************************************************)
(* Runtime for TLC.  The bound on the tray's backlog is set in the .cfg.   *)
(***************************************************************************)
EXTENDS Runtime

(***************************************************************************)
(* What comments and documents say of the runtime and the code does not do.*)
(***************************************************************************)
\* ARCHITECTURE.md:40: a tray suspend that began from Block is followed by a restore.
OwedRestoreIsPending == owed => pending # NoRestore

\* blocker/mod.rs:161: an accepted Block request has started every layer.  Layer 4 has no
\* reason to skip itself, so its worker is there.
AcceptedBlockStartsLayers ==
  reply = [to |-> "Block", ok |-> TRUE] /\ ~ended => blk.worker["remote"]
=============================================================================
