----------------------------- MODULE MCLifecycle ----------------------------
(* Instances of Lifecycle for TLC. *)
EXTENDS Lifecycle, TLC

AllWaiters == {"chain", "consensus", "node", "shutdown"}
AllTypes == Requested \cup {"chain", "node", "validator", "module", "node/consensus"}
=============================================================================
