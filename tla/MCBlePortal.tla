----------------------------- MODULE MCBlePortal -----------------------------
(* BlePortal with two suspended executions at most, for TLC. *)
EXTENDS BlePortal, TLC

FlowSymmetry == Permutations(Flows)
=============================================================================
