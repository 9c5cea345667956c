---------------------------- MODULE MCPowerGadget ----------------------------
(* Up to three packages: a signal can find the loops over pkg_map before,   *)
(* within and after their first and last iteration.                         *)
EXTENDS PowerGadget
=============================================================================
