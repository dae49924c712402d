---------------------------- MODULE MCSisLauncher ----------------------------
(***************************************************************************)
(* Instances of SisLauncher for TLC.                                         *)
(***************************************************************************)
EXTENDS SisLauncher, TLC

CONSTANTS c1, c2
=============================================================================
