---------------------------- MODULE MCSwisMachine ----------------------------
(***************************************************************************)
(* Instances of SwisMachine for TLC.                                         *)
(***************************************************************************)
EXTENDS SwisMachine, TLC

CONSTANTS s1, s2
=============================================================================
