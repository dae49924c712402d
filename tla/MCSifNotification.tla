-------------------------- MODULE MCSifNotification --------------------------
(***************************************************************************)
(* Instances of SifNotification for TLC.                                     *)
(***************************************************************************)
EXTENDS SifNotification, TLC

CONSTANTS p1, p2
=============================================================================
