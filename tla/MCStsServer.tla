----------------------------- MODULE MCStsServer -----------------------------
(***************************************************************************)
(* Instances of StsServer for TLC: two clients and two identifiers.          *)
(***************************************************************************)
EXTENDS StsServer

CONSTANTS s1, s2, s3, i1, i2, none
=============================================================================
