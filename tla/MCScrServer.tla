----------------------------- MODULE MCScrServer -----------------------------
(***************************************************************************)
(* Instances of ScrServer for TLC.                                           *)
(***************************************************************************)
EXTENDS ScrServer, TLC

CONSTANTS s1, s2, s3, c1

SessionSymmetry == Permutations({s1, s2, s3})

\* The bound on failed requests: nothing follows once a component that one of them
\* has left half written is in the database file.
WholeSoFar == \A c \in Components : Whole(disk[c])
=============================================================================
