---------------------------- MODULE MCStsJournal ----------------------------
(***************************************************************************)
(* Instances of StsJournal for TLC: where the files live, what they hold     *)
(* before the transaction and what the client does with each name.  a1 and   *)
(* a2 exist, n1 is a new name, t1 a temporary file.                          *)
(***************************************************************************)
EXTENDS StsJournal

CONSTANTS a1, a2, n1, t1

OneDriveOf == [f \in Files |-> 1]
\* a2 is on the second drive, the others are on the first.
TwoDriveOf == [f \in Files |-> IF f = a2 THEN 2 ELSE 1]
OrigBefore == [f \in Files |-> IF f \in {a1, a2} THEN "orig" ELSE "none"]

Permanent == Files \ {t1}
Temporary == Files \cap {t1}

\* Clients that journal a file before they create it themselves.
RegisterCalls == ({"RegisterNew", "Remove"} \X Permanent)
                     \cup ({"RegisterTemporary"} \X Temporary)
\* Clients that have the server create the files.
EveryCall == ({"RegisterNew", "CreateNew", "Remove", "Overwrite"} \X Permanent)
                 \cup ({"RegisterTemporary", "CreateTemporary"} \X Temporary)
=============================================================================
