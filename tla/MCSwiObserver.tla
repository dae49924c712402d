---------------------------- MODULE MCSwiObserver ----------------------------
(***************************************************************************)
(* Instances of SwiObserver for TLC.                                         *)
(***************************************************************************)
EXTENDS SwiObserver

CONSTANTS c1, c2

\* A log with records for the plugins and one they do not want, and one with a record
\* that cannot be read; a log is empty until its client writes it.
SomeContents == {<<"header", "other", "data">>, <<"header", "bad">>}

\* Installations that log one thing each.
GoodContents == {<<"header", "data">>}
==============================================================================
