-------------------------- MODULE AtomicTransaction --------------------------
(***************************************************************************)
(* What STS promises of one transaction (sts.h: "a logical set of file      *)
(* system operations to be executed or rolled back atomically so that       *)
(* either all operations fail or all operations succeed together"), without *)
(* journals, drives or crashes.  The transaction may be decided once; it    *)
(* then settles in the image it was decided to have, or in the image from   *)
(* before it began, and nothing changes after that.                         *)
(***************************************************************************)
CONSTANTS
    Images,     \* the images a file system can have
    Before,     \* the image the transaction starts from
    None        \* no image yet

VARIABLES
    promise,    \* the committed image, None as long as nothing is decided
    image       \* the settled image, None as long as the transaction is open

vars == <<promise, image>>

Init == promise = None /\ image = None

Decide == /\ promise = None /\ image = None
          /\ promise' \in Images
          /\ UNCHANGED image

Settle == /\ image = None
          /\ image' = IF promise = None THEN Before ELSE promise
          /\ UNCHANGED promise

Next == Decide \/ Settle

Spec == Init /\ [][Next]_vars /\ WF_vars(Settle)
=============================================================================
