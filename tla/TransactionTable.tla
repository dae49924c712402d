--------------------------- MODULE TransactionTable ---------------------------
(***************************************************************************)
(* The container of active transactions in CStsServer: identifiers taken     *)
(* from the clock, kept in order, and found again by binary search.          *)
(*                                                                          *)
(* An identifier is the low word of the time in microseconds.  The order     *)
(* subtracts two unsigned words and reads the difference as a signed one.    *)
(* Word is the number of values of a word: 2^32 in the code, every even      *)
(* number shows the same wrap-around.                                        *)
(***************************************************************************)
EXTENDS Integers, SequencesExt

CONSTANTS
    Word,           \* the number of identifiers
    MaxAge,         \* how many ticks a transaction may stay active
    MaxActive       \* how many transactions may be active at once

ASSUME WordAssumption == Word \in Nat \ {0} /\ Word % 2 = 0
ASSUME AgeAssumption  == MaxAge \in Nat /\ MaxActive \in Nat

VARIABLES
    time,           \* the clock, modulo Word
    table,          \* iTransactionWrapperContainer
    ages            \* how long ago each of its transactions began

vars == <<time, table, ages>>

\* TransactionWrapperLinearOrder(ByIdKey): the difference as a TInt.
Compare(a, b) == LET d == (a - b) % Word IN IF d < Word \div 2 THEN d ELSE d - Word

\* RPointerArray's binary search for id among the entries lo + 1 .. hi of seq:
\* <<TRUE, its index>>, or <<FALSE, the index to insert it at>>.
Search(seq, id) ==
    LET f[r \in (0 .. Len(seq)) \X (0 .. Len(seq))] ==
            LET lo  == r[1]
                hi  == r[2]
                mid == (lo + hi) \div 2
                c   == Compare(id, seq[mid + 1])
            IN  IF lo >= hi THEN <<FALSE, hi + 1>>
                ELSE IF c = 0 THEN <<TRUE, mid + 1>>
                ELSE IF c > 0 THEN f[<<mid + 1, hi>>]
                ELSE f[<<lo, mid>>]
    IN  f[<<0, Len(seq)>>]

\* Mutant: the newest wrapper goes to the front.
InsertFirst(seq, id) == 1
\* InsertInOrderL's place for a new identifier.
InsertPlace(seq, id) == Search(seq, id)[2]

Init == time = 0 /\ table = <<>> /\ ages = <<>>

\* CreateTransactionL: CreateTransactionID asks the clock until it shows an
\* identifier that IsExistingTransaction does not find.
Create ==
    /\ Len(table) < MaxActive
    /\ ~Search(table, time)[1]
    /\ LET i == InsertPlace(table, time) IN
       table' = InsertAt(table, i, time) /\ ages' = InsertAt(ages, i, 0)
    /\ UNCHANGED time

\* ReleaseTransactionL of any transaction, in the order clients please; it
\* removes the wrapper that the search finds.
Release ==
    \E i \in DOMAIN table :
        /\ Search(table, table[i])[1]
        /\ LET pos == Search(table, table[i])[2] IN
           table' = RemoveAt(table, pos) /\ ages' = RemoveAt(ages, pos)
        /\ UNCHANGED time

\* Time goes on; no transaction outlives MaxAge.
Tick ==
    /\ \A i \in DOMAIN ages : ages[i] < MaxAge
    /\ time' = (time + 1) % Word
    /\ ages' = [i \in DOMAIN ages |-> ages[i] + 1]
    /\ UNCHANGED table

Next == Create \/ Release \/ Tick

Spec == Init /\ [][Next]_vars

-------------------------------------------------------------------------------
TypeOK ==
    /\ time \in 0 .. Word - 1
    /\ table \in Seq(0 .. Word - 1)
    /\ ages \in [DOMAIN table -> 0 .. MaxAge]

\* ReleaseTransactionL asserts that FindActiveTransaction returns a position for
\* every transaction a session holds, and it must be the right one.
EveryActiveFound ==
    \A i \in DOMAIN table : Search(table, table[i]) = <<TRUE, i>>
===============================================================================
