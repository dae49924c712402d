------------------------------- MODULE StsServer -------------------------------
(***************************************************************************)
(* The STS server: sessions that share transactions by their identifier,    *)
(* the container of reference-counted transaction wrappers, the roll back    *)
(* that closing a session implies, and recovery at start and on demand.      *)
(*                                                                          *)
(* The server is one thread and serves one request at a time, so a request   *)
(* is one step here; StsJournal opens up what CommitL and RollBackL do       *)
(* inside.  A transaction is the set of its operations that are journalled   *)
(* and neither kept nor undone yet.  The wrappers' ordered container is a    *)
(* set here; TransactionTable has its binary search.                         *)
(*                                                                          *)
(* What is abstracted: a request that leaves before it changed anything      *)
(* (KErrInUse, KErrNotFound, a commit refused by StartCommitL) is no step.   *)
(* A journal that holds an event of a commit or of a roll back takes no       *)
(* further operation, and one that a roll back has begun on is not committed: *)
(* clients that saw the failure go on with what failed.  A transaction has   *)
(* one journal file.                                                         *)
(***************************************************************************)
EXTENDS Naturals, FiniteSets

CONSTANTS
    Sessions,       \* the client sessions
    Ids,            \* transaction identifiers
    NoId,           \* iTransactionPtr is null
    MaxOps,         \* bound: operations
    MaxCreates,     \* bound: uses of CreateTransactionL
    MaxOpens,       \* bound: uses of OpenTransactionL
    MaxCrashes,     \* bound: deaths of the server process
    MaxFaults       \* bound: commits and roll backs that fail

ASSUME IdsAssumption    == NoId \notin Ids
ASSUME SessionsAssumption == IsFiniteSet(Sessions)
ASSUME BoundsAssumption ==
    {MaxOps, MaxCreates, MaxOpens, MaxCrashes, MaxFaults} \subseteq Nat

VARIABLES
    \* durable
    pending,    \* per transaction, its operations in journal files
    stage,      \* the last event of each journal: of a file ("files"), of a
                \* commit ("redo") or of a roll back ("undo")
    \* the server process
    up,         \* does it run?
    table,      \* iTransactionWrapperContainer
    refs,       \* iRefCount
    completed,  \* iCompleted
    streams,    \* the journal objects: "fresh", "open", or "closed" by RollBackL
    trans,      \* iTransactionPtr of each session
    \* history
    made,       \* the operations made in each transaction
    kept,       \* operations that were committed
    undone,     \* operations that were rolled back
    failed,     \* transactions with operations whose roll back has failed
    late,       \* transactions with operations made after they were completed
    \* bounds
    count, creates, opens, crashes, faults

server  == <<up, table, refs, completed, streams, trans>>
durable == <<pending, stage>>
outcome == <<kept, undone, failed>>
work    == <<made, late>>
calls   == <<count, creates, opens>>
vars    == <<durable, server, outcome, work, calls, crashes, faults>>

Ops == 1 .. MaxOps

Init ==
    /\ pending = [t \in Ids |-> {}]
    /\ stage = [t \in Ids |-> "files"]
    /\ up = FALSE /\ table = {}
    /\ refs = [t \in Ids |-> 0]
    /\ completed = [t \in Ids |-> FALSE]
    /\ streams = [t \in Ids |-> "fresh"]
    /\ trans = [s \in Sessions |-> NoId]
    /\ made = [t \in Ids |-> {}]
    /\ kept = {} /\ undone = {} /\ failed = {} /\ late = {}
    /\ count = 0 /\ creates = 0 /\ opens = 0 /\ crashes = 0 /\ faults = 0

Attached(t) == {s \in Sessions : trans[s] = t}

-------------------------------------------------------------------------------
(***************************************************************************)
(* The journal of a transaction reaches its end, or does not               *)
(***************************************************************************)

\* The operations of the transactions of T are resolved: kept once ECommitted
\* is written, undone before that.
Resolve(T) ==
    LET decided == {t \in T : stage[t] = "redo"} IN
    /\ kept' = kept \cup UNION {pending[t] : t \in decided}
    /\ undone' = undone \cup UNION {pending[t] : t \in T \ decided}
    /\ pending' = [t \in Ids |-> IF t \in T THEN {} ELSE pending[t]]
    /\ stage' = [t \in Ids |-> IF t \in T THEN "files" ELSE stage[t]]

Fails == faults < MaxFaults /\ faults' = faults + 1

\* RollbackAllL: every transaction with a .drv file; one that fails does not
\* keep the others from being rolled back, and gets no event into its journal.
Unresolved == {t \in Ids : pending[t] # {}}

RollBackAll ==
    \E T \in SUBSET Unresolved :
        /\ Resolve(T) /\ failed' = Unresolved \ T
        /\ IF T = Unresolved THEN UNCHANGED faults ELSE Fails

\* RollBackL of a session's transaction leaves.  It may have journalled an event
\* of the roll back by then, and after the last one closed the journal file.
RollBackLeaves(t) ==
    /\ pending[t] # {} /\ Fails
    /\ failed' = failed \cup {t}
    /\ \/ UNCHANGED <<stage, streams>>
       \/ /\ stage' = [stage EXCEPT ![t] = IF @ = "redo" THEN "redo" ELSE "undo"]
          /\ streams' \in {streams, [streams EXCEPT ![t] = "closed"]}
    /\ UNCHANGED <<pending, kept, undone>>

\* ReleaseTransactionL's Detach, with the wrapper deleted when asked to.
Detach(t, delete) ==
    /\ refs' = [refs EXCEPT ![t] = @ - 1]
    /\ table' = IF delete THEN table \ {t} ELSE table

-------------------------------------------------------------------------------
(***************************************************************************)
(* Requests                                                                 *)
(***************************************************************************)

\* CreateTransactionID takes the low word of the time, until no active transaction
\* has it: the word of an earlier transaction comes again after 71.6 minutes.
FreshId(t) == t \notin table

\* ECreateTransaction; CJournal loads whatever journal bears the identifier.
CreateTransaction(s, t) ==
    /\ up /\ trans[s] = NoId
    /\ creates < MaxCreates /\ creates' = creates + 1
    /\ FreshId(t)
    /\ trans' = [trans EXCEPT ![s] = t]
    /\ table' = table \cup {t}
    /\ refs' = [refs EXCEPT ![t] = 1]
    /\ completed' = [completed EXCEPT ![t] = FALSE]
    /\ streams' = [streams EXCEPT ![t] = IF pending[t] = {} THEN "fresh" ELSE "open"]
    /\ made' = [made EXCEPT ![t] = {}]
    /\ late' = IF pending[t] = {} THEN late \ {t} ELSE late
    /\ UNCHANGED <<durable, up, outcome, count, opens, crashes, faults>>

\* EOpenTransaction: AttachTransactionL of an active transaction, which may be
\* completed already, or left by its last session when its roll back failed.
OpenTransaction(s, t) ==
    /\ up /\ trans[s] = NoId
    /\ t \in table
    /\ opens < MaxOpens /\ opens' = opens + 1
    /\ trans' = [trans EXCEPT ![s] = t]
    /\ refs' = [refs EXCEPT ![t] = @ + 1]
    /\ UNCHANGED <<durable, up, table, completed, streams, outcome, work, count,
                   creates, crashes, faults>>

\* ERegisterNew .. EOverwrite.  A journal file closed by RollBackL cannot be
\* written to any more.
Operate(s) ==
    LET t == trans[s] IN
    /\ up /\ t # NoId /\ stage[t] = "files"
    /\ streams[t] # "closed"
    /\ count < MaxOps /\ count' = count + 1
    /\ pending' = [pending EXCEPT ![t] = @ \cup {count'}]
    /\ made' = [made EXCEPT ![t] = @ \cup {count'}]
    /\ late' = IF completed[t] THEN late \cup {t} ELSE late
    /\ streams' = [streams EXCEPT ![t] = "open"]
    /\ UNCHANGED <<stage, up, table, refs, completed, trans, outcome, creates,
                   opens, crashes, faults>>

\* Mutant: the transaction is not marked as completed.
FinaliseUnmarked(s) ==
    LET t == trans[s] IN
    /\ trans' = [trans EXCEPT ![s] = NoId]
    /\ Detach(t, refs[t] = 1) /\ UNCHANGED completed
\* Mutant: the transaction is removed although other sessions are attached.
FinaliseDeletes(s) ==
    LET t == trans[s] IN
    /\ trans' = [trans EXCEPT ![s] = NoId]
    /\ completed' = [completed EXCEPT ![t] = TRUE]
    /\ Detach(t, TRUE)

\* FinaliseTransactionL, when a commit or a roll back was successful.
Finalise(s) ==
    LET t == trans[s] IN
    /\ trans' = [trans EXCEPT ![s] = NoId]
    /\ completed' = [completed EXCEPT ![t] = TRUE]
    /\ Detach(t, refs[t] = 1)

\* ECommit.  FinishCommitL returns the journal to a state where it can be used
\* again.
Commit(s) ==
    LET t == trans[s] IN
    /\ up /\ t # NoId /\ stage[t] # "undo" /\ streams[t] # "closed"
    /\ kept' = kept \cup pending[t]
    /\ pending' = [pending EXCEPT ![t] = {}]
    /\ stage' = [stage EXCEPT ![t] = "files"]
    /\ failed' = failed \ {t}
    /\ streams' = [streams EXCEPT ![t] = "fresh"]
    /\ Finalise(s)
    /\ UNCHANGED <<up, undone, work, calls, crashes, faults>>

\* ... it fails after ECommitted was written; the session keeps its transaction.
CommitFailsLate(s) ==
    LET t == trans[s] IN
    /\ up /\ t # NoId /\ pending[t] # {} /\ stage[t] = "files"
    /\ streams[t] # "closed"
    /\ Fails
    /\ stage' = [stage EXCEPT ![t] = "redo"]
    /\ UNCHANGED <<pending, server, outcome, work, calls, crashes>>

\* Mutant: ERollBack finalises the transaction although RollBackL left.
RollBackFailsFinalised(s) ==
    LET t == trans[s] IN
    /\ up /\ t # NoId /\ pending[t] # {}
    /\ Finalise(s)
    /\ UNCHANGED <<durable, up, streams, outcome, work, calls, crashes, faults>>

\* ERollBack.  The journal files are closed and deleted, but stay in
\* iJournalFiles.
RollBack(s) ==
    LET t == trans[s] IN
    /\ up /\ t # NoId
    /\ Resolve({t}) /\ failed' = failed \ {t}
    /\ streams' = [streams EXCEPT ![t] = IF @ = "open" THEN "closed" ELSE @]
    /\ Finalise(s)
    /\ UNCHANGED <<up, work, calls, crashes, faults>>

\* ... when RollBackL leaves, the session keeps its transaction.
RollBackFails(s) ==
    /\ up /\ trans[s] # NoId
    /\ RollBackLeaves(trans[s])
    /\ UNCHANGED <<up, table, refs, completed, trans, work, calls, crashes>>

\* Mutant: closing a session never rolls back.
CloseForgets(s) ==
    LET t == trans[s] IN
    /\ up /\ t # NoId
    /\ trans' = [trans EXCEPT ![s] = NoId]
    /\ Detach(t, refs[t] = 1)
    /\ UNCHANGED <<durable, up, completed, streams, outcome, work, calls, crashes,
                   faults>>

\* The session's destructor: ReleaseTransactionL rolls back a transaction that
\* nobody else is attached to, unless it is completed.  When that leaves, the
\* wrapper stays and the error is trapped.
CloseSession(s) ==
    LET t == trans[s] IN
    /\ up /\ t # NoId
    /\ trans' = [trans EXCEPT ![s] = NoId]
    /\ \/ /\ refs[t] > 1 \/ completed[t]
          /\ Detach(t, refs[t] = 1)
          /\ UNCHANGED <<durable, streams, outcome, faults>>
       \/ /\ refs[t] = 1 /\ ~completed[t]
          /\ Resolve({t}) /\ failed' = failed \ {t}
          /\ Detach(t, TRUE) /\ UNCHANGED <<streams, faults>>
       \/ /\ refs[t] = 1 /\ ~completed[t]
          /\ RollBackLeaves(t) /\ Detach(t, FALSE)
    /\ UNCHANGED <<up, completed, work, calls, crashes>>

\* Mutant: the check for active transactions is dropped.
RollBackAllPendingUnchecked ==
    /\ up
    /\ RollBackAll
    /\ UNCHANGED <<server, work, calls, crashes>>

\* ERollBackAllPending: KErrInUse while there is a wrapper.
RollBackAllPending ==
    /\ up /\ table = {}
    /\ RollBackAll
    /\ UNCHANGED <<server, work, calls, crashes>>

-------------------------------------------------------------------------------
(***************************************************************************)
(* The server process                                                       *)
(***************************************************************************)

\* Its memory is gone, and the sessions are disconnected.
Gone ==
    /\ up' = FALSE /\ table' = {}
    /\ refs' = [t \in Ids |-> 0]
    /\ completed' = [t \in Ids |-> FALSE]
    /\ streams' = [t \in Ids |-> "fresh"]
    /\ trans' = [s \in Sessions |-> NoId]

Crash ==
    /\ up /\ crashes < MaxCrashes /\ crashes' = crashes + 1
    /\ Gone
    /\ UNCHANGED <<durable, outcome, work, calls, faults>>

\* KStsServerShutdownPeriod after the last session was closed.  The container
\* is destroyed with the wrappers left in it.
Exit ==
    /\ up /\ \A s \in Sessions : trans[s] = NoId
    /\ Gone
    /\ UNCHANGED <<durable, outcome, work, calls, crashes, faults>>

\* Mutant: pending transactions are not looked for at start.
StartWithoutRecovery ==
    /\ ~up /\ up' = TRUE
    /\ UNCHANGED <<durable, outcome, faults>>
    /\ UNCHANGED <<table, refs, completed, streams, trans, work, calls, crashes>>

\* ConstructL rolls back before the server accepts a session; errors are ignored.
Start ==
    /\ ~up /\ up' = TRUE
    /\ RollBackAll
    /\ UNCHANGED <<table, refs, completed, streams, trans, work, calls, crashes>>

-------------------------------------------------------------------------------
Request(s) ==
    \/ \E t \in Ids : CreateTransaction(s, t) \/ OpenTransaction(s, t)
    \/ Operate(s)
    \/ Commit(s) \/ CommitFailsLate(s)
    \/ RollBack(s) \/ RollBackFails(s)
    \/ CloseSession(s)

Next ==
    \/ \E s \in Sessions : Request(s)
    \/ RollBackAllPending
    \/ Crash \/ Exit \/ Start

Spec == Init /\ [][Next]_vars

(***************************************************************************)
(* Fairness.  Every session is closed one day (the kernel closes it when     *)
(* its client dies); a server without sessions exits after two seconds, and   *)
(* MaxCreates and MaxOpens say that clients leave it without sessions one     *)
(* day; it is started by the next client, at the latest after the next boot. *)
(***************************************************************************)
Fairness ==
    /\ \A s \in Sessions : WF_vars(CloseSession(s))
    /\ WF_vars(Exit)
    /\ WF_vars(Start)

FairSpec == Spec /\ Fairness

-------------------------------------------------------------------------------
TypeOK ==
    /\ pending \in [Ids -> SUBSET Ops]
    /\ stage \in [Ids -> {"files", "redo", "undo"}]
    /\ up \in BOOLEAN /\ table \subseteq Ids
    /\ refs \in [Ids -> Nat]
    /\ completed \in [Ids -> BOOLEAN]
    /\ streams \in [Ids -> {"fresh", "open", "closed"}]
    /\ trans \in [Sessions -> Ids \cup {NoId}]
    /\ made \in [Ids -> SUBSET Ops]
    /\ kept \subseteq Ops /\ undone \subseteq Ops
    /\ failed \subseteq Ids /\ late \subseteq Ids
    /\ count \in 0 .. MaxOps
    /\ creates \in 0 .. MaxCreates /\ opens \in 0 .. MaxOpens
    /\ crashes \in 0 .. MaxCrashes /\ faults \in 0 .. MaxFaults

\* A session's transaction has a wrapper, and iRefCount counts the sessions that
\* hold it: no session uses a deleted CIntegrityServices (ReleaseTransactionL).
RefsExact ==
    /\ \A s \in Sessions : trans[s] \in table \cup {NoId}
    /\ \A t \in Ids : refs[t] = Cardinality(Attached(t))

\* A transaction that a session holds is resolved only by a session that lets go
\* of it, by the last one or on its request: neither recovery nor the end of one
\* of several sessions touches it (RollBackAllPendingL, ReleaseTransactionL).
ResolvedByHolder ==
    [][\A t \in Ids : pending[t] # {} /\ pending'[t] = {} /\ Attached(t) # {}
          => /\ \E s \in Attached(t) : trans'[s] # t
             /\ Cardinality(Attached(t)) = 1 \/ completed'[t]]_vars

\* sts.h: Close "also rolls back the transaction in case neither CommitL not
\* RollBackL were invoked previously": what is pending in a running server without
\* a session is the rest of a roll back that failed, or was made by a session
\* after another one had completed the transaction - and nothing else, whatever
\* crashes, failures and restarts come between.
NothingLeftBehind ==
    up => \A t \in Ids : pending[t] # {} /\ Attached(t) = {} => t \in failed \cup late

\* sts.h: "either all operations fail or all operations succeed together", of
\* several sessions of one transaction too, unless one of them operates after
\* another one has completed it; and whatever failed commits and roll backs,
\* crashes and earlier transactions of the same identifier there are.
AllTogether ==
    \A t \in Ids : \/ made[t] \cap kept = {}
                   \/ made[t] \cap undone = {}
                   \/ t \in late

\* CreateTransactionID looks for the identifier among the active transactions only,
\* and the clock's word comes again: a transaction begins with the operations of
\* an earlier one only if that one's roll back failed, or its last operations
\* were made after it was completed.
BeginsEmpty ==
    \A t \in table : pending[t] \subseteq made[t] \/ t \in failed \cup late

\* Every operation is kept or undone in the end.
AllResolved == \A t \in Ids : pending[t] # {} ~> pending[t] = {}
===============================================================================
