------------------------------ MODULE ScrServer ------------------------------
(***************************************************************************)
(* The server of the software component registry (SCR): the sessions, the    *)
(* one transaction they share (explicit, or implicit around one request),    *)
(* the views they read through, and the single SQLite connection that all    *)
(* of them use.  The server is one thread: a request is one step.            *)
(*                                                                           *)
(* The registry is the set of rows of every component.  `work' is what the   *)
(* connection sees, `disk' what survives the end of the process.             *)
(***************************************************************************)
EXTENDS Naturals, Sequences, FiniteSets

CONSTANTS Sessions, Components, NoSession

ASSUME ScrAssumption == NoSession \notin Sessions

VARIABLES
    open,    \* connected sessions
    view,    \* the subsession of each session and the state of its statement
    owner,   \* iTransactionOwningSession
    auto,    \* sqlite3.autoCommit: no transaction is open in the connection
    stuck,   \* a statement that is gone still counts in sqlite3.activeVdbeCnt
    work,    \* the rows that the connection sees
    disk,    \* the rows in the database file
    impl,    \* iRequestImpl exists
    leak,    \* the locks that connections which could not be closed still hold
    late,    \* the rows that such a connection will still commit
    excused, \* components that a failed request left half written in a
             \* transaction of the client's own (history)
    foreign  \* by which requests, those the preamble knows or others, sessions
             \* have written while another one owned a transaction (history)

vars == <<open, view, owner, auto, stuck, work, disk, impl, leak, late, excused, foreign>>
lost == <<leak, late>>
seen == <<excused, foreign>>
db == <<auto, stuck, work, disk>>

\* The component, its names, one of its files and the drive bit of that file, and
\* one value that requests of a single statement set.
Row == {"base", "text", "file", "drive", "prop"}
NoRows == [c \in Components |-> {}]

\* rows: has returned a row and not ended; busy: could not end, as the commit it
\* has to make found the file locked; dead, deadbusy: the same, aborted by
\* SQLite; stale: belongs to a connection that has been replaced.
ViewState == {"none", "open", "rows", "busy", "done", "dead", "deadbusy", "stale"}
Refused == {"busy", "deadbusy"}

TypeOK ==
    /\ open \subseteq Sessions
    /\ view \in [Sessions -> ViewState]
    /\ owner \in Sessions \cup {NoSession}
    /\ auto \in BOOLEAN
    /\ stuck \in BOOLEAN
    /\ work \in [Components -> SUBSET Row]
    /\ disk \in [Components -> SUBSET Row]
    /\ impl \in BOOLEAN
    /\ leak \in {"none", "readers", "writer", "late"}
    /\ late \in [Components -> SUBSET Row]
    /\ excused \subseteq Components
    /\ foreign \subseteq {"known", "unknown"}

Init ==
    /\ open = {}
    /\ view = [s \in Sessions |-> "none"]
    /\ owner = NoSession
    /\ auto = TRUE
    /\ stuck = FALSE
    /\ disk \in {NoRows, [c \in Components |-> {"base", "text"}]}
    /\ work = disk
    /\ impl = TRUE
    /\ leak = "none"
    /\ late = NoRows
    /\ excused = {}
    /\ foreign = {}

-----------------------------------------------------------------------------
(* The SQLite connection.                                                    *)

Running == {"rows", "busy", "dead", "deadbusy"}
Active == {s \in Sessions : view[s] \in Running}
Idle == Active = {} /\ ~stuck
LastRunning(s) == Active = {s} /\ ~stuck

\* A commit needs the file for itself, and a write the reserved lock.
CanWrite == impl /\ leak \in {"none", "readers"}
CanPublish == impl /\ leak = "none"

\* A statement that writes: in auto-commit mode it is committed as it halts, and
\* undone when the file is locked, unless another statement is still running; then
\* the last one to halt commits.
Write(new) ==
    /\ CanWrite
    /\ auto /\ Idle => CanPublish
    /\ work' = new
    /\ disk' = IF auto /\ Idle THEN new ELSE disk
    /\ UNCHANGED <<auto, stuck>>

\* BEGIN IMMEDIATE;
CanBegin == auto /\ CanWrite

\* COMMIT; and ROLLBACK; fail while statements run.
CanCommit == ~auto /\ Idle /\ CanPublish
CanRollBack == ~auto /\ Idle /\ impl

\* Mutant: as if the transaction ended with the statement.
HaltedCommits(s) == IF LastRunning(s) /\ CanPublish THEN work ELSE disk

\* The database file once the statement of s has halted.
Halted(s) == IF auto /\ LastRunning(s) /\ CanPublish THEN work ELSE disk

\* It cannot halt: it has to commit, and the file is locked.
Blocked(s) == auto /\ LastRunning(s) /\ work # disk /\ ~CanPublish

\* Out of memory or an I/O error in any statement that has begun a
\* transaction, SELECTs too: all is rolled back, other statements are aborted.
RollBackAll ==
    /\ auto' = TRUE
    /\ work' = disk
    /\ disk' = disk
    /\ stuck' = stuck

Aborted(except) ==
    [t \in Sessions |->
        IF t = except THEN view[t]
        ELSE IF view[t] = "rows" THEN "dead"
        ELSE IF view[t] = "busy" THEN "deadbusy" ELSE view[t]]

\* The statement of s is finalized.  When it has been told that the file is
\* locked, it ends with that error, and all is rolled back.  When it finds the file
\* locked only now, nobody is told, and the connection counts it as running
\* for ever.
Finalized(s) ==
    IF view[s] \in Refused
    THEN [view |-> [Aborted(s) EXCEPT ![s] = "none"], auto |-> TRUE, stuck |-> stuck,
          work |-> disk, disk |-> disk]
    ELSE [view |-> [view EXCEPT ![s] = "none"], auto |-> auto, stuck |-> stuck \/ Blocked(s),
          work |-> work, disk |-> Halted(s)]

-----------------------------------------------------------------------------
(* What requests write, statement by statement.                              *)

Implicit == {"AddComponent", "DeleteComponent", "RegisterComponentFile",
             "UnregisterComponentFile"}
Single == {"SetComponentProperty", "DeleteComponentProperty"}

\* The rows of the component after each of the statements of the request.
Statements(f, r) ==
    CASE f = "AddComponent" -> <<r \cup {"base"}, r \cup {"base", "text"}>>
      [] f = "DeleteComponent" ->
            <<r \ {"prop"}, r \ {"prop", "file"}, r \ {"prop", "file", "text"}, {}>>
      [] f = "RegisterComponentFile" -> <<r \cup {"file"}, r \cup {"file", "drive"}>>
      [] f = "UnregisterComponentFile" -> <<r \ {"file"}, r \ {"file", "drive"}>>
      [] f = "SetComponentProperty" -> <<r \cup {"prop"}>>
      [] f = "DeleteComponentProperty" -> <<r \ {"prop"}>>
      [] f = "SetScomoState" -> <<r \cup {"prop"}>>

\* Identifiers are unique; the other requests are for components that exist.
Applies(f, c) ==
    IF f = "AddComponent" THEN work[c] = {}
    ELSE /\ "base" \in work[c]
         /\ f = "RegisterComponentFile" => "file" \notin work[c]
         /\ f = "UnregisterComponentFile" => "file" \in work[c]

Done(f, c) ==
    LET steps == Statements(f, work[c]) IN [work EXCEPT ![c] = steps[Len(steps)]]

\* A request fails after some of its statements.  AddComponent deletes what it
\* has added, except when it fails after that, as it writes the result back.
Failed(f, c) ==
    LET steps == Statements(f, work[c])
        reached == IF f = "AddComponent" THEN {Len(steps)} ELSE 1 .. Len(steps) - 1
    IN {work} \cup {[work EXCEPT ![c] = steps[k]] : k \in reached}

Whole(r) ==
    /\ "base" \in r <=> "text" \in r
    /\ "file" \in r <=> "drive" \in r

-----------------------------------------------------------------------------
(* Transactions.                                                             *)

IsTransactionInProgress == owner # NoSession
IsTransactionOwner(s) == owner = s

Connect(s) ==
    /\ s \notin open
    /\ open' = open \cup {s}
    /\ UNCHANGED <<view, owner, db, impl, lost, seen>>

\* ECreateTransaction
CreateTransaction(s) ==
    /\ s \in open
    /\ ~IsTransactionInProgress
    /\ CanBegin
    /\ auto' = FALSE
    /\ owner' = s
    /\ UNCHANGED <<open, view, stuck, work, disk, impl, lost, seen>>

\* Mutant: any session commits.
CommitAnybodys(s) ==
    /\ s \in open
    /\ CanCommit
    /\ disk' = work
    /\ auto' = TRUE
    /\ owner' = NoSession
    /\ foreign' = {}
    /\ UNCHANGED <<open, view, stuck, work, impl, lost, excused>>

\* ECommitTransaction
CommitTransaction(s) ==
    /\ s \in open
    /\ IsTransactionOwner(s)
    /\ CanCommit
    /\ disk' = work
    /\ auto' = TRUE
    /\ owner' = NoSession
    /\ foreign' = {}
    /\ UNCHANGED <<open, view, stuck, work, impl, lost, excused>>

\* ERollbackTransaction
RollbackTransaction(s) ==
    /\ s \in open
    /\ IsTransactionOwner(s)
    /\ CanRollBack
    /\ work' = disk
    /\ auto' = TRUE
    /\ owner' = NoSession
    /\ foreign' = {}
    /\ UNCHANGED <<open, view, stuck, disk, impl, lost, excused>>

\* An error of the commit itself rolls back, and the owner stays the owner.
CommitError(s) ==
    /\ s \in open
    /\ IsTransactionOwner(s)
    /\ CanCommit
    /\ RollBackAll
    /\ view' = Aborted(NoSession)
    /\ UNCHANGED <<open, owner, impl, lost, seen>>

\* Mutant: the owner is not looked at.
NoConstraint(s) == TRUE

ApplyTransactionConstraint(s) == IsTransactionInProgress => IsTransactionOwner(s)

Wrote(s, how) ==
    foreign' = IF IsTransactionInProgress /\ ~IsTransactionOwner(s) THEN foreign \cup {how} ELSE foreign

\* A request of several statements in a transaction that the client has created.
MutateExplicit(s, f, c) ==
    /\ s \in open
    /\ IsTransactionInProgress
    /\ ApplyTransactionConstraint(s)
    /\ f \in Implicit
    /\ Applies(f, c)
    /\ \/ Write(Done(f, c)) /\ UNCHANGED excused
       \/ \E w \in Failed(f, c) :
             /\ Write(w)
             /\ excused' = IF Whole(w[c]) THEN excused ELSE excused \cup {c}
    /\ Wrote(s, "known")
    /\ UNCHANGED <<open, view, owner, impl, lost>>

\* Mutant: no transaction around the request.
MutateBare(s, f, c) ==
    /\ s \in open
    /\ ~IsTransactionInProgress
    /\ f \in Implicit
    /\ Applies(f, c)
    /\ \E w \in {Done(f, c)} \cup Failed(f, c) : Write(w)
    /\ UNCHANGED <<open, view, owner, impl, lost, seen>>

\* A request of several statements when there is no transaction: it is given one,
\* which is committed at the end, or rolled back (CancelTransaction).  Neither
\* works while a view is being read, and the owner is cleared all the same.
MutateImplicit(s, f, c) ==
    /\ s \in open
    /\ ~IsTransactionInProgress
    /\ f \in Implicit
    /\ Applies(f, c)
    /\ CanBegin
    /\ \E w \in {Done(f, c)} \cup Failed(f, c) :
          LET commits == w = Done(f, c) IN
          IF ~Idle
          THEN auto' = FALSE /\ work' = w /\ disk' = disk
          ELSE /\ auto' = TRUE
               /\ work' = IF commits /\ CanPublish THEN w ELSE disk
               /\ disk' = IF commits /\ CanPublish THEN w ELSE disk
    /\ owner' = NoSession
    /\ UNCHANGED <<open, view, stuck, impl, lost, seen>>

\* A request of one statement has no transaction of its own.
MutateSingle(s, f, c) ==
    /\ s \in open
    /\ f \in Single
    /\ ApplyTransactionConstraint(s)
    /\ Applies(f, c)
    /\ Write(Done(f, c))
    /\ Wrote(s, "known")
    /\ UNCHANGED <<open, view, owner, impl, lost, excused>>

\* ESetScomoState is not among the requests that MutatingOperationsPreambleL
\* knows: no constraint holds it back.
SetScomoState(s, c) ==
    /\ s \in open
    /\ Applies("SetScomoState", c)
    /\ Write(Done("SetScomoState", c))
    /\ Wrote(s, "unknown")
    /\ UNCHANGED <<open, view, owner, impl, lost, excused>>

\* Memory or the disk fails in a request that writes, in a transaction or not.
MutateError(s) ==
    /\ s \in open
    /\ CanWrite
    /\ RollBackAll
    /\ view' = Aborted(NoSession)
    /\ UNCHANGED <<open, owner, impl, lost, seen>>

-----------------------------------------------------------------------------
(* Views: subsessions that step through a statement, request by request.     *)

\* DoCreateSubsessionL and the Open request of the view: a component view at any
\* time, a file list only if no other session has a transaction.
OpenView(s, anyTime) ==
    /\ s \in open
    /\ impl
    /\ view[s] = "none"
    /\ anyTime \/ ApplyTransactionConstraint(s)
    /\ view' = [view EXCEPT ![s] = "open"]
    /\ UNCHANGED <<open, owner, db, impl, lost, seen>>

Steppable == {"open", "rows", "busy"}

\* The next row, of which there may be none.
NextRow(s) ==
    /\ s \in open
    /\ impl
    /\ view[s] \in Steppable
    /\ \/ /\ view' = [view EXCEPT ![s] = "rows"]
          /\ UNCHANGED disk
       \/ /\ ~Blocked(s)
          /\ view' = [view EXCEPT ![s] = "done"]
          /\ disk' = Halted(s)
       \/ /\ Blocked(s)
          /\ view' = [view EXCEPT ![s] = "busy"]
          /\ UNCHANGED disk
    /\ UNCHANGED <<open, owner, auto, stuck, work, impl, lost, seen>>

NextRowError(s) ==
    /\ s \in open
    /\ impl
    /\ view[s] \in Steppable
    /\ RollBackAll
    /\ view' = [Aborted(s) EXCEPT ![s] = "done"]
    /\ UNCHANGED <<open, owner, impl, lost, seen>>

Stale == {t \in Sessions : view[t] = "stale"}

\* The statements of an earlier connection keep its locks.  Its transaction, if it
\* has one, stays until the process ends; what it has not committed yet, its
\* last statement commits if nobody else reads the file, and otherwise the
\* lock stays as well.  Which statement is the last one of its connection is left
\* open.
LeakAfter(s) ==
    \/ /\ s \notin Stale \/ Stale # {s} \/ leak \notin {"readers", "late"}
       /\ disk' = Finalized(s).disk
       /\ UNCHANGED lost
    \/ /\ s \in Stale
       /\ leak = "readers"
       /\ disk' = Finalized(s).disk
       /\ leak' = "none"
       /\ late' = NoRows
    \/ /\ s \in Stale
       /\ leak = "late"
       /\ late' = NoRows
       /\ \/ /\ Active = {} \/ late = disk
             /\ disk' = late
             /\ leak' = "none"
          \/ /\ Active # {} \/ Stale # {s}
             /\ late # disk
             /\ disk' = disk
             /\ leak' = "writer"

\* What the connection sees then: what a statement of an earlier one has committed.
WorkAfter(s) == IF leak = "late" /\ leak' = "none" THEN disk' ELSE Finalized(s).work

\* The subsession is closed; its statement is finalized.
CloseView(s) ==
    /\ s \in open
    /\ view[s] # "none"
    /\ LeakAfter(s)
    /\ view' = Finalized(s).view
    /\ auto' = Finalized(s).auto
    /\ stuck' = Finalized(s).stuck
    /\ work' = WorkAfter(s)
    /\ UNCHANGED <<open, owner, impl, seen>>

-----------------------------------------------------------------------------
(* The end of a session and of the server.                                   *)

Others(s) == {t \in Sessions \ {s} : view[t] # "none"}

\* The ROLLBACK of ~CScrSession, after the session's own statement is gone.
RollsBack(s) ==
    impl /\ ~Finalized(s).auto /\ ~Finalized(s).stuck /\ Active \subseteq {s}

\* ~CScrSession: its subsessions are closed, a transaction that was left open is
\* rolled back.
CloseSession(s) ==
    /\ s \in open
    /\ open' = open \ {s}
    /\ LeakAfter(s)
    /\ view' = Finalized(s).view
    /\ stuck' = Finalized(s).stuck
    /\ IF IsTransactionOwner(s)
       THEN /\ RollsBack(s)
            /\ work' = disk'
            /\ auto' = TRUE
            /\ owner' = NoSession
            /\ foreign' = {}
       ELSE /\ work' = WorkAfter(s)
            /\ auto' = Finalized(s).auto
            /\ UNCHANGED <<owner, foreign>>
    /\ UNCHANGED <<impl, excused>>

\* ReconnectL: sqlite3_close refuses while there are statements of others.  What
\* is opened next shares the file with the connection that remains, which holds
\* the lock for reading or that for writing; what it has written and not committed
\* is lost when a statement is left that has been told that the file is locked.
Reconnect(s) ==
    LET f == Finalized(s)
        undone == \E t \in Others(s) : f.view[t] \in Refused
        reads == \E t \in Others(s) :
                    f.view[t] = "rows" \/ (f.view[t] = "stale" /\ leak = "readers")
    IN /\ view' = [t \in Sessions |-> IF t \in Others(s) THEN "stale" ELSE "none"]
       /\ disk' = f.disk
       /\ work' = disk'
       /\ auto' = TRUE
       /\ stuck' = FALSE
       /\ impl' \in BOOLEAN
       /\ leak' = CASE Others(s) = {} -> "none"
                    [] Others(s) # {} /\ f.auto /\ f.work = disk' ->
                          IF reads THEN "readers" ELSE "none"
                    [] Others(s) # {} /\ ~(f.auto /\ f.work = disk') ->
                          IF undone \/ (f.auto /\ ~f.stuck) THEN "late" ELSE "writer"
       /\ late' = IF leak' # "late" THEN NoRows ELSE IF undone THEN disk' ELSE f.work

\* ~CScrSession when the roll back fails.
CloseSessionReconnects(s) ==
    /\ s \in open
    /\ IsTransactionOwner(s)
    /\ ~RollsBack(s)
    /\ Reconnect(s)
    /\ open' = open \ {s}
    /\ owner' = NoSession
    /\ foreign' = {}
    /\ UNCHANGED excused

\* The next process finds what is on the disk.
Restart ==
    /\ open' = {}
    /\ view' = [s \in Sessions |-> "none"]
    /\ owner' = NoSession
    /\ auto' = TRUE
    /\ stuck' = FALSE
    /\ work' = disk'
    /\ impl' = TRUE
    /\ leak' = "none"
    /\ late' = NoRows
    /\ foreign' = {}

\* The process ends: KScrServerShutdownPeriod after the last session, or because
\* the device goes down.
ServerEnds ==
    /\ disk' = disk
    /\ Restart
    /\ UNCHANGED excused

\* It ends between two statements of a request that believes to be in a
\* transaction, which SQLite has rolled back before.
ServerEndsInRequest(s, f, c) ==
    /\ s \in open
    /\ IsTransactionOwner(s)
    /\ auto /\ Idle /\ CanPublish
    /\ f \in Implicit
    /\ Applies(f, c)
    /\ \E k \in 1 .. Len(Statements(f, work[c])) - 1 :
          disk' = [work EXCEPT ![c] = Statements(f, work[c])[k]]
    /\ Restart
    /\ excused' = excused \cup {c}

Next ==
    \/ \E s \in Sessions :
          \/ Connect(s) \/ CreateTransaction(s) \/ CommitTransaction(s)
          \/ RollbackTransaction(s) \/ CommitError(s) \/ MutateError(s)
          \/ NextRow(s) \/ NextRowError(s) \/ CloseView(s)
          \/ CloseSession(s) \/ CloseSessionReconnects(s)
          \/ \E anyTime \in BOOLEAN : OpenView(s, anyTime)
          \/ \E c \in Components :
                \/ SetScomoState(s, c)
                \/ \E f \in Implicit \cup Single :
                      \/ MutateExplicit(s, f, c) \/ MutateImplicit(s, f, c)
                      \/ MutateSingle(s, f, c) \/ ServerEndsInRequest(s, f, c)
    \/ ServerEnds

Spec == Init /\ [][Next]_vars

-----------------------------------------------------------------------------
(* Properties.                                                               *)

\* The session that iTransactionOwningSession points at exists.
OwnerConnected == owner # NoSession => owner \in open

\* A component is in the database file with all of its rows or not at all, unless a
\* request of a client's own transaction failed half way: the transaction around
\* each single request of several statements is what this rests on.
WholeOnDisk == \A c \in Components : Whole(disk[c]) \/ c \in excused

\* As long as a session owns an open transaction, nothing reaches the database file
\* until that session commits: not at the end of another session's view, not
\* by a request of another session.
TransactionHides ==
    [][\A s \in Sessions :
          IsTransactionOwner(s) /\ ~auto => disk' = disk \/ CommitTransaction(s)]_vars

\* As long as a session owns a transaction, no other session alters the rows by a
\* request that the preamble knows: what the owner commits or rolls back is its own.
OnlyOwnerWrites == "known" \notin foreign

\* "Only the owning session can invoke APIs altering database data"
\* (scrsession.cpp:395), ESetScomoState included.
NobodyElseWrites == foreign = {}

\* What a request that failed has left in a transaction nobody owns never reaches
\* the database file, whoever asks for a commit afterwards.
OrphanNeverLands ==
    [][~IsTransactionInProgress /\ ~auto => disk' = disk]_vars

\* A client that has been told that its transaction is committed finds all of it in
\* the database file, and one that it is rolled back none of it.
EndsClean ==
    [][\A s \in Sessions :
          IsTransactionOwner(s) /\ owner' = NoSession /\ s \in open' =>
              work' = disk' /\ auto' /\ disk' \in {disk, work}]_vars

\* "NULL means there is no transaction in progress" (scrserver.h:113).
NoOwnerNoTransaction == owner = NoSession => auto
=============================================================================
